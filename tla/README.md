# A verification of durable-channel

durable-channel is a TypeScript library for shared, event-sourced state: a *hub* owns channels
(URI, state, reducer), *connections* subscribe to them and dispatch actions, the hub commits every
action under one sequence number and broadcasts the envelope, and a *client* mirrors the state
optimistically and reconciles it with what the hub decided. This directory holds TLA+ modules that
model the hub with its background tasks and its replay ring, the session between a client and the
hub, the transports, the client's event streams, and the routes and storages behind a hub's families
of channels; TLC configurations that check them on small instances; and proofs, for every size, of all
the safety properties of the hub, its ring, its background tasks, the transports, the event streams and the
session, and of those of the families of channels but one (`PagesAgree`).

Source paths below are relative to the repository (`src/hub.ts` is the repository's file).

## 1. Inventory

| Component | State it keeps | Operations | Here |
| --- | --- | --- | --- |
| Hub, `src/hub.ts` | `#serverSeq`, `#instances` (URI to object with `state`), `#links` (client ID to link: handle, subscriptions, watermark), `#lock` (promise chain), `#hydration`, `#replay` | `connect`, `disconnect`, `subscribe`, `unsubscribe`, `reconnect`, `dispatch`, `dispatchFrom`, `exec`, `execFrom`, `notify`, `get`, `create`, `destroy`; read-only: `has`, `list`, `of`, `generateSchema` | `Hub`; `list` and `of` in `Catalog` |
| Replay ring, `src/hub.ts` | a fixed array, `#head`, `#size` | `append`, `since`, `covers` | `ReplayRing`, `ReplayWindow` |
| Background tasks, `src/hub.ts` | `#aborters`, `#running`, `#closed` | `background`, `abortBackground`, `destroy`, `close` | `Background` |
| Client session, `src/client.ts` | link status, transport, open requests, subscriptions, `clientSeq`, `lastSeenServerSeq`, identity, queue of checkpoints | `hello`, `reconnect`, `subscribe`, `unsubscribe`, `dispatch`, `exec`, `shutdown`, the frame loop, timeouts, `flushPersistence`, restore | `Client`, `Session` |
| Client mirror, `src/client.ts` | confirmed state, pending actions, buffer of envelopes before the first snapshot | snapshot, drain, optimistic apply, reconcile, discard, restate | `Mirror` |
| Broadcast queue, `src/client.ts` | one buffer, cursors of its readers, high-water mark | `publish`, `reader`, `next`, `return`, `close` | `BroadcastQueue` |
| JSON-RPC facade, `src/rpc.ts` | the bound connection of a socket, its chain of requests | `hello`, `reconnect`, `subscribe`, ..., frame by frame; `detach`, `close` | `Server` |
| Storage, `src/storage.ts`, `src/sqlite.ts` | a key-value table | `get`, `set`, `delete`, paged `list` | values are variables of `Hub`; the scan in `Storage`, `Catalog` |
| Client storage, `src/client-storage.ts` | one checkpoint | `load`, `save`, `clear` | the variable `stored` of `Client` |
| Routes, `src/routes.ts` | the templates, in the order they were added | `route`, `matchRoute`, `resolveUri`, `isSingleton` | `Routes` |
| Transports, `src/transport.ts` | `#inbox`, waiters, `#error`, `#closed` | `send`, `recv`, `close`, the events of a socket | `Transport`; `Wire` in the sessions |
| Schemas, documents, errors, `src/{schema,hana,document,error,mod}.ts` | none | pure conversions and classes | not modelled |

How they interact: a socket's frames go through the JSON-RPC facade to the hub, which answers
requests and pushes envelopes and notifications through the link's `send` callback. Host code
(policies, reducers, command handlers, effects) is called by the hub and may call it back. The hub
awaits the storage; the client awaits its transport and writes to its own storage without awaiting.

Everything runs on one JavaScript thread: code between two awaits is atomic, and an await is a
point where any other pending call may run. What is hard is therefore what spans an await:

- one commit mutex, but every operation also reads state outside it;
- two writes per commit (state, then sequence) with a crash or a failure between them;
- connections that are replaced, dropped or come back while their calls are pending;
- a replay that has to meet live broadcasts without a gap;
- on the client: optimistic actions, own and foreign envelopes, snapshots and answers that arrive
  in different orders, and a restart from what was last persisted.

What makes each component correct: for the hub, that sequence numbers order one log, are durable
before anybody hears of them and never reused; that state in memory, state in storage and the log
agree; that a link is told envelopes in order, a resumed link without a gap, and a link that is gone
nothing; that every call settles. For the ring, that it is a window over the latest envelopes. For
the client, that the confirmed state of a mirror is the hub's state at some sequence, that every
dispatch has exactly one outcome, and that a resumed session misses nothing. For background tasks,
that each can be told to stop for as long as it has not been, and that `close` resolves. For a
transport, that it is a stream that ends after its last frame and leaves nobody waiting; for an event
stream, that readers do not notice one another. For families of channels, that a scan neither misses
nor repeats what was there throughout, and that both storages order keys alike.

`PROJECT.json` lists under "hazards" each place of the code where one of these could go wrong.

## 2. The modules

| Module | Contents |
| --- | --- |
| `Hub` | The hub: 39 actions over the state above, one per turn of an operation |
| `HubProperties` | What the hub must do right, and `FairSpec` |
| `CommitLog` | Abstract specification of commits: reserve a number durably, then publish under it |
| `ReplayWindow` | Operators of the replay window as the hub uses it: `Push`, `Covers`, `Missed` |
| `BoundedReplay` | The window as an abstract specification |
| `ReplayRing` | The circular buffer of the code; it implements `BoundedReplay` |
| `MCHub` | Requests, scenarios and other values of the hub's runs |
| `Background`, `MCBackground` | Background tasks, abort and `close`, composed with the hub |
| `Mirror` | Operators on what a client shows: reconciliation, snapshots, pending actions |
| `Selection` | Part of a sequence, named by its positions, for the filters of the session |
| `Wire` | The sockets: two queues of frames each, which may end |
| `Server` | The hub as one client meets it through `attachSocket` |
| `Client` | The client: its calls, the frames it receives, timers, checkpoints |
| `Session` | One client and the hub composed |
| `SessionProperties` | What the two must do right together |
| `Follower` | Abstract specification of a client's copies: they move forward along the log |
| `Transport` | The receiving end of both transports |
| `Stream` | Abstract specification of a transport |
| `BroadcastQueue` | The shared buffer behind the client's event streams |
| `EventWindows` | Abstract specification of an event stream: a window for each reader |
| `Delivery`, `MCDelivery` | Hub ring, transport, receive loop and event stream composed |
| `Strings`, `Routes` | Code units, segments; templates and how a URI finds its route |
| `Storage` | The prefix scan of the memory storage and of SQLite |
| `Catalog`, `MCCatalog` | Families of channels: `of`, `create`, `destroy` and `list` under way |
| `HubProofs` | Theorems about the hub: order of the log, refinement and links; contents of states, snapshots and replays; background tasks |
| `DeliveryProofs` | Theorems about the ring, and the way from the ring to the readers |
| `SessionProofs`, `SessionLogProofs` | Theorems about the session: what is rendered, outcomes, mirrors, who waits; what it leaves in the log, and the order of its links, jobs and answers |
| `MirrorProofs`, `ConfirmedProofs` | What the steps of the client and of the hub do to the copies of a client; theorems about what the copies hold, and that they never go back |
| `CatalogProofs` | Theorems about the scan of a family: the order of strings, splitting and joining, pages, routes |
| `NaturalRecursion` | Induction and recursive functions over naturals and finite sets, least and greatest elements of sets of naturals |

### Hub

**Grain.** A call of the API is a process of `Calls` that is used once. `pc[c]` is the await it is
suspended at, `frame[c]` its local variables, `arg[c]` what it was asked for. An action is what the
code does from one await to the next, with everything it changes. A storage operation takes effect
in the turn that issues it (as in `MemoryStorage` and the synchronous SQLite driver), and its caller
goes on in a later turn; between the two anything else may happen. A turn that changes nothing and
whose checks are made again by the next turn is merged with it.

| State of the code | Variable |
| --- | --- |
| `#hydration` resolved, `#serverSeq` | `hydrated`, `serverSeq` |
| `#instances`: URI to object | `instances`: URI to the name of the object (the call that built it, or `Host`) |
| `instance.state` of each object, also of one that is no longer in the map | `heap[u][object]` |
| `#lock`, the promise chain | `lock`: the queue of calls, whose head is inside |
| `#replay` | `ring`, through the operators of `ReplayWindow` |
| `#links`, `link.subscriptions`, `link.watermark` | `link`, `subs`, `watermark`, by handle |
| storage at `["channel", ...]` and `["hub", "serverSeq"]` | `storage`, `storedSeq` |
| (history) what was broadcast; what each link was sent or answered | `log`, `inbox` |

**Data.** A state is the sequence of the calls whose actions were reduced into it: two states are
equal only if the same actions were applied in the same order, so a lost, doubled or reordered
action is visible. What an unknown action, an invalid payload or a server-only action have in common
is the field `valid` of a request; `lenient` is the option of `dispatchFrom`. Routes are sets of URIs
(`Stateless`, `Singletons`, `Internal`, `Guarded`). Host code does any of `Outcomes`: a reducer
accepts, rejects or throws, an effect or a handler returns, throws, or dispatches and waits for it.

**Faults.** "write": any write or delete of the storage may be rejected, without effect. "crash": the
process dies between any two turns; a new hub is built on the same storage, pending calls are
dropped. "send": a link's `send` throws in a broadcast.

**Left out of Hub.** Failing reads of the storage; `onDisconnect`; validation of
command and notification names and parameters (they throw before anything is changed) and of
command results (the outcome "throw"); what a policy or a handler reads. One rejected hydration
makes every later call fail, so nothing that happens after it is of interest.

### ReplayRing

The array, `#head` and `#size` as in the code, one action (`append`). Sequences increase by one, or
by two where a failed commit has spent a number. `Window` reads the array from the head on; with it
the ring implements `BoundedReplay`, which is what `Hub` assumes of it.

### Background

`Background` extends the hub. A task is launched by host code that holds a context (a handler, an
effect or another task), runs at once, dispatches and waits for the call, and ends.

| State of the code | Variable |
| --- | --- |
| a task: what it does, its URI, its signal, the call it waits for | `task` |
| `#aborters`: the controller of a URI; controllers that were aborted | `aborters`, `aborted` |
| `#closed`, and how far `close` is | `closing` |
| `#running` | `Running`: the tasks that have not ended |

A controller is named by the task it was made for. `destroy` aborts in the turn in which it issues the
delete (`Aside`). Tasks keep the word that `README.md:349` asks of them: they look at the signal after
every await, and when it is aborted they return. The tasks of the run dispatch only: `exec` and the rest of
the context lead to calls of the hub that settle for the same reasons.

### Delivery: Transport, BroadcastQueue

`Delivery` follows one envelope from the hub's ring to a reader of `events()`. It has one channel and
one client; the handshake is one step (`Welcome`), since its interleavings are those of the session.

| State of the code | Variable |
| --- | --- |
| the array of `#replay`, `#head`, `#size` | those of `ReplayRing` |
| the kind of the transport; frames that a socket has still to bring | `kind`, `wire` |
| `#inbox`, `#error`, `#closed`; a `recv()` and what it resolved with | `inbox`, `error`, `closed`, `call`, `handed` |
| `#buffer`, `#base`, `#closed` of the queue | `buffer`, `base`, `shut` |
| `#cursors`, `cursor.position`, `cursor.waiter` | `iterator`, `position`, `parked` |
| the hub's end of the link; status of the client; `mirror.appliedSeq` | `link`, `client`, `seen` |
| what of the frame in hand the running turn has still to publish | `todo` |
| (history) frames sent and handed over; values read; what was published | `sent`, `taken`, `got`, `published` |

In memory the peer puts a frame into the inbox, or into the hands of the one who waits, in the turn in
which it is sent. A socket brings it in an event of its own. Its events are macrotasks: they fire only when no
turn is left to run, which is what `Quiet` and `NoTurn` say. A frame that cannot be decoded, an error and
an unclean close are all explored, at every moment. After an error nothing more is read: the client gives
the transport up and reconnects. (To a reader that was not waiting at that moment, `WebSocketTransport`
would hand over frames that came after the undecodable one before the error, although
`src/transport.ts:118` promises the error from the next `recv()`; the client's loop is always waiting.)
A reader asks again once it was answered, as `for await` does, so that a cursor has one waiter.

### Routes, Storage, Catalog

Strings are sequences of code units, because this is what these algorithms are about: a template is split at its
slashes, a value may contain one, keys compare unit by unit, and the sort key of SQLite writes every unit
with a fixed number of digits. `Storage` has both scans; `Catalog` makes a hub's instances out of routes
and keys, and runs `list` page by page (`scan`: its route, its page, its cursor) while `create`, `destroy`
and the first touch of a singleton change the keys (`store`). Values are left out. A storage without an
explicit limit hands out everything at once in both implementations; `PageLimit` stands for a storage
that hands out less, which the interface allows and `list` is written for.

Both scans take any integer as their limit. Where it is not positive they differ: `SqliteStorage` throws a
`RangeError` (`src/sqlite.ts:53-55`, `src/sqlite.test.ts:72-74`), which `SqlitePage` answers with `None`, and
`MemoryStorage` hands out what `slice(0, limit)` leaves (`src/storage.ts:72-77`): nothing and no cursor for 0, all
but the last for -1. The hub never passes a limit (`src/hub.ts:657`), so that it does not meet the difference. A limit that
is not an integer, which only SQLite refuses, is not modelled.

### The session: Mirror, Wire, Server, Client

`Session` has one client and the hub. The hub is a log here: what `Hub` shows about two writes, two
objects and `destroy` under way (section 3) is not repeated, so that what fails in a session is the
session's own doing. A step is a turn of one side; the two meet in the queues of `Wire`.

| State of the code | Variable |
| --- | --- |
| frames sent and not yet handled | `up`, `down`, by socket |
| the socket the client's `#drive` reads; sockets that `attachSocket` has detached | `reader`, `detached` |
| `#serverSeq`, what was broadcast; `#replay` | `log` (its length is the sequence); `ring` |
| the one link with the client's ID, its subscriptions and watermark | `link` (its socket), `subs`, `watermark` |
| the handler that a socket's serial queue is in | `job`, by socket |
| `#mirrors`, `#lastSeenServerSeq`, how each dispatch was settled | `view`: `mirrors`, `seen`, `outcome` |
| `#transport`, `#done`, `#initialized` | `current`, `done`, `initialized` |
| `#handshakeReady`, `#handshakeMessages`, `#subscribed` | `ready`, `early`, `subscribed` |
| `#requests` and what their callers go on with; `#nextRequestId`, `#nextClientSeq` | `waiting`, `nextId`, `nextSeq` |
| `#checkpointWritable`, `#persistQueue`, `#persistFailed` | `writable`, `saves`, `failed` |
| callers inside `flushPersistence`; what the storage holds | `flushing`, `stored` |

**Grain.** On the hub's side an action is what happens between two awaits: a frame is taken from a
socket's queue, each channel of a handshake is reached in a turn of its own, a commit enters the
mutex in one turn and publishes in another, and the answer leaves in a third, so that the broadcast of an
envelope precedes the answer. On the client's side a frame and everything its handler resolves is one
action: a transport delivers one frame per event, as a WebSocket does, and microtasks run before the
next. An in-process pipe may hand over a second frame earlier; that order is not explored.

**Data.** A state is the sequence of actions reduced into it: the `clientSeq` of an own one, minus the
`serverSeq` of any other. Reducers agree on both sides, except that a reducer of the hub may reject or
throw. Every request carries an ID, so that an answer may come after its timer.

**Faults.** The hub drops a socket or is restarted on its storage, with or without the commit that was
writing; the client loses its transport, opens another before or after the hub has noticed, and loses
whatever was under way; a request times out; the client shuts down; with a storage its process is
killed at any moment, and a save fails. The host destroys a channel.

**Habits.** The application of the passing runs makes one call at a time for a channel, subscribes once
the link is ready, and says `hello` once. What happens otherwise is switched on by `Habits`:
"resubscribe" is the disagreement of `session_resubscribe`. With "overlap", a `subscribe` that is
answered after an `unsubscribe` of the same URI leaves it subscribed without a mirror
(`SubscribedHasMirror` fails, and with it every later checkpoint, `src/client.ts:560`). With
"rehello", the hub registers a new link without the old subscriptions while the client keeps believing in
them (`QuietAgrees` fails). The documentation promises nothing for these two.

**Left out of the session.** A change of identity; `exec` and `ping`; notifications and event streams
(they change no mirror); several clients (`Foreign` is the accepted commit of anybody else); policies
(in `Hub`); rejected commits of others; a restored client that calls `hello` (it is refused). A save
whose checkpoint equals the last one queued is left out, except where `dispatch`, `shutdown` or a
handshake waits for it.

## 3. The runs

Every run finishes within about three minutes with two workers; the symmetric ones permute the calls or the readers.

| Run | Instance | Properties |
| --- | --- | --- |
| `hub_links` | four scenarios on warm channels without faults: 2 clients and 4 calls out of subscribe, host dispatch and client dispatch with clientSeq 1 or 2; 2 links of one client and one of another principal's, a ring of 1, 3 calls that reconnect and dispatch on guarded, internal and stateless channels; 2 links of one client and 4 calls that dispatch with clientSeq 1 (twice) or 2 and, on the other link, 1; 2 commands, notifications or reads | a subscribed link's mirror follows the log (`MirrorFollowsLogUnlessTorn`, `SnapshotAtMostOneAhead`); state is what the log reduces to (`StateIsTheLog`); a link's commits keep its order and have no duplicate, and the links of a client take turns (`CommitsFollowClient`); a client that comes back misses nothing and is told nothing it may not know (`ResumedSeesAll`, `OneLinkPerClient`, `InternalHidden`) |
| `hub_faults` | four scenarios with all faults on a singleton with a policy, a parameterized channel and an internal one, none of them in the storage at first, with effects that dispatch and wait: 3 calls that create, load, destroy, notify and use channels, with valid and invalid actions; 2 clients that listen and 2 host dispatches; a link that dispatches and subscribes beside its replacement, 3 calls; a client that reconnects, having seen 0 or 1, beside 2 host dispatches and a ring of 1 | numbers are durable before they are heard of, increase, and name one envelope for all who listen, before and after a restart (`DeliveredIsDurable`, `LogIncreasing`, `SameSeqSameEnvelope`); each link hears them in order (`DeliveryInOrder`), and one that is gone nothing (`StaleIsInert`); a replay is what was missed, from the incarnation that answers (`ReplayIsExact`); the hub is a log (`ImplementsCommitLog`); `TypeOK` |
| `hub_tasks` | a channel and a stateless one, commands, effects and tasks that dispatch: 3 calls and a task on the channel, or 2 calls and 3 tasks on both; no symmetry, since it checks liveness, but calls issued in their order | the mutex (`CommitsExclude`), progress of calls (`EveryCallSettles`) and of `close` (`CloseSettles`), `NoTaskEscapes` |
| `delivery` | a ring of 2, sequences up to 4 with one skipped, 2 transports of either kind, 2 readers, a buffer of 2 | the ring (`CoversIsSound`, `CoversIsTight`, `ImplementsWindow`), the transport (`ImplementsStream`, `NobodyWaitsAtTheEnd`), the buffer (`ImplementsWindows`, `BufferIsNeeded`), and the way through all three (`EventsFollowLog`) |
| `catalog` | templates `a/:x`, `:x/:a` and `a`; 8 handles, among them one whose URI the first template catches, an empty value and a value with a slash; 2 foreign keys; pages of 2 | `ScanIsComplete`, `HandleFindsItsOwn`, and `PagesAgree` for every prefix, start and cursor, without a limit and with every one from -2 to the number of keys: the same page where the limit is positive, a refusal by SQLite where it is not |
| `session_live` | 2 channels, 2 sockets, a ring of 1, 1 dispatch and 1 commit of others, 3 requests, timeouts, shutdown, a restarting hub, reducers that accept, reject or throw | nothing is skipped between snapshots, broadcasts and replays (`NothingSkipped`, `QuietAgrees`); copies move forward along the log (`ImplementsFollower`); what is rendered is current (`OptimisticIsCurrent`); dispatches end as the log says (`OutcomesAreTrue`); `TypeOK` |
| `session_durable` | 1 channel that may be destroyed, 2 sockets, 1 dispatch number, 4 requests, a client with a storage that is killed, failing saves, a restarting hub | a restored copy is the hub's state, as long as the channel exists (`ConfirmedIsLog`), no number is used twice (`OncePerNumber`), no dispatch is forgotten (`OpenIsAwaited`), no subscription is without a mirror (`SubscribedHasMirror`) |

The bounds. Every defect we know how to put into the code shows with two commits and one observer:
one call that is suspended and one that overtakes it. Three calls add a second overtaking or a
crash with a commit before and one after it. A ring of one slot is the smallest that can be too
short. The circular buffer is checked apart from the hub, in `delivery`, where a ring of two slots wraps
around, and proved for every size. The number of calls bounds the sequences, the log and every transcript.

A scenario of `hub_links` or `hub_faults` is a bag of requests, a number of calls and some links, to which it restricts a
behaviour (`Fits`); what is "alone" is requested only while no other call runs. A link that has to connect first either
waits without an effect on anything, or is one of two that are used alike. Every behaviour of these runs is one of the hub.
Their symmetry permutes all calls but the last, `c4`, which is issued last, by a scenario that has four.
Two clients that listen are what `SameSeqSameEnvelope` needs: both may hear all commits, or one of them dies with
the first incarnation and the other subscribes in the second, where a number that was never saved would be
handed out again. In the scenario of the replaced link both links of the client dispatch and subscribe, so that calls of the old one
resume after the new one has connected. In the last one, `lastSeen` is a number of this incarnation or of
the one before it. In `hub_tasks` calls are issued in the order of their names: which name a call has
makes no difference, and liveness forbids symmetry. Both instances of `Background` have a task that waits
for a dispatch that waits for the mutex, an effect that does the same, and a `destroy` and a `close` at any
moment. In `delivery` two readers are a slow and a fast one, two transports are a drop and a return, with
the ring long enough or not; four sequences overflow a buffer and a ring of two. In `catalog` the code
units are three binary digits instead of four hexadecimal ones, so that `PagesAgree` meets leading zeros; six
instances make three pages.

The sessions are bounded by `MaxSockets`, `MaxRequests`, `MaxDispatch` and `MaxForeign`. One dispatch and one
foreign commit on two channels make the cases that need a second sequence: a channel that is behind
what the client has seen elsewhere, and a client that is one behind a ring of one. Two sockets are what a
takeover takes. Four requests let a client say hello, dispatch, be killed, reconnect and dispatch again.
`Stateless` is empty in the runs, the client's `duplicate` outcome is reached in `session_overtaken` only,
and the shutdown of a client with a storage in none; each multiplies the states beyond what the runs can
take.

Deadlock is not checked: a run ends when its calls are used up and its links are gone.
`EveryCallSettles` is the property that says nothing gets stuck.

**Fairness.** `FairSpec` asks weak fairness of `Hydrate` and of each call's next turn. The event loop
runs every turn whose promise is settled, promises resolve in order, the storage answers, and host
code (policies, handlers, effects) is assumed to return; no fairness is assumed of connections,
of new calls or of what host code decides. `BackgroundFairness` is the same with tasks: a task whose call has
settled goes on, an aborted one returns, and `close` notices that none runs. A task that was not aborted
need not ever end.

### Disagreements between code and documentation

Five runs end in a violation, each of a sentence of the documentation.

- `hub_torn`: a snapshot is taken between the two writes of a commit. It has the action of the
  pending commit in its state and the sequence before it in `fromSeq` (`src/hub.ts:329`, `:396`
  against `:921-924`). The envelope then arrives with a higher sequence and is applied twice. The
  comment at `src/channel.ts:94` and `README.md:590` promise a state as of `fromSeq`. What does hold
  is checked in `hub_links`: a snapshot is never more than one commit ahead, and a mirror whose
  snapshot is not torn follows the log.
- `hub_destroyed`: `destroy` does not take the mutex (`src/hub.ts:617-626`). A dispatch that is under
  way writes the deleted state back, and the channel exists again after `destroy`
  (`README.md:395`).
- `hub_cold`: two first touches of a channel hydrate two objects (`src/hub.ts:807-818`). Their
  commits are serialized but start from different states, and the second write drops the first
  action although it was accepted (`README.md:593`).
- `session_resubscribe`: `subscribe` to a channel that is mirrored already does not hold envelopes back
  (`src/client.ts:814-818`). One that arrives before the answer is applied, and the answer puts the older
  snapshot in its place. Later envelopes are applied on top, so that the confirmed state lacks an
  action for good: the client has seen its sequence and no reconnect asks for it
  (`src/client.ts:337`, `README.md:713`).
- `session_overtaken`: with a storage, a dispatch waits until no save is queued, and starts to wait again
  when another was queued meanwhile (`src/client.ts:467-471`). The first of two dispatches that were made while a save
  was under way joins the last save behind the second, which is sent first. The hub takes the first
  for a duplicate and it is never committed (`src/client.ts:114`).

The cause of `hub_destroyed` has a second effect, which is why `ConfirmedIsLog` leaves destroyed channels out: a commit that was
writing when the channel was destroyed is logged and broadcast to nobody, so that a mirror which is told of a later one
by its answer lacks the first.

A dispatch that ends as `lost` may have been committed, after a timeout or a reconnect answered by snapshots;
`README.md:737` says it never became an envelope. No run shows it: the client has no means to know.

## 4. The proofs

TLAPS checks the following for every set of URIs, connections and calls, every replay limit, every
number of faults, tasks, readers and transports. The assumptions are those that TLC evaluates in the
runs: `HubAssumption` (the special values are not calls or connections, requests are well formed, the
limit is positive, singletons have state), `RingAssumption`, `TaskAssumption`, `QueueAssumption`,
`DeliveryAssumption`, `ServerAssumption`, `ClientAssumption` (the bounds are numbers; the set of
channels is finite: a request names finitely many) and `CatalogAssumption` (templates and parameters are
code units, handles name parameters of their own template, a page is not empty, and the host's own keys are
outside of the prefixes of the templates). A theorem that needs more of its setting says so in its ASSUME.

**Order of the log** (`HubProofs`). `TypeCorrect`, `MutualExclusion`, `SequencesIncrease`,
`DeliveryIsDurable`, `DeliveryOrder`, `Agreement`. None of these is inductive. The strengthening is

    IInv == TypeOK /\ Mutex /\ Dormant /\ Numbers /\ History

where `Mutex` says that the calls inside a commit are the head of the queue and no call queues twice,
`Dormant` that nothing runs before hydration, and `Numbers` relates the three copies of the sequence:
the stored one is at most the one in memory, a commit that is persisting is about to take the next
one, a commit that is sequencing holds the current one, and if its write succeeded the stored one is
the same and all of the log is below it. A step is either outside the mutex (`Outside`: it leaves the
mutex, the calls in it and what it protects alone), which preserves `IInv` by one lemma, or a turn of
a commit, hydration or a crash, done case by case. A crash is where `DeliveredIsDurable` earns its
place: the next incarnation starts from the stored sequence, which is not below anything delivered.

**Refinement** (`HubProofs`). `Refinement`: the hub implements `CommitLog`. The write of the
sequence, when it succeeds, is the reservation; the broadcast is the publication; every other step
is a stutter.

**Links** (`HubProofs`). `OneLink`, `InternalStaysHidden`, `StaleStaysInert`, `ReplaysAreExact`, from

    LInv == OneLinkPerClient /\ StaleHasNothing /\ InternalHidden /\ OpenRequests /\ RingIsTail

on top of `IInv`. `RingIsTail` (what the ring does not hold is older than all it holds) and the order of
the log make `covers` sufficient for an exact replay. `OpenRequests` says that the calls that may end
in a subscription work on reachable routes.

**A client's order** (`HubProofs`). `ClientOrder`, in every setting: the commits of one link follow its `clientSeq`, each once; and
the links of one client take turns, so that once a later one has committed, the earlier is gone and commits nothing
more. For the first half, `ClientInv` orders the log and the queue behind it, and puts the watermark above both:
a link's logged actions come before its waiting ones, each in the order of `clientSeq`. The second half speaks of calls that
are queued, or wait for a policy, while their link is replaced. `TurnInv` claims it of the published commits and of the one
under way together (`Pending`), because a link may be replaced between the two writes of its commit. It is
inductive because a commit begins in the turn that finds its link live (`DecidesLive`), no two live links have one client ID
(`OneLink`), and a handle that is gone never comes back (`HandlesAge`).
No more can be said of a client as a whole: a new link numbers from a watermark of 0 (`src/hub.ts:156`, `:282`; `README.md:607-608`),
and an action that is sent again on it is committed again. In a session the hub commits a number at most once
(`OncePerNumber`), because the client sends each once.

**Contents** (`HubProofs`). The properties of `hub_links` speak of what sequences of messages reduce
to, and of what a link was told relative to a log that grows independently. Three things make them provable.

- *Reduction.* `Applied` and `AsOf` are recursive functions. `NaturalRecursion` derives from the arithmetic
  of the naturals that they exist, that they are typed, and what one more message does to them (`AppliedAppended`,
  `AsOfAppended`, `AsOfSame`). The theorems of the library that do this take an operator as a parameter,
  which the installed provers cannot instantiate; these take a set, and a function on it.
- *The pending commit.* `Decided`, `Top` and `Pending` name what a commit has decided before it publishes it.
  `CommitCases` reduces every step to four kinds: the commit goes on and changes neither, a call decides
  (`DecidesIs`), the decided envelope is published (`PublishesIs`), or the hub is hydrated or dies.
- *Cover.* What is claimed of a link's transcript does not hold while a reconnect of that link is
  between its first look-up and its answer: it has seen some of its channels already. `Covered(h, u)` says
  that such a call is under way for u. `CoverKept` shows that a cover ends in a fresh snapshot or a replay, and
  `FollowSteps` that a link that is not covered is told nothing of u's past, hears an envelope, is shown
  u, or is replayed.

On these rest the inductive invariants of the four theorems:

| Theorem | Hypothesis | Invariant, beside `IInv` and `LInv` |
| --- | --- | --- |
| `ResumedMissesNothing` | `WritesSucceed` | `ResumedInv`: after the last replay, all that came since is in it or in the transcript |
| `MirrorFollows` | `WritesSucceed` | `MirrorInv`: what is made of the last snapshot is `AsOf` the highest sequence it accounts for, or the snapshot was torn; `ToldInv`: no snapshot is newer than the counter |
| `StateFollows` | `Calm` | `StateInv`: object and storage are `AsOf(Pending, u, Top)` |
| `SnapshotsAreClose` | `Calm` | `ShotInv`: a snapshot shows `AsOf` its `fromSeq` or one above, and not above `Top` |

`WritesSucceed` says that no write of the storage fails; the process may still die, sockets may break,
channels may be created and destroyed. Without it the first two are false: a `reconnect` may throw half way,
when the write of a singleton's initial state is rejected (`src/hub.ts:820`, `:375`), and leaves the link subscribed
without having told it what it missed; TLC finds that with `Faults = {"write"}`. A failed write also
leaves an object that is ahead of the log for good. `Calm` says besides that the process does not die,
that the channels with a state are in memory from the start, and that none is created or destroyed: `hub_cold` and
`hub_destroyed` show that `StateIsTheLog` fails otherwise, and a crash between the two writes of a commit leaves a state
that no envelope explains. Both hypotheses hold of the instance of `hub_links`, where TLC checks the same formulas.

**Background tasks** (`HubProofs`). `StillAHub`: with tasks, the hub does what it does without them, so that all
its theorems carry over (`TasksExclude`). `TasksAreCaught`: the invariant adds to `NoTaskEscapes` that a
task that runs has a URI and a controller, and that a controller that was not made yet is registered nowhere and was
never aborted.

**The ring** (`DeliveryProofs`). `RingRefinement`, `CoverageSound`, `CoverageTight`, for every capacity. The
invariant says that the slot at distance i from the head holds the i-th of the latest envelopes; the
arithmetic of `%` is in two lemmas (`Wrapped`, `Stored`).

**From the ring to the readers** (`DeliveryProofs`). `StillARing` carries the theorems of the ring over. The invariant of
`DeliveryInvariance` has a part for each component. The queue's says that a cursor is not below the base of the
buffer and a parked one is at its end, which gives `QueueRefinement` and `NothingKeptForNobody`. The transport's says that
the frames handed over, in the inbox and on the wire are what was sent, in that order, which gives
`StreamRefinement` and `LoopIsToldTheEnd`. The client's says that what is on its way continues what was
published: the frame in hand, those in the inbox and on the wire, and what the hub will answer, which gives
`EventsAreTheLog` through `CoverageSound`.

**The session** (`SessionProofs`). A step of the client may run a whole handler: a snapshot or an envelope for each
of many channels, each of which settles dispatches. Three things keep that provable.

- *Good views.* `Views(E, O, K, X)` is the set of what the client may show: mirrors, outcomes and `seen` are well
  typed and hold back only envelopes of E of their own channel; what settled as confirmed or rejected is in E as
  that; no dispatch outside O is open; every channel of K has a mirror; and what is rendered is current,
  except for channels of X, which are about to be restated. Each operator of `Mirror` has one lemma that says from which
  good views it leads to which (`EchoGood`, `ReconcileGood`, `ApplySnapshotGood`, ...).
- *Folds.* The loops of a handler are folds over sets and sequences; `SetRecursion` of `NaturalRecursion` gives
  them a recursive function, and a fold stays in a set of good views because its steps do (`FoldStays`, next to it).
- *Filters.* A filtered sequence is `Selected(s, I)`, and `Ranking` says which element of s each of its
  positions holds.

`Types` says that every variable is what it should be: the log is numbered from 1, frames and jobs speak of requests
that were issued, an answer on its way fits whoever still waits under its identifier, what is kept are envelopes of the
log, and the view is good, with the log for E. `SessionInvariance` shows it for the 28 actions of `Session`;
`SessionTyped`, `OptimisticShown` and `OutcomesTrue` are what it says of types, of what is rendered and of how dispatches end. On
top of it:

| Theorem | Hypothesis | Invariant, beside `Types` |
| --- | --- | --- |
| `SubscribedMirrored` | "overlap" is not in `Habits` | `MirrorsKept`: no request that is under way will take back the mirror of a subscribed channel, those of a subscription have their mirrors, and no two of them are about one channel |
| `OpensAreAwaited` | "rehello" is not in `Habits` | `OpensAwaited`: whoever is open is awaited while the link is up, and also while a `hello` is under way; nothing is open before it |

Both hypotheses are those of the passing runs; without them TLC finds counterexamples (section 2, Habits).

**One action for a number** (`SessionLogProofs`). `NumbersUsedOnce` has no hypothesis. Its invariant says where the number of a
dispatch may be: with a caller that waits for a save, in a frame, with the hub or in the log, and in one of
these places at a time (`SentOnce`). A process that is killed starts again from `stored`, or from nothing, so `Heldback` says
that a number that left its caller is below the next number of the client, and with a storage of every checkpoint that
may still be restored: the stored one, and those queued behind it, except for callers that wait for one of them.
`WaitAgain` may change the order of the callers but not which save they wait for.

**Pending actions** (`SessionLogProofs`). `PendingStaysOpen`, in every setting: what a mirror has as pending is a dispatch
that is still open. Every way an action ends (its answer, its envelope, a snapshot that swallows it, a timeout, the end of
the link) takes it out of the mirror in the same turn. With `OpensAreAwaited` it leaves nothing pending when nobody waits.

**What a copy holds** (`SessionLogProofs`, `MirrorProofs`, `ConfirmedProofs`). `ConfirmedTrue`, `NothingIsSkipped` and
`QuietIsAgreed`, for an application that makes one call at a time for a channel and says `hello` once (`Habits = {}`;
`session_resubscribe` shows that the first is false otherwise). They follow from one invariant
(`MirrorInvariance`), on top of `Types` and `MirrorsKept`:

    Mirrored == Types /\ MirrorsKept /\ HubOrder /\ ClientOrder /\ MirrorOrder

The difficulty is that a copy may be behind by any number of envelopes, and whether it will catch up depends on
everything that is under way: frames in both directions, jobs of the hub that have subscribed but not looked at the
state yet, and the snapshot or replay that will restate it. The parts:

- `HubOrder`. `LinksOrdered`: only the newest socket is in use, and only the one the client reads brings frames; a job that is
  taking snapshots holds the link. `LogKept`: the ring is the end of the log. `JobsGood` and `AnswersGood`:
  what a job has collected, and what an answer on its way says to whoever waits for it, was the state of the log at
  a sequence that the log has reached, or a replay that leaves nothing out.
- `ClientOrder` relates what the client believes to what it waits for: a mirror is primed only if it is subscribed and holds nothing back,
  one that is not primed has a request under way that will prime it, a handshake is the only request that restates, and
  envelopes are put aside only before the link is ready.
- `MirrorOrder`, with seven parts. `CopiesTrue` is `ConfirmedIsLog`, with `applied` not above the log. `Gapless` is
  `NothingSkipped` in the form that an envelope can preserve: between `applied` and `seen` the log has nothing of
  a subscribed channel. `AllKept` says both of the stored checkpoint and of those queued behind it, so that they hold
  again after a restore. `Stream`: the envelopes held back, put aside and coming are in the order of their sequences.
  `Upright`: no frame behind the request that restates a channel, nor any once the channel is restated, ends its
  subscription (an unsubscribe, a hello, a reconnect). `Bases`: what is coming puts a channel at a base (a mirror that is
  primed, or a snapshot or replay that is `Promised`); then the hub has its subscription (`Linked`), and what was held back
  before the base joins on to it in order. `Cut`: there is a sequence c, the end of the log as long as the hub's end of
  the socket is attached, that nothing the client has or is about to get exceeds, and from each channel's base up to c every
  envelope of it is held back, put aside or coming.

A turn of the hub (`HubTurn`) changes what is coming and the log; a turn of the client (`ClientTurn`) consumes one frame
or none. For the client's handlers the lemmas on views of `SessionProofs` are not enough, because they say that a view is good,
not what becomes of a copy: `MovedBy`, `SeesOf` and `SameCopy` say which copy moves, to what, and which do not.
`QuietIsAgreed` reads the invariant in a state in which nothing is coming.

**Copies never go back** (`ConfirmedProofs`). `FollowerRefinement`: the session implements `Follower`. A turn of the hub is a
stutter or a `Commit` of the abstract log, a turn of the client is a `Move`; that the state shown is that of the log
is `MirrorOrder`. What remains is that a position never decreases, and the invariant says nothing of it, because a
snapshot replaces a copy whatever it holds. The strengthening is

    Leading == SnapshotsAhead /\ Closed

`SnapshotsAhead`: for every request the client waits for, the snapshots of its answer on the way, and those the hub's job has
found for it so far, are not older than the copies they will replace. It is kept by the hub because a snapshot is
taken at the end of the log (`FindsLatest`) and what is sent is what was found (`SendsFound`), and by the client because
a copy that waits for a snapshot stays where it is (`Forwards`), which in turn needs `SnapshotsAhead` when the answer is read.
`Closed`: a client that was shut down has no copies. The hypotheses are one call at a time
(`Habits = {}`), no channel that can be destroyed (`Mortal = {}`) and, with a storage, no kill. None can be dropped. For the
first see `session_resubscribe`. A client that is killed goes back to its last checkpoint, which TLC finds in `session_live`
with a storage and kills. With a channel that is destroyed while two dispatches to it, from before and after a
reconnect, are under way, the answer of the second moves a copy to a state that is not the log's, which TLC finds
with one channel that may be destroyed and two dispatches.
`session_live` has no storage: that a client with a storage does not go back while it lives, or when it is restored after a
shutdown, is known from the theorem only.

**Families of channels** (`CatalogProofs`). `ScanCompletes` and `HandleLists`, for every set of templates, handles, values and page limits; a handle lists what it
created unless an earlier template answers that URI or a value in it has a slash.
The operators of `Strings` and `Storage` are defined by `CHOOSE` and cardinality, so the proof starts with what they compute: `Lex` is a strict
order on sequences of code units; listing a finite set by the rank of its elements puts each in its place, once (`Lists`);
a page is what follows its cursor, in order (`Serves`), and ends the scan only if nothing follows; splitting a joined
string at the slashes gives its segments back, if none has a slash (`SegmentsOfJoined`); a URI is
answered by the first template that matches. The invariant `Scanning` says that what was yielded is in order and was there at some
moment (`YieldedIs`), that the cursor is the last key handed out (`PageIs`), and that no key that was there
throughout is behind the cursor without having been yielded (`NoneBehind`).

**Only model-checked.** Liveness (`EveryCallSettles`, `CloseSettles`) is out of this prover's reach, as is everything that speaks
of `ENABLED`. `PagesAgree` compares the order of keys segment by segment with the order of one text that is put
together unit by unit: what such a recursive definition computes for every key needs induction over data, which the
installed provers cannot do. The five disagreements are counterexamples, which TLC finds.

## 5. Not modelled

- Definitions and schemas, error classes, the JSON-RPC runtime `hana.ts` and the document generator: no state
  of their own. What they decide appears as a choice (`valid`, an outcome, a verdict).
- The opening of a WebSocket, parsing of frames, `bufferedAmount` and `lastClose`; the SQL engine, structured clones
  and IndexedDB transactions.
- A change of identity on the client (it ends in `shutdown`), `exec` and `ping` of the client, several clients
  in one session.
- `has` and `generateSchema` of the hub, and reads of its storage that fail.

## 6. Plan

1. Done: the hub, its replay ring, the abstract log, their proofs.
2. Done: the session (`Mirror`, `Wire`, `Server`, `Client`); transports and event streams (`Delivery`);
   background tasks (`Background`); routes and scans (`Catalog`); all checked by TLC.
3. Done: proofs about transports and event streams, about background tasks, and about the contents of states,
   snapshots and replays; of the session, all invariants of its runs and the refinement of `Follower`; of families of channels, what a scan yields.
4. A client whose identity changes, and the liveness of a dispatch (it settles once the link is up or gone
   for good).
