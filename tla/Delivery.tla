------------------------------ MODULE Delivery ------------------------------
(***************************************************************************)
(* The way of an envelope to a reader of events(): the hub's replay ring   *)
(* and its answer to a client that comes back, the transport, the client's *)
(* receive loop, and the queue it publishes to.  One channel, one client;  *)
(* what Session shows of handshakes is not repeated.                       *)
(***************************************************************************)
EXTENDS ReplayRing, BroadcastQueue, Transport

CONSTANTS MaxLinks,   \* bound: transports the client may use, one after the other
          Kinds,      \* which transports: "memory", "socket"
          SkipAt      \* bound: how long the log is when a failed commit has spent a number

VARIABLES
  link,          \* the hub's end: "none", "live" or "gone"
  links,         \* how many transports there were
  client,        \* "connected", "closed" (until a reconnect) or "done"
  seen,          \* mirror.appliedSeq, None before the first snapshot
  todo,          \* envelopes of a replay that the running turn has still to publish
  published      \* history: what was published, and the snapshots in between

clientVars   == <<link, links, client, seen, todo, published>>
deliveryVars == <<vars, queueVars, transportVars, clientVars>>

\* What travels: an action with its sequence, or an answer with the latest one.
Frame == [type : {"action", "snapshot", "replay"}, seq : Nat, actions : Seq(1..MaxSeq)]

ASSUME DeliveryAssumption == None \notin Nat /\ Last \notin Frame

NoTurn == todo = << >>     \* the client's current turn is over

\* Of a sequence of numbers those after n, in their order.
After(numbers, n) ==
  LET chosen[i \in 0..Len(numbers)] ==
        IF i = 0 THEN << >>
        ELSE IF numbers[i] > n THEN Append(chosen[i - 1], numbers[i]) ELSE chosen[i - 1]
  IN chosen[Len(numbers)]

\* What the hub sends: an envelope, or its answer to hello or reconnect.
Action(n)  == [type |-> "action", seq |-> n, actions |-> << >>]
Snapshot   == [type |-> "snapshot", seq |-> Latest, actions |-> << >>]
Resumed(n) == [type |-> "replay", seq |-> Latest,
               actions |-> After([i \in 1..size |-> Window[i].seq], n)]

DeliveryInit ==
  /\ Init /\ QueueInit /\ TransportInit /\ kind \in Kinds
  /\ link = "none" /\ links = 1 /\ client = "connected"
  /\ seen = None /\ todo = << >> /\ published = << >>

-----------------------------------------------------------------------------
(* The hub. *)

\* A commit: kept in the ring, and sent to the link if there is one.
HubCommit(e) ==
  /\ NoTurn /\ Commit(e)
  /\ e.seq = Latest + 1 \/ Len(log) = SkipAt
  /\ IF link = "live" THEN Send(Action(e.seq)) ELSE UNCHANGED transportVars
  /\ UNCHANGED <<queueVars, clientVars>>

\* hello is answered with a snapshot, and so is a reconnect the ring cannot answer.
Welcome ==
  /\ NoTurn /\ link = "none" /\ client = "connected"
  /\ call # "idle" /\ ~closed /\ ~error
  /\ link' = "live"
  /\ Send(IF seen # None /\ Covers(seen) THEN Resumed(seen) ELSE Snapshot)
  /\ UNCHANGED <<vars, queueVars, links, client, seen, todo, published>>

\* The hub's end closes.  A socket tells the client once it has brought everything.
HubCloses ==
  /\ NoTurn /\ link = "live" /\ link' = "gone"
  /\ CloseMemory \/ (kind = "socket" /\ UNCHANGED transportVars)
  /\ UNCHANGED <<vars, queueVars, links, client, seen, todo, published>>

\* The socket of the client reports something.
SocketEvent ==
  /\ NoTurn
  /\ \/ MessageEvent /\ UNCHANGED link
     \/ /\ CloseEvent(FALSE) \/ (link = "gone" /\ CloseEvent(TRUE)) \/ ErrorEvent
        /\ link' = "gone"
  /\ UNCHANGED <<vars, queueVars, links, client, seen, todo, published>>

-----------------------------------------------------------------------------
(* The client. *)

\* connect(): the loop starts, before the client says hello.
Connect ==
  /\ call = "idle" /\ client = "connected" /\ Recv
  /\ UNCHANGED <<vars, queueVars, clientVars>>

\* What of a frame the client has not seen.
News(frame) ==
  IF seen = None THEN << >>
  ELSE After(IF frame.type = "action" THEN <<frame.seq>> ELSE frame.actions, seen)

\* #drive and #frame: one frame, and the next recv().
DriveFrame ==
  /\ NoTurn /\ call = "frame" /\ client = "connected"
  /\ todo' = News(handed)
  /\ IF handed.type = "snapshot"
     THEN seen' = handed.seq /\ published' = Append(published, [event |-> FALSE, seq |-> handed.seq])
     ELSE UNCHANGED <<seen, published>>
  /\ Recv
  /\ UNCHANGED <<vars, queueVars, link, links, client>>

\* One envelope of that frame is applied and published; no other code runs in between.
PublishNext ==
  /\ todo # << >> /\ todo' = Tail(todo)
  /\ seen' = Head(todo)
  /\ published' = Append(published, [event |-> TRUE, seq |-> Head(todo)])
  /\ Publish(Head(todo))
  /\ UNCHANGED <<vars, transportVars, link, links, client>>

\* The loop learns that the transport has ended: #tearDown.
DriveEnd ==
  /\ NoTurn /\ call \in {"end", "error"} /\ client = "connected"
  /\ client' = "closed"
  /\ UNCHANGED <<vars, queueVars, transportVars, link, links, seen, todo, published>>

\* reconnect on a new transport of the same kind: the old one is not read again.
Reconnect ==
  /\ NoTurn /\ client \in {"connected", "closed"} /\ links < MaxLinks
  /\ Attach(kind) /\ link' = "none" /\ links' = links + 1 /\ client' = "connected"
  /\ UNCHANGED <<vars, queueVars, seen, todo, published>>

\* shutdown: streams and transport are closed.
Shutdown ==
  /\ NoTurn /\ client # "done"
  /\ client' = "done" /\ link' = "gone"
  /\ CloseQueue
  /\ CloseMemory \/ ((kind = "socket" \/ closed) /\ UNCHANGED transportVars)
  /\ UNCHANGED <<vars, links, seen, todo, published>>

Readings ==
  /\ NoTurn /\ \E r \in Readers : ReaderStep(r)
  /\ UNCHANGED <<vars, transportVars, clientVars>>

DeliveryNext ==
  \/ \E e \in Envelope : HubCommit(e)
  \/ Reconnect \/ Welcome \/ HubCloses \/ SocketEvent \/ Connect \/ DriveFrame \/ PublishNext
  \/ DriveEnd \/ Shutdown \/ Readings

DeliverySpec == DeliveryInit /\ [][DeliveryNext]_deliveryVars

-----------------------------------------------------------------------------
Windows == INSTANCE EventWindows
  WITH Capacity <- Limit, Values <- 1..MaxSeq, window <- [r \in Readers |-> Unread(r)]

Frames == INSTANCE Stream
  WITH last <- handed, result <- IF call \in {"end", "error"} THEN call ELSE "open"

\* The shared buffer with its positions gives every reader what a buffer of its own would:
\* a slow reader costs the others nothing, and a fast one takes nothing from them.
ImplementsWindows == Windows!Spec

\* Both transports hand over the frames in order, each once, and end only after the last
\* one (README.md:815), whenever the peer closes and however full the inbox is.
ImplementsStream == Frames!Spec

\* The loop is never left waiting on a transport that has ended: shutdown() awaits it.
NobodyWaitsAtTheEnd == closed \/ error => call # "parked"

\* The events of one channel are the log, without a gap and without a repetition, through
\* drops and replays; only a snapshot stands for envelopes that are not published.
EventsFollowLog ==
  \A i \in 1..(Len(published) - 1) :
    LET a == published[i]
        b == published[i + 1]
    IN /\ a.seq < b.seq \/ (~b.event /\ a.seq = b.seq)
       /\ b.event => ~\E k \in DOMAIN log : a.seq < log[k].seq /\ log[k].seq < b.seq
=============================================================================
