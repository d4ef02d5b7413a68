------------------------------- MODULE Server -------------------------------
(***************************************************************************)
(* The hub as one client meets it through attachSocket and createRpc of    *)
(* rpc.ts: one link, a serial queue of frames per socket, answers and      *)
(* broadcasts in one stream.  Commits, snapshots and replays are those of  *)
(* hub.ts with the hub as a log; its storage, its instances and several    *)
(* links at a time are the subject of the module Hub.                      *)
(*                                                                         *)
(* An action is what the code does between two awaits.  The answer to a    *)
(* frame leaves in a later turn than its handler's last one, so that a     *)
(* broadcast can precede it.                                               *)
(***************************************************************************)
EXTENDS Wire, FiniteSets, Mirror

CONSTANTS
  Mortal,       \* channels the host may destroy
  ReplayLimit,  \* slots of the replay ring
  Verdicts,     \* what a reducer may do: "accept", "reject" or "throw"
  MaxForeign,   \* bound: commits of everybody else
  Crashes       \* whether the hub may be restarted

ASSUME ServerAssumption ==
  /\ Mortal \subseteq Stateful /\ Stateless \subseteq Uris /\ MaxSockets \in Nat \ {0}
  /\ ReplayLimit \in Nat \ {0}
  /\ Verdicts \subseteq {"accept", "reject", "throw"}

Replayed == INSTANCE ReplayWindow WITH Capacity <- ReplayLimit

VARIABLES
  log,               \* what was committed; its length is #serverSeq
  ring,              \* #replay
  link,              \* the socket whose link is registered for the client (0: none)
  subs, watermark,   \* of that link
  gone,              \* the channels that were destroyed
  job                \* the frame each socket is handling

hubVars    == <<log, ring, gone>>
linkVars   == <<link, subs, watermark>>
serverVars == <<hubVars, linkVars, job>>

Idle == [stage |-> "idle"]

ServerInit ==
  /\ log = << >> /\ ring = << >> /\ gone = {}
  /\ link = 0 /\ subs = {} /\ watermark = 0
  /\ job = [s \in Sockets |-> Idle]

-----------------------------------------------------------------------------
(* Jobs and what they answer. *)

Job(stage, r, todo) ==
  [stage |-> stage, request |-> r, todo |-> todo, missing |-> {}, snapshots |-> {}]

Answering(r, result) == [stage |-> "answering", request |-> r, result |-> result]
Refusal(r) == Answering(r, [type |-> "error"])

SnapshotOf(u) ==
  [uri |-> u, state |-> StateAt(log, u, Len(log)), fromSeq |-> Len(log)]

Writing == {s \in Sockets : job[s].stage = "writing"}   \* who is inside the mutex

\* The client's link is dropped, and with it what it knows.
Unlinked == link' = 0 /\ subs' = {} /\ watermark' = 0

\* The sockets of S end.  A commit that is writing goes on; any other frame finds its link
\* gone at its next look at it, and is not answered.
Ended(jobs, S) ==
  [s \in Sockets |-> IF s \in S /\ jobs[s].stage # "writing" THEN Idle ELSE jobs[s]]
Drained(queues, S) == [s \in Sockets |-> IF s \in S THEN << >> ELSE queues[s]]

-----------------------------------------------------------------------------
(* Frames that arrive. *)

\* The next frame of s, if it has this method.
FrameFor(s, methods) ==
  /\ s \notin detached /\ job[s] = Idle /\ up[s] # << >>
  /\ Head(up[s]).method \in methods

Taken(s) == [up EXCEPT ![s] = Tail(@)]

\* hello and reconnect register a new link; the socket of the one it replaces is closed.
TakeHandshake(s) ==
  /\ FrameFor(s, {"hello", "reconnect"})
  /\ LET r == Head(up[s])
         replaced == {link} \ {0, s}
     IN  /\ link' = s /\ subs' = {} /\ watermark' = 0
         /\ detached' = detached \cup replaced
         /\ up' = Drained(Taken(s), replaced)
         /\ job' = [Ended(job, replaced) EXCEPT ![s] =
              Job(IF r.method = "reconnect" THEN "resuming"
                  ELSE IF r.uris = {} THEN "greeting" ELSE "subscribing", r, r.uris)]
  /\ UNCHANGED <<hubVars, down, reader>>

\* subscribe needs a bound link.
TakeSubscribe(s) ==
  /\ FrameFor(s, {"subscribe"})
  /\ LET r == Head(up[s]) IN
       job' = [job EXCEPT ![s] =
                 IF link = s THEN Job("subscribing", r, {r.uri}) ELSE Refusal(r)]
  /\ up' = Taken(s)
  /\ UNCHANGED <<hubVars, linkVars, down, reader, detached>>

TakeUnsubscribe(s) ==
  /\ FrameFor(s, {"unsubscribe"})
  /\ subs' = IF link = s THEN subs \ {Head(up[s]).uri} ELSE subs
  /\ up' = Taken(s)
  /\ UNCHANGED <<hubVars, link, watermark, job, down, reader, detached>>

\* dispatchFrom: a clientSeq that is not above the watermark is a duplicate.
TakeDispatch(s) ==
  /\ FrameFor(s, {"dispatch"})
  /\ LET r == Head(up[s]) IN
       \/ /\ link = s /\ r.uri \notin gone /\ r.n > watermark
          /\ watermark' = r.n
          /\ job' = [job EXCEPT ![s] = Job("committing", r, {})]
       \/ /\ link = s /\ r.uri \notin gone /\ r.n <= watermark
          /\ job' = [job EXCEPT ![s] = Answering(r, [type |-> "duplicate"])]
          /\ UNCHANGED watermark
       \/ /\ link # s \/ r.uri \in gone
          /\ job' = [job EXCEPT ![s] = Refusal(r)]
          /\ UNCHANGED watermark
  /\ up' = Taken(s)
  /\ UNCHANGED <<hubVars, link, subs, down, reader, detached>>

-----------------------------------------------------------------------------
(* Subscriptions. *)

\* hello or subscribe reaches one of its channels.  hello unbinds the link when it fails.
SubscribeOne(s, u) ==
  /\ job[s].stage = "subscribing" /\ u \in job[s].todo
  /\ LET r    == job[s].request
         todo == job[s].todo \ {u}
         got  == IF u \in Stateless THEN job[s].snapshots
                 ELSE job[s].snapshots \cup {SnapshotOf(u)}
     IN  \/ /\ u \notin gone
            /\ subs' = subs \cup {u} /\ UNCHANGED <<link, watermark>>
            /\ job' = [job EXCEPT ![s] =
                 IF r.method = "subscribe"
                 THEN Answering(r, [type |-> "subscribed", snapshots |-> got])
                 ELSE [@ EXCEPT !.todo = todo, !.snapshots = got,
                                !.stage = IF todo = {} THEN "greeting" ELSE "subscribing"]]
         \/ /\ u \in gone
            /\ job' = [job EXCEPT ![s] = Refusal(r)]
            /\ IF r.method = "hello" THEN Unlinked ELSE UNCHANGED linkVars
  /\ UNCHANGED <<hubVars, up, down, reader, detached>>

\* hello reads the sequence once it has all its snapshots.
Greet(s) ==
  /\ job[s].stage = "greeting"
  /\ job' = [job EXCEPT ![s] = Answering(@.request,
       [type |-> "hello", serverSeq |-> Len(log), snapshots |-> @.snapshots])]
  /\ UNCHANGED <<hubVars, linkVars, up, down, reader, detached>>

\* reconnect reaches one of its channels.
ResumeOne(s, u) ==
  /\ job[s].stage = "resuming" /\ u \in job[s].todo
  /\ subs' = IF u \in gone THEN subs ELSE subs \cup {u}
  /\ job' = [job EXCEPT ![s].todo = @ \ {u},
                        ![s].missing = IF u \in gone THEN @ \cup {u} ELSE @]
  /\ UNCHANGED <<hubVars, link, watermark, up, down, reader, detached>>

\* What the ring holds after seen, on the subscribed channels.
Replay(seen, missing) ==
  [type |-> "replay", missing |-> missing,
   actions |-> Selected(ring, {i \in DOMAIN ring : ring[i].seq > seen /\ ring[i].uri \in subs})]

\* Mutant: a client that is behind the ring is answered with what the ring still holds.
AnswerToResumeShort(r, missing) == Replay(r.seen, missing)

\* What a link has missed since r.seen, or its states anew.
AnswerToResume(r, missing) ==
  IF r.seen = Len(log) \/ Replayed!Covers(ring, r.seen)
  THEN Replay(r.seen, missing)
  ELSE [type |-> "snapshot", missing |-> missing,
        snapshots |-> {SnapshotOf(u) : u \in (r.uris \ missing) \ Stateless}]

Resume(s) ==
  /\ job[s].stage = "resuming" /\ job[s].todo = {}
  /\ job' = [job EXCEPT ![s] = Answering(@.request, AnswerToResume(@.request, @.missing))]
  /\ UNCHANGED <<hubVars, linkVars, up, down, reader, detached>>

-----------------------------------------------------------------------------
(* Commits. *)

\* The log, the ring and the client's stream after one more envelope.
Broadcast(e) ==
  /\ log' = Append(log, e) /\ ring' = Replayed!Push(ring, e) /\ UNCHANGED gone
  /\ down' = IF link # 0 /\ e.uri \in subs THEN SentDown(down, link, e) ELSE down

\* Mutant: the number of the last envelope.
EnvelopeAgain(u, n, accepted) ==
  [kind |-> "action", uri |-> u, seq |-> Len(log), n |-> n, accepted |-> accepted]

Envelope(u, n, accepted) ==
  [kind |-> "action", uri |-> u, seq |-> Len(log) + 1, n |-> n, accepted |-> accepted]

\* The head of the mutex's queue looks at its link, is authorized and reduced, and
\* starts writing.  A reducer that throws leaves nothing behind but the watermark.
Commit(s) ==
  /\ job[s].stage = "committing" /\ Writing = {}
  /\ \E verdict \in Verdicts :
       job' = [job EXCEPT ![s] =
         IF verdict = "throw" THEN Refusal(@.request)
         ELSE [stage |-> "writing", request |-> @.request,
               accepted |-> verdict = "accept"]]
  /\ UNCHANGED <<hubVars, linkVars, up, down, reader, detached>>

\* Both writes are done.  Nothing looks at the link again.
Publish(s) ==
  /\ job[s].stage = "writing"
  /\ LET r == job[s].request
         e == Envelope(r.uri, r.n, job[s].accepted)
     IN  /\ Broadcast(e)
         /\ job' = [job EXCEPT ![s] =
              IF s \in detached THEN Idle
              ELSE Answering(r, [type |-> "envelope", envelope |-> e])]
  /\ UNCHANGED <<linkVars, up, reader, detached>>

\* The host, or another client, commits an action that is accepted.
Foreign(u) ==
  /\ u \in Stateful \ gone /\ Writing = {}
  /\ Cardinality({i \in DOMAIN log : log[i].n = 0}) < MaxForeign
  /\ Broadcast(Envelope(u, 0, TRUE))
  /\ UNCHANGED <<linkVars, job, up, reader, detached>>

-----------------------------------------------------------------------------
(* Answers, and the end of a socket. *)

Answer(s) ==
  /\ job[s].stage = "answering"
  /\ down' = SentDown(down, s,
       [kind |-> "answer", id |-> job[s].request.id, result |-> job[s].result])
  /\ job' = [job EXCEPT ![s] = Idle]
  /\ UNCHANGED <<hubVars, linkVars, up, reader, detached>>

\* detach: the socket closed, was refused a frame, or is closed by the host.
Detach(s) ==
  /\ s \notin detached
  /\ detached' = detached \cup {s}
  /\ up' = Drained(up, {s}) /\ job' = Ended(job, {s})
  /\ IF link = s THEN Unlinked ELSE UNCHANGED linkVars
  /\ UNCHANGED <<hubVars, down, reader>>

\* A new hub on the same storage: no links, no ring.  A commit that was under way is
\* in the log when both its writes were done.
Restart(opened) ==
  /\ Crashes /\ opened \ detached # {}
  /\ detached' = detached \cup opened
  /\ up' = Drained(up, opened) /\ job' = [s \in Sockets |-> Idle]
  /\ Unlinked /\ ring' = << >>
  /\ log' \in {log} \cup
       {Append(log, Envelope(job[s].request.uri, job[s].request.n, job[s].accepted))
          : s \in Writing}
  /\ UNCHANGED <<gone, down, reader>>

\* The host destroys a channel, and with it every subscription.
Destroy(u) ==
  /\ u \in Mortal \ gone /\ gone' = gone \cup {u} /\ subs' = subs \ {u}
  /\ UNCHANGED <<log, ring, link, watermark, job, up, down, reader, detached>>
=============================================================================
