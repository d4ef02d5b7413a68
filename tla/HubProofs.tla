----------------------------- MODULE HubProofs ------------------------------
(***************************************************************************)
(* The hub, for every set of channels, connections and calls, every replay *)
(* limit, and any number of tasks, failed writes and crashes.  First the   *)
(* order of its log, its refinement of CommitLog, and its links; then what *)
(* its states, snapshots and replays contain; then its background tasks.   *)
(* Steps that stay outside the mutex are shown to be so once (Outside);    *)
(* the turns of a commit and the changes of incarnation are done by hand.  *)
(***************************************************************************)
EXTENDS Background, NaturalRecursion, SequenceTheorems, TLAPS

-----------------------------------------------------------------------------
(* Every action keeps TypeOK.  The turns that leave the mutex also need CommitsExclude, *)
(* which says that there is a queue to leave: so type correctness is part of the        *)
(* inductive invariant.                                                                 *)

\* The frame of a call that holds nothing is a frame.
LEMMA BlankTyped == Blank \in Frame
BY DEF Blank, Frame, Objects, State

\* None names no object and no connection.
LEMMA NoneIsNoCall == None \notin Objects /\ None \notin Conns
BY HubAssumption DEF Objects

\* Moving a call to a label that suits its frame keeps the calls well typed.
LEMMA GotoTyped ==
  ASSUME CallTypes, NEW c \in Calls, NEW label \in Labels, NEW f \in Frame,
         pc[c] # "idle", WellPlaced(label, f), Goto(c, label, f)
  PROVE  CallTypes'
BY DEF CallTypes, Goto, WellPlaced

\* So does settling a call.
LEMMA SettleTyped ==
  ASSUME CallTypes, NEW c \in Calls, NEW label \in Settled,
         pc[c] # "idle", Settle(c, label)
  PROVE  CallTypes'
<1>1. WellPlaced(label, Blank) /\ label \in Labels
  BY DEF WellPlaced, Settled, Placed, Holding, Locked, Labels
<1> QED BY <1>1, BlankTyped, GotoTyped DEF Settle

\* So does the synchronous half of #instance.
LEMMA LookupTyped ==
  ASSUME HubTypes, CallTypes, NEW c \in Calls, NEW f \in Frame, f.uri \in Uris,
         pc[c] # "idle", Lookup(c, f)
  PROVE  CallTypes'
<1>1. CASE instances[f.uri] # None
  <2> DEFINE g == [f EXCEPT !.ref[f.uri] = instances[f.uri]]
  <2>1. f.ref \in [Uris -> Objects \cup {None}] /\ instances[f.uri] \in Objects
    BY <1>1 DEF HubTypes, Frame
  <2>2. g \in Frame /\ g.uri = f.uri /\ g.ref[g.uri] = instances[f.uri]
    BY <2>1 DEF Frame
  <2>3. WellPlaced("have", g)
    BY <2>1, <2>2 DEF WellPlaced
  <2>4. Goto(c, "have", g)
    BY <1>1 DEF Lookup
  <2> QED BY <2>2, <2>3, <2>4, GotoTyped DEF Labels, Placed, Holding
<1>2. CASE instances[f.uri] = None
  <2> DEFINE g == [f EXCEPT !.loaded = storage[f.uri]]
  <2>1. g \in Frame /\ g.uri = f.uri
    BY DEF HubTypes, Frame
  <2>2. WellPlaced("load", g)
    BY <2>1 DEF WellPlaced, Holding, Locked
  <2>3. Goto(c, "load", g)
    BY <1>2 DEF Lookup
  <2> QED BY <2>1, <2>2, <2>3, GotoTyped DEF Labels, Placed
<1> QED BY <1>1, <1>2

\* What a turn that leaves the hub alone preserves.
LEMMA HubUntouched ==
  ASSUME HubTypes, UNCHANGED <<seqVars, instVars, lock, ring, linkVars, storeVars>>
  PROVE  HubTypes'
BY DEF HubTypes, seqVars, instVars, linkVars, storeVars

\* A step that broadcasts and answers nothing keeps the history well typed.
LEMMA HistoryUntouched ==
  ASSUME HistoryTypes, UNCHANGED histVars
  PROVE  HistoryTypes'
BY DEF HistoryTypes, histVars

\* A turn that settles its call and changes nothing else.
LEMMA QuietSettleTyped ==
  ASSUME TypeOK, NEW c \in Calls, NEW label \in Settled, pc[c] # "idle", Settle(c, label),
         UNCHANGED <<seqVars, instVars, lock, ring, linkVars, storeVars, histVars>>
  PROVE  TypeOK'
BY SettleTyped, HubUntouched, HistoryUntouched DEF TypeOK

\* A call that was issued carries a request; a connection's operation names its connection.
LEMMA RequestOf ==
  ASSUME CallTypes, NEW c \in Calls, pc[c] # "idle"
  PROVE  /\ arg[c] \in Request
         /\ arg[c].conn # None => arg[c].conn \in Conns
         /\ arg[c].op \in {"subscribe", "reconnect", "dispatchFrom"} => arg[c].conn \in Conns
BY HubAssumption DEF CallTypes, Request

\* #broadcast keeps links, subscriptions and transcripts well typed.
LEMMA BroadcastTyped ==
  ASSUME HubTypes, HistoryTypes, NEW m \in Message, Broadcast(m)
  PROVE  /\ link' \in [Conns -> {"unused", "live", "gone"}]
         /\ subs' \in [Conns -> SUBSET Uris]
         /\ watermark' \in [Conns -> Nat]
         /\ inbox' \in [Conns -> Seq(Message)]
BY DEF HubTypes, HistoryTypes, Broadcast

\* A hub that was just built is well typed.
LEMMA InitTyped == Init => TypeOK
<1> SUFFICES ASSUME Init PROVE TypeOK
  OBVIOUS
<1> USE DEF Init
<1>1. HubTypes
  <2>1. << >> \in State /\ Host \in Objects
    BY DEF State, Objects
  <2>2. heap \in [Uris -> [Objects -> State]]
    BY <2>1
  <2>3. instances \in [Uris -> Objects \cup {None}] /\ storage \in [Uris -> State \cup {Absent}]
    BY <2>1
  <2>4. lock \in Seq(Calls) /\ ring \in Seq(Envelope)
    OBVIOUS
  <2>5. link \in [Conns -> {"unused", "live", "gone"}] /\ subs \in [Conns -> SUBSET Uris]
        /\ watermark \in [Conns -> Nat]
    OBVIOUS
  <2>6. hydrated \in BOOLEAN
    OBVIOUS
  <2>7. serverSeq \in Nat /\ storedSeq \in Nat
    OBVIOUS
  <2> HIDE DEF Init
  <2> QED BY <2>2, <2>3, <2>4, <2>5, <2>6, <2>7 DEF HubTypes
<1>2. CallTypes
  BY BlankTyped DEF CallTypes, WellPlaced, Labels, Placed, Holding, Locked, Settled
<1>3. HistoryTypes
  BY DEF HistoryTypes
<1> QED BY <1>1, <1>2, <1>3 DEF TypeOK

\* connect, disconnect and unsubscribe preserve the types.
LEMMA LinksTyped ==
  ASSUME TypeOK,
         \/ \E h \in Conns : Connect(h) \/ Disconnect(h)
         \/ \E h \in Conns, u \in Uris : Unsubscribe(h, u)
  PROVE  TypeOK'
<1>1. UNCHANGED <<seqVars, instVars, lock, ring, watermark, storeVars, callVars, histVars>>
  BY DEF Connect, Disconnect, Unsubscribe
<1>2. link' \in [Conns -> {"unused", "live", "gone"}]
  BY DEF TypeOK, HubTypes, Connect, Disconnect, Unsubscribe
<1>3. subs' \in [Conns -> SUBSET Uris]
  BY DEF TypeOK, HubTypes, Connect, Disconnect, Unsubscribe
<1>4. HubTypes'
  BY <1>1, <1>2, <1>3 DEF TypeOK, HubTypes, seqVars, instVars, storeVars
<1>5. CallTypes'
  BY <1>1 DEF TypeOK, CallTypes, callVars, WellPlaced
<1> QED BY <1>1, <1>4, <1>5, HistoryUntouched DEF TypeOK

\* The first turn of an operation preserves the types.
LEMMA BeginTyped ==
  ASSUME TypeOK, NEW c \in Calls,
         \/ Refused(c) \/ StatelessRefused(c) \/ BeginLookup(c) \/ BeginPolicy(c)
         \/ BeginHandler(c) \/ Notify(c)
  PROVE  TypeOK'
<1> USE DEF TypeOK, Begins
<1>1. pc[c] = "begin"
  BY DEF Refused, StatelessRefused, BeginLookup, BeginPolicy, BeginHandler, Notify
<1>2. arg[c] \in Request
  BY <1>1, RequestOf
<1>3. CASE Refused(c) \/ StatelessRefused(c)
  BY <1>1, <1>3, QuietSettleTyped DEF Refused, StatelessRefused, Settled
<1> DEFINE f == [Blank EXCEPT !.uri = arg[c].uri]
<1>4. f \in Frame /\ f.uri \in Uris
  BY <1>2, BlankTyped DEF Frame, Request
<1>5. CASE BeginLookup(c)
  BY <1>1, <1>4, <1>5, LookupTyped, HubUntouched, HistoryUntouched DEF BeginLookup
<1>6. CASE BeginPolicy(c)
  <2>1. WellPlaced("policy", f) /\ "policy" \in Labels
    BY <1>4 DEF WellPlaced, Holding, Locked, Labels, Placed
  <2>2. CallTypes'
    BY <1>1, <1>4, <1>6, <2>1, GotoTyped DEF BeginPolicy
  <2> QED BY <1>6, <2>2, HubUntouched, HistoryUntouched DEF BeginPolicy
<1>7. CASE BeginHandler(c)
  <2>1. WellPlaced("running", Blank) /\ "running" \in Labels
    BY DEF WellPlaced, Holding, Locked, Labels, Placed
  <2>2. CallTypes'
    BY <1>1, <1>7, <2>1, BlankTyped, GotoTyped DEF BeginHandler
  <2> QED BY <1>7, <2>2, HubUntouched, HistoryUntouched DEF BeginHandler
<1>8. CASE Notify(c)
  <2> DEFINE m == [kind |-> "notification", uri |-> arg[c].uri, call |-> c]
  <2>1. m \in Message
    BY <1>2 DEF Message, Request
  <2>2. CallTypes'
    BY <1>1, <1>8, SettleTyped DEF Notify, Settled
  <2>3. Broadcast(m) /\ UNCHANGED <<seqVars, instVars, lock, ring, storeVars, log>>
    BY <1>8 DEF Notify
  <2>4. HubTypes' /\ HistoryTypes'
    BY <2>1, <2>3, BroadcastTyped
    DEF HubTypes, HistoryTypes, seqVars, instVars, storeVars
  <2> QED BY <2>2, <2>4
<1> QED BY <1>3, <1>5, <1>6, <1>7, <1>8

\* The turn after a storage read preserves the types.
LEMMA LoadTyped ==
  ASSUME TypeOK, NEW c \in Calls, Load(c) \/ LoadMissing(c) \/ LoadFailed(c)
  PROVE  TypeOK'
<1> USE DEF TypeOK
<1>1. CASE LoadMissing(c) \/ LoadFailed(c)
  BY <1>1, QuietSettleTyped DEF LoadMissing, LoadFailed, Settled
<1>2. CASE Load(c)
  <2> DEFINE u == frame[c].uri
             s == IF frame[c].loaded = Absent THEN << >> ELSE frame[c].loaded
  <2>1. pc[c] = "load" /\ frame[c] \in Frame /\ u \in Uris
    BY <1>2 DEF Load, CallTypes, WellPlaced, Placed
  <2>2. s \in State /\ << >> \in State /\ c \in Objects
    BY <2>1 DEF Frame, State, Objects
  <2>3. /\ heap' = [heap EXCEPT ![u][c] = s]
        /\ instances' = [instances EXCEPT ![u] = c]
    BY <1>2 DEF Load, Build
  <2>4. /\ heap' \in [Uris -> [Objects -> State]]
        /\ instances' \in [Uris -> Objects \cup {None}]
    BY <2>1, <2>2, <2>3 DEF HubTypes
  <2>5. PICK ok \in WriteOutcomes :
          /\ storage' = IF frame[c].loaded = Absent /\ ok
                        THEN [storage EXCEPT ![u] = << >>] ELSE storage
          /\ Goto(c, "have", [frame[c] EXCEPT !.ref[u] = c, !.wrote = ok])
    BY <1>2 DEF Load
  <2>6. storage' \in [Uris -> State \cup {Absent}]
    BY <2>1, <2>2, <2>5 DEF HubTypes
  <2> DEFINE f == [frame[c] EXCEPT !.ref[u] = c, !.wrote = ok]
  <2>7. ok \in BOOLEAN
    BY <2>5 DEF WriteOutcomes
  <2>8. frame[c].ref \in [Uris -> Objects \cup {None}]
    BY <2>1 DEF Frame
  <2>9. f \in Frame /\ f.uri = u /\ f.ref[f.uri] = c
    BY <2>1, <2>2, <2>7, <2>8 DEF Frame
  <2>10. WellPlaced("have", f) /\ "have" \in Labels
    BY <2>1, <2>2, <2>9 DEF WellPlaced, Labels, Placed, Holding
  <2>11. CallTypes'
    BY <2>1, <2>5, <2>9, <2>10, GotoTyped
  <2>12. UNCHANGED <<seqVars, lock, ring, linkVars, storedSeq, histVars>>
    BY <1>2 DEF Load
  <2>13. HubTypes'
    BY <2>4, <2>6, <2>12 DEF HubTypes, seqVars, linkVars
  <2> QED BY <2>11, <2>12, <2>13, HistoryUntouched
<1> QED BY <1>1, <1>2

\* What the object a call holds contains.
LEMMA ObjectTyped ==
  ASSUME TypeOK, NEW c \in Calls, NEW u \in Uris, frame[c].ref[u] # None
  PROVE  frame[c].ref[u] \in Objects /\ Object(c, u) \in State
<1>1. frame[c].ref[u] \in Objects
  BY DEF TypeOK, CallTypes, Frame
<1> QED BY <1>1 DEF TypeOK, HubTypes, Object

\* A call past #instance has a channel, an object of it, and a request.
LEMMA HoldingFacts ==
  ASSUME TypeOK, NEW c \in Calls, pc[c] \in Holding
  PROVE  /\ frame[c] \in Frame /\ frame[c].uri \in Uris
         /\ frame[c].ref[frame[c].uri] \in Objects
         /\ Object(c, frame[c].uri) \in State
         /\ pc[c] # "idle" /\ arg[c] \in Request
<1>1. frame[c].uri \in Uris /\ frame[c].ref[frame[c].uri] \in Objects
  BY DEF TypeOK, CallTypes, WellPlaced, Placed
<1>2. pc[c] # "idle"
  BY DEF Holding, Locked
<1> QED BY <1>1, <1>2, ObjectTyped, NoneIsNoCall, RequestOf DEF TypeOK, CallTypes

\* An answer is added to the transcript of its link.
LEMMA AnswerTyped ==
  ASSUME TypeOK, NEW h \in Conns, NEW m \in Message, Answer(h, m)
  PROVE  inbox' \in [Conns -> Seq(Message)]
BY DEF TypeOK, HistoryTypes, Answer

\* The turns of subscribe preserve the types.
LEMMA SubscribeTyped ==
  ASSUME TypeOK, NEW c \in Calls,
         \/ LinkLost(c) \/ SubscribeDenied(c) \/ SubscribeGranted(c) \/ Subscribe(c)
  PROVE  TypeOK'
<1> USE DEF TypeOK
<1>1. CASE LinkLost(c)
  BY <1>1, QuietSettleTyped DEF LinkLost, Settled
<1>2. ASSUME Verdict(c, "subscribe", TRUE) \/ Verdict(c, "subscribe", FALSE)
      PROVE  pc[c] # "idle" /\ arg[c].conn \in Conns /\ frame[c] \in Frame /\ frame[c].uri \in Uris
  <2>1. pc[c] = "policy" /\ arg[c].op = "subscribe"
    BY <1>2 DEF Verdict
  <2> QED BY <2>1, RequestOf DEF CallTypes, WellPlaced, Placed
<1>3. CASE SubscribeDenied(c)
  <2>1. CallTypes'
    BY <1>2, <1>3, SettleTyped DEF SubscribeDenied, Settled
  <2>2. HubTypes'
    BY <1>2, <1>3 DEF SubscribeDenied, HubTypes, seqVars, instVars, storeVars
  <2> QED BY <1>3, <2>1, <2>2, HistoryUntouched DEF SubscribeDenied
<1>4. CASE SubscribeGranted(c)
  <2>1. pc[c] # "idle" /\ arg[c].conn \in Conns /\ frame[c] \in Frame /\ frame[c].uri \in Uris
    BY <1>2, <1>4 DEF SubscribeGranted
  <2>2. CallTypes'
    <3>1. CASE Settle(c, "done")
      BY <2>1, <3>1, SettleTyped DEF Settled
    <3>2. CASE Lookup(c, frame[c])
      BY <2>1, <3>2, LookupTyped
    <3> QED BY <1>4, <3>1, <3>2 DEF SubscribeGranted
  <2>3. subs' \in [Conns -> SUBSET Uris]
    <3>1. \/ subs' = [subs EXCEPT ![arg[c].conn] = @ \cup {frame[c].uri}]
          \/ subs' = subs
      BY <1>4 DEF SubscribeGranted
    <3>2. subs \in [Conns -> SUBSET Uris]
      BY DEF HubTypes
    <3>3. [subs EXCEPT ![arg[c].conn] = @ \cup {frame[c].uri}] \in [Conns -> SUBSET Uris]
      BY <2>1, <3>2
    <3> QED BY <3>1, <3>2, <3>3
  <2>4. HubTypes'
    BY <1>4, <2>3 DEF SubscribeGranted, HubTypes, seqVars, instVars, storeVars
  <2> QED BY <1>4, <2>2, <2>4, HistoryUntouched DEF SubscribeGranted
<1>5. CASE Subscribe(c)
  <2> DEFINE h == arg[c].conn
             u == frame[c].uri
             m == [kind |-> "snapshots", call |-> c, missing |-> {},
                   snapshots |-> {SnapshotOf(c, u)}]
  <2>1. pc[c] = "have" /\ arg[c].op = "subscribe"
    BY <1>5 DEF Subscribe, Has
  <2>2. u \in Uris /\ Object(c, u) \in State /\ h \in Conns
    BY <2>1, HoldingFacts, RequestOf DEF Holding
  <2>3. SnapshotOf(c, u) \in Snapshot
    BY <2>2 DEF SnapshotOf, Snapshot, HubTypes
  <2>4. m \in Message
    BY <2>3 DEF Message
  <2>5. inbox' \in [Conns -> Seq(Message)]
    BY <1>5, <2>2, <2>4, AnswerTyped DEF Subscribe
  <2>6. CallTypes'
    BY <1>5, <2>1, SettleTyped DEF Subscribe, Settled
  <2>7. subs' \in [Conns -> SUBSET Uris]
    BY <1>5, <2>2 DEF Subscribe, HubTypes
  <2>8. HubTypes'
    BY <1>5, <2>7 DEF Subscribe, HubTypes, seqVars, instVars, storeVars
  <2>9. HistoryTypes'
    BY <1>5, <2>5 DEF Subscribe, HistoryTypes
  <2> QED BY <2>6, <2>8, <2>9
<1> QED BY <1>1, <1>3, <1>4, <1>5

\* What reconnect answers, replay or snapshots, is a message.
LEMMA ResumptionTyped ==
  ASSUME TypeOK, NEW c \in Calls, NEW f \in Frame, NEW kept \in SUBSET Uris,
         arg[c] \in Request
  PROVE  Resumption(c, f, kept) \in Message
<1> USE DEF TypeOK
<1>1. CASE Replayable(arg[c].lastSeen)
  <2>1. {e \in Replayed!Missed(ring, arg[c].lastSeen) : e.uri \in kept} \subseteq Envelope
    BY DEF Replayed!Missed, HubTypes
  <2> QED BY <1>1, <2>1 DEF Resumption, Message, Request, Frame
<1>2. CASE ~Replayable(arg[c].lastSeen)
  <2> DEFINE shots == {[uri |-> u, state |-> heap[u][f.ref[u]], fromSeq |-> serverSeq] :
                         u \in {v \in Uris : f.ref[v] # None}}
  <2>1. ASSUME NEW u \in Uris, f.ref[u] # None
        PROVE  [uri |-> u, state |-> heap[u][f.ref[u]], fromSeq |-> serverSeq] \in Snapshot
    <3>1. f.ref[u] \in Objects
      BY <2>1 DEF Frame
    <3>2. heap[u][f.ref[u]] \in State /\ serverSeq \in Nat
      BY <2>1, <3>1 DEF HubTypes
    <3> QED BY <2>1, <3>2 DEF Snapshot
  <2>2. shots \subseteq Snapshot
    BY <2>1
  <2>3. f.missing \in SUBSET Uris
    BY DEF Frame
  <2>4. Resumption(c, f, kept) = [kind |-> "snapshots", call |-> c, missing |-> f.missing,
                                  snapshots |-> shots]
    BY <1>2 DEF Resumption
  <2> HIDE DEF shots
  <2> QED BY <2>2, <2>3, <2>4 DEF Message
<1> QED BY <1>1, <1>2

\* One round of reconnect's loop, or its answer, preserves the types.
LEMMA NextUriTyped ==
  ASSUME TypeOK, NEW c \in Calls, NEW f \in Frame, NEW kept \in SUBSET Uris,
         pc[c] # "idle", arg[c] \in Request, arg[c].conn \in Conns,
         NextUri(c, f, kept), UNCHANGED instVars
  PROVE  TypeOK'
<1> USE DEF TypeOK
<1>1. subs' = [subs EXCEPT ![arg[c].conn] = kept]
      /\ UNCHANGED <<seqVars, lock, ring, link, watermark, storeVars, log>>
  BY DEF NextUri
<1>2. HubTypes'
  BY <1>1 DEF HubTypes, seqVars, instVars, storeVars
<1>3. CASE f.todo = {} /\ Answer(arg[c].conn, Resumption(c, f, kept)) /\ Settle(c, "done")
  <2>1. inbox' \in [Conns -> Seq(Message)]
    BY <1>3, ResumptionTyped, AnswerTyped
  <2>2. CallTypes'
    BY <1>3, SettleTyped DEF Settled
  <2> QED BY <1>1, <1>2, <2>1, <2>2 DEF HistoryTypes
<1>4. ASSUME NEW u \in f.todo, Goto(c, "policy", [f EXCEPT !.uri = u, !.todo = @ \ {u}]),
             UNCHANGED inbox
      PROVE  TypeOK'
  <2> DEFINE g == [f EXCEPT !.uri = u, !.todo = @ \ {u}]
  <2>1. g \in Frame /\ g.uri \in Uris
    BY DEF Frame
  <2>2. WellPlaced("policy", g) /\ "policy" \in Labels
    BY <2>1 DEF WellPlaced, Labels, Placed, Holding, Locked
  <2>3. CallTypes'
    BY <1>4, <2>1, <2>2, GotoTyped
  <2> QED BY <1>1, <1>2, <1>4, <2>3 DEF HistoryTypes
<1>5. \/ \E u \in f.todo : Goto(c, "policy", [f EXCEPT !.uri = u, !.todo = @ \ {u}]) /\ UNCHANGED inbox
      \/ f.todo = {} /\ Answer(arg[c].conn, Resumption(c, f, kept)) /\ Settle(c, "done")
  BY DEF NextUri
<1> QED BY <1>3, <1>4, <1>5

\* How far a turn of reconnect extends the subscriptions, and what it leaves to do.
Within(c, g, kept) ==
  IF pc[c] = "begin"
  THEN kept = {} /\ g.todo \cap Internal = {}
  ELSE kept \subseteq subs[arg[c].conn] \cup {frame[c].uri} /\ g.todo = frame[c].todo

\* A turn of reconnect goes on to the next URI, looks an instance up, or throws.
LEMMA ReconnectCases ==
  ASSUME TypeOK, NEW c \in Calls,
         BeginReconnect(c) \/ ReconnectPolicy(c) \/ ReconnectUri(c)
  PROVE  /\ pc[c] # "idle" /\ arg[c] \in Request /\ arg[c].op = "reconnect"
         /\ arg[c].conn \in Conns
         /\ frame[c] \in Frame /\ UNCHANGED instVars
         /\ pc[c] \in {"begin", "policy", "load", "have"}
         /\ \/ /\ Live(arg[c].conn)
               /\ \E g \in Frame, kept \in SUBSET Uris : NextUri(c, g, kept) /\ Within(c, g, kept)
            \/ /\ frame[c].uri \in Uris /\ pc[c] = "policy" /\ Lookup(c, frame[c])
               /\ UNCHANGED <<seqVars, lock, ring, linkVars, storeVars, histVars>>
            \/ /\ Settle(c, "failed")
               /\ UNCHANGED <<seqVars, lock, ring, linkVars, storeVars, histVars>>
<1> USE DEF TypeOK
<1> DEFINE f == frame[c]
           h == arg[c].conn
           Quiet == UNCHANGED <<seqVars, lock, ring, linkVars, storeVars, histVars>>
           On == /\ Live(h)
                 /\ \E g \in Frame, kept \in SUBSET Uris : NextUri(c, g, kept) /\ Within(c, g, kept)
           Looks == f.uri \in Uris /\ pc[c] = "policy" /\ Lookup(c, f) /\ Quiet
           Goal == On \/ Looks \/ (Settle(c, "failed") /\ Quiet)
<1>1. /\ arg[c].op = "reconnect" /\ UNCHANGED instVars
      /\ pc[c] \in {"begin", "policy", "load", "have"} /\ pc[c] # "idle"
  BY DEF BeginReconnect, ReconnectPolicy, ReconnectUri, Begins, Has, Verdict
<1>2. arg[c] \in Request /\ h \in Conns /\ f \in Frame /\ subs[h] \in SUBSET Uris
  BY <1>1, RequestOf DEF CallTypes, HubTypes
<1>3. ASSUME NEW g \in Frame, NEW kept \in SUBSET Uris, NextUri(c, g, kept),
             Within(c, g, kept), Live(h)
      PROVE  On
  BY <1>3
<1>4. CASE BeginReconnect(c)
  <2> DEFINE g == [Blank EXCEPT !.todo = Reachable(arg[c].uris),
                                !.missing = arg[c].uris \ Reachable(arg[c].uris)]
  <2>1. g \in Frame
    BY <1>2, BlankTyped DEF Frame, Request, Reachable
  <2>2. (Live(h) /\ NextUri(c, g, {})) \/ (Settle(c, "failed") /\ Quiet)
    BY <1>4 DEF BeginReconnect
  <2>3. g.todo \cap Internal = {}
    BY BlankTyped DEF Reachable, Frame
  <2>4. Within(c, g, {})
    BY <1>4, <2>3 DEF Within, BeginReconnect, Begins
  <2>5. Goal
    <3> HIDE DEF g, Quiet, On
    <3> QED BY <1>3, <2>1, <2>2, <2>4
  <2> QED BY <1>1, <1>2, <2>5
<1> DEFINE missing == [f EXCEPT !.missing = @ \cup {f.uri}]
           more == subs[h] \cup {f.uri}
<1>5. ASSUME pc[c] \in Placed
      PROVE  f.uri \in Uris /\ missing \in Frame /\ more \in SUBSET Uris
  <2>1. f.uri \in Uris
    BY <1>5 DEF CallTypes, WellPlaced
  <2> QED BY <1>2, <2>1 DEF Frame
<1>6. ASSUME pc[c] # "begin"
      PROVE  Within(c, missing, subs[h]) /\ Within(c, f, more)
  <2>1. missing.todo = f.todo
    BY <1>2 DEF Frame
  <2> QED BY <1>6, <2>1 DEF Within
<1>7. CASE ReconnectPolicy(c)
  <2>1. pc[c] \in Placed /\ pc[c] = "policy"
    BY <1>7 DEF ReconnectPolicy, Verdict, Placed
  <2>2. \/ Live(h) /\ NextUri(c, missing, subs[h])
        \/ Live(h) /\ NextUri(c, f, more)
        \/ Lookup(c, f) /\ Quiet
    BY <1>7 DEF ReconnectPolicy, Verdict
  <2>3. Goal
    <3> HIDE DEF missing, more, Quiet, On
    <3> QED BY <1>2, <1>3, <1>5, <1>6, <2>1, <2>2
  <2> QED BY <1>1, <1>2, <2>3
<1>8. CASE ReconnectUri(c)
  <2>1. pc[c] \in Placed /\ pc[c] # "begin"
    BY <1>8 DEF ReconnectUri, Has, Placed, Holding
  <2>2. \/ Live(h) /\ NextUri(c, f, more)
        \/ Live(h) /\ NextUri(c, missing, subs[h])
        \/ Settle(c, "failed") /\ Quiet
    BY <1>8 DEF ReconnectUri
  <2>3. Goal
    <3> HIDE DEF missing, more, Quiet, On
    <3> QED BY <1>2, <1>3, <1>5, <1>6, <2>1, <2>2
  <2> QED BY <1>1, <1>2, <2>3
<1> QED BY <1>4, <1>7, <1>8

\* The turns of reconnect preserve the types.
LEMMA ReconnectTyped ==
  ASSUME TypeOK, NEW c \in Calls,
         BeginReconnect(c) \/ ReconnectPolicy(c) \/ ReconnectUri(c)
  PROVE  TypeOK'
<1>1. CASE \E g \in Frame, kept \in SUBSET Uris : NextUri(c, g, kept)
  BY <1>1, ReconnectCases, NextUriTyped
<1> DEFINE Quiet == UNCHANGED <<seqVars, instVars, lock, ring, linkVars, storeVars, histVars>>
<1>2. CASE frame[c].uri \in Uris /\ Lookup(c, frame[c]) /\ Quiet
  BY <1>2, ReconnectCases, LookupTyped, HubUntouched, HistoryUntouched DEF TypeOK
<1>3. CASE Settle(c, "failed") /\ Quiet
  BY <1>3, ReconnectCases, QuietSettleTyped DEF Settled
<1> QED BY <1>1, <1>2, <1>3, ReconnectCases

\* What a commit publishes is an envelope.
LEMMA EnvelopeTyped ==
  ASSUME TypeOK, NEW c \in Calls, pc[c] \in Holding
  PROVE  EnvelopeOf(c) \in Envelope
BY HoldingFacts DEF EnvelopeOf, Envelope, Frame

\* The ring holds envelopes after one more append.
LEMMA PushTyped ==
  ASSUME HubTypes, NEW e \in Envelope
  PROVE  Replayed!Push(ring, e) \in Seq(Envelope)
<1>1. ring \in Seq(Envelope) /\ ReplayLimit \in Nat \ {0}
  BY HubAssumption DEF HubTypes
<1>2. CASE Len(ring) = ReplayLimit
  <2>1. ring # << >>
    BY <1>1, <1>2
  <2>2. Tail(ring) \in Seq(Envelope)
    BY <1>1, <2>1
  <2> QED BY <1>2, <2>2 DEF Replayed!Push
<1>3. CASE Len(ring) # ReplayLimit
  BY <1>1, <1>3 DEF Replayed!Push
<1> QED BY <1>2, <1>3

\* Leaving or entering the queue.
LEMMA LockTyped ==
  ASSUME HubTypes
  PROVE  /\ \A c \in Calls : Append(lock, c) \in Seq(Calls)
         /\ lock # << >> => Tail(lock) \in Seq(Calls)
BY DEF HubTypes

\* A commit that throws preserves the types.
LEMMA AbandonTyped ==
  ASSUME TypeOK, NEW c \in Calls, pc[c] # "idle", lock # << >>, Abandon(c)
  PROVE  TypeOK'
<1>1. CallTypes'
  BY SettleTyped DEF TypeOK, Abandon, Settled
<1>2. HubTypes'
  BY LockTyped DEF TypeOK, HubTypes, Abandon, Release, seqVars, instVars, linkVars, storeVars
<1> QED BY <1>1, <1>2, HistoryUntouched DEF TypeOK, Abandon

\* The write of the sequence preserves the types.
LEMMA SequenceTyped ==
  ASSUME TypeOK, NEW c \in Calls, NEW f \in Frame, pc[c] # "idle", WellPlaced("sequencing", f),
         Sequence(c, f), UNCHANGED <<instVars, storage>>
  PROVE  TypeOK'
<1> USE DEF TypeOK
<1>1. PICK ok \in WriteOutcomes :
        /\ storedSeq' = IF ok THEN f.seq ELSE storedSeq
        /\ Goto(c, "sequencing", [f EXCEPT !.wrote = ok])
  BY DEF Sequence
<1>2. ok \in BOOLEAN /\ f.seq \in Nat
  BY <1>1 DEF WriteOutcomes, Frame
<1>3. [f EXCEPT !.wrote = ok] \in Frame /\ WellPlaced("sequencing", [f EXCEPT !.wrote = ok])
  BY <1>2 DEF Frame, WellPlaced
<1>4. CallTypes'
  BY <1>1, <1>3, GotoTyped DEF Labels, Placed, Holding, Locked
<1>5. HubTypes'
  BY <1>1, <1>2 DEF Sequence, HubTypes, instVars, linkVars
<1> QED BY <1>4, <1>5, HistoryUntouched DEF Sequence

\* A rejected action preserves the types.
LEMMA RejectTyped ==
  ASSUME TypeOK, NEW c \in Calls, pc[c] \in Holding, Reject(c)
  PROVE  TypeOK'
<1> DEFINE f == [frame[c] EXCEPT !.seq = NextSeq, !.accepted = FALSE]
<1>1. NextSeq \in Nat
  BY DEF TypeOK, HubTypes, NextSeq
<1>2. f \in Frame /\ WellPlaced("sequencing", f)
  BY <1>1, HoldingFacts DEF Frame, WellPlaced
<1>3. Sequence(c, f) /\ UNCHANGED <<instVars, storage>>
  BY DEF Reject
<1> HIDE DEF f
<1> QED BY <1>2, <1>3, HoldingFacts, SequenceTyped

\* An accepted action preserves the types.
LEMMA AcceptTyped ==
  ASSUME TypeOK, NEW c \in Calls, pc[c] \in Holding, Accept(c)
  PROVE  TypeOK'
<1> USE DEF TypeOK
<1> DEFINE u == frame[c].uri
           o == frame[c].ref[u]
           next == Reduced(c, u)
<1>1. u \in Uris /\ o \in Objects /\ Object(c, u) \in State /\ frame[c] \in Frame /\ pc[c] # "idle"
  BY HoldingFacts
<1>2. next \in State
  BY <1>1 DEF Reduced, State
<1>3. heap' = [heap EXCEPT ![u][o] = next]
  BY DEF Accept
<1>4. PICK ok \in WriteOutcomes :
        /\ storage' = IF ok THEN [storage EXCEPT ![u] = next] ELSE storage
        /\ Goto(c, "persisting", [frame[c] EXCEPT !.seq = NextSeq, !.accepted = TRUE,
                                                  !.wrote = ok])
  BY DEF Accept
<1> DEFINE f == [frame[c] EXCEPT !.seq = NextSeq, !.accepted = TRUE, !.wrote = ok]
<1>5. ok \in BOOLEAN /\ NextSeq \in Nat
  <2>1. ok \in BOOLEAN
    BY <1>4 DEF WriteOutcomes
  <2>2. NextSeq \in Nat
    BY DEF HubTypes, NextSeq
  <2> QED BY <2>1, <2>2
<1>6. f \in Frame /\ WellPlaced("persisting", f)
  BY <1>1, <1>5 DEF Frame, WellPlaced
<1>7. CallTypes'
  BY <1>1, <1>4, <1>6, GotoTyped DEF Labels, Placed, Holding, Locked
<1>8. heap' \in [Uris -> [Objects -> State]]
  <2> HIDE DEF next, u, o
  <2> QED BY <1>1, <1>2, <1>3 DEF HubTypes
<1>9. storage' \in [Uris -> State \cup {Absent}]
  <2> HIDE DEF next, u
  <2> QED BY <1>1, <1>2, <1>4 DEF HubTypes
<1>10. UNCHANGED <<seqVars, instances, lock, ring, linkVars, storedSeq, histVars>>
  BY DEF Accept
<1>11. HubTypes'
  BY <1>8, <1>9, <1>10 DEF HubTypes, seqVars, linkVars
<1> QED BY <1>7, <1>10, <1>11, HistoryUntouched

\* So does the reducer, whatever it does.
LEMMA ReduceTyped ==
  ASSUME TypeOK, NEW c \in Calls, pc[c] \in Holding, lock # << >>, Reduce(c)
  PROVE  TypeOK'
BY HoldingFacts, AcceptTyped, RejectTyped, AbandonTyped DEF Reduce

\* The turns of a commit preserve the types; releasing the mutex needs that it is held.
LEMMA CommitTyped ==
  ASSUME TypeOK, CommitsExclude, NEW c \in Calls,
         \/ Dispatch(c) \/ DispatchDuplicate(c) \/ DispatchFrom(c)
         \/ Enter(c) \/ Authorized(c) \/ Persisted(c) \/ Sequenced(c)
  PROVE  TypeOK'
<1> USE DEF TypeOK
<1>1. pc[c] \in Holding
  BY DEF Dispatch, DispatchDuplicate, DispatchFrom, Enter, Authorized, Persisted, Sequenced,
         Has, Holding, Locked
<1>2. /\ frame[c] \in Frame /\ frame[c].uri \in Uris /\ frame[c].ref[frame[c].uri] \in Objects
      /\ pc[c] # "idle" /\ arg[c] \in Request
  BY <1>1, HoldingFacts
<1>3. WellPlaced("queued", frame[c]) /\ WellPlaced("authorizing", frame[c])
      /\ WellPlaced("sequencing", frame[c])
  BY <1>2 DEF WellPlaced
<1>4. {"queued", "authorizing", "sequencing"} \subseteq Labels
  BY DEF Labels, Placed, Holding, Locked
<1>5. CASE Dispatch(c) \/ DispatchDuplicate(c) \/ DispatchFrom(c)
  <2>1. CallTypes'
    <3>1. CASE Goto(c, "queued", frame[c])
      BY <1>2, <1>3, <1>4, <3>1, GotoTyped
    <3>2. CASE Settle(c, "failed") \/ Settle(c, "done")
      BY <1>2, <3>2, SettleTyped DEF Settled
    <3> QED BY <1>5, <3>1, <3>2 DEF Dispatch, DispatchDuplicate, DispatchFrom, Queue
  <2>2. lock' \in Seq(Calls)
    BY <1>5, LockTyped DEF Dispatch, DispatchDuplicate, DispatchFrom, Queue, HubTypes
  <2>3. watermark' \in [Conns -> Nat]
    <3>1. arg[c].clientSeq \in Nat
      BY <1>2 DEF Request
    <3> QED BY <1>5, <3>1 DEF Dispatch, DispatchDuplicate, DispatchFrom, HubTypes, linkVars
  <2>4. UNCHANGED <<seqVars, instVars, ring, link, subs, storeVars, histVars>>
    BY <1>5 DEF Dispatch, DispatchDuplicate, DispatchFrom, linkVars
  <2>5. HubTypes'
    BY <2>2, <2>3, <2>4 DEF HubTypes, seqVars, instVars, storeVars
  <2> QED BY <2>1, <2>4, <2>5, HistoryUntouched
<1>6. CASE Enter(c) \/ Authorized(c) \/ Persisted(c) \/ Sequenced(c)
  <2>1. lock # << >>
    BY <1>6 DEF CommitsExclude, Enter, HoldsLock, Authorized, Persisted, Sequenced, Locked
  <2>2. CASE Reduce(c)
    BY <1>1, <2>1, <2>2, ReduceTyped
  <2>3. CASE Reject(c)
    BY <1>1, <2>3, RejectTyped
  <2>4. CASE Abandon(c)
    BY <1>2, <2>1, <2>4, AbandonTyped
  <2>5. CASE /\ Goto(c, "authorizing", frame[c])
             /\ UNCHANGED <<seqVars, instVars, lock, ring, linkVars, storeVars, histVars>>
    BY <1>2, <1>3, <1>4, <2>5, GotoTyped, HubUntouched, HistoryUntouched
  <2>6. CASE Sequence(c, frame[c]) /\ UNCHANGED <<instVars, storage>>
    BY <1>2, <1>3, <2>6, SequenceTyped
  <2>7. CASE Publish(c)
    <3> DEFINE e == EnvelopeOf(c)
    <3>1. e \in Envelope /\ e \in Message
      BY <1>1, EnvelopeTyped DEF Message
    <3>2. /\ ring' = Replayed!Push(ring, e) /\ log' = Append(log, e) /\ Broadcast(e) /\ Release
          /\ Goto(c, "running", Blank) \/ Settle(c, "done")
          /\ UNCHANGED <<seqVars, instVars, storeVars>>
      BY <2>7 DEF Publish
    <3>3. CallTypes'
      <4>1. WellPlaced("running", Blank) /\ "running" \in Labels
        BY DEF WellPlaced, Labels, Placed, Holding, Locked
      <4> QED BY <1>2, <3>2, <4>1, BlankTyped, GotoTyped, SettleTyped DEF Settled
    <3>4. /\ ring' \in Seq(Envelope)
          /\ lock' \in Seq(Calls)
      BY <2>1, <3>1, <3>2, PushTyped, LockTyped DEF Release
    <3>5. /\ link' \in [Conns -> {"unused", "live", "gone"}]
          /\ subs' \in [Conns -> SUBSET Uris]
          /\ watermark' \in [Conns -> Nat]
          /\ inbox' \in [Conns -> Seq(Message)]
      BY <3>1, <3>2, BroadcastTyped
    <3>6. HubTypes'
      BY <3>2, <3>4, <3>5 DEF HubTypes, seqVars, instVars, storeVars
    <3>7. log' \in Seq(Envelope)
      BY <3>1, <3>2 DEF HistoryTypes
    <3> QED BY <3>3, <3>5, <3>6, <3>7 DEF HistoryTypes
  <2> QED BY <1>6, <2>2, <2>3, <2>4, <2>5, <2>6, <2>7 DEF Enter, Authorized, Persisted, Sequenced
<1> QED BY <1>5, <1>6

\* Host code and get preserve the types.
LEMMA HostTyped ==
  ASSUME TypeOK, NEW c \in Calls, Exec(c) \/ ExecPolicy(c) \/ Run(c) \/ Awaited(c) \/ Get(c)
  PROVE  TypeOK'
<1> USE DEF TypeOK
<1>1. UNCHANGED <<seqVars, instVars, lock, ring, linkVars, storeVars, histVars>>
  BY DEF Exec, ExecPolicy, Run, Awaited, Get
<1>2. HubTypes' /\ HistoryTypes'
  BY <1>1, HubUntouched, HistoryUntouched
<1>3. pc[c] # "idle"
  BY DEF Exec, ExecPolicy, Run, Awaited, Get, Has, Verdict
<1>4. CASE ExecPolicy(c) \/ Awaited(c) \/ Get(c)
  <2>1. WellPlaced("running", Blank) /\ "running" \in Labels
    BY DEF WellPlaced, Labels, Placed, Holding, Locked
  <2>2. ASSUME Goto(c, "running", Blank)
        PROVE  CallTypes'
    BY <1>3, <2>1, <2>2, BlankTyped, GotoTyped
  <2>3. ASSUME NEW label \in Settled, Settle(c, label)
        PROVE  CallTypes'
    BY <1>3, <2>3, SettleTyped
  <2>4. CallTypes'
    BY <1>4, <2>2, <2>3 DEF ExecPolicy, Awaited, Get, Settled
  <2> QED BY <1>2, <2>4
<1>5. CASE Exec(c)
  <2>1. frame[c] \in Frame /\ frame[c].uri \in Uris
    BY <1>5, HoldingFacts DEF Exec, Has, Holding
  <2>2. WellPlaced("running", frame[c]) /\ WellPlaced("policy", frame[c])
        /\ {"running", "policy"} \subseteq Labels
    BY <2>1 DEF WellPlaced, Labels, Placed, Holding, Locked
  <2>3. Goto(c, "running", frame[c]) \/ Goto(c, "policy", frame[c])
    BY <1>5 DEF Exec
  <2> QED BY <1>2, <1>3, <2>1, <2>2, <2>3, GotoTyped
<1>6. CASE Run(c)
  <2>1. CASE Settle(c, "done") \/ Settle(c, "failed")
    BY <1>2, <1>3, <2>1, SettleTyped DEF Settled
  <2>2. ASSUME NEW d \in Calls, NEW r \in Requests,
               pc[d] = "idle",
               pc' = [pc EXCEPT ![c] = "awaiting", ![d] = "begin"],
               arg' = [arg EXCEPT ![d] = r],
               frame' = [frame EXCEPT ![c].child = d]
        PROVE  CallTypes'
    <3>1. pc' \in [Calls -> Labels]
      BY <2>2 DEF CallTypes, Labels
    <3>2. arg' \in [Calls -> Requests \cup {None}] /\ frame' \in [Calls -> Frame]
      <4>1. [frame[c] EXCEPT !.child = d] \in Frame
        BY DEF CallTypes, Frame
      <4> QED BY <2>2, <4>1 DEF CallTypes
    <3>3. ASSUME NEW b \in Calls
          PROVE  (pc'[b] # "idle" => arg'[b] \in Requests) /\ WellPlaced(pc'[b], frame'[b])
      <4>1. CASE b = c \/ b = d
        <5>1. pc'[b] \in {"awaiting", "begin"}
          BY <2>2, <4>1 DEF CallTypes
        <5>2. pc'[b] # "idle" => arg'[b] \in Requests
          BY <1>3, <2>2, <4>1 DEF CallTypes
        <5> QED BY <5>1, <5>2 DEF WellPlaced, Placed, Holding, Locked
      <4>2. CASE b # c /\ b # d
        BY <2>2, <4>2 DEF CallTypes
      <4> QED BY <4>1, <4>2
    <3> QED BY <3>1, <3>2, <3>3 DEF CallTypes
  <2> QED BY <1>2, <1>6, <2>1, <2>2 DEF Run
<1> QED BY <1>4, <1>5, <1>6

\* create and destroy preserve the types.
LEMMA LifecycleTyped ==
  ASSUME TypeOK, NEW c \in Calls,
         BeginCreate(c) \/ Create(c) \/ Created(c) \/ Destroy(c) \/ Destroyed(c)
  PROVE  TypeOK'
<1> USE DEF TypeOK
<1>1. pc[c] # "idle" /\ frame[c] \in Frame /\ arg[c] \in Request
  <2>1. pc[c] # "idle"
    BY DEF BeginCreate, Begins, Create, Created, Destroy, Destroyed, Has
  <2> QED BY <2>1, RequestOf DEF CallTypes
<1>2. pc[c] \in Placed => frame[c].uri \in Uris
  BY DEF CallTypes, WellPlaced
<1>3. << >> \in State /\ c \in Objects
  BY DEF State, Objects
<1>4. ASSUME NEW label \in {"creating", "storing", "deleting"}, NEW f \in Frame, f.uri \in Uris,
             Goto(c, label, f)
      PROVE  CallTypes'
  <2>1. WellPlaced(label, f) /\ label \in Labels
    BY <1>4 DEF WellPlaced, Labels, Placed, Holding, Locked
  <2> QED BY <1>1, <1>4, <2>1, GotoTyped
<1>5. CASE BeginCreate(c)
  <2> DEFINE u == arg[c].uri
             f == [Blank EXCEPT !.uri = u, !.loaded = storage[u]]
  <2>1. UNCHANGED <<seqVars, instVars, lock, ring, linkVars, storeVars, histVars>>
    BY <1>5 DEF BeginCreate
  <2>2. CASE Settle(c, "failed")
    BY <1>1, <2>1, <2>2, QuietSettleTyped DEF Settled
  <2>3. CASE Goto(c, "creating", f)
    <3>1. u \in Uris
      BY <1>1 DEF Request
    <3>2. f \in Frame /\ f.uri \in Uris
      BY <3>1, BlankTyped DEF Frame, HubTypes
    <3> QED BY <1>4, <2>1, <2>3, <3>2, HubUntouched, HistoryUntouched
  <2> QED BY <1>5, <2>2, <2>3 DEF BeginCreate
<1>6. CASE Create(c)
  <2> DEFINE u == frame[c].uri
  <2>0. u \in Uris
    BY <1>2, <1>6 DEF Create, Placed
  <2>1. UNCHANGED <<seqVars, lock, ring, linkVars, storedSeq, histVars>>
    BY <1>6 DEF Create
  <2>2. CASE ~Vacant(c)
    <3>1. Settle(c, "failed") /\ UNCHANGED <<instVars, storage>>
      BY <1>6, <2>2 DEF Create
    <3> QED BY <1>1, <2>1, <3>1, SettleTyped, HubUntouched, HistoryUntouched
        DEF Settled, storeVars
  <2>3. CASE Vacant(c)
    <3>1. heap' = [heap EXCEPT ![u][c] = << >>]
      BY <1>6, <2>3 DEF Create
    <3>2. instances' = [instances EXCEPT ![u] = c]
      BY <1>6, <2>3 DEF Create
    <3>3. PICK ok \in WriteOutcomes :
            /\ storage' = IF ok THEN [storage EXCEPT ![u] = << >>] ELSE storage
            /\ Goto(c, "storing", [Blank EXCEPT !.uri = u, !.wrote = ok])
      BY <1>6, <2>3 DEF Create
    <3>4. ok \in BOOLEAN
      BY <3>3 DEF WriteOutcomes
    <3> DEFINE f == [Blank EXCEPT !.uri = u, !.wrote = ok]
    <3>5. f \in Frame /\ f.uri \in Uris
      BY <2>0, <3>4, BlankTyped DEF Frame
    <3>6. CallTypes'
      BY <1>4, <3>3, <3>5
    <3>7. heap' \in [Uris -> [Objects -> State]] /\ instances' \in [Uris -> Objects \cup {None}]
      BY <2>0, <1>3, <3>1, <3>2 DEF HubTypes
    <3>8. storage' \in [Uris -> State \cup {Absent}]
      BY <2>0, <1>3, <3>3 DEF HubTypes
    <3>9. HubTypes'
      BY <2>1, <3>7, <3>8 DEF HubTypes, seqVars, linkVars
    <3> QED BY <2>1, <3>6, <3>9, HistoryUntouched
  <2> QED BY <2>2, <2>3
<1>7. CASE Created(c)
  BY <1>1, <1>7, QuietSettleTyped DEF Created, Settled
<1>8. CASE Destroy(c)
  <2>1. UNCHANGED <<seqVars, instVars, lock, ring, linkVars, storedSeq, histVars>>
    BY <1>8 DEF Destroy
  <2>2. PICK ok \in WriteOutcomes :
          /\ storage' = IF ok THEN [storage EXCEPT ![frame[c].uri] = Absent] ELSE storage
          /\ Goto(c, "deleting", [frame[c] EXCEPT !.wrote = ok])
    BY <1>8 DEF Destroy
  <2>3. ok \in BOOLEAN
    BY <2>2 DEF WriteOutcomes
  <2>4. frame[c].uri \in Uris
    BY <1>2, <1>8 DEF Destroy, Has, Holding, Placed
  <2> DEFINE f == [frame[c] EXCEPT !.wrote = ok]
  <2>5. f \in Frame /\ f.uri \in Uris
    BY <1>1, <2>3, <2>4 DEF Frame
  <2>6. CallTypes'
    BY <1>4, <2>2, <2>5
  <2>7. storage' \in [Uris -> State \cup {Absent}]
    BY <2>2, <2>4 DEF HubTypes
  <2>8. HubTypes'
    BY <2>1, <2>7 DEF HubTypes, seqVars, instVars, linkVars
  <2> QED BY <2>1, <2>6, <2>8, HistoryUntouched
<1>9. CASE Destroyed(c)
  <2>1. UNCHANGED <<seqVars, heap, lock, ring, link, watermark, storeVars, histVars>>
    BY <1>9 DEF Destroyed
  <2>2. CallTypes'
    BY <1>1, <1>9, SettleTyped DEF Destroyed, Settled
  <2>3. /\ instances' \in [Uris -> Objects \cup {None}]
        /\ subs' \in [Conns -> SUBSET Uris]
    <3> DEFINE v == frame[c].uri
    <3>1. \/ /\ instances' = [instances EXCEPT ![v] = None]
             /\ subs' = [h \in Conns |-> IF Live(h) THEN subs[h] \ {v} ELSE subs[h]]
          \/ UNCHANGED <<instances, subs>>
      BY <1>9 DEF Destroyed
    <3>2. [instances EXCEPT ![v] = None] \in [Uris -> Objects \cup {None}]
      BY DEF HubTypes
    <3>3. [h \in Conns |-> IF Live(h) THEN subs[h] \ {v} ELSE subs[h]] \in [Conns -> SUBSET Uris]
      BY DEF HubTypes
    <3> QED BY <3>1, <3>2, <3>3 DEF HubTypes
  <2>4. HubTypes'
    BY <2>1, <2>3 DEF HubTypes, seqVars, storeVars
  <2> QED BY <2>1, <2>2, <2>4, HistoryUntouched
<1> QED BY <1>5, <1>6, <1>7, <1>8, <1>9

\* Issuing a call preserves the types.
LEMMA IssueTyped ==
  ASSUME TypeOK, NEW c \in Calls, Issue(c)
  PROVE  TypeOK'
<1>1. UNCHANGED <<frame, seqVars, instVars, lock, ring, linkVars, storeVars, histVars>>
  BY DEF Issue
<1>2. CallTypes'
  BY DEF Issue, TypeOK, CallTypes, WellPlaced, Labels, Placed, Holding, Locked
<1> QED BY <1>1, <1>2, HubUntouched, HistoryUntouched DEF TypeOK

\* Reading the stored sequence preserves the types.
LEMMA HydrateTyped ==
  ASSUME TypeOK, Hydrate
  PROVE  TypeOK'
<1>1. hydrated' = TRUE /\ serverSeq' = storedSeq
      /\ UNCHANGED <<instVars, lock, ring, linkVars, storeVars, callVars, histVars>>
  BY DEF Hydrate
<1> QED BY <1>1 DEF TypeOK, HubTypes, CallTypes, HistoryTypes, WellPlaced, instVars, linkVars,
                    storeVars, callVars, histVars

\* A crash preserves the types.
LEMMA CrashTyped ==
  ASSUME TypeOK, Crash
  PROVE  TypeOK'
<1>1. /\ hydrated' = FALSE /\ serverSeq' = 0
      /\ instances' = [u \in Uris |-> None]
      /\ heap' = [u \in Uris |-> [o \in Objects |-> << >>]]
      /\ lock' = << >> /\ ring' = << >>
      /\ link' = [h \in Conns |-> IF Live(h) THEN "gone" ELSE link[h]]
      /\ subs' = [h \in Conns |-> {}]
      /\ pc' = [c \in Calls |-> IF pc[c] \in {"idle", "done", "failed"} THEN pc[c] ELSE "dropped"]
      /\ frame' = [c \in Calls |-> Blank]
      /\ UNCHANGED <<arg, watermark, storage, storedSeq, log, inbox>>
  BY DEF Crash, storeVars, histVars
<1>2. \A c \in Calls : pc'[c] \in {"idle", "done", "failed", "dropped"}
  BY <1>1
<1>3. HubTypes'
  <2>1. << >> \in State
    BY DEF State
  <2>2. heap' \in [Uris -> [Objects -> State]] /\ instances' \in [Uris -> Objects \cup {None}]
    BY <1>1, <2>1
  <2>3. link' \in [Conns -> {"unused", "live", "gone"}] /\ subs' \in [Conns -> SUBSET Uris]
    BY <1>1 DEF TypeOK, HubTypes
  <2>4. hydrated' \in BOOLEAN /\ serverSeq' \in Nat
    BY <1>1
  <2>5. lock' \in Seq(Calls) /\ ring' \in Seq(Envelope)
    BY <1>1
  <2> QED BY <1>1, <2>2, <2>3, <2>4, <2>5 DEF TypeOK, HubTypes
<1>4. CallTypes'
  <2>1. pc' \in [Calls -> Labels]
    BY <1>1, <1>2 DEF Labels, Settled
  <2>2. frame' \in [Calls -> Frame]
    BY <1>1, BlankTyped
  <2>3. ASSUME NEW c \in Calls
        PROVE  (pc'[c] # "idle" => arg'[c] \in Requests) /\ WellPlaced(pc'[c], frame'[c])
    <3>1. pc'[c] # "idle" => pc[c] # "idle"
      BY <1>1
    <3> QED BY <1>1, <1>2, <3>1 DEF TypeOK, CallTypes, WellPlaced, Placed, Holding, Locked
  <2> QED BY <1>1, <2>1, <2>2, <2>3 DEF TypeOK, CallTypes
<1> QED BY <1>1, <1>3, <1>4, HistoryUntouched DEF TypeOK, histVars

\* Every step preserves the types, as long as the mutex is sound.
LEMMA StepTyped ==
  ASSUME TypeOK, CommitsExclude, [Next]_vars
  PROVE  TypeOK'
<1>1. CASE UNCHANGED vars
  BY <1>1 DEF TypeOK, HubTypes, CallTypes, HistoryTypes, WellPlaced, vars, seqVars,
     instVars, linkVars, storeVars, callVars, histVars
<1>2. CASE \E c \in Calls : Issue(c)
  BY <1>2, IssueTyped
<1>3. CASE \/ \E h \in Conns : Connect(h) \/ Disconnect(h)
           \/ \E h \in Conns, u \in Uris : Unsubscribe(h, u)
  BY <1>3, LinksTyped
<1>4. CASE Hydrate \/ Crash
  BY <1>4, HydrateTyped, CrashTyped
<1>5. CASE \E c \in Calls : Resume(c)
  BY <1>5, BeginTyped, LoadTyped, SubscribeTyped, ReconnectTyped, CommitTyped, HostTyped,
     LifecycleTyped
  DEF Resume
<1> QED BY <1>1, <1>2, <1>3, <1>4, <1>5 DEF Next

-----------------------------------------------------------------------------
(* The inductive invariant.  The properties about order are not inductive: they hold    *)
(* because only the head of the queue moves serverSeq, because a number is written      *)
(* before it is broadcast, and because nothing runs before hydration.                   *)

Busy    == Locked \cup {"queued"}
Resting == {"idle", "begin"} \cup Settled

\* A call waits for the mutex at most once.
QueuedOnce == \A i, j \in DOMAIN lock : lock[i] = lock[j] => i = j

\* Until the stored sequence was read, no call is past ready().
Dormant == ~hydrated => \A c \in Calls : pc[c] \in Resting

\* The number in memory, the number in the storage, and the one a commit is writing.
Numbers ==
  /\ hydrated => storedSeq <= serverSeq
  /\ \A c \in Calls :
       /\ pc[c] = "persisting" => frame[c].seq = serverSeq + 1
       /\ pc[c] = "sequencing" =>
            /\ frame[c].seq = serverSeq
            /\ frame[c].wrote => storedSeq = serverSeq
            /\ \A i \in DOMAIN log : log[i].seq < serverSeq

\* Nothing is delivered live that is not in the log.
DeliveredIsLogged ==
  \A h \in Conns : \A i \in Positions(h) :
    IsAction(h, i) => \E k \in DOMAIN log : log[k] = inbox[h][i]

Mutex   == CommitsExclude /\ QueuedOnce
History == LogIncreasing /\ DeliveredIsDurable /\ DeliveredIsLogged /\ DeliveryInOrder

IInv == TypeOK /\ Mutex /\ Dormant /\ Numbers /\ History

-----------------------------------------------------------------------------
\* The links are told nothing, or something that is not an envelope.
TellsNoEnvelope ==
  \A h \in Conns : \/ inbox'[h] = inbox[h]
                   \/ \E m \in Message : m.kind # "action" /\ inbox'[h] = Append(inbox[h], m)

\* A step that leaves alone the mutex, the calls that are in it, and all it protects.
Outside ==
  /\ UNCHANGED <<hydrated, serverSeq, storedSeq, lock, ring, log>>
  /\ \A c \in Calls : pc[c] \in Busy \/ pc'[c] \in Busy => pc'[c] = pc[c] /\ frame'[c] = frame[c]
  /\ hydrated \/ \A c \in Calls : pc'[c] \in Resting
  /\ TellsNoEnvelope

\* Telling the links no envelope keeps what is known about their envelopes.
LEMMA DeliveryKept ==
  ASSUME HistoryTypes, DeliveredIsLogged, DeliveryInOrder, UNCHANGED log, TellsNoEnvelope
  PROVE  DeliveredIsLogged' /\ DeliveryInOrder'
<1>1. ASSUME NEW h \in Conns, NEW i \in Positions(h)', IsAction(h, i)'
      PROVE  i \in Positions(h) /\ inbox'[h][i] = inbox[h][i]
  <2>1. inbox[h] \in Seq(Message) /\ i \in DOMAIN inbox'[h] /\ inbox'[h][i].kind = "action"
    BY <1>1 DEF HistoryTypes, Positions, IsAction
  <2>2. CASE inbox'[h] = inbox[h]
    BY <2>1, <2>2 DEF Positions
  <2>3. ASSUME NEW m \in Message, m.kind # "action", inbox'[h] = Append(inbox[h], m)
        PROVE  i \in Positions(h) /\ inbox'[h][i] = inbox[h][i]
    BY <2>1, <2>3 DEF Positions
  <2> QED BY <2>2, <2>3 DEF TellsNoEnvelope
<1>2. DeliveredIsLogged'
  BY <1>1 DEF DeliveredIsLogged, IsAction
<1>3. DeliveryInOrder'
  BY <1>1 DEF DeliveryInOrder, IsAction
<1> QED BY <1>2, <1>3

\* A step outside the mutex preserves the invariant.
LEMMA OutsideKeeps ==
  ASSUME IInv, TypeOK', Outside
  PROVE  IInv'
<1> USE DEF IInv
<1>1. Mutex'
  BY DEF Mutex, CommitsExclude, QueuedOnce, Outside, Busy
<1>2. Dormant'
  BY DEF Dormant, Outside
<1>3. Numbers'
  BY DEF Numbers, Outside, Busy, Locked
<1>4. LogIncreasing' /\ DeliveredIsDurable'
  BY DEF History, LogIncreasing, DeliveredIsDurable, Outside
<1>5. DeliveredIsLogged' /\ DeliveryInOrder'
  BY DeliveryKept DEF History, Outside, TypeOK
<1> QED BY <1>1, <1>2, <1>3, <1>4, <1>5 DEF History

\* A call past ready() runs in a hydrated hub.
LEMMA PastReady ==
  ASSUME IInv, NEW c \in Calls, pc[c] \notin Resting
  PROVE  hydrated
BY DEF IInv, Dormant

\* Moving a call that is not in the mutex, to a label that is not either, is outside.
LEMMA GotoOutside ==
  ASSUME TypeOK, hydrated, NEW c \in Calls, NEW label \in Labels \ Busy, NEW f,
         pc[c] \notin Busy, Goto(c, label, f),
         UNCHANGED <<hydrated, serverSeq, storedSeq, lock, ring, log>>, TellsNoEnvelope
  PROVE  Outside
BY DEF Outside, Goto, TypeOK, CallTypes

\* So is settling it.
LEMMA SettleOutside ==
  ASSUME TypeOK, hydrated, NEW c \in Calls, NEW label \in Settled,
         pc[c] \notin Busy, Settle(c, label),
         UNCHANGED <<hydrated, serverSeq, storedSeq, lock, ring, log>>, TellsNoEnvelope
  PROVE  Outside
BY GotoOutside DEF Settle, Settled, Labels, Busy, Locked

\* So is looking an instance up.
LEMMA LookupOutside ==
  ASSUME TypeOK, hydrated, NEW c \in Calls, NEW f, pc[c] \notin Busy, Lookup(c, f),
         UNCHANGED <<hydrated, serverSeq, storedSeq, lock, ring, log, inbox>>
  PROVE  Outside
<1>1. TellsNoEnvelope
  BY DEF TellsNoEnvelope
<1>2. {"have", "load"} \subseteq Labels \ Busy
  BY DEF Labels, Placed, Holding, Busy, Locked
<1>3. \E label \in {"have", "load"}, g \in {[f EXCEPT !.ref[f.uri] = instances[f.uri]],
                                            [f EXCEPT !.loaded = storage[f.uri]]} : Goto(c, label, g)
  BY DEF Lookup
<1> QED BY <1>1, <1>2, <1>3, GotoOutside

\* Each action that is neither a commit nor a change of incarnation is outside.
LEMMA BeginOutside ==
  ASSUME IInv, NEW c \in Calls,
         \/ Refused(c) \/ StatelessRefused(c) \/ BeginLookup(c) \/ BeginPolicy(c)
         \/ BeginHandler(c) \/ BeginCreate(c)
  PROVE  Outside
<1> USE DEF IInv
<1>1. /\ pc[c] = "begin" /\ hydrated
      /\ UNCHANGED <<seqVars, lock, ring, storeVars, histVars>>
  BY DEF Refused, StatelessRefused, BeginLookup, BeginPolicy, BeginHandler, BeginCreate, Begins
<1>2. /\ UNCHANGED <<hydrated, serverSeq, storedSeq, lock, ring, log, inbox>> /\ TellsNoEnvelope
  BY <1>1 DEF seqVars, storeVars, histVars, TellsNoEnvelope
<1>3. pc[c] \notin Busy
  BY <1>1 DEF Busy, Locked
<1>4. \/ \E f : Lookup(c, f)
      \/ \E label \in {"policy", "running", "creating"} : \E f : Goto(c, label, f)
      \/ Settle(c, "failed")
  BY DEF Refused, StatelessRefused, BeginLookup, BeginPolicy, BeginHandler, BeginCreate
<1>5. {"policy", "running", "creating"} \subseteq Labels \ Busy
  BY DEF Labels, Placed, Holding, Busy, Locked
<1> QED BY <1>1, <1>2, <1>3, <1>4, <1>5, LookupOutside, GotoOutside, SettleOutside DEF Settled

\* The turns of #instance, create, destroy and get are outside the mutex.
LEMMA LoadOutside ==
  ASSUME IInv, NEW c \in Calls,
         \/ Load(c) \/ LoadMissing(c) \/ LoadFailed(c) \/ Create(c) \/ Created(c) \/ Destroy(c)
         \/ Destroyed(c) \/ Get(c) \/ DispatchDuplicate(c)
  PROVE  Outside
<1> USE DEF IInv
<1>1. pc[c] \in {"load", "have", "creating", "storing", "deleting"}
  BY DEF Load, LoadMissing, LoadFailed, Create, Created, Destroy, Destroyed, Get,
         DispatchDuplicate, Has
<1>2. pc[c] \notin Resting /\ pc[c] \notin Busy
  BY <1>1 DEF Resting, Settled, Busy, Locked
<1>3. hydrated
  BY <1>2, PastReady
<1>4. UNCHANGED <<seqVars, lock, ring, storedSeq, histVars>>
  BY DEF Load, LoadMissing, LoadFailed, Create, Created, Destroy, Destroyed, Get,
         DispatchDuplicate, storeVars
<1>5. UNCHANGED <<hydrated, serverSeq, storedSeq, lock, ring, log>> /\ TellsNoEnvelope
  BY <1>4 DEF seqVars, histVars, TellsNoEnvelope
<1>6. \/ \E label \in {"have", "storing", "deleting"} : \E f : Goto(c, label, f)
      \/ \E label \in {"done", "failed"} : Settle(c, label)
  BY DEF Load, LoadMissing, LoadFailed, Create, Created, Destroy, Destroyed, Get,
         DispatchDuplicate
<1>7. {"have", "storing", "deleting"} \subseteq Labels \ Busy
  BY DEF Labels, Placed, Holding, Busy, Locked
<1> QED BY <1>2, <1>3, <1>5, <1>6, <1>7, GotoOutside, SettleOutside DEF Settled

\* The turns of exec are outside the mutex.
LEMMA HostOutside ==
  ASSUME IInv, NEW c \in Calls, Exec(c) \/ ExecPolicy(c) \/ Awaited(c)
  PROVE  Outside
<1> USE DEF IInv
<1>1. pc[c] \notin Resting /\ pc[c] \notin Busy
  BY DEF Exec, ExecPolicy, Awaited, Has, Verdict, Resting, Settled, Busy, Locked
<1>2. hydrated
  BY <1>1, PastReady
<1>3. UNCHANGED <<hydrated, serverSeq, storedSeq, lock, ring, log>> /\ TellsNoEnvelope
  BY DEF Exec, ExecPolicy, Awaited, seqVars, storeVars, histVars, TellsNoEnvelope
<1>4. \/ \E label \in {"running", "policy"} : \E f : Goto(c, label, f)
      \/ \E label \in Settled : Settle(c, label)
  BY DEF Exec, ExecPolicy, Awaited, Settled
<1>5. {"running", "policy"} \subseteq Labels \ Busy
  BY DEF Labels, Placed, Holding, Busy, Locked
<1> QED BY <1>1, <1>2, <1>3, <1>4, <1>5, GotoOutside, SettleOutside

\* Host code runs outside the mutex, whether or not it dispatches.
LEMMA RunOutside ==
  ASSUME IInv, NEW c \in Calls, Run(c)
  PROVE  Outside
<1> USE DEF IInv
<1>1. pc[c] = "running" /\ pc[c] \notin Resting /\ pc[c] \notin Busy
  BY DEF Run, Resting, Settled, Busy, Locked
<1>2. hydrated
  BY <1>1, PastReady
<1>3. UNCHANGED <<hydrated, serverSeq, storedSeq, lock, ring, log>> /\ TellsNoEnvelope
  BY DEF Run, seqVars, storeVars, histVars, TellsNoEnvelope
<1>4. CASE Settle(c, "done") \/ Settle(c, "failed")
  BY <1>1, <1>2, <1>3, <1>4, SettleOutside DEF Settled
<1>5. ASSUME NEW d \in Calls, pc[d] = "idle",
             pc' = [pc EXCEPT ![c] = "awaiting", ![d] = "begin"],
             frame' = [frame EXCEPT ![c].child = d]
      PROVE  Outside
  <2>1. ASSUME NEW b \in Calls, pc[b] \in Busy \/ pc'[b] \in Busy
        PROVE  pc'[b] = pc[b] /\ frame'[b] = frame[b]
    <3>1. b # c /\ b # d
      BY <1>1, <1>5, <2>1 DEF TypeOK, CallTypes, Busy, Locked
    <3> QED BY <1>5, <3>1 DEF TypeOK, CallTypes
  <2> QED BY <1>2, <1>3, <2>1 DEF Outside
<1> QED BY <1>4, <1>5 DEF Run

\* The turns of subscribe are outside the mutex: they never wait for a commit.
LEMMA SubscribeOutside ==
  ASSUME IInv, NEW c \in Calls,
         \/ LinkLost(c) \/ SubscribeDenied(c) \/ SubscribeGranted(c) \/ Subscribe(c)
  PROVE  Outside
<1> USE DEF IInv
<1>1. pc[c] \notin Resting /\ pc[c] \notin Busy
  BY DEF LinkLost, SubscribeDenied, SubscribeGranted, Subscribe, Has, Verdict, Resting, Settled,
         Busy, Locked
<1>2. hydrated
  BY <1>1, PastReady
<1>3. UNCHANGED <<hydrated, serverSeq, storedSeq, lock, ring, log>>
  BY DEF LinkLost, SubscribeDenied, SubscribeGranted, Subscribe, seqVars, storeVars, histVars
<1>4. CASE LinkLost(c) \/ SubscribeDenied(c) \/ SubscribeGranted(c)
  <2>1. UNCHANGED inbox /\ TellsNoEnvelope
    BY <1>4 DEF LinkLost, SubscribeDenied, SubscribeGranted, histVars, TellsNoEnvelope
  <2>2. Settle(c, "failed") \/ Settle(c, "done") \/ Lookup(c, frame[c])
    BY <1>4 DEF LinkLost, SubscribeDenied, SubscribeGranted
  <2> QED BY <1>1, <1>2, <1>3, <2>1, <2>2, LookupOutside, SettleOutside DEF Settled
<1>5. CASE Subscribe(c)
  <2> DEFINE m == [kind |-> "snapshots", call |-> c, missing |-> {},
                   snapshots |-> {SnapshotOf(c, frame[c].uri)}]
  <2>1. pc[c] = "have" /\ arg[c].op = "subscribe"
    BY <1>5 DEF Subscribe, Has
  <2>2. frame[c].uri \in Uris /\ Object(c, frame[c].uri) \in State
    BY <2>1, HoldingFacts DEF Holding
  <2>3. m \in Message
    BY <2>2 DEF SnapshotOf, Snapshot, Message, TypeOK, HubTypes
  <2>4. TellsNoEnvelope
    BY <1>5, <2>3 DEF Subscribe, Answer, TellsNoEnvelope, TypeOK, HistoryTypes
  <2> QED BY <1>1, <1>2, <1>3, <1>5, <2>4, SettleOutside DEF Subscribe, Settled
<1> QED BY <1>4, <1>5

\* So is a round of reconnect's loop, with its answer.
LEMMA NextUriOutside ==
  ASSUME IInv, hydrated, NEW c \in Calls, NEW f \in Frame, NEW kept \in SUBSET Uris,
         arg[c] \in Request, pc[c] \notin Busy, NextUri(c, f, kept)
  PROVE  Outside
<1> USE DEF IInv
<1> DEFINE h == arg[c].conn
           m == Resumption(c, f, kept)
<1>1. UNCHANGED <<hydrated, serverSeq, storedSeq, lock, ring, log>>
  BY DEF NextUri, seqVars, storeVars
<1>2. CASE Answer(h, m) /\ Settle(c, "done")
  <2>1. m \in Message
    BY ResumptionTyped
  <2>2. m.kind # "action"
    BY DEF Resumption
  <2>3. TellsNoEnvelope
    <3> HIDE DEF m
    <3> QED BY <1>2, <2>1, <2>2 DEF Answer, TellsNoEnvelope, TypeOK, HistoryTypes
  <2> QED BY <1>1, <1>2, <2>3, SettleOutside DEF Settled
<1>3. ASSUME NEW g, Goto(c, "policy", g), UNCHANGED inbox
      PROVE  Outside
  <2>1. TellsNoEnvelope
    BY <1>3 DEF TellsNoEnvelope
  <2>2. "policy" \in Labels \ Busy
    BY DEF Labels, Placed, Busy, Locked
  <2> QED BY <1>1, <1>3, <2>1, <2>2, GotoOutside
<1>4. \/ Answer(h, m) /\ Settle(c, "done")
      \/ \E g : Goto(c, "policy", g) /\ UNCHANGED inbox
  BY DEF NextUri
<1> QED BY <1>2, <1>3, <1>4

\* The turns of reconnect are outside the mutex.
LEMMA ReconnectOutside ==
  ASSUME IInv, NEW c \in Calls,
         BeginReconnect(c) \/ ReconnectPolicy(c) \/ ReconnectUri(c)
  PROVE  Outside
<1>1. TypeOK
  BY DEF IInv
<1>2. hydrated /\ pc[c] \notin Busy
  <2>1. \/ pc[c] = "begin" /\ hydrated
        \/ pc[c] \in {"policy", "have", "load"}
    BY DEF BeginReconnect, ReconnectPolicy, ReconnectUri, Begins, Has, Verdict
  <2>2. {"policy", "have", "load"} \cap Resting = {} /\ {"policy", "have", "load", "begin"} \cap Busy = {}
    BY DEF Resting, Settled, Busy, Locked
  <2> QED BY <2>1, <2>2, PastReady
<1>3. CASE \E g \in Frame, kept \in SUBSET Uris : NextUri(c, g, kept)
  BY <1>1, <1>2, <1>3, ReconnectCases, NextUriOutside
<1> DEFINE Quiet == UNCHANGED <<seqVars, lock, ring, linkVars, storeVars, histVars>>
<1>4. ASSUME Quiet
      PROVE  UNCHANGED <<hydrated, serverSeq, storedSeq, lock, ring, log, inbox>> /\ TellsNoEnvelope
  BY <1>4 DEF seqVars, storeVars, histVars, TellsNoEnvelope
<1>5. CASE Lookup(c, frame[c]) /\ Quiet
  BY <1>1, <1>2, <1>4, <1>5, LookupOutside
<1>6. CASE Settle(c, "failed") /\ Quiet
  BY <1>1, <1>2, <1>4, <1>6, SettleOutside DEF Settled
<1> QED BY <1>1, <1>3, <1>5, <1>6, ReconnectCases

\* notify is outside the mutex.
LEMMA NotifyOutside ==
  ASSUME IInv, NEW c \in Calls, Notify(c)
  PROVE  Outside
<1> DEFINE m == [kind |-> "notification", uri |-> arg[c].uri, call |-> c]
<1>1. TypeOK /\ pc[c] = "begin" /\ hydrated /\ pc[c] \notin Busy
  BY DEF IInv, Notify, Begins, Busy, Locked
<1>2. arg[c].uri \in Uris
  BY <1>1, RequestOf DEF Request, TypeOK
<1>3. m \in Message /\ m.kind # "action"
  BY <1>2 DEF Message
<1>4. UNCHANGED <<hydrated, serverSeq, storedSeq, lock, ring, log>>
  BY DEF Notify, seqVars, storeVars
<1>5. Broadcast(m)
  BY DEF Notify
<1>6. TellsNoEnvelope
  <2>1. \A h \in Conns : inbox'[h] \in {inbox[h], Append(inbox[h], m)}
    <3> HIDE DEF m
    <3> QED BY <1>5 DEF Broadcast
  <2> QED BY <1>3, <2>1 DEF TellsNoEnvelope
<1> QED BY <1>1, <1>4, <1>6, SettleOutside DEF Notify, Settled

\* Issuing a call, and connections that come and go, are outside the mutex.
LEMMA LinksOutside ==
  ASSUME IInv,
         \/ \E c \in Calls : Issue(c)
         \/ \E h \in Conns : Connect(h) \/ Disconnect(h)
         \/ \E h \in Conns, u \in Uris : Unsubscribe(h, u)
         \/ UNCHANGED vars
  PROVE  Outside
<1> USE DEF IInv
<1>1. UNCHANGED <<hydrated, serverSeq, storedSeq, lock, ring, log, inbox, frame>>
  BY DEF Issue, Connect, Disconnect, Unsubscribe, vars, seqVars, storeVars, histVars, callVars
<1>2. TellsNoEnvelope
  BY <1>1 DEF TellsNoEnvelope
<1>3. CASE UNCHANGED pc
  BY <1>1, <1>2, <1>3 DEF Outside, Dormant
<1>4. ASSUME NEW c \in Calls, Issue(c)
      PROVE  Outside
  <2>1. pc[c] = "idle" /\ pc' = [pc EXCEPT ![c] = "begin"]
    BY <1>4 DEF Issue
  <2>2. "begin" \notin Busy /\ "idle" \notin Busy /\ "begin" \in Resting
    BY DEF Busy, Locked, Resting
  <2> QED BY <1>1, <1>2, <2>1, <2>2 DEF Outside, Dormant, TypeOK, CallTypes
<1> QED BY <1>3, <1>4 DEF Connect, Disconnect, Unsubscribe, vars, callVars

\* The two changes of incarnation.
LEMMA HydrateKeeps ==
  ASSUME IInv, TypeOK', Hydrate
  PROVE  IInv'
<1> USE DEF IInv
<1>1. ~hydrated /\ hydrated' = TRUE /\ serverSeq' = storedSeq
      /\ UNCHANGED <<instances, heap, lock, ring, link, subs, watermark, storage, storedSeq,
                     pc, arg, frame, log, inbox>>
  BY DEF Hydrate, instVars, linkVars, storeVars, callVars, histVars
<1>2. \A c \in Calls : pc[c] \notin Busy
  BY <1>1 DEF Dormant, Resting, Settled, Busy, Locked
<1>3. Mutex'
  BY <1>1 DEF Mutex, CommitsExclude, QueuedOnce
<1>4. Dormant' /\ Numbers'
  BY <1>1, <1>2 DEF Dormant, Numbers, Busy, Locked, TypeOK, HubTypes
<1>5. History'
  BY <1>1 DEF History, LogIncreasing, DeliveredIsDurable, DeliveredIsLogged, DeliveryInOrder,
              Positions, IsAction
<1> QED BY <1>3, <1>4, <1>5

\* A crash preserves the invariant: what was delivered is durable, so no number comes again.
LEMMA CrashKeeps ==
  ASSUME IInv, TypeOK', Crash
  PROVE  IInv'
<1> USE DEF IInv
<1>1. /\ hydrated' = FALSE /\ lock' = << >>
      /\ pc' = [c \in Calls |-> IF pc[c] \in {"idle", "done", "failed"} THEN pc[c] ELSE "dropped"]
      /\ UNCHANGED <<storedSeq, log, inbox>>
  BY DEF Crash, storeVars, histVars
<1>2. \A c \in Calls : pc'[c] \in {"idle", "done", "failed", "dropped"}
  BY <1>1
<1>3. Mutex'
  BY <1>1, <1>2 DEF Mutex, CommitsExclude, QueuedOnce, Locked
<1>4. Dormant' /\ Numbers'
  BY <1>1, <1>2 DEF Dormant, Numbers, Resting, Settled
<1>5. History'
  BY <1>1 DEF History, LogIncreasing, DeliveredIsDurable, DeliveredIsLogged, DeliveryInOrder,
              Positions, IsAction
<1> QED BY <1>3, <1>4, <1>5

-----------------------------------------------------------------------------
(* The turns of a commit. *)

\* c joins the end of the queue.
LEMMA QueueMutex ==
  ASSUME TypeOK, Mutex, NEW c \in Calls, NEW f, pc[c] = "have", Queue(c, f)
  PROVE  Mutex'
<1> USE DEF TypeOK, HubTypes, CallTypes
<1>1. lock' = Append(lock, c) /\ pc' = [pc EXCEPT ![c] = "queued"]
  BY DEF Queue, Goto
<1>2. /\ DOMAIN lock = 1..Len(lock) /\ DOMAIN lock' = 1..(Len(lock) + 1) /\ Len(lock) \in Nat
      /\ \A i \in DOMAIN lock : lock'[i] = lock[i]
      /\ lock'[Len(lock) + 1] = c
  BY <1>1
<1>3. \A i \in DOMAIN lock : lock[i] # c
  BY DEF Mutex, CommitsExclude, Locked
<1>4. QueuedOnce'
  <2>1. ASSUME NEW i \in DOMAIN lock', NEW j \in DOMAIN lock', lock'[i] = lock'[j]
        PROVE  i = j
    <3>1. CASE i \in DOMAIN lock /\ j \in DOMAIN lock
      BY <1>2, <2>1, <3>1 DEF Mutex, QueuedOnce
    <3>2. CASE i \notin DOMAIN lock \/ j \notin DOMAIN lock
      BY <1>2, <1>3, <2>1, <3>2
    <3> QED BY <3>1, <3>2
  <2> QED BY <2>1 DEF QueuedOnce
<1>5. ASSUME NEW b \in Calls
      PROVE  /\ pc'[b] \in Locked => lock' # << >> /\ Head(lock') = b
             /\ pc'[b] \in Busy <=> \E i \in DOMAIN lock' : lock'[i] = b
  <2>1. CASE b = c
    <3>1. pc'[b] = "queued" /\ "queued" \notin Locked /\ "queued" \in Busy
      BY <1>1, <2>1 DEF Locked, Busy
    <3> QED BY <1>2, <2>1, <3>1
  <2>2. CASE b # c
    <3>1. pc'[b] = pc[b]
      BY <1>1, <2>2
    <3>2. (\E i \in DOMAIN lock' : lock'[i] = b) <=> \E i \in DOMAIN lock : lock[i] = b
      <4>1. \A i \in DOMAIN lock' : lock'[i] = b => i \in DOMAIN lock
        BY <1>2, <2>2
      <4>2. \A i \in DOMAIN lock : i \in DOMAIN lock'
        BY <1>2
      <4> QED BY <1>2, <4>1, <4>2
    <3>3. pc'[b] \in Locked => lock' # << >> /\ Head(lock') = b
      BY <1>1, <3>1 DEF Mutex, CommitsExclude
    <3> QED BY <3>1, <3>2, <3>3 DEF Mutex, CommitsExclude, Busy
  <2> QED BY <2>1, <2>2
<1> QED BY <1>4, <1>5 DEF Mutex, CommitsExclude, Busy

\* c, at the head, leaves.
LEMMA ReleaseMutex ==
  ASSUME TypeOK, Mutex, NEW c \in Calls, lock # << >>, Head(lock) = c, Release,
         pc'[c] \notin Busy, \A b \in Calls \ {c} : pc'[b] = pc[b]
  PROVE  Mutex'
<1> USE DEF TypeOK, HubTypes
<1>1. /\ DOMAIN lock = 1..Len(lock) /\ Len(lock) \in Nat \ {0} /\ lock[1] = c
      /\ DOMAIN lock' = 1..(Len(lock) - 1)
      /\ \A i \in DOMAIN lock' : lock'[i] = lock[i + 1]
  BY HeadTailProperties DEF Release
<1>2. QueuedOnce'
  <2>1. ASSUME NEW i \in DOMAIN lock', NEW j \in DOMAIN lock', lock'[i] = lock'[j]
        PROVE  i = j
    <3>1. i + 1 \in DOMAIN lock /\ j + 1 \in DOMAIN lock /\ lock[i + 1] = lock[j + 1]
      BY <1>1, <2>1
    <3>2. i + 1 = j + 1
      BY <3>1 DEF Mutex, QueuedOnce
    <3> QED BY <1>1, <3>2
  <2> QED BY <2>1 DEF QueuedOnce
<1>3. \A i \in DOMAIN lock' : lock'[i] # c
  <2>1. ASSUME NEW i \in DOMAIN lock', lock'[i] = c
        PROVE  FALSE
    <3>1. i + 1 \in DOMAIN lock /\ 1 \in DOMAIN lock /\ lock[i + 1] = lock[1]
      BY <1>1, <2>1
    <3>2. i + 1 = 1
      BY <3>1 DEF Mutex, QueuedOnce
    <3> QED BY <1>1, <3>2
  <2> QED BY <2>1
<1>4. ASSUME NEW b \in Calls
      PROVE  /\ pc'[b] \in Locked => lock' # << >> /\ Head(lock') = b
             /\ pc'[b] \in Busy <=> \E i \in DOMAIN lock' : lock'[i] = b
  <2>1. CASE b = c
    BY <1>3, <2>1 DEF Busy
  <2>2. CASE b # c
    <3>1. pc'[b] = pc[b] /\ pc[b] \notin Locked
      BY <2>2 DEF Mutex, CommitsExclude
    <3>2. (\E i \in DOMAIN lock' : lock'[i] = b) <=> \E i \in DOMAIN lock : lock[i] = b
      <4>1. ASSUME NEW i \in DOMAIN lock, lock[i] = b
            PROVE  i - 1 \in DOMAIN lock' /\ lock'[i - 1] = b
        BY <1>1, <2>2, <4>1
      <4>2. ASSUME NEW i \in DOMAIN lock', lock'[i] = b
            PROVE  i + 1 \in DOMAIN lock /\ lock[i + 1] = b
        BY <1>1, <4>2
      <4> QED BY <4>1, <4>2
    <3> QED BY <3>1, <3>2 DEF Mutex, CommitsExclude, Busy
  <2> QED BY <2>1, <2>2
<1> QED BY <1>2, <1>4 DEF Mutex, CommitsExclude, Busy

\* c, at the head, goes on inside the mutex.
LEMMA InsideMutex ==
  ASSUME TypeOK, Mutex, NEW c \in Calls, HoldsLock(c), UNCHANGED lock,
         NEW label \in Locked, NEW f, Goto(c, label, f)
  PROVE  Mutex'
<1>1. \E i \in DOMAIN lock : lock[i] = c
  BY DEF HoldsLock, TypeOK, HubTypes
<1>2. pc' = [pc EXCEPT ![c] = label]
  BY DEF Goto
<1> QED BY <1>1, <1>2 DEF Mutex, CommitsExclude, QueuedOnce, HoldsLock, TypeOK, CallTypes

\* No other call is in the mutex.
LEMMA Alone ==
  ASSUME Mutex, NEW c \in Calls, HoldsLock(c)
  PROVE  \A b \in Calls \ {c} : pc[b] \notin Locked
BY DEF Mutex, CommitsExclude, HoldsLock

\* Queueing for the mutex preserves the invariant.
LEMMA QueueKeeps ==
  ASSUME IInv, TypeOK', NEW c \in Calls, pc[c] = "have", Queue(c, frame[c]),
         UNCHANGED <<seqVars, storeVars, histVars>>
  PROVE  IInv'
<1> USE DEF IInv
<1>1. Mutex'
  BY QueueMutex
<1>2. UNCHANGED <<hydrated, serverSeq, storedSeq, log, inbox>>
  BY DEF seqVars, storeVars, histVars
<1>3. pc' = [pc EXCEPT ![c] = "queued"] /\ hydrated
  BY PastReady DEF Queue, Goto, Resting, Settled
<1>4. frame' = frame
  BY DEF Queue, Goto, TypeOK, CallTypes
<1>5. Dormant' /\ Numbers'
  BY <1>2, <1>3, <1>4 DEF Dormant, Numbers, TypeOK, CallTypes
<1>6. History'
  BY <1>2 DEF History, LogIncreasing, DeliveredIsDurable, DeliveredIsLogged, DeliveryInOrder,
              Positions, IsAction
<1> QED BY <1>1, <1>5, <1>6

\* A commit that throws preserves the invariant: its number is spent or was never taken.
LEMMA AbandonKeeps ==
  ASSUME IInv, TypeOK', NEW c \in Calls, pc[c] \in Busy, HoldsLock(c), Abandon(c)
  PROVE  IInv'
<1> USE DEF IInv
<1>1. UNCHANGED <<hydrated, serverSeq, storedSeq, log, inbox>>
  BY DEF Abandon, seqVars, storeVars, histVars
<1>2. pc' = [pc EXCEPT ![c] = "failed"] /\ frame' = [frame EXCEPT ![c] = Blank]
  BY DEF Abandon, Settle, Goto
<1>3. "failed" \notin Busy /\ "failed" \in Resting
  BY DEF Busy, Locked, Resting, Settled
<1>4. Mutex'
  BY <1>2, <1>3, ReleaseMutex DEF Abandon, HoldsLock, TypeOK, CallTypes
<1>5. Dormant' /\ Numbers'
  BY <1>1, <1>2, <1>3 DEF Dormant, Numbers, TypeOK, CallTypes
<1>6. History'
  BY <1>1 DEF History, LogIncreasing, DeliveredIsDurable, DeliveredIsLogged, DeliveryInOrder,
              Positions, IsAction
<1> QED BY <1>4, <1>5, <1>6

\* The next number is taken: it is above all that were broadcast.
LEMMA SequenceKeeps ==
  ASSUME IInv, TypeOK', NEW c \in Calls, NEW f \in Frame, pc[c] \in Busy, HoldsLock(c),
         f.seq = serverSeq + 1, Sequence(c, f)
  PROVE  IInv'
<1> USE DEF IInv
<1>1. PICK ok \in WriteOutcomes :
        /\ storedSeq' = IF ok THEN f.seq ELSE storedSeq
        /\ Goto(c, "sequencing", [f EXCEPT !.wrote = ok])
  BY DEF Sequence
<1>2. serverSeq' = serverSeq + 1 /\ UNCHANGED <<hydrated, lock, log, inbox>>
  BY DEF Sequence, histVars
<1>3. hydrated
  BY PastReady DEF Busy, Locked, Resting, Settled
<1>4. /\ pc' = [pc EXCEPT ![c] = "sequencing"]
      /\ frame' = [frame EXCEPT ![c] = [f EXCEPT !.wrote = ok]]
  BY <1>1 DEF Goto
<1>5. /\ serverSeq \in Nat /\ storedSeq \in Nat /\ storedSeq <= serverSeq
      /\ \A i \in DOMAIN log : log[i].seq \in Nat /\ log[i].seq <= storedSeq
  <2>1. serverSeq \in Nat /\ storedSeq \in Nat /\ storedSeq <= serverSeq
    BY <1>3 DEF TypeOK, HubTypes, Numbers
  <2>2. \A i \in DOMAIN log : log[i] \in Envelope
    BY DEF TypeOK, HistoryTypes
  <2>3. \A i \in DOMAIN log : log[i].seq \in Nat
    BY <2>2 DEF Envelope
  <2> QED BY <2>1, <2>3 DEF History, DeliveredIsDurable
<1>6. Mutex'
  BY <1>1, <1>2, InsideMutex DEF Locked
<1>7. Dormant'
  BY <1>2, <1>3 DEF Dormant
<1>8. Numbers'
  <2>1. hydrated' => storedSeq' <= serverSeq'
    BY <1>1, <1>2, <1>5
  <2>2. ASSUME NEW b \in Calls \ {c}
        PROVE  pc'[b] \notin Locked
    BY <1>4, Alone DEF TypeOK, CallTypes
  <2>3. frame'[c].seq = serverSeq' /\ pc'[c] = "sequencing" /\ frame'[c].wrote = ok
    BY <1>2, <1>4 DEF TypeOK, CallTypes, Frame
  <2>4. ok => storedSeq' = serverSeq'
    BY <1>1, <1>2
  <2>5. \A i \in DOMAIN log' : log'[i].seq < serverSeq'
    BY <1>2, <1>5
  <2> QED BY <2>1, <2>2, <2>3, <2>4, <2>5 DEF Numbers, Locked
<1>9. History'
  BY <1>1, <1>2, <1>5
  DEF History, LogIncreasing, DeliveredIsDurable, DeliveredIsLogged, DeliveryInOrder,
      Positions, IsAction
<1> QED BY <1>6, <1>7, <1>8, <1>9

\* The write of the state preserves the invariant: the number is taken, not yet used.
LEMMA AcceptKeeps ==
  ASSUME IInv, TypeOK', NEW c \in Calls, pc[c] \in Busy, HoldsLock(c), Accept(c)
  PROVE  IInv'
<1> USE DEF IInv
<1>1. UNCHANGED <<hydrated, serverSeq, storedSeq, lock, ring, log, inbox>>
  BY DEF Accept, seqVars, histVars
<1>2. PICK ok \in WriteOutcomes :
        Goto(c, "persisting", [frame[c] EXCEPT !.seq = NextSeq, !.accepted = TRUE, !.wrote = ok])
  BY DEF Accept
<1>3. Mutex'
  BY <1>1, <1>2, InsideMutex DEF Locked
<1>4. hydrated
  BY PastReady DEF Busy, Locked, Resting, Settled
<1>5. Dormant'
  BY <1>1, <1>4 DEF Dormant
<1>6. Numbers'
  <2>1. pc'[c] = "persisting" /\ frame'[c].seq = serverSeq + 1
    BY <1>2 DEF Goto, TypeOK, CallTypes, Frame, NextSeq
  <2>2. ASSUME NEW b \in Calls \ {c}
        PROVE  pc'[b] \notin Locked
    BY <1>2, Alone DEF Goto, TypeOK, CallTypes
  <2> QED BY <1>1, <2>1, <2>2 DEF Numbers, Locked
<1>7. History'
  BY <1>1 DEF History, LogIncreasing, DeliveredIsDurable, DeliveredIsLogged, DeliveryInOrder,
              Positions, IsAction
<1> QED BY <1>3, <1>5, <1>6, <1>7

\* What is known of an envelope when it is published.
LEMMA PublishedFacts ==
  ASSUME IInv, NEW c \in Calls, pc[c] = "sequencing", frame[c].wrote
  PROVE  LET e == EnvelopeOf(c) IN
         /\ e \in Envelope /\ e.kind = "action" /\ e.seq = serverSeq /\ storedSeq = serverSeq
         /\ \A i \in DOMAIN log : log[i].seq < e.seq
<1> DEFINE e == EnvelopeOf(c)
<1>1. e \in Envelope
  BY EnvelopeTyped DEF IInv, Holding, Locked
<1>2. e.kind = "action" /\ e.seq = frame[c].seq
  BY DEF EnvelopeOf
<1>3. /\ frame[c].seq = serverSeq /\ storedSeq = serverSeq
      /\ \A i \in DOMAIN log : log[i].seq < serverSeq
  BY DEF IInv, Numbers
<1> QED BY <1>1, <1>2, <1>3

\* The envelope is the newest one, for the log and for every link it reaches.
LEMMA PublishKeeps ==
  ASSUME IInv, TypeOK', NEW c \in Calls, pc[c] = "sequencing", frame[c].wrote, Publish(c)
  PROVE  IInv'
<1> USE DEF IInv
<1> DEFINE e == EnvelopeOf(c)
           n == Len(log)
<1>1. /\ log' = Append(log, e) /\ Broadcast(e) /\ Release
      /\ UNCHANGED <<hydrated, serverSeq, storedSeq>>
  BY DEF Publish, seqVars, storeVars
<1>2. \E label \in {"running", "done"} : Goto(c, label, Blank)
  BY DEF Publish, Settle
<1>3. PICK label \in {"running", "done"} :
        pc' = [pc EXCEPT ![c] = label] /\ frame' = [frame EXCEPT ![c] = Blank]
  BY <1>2 DEF Goto
<1>4. HoldsLock(c) /\ hydrated
  BY PastReady DEF HoldsLock, Mutex, CommitsExclude, Locked, Resting, Settled
<1>5. /\ e \in Envelope /\ e.kind = "action" /\ e.seq = serverSeq /\ storedSeq = serverSeq
      /\ \A i \in DOMAIN log : log[i].seq < e.seq
  BY PublishedFacts
<1> HIDE DEF e
<1>6. /\ DOMAIN log = 1..n /\ DOMAIN log' = 1..(n + 1) /\ n \in Nat
      /\ \A i \in 1..n : log'[i] = log[i]
      /\ log'[n + 1] = e
  BY <1>1 DEF TypeOK, HistoryTypes
<1>7. Mutex'
  BY <1>1, <1>3, <1>4, ReleaseMutex DEF HoldsLock, TypeOK, CallTypes, Busy, Locked
<1>8. Dormant'
  BY <1>1, <1>4 DEF Dormant
<1>9. Numbers'
  <2>1. \A b \in Calls : pc'[b] \notin {"persisting", "sequencing"}
    BY <1>3, <1>4, Alone DEF Locked, TypeOK, CallTypes
  <2> QED BY <1>1, <1>5, <2>1 DEF Numbers, TypeOK, HubTypes
<1>10. LogIncreasing' /\ DeliveredIsDurable'
  <2>1. ASSUME NEW i \in DOMAIN log', NEW j \in DOMAIN log', i < j
        PROVE  log'[i].seq < log'[j].seq
    <3>1. i \in DOMAIN log /\ log'[i] = log[i]
      BY <1>6, <2>1
    <3>2. CASE j \in DOMAIN log
      BY <1>6, <2>1, <3>1, <3>2 DEF History, LogIncreasing
    <3>3. CASE j = n + 1
      BY <1>5, <1>6, <3>1, <3>3
    <3> QED BY <1>6, <3>2, <3>3
  <2>2. ASSUME NEW i \in DOMAIN log'
        PROVE  log'[i].seq <= storedSeq'
    <3>1. CASE i \in DOMAIN log
      BY <1>1, <1>6, <3>1 DEF History, DeliveredIsDurable
    <3>2. CASE i = n + 1
      BY <1>1, <1>5, <1>6, <3>2 DEF TypeOK, HubTypes
    <3> QED BY <1>6, <3>1, <3>2
  <2> QED BY <2>1, <2>2 DEF LogIncreasing, DeliveredIsDurable
<1>11. ASSUME NEW h \in Conns, NEW i \in DOMAIN inbox'[h]
       PROVE  \/ i \in DOMAIN inbox[h] /\ inbox'[h][i] = inbox[h][i]
              \/ i = Len(inbox[h]) + 1 /\ inbox'[h][i] = e
  <2>1. inbox[h] \in Seq(Message)
    BY DEF TypeOK, HistoryTypes
  <2>2. inbox'[h] = inbox[h] \/ inbox'[h] = Append(inbox[h], e)
    BY <1>1 DEF Broadcast
  <2>3. DOMAIN inbox[h] = 1..Len(inbox[h]) /\ Len(inbox[h]) \in Nat
    BY <2>1
  <2>4. CASE inbox'[h] = inbox[h]
    BY <1>11, <2>4
  <2>5. CASE inbox'[h] = Append(inbox[h], e)
    <3>1. i \in 1..(Len(inbox[h]) + 1)
      BY <1>11, <2>1, <2>5
    <3>2. CASE i \in 1..Len(inbox[h])
      BY <2>1, <2>3, <2>5, <3>2
    <3>3. CASE i = Len(inbox[h]) + 1
      BY <2>1, <2>5, <3>3
    <3> QED BY <2>3, <3>1, <3>2, <3>3
  <2> QED BY <2>2, <2>4, <2>5
<1>12. DeliveredIsLogged'
  <2>1. ASSUME NEW h \in Conns, NEW i \in DOMAIN inbox'[h], inbox'[h][i].kind = "action"
        PROVE  \E k \in DOMAIN log' : log'[k] = inbox'[h][i]
    <3>1. CASE inbox'[h][i] = e
      BY <1>6, <3>1
    <3>2. CASE i \in DOMAIN inbox[h] /\ inbox'[h][i] = inbox[h][i]
      <4>1. PICK k \in DOMAIN log : log[k] = inbox[h][i]
        BY <2>1, <3>2 DEF History, DeliveredIsLogged, Positions, IsAction
      <4> QED BY <1>6, <3>2, <4>1
    <3> QED BY <1>11, <3>1, <3>2
  <2> QED BY <2>1 DEF DeliveredIsLogged, Positions, IsAction
<1>13. DeliveryInOrder'
  <2>1. ASSUME NEW h \in Conns, NEW i \in DOMAIN inbox'[h], NEW j \in DOMAIN inbox'[h], i < j,
               inbox'[h][i].kind = "action", inbox'[h][j].kind = "action"
        PROVE  inbox'[h][i].seq < inbox'[h][j].seq
    <3>1. inbox[h] \in Seq(Message) /\ DOMAIN inbox[h] = 1..Len(inbox[h]) /\ Len(inbox[h]) \in Nat
      BY DEF TypeOK, HistoryTypes
    <3>2. i \in DOMAIN inbox[h] /\ inbox'[h][i] = inbox[h][i]
      <4>1. j <= Len(inbox[h]) + 1 /\ j \in Nat
        BY <1>11, <3>1
      <4>2. i # Len(inbox[h]) + 1
        BY <2>1, <3>1, <4>1, <1>11
      <4> QED BY <1>11, <4>2
    <3>3. CASE j \in DOMAIN inbox[h] /\ inbox'[h][j] = inbox[h][j]
      BY <2>1, <3>2, <3>3 DEF History, DeliveryInOrder, Positions, IsAction
    <3>4. CASE inbox'[h][j] = e
      <4>1. PICK k \in DOMAIN log : log[k] = inbox[h][i]
        BY <2>1, <3>2 DEF History, DeliveredIsLogged, Positions, IsAction
      <4> QED BY <1>5, <3>2, <3>4, <4>1
    <3> QED BY <1>11, <3>3, <3>4
  <2> QED BY <2>1 DEF DeliveryInOrder, Positions, IsAction
<1> QED BY <1>7, <1>8, <1>9, <1>10, <1>12, <1>13 DEF History

\* Every turn of a commit preserves the invariant.
LEMMA CommitKeeps ==
  ASSUME IInv, NEW c \in Calls,
         \/ Dispatch(c) \/ DispatchFrom(c)
         \/ Enter(c) \/ Authorized(c) \/ Persisted(c) \/ Sequenced(c)
  PROVE  IInv'
<1>1. TypeOK'
  BY CommitTyped DEF IInv, Mutex
<1>2. CASE Dispatch(c) \/ DispatchFrom(c)
  <2>1. pc[c] = "have" /\ UNCHANGED <<seqVars, ring, storeVars, histVars>>
    BY <1>2 DEF Dispatch, DispatchFrom, Has
  <2>2. CASE Queue(c, frame[c])
    BY <1>1, <2>1, <2>2, QueueKeeps
  <2>3. CASE Settle(c, "failed") /\ UNCHANGED lock
    <3>1. pc[c] \notin Resting /\ pc[c] \notin Busy
      BY <2>1 DEF Resting, Settled, Busy, Locked
    <3>2. UNCHANGED <<hydrated, serverSeq, storedSeq, lock, ring, log>> /\ TellsNoEnvelope
      BY <2>1, <2>3 DEF seqVars, storeVars, histVars, TellsNoEnvelope
    <3>3. Outside
      BY <2>3, <3>1, <3>2, PastReady, SettleOutside DEF IInv, Settled
    <3> QED BY <1>1, <3>3, OutsideKeeps
  <2> QED BY <1>2, <2>2, <2>3 DEF Dispatch, DispatchFrom
<1>3. CASE Enter(c) \/ Authorized(c) \/ Persisted(c) \/ Sequenced(c)
  <2>1. pc[c] \in Busy /\ HoldsLock(c)
    BY <1>3 DEF Enter, Authorized, Persisted, Sequenced, HoldsLock, Busy, Locked,
                IInv, Mutex, CommitsExclude
  <2>2. pc[c] \in Holding
    BY <2>1 DEF Busy, Holding
  <2>3. CASE Abandon(c)
    BY <1>1, <2>1, <2>3, AbandonKeeps
  <2>4. CASE Reject(c)
    <3> DEFINE f == [frame[c] EXCEPT !.seq = NextSeq, !.accepted = FALSE]
    <3>1. f \in Frame /\ f.seq = serverSeq + 1
      <4>1. NextSeq \in Nat /\ NextSeq = serverSeq + 1
        BY DEF NextSeq, IInv, TypeOK, HubTypes
      <4>2. frame[c] \in Frame
        BY <2>2, HoldingFacts DEF IInv
      <4> QED BY <4>1, <4>2 DEF Frame
    <3>2. Sequence(c, f)
      BY <2>4 DEF Reject
    <3> HIDE DEF f
    <3> QED BY <1>1, <2>1, <3>1, <3>2, SequenceKeeps
  <2>5. CASE Accept(c)
    BY <1>1, <2>1, <2>5, AcceptKeeps
  <2>6. CASE pc[c] = "persisting" /\ Sequence(c, frame[c])
    <3>1. frame[c] \in Frame /\ frame[c].seq = serverSeq + 1
      BY <2>2, <2>6, HoldingFacts DEF IInv, Numbers
    <3> QED BY <1>1, <2>1, <2>6, <3>1, SequenceKeeps
  <2>7. CASE pc[c] = "sequencing" /\ frame[c].wrote /\ Publish(c)
    BY <1>1, <2>7, PublishKeeps
  <2>8. CASE /\ pc[c] = "queued" /\ Goto(c, "authorizing", frame[c])
             /\ UNCHANGED <<seqVars, lock, storeVars, histVars>>
    <3>1. UNCHANGED <<hydrated, serverSeq, storedSeq, lock, log, inbox>>
      BY <2>8 DEF seqVars, storeVars, histVars
    <3>2. Mutex'
      BY <2>1, <2>8, <3>1, InsideMutex DEF Locked, IInv
    <3>3. pc' = [pc EXCEPT ![c] = "authorizing"] /\ frame' = frame /\ hydrated
      BY <2>8, PastReady DEF Goto, Resting, Settled, IInv, TypeOK, CallTypes
    <3>4. Dormant' /\ Numbers'
      BY <3>1, <3>3 DEF IInv, Dormant, Numbers, TypeOK, CallTypes
    <3>5. History'
      BY <3>1 DEF IInv, History, LogIncreasing, DeliveredIsDurable, DeliveredIsLogged,
                  DeliveryInOrder, Positions, IsAction
    <3> QED BY <1>1, <3>2, <3>4, <3>5 DEF IInv
  <2>9. \/ Abandon(c) \/ Reject(c) \/ Accept(c)
        \/ pc[c] = "persisting" /\ Sequence(c, frame[c])
        \/ pc[c] = "sequencing" /\ frame[c].wrote /\ Publish(c)
        \/ /\ pc[c] = "queued" /\ Goto(c, "authorizing", frame[c])
           /\ UNCHANGED <<seqVars, lock, storeVars, histVars>>
    BY <1>3 DEF Enter, Authorized, Persisted, Sequenced, Reduce
  <2> QED BY <2>3, <2>4, <2>5, <2>6, <2>7, <2>8, <2>9
<1> QED BY <1>2, <1>3

-----------------------------------------------------------------------------
\* A hub that was just built satisfies the invariant.
LEMMA InitHolds == Init => IInv
<1> SUFFICES ASSUME Init PROVE IInv
  OBVIOUS
<1> USE DEF Init
<1>1. TypeOK
  BY InitTyped
<1>2. Mutex
  BY DEF Mutex, CommitsExclude, QueuedOnce, Locked
<1>3. Dormant /\ Numbers
  BY DEF Dormant, Numbers, Resting
<1>4. History
  BY DEF History, LogIncreasing, DeliveredIsDurable, DeliveredIsLogged, DeliveryInOrder,
         Positions, IsAction
<1> QED BY <1>1, <1>2, <1>3, <1>4 DEF IInv

\* Every step is outside the mutex, a turn of a commit, or a change of incarnation.
LEMMA StepCases ==
  ASSUME IInv, [Next]_vars
  PROVE  \/ Outside
         \/ \E c \in Calls : \/ Dispatch(c) \/ DispatchFrom(c) \/ Enter(c) \/ Authorized(c)
                             \/ Persisted(c) \/ Sequenced(c)
         \/ Hydrate
         \/ Crash
<1>1. CASE \/ UNCHANGED vars
           \/ \E c \in Calls : Issue(c)
           \/ \E h \in Conns : Connect(h) \/ Disconnect(h)
           \/ \E h \in Conns, u \in Uris : Unsubscribe(h, u)
  BY <1>1, LinksOutside
<1>2. CASE \E c \in Calls : Resume(c)
  BY <1>2, BeginOutside, NotifyOutside, LoadOutside, SubscribeOutside, ReconnectOutside,
     HostOutside, RunOutside
  DEF Resume
<1> QED BY <1>1, <1>2 DEF Next

\* The invariant is inductive.
LEMMA StepHolds == IInv /\ [Next]_vars => IInv'
<1> SUFFICES ASSUME IInv, [Next]_vars PROVE IInv'
  OBVIOUS
<1>1. TypeOK'
  BY StepTyped DEF IInv, Mutex
<1> QED BY <1>1, StepCases, OutsideKeeps, CommitKeeps, HydrateKeeps, CrashKeeps

\* The inductive invariant holds in every state of the hub (#commit, #withLock, #hydrate).
THEOREM Invariance == Spec => []IInv
BY InitHolds, StepHolds, PTL DEF Spec

\* The state of the hub, of its calls and of what it sent always has its type.
THEOREM TypeCorrect == Spec => []TypeOK
<1>1. IInv => TypeOK
  BY DEF IInv
<1> QED BY <1>1, Invariance, PTL

\* At most one call commits at a time: #withLock lets in the head of the queue only.
THEOREM MutualExclusion == Spec => []CommitsExclude
<1>1. IInv => CommitsExclude
  BY DEF IInv, Mutex
<1> QED BY <1>1, Invariance, PTL

\* Sequence numbers increase along the log, across failed writes and restarts.
THEOREM SequencesIncrease == Spec => []LogIncreasing
<1>1. IInv => LogIncreasing
  BY DEF IInv, History
<1> QED BY <1>1, Invariance, PTL

\* No envelope is sent whose number is not in the storage yet.
THEOREM DeliveryIsDurable == Spec => []DeliveredIsDurable
<1>1. IInv => DeliveredIsDurable
  BY DEF IInv, History
<1> QED BY <1>1, Invariance, PTL

\* Each link receives envelopes in the order of their numbers, each at most once.
THEOREM DeliveryOrder == Spec => []DeliveryInOrder
<1>1. IInv => DeliveryInOrder
  BY DEF IInv, History
<1> QED BY <1>1, Invariance, PTL

\* One number never stands for two envelopes, whichever links received them and when.
THEOREM Agreement == Spec => []SameSeqSameEnvelope
<1>1. ASSUME IInv
      PROVE  SameSeqSameEnvelope
  <2>1. ASSUME NEW g \in Conns, NEW h \in Conns, NEW i \in Positions(g), NEW j \in Positions(h),
               IsAction(g, i), IsAction(h, j), inbox[g][i].seq = inbox[h][j].seq
        PROVE  inbox[g][i] = inbox[h][j]
    <3>1. PICK k \in DOMAIN log : log[k] = inbox[g][i]
      BY <1>1, <2>1 DEF IInv, History, DeliveredIsLogged
    <3>2. PICK l \in DOMAIN log : log[l] = inbox[h][j]
      BY <1>1, <2>1 DEF IInv, History, DeliveredIsLogged
    <3>3. log \in Seq(Envelope)
      BY <1>1 DEF IInv, TypeOK, HistoryTypes
    <3>4. k \in Nat /\ l \in Nat /\ log[k].seq \in Nat /\ log[l].seq \in Nat
      <4>1. log[k] \in Envelope /\ log[l] \in Envelope
        BY <3>3
      <4> QED BY <3>3, <4>1 DEF Envelope
    <3>5. ~(k < l) /\ ~(l < k)
      BY <1>1, <2>1, <3>1, <3>2, <3>4 DEF IInv, History, LogIncreasing
    <3> QED BY <3>1, <3>2, <3>4, <3>5
  <2> QED BY <2>1 DEF SameSeqSameEnvelope
<1> QED BY <1>1, Invariance, PTL

-----------------------------------------------------------------------------
(* Refinement of CommitLog. *)

\* A new hub is a new log.
LEMMA InitImplements == Init => Commits!Init
BY DEF Init, Commits!Init, Told, Positions

\* Answers and notifications do not change the envelopes a link received.
LEMMA ToldKept ==
  ASSUME HistoryTypes, TellsNoEnvelope
  PROVE  \A h \in Conns : Told(h)' = Told(h)
<1>1. ASSUME NEW h \in Conns
      PROVE  Told(h)' = Told(h)
  <2>1. inbox[h] \in Seq(Message)
    BY DEF HistoryTypes
  <2>2. CASE inbox'[h] = inbox[h]
    BY <2>2 DEF Told, Positions, IsAction
  <2>3. ASSUME NEW m \in Message, m.kind # "action", inbox'[h] = Append(inbox[h], m)
        PROVE  Told(h)' = Told(h)
    <3>1. {i \in DOMAIN inbox'[h] : inbox'[h][i].kind = "action"}
            = {i \in DOMAIN inbox[h] : inbox[h][i].kind = "action"}
      BY <2>1, <2>3
    <3>2. \A i \in DOMAIN inbox[h] : inbox'[h][i] = inbox[h][i]
      BY <2>1, <2>3
    <3> QED BY <3>1, <3>2 DEF Told, Positions, IsAction
  <2> QED BY <2>2, <2>3 DEF TellsNoEnvelope
<1> QED BY <1>1

\* An envelope sent to a link is one more envelope it received.
LEMMA ToldAppended ==
  ASSUME HistoryTypes, NEW h \in Conns, NEW e, e.kind = "action",
         inbox'[h] = Append(inbox[h], e)
  PROVE  Told(h)' = Told(h) \cup {e}
<1>1. /\ inbox[h] \in Seq(Message) /\ Len(inbox[h]) \in Nat
      /\ DOMAIN inbox[h] = 1..Len(inbox[h])
  BY DEF HistoryTypes
<1>2. /\ DOMAIN inbox'[h] = 1..(Len(inbox[h]) + 1)
      /\ \A i \in DOMAIN inbox[h] : inbox'[h][i] = inbox[h][i]
      /\ inbox'[h][Len(inbox[h]) + 1] = e
  BY <1>1
<1>3. ASSUME NEW m
      PROVE  m \in Told(h)' <=> m \in Told(h) \cup {e}
  <2>1. m \in Told(h)' <=> \E i \in DOMAIN inbox'[h] : inbox'[h][i].kind = "action" /\ m = inbox'[h][i]
    BY DEF Told, Positions, IsAction
  <2>2. m \in Told(h) <=> \E i \in DOMAIN inbox[h] : inbox[h][i].kind = "action" /\ m = inbox[h][i]
    BY DEF Told, Positions, IsAction
  <2>3. ASSUME NEW i \in DOMAIN inbox'[h], i \notin DOMAIN inbox[h]
        PROVE  inbox'[h][i] = e
    BY <1>1, <1>2, <2>3
  <2>4. Len(inbox[h]) + 1 \in DOMAIN inbox'[h]
    BY <1>1, <1>2
  <2>5. \A i \in DOMAIN inbox[h] : i \in DOMAIN inbox'[h]
    BY <1>1, <1>2
  <2> QED BY <1>2, <2>1, <2>2, <2>3, <2>4, <2>5
<1> QED BY <1>3

\* What a turn of a commit does to the numbers and to what is told.
LEMMA CommitTurns ==
  ASSUME IInv, NEW c \in Calls,
         \/ Dispatch(c) \/ DispatchFrom(c)
         \/ Enter(c) \/ Authorized(c) \/ Persisted(c) \/ Sequenced(c)
  PROVE  \/ UNCHANGED <<storedSeq, ring, link, subs, log, inbox>>
         \/ UNCHANGED <<ring, link, subs, log, inbox>> /\ storedSeq' = serverSeq + 1 /\ hydrated
         \/ pc[c] = "sequencing" /\ frame[c].wrote /\ Publish(c)
<1>1. CASE Dispatch(c) \/ DispatchFrom(c)
  BY <1>1 DEF Dispatch, DispatchFrom, linkVars, storeVars, histVars
<1>2. CASE Enter(c) \/ Authorized(c) \/ Persisted(c) \/ Sequenced(c)
  <2>1. hydrated /\ pc[c] \in Holding
    BY <1>2, PastReady DEF Enter, Authorized, Persisted, Sequenced, Resting, Settled, Holding, Locked
  <2>2. CASE Abandon(c)
    BY <2>2 DEF Abandon, linkVars, storeVars, histVars
  <2>3. CASE Accept(c)
    BY <2>3 DEF Accept, linkVars, histVars
  <2>4. ASSUME NEW f, f.seq = serverSeq + 1, Sequence(c, f)
        PROVE  \/ UNCHANGED <<storedSeq, ring, link, subs, log, inbox>>
               \/ UNCHANGED <<ring, link, subs, log, inbox>> /\ storedSeq' = serverSeq + 1
    BY <2>4 DEF Sequence, linkVars, histVars
  <2>5. CASE Reject(c)
    <3> DEFINE f == [frame[c] EXCEPT !.seq = NextSeq, !.accepted = FALSE]
    <3>1. f.seq = serverSeq + 1
      BY <2>1, HoldingFacts DEF IInv, Frame, NextSeq
    <3>2. Sequence(c, f)
      BY <2>5 DEF Reject
    <3> HIDE DEF f
    <3> QED BY <2>1, <2>4, <3>1, <3>2
  <2>6. CASE pc[c] = "persisting" /\ Sequence(c, frame[c])
    BY <2>1, <2>4, <2>6 DEF IInv, Numbers
  <2>7. CASE UNCHANGED <<ring, linkVars, storeVars, histVars>>
    BY <2>7 DEF linkVars, storeVars, histVars
  <2> QED BY <1>2, <2>2, <2>3, <2>5, <2>6, <2>7 DEF Enter, Authorized, Persisted, Sequenced, Reduce
<1> QED BY <1>1, <1>2

\* Every step of the hub is a step of the log, or leaves it alone.
LEMMA StepImplements == IInv /\ [Next]_vars => [Commits!Next]_(Commits!vars)
<1> SUFFICES ASSUME IInv, [Next]_vars PROVE [Commits!Next]_(Commits!vars)
  OBVIOUS
<1> DEFINE told == [h \in Conns |-> Told(h)]
<1>1. HistoryTypes
  BY DEF IInv, TypeOK
<1>2. ASSUME TellsNoEnvelope
      PROVE  told' = told
  BY <1>1, <1>2, ToldKept
<1>3. ASSUME UNCHANGED inbox
      PROVE  told' = told
  BY <1>3 DEF Told, Positions, IsAction
<1>4. CASE UNCHANGED <<storedSeq, log>> /\ told' = told
  BY <1>4 DEF Commits!vars
<1>5. CASE UNCHANGED <<ring, link, subs, log, inbox>> /\ storedSeq' = serverSeq + 1 /\ hydrated
  <2>1. storedSeq' \in Nat /\ storedSeq' > storedSeq
    BY <1>5 DEF IInv, TypeOK, HubTypes, Numbers
  <2> QED BY <1>3, <1>5, <2>1 DEF Commits!Next, Commits!Reserve
<1>6. ASSUME NEW c \in Calls, pc[c] = "sequencing", frame[c].wrote, Publish(c)
      PROVE  Commits!Commit
  <2> DEFINE e == EnvelopeOf(c)
             reached == {h \in Conns : inbox'[h] = Append(inbox[h], e)}
  <2>1. /\ e.kind = "action" /\ e.seq = storedSeq /\ storedSeq \in Nat
        /\ \A i \in DOMAIN log : log[i].seq < e.seq
    BY <1>6, PublishedFacts DEF IInv, TypeOK, HubTypes
  <2>2. log' = Append(log, e) /\ Broadcast(e) /\ UNCHANGED storedSeq
    BY <1>6 DEF Publish, storeVars
  <2> HIDE DEF e
  <2>3. log' # log /\ Len(log') = Len(log) + 1 /\ log'[Len(log')] = e
    BY <1>1, <2>2 DEF HistoryTypes
  <2>4. \A h \in Conns \ reached : inbox'[h] = inbox[h]
    BY <2>2 DEF Broadcast
  <2>5. told' = [h \in Conns |-> IF h \in reached THEN told[h] \cup {e} ELSE told[h]]
    <3>1. \A h \in reached : Told(h)' = Told(h) \cup {e}
      BY <1>1, <2>1, ToldAppended
    <3>2. \A h \in Conns \ reached : Told(h)' = Told(h)
      BY <2>4 DEF Told, Positions, IsAction
    <3> HIDE DEF reached
    <3> QED BY <3>1, <3>2
  <2>6. reached \in SUBSET Conns
    OBVIOUS
  <2>7. Commits!Publish(e)
    <3>1. e.seq <= storedSeq
      BY <2>1
    <3>2. \E r \in SUBSET Conns :
            told' = [h \in Conns |-> IF h \in r THEN told[h] \cup {e} ELSE told[h]]
      <4> HIDE DEF reached, told
      <4> QED BY <2>5, <2>6
    <3> QED BY <2>1, <2>2, <3>1, <3>2 DEF Commits!Publish
  <2> QED BY <2>3, <2>7 DEF Commits!Commit
<1>7. CASE Outside
  BY <1>2, <1>4, <1>7 DEF Outside
<1>8. CASE Hydrate \/ Crash
  BY <1>3, <1>4, <1>8 DEF Hydrate, Crash, storeVars, histVars
<1>9. ASSUME NEW c \in Calls,
             \/ Dispatch(c) \/ DispatchFrom(c)
             \/ Enter(c) \/ Authorized(c) \/ Persisted(c) \/ Sequenced(c)
      PROVE  [Commits!Next]_(Commits!vars)
  BY <1>3, <1>4, <1>5, <1>6, <1>9, CommitTurns DEF Commits!Next
<1> QED BY <1>7, <1>8, <1>9, StepCases

\* The hub implements the abstract commit log: each step of #commit, and each failure
\* between two of them, is a reservation, a publication or nothing.
THEOREM Refinement == Spec => ImplementsCommitLog
BY InitImplements, Invariance, StepImplements, PTL
DEF Spec, ImplementsCommitLog, Commits!Spec

-----------------------------------------------------------------------------
(* Links, subscriptions and replays. *)

\* A link that is not live has no subscription.
StaleHasNothing == \A h \in Conns : ~Live(h) => subs[h] = {}

\* A call that may end in a subscription only works on routes a connection can reach.
OpenRequests ==
  \A c \in Calls :
    pc[c] \in {"policy", "load", "have"} /\ arg[c].op \in {"subscribe", "reconnect"} =>
      frame[c].uri \notin Internal /\ frame[c].todo \cap Internal = {}

\* The ring is the end of the log: what it does not hold is older than all it holds.
RingIsTail ==
  /\ \A i \in DOMAIN ring : \E k \in DOMAIN log : log[k] = ring[i]
  /\ ring # << >> => \A k \in DOMAIN log :
       log[k].seq >= ring[1].seq => \E i \in DOMAIN ring : ring[i] = log[k]
  /\ \A i, j \in DOMAIN ring : i < j => ring[i].seq < ring[j].seq

LInv ==
  OneLinkPerClient /\ StaleHasNothing /\ InternalHidden /\ OpenRequests /\ RingIsTail

\* A replay m to a link with subscriptions s is exactly what was missed.
Exact(m, s) ==
  /\ m.resumed = s /\ m.resumed \cap Internal = {}
  /\ m.actions = {log[i] : i \in {j \in DOMAIN log :
                     log[j].uri \in m.resumed /\ log[j].seq > m.lastSeen}}

\* The ways a step can concern a link.
Serves(h) ==
  /\ Live(h) /\ UNCHANGED link
  /\ \A g \in Conns \ {h} : subs'[g] = subs[g] /\ inbox'[g] = inbox[g]
  /\ subs'[h] \cap Internal = {}
  /\ \/ inbox'[h] = inbox[h]
     \/ \E m \in Message : /\ inbox'[h] = Append(inbox[h], m) /\ m.kind # "action"
                           /\ m.kind = "replay" => Exact(m, subs'[h])

Announces == \E m \in Message : m.kind \in {"action", "notification"} /\ Broadcast(m)

Withdraws ==
  /\ UNCHANGED inbox
  /\ \A h \in Conns : /\ link'[h] = link[h] \/ link'[h] = "gone"
                      /\ subs'[h] \subseteq subs[h]
                      /\ link'[h] = "gone" => subs'[h] = {}

Ignores == UNCHANGED <<link, subs, inbox>>

LinkStep ==
  Ignores \/ Announces \/ Withdraws \/ (\E h \in Conns : Serves(h)) \/ (\E h \in Conns : Connect(h))

\* When the ring covers a sequence, what it holds after it is what the log holds after it.
LEMMA ReplayExact ==
  ASSUME IInv, LInv, hydrated, NEW c \in Calls, NEW f \in Frame, NEW kept \in SUBSET Uris,
         arg[c] \in Request, kept \cap Internal = {}, Replayable(arg[c].lastSeen)
  PROVE  Exact(Resumption(c, f, kept), kept)
<1> DEFINE seen == arg[c].lastSeen
<1>1. /\ seen \in Nat /\ serverSeq \in Nat /\ storedSeq \in Nat /\ storedSeq <= serverSeq
      /\ \A k \in DOMAIN log : log[k] \in Envelope /\ log[k].seq <= storedSeq
      /\ ring \in Seq(Envelope)
  <2>1. \A k \in DOMAIN log : log[k] \in Envelope
    BY DEF IInv, TypeOK, HistoryTypes
  <2> QED BY <2>1 DEF Request, IInv, TypeOK, HubTypes, Numbers, History, DeliveredIsDurable
<1>2. \A k \in DOMAIN log : log[k].seq \in Nat
  BY <1>1 DEF Envelope
<1>3. \A i \in DOMAIN ring : \E k \in DOMAIN log : log[k] = ring[i]
  BY DEF LInv, RingIsTail
<1>4. ASSUME NEW k \in DOMAIN log, log[k].seq > seen
      PROVE  \E i \in DOMAIN ring : ring[i] = log[k]
  <2>1. seen # serverSeq
    BY <1>1, <1>2, <1>4
  <2>2. ring # << >> /\ ring[1].seq <= seen + 1
    BY <2>1 DEF Replayable, Replayed!Covers
  <2>3. ring[1].seq \in Nat
    <3>1. ring[1] \in Envelope
      BY <1>1, <2>2
    <3> QED BY <3>1 DEF Envelope
  <2>4. log[k].seq >= ring[1].seq
    BY <1>1, <1>2, <1>4, <2>2, <2>3
  <2> QED BY <2>2, <2>4 DEF LInv, RingIsTail
<1>5. {e \in Replayed!Missed(ring, seen) : e.uri \in kept}
        = {log[i] : i \in {j \in DOMAIN log : log[j].uri \in kept /\ log[j].seq > seen}}
  <2>1. ASSUME NEW e
        PROVE  e \in Replayed!Missed(ring, seen) <=> \E k \in DOMAIN log : log[k] = e /\ e.seq > seen
    BY <1>3, <1>4 DEF Replayed!Missed
  <2> QED BY <2>1
<1> QED BY <1>5 DEF Resumption, Exact

\* A round of reconnect's loop serves its own link, with exact replays only.
LEMMA NextUriServes ==
  ASSUME IInv, LInv, hydrated, NEW c \in Calls, NEW f \in Frame, NEW kept \in SUBSET Uris,
         arg[c] \in Request, arg[c].conn \in Conns, Live(arg[c].conn),
         kept \cap Internal = {}, NextUri(c, f, kept)
  PROVE  Serves(arg[c].conn)
<1> DEFINE h == arg[c].conn
           m == Resumption(c, f, kept)
<1>1. subs' = [subs EXCEPT ![h] = kept] /\ UNCHANGED link
  BY DEF NextUri
<1>2. subs'[h] = kept /\ \A g \in Conns \ {h} : subs'[g] = subs[g]
  BY <1>1 DEF IInv, TypeOK, HubTypes
<1>3. m \in Message
  BY ResumptionTyped DEF IInv
<1>4. m.kind = "replay" => Replayable(arg[c].lastSeen)
  BY DEF Resumption
<1>5. m.kind # "action" /\ (m.kind = "replay" => Exact(m, kept))
  BY <1>4, ReplayExact DEF Resumption
<1>6. UNCHANGED inbox \/ inbox' = [inbox EXCEPT ![h] = Append(@, m)]
  BY DEF NextUri, Answer
<1> HIDE DEF m
<1> QED BY <1>1, <1>2, <1>3, <1>5, <1>6 DEF Serves, IInv, TypeOK, HistoryTypes

\* The turns of subscribe serve their own link.
LEMMA SubscribeLinks ==
  ASSUME IInv, LInv, NEW c \in Calls,
         \/ LinkLost(c) \/ SubscribeDenied(c) \/ SubscribeGranted(c) \/ Subscribe(c)
  PROVE  LinkStep
<1> USE DEF IInv, TypeOK
<1> DEFINE h == arg[c].conn
           u == frame[c].uri
<1>1. CASE LinkLost(c)
  BY <1>1 DEF LinkLost, LinkStep, Ignores, linkVars, histVars
<1>2. CASE SubscribeDenied(c)
  <2>1. UNCHANGED <<link, inbox>> /\ subs' = [subs EXCEPT ![h] = @ \ {u}]
    BY <1>2 DEF SubscribeDenied, histVars
  <2>2. ASSUME NEW g \in Conns
        PROVE  subs'[g] \subseteq subs[g] /\ (link'[g] = "gone" => subs'[g] = {})
    <3>1. subs'[g] \subseteq subs[g]
      BY <2>1 DEF HubTypes
    <3>2. link[g] = "gone" => subs[g] = {}
      BY DEF LInv, StaleHasNothing, Live
    <3> QED BY <2>1, <3>1, <3>2
  <2> QED BY <2>1, <2>2 DEF LinkStep, Withdraws
<1>3. ASSUME Live(h), arg[c].op = "subscribe", pc[c] \in {"policy", "have"}
      PROVE  h \in Conns /\ subs[h] \cup {u} \subseteq Uris \ Internal
  <2>1. h \in Conns
    BY <1>3, RequestOf
  <2>2. u \in Uris
    BY <1>3 DEF CallTypes, WellPlaced, Placed, Holding
  <2> QED BY <1>3, <2>1, <2>2 DEF LInv, OpenRequests, InternalHidden, HubTypes
<1>4. CASE SubscribeGranted(c)
  <2>1. Live(h) /\ arg[c].op = "subscribe" /\ pc[c] = "policy"
    BY <1>4 DEF SubscribeGranted, Verdict
  <2>2. UNCHANGED <<link, inbox>>
    BY <1>4 DEF SubscribeGranted, histVars
  <2>3. CASE UNCHANGED subs
    BY <2>2, <2>3 DEF LinkStep, Ignores
  <2>4. CASE subs' = [subs EXCEPT ![h] = @ \cup {u}]
    <3>1. Serves(h)
      BY <1>3, <2>1, <2>2, <2>4 DEF Serves, HubTypes
    <3> QED BY <1>3, <2>1, <3>1 DEF LinkStep
  <2> QED BY <1>4, <2>3, <2>4 DEF SubscribeGranted
<1>5. CASE Subscribe(c)
  <2> DEFINE m == [kind |-> "snapshots", call |-> c, missing |-> {},
                   snapshots |-> {SnapshotOf(c, u)}]
  <2>1. Live(h) /\ arg[c].op = "subscribe" /\ pc[c] = "have" /\ UNCHANGED link
    BY <1>5 DEF Subscribe, Has
  <2>2. h \in Conns /\ u \in Uris /\ Object(c, u) \in State
    BY <1>3, <2>1, HoldingFacts DEF Holding
  <2>3. m \in Message /\ m.kind = "snapshots"
    BY <2>2 DEF SnapshotOf, Snapshot, Message, HubTypes
  <2>4. inbox' = [inbox EXCEPT ![h] = Append(@, m)] /\ subs' = [subs EXCEPT ![h] = @ \cup {u}]
    BY <1>5 DEF Subscribe, Answer
  <2> HIDE DEF m
  <2>5. Serves(h)
    BY <1>3, <2>1, <2>2, <2>3, <2>4 DEF Serves, HubTypes, HistoryTypes
  <2> QED BY <2>2, <2>5 DEF LinkStep
<1> QED BY <1>1, <1>2, <1>4, <1>5

\* The turns of reconnect serve their own link.
LEMMA ReconnectLinks ==
  ASSUME IInv, LInv, NEW c \in Calls,
         BeginReconnect(c) \/ ReconnectPolicy(c) \/ ReconnectUri(c)
  PROVE  LinkStep
<1>1. TypeOK
  BY DEF IInv
<1>2. hydrated
  BY ReconnectOutside, PastReady DEF BeginReconnect, ReconnectPolicy, ReconnectUri, Begins, Has,
     Verdict, Resting, Settled
<1>3. ASSUME NEW g \in Frame, NEW kept \in SUBSET Uris, NextUri(c, g, kept), Within(c, g, kept),
             Live(arg[c].conn)
      PROVE  LinkStep
  <2>1. arg[c].conn \in Conns /\ arg[c] \in Request /\ arg[c].op = "reconnect"
        /\ pc[c] \in {"begin", "policy", "load", "have"}
    BY <1>1, ReconnectCases
  <2>2. kept \cap Internal = {}
    BY <1>3, <2>1 DEF Within, LInv, OpenRequests, InternalHidden
  <2> QED BY <1>2, <1>3, <2>1, <2>2, NextUriServes DEF LinkStep
<1>4. CASE UNCHANGED <<seqVars, lock, ring, linkVars, storeVars, histVars>>
  BY <1>4 DEF LinkStep, Ignores, linkVars, histVars
<1> QED BY <1>1, <1>3, <1>4, ReconnectCases

\* disconnect, unsubscribe, destroy and a crash only take subscriptions away.
LEMMA LeavingLinks ==
  ASSUME IInv, LInv,
         \/ \E h \in Conns : Disconnect(h)
         \/ \E h \in Conns, u \in Uris : Unsubscribe(h, u)
         \/ \E c \in Calls : Destroyed(c)
         \/ Crash
  PROVE  LinkStep
<1> USE DEF IInv, TypeOK, HubTypes
<1>1. \A h \in Conns : link[h] = "gone" => subs[h] = {}
  BY DEF LInv, StaleHasNothing, Live
<1>2. ASSUME NEW h \in Conns, Disconnect(h)
      PROVE  Withdraws
  BY <1>1, <1>2 DEF Withdraws, Disconnect, histVars
<1>3. ASSUME NEW h \in Conns, NEW u \in Uris, Unsubscribe(h, u)
      PROVE  Withdraws
  BY <1>1, <1>3 DEF Withdraws, Unsubscribe, Live, histVars
<1>4. ASSUME NEW c \in Calls, Destroyed(c)
      PROVE  Withdraws
  <2>1. UNCHANGED <<link, inbox>>
    BY <1>4 DEF Destroyed, histVars
  <2>2. \A h \in Conns : subs'[h] \subseteq subs[h]
    BY <1>4 DEF Destroyed
  <2>3. \A h \in Conns : link'[h] = "gone" => subs'[h] = {}
    BY <1>1, <2>1, <2>2
  <2> QED BY <2>1, <2>2, <2>3 DEF Withdraws
<1>5. CASE Crash
  <2>1. Withdraws
    BY <1>5 DEF Withdraws, Crash, histVars
  <2> QED BY <2>1 DEF LinkStep
<1> QED BY <1>2, <1>3, <1>4, <1>5 DEF LinkStep

\* Everything else leaves the links alone, or is a broadcast.
LEMMA CallLinks ==
  ASSUME IInv, LInv, NEW c \in Calls,
         \/ Refused(c) \/ StatelessRefused(c) \/ BeginLookup(c) \/ BeginPolicy(c)
         \/ BeginHandler(c) \/ Notify(c) \/ Load(c) \/ LoadMissing(c) \/ LoadFailed(c)
         \/ DispatchDuplicate(c) \/ Exec(c) \/ ExecPolicy(c) \/ Run(c) \/ Awaited(c)
         \/ Get(c) \/ BeginCreate(c) \/ Create(c) \/ Created(c) \/ Destroy(c) \/ Issue(c)
  PROVE  LinkStep
<1>1. CASE Notify(c)
  <2> DEFINE m == [kind |-> "notification", uri |-> arg[c].uri, call |-> c]
  <2>1. arg[c].uri \in Uris
    BY <1>1, RequestOf DEF Notify, Begins, Request, IInv, TypeOK
  <2>2. m \in Message /\ m.kind = "notification" /\ Broadcast(m)
    BY <1>1, <2>1 DEF Message, Notify
  <2> HIDE DEF m
  <2> QED BY <2>2 DEF Announces, LinkStep
<1>2. CASE \/ Refused(c) \/ StatelessRefused(c) \/ BeginLookup(c) \/ BeginPolicy(c)
           \/ BeginHandler(c) \/ Load(c) \/ LoadMissing(c) \/ LoadFailed(c)
  <2>1. UNCHANGED <<linkVars, histVars>>
    BY <1>2 DEF Refused, StatelessRefused, BeginLookup, BeginPolicy, BeginHandler, Load,
                LoadMissing, LoadFailed
  <2> QED BY <2>1 DEF LinkStep, Ignores, linkVars, histVars
<1>3. CASE \/ DispatchDuplicate(c) \/ Exec(c) \/ ExecPolicy(c) \/ Run(c) \/ Awaited(c)
           \/ Get(c) \/ BeginCreate(c) \/ Create(c) \/ Created(c) \/ Destroy(c) \/ Issue(c)
  <2>1. UNCHANGED <<linkVars, histVars>>
    BY <1>3 DEF DispatchDuplicate, Exec, ExecPolicy, Run, Awaited, Get, BeginCreate, Create,
                Created, Destroy, Issue
  <2> QED BY <2>1 DEF LinkStep, Ignores, linkVars, histVars
<1> QED BY <1>1, <1>2, <1>3

\* No step concerns a link in any other way.
LEMMA StepLinks ==
  ASSUME IInv, LInv, [Next]_vars
  PROVE  LinkStep
<1>1. ASSUME NEW c \in Calls,
             \/ Dispatch(c) \/ DispatchFrom(c)
             \/ Enter(c) \/ Authorized(c) \/ Persisted(c) \/ Sequenced(c)
      PROVE  LinkStep
  <2>1. CASE UNCHANGED <<link, subs, inbox>>
    BY <2>1 DEF LinkStep, Ignores
  <2>2. CASE pc[c] = "sequencing" /\ frame[c].wrote /\ Publish(c)
    <3>1. EnvelopeOf(c) \in Message /\ EnvelopeOf(c).kind = "action"
      BY <2>2, PublishedFacts DEF Message
    <3>2. Broadcast(EnvelopeOf(c))
      BY <2>2 DEF Publish
    <3> QED BY <3>1, <3>2 DEF Announces, LinkStep
  <2> QED BY <1>1, <2>1, <2>2, CommitTurns
<1>2. ASSUME NEW c \in Calls, Issue(c) \/ Resume(c)
      PROVE  LinkStep
  BY <1>1, <1>2, CallLinks, SubscribeLinks, ReconnectLinks, LeavingLinks DEF Resume
<1>3. CASE Hydrate \/ UNCHANGED vars
  BY <1>3 DEF Hydrate, vars, linkVars, histVars, LinkStep, Ignores
<1>4. CASE \E h \in Conns : Connect(h)
  BY <1>4 DEF LinkStep
<1> QED BY <1>2, <1>3, <1>4, LeavingLinks DEF Next

-----------------------------------------------------------------------------
(* LInv is inductive. *)

\* What a step does to the links keeps them apart, and what they follow reachable.
LEMMA LinksKept ==
  ASSUME IInv, LInv, LinkStep
  PROVE  OneLinkPerClient' /\ StaleHasNothing' /\ InternalHidden'
<1> USE DEF IInv, TypeOK, HubTypes, HistoryTypes
<1>1. CASE Ignores
  BY <1>1 DEF LInv, Ignores, OneLinkPerClient, StaleHasNothing, InternalHidden, Live, Positions,
              IsAction
<1>2. CASE Announces
  <2>1. PICK m \in Message : m.kind \in {"action", "notification"} /\ Broadcast(m)
    BY <1>2 DEF Announces
  <2>2. \A h \in Conns : \/ link'[h] = link[h] /\ subs'[h] = subs[h]
                         \/ link'[h] = "gone" /\ subs'[h] = {}
    <3>1. PICK dead \in Dead(m.uri) :
            /\ link' = [h \in Conns |-> IF h \in dead THEN "gone" ELSE link[h]]
            /\ subs' = [h \in Conns |-> IF h \in dead THEN {} ELSE subs[h]]
      BY <2>1 DEF Broadcast
    <3> QED BY <3>1 DEF Live
  <2>3. OneLinkPerClient' /\ StaleHasNothing'
    BY <2>2 DEF LInv, OneLinkPerClient, StaleHasNothing, Live
  <2>4. ASSUME NEW h \in Conns, NEW i \in DOMAIN inbox'[h], inbox'[h][i].kind = "action"
        PROVE  inbox'[h][i].uri \notin Internal
    <3>1. CASE inbox'[h] = inbox[h]
      BY <2>4, <3>1 DEF LInv, InternalHidden, Positions, IsAction
    <3>2. CASE inbox'[h] = Append(inbox[h], m) /\ m.uri \in subs[h]
      <4>1. CASE inbox'[h][i] = m
        BY <3>2, <4>1 DEF LInv, InternalHidden
      <4>2. CASE i \in DOMAIN inbox[h] /\ inbox'[h][i] = inbox[h][i]
        BY <2>4, <4>2 DEF LInv, InternalHidden, Positions, IsAction
      <4> QED BY <2>4, <3>2, <4>1, <4>2
    <3> QED BY <2>1, <3>1, <3>2 DEF Broadcast, Subscribers
  <2> QED BY <2>2, <2>3, <2>4 DEF LInv, InternalHidden, Positions, IsAction
<1>3. CASE Withdraws
  BY <1>3 DEF Withdraws, LInv, OneLinkPerClient, StaleHasNothing, InternalHidden, Live, Positions,
              IsAction
<1>4. ASSUME NEW h \in Conns, Serves(h)
      PROVE  OneLinkPerClient' /\ StaleHasNothing' /\ InternalHidden'
  <2>1. OneLinkPerClient' /\ StaleHasNothing'
    BY <1>4 DEF Serves, LInv, OneLinkPerClient, StaleHasNothing, Live
  <2>2. ASSUME NEW i \in DOMAIN inbox'[h], inbox'[h][i].kind = "action"
        PROVE  inbox'[h][i].uri \notin Internal
    <3>1. i \in DOMAIN inbox[h] /\ inbox'[h][i] = inbox[h][i]
      <4>1. CASE inbox'[h] = inbox[h]
        BY <2>2, <4>1
      <4>2. ASSUME NEW m \in Message, m.kind # "action", inbox'[h] = Append(inbox[h], m)
            PROVE  i \in DOMAIN inbox[h] /\ inbox'[h][i] = inbox[h][i]
        BY <2>2, <4>2
      <4> QED BY <1>4, <4>1, <4>2 DEF Serves
    <3> QED BY <2>2, <3>1 DEF LInv, InternalHidden, Positions, IsAction
  <2>3. \A g \in Conns \ {h} : subs'[g] = subs[g] /\ inbox'[g] = inbox[g]
    BY <1>4 DEF Serves
  <2> QED BY <1>4, <2>1, <2>2, <2>3 DEF Serves, LInv, InternalHidden, Positions, IsAction
<1>5. ASSUME NEW h \in Conns, Connect(h)
      PROVE  OneLinkPerClient' /\ StaleHasNothing' /\ InternalHidden'
  <2>1. \A g \in Conns : link'[g] = IF g = h THEN "live"
                                    ELSE IF g \in Previous(h) THEN "gone" ELSE link[g]
    BY <1>5 DEF Connect
  <2>2. \A g \in Conns : subs'[g] = IF g \in Previous(h) THEN {} ELSE subs[g]
    BY <1>5 DEF Connect
  <2>3. UNCHANGED inbox
    BY <1>5 DEF Connect, histVars
  <2>4. OneLinkPerClient'
    BY <2>1 DEF LInv, OneLinkPerClient, Live, Previous
  <2> QED BY <2>1, <2>2, <2>3, <2>4 DEF LInv, StaleHasNothing, InternalHidden, Live, Positions,
                                        IsAction
<1> QED BY <1>1, <1>2, <1>3, <1>4, <1>5 DEF LinkStep

\* The ring stays the end of the log when both receive the newest envelope.
LEMMA PushKeepsTail ==
  ASSUME HubTypes, HistoryTypes, RingIsTail, NEW e \in Envelope,
         \A k \in DOMAIN log : log[k].seq < e.seq,
         log' = Append(log, e), ring' = Replayed!Push(ring, e)
  PROVE  RingIsTail'
<1> DEFINE n == Len(ring)
<1>1. /\ ring \in Seq(Envelope) /\ n \in Nat /\ DOMAIN ring = 1..n
      /\ log \in Seq(Envelope) /\ Len(log) \in Nat /\ DOMAIN log = 1..Len(log)
      /\ ReplayLimit \in Nat \ {0} /\ e.seq \in Nat
  BY HubAssumption DEF HubTypes, HistoryTypes, Envelope
<1>2. /\ DOMAIN log' = 1..(Len(log) + 1) /\ log'[Len(log) + 1] = e
      /\ \A k \in DOMAIN log : log'[k] = log[k]
  BY <1>1
<1>3. /\ \A k \in DOMAIN log : log[k].seq \in Nat
      /\ \A i \in DOMAIN ring : ring[i].seq \in Nat /\ ring[i].seq < e.seq
  <2>1. \A k \in DOMAIN log : log[k] \in Envelope
    BY <1>1
  <2> QED BY <2>1 DEF RingIsTail, Envelope
<1>4. CASE n # ReplayLimit
  <2>1. /\ DOMAIN ring' = 1..(n + 1) /\ ring'[n + 1] = e
        /\ \A i \in DOMAIN ring : ring'[i] = ring[i]
    <3>1. ring' = Append(ring, e)
      BY <1>4 DEF Replayed!Push
    <3> QED BY <1>1, <3>1
  <2>2. ASSUME NEW k \in DOMAIN log', log'[k].seq >= ring'[1].seq
        PROVE  \E i \in DOMAIN ring' : ring'[i] = log'[k]
    <3>1. CASE k = Len(log) + 1
      <4>1. n + 1 \in DOMAIN ring' /\ log'[k] = e
        BY <1>1, <1>2, <2>1, <3>1
      <4> QED BY <2>1, <4>1
    <3>2. CASE k \in DOMAIN log
      <4>1. log[k].seq < e.seq /\ log[k].seq >= ring'[1].seq
        BY <1>2, <2>2, <3>2
      <4>2. ring # << >> /\ ring'[1] = ring[1]
        BY <1>1, <1>3, <2>1, <3>2, <4>1
      <4>3. PICK i \in DOMAIN ring : ring[i] = log[k]
        BY <3>2, <4>1, <4>2 DEF RingIsTail
      <4> QED BY <1>1, <1>2, <2>1, <3>2, <4>3
    <3> QED BY <1>1, <1>2, <2>2, <3>1, <3>2
  <2>3. \A i \in DOMAIN ring' : \E k \in DOMAIN log' : log'[k] = ring'[i]
    BY <1>1, <1>2, <2>1 DEF RingIsTail
  <2>4. \A i, j \in DOMAIN ring' : i < j => ring'[i].seq < ring'[j].seq
    BY <1>1, <1>3, <2>1 DEF RingIsTail
  <2> QED BY <2>2, <2>3, <2>4 DEF RingIsTail
<1>5. CASE n = ReplayLimit
  <2>1. ring' = Append(Tail(ring), e) /\ n > 0
    BY <1>1, <1>5 DEF Replayed!Push
  <2>2. /\ DOMAIN ring' = 1..n /\ ring'[n] = e
        /\ \A i \in 1..(n - 1) : ring'[i] = ring[i + 1]
    BY <1>1, <2>1
  <2>3. ASSUME NEW k \in DOMAIN log', log'[k].seq >= ring'[1].seq
        PROVE  \E i \in DOMAIN ring' : ring'[i] = log'[k]
    <3>1. CASE k = Len(log) + 1
      <4>1. n \in DOMAIN ring'
        <5>1. n \in 1..n
          BY <1>1, <2>1
        <5> QED BY <2>2, <5>1
      <4>2. log'[k] = e
        BY <1>2, <3>1
      <4> QED BY <2>2, <4>1, <4>2
    <3>2. CASE k \in DOMAIN log
      <4>1. log[k].seq < e.seq /\ log[k].seq >= ring'[1].seq /\ log[k].seq \in Nat
        BY <1>2, <1>3, <2>3, <3>2
      <4>2. n > 1 /\ ring'[1] = ring[2] /\ 2 \in DOMAIN ring
        <5>1. n # 1
          BY <1>1, <2>2, <4>1
        <5>2. 1 \in 1..(n - 1)
          BY <1>1, <2>1, <5>1
        <5> QED BY <1>1, <2>2, <5>1, <5>2
      <4>3. ring[1].seq < ring[2].seq /\ ring[1].seq \in Nat /\ ring[2].seq \in Nat
        <5>1. 1 \in DOMAIN ring /\ 2 \in DOMAIN ring /\ 1 < 2
          BY <1>1, <4>2
        <5>2. \A i, j \in DOMAIN ring : i < j => ring[i].seq < ring[j].seq
          BY DEF RingIsTail
        <5>3. ring[1].seq < ring[2].seq
          BY <5>1, <5>2
        <5> QED BY <1>3, <5>1, <5>3
      <4>4. PICK i \in DOMAIN ring : ring[i] = log[k]
        <5>1. ring # << >> /\ log[k].seq >= ring[1].seq
          BY <1>1, <2>1, <4>1, <4>2, <4>3
        <5> QED BY <3>2, <5>1 DEF RingIsTail
      <4>5. i # 1
        BY <4>1, <4>2, <4>3, <4>4
      <4>6. i - 1 \in 1..(n - 1) /\ (i - 1) + 1 = i
        BY <1>1, <4>5
      <4> QED BY <1>1, <1>2, <2>2, <3>2, <4>4, <4>6
    <3> QED BY <1>1, <1>2, <2>3, <3>1, <3>2
  <2>4. \A i \in DOMAIN ring' : \E k \in DOMAIN log' : log'[k] = ring'[i]
    <3>1. ASSUME NEW i \in 1..(n - 1)
          PROVE  \E k \in DOMAIN log' : log'[k] = ring'[i]
      <4>1. i + 1 \in DOMAIN ring /\ ring'[i] = ring[i + 1]
        BY <1>1, <2>2
      <4>2. PICK k \in DOMAIN log : log[k] = ring[i + 1]
        BY <4>1 DEF RingIsTail
      <4>3. k \in DOMAIN log' /\ log'[k] = log[k]
        BY <1>1, <1>2
      <4> QED BY <4>1, <4>2, <4>3
    <3>2. Len(log) + 1 \in DOMAIN log' /\ log'[Len(log) + 1] = ring'[n]
      BY <1>1, <1>2, <2>2
    <3>3. \A i \in DOMAIN ring' : i \in 1..(n - 1) \/ i = n
      BY <1>1, <2>2
    <3> QED BY <3>1, <3>2, <3>3
  <2>5. \A i, j \in DOMAIN ring' : i < j => ring'[i].seq < ring'[j].seq
    <3>1. ASSUME NEW i \in 1..(n - 1)
          PROVE  i + 1 \in DOMAIN ring /\ ring'[i] = ring[i + 1]
      BY <1>1, <2>2
    <3>2. ASSUME NEW i \in DOMAIN ring', NEW j \in DOMAIN ring', i < j
          PROVE  ring'[i].seq < ring'[j].seq
      <4>1. i \in 1..(n - 1) /\ (j \in 1..(n - 1) \/ j = n)
        BY <1>1, <2>2, <3>2
      <4>2. CASE j = n
        BY <1>3, <2>2, <3>1, <4>1, <4>2
      <4>3. CASE j \in 1..(n - 1)
        <5>1. i + 1 < j + 1
          BY <3>2, <4>1, <4>3
        <5>2. ring[i + 1].seq < ring[j + 1].seq
          BY <3>1, <4>1, <4>3, <5>1 DEF RingIsTail
        <5> QED BY <3>1, <4>1, <4>3, <5>2
      <4> QED BY <4>1, <4>2, <4>3
    <3> QED BY <3>2
  <2> QED BY <2>3, <2>4, <2>5 DEF RingIsTail
<1> QED BY <1>4, <1>5

\* The ring remains the end of the log: an append drops the oldest envelope only.
LEMMA TailKept ==
  ASSUME IInv, LInv, [Next]_vars
  PROVE  RingIsTail'
<1>1. CASE UNCHANGED <<ring, log>>
  BY <1>1 DEF LInv, RingIsTail
<1>2. CASE ring' = << >>
  BY <1>2 DEF RingIsTail
<1>3. ASSUME NEW c \in Calls, pc[c] = "sequencing", frame[c].wrote, Publish(c)
      PROVE  RingIsTail'
  <2> DEFINE e == EnvelopeOf(c)
  <2>1. e \in Envelope /\ \A k \in DOMAIN log : log[k].seq < e.seq
    BY <1>3, PublishedFacts
  <2>2. log' = Append(log, e) /\ ring' = Replayed!Push(ring, e)
    BY <1>3 DEF Publish
  <2> HIDE DEF e
  <2> QED BY <2>1, <2>2, PushKeepsTail DEF IInv, TypeOK, LInv
<1>4. ASSUME NEW c \in Calls,
             \/ Dispatch(c) \/ DispatchFrom(c)
             \/ Enter(c) \/ Authorized(c) \/ Persisted(c) \/ Sequenced(c)
      PROVE  RingIsTail'
  BY <1>1, <1>3, <1>4, CommitTurns
<1>5. CASE Outside \/ Hydrate
  BY <1>1, <1>5 DEF Outside, Hydrate, histVars
<1>6. CASE Crash
  BY <1>2, <1>6 DEF Crash
<1> QED BY <1>4, <1>5, <1>6, StepCases

\* A call that is past its request, with nothing internal left to do.
Opens(c, label, f) ==
  label \in {"policy", "load", "have"} /\ arg[c].op \in {"subscribe", "reconnect"} =>
    f.uri \notin Internal /\ f.todo \cap Internal = {}

\* A step moves one call, and leaves what the others are to do.
Moves(c) == \E label, f : label # "idle" /\ Goto(c, label, f) /\ Opens(c, label, f)

\* A call that moves as described keeps to the routes a connection can reach.
LEMMA MovesOpen ==
  ASSUME TypeOK, OpenRequests, NEW c \in Calls, Moves(c)
  PROVE  OpenRequests'
<1>1. PICK label, f : Goto(c, label, f) /\ Opens(c, label, f)
  BY DEF Moves
<1>2. /\ pc'[c] = label /\ frame'[c] = f /\ UNCHANGED arg
      /\ \A d \in Calls \ {c} : pc'[d] = pc[d] /\ frame'[d] = frame[d]
  BY <1>1 DEF Goto, TypeOK, CallTypes
<1> QED BY <1>1, <1>2 DEF OpenRequests, Opens

\* A call that settles works on no route any more.
LEMMA SettleMoves ==
  ASSUME NEW c \in Calls, NEW label \in Settled, Settle(c, label)
  PROVE  Moves(c)
BY DEF Settle, Settled, Moves, Opens

\* Only subscribe and reconnect are constrained, and only before their answer.
LEMMA GotoMoves ==
  ASSUME NEW c \in Calls, NEW label, NEW f, label # "idle", Goto(c, label, f),
         \/ label \notin {"policy", "load", "have"}
         \/ arg[c].op \notin {"subscribe", "reconnect"}
  PROVE  Moves(c)
BY DEF Moves, Opens

\* A turn of a call that was open keeps it so, if it keeps the URIs of its frame.
LEMMA SameMoves ==
  ASSUME OpenRequests, NEW c \in Calls, pc[c] \in {"policy", "load", "have"},
         NEW label, NEW f, label # "idle", Goto(c, label, f),
         f.uri = frame[c].uri, f.todo = frame[c].todo
  PROVE  Moves(c)
BY DEF OpenRequests, Moves, Opens

\* Looking an instance up leaves the route what it was.
LEMMA LookupMoves ==
  ASSUME NEW c \in Calls, NEW f \in Frame, Lookup(c, f),
         \/ arg[c].op \notin {"subscribe", "reconnect"}
         \/ OpenRequests /\ pc[c] = "policy" /\ f = frame[c]
  PROVE  Moves(c)
<1> DEFINE g == [f EXCEPT !.ref[f.uri] = instances[f.uri]]
           k == [f EXCEPT !.loaded = storage[f.uri]]
<1>1. g.uri = f.uri /\ g.todo = f.todo /\ k.uri = f.uri /\ k.todo = f.todo
  BY DEF Frame
<1>2. Goto(c, "have", g) \/ Goto(c, "load", k)
  BY DEF Lookup
<1> HIDE DEF g, k
<1> QED BY <1>1, <1>2, GotoMoves, SameMoves

\* The first turn of subscribe refuses an internal route.
LEMMA BeginMoves ==
  ASSUME TypeOK, NEW c \in Calls,
         \/ Refused(c) \/ StatelessRefused(c) \/ BeginLookup(c) \/ BeginPolicy(c)
         \/ BeginHandler(c) \/ Notify(c) \/ BeginCreate(c)
  PROVE  Moves(c)
<1>1. CASE Refused(c) \/ StatelessRefused(c) \/ Notify(c)
  BY <1>1, SettleMoves DEF Refused, StatelessRefused, Notify, Settled
<1>2. CASE BeginHandler(c) \/ BeginCreate(c)
  BY <1>2, SettleMoves, GotoMoves DEF BeginHandler, BeginCreate, Settled
<1>3. arg[c].uri \in Uris /\ (arg[c].op = "subscribe" => arg[c].conn # None)
  BY RequestOf, NoneIsNoCall
  DEF TypeOK, Request, Refused, StatelessRefused, BeginLookup, BeginPolicy, BeginHandler, Notify,
      BeginCreate, Begins
<1> DEFINE f == [Blank EXCEPT !.uri = arg[c].uri]
<1>4. f \in Frame /\ f.uri = arg[c].uri /\ f.todo = {}
  BY <1>3, BlankTyped DEF Frame, Blank
<1> HIDE DEF f
<1>5. CASE BeginLookup(c)
  <2>1. Lookup(c, f) /\ arg[c].op \notin {"subscribe", "reconnect"}
    BY <1>5 DEF BeginLookup, Begins, f
  <2> QED BY <1>4, <2>1, LookupMoves
<1>6. CASE BeginPolicy(c)
  <2>1. Goto(c, "policy", f) /\ Admitted(c) /\ arg[c].op # "reconnect"
    BY <1>6 DEF BeginPolicy, Begins, f
  <2>2. arg[c].op = "subscribe" => arg[c].uri \notin Internal
    BY <1>3, <2>1 DEF Admitted
  <2> QED BY <1>4, <2>1, <2>2 DEF Moves, Opens
<1> QED BY <1>1, <1>2, <1>5, <1>6

\* The turns of #instance and of the host's operations leave the route what it was.
LEMMA LoadMoves ==
  ASSUME TypeOK, OpenRequests, NEW c \in Calls,
         \/ Load(c) \/ LoadMissing(c) \/ LoadFailed(c) \/ Create(c) \/ Created(c) \/ Destroy(c)
         \/ Destroyed(c) \/ Get(c) \/ DispatchDuplicate(c) \/ Exec(c) \/ ExecPolicy(c) \/ Awaited(c)
  PROVE  Moves(c)
<1>1. CASE Load(c)
  <2> DEFINE u == frame[c].uri
  <2>1. pc[c] = "load" /\ frame[c] \in Frame
    BY <1>1 DEF Load, TypeOK, CallTypes
  <2>2. PICK ok \in BOOLEAN : Goto(c, "have", [frame[c] EXCEPT !.ref[u] = c, !.wrote = ok])
    BY <1>1 DEF Load, WriteOutcomes
  <2> DEFINE g == [frame[c] EXCEPT !.ref[u] = c, !.wrote = ok]
  <2>3. g.uri = frame[c].uri /\ g.todo = frame[c].todo
    BY <2>1 DEF Frame
  <2> HIDE DEF g
  <2>4. Goto(c, "have", g)
    BY <2>2 DEF g
  <2> QED BY <2>1, <2>3, <2>4, SameMoves
<1>2. CASE LoadMissing(c) \/ LoadFailed(c) \/ Created(c) \/ Get(c) \/ DispatchDuplicate(c)
  BY <1>2, SettleMoves DEF LoadMissing, LoadFailed, Created, Get, DispatchDuplicate, Settled
<1>3. CASE Create(c) \/ Destroy(c) \/ Destroyed(c)
  BY <1>3, SettleMoves, GotoMoves DEF Create, Destroy, Destroyed, Settled
<1>4. CASE Exec(c)
  BY <1>4, GotoMoves DEF Exec, Has
<1>5. CASE ExecPolicy(c) \/ Awaited(c)
  BY <1>5, SettleMoves, GotoMoves DEF ExecPolicy, Awaited, Settled
<1> QED BY <1>1, <1>2, <1>3, <1>4, <1>5

\* reconnect goes on with the next of the reachable routes only.
LEMMA SubscribeMoves ==
  ASSUME TypeOK, LInv, NEW c \in Calls,
         \/ LinkLost(c) \/ SubscribeDenied(c) \/ SubscribeGranted(c) \/ Subscribe(c)
         \/ BeginReconnect(c) \/ ReconnectPolicy(c) \/ ReconnectUri(c)
  PROVE  Moves(c)
<1>1. CASE LinkLost(c) \/ SubscribeDenied(c) \/ Subscribe(c)
  BY <1>1, SettleMoves DEF LinkLost, SubscribeDenied, Subscribe, Settled
<1>2. ASSUME pc[c] = "policy", Lookup(c, frame[c])
      PROVE  Moves(c)
  BY <1>2, LookupMoves DEF LInv, TypeOK, CallTypes
<1>3. CASE SubscribeGranted(c)
  <2>1. pc[c] = "policy" /\ (Settle(c, "done") \/ Lookup(c, frame[c]))
    BY <1>3 DEF SubscribeGranted, Verdict
  <2> QED BY <1>2, <2>1, SettleMoves DEF Settled
<1>4. CASE BeginReconnect(c) \/ ReconnectPolicy(c) \/ ReconnectUri(c)
  <2>1. ASSUME NEW g \in Frame, NEW kept \in SUBSET Uris, NextUri(c, g, kept), Within(c, g, kept)
        PROVE  Moves(c)
    <3>1. g.todo \cap Internal = {}
      <4>1. pc[c] \in {"begin", "policy", "load", "have"} /\ arg[c].op = "reconnect"
        BY <1>4, ReconnectCases
      <4> QED BY <2>1, <4>1 DEF Within, LInv, OpenRequests
    <3>2. ASSUME NEW u \in g.todo, Goto(c, "policy", [g EXCEPT !.uri = u, !.todo = @ \ {u}])
          PROVE  Moves(c)
      <4> DEFINE f == [g EXCEPT !.uri = u, !.todo = @ \ {u}]
      <4>1. f.uri \notin Internal /\ f.todo \cap Internal = {}
        BY <3>1 DEF Frame
      <4> HIDE DEF f
      <4>2. Goto(c, "policy", f)
        BY <3>2 DEF f
      <4> QED BY <4>1, <4>2 DEF Moves, Opens
    <3>3. \/ \E u \in g.todo : Goto(c, "policy", [g EXCEPT !.uri = u, !.todo = @ \ {u}])
          \/ Settle(c, "done")
      BY <2>1 DEF NextUri
    <3> QED BY <3>2, <3>3, SettleMoves DEF Settled
  <2> QED BY <1>2, <1>4, <2>1, ReconnectCases, SettleMoves DEF Settled
<1> QED BY <1>1, <1>3, <1>4

\* The turns of a commit concern neither subscribe nor reconnect.
LEMMA CommitMoves ==
  ASSUME NEW c \in Calls,
         \/ Dispatch(c) \/ DispatchFrom(c)
         \/ Enter(c) \/ Authorized(c) \/ Persisted(c) \/ Sequenced(c)
  PROVE  Moves(c)
<1>1. \/ \E label \in {"queued", "authorizing", "persisting", "sequencing", "running"} : \E f :
             Goto(c, label, f)
      \/ Settle(c, "failed") \/ Settle(c, "done")
  BY DEF Dispatch, DispatchFrom, Queue, Enter, Authorized, Persisted, Sequenced, Reduce, Abandon,
         Reject, Accept, Sequence, Publish
<1> QED BY <1>1, GotoMoves, SettleMoves DEF Settled

\* subscribe and reconnect keep to the routes a connection can reach.
LEMMA OpenKept ==
  ASSUME IInv, LInv, [Next]_vars
  PROVE  OpenRequests'
<1>1. TypeOK /\ OpenRequests
  BY DEF IInv, LInv
<1>2. CASE UNCHANGED callVars
  BY <1>1, <1>2 DEF OpenRequests, callVars
<1>3. ASSUME NEW c \in Calls, NEW d \in Calls, UNCHANGED frame,
             \/ pc' = [pc EXCEPT ![d] = "begin"]
             \/ pc' = [pc EXCEPT ![c] = "awaiting", ![d] = "begin"],
             \E r : arg' = [arg EXCEPT ![d] = r]
      PROVE  OpenRequests'
  BY <1>1, <1>3 DEF OpenRequests, TypeOK, CallTypes
<1>4. ASSUME NEW c \in Calls, Issue(c)
      PROVE  OpenRequests'
  BY <1>3, <1>4 DEF Issue
<1>5. ASSUME NEW c \in Calls, Run(c)
      PROVE  OpenRequests'
  <2>1. CASE Settle(c, "done") \/ Settle(c, "failed")
    BY <1>1, <2>1, SettleMoves, MovesOpen DEF Settled
  <2>2. ASSUME NEW d \in Calls, NEW r, pc' = [pc EXCEPT ![c] = "awaiting", ![d] = "begin"],
               arg' = [arg EXCEPT ![d] = r], frame' = [frame EXCEPT ![c].child = d]
        PROVE  OpenRequests'
    <3>1. pc'[d] = "begin" /\ pc'[c] \in {"begin", "awaiting"}
      BY <1>1, <2>2 DEF TypeOK, CallTypes
    <3>2. \A b \in Calls \ {c, d} : pc'[b] = pc[b] /\ arg'[b] = arg[b] /\ frame'[b] = frame[b]
      BY <1>1, <2>2 DEF TypeOK, CallTypes
    <3> QED BY <1>1, <3>1, <3>2 DEF OpenRequests
  <2> QED BY <1>5, <2>1, <2>2 DEF Run
<1>6. ASSUME NEW c \in Calls, Resume(c)
      PROVE  OpenRequests'
  BY <1>1, <1>5, <1>6, BeginMoves, LoadMoves, SubscribeMoves, CommitMoves, MovesOpen DEF Resume
<1>7. CASE Crash
  BY <1>7 DEF Crash, OpenRequests
<1>8. CASE \/ Hydrate \/ UNCHANGED vars
           \/ \E h \in Conns : Connect(h) \/ Disconnect(h)
           \/ \E h \in Conns, u \in Uris : Unsubscribe(h, u)
  BY <1>2, <1>8 DEF Hydrate, Connect, Disconnect, Unsubscribe, vars
<1> QED BY <1>4, <1>6, <1>7, <1>8 DEF Next

\* A hub that was just built has no links.
LEMMA LinkInit == Init => LInv
BY DEF Init, LInv, OneLinkPerClient, StaleHasNothing, InternalHidden, OpenRequests, RingIsTail,
       Live, Positions, IsAction

\* The invariant about links is inductive, given the one about the mutex.
LEMMA LinkHolds == IInv /\ LInv /\ [Next]_vars => LInv'
BY StepLinks, LinksKept, OpenKept, TailKept DEF LInv

\* Both invariants hold in every state of the hub (connect, #link, reconnect, ReplayRing).
THEOREM LinkInvariance == Spec => [](IInv /\ LInv)
BY InitHolds, StepHolds, LinkInit, LinkHolds, PTL DEF Spec

\* Two live links never share a client ID: connect() takes the older one down with its
\* subscriptions, or throws.
THEOREM OneLink == Spec => []OneLinkPerClient
<1>1. IInv /\ LInv => OneLinkPerClient
  BY DEF LInv
<1> QED BY <1>1, LinkInvariance, PTL

\* No connection follows an internal channel or is sent an envelope of one, by subscribe,
\* by reconnect, or by a policy that grants.
THEOREM InternalStaysHidden == Spec => []InternalHidden
<1>1. IInv /\ LInv => InternalHidden
  BY DEF LInv
<1> QED BY <1>1, LinkInvariance, PTL

\* A handle that was disconnected or replaced stays so, and no call that was running on
\* its behalf subscribes it or sends it anything.
THEOREM StaleStaysInert == Spec => StaleIsInert
<1>1. ASSUME IInv, LInv, [Next]_vars, NEW h \in Conns, link[h] = "gone"
      PROVE  link'[h] = "gone" /\ subs'[h] = {} /\ inbox'[h] = inbox[h]
  <2>1. ~Live(h) /\ subs[h] = {}
    BY <1>1 DEF LInv, StaleHasNothing, Live
  <2>2. CASE Ignores \/ Withdraws
    BY <1>1, <2>1, <2>2 DEF Ignores, Withdraws
  <2>3. CASE Announces
    <3>1. PICK m \in Message : Broadcast(m)
      BY <2>3 DEF Announces
    <3>2. PICK dead \in Dead(m.uri) :
            /\ inbox' = [g \in Conns |-> IF g \in Subscribers(m.uri) \ dead
                                         THEN Append(inbox[g], m) ELSE inbox[g]]
            /\ link' = [g \in Conns |-> IF g \in dead THEN "gone" ELSE link[g]]
            /\ subs' = [g \in Conns |-> IF g \in dead THEN {} ELSE subs[g]]
      BY <3>1 DEF Broadcast
    <3>3. h \notin Subscribers(m.uri)
      BY <2>1 DEF Subscribers
    <3> QED BY <1>1, <2>1, <3>2, <3>3
  <2>4. ASSUME NEW g \in Conns, Serves(g)
        PROVE  link'[h] = "gone" /\ subs'[h] = {} /\ inbox'[h] = inbox[h]
    <3>1. h # g
      BY <2>1, <2>4 DEF Serves
    <3> QED BY <1>1, <2>1, <2>4, <3>1 DEF Serves
  <2>5. ASSUME NEW g \in Conns, Connect(g)
        PROVE  link'[h] = "gone" /\ subs'[h] = {} /\ inbox'[h] = inbox[h]
    <3>1. h # g
      BY <1>1, <2>5 DEF Connect
    <3> QED BY <1>1, <2>1, <2>5, <3>1 DEF Connect, histVars
  <2> QED BY <1>1, <2>2, <2>3, <2>4, <2>5, StepLinks DEF LinkStep
<1>2. IInv /\ LInv /\ [Next]_vars =>
        [\A h \in Conns : link[h] = "gone" =>
           link'[h] = "gone" /\ subs'[h] = {} /\ inbox'[h] = inbox[h]]_vars
  BY <1>1
<1> QED BY <1>2, LinkInvariance, PTL DEF Spec, StaleIsInert

\* reconnect replays exactly the envelopes after lastSeen on the channels it resumed,
\* whatever the ring has dropped: it sends snapshots when the ring does not reach back.
THEOREM ReplaysAreExact == Spec => ReplayIsExact
<1> DEFINE Right == \A h \in Conns :
             LET m == Last(inbox'[h]) IN
             inbox'[h] # inbox[h] /\ m.kind = "replay" =>
               /\ m.resumed = subs'[h] /\ m.resumed \cap Internal = {}
               /\ m.actions = {log[i] : i \in {j \in DOMAIN log :
                                  log[j].uri \in m.resumed /\ log[j].seq > m.lastSeen}}
<1>1. ASSUME IInv, LInv, [Next]_vars, NEW h \in Conns, inbox'[h] # inbox[h],
             Last(inbox'[h]).kind = "replay"
      PROVE  Exact(Last(inbox'[h]), subs'[h])
  <2>1. inbox[h] \in Seq(Message)
    BY <1>1 DEF IInv, TypeOK, HistoryTypes
  <2>2. ASSUME NEW m \in Message, inbox'[h] = Append(inbox[h], m)
        PROVE  Last(inbox'[h]) = m
    BY <2>1, <2>2 DEF Last
  <2>3. CASE Announces
    <3>1. PICK m \in Message : m.kind \in {"action", "notification"} /\ Broadcast(m)
      BY <2>3 DEF Announces
    <3>2. inbox'[h] = Append(inbox[h], m)
      BY <1>1, <3>1 DEF Broadcast
    <3> QED BY <1>1, <2>2, <3>1, <3>2
  <2>4. ASSUME NEW g \in Conns, Serves(g)
        PROVE  Exact(Last(inbox'[h]), subs'[h])
    <3>1. h = g
      BY <1>1, <2>4 DEF Serves
    <3> QED BY <1>1, <2>2, <2>4, <3>1 DEF Serves
  <2>5. ASSUME Ignores \/ Withdraws \/ \E g \in Conns : Connect(g)
        PROVE  FALSE
    BY <1>1, <2>5 DEF Ignores, Withdraws, Connect, histVars
  <2> QED BY <1>1, <2>3, <2>4, <2>5, StepLinks DEF LinkStep
<1>2. IInv /\ LInv /\ [Next]_vars => [Right]_vars
  BY <1>1 DEF Exact
<1> QED BY <1>2, LinkInvariance, PTL DEF Spec, ReplayIsExact

-----------------------------------------------------------------------------
(* What states, snapshots and replays contain: a client's commits follow its order, a   *)
(* link that is resumed misses nothing, a mirror is what the log says, and the state in *)
(* memory and in the storage is the reduction of the log.                               *)

-----------------------------------------------------------------------------
(* What a call was asked for does not change once it was issued. *)

LEMMA RequestsStay ==
  ASSUME IInv, LInv, [Next]_vars
  PROVE  \A c \in Calls : pc[c] # "idle" => pc'[c] # "idle" /\ arg'[c] = arg[c]
<1> DEFINE Kept == \A c \in Calls : pc[c] # "idle" => pc'[c] # "idle" /\ arg'[c] = arg[c]
<1>1. TypeOK /\ OpenRequests
  BY DEF IInv, LInv
<1>2. CASE UNCHANGED <<pc, arg>>
  BY <1>2
<1>3. ASSUME NEW c \in Calls, Moves(c)
      PROVE  Kept
  BY <1>1, <1>3 DEF Moves, Goto, TypeOK, CallTypes
<1>4. ASSUME NEW c \in Calls, Issue(c)
      PROVE  Kept
  BY <1>1, <1>4 DEF Issue, TypeOK, CallTypes
<1>5. ASSUME NEW c \in Calls, Run(c)
      PROVE  Kept
  <2>1. CASE Settle(c, "done") \/ Settle(c, "failed")
    BY <1>3, <2>1, SettleMoves DEF Settled
  <2>2. ASSUME NEW d \in Calls, NEW r, pc[d] = "idle", arg' = [arg EXCEPT ![d] = r],
               pc' = [pc EXCEPT ![c] = "awaiting", ![d] = "begin"]
        PROVE  Kept
    BY <1>1, <2>2 DEF TypeOK, CallTypes
  <2> QED BY <1>5, <2>1, <2>2 DEF Run
<1>6. ASSUME NEW c \in Calls, Resume(c)
      PROVE  Kept
  BY <1>1, <1>3, <1>5, <1>6, BeginMoves, LoadMoves, SubscribeMoves, CommitMoves DEF Resume
<1>7. CASE Crash
  BY <1>1, <1>7 DEF Crash, TypeOK, CallTypes
<1>8. CASE \/ Hydrate \/ UNCHANGED vars
           \/ \E h \in Conns : Connect(h) \/ Disconnect(h)
           \/ \E h \in Conns, u \in Uris : Unsubscribe(h, u)
  BY <1>2, <1>8 DEF Hydrate, Connect, Disconnect, Unsubscribe, vars, callVars
<1> QED BY <1>4, <1>6, <1>7, <1>8 DEF Next

\* Only dispatchFrom raises a watermark.
LEMMA MarksStay ==
  ASSUME [Next]_vars
  PROVE  UNCHANGED watermark \/ \E c \in Calls : DispatchFrom(c)
<1>1. ASSUME NEW c \in Calls,
             \/ Refused(c) \/ StatelessRefused(c) \/ BeginLookup(c) \/ BeginPolicy(c)
             \/ BeginHandler(c) \/ Notify(c) \/ Load(c) \/ LoadMissing(c) \/ LoadFailed(c)
             \/ LinkLost(c) \/ SubscribeDenied(c) \/ SubscribeGranted(c) \/ Subscribe(c)
      PROVE  UNCHANGED watermark
  BY <1>1 DEF Refused, StatelessRefused, BeginLookup, BeginPolicy, BeginHandler, Notify, Load,
              LoadMissing, LoadFailed, LinkLost, SubscribeDenied, SubscribeGranted, Subscribe,
              Broadcast, linkVars
<1>2. ASSUME NEW c \in Calls, BeginReconnect(c) \/ ReconnectPolicy(c) \/ ReconnectUri(c)
      PROVE  UNCHANGED watermark
  BY <1>2 DEF BeginReconnect, ReconnectPolicy, ReconnectUri, NextUri, linkVars
<1>3. ASSUME NEW c \in Calls,
             \/ Dispatch(c) \/ DispatchDuplicate(c)
             \/ Enter(c) \/ Authorized(c) \/ Persisted(c) \/ Sequenced(c)
      PROVE  UNCHANGED watermark
  BY <1>3 DEF Dispatch, DispatchDuplicate, Enter, Authorized, Persisted, Sequenced, Reduce, Accept,
              Reject, Abandon, Sequence, Publish, Broadcast, linkVars
<1>4. ASSUME NEW c \in Calls,
             \/ Exec(c) \/ ExecPolicy(c) \/ Run(c) \/ Awaited(c) \/ Get(c) \/ BeginCreate(c)
             \/ Create(c) \/ Created(c) \/ Destroy(c) \/ Destroyed(c) \/ Issue(c)
      PROVE  UNCHANGED watermark
  BY <1>4 DEF Exec, ExecPolicy, Run, Awaited, Get, BeginCreate, Create, Created, Destroy, Destroyed,
              Issue, linkVars
<1>5. CASE \/ Hydrate \/ Crash \/ UNCHANGED vars
           \/ \E h \in Conns : Connect(h) \/ Disconnect(h)
           \/ \E h \in Conns, u \in Uris : Unsubscribe(h, u)
  BY <1>5 DEF Hydrate, Crash, Connect, Disconnect, Unsubscribe, vars, linkVars
<1> QED BY <1>1, <1>2, <1>3, <1>4, <1>5 DEF Next, Resume

\* How a step moves calls through the queue and into the log.
Joins(c)   == (Dispatch(c) \/ DispatchFrom(c)) /\ lock' = Append(lock, c) /\ log' = log
Leaves(c)  == HoldsLock(c) /\ Release /\ (log' = log \/ log' = Append(log, EnvelopeOf(c)))
Empties    == lock' = << >> /\ log' = log
LineStays  == UNCHANGED <<lock, log>>

LEMMA LineSteps ==
  ASSUME IInv, [Next]_vars
  PROVE  LineStays \/ Empties \/ \E c \in Calls : Joins(c) \/ Leaves(c)
<1>1. CASE Outside \/ Hydrate
  BY <1>1 DEF Outside, Hydrate, LineStays, histVars
<1>2. CASE Crash
  BY <1>2 DEF Crash, Empties, histVars
<1>3. ASSUME NEW c \in Calls, Dispatch(c) \/ DispatchFrom(c)
      PROVE  LineStays \/ Joins(c)
  <2>1. log' = log
    BY <1>3 DEF Dispatch, DispatchFrom, histVars
  <2>2. Queue(c, frame[c]) \/ UNCHANGED lock
    BY <1>3 DEF Dispatch, DispatchFrom
  <2> QED BY <1>3, <2>1, <2>2 DEF Queue, Joins, LineStays
<1>4. ASSUME NEW c \in Calls, Enter(c) \/ Authorized(c) \/ Persisted(c) \/ Sequenced(c)
      PROVE  LineStays \/ Leaves(c)
  <2>1. HoldsLock(c)
    BY <1>4 DEF Enter, Authorized, Persisted, Sequenced, HoldsLock, Locked, IInv, Mutex,
                CommitsExclude
  <2>2. CASE Abandon(c)
    BY <2>1, <2>2 DEF Abandon, Leaves, histVars
  <2>3. CASE Publish(c)
    BY <2>1, <2>3 DEF Publish, Leaves
  <2>4. CASE UNCHANGED <<lock, histVars>>
    BY <2>4 DEF LineStays, histVars
  <2>5. CASE Accept(c) \/ Reject(c) \/ \E f : Sequence(c, f)
    BY <2>5 DEF Accept, Reject, Sequence, LineStays, histVars
  <2> QED BY <1>4, <2>2, <2>3, <2>4, <2>5 DEF Enter, Authorized, Persisted, Sequenced, Reduce
<1> QED BY <1>1, <1>2, <1>3, <1>4, StepCases

-----------------------------------------------------------------------------
(* dispatchFrom: the watermark of a link orders its calls, from the queue to the log. *)

\* Request a comes before request b of the same link.
Before(a, b) == a.conn # None /\ a.conn = b.conn => a.clientSeq < b.clientSeq

\* The link has accepted the sequence of this request.
Marked(a, marks) == a.conn # None => a.clientSeq <= marks[a.conn]

Waiting(i) == arg[lock[i]]
Logged(i)  == arg[log[i].call]

ClientInv ==
  /\ \A i \in DOMAIN log : pc[log[i].call] # "idle"
  /\ \A i \in DOMAIN lock : Marked(Waiting(i), watermark)
  /\ \A i \in DOMAIN log : Marked(Logged(i), watermark)
  /\ \A i, j \in DOMAIN lock : i < j => Before(Waiting(i), Waiting(j))
  /\ \A i \in DOMAIN log, j \in DOMAIN lock : Before(Logged(i), Waiting(j))
  /\ \A i, j \in DOMAIN log : i < j => Before(Logged(i), Logged(j))

\* Watermarks only rise.
LEMMA MarkedStays ==
  ASSUME IInv, [Next]_vars, NEW a \in Requests, Marked(a, watermark)
  PROVE  Marked(a, watermark')
<1>1. a \in Request /\ (a.conn # None => a.conn \in Conns)
  BY HubAssumption DEF Request
<1>2. ASSUME NEW c \in Calls, DispatchFrom(c)
      PROVE  Marked(a, watermark')
  <2>1. arg[c] \in Request /\ arg[c].conn \in Conns
    BY <1>2, RequestOf DEF DispatchFrom, Has, IInv, TypeOK
  <2>2. watermark' = [watermark EXCEPT ![arg[c].conn] = arg[c].clientSeq]
        /\ ~ (arg[c].clientSeq <= watermark[arg[c].conn])
    BY <1>2 DEF DispatchFrom, Duplicate
  <2>3. /\ watermark \in [Conns -> Nat] /\ arg[c].clientSeq \in Nat /\ a.clientSeq \in Nat
    BY <1>1, <2>1 DEF IInv, TypeOK, HubTypes, Request
  <2> QED BY <1>1, <2>1, <2>2, <2>3 DEF Marked
<1> QED BY <1>1, <1>2, MarksStay DEF Marked

\* A call that joins the queue comes after all that are there.
LEMMA JoinsAfter ==
  ASSUME IInv, NEW c \in Calls, Joins(c)
  PROVE  /\ \A a \in Requests : Marked(a, watermark) => Before(a, arg[c])
         /\ Marked(arg'[c], watermark')
<1>1. pc[c] = "have" /\ arg[c] \in Request /\ arg' = arg
  BY RequestOf
  DEF Joins, Dispatch, DispatchFrom, Has, Queue, Settle, Goto, IInv, TypeOK
<1>2. CASE Dispatch(c)
  <2>1. arg[c].op = "dispatch"
    BY <1>2 DEF Dispatch, Has
  <2>2. arg[c].conn = None
    BY <1>1, <2>1, HubAssumption DEF IInv, TypeOK, CallTypes
  <2> QED BY <1>1, <2>2 DEF Before, Marked
<1>3. CASE DispatchFrom(c)
  <2>1. arg[c].conn \in Conns
    BY <1>1, <1>3, RequestOf DEF DispatchFrom, Has, IInv, TypeOK
  <2>2. watermark' = [watermark EXCEPT ![arg[c].conn] = arg[c].clientSeq]
        /\ ~ (arg[c].clientSeq <= watermark[arg[c].conn])
    BY <1>3 DEF DispatchFrom, Duplicate
  <2>3. /\ watermark \in [Conns -> Nat] /\ arg[c].clientSeq \in Nat
        /\ \A a \in Requests : a.clientSeq \in Nat
    BY <1>1, HubAssumption DEF IInv, TypeOK, HubTypes, Request
  <2> QED BY <1>1, <2>1, <2>2, <2>3 DEF Before, Marked
<1> QED BY <1>2, <1>3 DEF Joins

\* The first call of the queue, and the ones after it.
LEMMA TailIs ==
  ASSUME NEW S, NEW s \in Seq(S), s # << >>
  PROVE  /\ 1 \in DOMAIN s /\ Head(s) = s[1]
         /\ \A i \in DOMAIN Tail(s) : i \in Nat /\ i + 1 \in DOMAIN s /\ Tail(s)[i] = s[i + 1]
                                      /\ 1 < i + 1
<1>1. /\ DOMAIN s = 1..Len(s) /\ Len(s) \in Nat \ {0} /\ Head(s) = s[1]
      /\ DOMAIN Tail(s) = 1..(Len(s) - 1)
      /\ \A i \in 1..(Len(s) - 1) : Tail(s)[i] = s[i + 1]
  BY HeadTailProperties
<1> QED BY <1>1

\* What is appended comes after everything else.
LEMMA AppendIs ==
  ASSUME NEW S, NEW s \in Seq(S), NEW e
  PROVE  /\ DOMAIN s = 1..Len(s) /\ Len(s) \in Nat /\ DOMAIN Append(s, e) = 1..(Len(s) + 1)
         /\ Len(Append(s, e)) = Len(s) + 1
         /\ \A i \in DOMAIN s : i \in DOMAIN Append(s, e) /\ Append(s, e)[i] = s[i]
                                /\ i < Len(s) + 1
         /\ Append(s, e)[Len(s) + 1] = e
         /\ \A i \in DOMAIN Append(s, e) : i \in DOMAIN s \/ i = Len(s) + 1
OBVIOUS

LEMMA ClientInit == Init => ClientInv
BY DEF Init, ClientInv

LEMMA ClientHolds == IInv /\ LInv /\ ClientInv /\ [Next]_vars => ClientInv'
<1> SUFFICES ASSUME IInv, LInv, ClientInv, [Next]_vars PROVE ClientInv'
  OBVIOUS
<1>1. /\ lock \in Seq(Calls) /\ log \in Seq(Envelope)
      /\ \A i \in DOMAIN lock : lock[i] \in Calls
      /\ \A i \in DOMAIN log : log[i] \in Envelope /\ log[i].call \in Calls
  <2>1. \A i \in DOMAIN log : log[i] \in Envelope
    BY DEF IInv, TypeOK, HistoryTypes
  <2> QED BY <2>1 DEF IInv, TypeOK, HubTypes, HistoryTypes, Envelope
<1>2. \A i \in DOMAIN lock : pc[lock[i]] # "idle"
  <2>1. \A i \in DOMAIN lock : pc[lock[i]] \in Locked \cup {"queued"}
    BY <1>1 DEF IInv, Mutex, CommitsExclude
  <2> QED BY <2>1 DEF Locked
<1>3. /\ \A i \in DOMAIN lock : arg'[lock[i]] = Waiting(i) /\ Waiting(i) \in Requests
      /\ \A i \in DOMAIN log : /\ arg'[log[i].call] = Logged(i) /\ Logged(i) \in Requests
                               /\ pc'[log[i].call] # "idle"
  BY <1>1, <1>2, RequestsStay DEF ClientInv, Waiting, Logged, IInv, TypeOK, CallTypes
<1>4. /\ \A i \in DOMAIN lock : Marked(arg'[lock[i]], watermark')
      /\ \A i \in DOMAIN log : Marked(arg'[log[i].call], watermark')
  <2>1. \A a \in Requests : Marked(a, watermark) => Marked(a, watermark')
    BY MarkedStays
  <2> QED BY <1>3, <2>1 DEF ClientInv, Marked
<1>5. CASE LineStays
  BY <1>3, <1>4, <1>5 DEF LineStays, ClientInv, Waiting, Logged, Marked
<1>6. CASE Empties
  BY <1>3, <1>4, <1>6 DEF Empties, ClientInv, Waiting, Logged, Marked
<1>7. ASSUME NEW c \in Calls, Joins(c)
      PROVE  ClientInv'
  <2> DEFINE n == Len(lock) + 1
  <2>1. lock' = Append(lock, c) /\ log' = log /\ pc[c] # "idle"
    BY <1>7 DEF Joins, Dispatch, DispatchFrom, Has
  <2>2. arg'[c] = arg[c]
    BY <2>1, RequestsStay
  <2>3. /\ \A i \in DOMAIN lock : i \in DOMAIN lock' /\ lock'[i] = lock[i] /\ i < n
        /\ n \in DOMAIN lock' /\ lock'[n] = c /\ n \in Nat
        /\ \A i \in DOMAIN lock' : i \in DOMAIN lock \/ i = n
        /\ \A i \in DOMAIN lock : i \in Nat
    BY <1>1, <2>1, AppendIs
  <2> HIDE DEF n
  <2>4. /\ \A i \in DOMAIN lock : Before(Waiting(i), arg[c])
        /\ \A i \in DOMAIN log : Before(Logged(i), arg[c])
    BY <1>3, <1>7, JoinsAfter DEF ClientInv
  <2>5. Marked(arg'[c], watermark')
    BY <1>7, JoinsAfter
  <2>6. \A i \in DOMAIN lock' : Marked(Waiting(i)', watermark')
    BY <1>4, <2>3, <2>5 DEF Waiting, Marked
  <2>7. ASSUME NEW i \in DOMAIN lock', NEW j \in DOMAIN lock', i < j
        PROVE  Before(Waiting(i)', Waiting(j)')
    <3>1. i \in DOMAIN lock
      BY <2>3, <2>7
    <3>2. CASE j \in DOMAIN lock
      BY <1>3, <2>3, <2>7, <3>1, <3>2 DEF ClientInv, Waiting
    <3>3. CASE j = n
      BY <1>3, <2>2, <2>3, <2>4, <3>1, <3>3 DEF Waiting
    <3> QED BY <2>3, <3>2, <3>3
  <2>8. ASSUME NEW i \in DOMAIN log', NEW j \in DOMAIN lock'
        PROVE  Before(Logged(i)', Waiting(j)')
    BY <1>3, <2>1, <2>2, <2>3, <2>4 DEF ClientInv, Waiting, Logged
  <2> QED BY <1>3, <1>4, <2>1, <2>6, <2>7, <2>8 DEF ClientInv, Logged, Waiting, Marked
<1>8. ASSUME NEW c \in Calls, Leaves(c)
      PROVE  ClientInv'
  <2>1. /\ lock # << >> /\ lock' = Tail(lock) /\ Head(lock) = c
        /\ log' = log \/ log' = Append(log, EnvelopeOf(c))
    BY <1>8 DEF Leaves, Release, HoldsLock
  <2>2. /\ 1 \in DOMAIN lock /\ lock[1] = c
        /\ \A i \in DOMAIN lock' : i \in Nat /\ i + 1 \in DOMAIN lock /\ lock'[i] = lock[i + 1]
                                   /\ 1 < i + 1
    BY <1>1, <2>1, TailIs
  <2>3. /\ \A i \in DOMAIN lock' : Marked(Waiting(i)', watermark') /\ Before(arg'[c], Waiting(i)')
        /\ \A i, j \in DOMAIN lock' : i < j => Before(Waiting(i)', Waiting(j)')
        /\ \A i \in DOMAIN log, j \in DOMAIN lock' : Before(arg'[log[i].call], Waiting(j)')
        /\ \A i \in DOMAIN log : Before(arg'[log[i].call], arg'[c])
        /\ Marked(arg'[c], watermark') /\ pc'[c] # "idle"
    <3>1. \A i \in DOMAIN lock' : Waiting(i)' = Waiting(i + 1)
      BY <1>3, <2>2 DEF Waiting
    <3>2. arg'[c] = Waiting(1) /\ pc'[c] # "idle"
      BY <1>2, <1>3, <2>2, RequestsStay DEF Waiting
    <3>3. \A i, j \in DOMAIN lock' : i < j => i + 1 < j + 1
      BY <2>2
    <3>4. Marked(arg'[c], watermark') /\ \A i \in DOMAIN lock' : Marked(Waiting(i)', watermark')
      BY <1>4, <2>2 DEF Waiting, Marked
    <3> QED BY <1>3, <2>2, <3>1, <3>2, <3>3, <3>4 DEF ClientInv
  <2>4. CASE log' = log
    BY <1>3, <1>4, <2>3, <2>4 DEF ClientInv, Logged, Waiting, Marked
  <2>5. CASE log' = Append(log, EnvelopeOf(c))
    <3> DEFINE n == Len(log) + 1
    <3>1. /\ \A i \in DOMAIN log : i \in DOMAIN log' /\ log'[i] = log[i] /\ i < n
          /\ n \in DOMAIN log' /\ log'[n] = EnvelopeOf(c) /\ n \in Nat
          /\ \A i \in DOMAIN log' : i \in DOMAIN log \/ i = n
          /\ \A i \in DOMAIN log : i \in Nat
      BY <1>1, <2>5, AppendIs
    <3>2. EnvelopeOf(c).call = c
      BY DEF EnvelopeOf
    <3> HIDE DEF n
    <3>3. \A i \in DOMAIN log' : pc'[log'[i].call] # "idle" /\ Marked(Logged(i)', watermark')
      BY <1>3, <1>4, <2>3, <3>1, <3>2 DEF Logged, Marked
    <3>4. \A i \in DOMAIN log', j \in DOMAIN lock' : Before(Logged(i)', Waiting(j)')
      BY <2>3, <3>1, <3>2 DEF Logged
    <3>5. ASSUME NEW i \in DOMAIN log', NEW j \in DOMAIN log', i < j
          PROVE  Before(Logged(i)', Logged(j)')
      <4>1. i \in DOMAIN log
        BY <3>1, <3>5
      <4>2. CASE j \in DOMAIN log
        BY <1>3, <3>1, <3>5, <4>1, <4>2 DEF ClientInv, Logged
      <4>3. CASE j = n
        BY <2>3, <3>1, <3>2, <4>1, <4>3 DEF Logged
      <4> QED BY <3>1, <4>2, <4>3
    <3> QED BY <2>3, <3>3, <3>4, <3>5 DEF ClientInv, Logged, Waiting, Marked
  <2> QED BY <2>1, <2>4, <2>5
<1> QED BY <1>5, <1>6, <1>7, <1>8, LineSteps

-----------------------------------------------------------------------------
(* Reducing messages into a state. *)

\* f is the reduction, step by step.
Reduces(f, start, messages, which) ==
  /\ f \in [0..Len(messages) -> State]
  /\ Applied(start, messages, which) = f[Len(messages)]
  /\ f[0] = start
  /\ \A i \in 1..Len(messages) :
       f[i] = IF i \in which THEN Append(f[i - 1], messages[i].call) ELSE f[i - 1]

LEMMA AppliedIs ==
  ASSUME NEW start \in State, NEW M, NEW messages \in Seq(M), NEW which,
         \A i \in DOMAIN messages : i \in which => messages[i].call \in Calls
  PROVE  \E f : Reduces(f, start, messages, which)
<1> DEFINE l == Len(messages)
           Is(f) == f = [i \in 0..l |->
                           IF i = 0 THEN start
                           ELSE IF i \in which THEN Append(f[i - 1], messages[i].call) ELSE f[i - 1]]
           f == CHOOSE f : Is(f)
<1>1. Applied(start, messages, which) = f[l]
  BY DEF Applied
<1>2. l \in Nat /\ DOMAIN messages = 1..l
  OBVIOUS
<1>3. \A i \in 1..l : i \in which => messages[i].call \in Calls
  BY <1>2
<1> HIDE DEF l
<1>4. Is(f) /\ f \in [0..l -> State]
  <2> DEFINE step == [i \in 1..l |-> [s \in State |->
                        IF i \in which THEN Append(s, messages[i].call) ELSE s]]
  <2>1. step \in [1..l -> [State -> State]]
    BY <1>3 DEF State
  <2>2. \A i \in 1..l, s \in State :
          step[i][s] = IF i \in which THEN Append(s, messages[i].call) ELSE s
    OBVIOUS
  <2> HIDE DEF step
  <2>3. PICK g \in [0..l -> State] : g[0] = start /\ \A i \in 1..l : g[i] = step[i][g[i - 1]]
    <3> HIDE DEF f, Is
    <3>1. start \in State
      OBVIOUS
    <3>2. \E g \in [0..l -> State] : Recurs(g, start, l, step)
      BY ONLY <1>2, <2>1, <3>1, Recursion
    <3> QED BY <3>2 DEF Recurs
  <2>4. ASSUME NEW i \in 0..l
        PROVE  g[i] = IF i = 0 THEN start
                      ELSE IF i \in which THEN Append(g[i - 1], messages[i].call) ELSE g[i - 1]
    <3>1. CASE i = 0
      BY <2>3, <3>1
    <3>2. CASE i # 0
      <4>1. i \in 1..l /\ i - 1 \in 0..l
        BY <1>2, <3>2
      <4> QED BY <2>2, <2>3, <3>2, <4>1
    <3> QED BY <3>1, <3>2
  <2>5. Is(g)
    BY <2>3, <2>4
  <2>6. \A h : Is(h) => h \in [0..l -> State]
    <3>1. ASSUME NEW h, Is(h)
          PROVE  h = g
      <4> DEFINE S == {k \in Nat : k <= l => h[k] = g[k]}
      <4>1. DOMAIN h = 0..l /\ DOMAIN g = 0..l /\ h = [i \in DOMAIN h |-> h[i]]
        BY <3>1
      <4>2. /\ h[0] = start
            /\ \A i \in 1..l : h[i] = IF i \in which THEN Append(h[i - 1], messages[i].call)
                                                     ELSE h[i - 1]
        <5>1. 0 \in 0..l /\ \A i \in 1..l : i \in 0..l /\ i # 0
          BY <1>2
        <5> QED BY <3>1, <5>1
      <4>3. 0 \in S
        BY <2>3, <4>2
      <4>4. ASSUME NEW k \in Nat, k \in S
            PROVE  k + 1 \in S
        <5> SUFFICES ASSUME k + 1 <= l PROVE h[k + 1] = g[k + 1]
          OBVIOUS
        <5>1. k <= l /\ k + 1 \in 1..l /\ k + 1 \in 0..l /\ k + 1 # 0 /\ (k + 1) - 1 = k
          BY <1>2
        <5>2. h[k] = g[k]
          BY <4>4, <5>1
        <5> HIDE DEF Is
        <5> QED BY <2>4, <4>2, <5>1, <5>2
      <4> HIDE DEF S
      <4>5. Nat \subseteq S
        BY <4>3, <4>4, Induction
      <4>6. \A i \in 0..l : h[i] = g[i]
        BY <4>5 DEF S
      <4> HIDE DEF Is
      <4> QED BY <2>3, <4>1, <4>6
    <3> HIDE DEF Is
    <3> QED BY <2>3, <3>1
  <2> HIDE DEF Is
  <2> QED BY <2>5, <2>6
<1>5. f[0] = start /\ \A i \in 1..l : f[i] = IF i \in which THEN Append(f[i - 1], messages[i].call)
                                             ELSE f[i - 1]
  <2>1. 0 \in 0..l /\ \A i \in 1..l : i \in 0..l /\ i # 0
    BY <1>2
  <2> HIDE DEF f
  <2> QED BY <1>4, <2>1
<1> HIDE DEF f, Is
<1>6. Reduces(f, start, messages, which)
  BY <1>1, <1>4, <1>5 DEF l, Reduces
<1> QED BY <1>6

\* The reduction is a state.
LEMMA AppliedTyped ==
  ASSUME NEW start \in State, NEW M, NEW messages \in Seq(M), NEW which,
         \A i \in DOMAIN messages : i \in which => messages[i].call \in Calls
  PROVE  Applied(start, messages, which) \in State
<1>1. Len(messages) \in Nat
  OBVIOUS
<1>2. PICK f : Reduces(f, start, messages, which)
  BY AppliedIs
<1> QED BY <1>1, <1>2 DEF Reduces

\* Two reductions that agree on a prefix.
LEMMA AppliedAppended ==
  ASSUME NEW start \in State, NEW M, NEW messages \in Seq(M), NEW e \in M, NEW which, NEW more,
         \A i \in DOMAIN messages : i \in which => messages[i].call \in Calls,
         \A i \in DOMAIN messages : i \in which <=> i \in more,
         Len(messages) + 1 \in more => e.call \in Calls
  PROVE  Applied(start, Append(messages, e), more) =
           IF Len(messages) + 1 \in more THEN Append(Applied(start, messages, which), e.call)
                                         ELSE Applied(start, messages, which)
<1> DEFINE l == Len(messages)
           longer == Append(messages, e)
<1>1. /\ l \in Nat /\ Len(longer) = l + 1 /\ longer \in Seq(M) /\ DOMAIN messages = 1..l
      /\ DOMAIN longer = 1..(l + 1) /\ longer[l + 1] = e
      /\ \A i \in 1..l : longer[i] = messages[i]
  OBVIOUS
<1> HIDE DEF l, longer
<1>2. PICK f : Reduces(f, start, messages, which)
  BY AppliedIs
<1>3. \A i \in DOMAIN longer : i \in more => longer[i].call \in Calls
  BY <1>1 DEF l
<1>4. PICK g : Reduces(g, start, longer, more)
  BY <1>1, <1>3, AppliedIs
<1> DEFINE S == {k \in Nat : k <= l => g[k] = f[k]}
<1>5. 0 \in S
  BY <1>2, <1>4 DEF Reduces
<1>6. ASSUME NEW k \in Nat, k \in S
      PROVE  k + 1 \in S
  <2> SUFFICES ASSUME k + 1 <= l PROVE g[k + 1] = f[k + 1]
    OBVIOUS
  <2>1. k <= l /\ k + 1 \in 1..l /\ k + 1 \in 1..(l + 1) /\ (k + 1) - 1 = k
    BY <1>1
  <2>2. g[k] = f[k] /\ longer[k + 1] = messages[k + 1] /\ (k + 1 \in which <=> k + 1 \in more)
    BY <1>1, <1>6, <2>1
  <2>3. g[k + 1] = IF k + 1 \in more THEN Append(g[k], longer[k + 1].call) ELSE g[k]
    BY <1>1, <1>4, <2>1 DEF Reduces
  <2>4. f[k + 1] = IF k + 1 \in which THEN Append(f[k], messages[k + 1].call) ELSE f[k]
    BY <1>2, <2>1 DEF Reduces, l
  <2> QED BY <2>2, <2>3, <2>4
<1> HIDE DEF S
<1>7. Nat \subseteq S
  BY <1>5, <1>6, Induction
<1>8. g[l] = f[l]
  BY <1>1, <1>7 DEF S
<1>9. l + 1 \in 1..(l + 1) /\ (l + 1) - 1 = l
  BY <1>1
<1>10. g[l + 1] = IF l + 1 \in more THEN Append(g[l], longer[l + 1].call) ELSE g[l]
  BY <1>1, <1>4, <1>9 DEF Reduces
<1> QED BY <1>1, <1>2, <1>4, <1>8, <1>10 DEF l, longer, Reduces

\* Reducing nothing.
LEMMA AppliedNothing ==
  ASSUME NEW start \in State, NEW M, NEW messages \in Seq(M), NEW which,
         \A i \in DOMAIN messages : i \notin which
  PROVE  Applied(start, messages, which) = start
<1> DEFINE l == Len(messages)
<1>1. l \in Nat /\ DOMAIN messages = 1..l
  OBVIOUS
<1> HIDE DEF l
<1>2. PICK f : Reduces(f, start, messages, which)
  <2>1. \A i \in DOMAIN messages : i \in which => messages[i].call \in Calls
    OBVIOUS
  <2> QED BY <2>1, AppliedIs
<1> DEFINE S == {k \in Nat : k <= l => f[k] = start}
<1>3. 0 \in S
  BY <1>2 DEF Reduces
<1>4. ASSUME NEW k \in Nat, k \in S
      PROVE  k + 1 \in S
  <2> SUFFICES ASSUME k + 1 <= l PROVE f[k + 1] = start
    OBVIOUS
  <2>1. k <= l /\ k + 1 \in 1..l /\ (k + 1) - 1 = k
    BY <1>1
  <2>2. f[k] = start /\ k + 1 \notin which
    BY <1>1, <1>4, <2>1
  <2>3. f[k + 1] = IF k + 1 \in which THEN Append(f[k], messages[k + 1].call) ELSE f[k]
    BY <1>2, <2>1 DEF Reduces, l
  <2> QED BY <2>2, <2>3
<1> HIDE DEF S
<1>5. Nat \subseteq S
  BY <1>3, <1>4, Induction
<1> QED BY <1>1, <1>2, <1>5 DEF S, Reduces, l

\* The reduction of a longer log.
LEMMA AsOfAppended ==
  ASSUME NEW s \in Seq(Envelope), NEW e \in Envelope, NEW u, NEW n
  PROVE  /\ AsOf(s, u, n) \in State
         /\ AsOf(Append(s, e), u, n) = IF e.uri = u /\ e.accepted /\ e.seq <= n
                                       THEN Append(AsOf(s, u, n), e.call) ELSE AsOf(s, u, n)
<1> DEFINE W(t) == {i \in DOMAIN t : t[i].uri = u /\ t[i].accepted /\ t[i].seq <= n}
           l == Len(s)
           t == Append(s, e)
<1>1. << >> \in State
  BY DEF State
<1>2. \A i \in DOMAIN s : s[i].call \in Calls
  <2>1. \A i \in DOMAIN s : s[i] \in Envelope
    OBVIOUS
  <2> QED BY <2>1 DEF Envelope
<1>3. e.call \in Calls
  BY DEF Envelope
<1>4. /\ DOMAIN s = 1..l /\ l \in Nat /\ DOMAIN t = 1..(l + 1) /\ l + 1 \notin 1..l
      /\ t[l + 1] = e /\ \A i \in 1..l : t[i] = s[i]
  OBVIOUS
<1> HIDE DEF l, t
<1>5. \A i \in DOMAIN s : i \in W(s) <=> i \in W(t)
  BY <1>4
<1>6. l + 1 \in W(t) <=> e.uri = u /\ e.accepted /\ e.seq <= n
  BY <1>4
<1>7. AsOf(s, u, n) = Applied(<< >>, s, W(s)) /\ AsOf(t, u, n) = Applied(<< >>, t, W(t))
  BY DEF AsOf
<1> HIDE DEF W
<1>8. Applied(<< >>, s, W(s)) \in State
  BY <1>1, <1>2, AppliedTyped
<1>9. Applied(<< >>, t, W(t)) =
        IF l + 1 \in W(t) THEN Append(Applied(<< >>, s, W(s)), e.call) ELSE Applied(<< >>, s, W(s))
  BY <1>1, <1>2, <1>3, <1>5, AppliedAppended DEF l, t
<1> QED BY <1>6, <1>7, <1>8, <1>9 DEF t

LEMMA AsOfTyped ==
  ASSUME NEW s \in Seq(Envelope), NEW u, NEW n
  PROVE  AsOf(s, u, n) \in State
<1>1. << >> \in State
  BY DEF State
<1>2. \A i \in DOMAIN s : s[i].call \in Calls
  <2>1. \A i \in DOMAIN s : s[i] \in Envelope
    OBVIOUS
  <2> QED BY <2>1 DEF Envelope
<1> QED BY <1>1, <1>2, AppliedTyped DEF AsOf

\* An empty log reduces to the initial state.
LEMMA AsOfEmpty ==
  ASSUME NEW u, NEW n
  PROVE  AsOf(<< >>, u, n) = << >>
<1>1. << >> \in State /\ << >> \in Seq(Envelope) /\ DOMAIN << >> = {}
  BY DEF State
<1>2. \A W : Applied(<< >>, << >>, W) = << >>
  BY <1>1, AppliedNothing
<1> QED BY <1>2 DEF AsOf

\* Two horizons with no sequence between them show the same.
LEMMA AsOfSame ==
  ASSUME NEW s \in Seq(Envelope), NEW u, NEW m, NEW n,
         \A i \in DOMAIN s : s[i].seq <= m <=> s[i].seq <= n
  PROVE  AsOf(s, u, m) = AsOf(s, u, n)
<1>1. {i \in DOMAIN s : s[i].uri = u /\ s[i].accepted /\ s[i].seq <= m}
        = {i \in DOMAIN s : s[i].uri = u /\ s[i].accepted /\ s[i].seq <= n}
  OBVIOUS
<1> QED BY <1>1 DEF AsOf

-----------------------------------------------------------------------------
(* What the calls hold: channels with a state, and what the writes left behind. *)

\* No write of the storage fails.
WritesSucceed == "write" \notin Faults

\* A process that does not die, whose channels are hydrated, and are neither created nor
\* destroyed: the setting in which a state is expected to be the reduction of the log.
Calm ==
  /\ WritesSucceed /\ "crash" \notin Faults
  /\ Uris \ Stateless \subseteq Warm
  /\ \A r \in Requests : r.op \notin {"create", "destroy"}

\* What a call holds at a label.
Holds(label, f) ==
  /\ label \in Holding \cup {"load"} => f.uri \notin Stateless
  /\ \A u \in Uris : f.ref[u] # None => u \notin Stateless
  /\ WritesSucceed => f.wrote
  /\ Calm => /\ label \notin {"load", "creating", "storing", "deleting"}
             /\ \A u \in Uris : f.ref[u] \in {None, Host}

CallInv ==
  /\ \A c \in Calls : Holds(pc[c], frame[c])
  /\ Calm => \A u \in Uris \ Stateless : instances[u] = Host

\* A turn moves its call to where it holds what it should.
Turns(c) == \E label, f : Goto(c, label, f) /\ Holds(label, f)

LEMMA SettleTurns ==
  ASSUME NEW c \in Calls, NEW label \in Settled \cup {"running"}, Goto(c, label, Blank)
  PROVE  Turns(c)
<1>1. Holds(label, Blank)
  BY DEF Holds, Blank, Settled, Holding, Locked
<1> QED BY <1>1 DEF Turns

\* A call that keeps its frame, and goes where its channel may be of either kind or was known.
LEMMA KeepTurns ==
  ASSUME NEW c \in Calls, Holds(pc[c], frame[c]), NEW f \in Frame, NEW label, Goto(c, label, f),
         frame[c] \in Frame, f.ref = frame[c].ref, WritesSucceed => f.wrote,
         \/ label \notin Holding \cup {"load", "creating", "storing", "deleting"}
         \/ label \in Locked \cup {"queued"} /\ pc[c] \in Holding /\ f.uri = frame[c].uri
  PROVE  Turns(c)
<1>1. Holds(label, f)
  BY DEF Holds, Holding, Locked
<1> QED BY <1>1 DEF Turns

LEMMA LookupTurns ==
  ASSUME TypeOK, CallInv, NEW c \in Calls, NEW f \in Frame, Lookup(c, f), f.uri \in Uris \ Stateless,
         \A u \in Uris : f.ref[u] # None => u \notin Stateless,
         WritesSucceed => f.wrote, Calm => \A u \in Uris : f.ref[u] \in {None, Host}
  PROVE  Turns(c)
<1> DEFINE g == [f EXCEPT !.ref[f.uri] = instances[f.uri]]
           k == [f EXCEPT !.loaded = storage[f.uri]]
<1>1. /\ g.uri = f.uri /\ g.wrote = f.wrote
      /\ \A u \in Uris : g.ref[u] = IF u = f.uri THEN instances[f.uri] ELSE f.ref[u]
      /\ k.uri = f.uri /\ k.wrote = f.wrote /\ k.ref = f.ref
  BY DEF Frame
<1>2. CASE instances[f.uri] # None /\ Goto(c, "have", g)
  <2>1. Holds("have", g)
    <3> HIDE DEF g
    <3> QED BY <1>1 DEF Holds, CallInv
  <2> HIDE DEF g
  <2> QED BY <1>2, <2>1 DEF Turns
<1>3. CASE instances[f.uri] = None /\ Goto(c, "load", k)
  <2>1. ~Calm
    <3>1. Host # None
      BY HubAssumption
    <3> QED BY <1>3, <3>1 DEF CallInv
  <2>2. Holds("load", k)
    <3> HIDE DEF k
    <3> QED BY <1>1, <2>1 DEF Holds
  <2> HIDE DEF k
  <2> QED BY <1>3, <2>2 DEF Turns
<1> QED BY <1>2, <1>3 DEF Lookup

\* What a turn of reconnect goes on with.
Continues(c, g, kept) ==
  /\ WritesSucceed => g.wrote
  /\ \/ pc[c] = "begin" /\ kept = {} /\ g.ref = [u \in Uris |-> None]
     \/ /\ pc[c] \in {"policy", "load", "have"} /\ g.ref = frame[c].ref
        /\ \A v \in kept : v \in subs[arg[c].conn] \/ v \in Stateless \/ g.ref[v] # None

\* ReconnectCases, with what becomes of the objects that were looked up.
LEMMA ReconnectTurns ==
  ASSUME TypeOK, CallInv, NEW c \in Calls,
         BeginReconnect(c) \/ ReconnectPolicy(c) \/ ReconnectUri(c)
  PROVE  \/ /\ Live(arg[c].conn)
            /\ \E g \in Frame, kept \in SUBSET Uris : NextUri(c, g, kept) /\ Continues(c, g, kept)
         \/ /\ pc[c] = "policy" /\ frame[c].uri \in Uris \ Stateless /\ Lookup(c, frame[c])
            /\ UNCHANGED <<seqVars, lock, ring, linkVars, storeVars, histVars>>
         \/ /\ ~Live(arg[c].conn) /\ Settle(c, "failed")
            /\ UNCHANGED <<seqVars, lock, ring, linkVars, storeVars, histVars>>
<1> USE DEF TypeOK
<1> DEFINE f == frame[c]
           h == arg[c].conn
           Quiet == UNCHANGED <<seqVars, lock, ring, linkVars, storeVars, histVars>>
           On == /\ Live(h)
                 /\ \E g \in Frame, kept \in SUBSET Uris :
                      NextUri(c, g, kept) /\ Continues(c, g, kept)
           Looks == pc[c] = "policy" /\ f.uri \in Uris \ Stateless /\ Lookup(c, f) /\ Quiet
           Goal == On \/ Looks \/ (~Live(h) /\ Settle(c, "failed") /\ Quiet)
<1>1. arg[c] \in Request /\ h \in Conns /\ f \in Frame /\ subs[h] \in SUBSET Uris
  <2>1. pc[c] # "idle" /\ arg[c].op = "reconnect"
    BY DEF BeginReconnect, ReconnectPolicy, ReconnectUri, Begins, Has, Verdict
  <2> QED BY <2>1, RequestOf DEF CallTypes, HubTypes
<1>2. ASSUME NEW g \in Frame, NEW kept \in SUBSET Uris, NextUri(c, g, kept),
             Continues(c, g, kept), Live(h)
      PROVE  Goal
  BY <1>2
<1>3. WritesSucceed => f.wrote
  BY DEF CallInv, Holds
<1>4. CASE BeginReconnect(c)
  <2> DEFINE g == [Blank EXCEPT !.todo = Reachable(arg[c].uris),
                                !.missing = arg[c].uris \ Reachable(arg[c].uris)]
  <2>1. g \in Frame
    BY <1>1, BlankTyped DEF Frame, Request, Reachable
  <2>2. (Live(h) /\ NextUri(c, g, {})) \/ (~Live(h) /\ Settle(c, "failed") /\ Quiet)
    BY <1>4 DEF BeginReconnect
  <2>3. Continues(c, g, {})
    BY <1>4 DEF Continues, BeginReconnect, Begins, Blank
  <2>4. Goal
    <3> HIDE DEF g
    <3> QED BY <1>2, <2>1, <2>2, <2>3
  <2> QED BY <2>4
<1> DEFINE missing == [f EXCEPT !.missing = @ \cup {f.uri}]
           more == subs[h] \cup {f.uri}
<1>5. ASSUME pc[c] \in {"policy", "load", "have"}
      PROVE  /\ f.uri \in Uris /\ missing \in Frame /\ more \in SUBSET Uris
             /\ Continues(c, missing, subs[h])
             /\ pc[c] = "have" \/ f.uri \in Stateless => Continues(c, f, more)
  <2>1. f.uri \in Uris
    BY <1>5 DEF CallTypes, WellPlaced, Placed, Holding
  <2>2. missing \in Frame /\ missing.ref = f.ref /\ missing.wrote = f.wrote
    BY <1>1, <2>1 DEF Frame
  <2>3. pc[c] = "have" => f.ref[f.uri] # None
    BY NoneIsNoCall DEF CallTypes, WellPlaced, Holding
  <2> HIDE DEF missing
  <2> QED BY <1>1, <1>3, <1>5, <2>1, <2>2, <2>3 DEF Continues
<1>6. CASE ReconnectPolicy(c)
  <2>1. pc[c] = "policy"
    BY <1>6 DEF ReconnectPolicy, Verdict
  <2>2. \/ Live(h) /\ NextUri(c, missing, subs[h])
        \/ Live(h) /\ f.uri \in Stateless /\ NextUri(c, f, more)
        \/ f.uri \notin Stateless /\ Lookup(c, f) /\ Quiet
    BY <1>6 DEF ReconnectPolicy, Verdict
  <2>3. Goal
    <3> HIDE DEF missing, more, Quiet
    <3> QED BY <1>1, <1>2, <1>5, <2>1, <2>2
  <2> QED BY <2>3
<1>7. CASE ReconnectUri(c)
  <2>1. pc[c] \in {"have", "load"}
    BY <1>7 DEF ReconnectUri, Has
  <2>2. \/ Live(h) /\ pc[c] = "have" /\ NextUri(c, f, more)
        \/ Live(h) /\ NextUri(c, missing, subs[h])
        \/ ~Live(h) /\ Settle(c, "failed") /\ Quiet
    BY <1>7 DEF ReconnectUri, Has
  <2>3. Goal
    <3> HIDE DEF missing, more, Quiet
    <3> QED BY <1>1, <1>2, <1>5, <2>1, <2>2
  <2> QED BY <2>3
<1> QED BY <1>4, <1>6, <1>7

\* A turn changes what its own call holds.
LEMMA TurnsKeep ==
  ASSUME TypeOK, CallInv, NEW c \in Calls, Turns(c)
  PROVE  \A d \in Calls : Holds(pc'[d], frame'[d])
BY DEF Turns, Goto, CallInv, TypeOK, CallTypes

LEMMA BeginTurns ==
  ASSUME TypeOK, CallInv, NEW c \in Calls,
         \/ Refused(c) \/ StatelessRefused(c) \/ BeginLookup(c) \/ BeginPolicy(c)
         \/ BeginHandler(c) \/ Notify(c) \/ BeginCreate(c)
  PROVE  Turns(c)
<1>1. pc[c] = "begin" /\ arg[c] \in Request /\ arg[c] \in Requests
  BY RequestOf
  DEF Refused, StatelessRefused, BeginLookup, BeginPolicy, BeginHandler, Notify, BeginCreate, Begins,
      TypeOK, CallTypes
<1>2. arg[c].uri \in Uris
  BY <1>1 DEF Request
<1>3. CASE \E label \in Settled \cup {"running"} : Goto(c, label, Blank)
  BY <1>3, SettleTurns
<1>4. CASE BeginLookup(c)
  <2> DEFINE f == [Blank EXCEPT !.uri = arg[c].uri]
  <2>1. f \in Frame /\ f.uri = arg[c].uri /\ f.wrote = TRUE /\ \A u \in Uris : f.ref[u] = None
    BY <1>2, BlankTyped DEF Blank, Frame
  <2>2. Lookup(c, f) /\ arg[c].uri \notin Stateless
    BY <1>4 DEF BeginLookup
  <2> HIDE DEF f
  <2> QED BY <1>2, <2>1, <2>2, LookupTurns
<1>5. CASE BeginPolicy(c)
  <2> DEFINE f == [Blank EXCEPT !.uri = arg[c].uri]
  <2>1. f.wrote = TRUE /\ \A u \in Uris : f.ref[u] = None
    BY DEF Blank
  <2>2. Goto(c, "policy", f)
    BY <1>5 DEF BeginPolicy
  <2>3. Holds("policy", f)
    <3> HIDE DEF f
    <3> QED BY <2>1 DEF Holds, Holding, Locked
  <2> HIDE DEF f
  <2> QED BY <2>2, <2>3 DEF Turns
<1>6. CASE BeginCreate(c)
  <2> DEFINE f == [Blank EXCEPT !.uri = arg[c].uri, !.loaded = storage[arg[c].uri]]
  <2>1. f.wrote = TRUE /\ \A u \in Uris : f.ref[u] = None
    BY DEF Blank
  <2>2. Goto(c, "creating", f) \/ Settle(c, "failed")
    BY <1>6 DEF BeginCreate
  <2>3. ~Calm
    BY <1>1, <1>6 DEF Calm, BeginCreate, Begins
  <2>4. Holds("creating", f)
    <3> HIDE DEF f
    <3> QED BY <2>1, <2>3 DEF Holds, Holding, Locked
  <2> HIDE DEF f
  <2> QED BY <1>3, <2>2, <2>4 DEF Turns, Settle, Settled
<1> QED BY <1>3, <1>4, <1>5, <1>6
    DEF Refused, StatelessRefused, BeginHandler, Notify, Settle, Settled

LEMMA LoadTurns ==
  ASSUME TypeOK, CallInv, NEW c \in Calls,
         \/ Load(c) \/ LoadMissing(c) \/ LoadFailed(c) \/ Create(c) \/ Created(c) \/ Destroy(c)
         \/ Destroyed(c) \/ Get(c) \/ DispatchDuplicate(c) \/ Exec(c) \/ ExecPolicy(c) \/ Awaited(c)
  PROVE  Turns(c)
<1> DEFINE f == frame[c]
<1>1. f \in Frame /\ Holds(pc[c], f)
  BY DEF TypeOK, CallTypes, CallInv
<1>2. ASSUME NEW label \in Settled \cup {"running"}, Goto(c, label, Blank)
      PROVE  Turns(c)
  BY <1>2, SettleTurns
<1>3. WriteOutcomes \subseteq BOOLEAN /\ (WritesSucceed => WriteOutcomes = {TRUE})
  BY DEF WriteOutcomes, WritesSucceed
<1>4. CASE Load(c)
  <2>1. /\ pc[c] = "load" /\ f.uri \in Uris \ Stateless /\ ~Calm
    BY <1>1, <1>4 DEF Load, Holds, TypeOK, CallTypes, WellPlaced, Placed
  <2>2. PICK ok \in WriteOutcomes : Goto(c, "have", [f EXCEPT !.ref[f.uri] = c, !.wrote = ok])
    BY <1>4 DEF Load
  <2> DEFINE g == [f EXCEPT !.ref[f.uri] = c, !.wrote = ok]
  <2>3. g.uri = f.uri /\ g.wrote = ok /\ \A u \in Uris : g.ref[u] = IF u = f.uri THEN c ELSE f.ref[u]
    BY <1>1 DEF Frame
  <2>4. Goto(c, "have", g)
    BY <2>2
  <2>5. Holds("have", g)
    <3> HIDE DEF g
    <3> QED BY <1>1, <1>3, <2>1, <2>3 DEF Holds
  <2> HIDE DEF g
  <2> QED BY <2>4, <2>5 DEF Turns
<1>5. CASE Create(c)
  <2>1. CASE Settle(c, "failed")
    BY <1>2, <2>1 DEF Settle, Settled
  <2>2. CASE ~Settle(c, "failed")
    <3>1. PICK ok \in WriteOutcomes : Goto(c, "storing", [Blank EXCEPT !.uri = f.uri, !.wrote = ok])
      BY <1>5, <2>2 DEF Create
    <3> DEFINE g == [Blank EXCEPT !.uri = f.uri, !.wrote = ok]
    <3>2. g.wrote = ok /\ \A u \in Uris : g.ref[u] = None
      BY DEF Blank
    <3>3. Goto(c, "storing", g) /\ ~Calm
      BY <1>1, <1>5, <3>1 DEF Create, Holds
    <3>4. Holds("storing", g)
      <4> HIDE DEF g
      <4> QED BY <1>3, <3>2, <3>3 DEF Holds, Holding, Locked
    <3> HIDE DEF g
    <3> QED BY <3>3, <3>4 DEF Turns
  <2> QED BY <2>1, <2>2
<1>6. CASE Destroy(c)
  <2>1. pc[c] = "have" /\ arg[c] \in Requests /\ arg[c].op = "destroy"
    BY <1>6 DEF Destroy, Has, TypeOK, CallTypes
  <2>2. PICK ok \in WriteOutcomes : Goto(c, "deleting", [f EXCEPT !.wrote = ok])
    BY <1>6 DEF Destroy
  <2> DEFINE g == [f EXCEPT !.wrote = ok]
  <2>3. g.uri = f.uri /\ g.wrote = ok /\ g.ref = f.ref
    BY <1>1 DEF Frame
  <2>4. Goto(c, "deleting", g) /\ ~Calm
    BY <2>1, <2>2 DEF Calm
  <2>5. Holds("deleting", g)
    <3> HIDE DEF g
    <3> QED BY <1>1, <1>3, <2>3, <2>4 DEF Holds, Holding, Locked
  <2> HIDE DEF g
  <2> QED BY <2>4, <2>5 DEF Turns
<1>7. CASE Exec(c)
  <2>1. PICK label \in {"running", "policy"} : Goto(c, label, f)
    BY <1>7 DEF Exec
  <2>2. label \notin Holding \cup {"load", "creating", "storing", "deleting"}
    BY DEF Holding, Locked
  <2>3. WritesSucceed => f.wrote
    BY <1>1 DEF Holds
  <2> QED BY <1>1, <2>1, <2>2, <2>3, KeepTurns
<1>8. CASE Awaited(c)
  BY <1>2, <1>8 DEF Awaited, Settle
<1> QED BY <1>2, <1>4, <1>5, <1>6, <1>7, <1>8
    DEF LoadMissing, LoadFailed, Created, Destroyed, Get, DispatchDuplicate, ExecPolicy, Settle,
        Settled

LEMMA FollowTurns ==
  ASSUME TypeOK, CallInv, NEW c \in Calls,
         \/ LinkLost(c) \/ SubscribeDenied(c) \/ SubscribeGranted(c) \/ Subscribe(c)
         \/ BeginReconnect(c) \/ ReconnectPolicy(c) \/ ReconnectUri(c)
  PROVE  Turns(c)
<1> DEFINE f == frame[c]
<1>1. f \in Frame /\ Holds(pc[c], f)
  BY DEF TypeOK, CallTypes, CallInv
<1>2. ASSUME NEW label \in Settled, Settle(c, label)
      PROVE  Turns(c)
  BY <1>2, SettleTurns DEF Settle
<1>3. ASSUME Lookup(c, f), f.uri \in Uris \ Stateless
      PROVE  Turns(c)
  BY <1>1, <1>3, LookupTurns DEF Holds
<1>4. CASE LinkLost(c) \/ SubscribeDenied(c) \/ Subscribe(c)
  BY <1>2, <1>4 DEF LinkLost, SubscribeDenied, Subscribe, Settled
<1>5. CASE SubscribeGranted(c)
  <2>1. f.uri \in Uris
    BY <1>5 DEF SubscribeGranted, Verdict, TypeOK, CallTypes, WellPlaced, Placed
  <2> QED BY <1>2, <1>3, <1>5, <2>1 DEF SubscribeGranted, Settled
<1>6. ASSUME NEW g \in Frame, NEW kept, NextUri(c, g, kept), Continues(c, g, kept)
      PROVE  Turns(c)
  <2>1. \A u \in Uris : g.ref[u] = None \/ g.ref = f.ref
    BY <1>6 DEF Continues
  <2>2. /\ \A u \in Uris : g.ref[u] # None => u \notin Stateless
        /\ Calm => \A u \in Uris : g.ref[u] \in {None, Host}
        /\ WritesSucceed => g.wrote
    BY <1>1, <1>6, <2>1 DEF Continues, Holds
  <2>3. ASSUME NEW u \in g.todo, Goto(c, "policy", [g EXCEPT !.uri = u, !.todo = @ \ {u}])
        PROVE  Turns(c)
    <3> DEFINE k == [g EXCEPT !.uri = u, !.todo = @ \ {u}]
    <3>1. k.ref = g.ref /\ k.wrote = g.wrote
      BY DEF Frame
    <3>2. Goto(c, "policy", k)
      BY <2>3
    <3>3. Holds("policy", k)
      <4> HIDE DEF k
      <4> QED BY <2>2, <3>1 DEF Holds, Holding, Locked
    <3> HIDE DEF k
    <3> QED BY <3>2, <3>3 DEF Turns
  <2> QED BY <1>2, <1>6, <2>3 DEF NextUri, Settled
<1>7. CASE BeginReconnect(c) \/ ReconnectPolicy(c) \/ ReconnectUri(c)
  BY <1>2, <1>3, <1>6, <1>7, ReconnectTurns DEF Settled
<1> QED BY <1>4, <1>5, <1>7

LEMMA QueueTurns ==
  ASSUME TypeOK, CallInv, NEW c \in Calls,
         \/ Dispatch(c) \/ DispatchFrom(c)
         \/ Enter(c) \/ Authorized(c) \/ Persisted(c) \/ Sequenced(c)
  PROVE  Turns(c)
<1> DEFINE f == frame[c]
<1>1. f \in Frame /\ Holds(pc[c], f)
  BY DEF TypeOK, CallTypes, CallInv
<1>2. pc[c] \in Holding
  BY DEF Dispatch, DispatchFrom, Has, Enter, Authorized, Persisted, Sequenced, Holding, Locked
<1>3. ASSUME NEW g, NEW label \in Locked \cup {"queued"}, Goto(c, label, g),
             g.uri = f.uri, g.ref = f.ref, WritesSucceed => g.wrote
      PROVE  Turns(c)
  <2>1. Holds(label, g)
    BY <1>1, <1>2, <1>3 DEF Holds, Holding, Locked
  <2> QED BY <1>3, <2>1 DEF Turns
<1>4. WriteOutcomes \subseteq BOOLEAN /\ (WritesSucceed => WriteOutcomes = {TRUE})
  BY DEF WriteOutcomes, WritesSucceed
<1>5. WritesSucceed => f.wrote
  BY <1>1 DEF Holds
<1>6. ASSUME NEW label \in Settled \cup {"running"}, Goto(c, label, Blank)
      PROVE  Turns(c)
  BY <1>6, SettleTurns
<1>7. CASE Goto(c, "queued", f) \/ Goto(c, "authorizing", f)
  BY <1>3, <1>5, <1>7 DEF Locked
<1>8. ASSUME NEW g \in Frame, g.uri = f.uri, g.ref = f.ref, Sequence(c, g)
      PROVE  Turns(c)
  <2>1. PICK ok \in WriteOutcomes : Goto(c, "sequencing", [g EXCEPT !.wrote = ok])
    BY <1>8 DEF Sequence
  <2> DEFINE k == [g EXCEPT !.wrote = ok]
  <2>2. k.uri = f.uri /\ k.ref = f.ref /\ (WritesSucceed => k.wrote) /\ Goto(c, "sequencing", k)
    BY <1>4, <1>8, <2>1 DEF Frame
  <2> HIDE DEF k
  <2> QED BY <1>3, <2>2 DEF Locked
<1>9. CASE Reject(c)
  <2> DEFINE g == [f EXCEPT !.seq = NextSeq, !.accepted = FALSE]
  <2>1. g \in Frame /\ g.uri = f.uri /\ g.ref = f.ref
    <3>1. NextSeq \in Nat
      BY DEF NextSeq, TypeOK, HubTypes
    <3> HIDE DEF f
    <3> QED BY <1>1, <3>1 DEF Frame
  <2>2. Sequence(c, g)
    BY <1>9 DEF Reject
  <2> HIDE DEF g
  <2> QED BY <1>8, <2>1, <2>2
<1>10. CASE Accept(c)
  <2>1. PICK ok \in WriteOutcomes :
          Goto(c, "persisting", [f EXCEPT !.seq = NextSeq, !.accepted = TRUE, !.wrote = ok])
    BY <1>10 DEF Accept
  <2> DEFINE k == [f EXCEPT !.seq = NextSeq, !.accepted = TRUE, !.wrote = ok]
  <2>2. k.uri = f.uri /\ k.ref = f.ref /\ (WritesSucceed => k.wrote) /\ Goto(c, "persisting", k)
    BY <1>1, <1>4, <2>1 DEF Frame
  <2> HIDE DEF k
  <2> QED BY <1>3, <2>2 DEF Locked
<1>11. CASE Abandon(c) \/ Settle(c, "failed")
  BY <1>6, <1>11 DEF Abandon, Settle, Settled
<1>12. CASE Publish(c)
  BY <1>6, <1>12 DEF Publish, Settle, Settled
<1>13. CASE Reduce(c)
  BY <1>9, <1>10, <1>11, <1>13 DEF Reduce
<1>14. CASE Dispatch(c) \/ DispatchFrom(c)
  BY <1>7, <1>11, <1>14 DEF Dispatch, DispatchFrom, Queue
<1>15. CASE Enter(c) \/ Authorized(c)
  BY <1>7, <1>9, <1>11, <1>13, <1>15 DEF Enter, Authorized
<1>16. CASE Persisted(c)
  BY <1>1, <1>8, <1>11, <1>16 DEF Persisted
<1>17. CASE Sequenced(c)
  BY <1>11, <1>12, <1>17 DEF Sequenced
<1> QED BY <1>14, <1>15, <1>16, <1>17

\* A calm hub keeps its objects, and only an accepted action changes a state.
LEMMA ObjectsStay ==
  ASSUME TypeOK, CallInv, Calm, [Next]_vars
  PROVE  /\ UNCHANGED instances
         /\ UNCHANGED <<heap, storage>> \/ \E c \in Calls : (Enter(c) \/ Authorized(c)) /\ Accept(c)
<1> DEFINE Same == UNCHANGED <<instances, heap, storage>>
<1>1. \A c \in Calls : pc[c] \notin {"load", "creating", "deleting"}
  BY DEF CallInv, Holds
<1>2. ASSUME NEW c \in Calls,
             \/ Refused(c) \/ StatelessRefused(c) \/ BeginLookup(c) \/ BeginPolicy(c)
             \/ BeginHandler(c) \/ Notify(c) \/ BeginCreate(c)
             \/ LinkLost(c) \/ SubscribeDenied(c) \/ SubscribeGranted(c) \/ Subscribe(c)
      PROVE  Same
  BY <1>2
  DEF instVars, storeVars, Refused, StatelessRefused, BeginLookup, BeginPolicy, BeginHandler, Notify,
      BeginCreate, LinkLost, SubscribeDenied, SubscribeGranted, Subscribe
<1>3. ASSUME NEW c \in Calls, BeginReconnect(c) \/ ReconnectPolicy(c) \/ ReconnectUri(c)
      PROVE  Same
  BY <1>3
  DEF instVars, storeVars, BeginReconnect, ReconnectPolicy, ReconnectUri, NextUri
<1>4. ASSUME NEW c \in Calls, Destroy(c)
      PROVE  FALSE
  BY <1>4 DEF Destroy, Has, Calm, TypeOK, CallTypes
<1>5. ASSUME NEW c \in Calls,
             \/ Load(c) \/ LoadMissing(c) \/ LoadFailed(c) \/ Create(c) \/ Created(c)
             \/ Destroyed(c) \/ Get(c) \/ DispatchDuplicate(c) \/ Exec(c) \/ ExecPolicy(c)
             \/ Awaited(c) \/ Run(c) \/ Issue(c)
      PROVE  Same
  BY <1>1, <1>5
  DEF instVars, storeVars, Load, LoadMissing, LoadFailed, Create, Created, Destroyed, Get,
      DispatchDuplicate, Exec, ExecPolicy, Awaited, Run, Issue
<1>6. ASSUME NEW c \in Calls, Dispatch(c) \/ DispatchFrom(c) \/ Persisted(c) \/ Sequenced(c)
      PROVE  Same
  BY <1>6
  DEF instVars, storeVars, Dispatch, DispatchFrom, Persisted, Sequenced, Abandon, Publish
<1>7. ASSUME NEW c \in Calls, Enter(c) \/ Authorized(c)
      PROVE  Same \/ (Accept(c) /\ UNCHANGED instances)
  BY <1>7 DEF instVars, storeVars, Enter, Authorized, Reduce, Accept, Reject, Abandon
<1>8. CASE \/ Hydrate \/ Crash \/ UNCHANGED vars
           \/ \E h \in Conns : Connect(h) \/ Disconnect(h)
           \/ \E h \in Conns, u \in Uris : Unsubscribe(h, u)
  BY <1>8 DEF Calm, Hydrate, Crash, Connect, Disconnect, Unsubscribe, instVars, storeVars, vars
<1> QED BY <1>2, <1>3, <1>4, <1>5, <1>6, <1>7, <1>8 DEF Next, Resume

\* What a step does to the calls.
LEMMA TurnCases ==
  ASSUME TypeOK, CallInv, [Next]_vars
  PROVE  \/ UNCHANGED <<pc, frame>>
         \/ \E c \in Calls : Turns(c) \/ Issue(c) \/ Run(c)
         \/ Crash
BY BeginTurns, LoadTurns, FollowTurns, QueueTurns
DEF Next, Resume, Hydrate, Connect, Disconnect, Unsubscribe, vars, callVars

LEMMA CallInit == Init => CallInv
<1> SUFFICES ASSUME Init PROVE CallInv
  OBVIOUS
<1>1. \A c \in Calls : pc[c] = "idle" /\ frame[c] = Blank
  BY DEF Init
<1>2. Holds("idle", Blank)
  BY DEF Holds, Blank, Holding, Locked
<1>3. Calm => \A u \in Uris \ Stateless : instances[u] = Host
  BY DEF Calm, Init
<1> QED BY <1>1, <1>2, <1>3 DEF CallInv

LEMMA CallHolds == TypeOK /\ CallInv /\ [Next]_vars => CallInv'
<1> SUFFICES ASSUME TypeOK, CallInv, [Next]_vars PROVE CallInv'
  OBVIOUS
<1>1. Calm => \A u \in Uris \ Stateless : instances'[u] = Host
  BY ObjectsStay DEF CallInv
<1> SUFFICES \A d \in Calls : Holds(pc'[d], frame'[d])
  BY <1>1 DEF CallInv
<1>2. \A d \in Calls : Holds("begin", frame[d])
  BY DEF CallInv, Holds, Holding, Locked
<1>3. CASE UNCHANGED <<pc, frame>>
  BY <1>3 DEF CallInv
<1>4. ASSUME NEW c \in Calls, Issue(c)
      PROVE  \A d \in Calls : Holds(pc'[d], frame'[d])
  BY <1>2, <1>4 DEF Issue, CallInv, TypeOK, CallTypes
<1>5. ASSUME NEW c \in Calls, Run(c)
      PROVE  \A d \in Calls : Holds(pc'[d], frame'[d])
  <2>1. CASE Settle(c, "done") \/ Settle(c, "failed")
    BY <2>1, SettleTurns, TurnsKeep DEF Settle, Settled
  <2>2. ASSUME NEW b \in Calls, pc' = [pc EXCEPT ![c] = "awaiting", ![b] = "begin"],
               frame' = [frame EXCEPT ![c].child = b]
        PROVE  \A d \in Calls : Holds(pc'[d], frame'[d])
    <3>1. ASSUME NEW d \in Calls
          PROVE  /\ frame'[d].uri = frame[d].uri /\ frame'[d].ref = frame[d].ref
                 /\ frame'[d].wrote = frame[d].wrote
                 /\ pc'[d] = pc[d] \/ pc'[d] \in {"awaiting", "begin"}
      BY <2>2 DEF TypeOK, CallTypes, Frame
    <3> QED BY <3>1 DEF CallInv, Holds, Holding, Locked
  <2> QED BY <1>5, <2>1, <2>2 DEF Run
<1>6. CASE Crash
  <2>1. \A d \in Calls : frame'[d] = Blank /\ pc'[d] \in {"idle"} \cup Settled
    BY <1>6 DEF Crash, Settled
  <2>2. \A label \in {"idle"} \cup Settled : Holds(label, Blank)
    BY DEF Holds, Blank, Holding, Locked, Settled
  <2> QED BY <2>1, <2>2
<1> QED BY <1>3, <1>4, <1>5, <1>6, TurnCases, TurnsKeep

-----------------------------------------------------------------------------
(* What the links are told, and the subscriptions it goes with. *)

\* A snapshot of u.
Shows(m, u) == m.kind = "snapshots" /\ \E s \in m.snapshots : s.uri = u

\* Snapshots taken now.
Honest(m) ==
  m.kind = "snapshots" =>
    /\ hydrated
    /\ \A s \in m.snapshots : /\ s.uri \in Uris \ Stateless /\ s.fromSeq = serverSeq
                              /\ Calm => s.state = heap[s.uri][Host]

\* The kinds of step: nobody hears anything, a notification, an envelope, or an answer.
Silent      == /\ UNCHANGED <<inbox, log>>
               /\ \A h \in Conns : subs'[h] \subseteq subs[h] \cup Stateless
Notifies    == UNCHANGED log /\ \E m \in Message : m.kind = "notification" /\ Broadcast(m)
Publishes(c) == pc[c] = "sequencing" /\ frame[c].wrote /\ Publish(c)
Rounds(c, g, kept) ==
  /\ hydrated /\ arg[c] \in Request /\ arg[c].op = "reconnect"
  /\ arg[c].conn \in Conns /\ Live(arg[c].conn)
  /\ NextUri(c, g, kept) /\ Continues(c, g, kept)

LEMMA SilentSteps ==
  ASSUME TypeOK,
         \/ \E c \in Calls : \/ Refused(c) \/ StatelessRefused(c) \/ BeginLookup(c)
                             \/ BeginPolicy(c) \/ BeginHandler(c) \/ BeginCreate(c)
         \/ \E c \in Calls : \/ Load(c) \/ LoadMissing(c) \/ LoadFailed(c) \/ Create(c)
                             \/ Created(c) \/ Destroy(c) \/ Destroyed(c) \/ Get(c)
                             \/ DispatchDuplicate(c) \/ Exec(c) \/ ExecPolicy(c)
                             \/ Awaited(c) \/ Run(c) \/ Issue(c)
         \/ \E c \in Calls : LinkLost(c) \/ SubscribeDenied(c) \/ SubscribeGranted(c)
         \/ \E h \in Conns : Connect(h) \/ Disconnect(h)
         \/ \E h \in Conns, u \in Uris : Unsubscribe(h, u)
         \/ Hydrate \/ Crash \/ UNCHANGED vars
  PROVE  Silent
<1>1. subs \in [Conns -> SUBSET Uris]
  BY DEF TypeOK, HubTypes
<1>2. ASSUME NEW c \in Calls,
             \/ Refused(c) \/ StatelessRefused(c) \/ BeginLookup(c) \/ BeginPolicy(c)
             \/ BeginHandler(c) \/ BeginCreate(c)
      PROVE  Silent
  BY <1>2
  DEF Silent, Refused, StatelessRefused, BeginLookup, BeginPolicy, BeginHandler, BeginCreate,
      linkVars, histVars
<1>3. ASSUME NEW c \in Calls,
             \/ Load(c) \/ LoadMissing(c) \/ LoadFailed(c) \/ Create(c) \/ Created(c) \/ Destroy(c)
             \/ Get(c) \/ DispatchDuplicate(c) \/ Exec(c) \/ ExecPolicy(c) \/ Awaited(c) \/ Run(c)
             \/ Issue(c)
      PROVE  Silent
  BY <1>3
  DEF Silent, Load, LoadMissing, LoadFailed, Create, Created, Destroy, Get, DispatchDuplicate, Exec,
      ExecPolicy, Awaited, Run, Issue, linkVars, histVars
<1>4. ASSUME NEW c \in Calls, Destroyed(c)
      PROVE  Silent
  BY <1>1, <1>4 DEF Silent, Destroyed, histVars
<1>5. ASSUME NEW c \in Calls, LinkLost(c) \/ SubscribeDenied(c)
      PROVE  Silent
  BY <1>1, <1>5 DEF Silent, LinkLost, SubscribeDenied, linkVars, histVars
<1>6. ASSUME NEW c \in Calls, SubscribeGranted(c)
      PROVE  Silent
  BY <1>1, <1>6 DEF Silent, SubscribeGranted, histVars
<1>7. CASE \/ \E h \in Conns : Connect(h) \/ Disconnect(h)
           \/ \E h \in Conns, u \in Uris : Unsubscribe(h, u)
  BY <1>1, <1>7 DEF Silent, Connect, Disconnect, Unsubscribe, histVars
<1>8. CASE Hydrate \/ Crash \/ UNCHANGED vars
  BY <1>1, <1>8 DEF Silent, Hydrate, Crash, linkVars, histVars, vars
<1> QED BY <1>2, <1>3, <1>4, <1>5, <1>6, <1>7, <1>8

LEMMA FollowCases ==
  ASSUME IInv, CallInv, [Next]_vars
  PROVE  \/ Silent \/ Notifies
         \/ \E c \in Calls : Publishes(c) \/ Subscribe(c)
         \/ \E c \in Calls, g \in Frame, kept \in SUBSET Uris : Rounds(c, g, kept)
<1>1. TypeOK
  BY DEF IInv
<1>2. ASSUME NEW c \in Calls, Notify(c)
      PROVE  Notifies
  <2> DEFINE m == [kind |-> "notification", uri |-> arg[c].uri, call |-> c]
  <2>1. arg[c].uri \in Uris
    BY <1>1, <1>2, RequestOf DEF Notify, Begins, Request, TypeOK
  <2>2. m \in Message /\ m.kind = "notification"
    BY <2>1 DEF Message
  <2>3. Broadcast(m) /\ UNCHANGED log
    BY <1>2 DEF Notify
  <2> HIDE DEF m
  <2> QED BY <2>2, <2>3 DEF Notifies
<1>3. ASSUME NEW c \in Calls,
             \/ Dispatch(c) \/ DispatchFrom(c)
             \/ Enter(c) \/ Authorized(c) \/ Persisted(c) \/ Sequenced(c)
      PROVE  Silent \/ Publishes(c)
  BY <1>1, <1>3, CommitTurns DEF Silent, Publishes, TypeOK, HubTypes
<1>4. ASSUME NEW c \in Calls, BeginReconnect(c) \/ ReconnectPolicy(c) \/ ReconnectUri(c)
      PROVE  Silent \/ \E g \in Frame, kept \in SUBSET Uris : Rounds(c, g, kept)
  <2>1. hydrated
    BY <1>4, PastReady DEF BeginReconnect, ReconnectPolicy, ReconnectUri, Begins, Has,
       Verdict, Resting, Settled
  <2>2. pc[c] # "idle" /\ arg[c].op = "reconnect"
    BY <1>4 DEF BeginReconnect, ReconnectPolicy, ReconnectUri, Begins, Has, Verdict
  <2>3. arg[c] \in Request /\ arg[c].conn \in Conns
    BY <1>1, <2>2, RequestOf DEF TypeOK
  <2>4. UNCHANGED <<seqVars, lock, ring, linkVars, storeVars, histVars>> => Silent
    BY <1>1 DEF Silent, linkVars, histVars, TypeOK, HubTypes
  <2> QED BY <1>1, <1>4, <2>1, <2>2, <2>3, <2>4, ReconnectTurns DEF Rounds
<1> QED BY <1>1, <1>2, <1>3, <1>4, SilentSteps DEF Next, Resume

\* The answer of a reconnect.
LEMMA ResumptionIs ==
  ASSUME IInv, LInv, CallInv, NEW c \in Calls, NEW g \in Frame, NEW kept \in SUBSET Uris,
         Rounds(c, g, kept), kept \cap Internal = {}
  PROVE  LET m == Resumption(c, g, kept) IN
         /\ m \in Message /\ Honest(m)
         /\ \/ m.kind = "replay" /\ Exact(m, kept)
            \/ m.kind = "snapshots" /\ \A u \in Uris : Shows(m, u) <=> g.ref[u] # None
<1>1. TypeOK /\ hydrated /\ arg[c] \in Request /\ Continues(c, g, kept)
  BY DEF Rounds, IInv
<1> DEFINE m == Resumption(c, g, kept)
           shots == {[uri |-> u, state |-> heap[u][g.ref[u]], fromSeq |-> serverSeq] :
                       u \in {v \in Uris : g.ref[v] # None}}
<1>2. m \in Message
  BY <1>1, ResumptionTyped
<1>3. CASE Replayable(arg[c].lastSeen)
  <2>1. Exact(m, kept)
    BY <1>1, <1>3, ReplayExact
  <2>2. m.kind = "replay"
    BY <1>3 DEF Resumption
  <2>3. Honest(m)
    BY <2>2 DEF Honest
  <2> QED BY <1>2, <2>1, <2>2, <2>3
<1>4. CASE ~Replayable(arg[c].lastSeen)
  <2>1. m.kind = "snapshots" /\ m.snapshots = shots
    BY <1>4 DEF Resumption
  <2>2. \A u \in Uris : g.ref[u] # None => u \notin Stateless /\ (Calm => g.ref[u] = Host)
    BY <1>1 DEF Continues, CallInv, Holds
  <2>3. ASSUME NEW s \in shots
        PROVE  /\ s.uri \in Uris \ Stateless /\ s.fromSeq = serverSeq /\ g.ref[s.uri] # None
               /\ Calm => s.state = heap[s.uri][Host]
    BY <2>2
  <2>4. ASSUME NEW u \in Uris, g.ref[u] # None
        PROVE  \E s \in shots : s.uri = u
    <3> DEFINE s == [uri |-> u, state |-> heap[u][g.ref[u]], fromSeq |-> serverSeq]
    <3>1. s \in shots /\ s.uri = u
      BY <2>4
    <3> QED BY <3>1
  <2>5. Honest(m)
    <3> HIDE DEF m, shots
    <3> QED BY <1>1, <2>1, <2>3 DEF Honest
  <2>6. \A u \in Uris : Shows(m, u) <=> g.ref[u] # None
    <3> HIDE DEF m, shots
    <3> QED BY <2>1, <2>3, <2>4 DEF Shows
  <2> HIDE DEF shots
  <2> QED BY <1>2, <2>1, <2>5, <2>6
<1> QED BY <1>3, <1>4

\* The answer of a subscribe.
LEMMA SubscribeIs ==
  ASSUME IInv, CallInv, NEW c \in Calls, Subscribe(c)
  PROVE  LET m == [kind |-> "snapshots", call |-> c, missing |-> {},
                   snapshots |-> {SnapshotOf(c, frame[c].uri)}]
             h == arg[c].conn
         IN /\ m \in Message /\ Honest(m) /\ \A u \in Uris : Shows(m, u) <=> u = frame[c].uri
            /\ h \in Conns /\ Live(h) /\ UNCHANGED <<link, log>>
            /\ inbox' = [inbox EXCEPT ![h] = Append(@, m)]
            /\ subs' = [subs EXCEPT ![h] = @ \cup {frame[c].uri}]
<1> DEFINE u == frame[c].uri
           m == [kind |-> "snapshots", call |-> c, missing |-> {}, snapshots |-> {SnapshotOf(c, u)}]
<1>1. Live(arg[c].conn) /\ arg[c].op = "subscribe" /\ pc[c] = "have" /\ UNCHANGED <<link, log>>
  BY DEF Subscribe, Has
<1>2. arg[c].conn \in Conns /\ hydrated
  BY <1>1, RequestOf, PastReady DEF IInv, TypeOK, Resting, Settled
<1>3. u \in Uris \ Stateless /\ Object(c, u) \in State /\ frame[c].ref[u] # None
  BY <1>1, HoldingFacts, NoneIsNoCall DEF Holding, IInv, CallInv, Holds
<1>4. Calm => frame[c].ref[u] = Host
  BY <1>3 DEF CallInv, Holds
<1> DEFINE s == SnapshotOf(c, u)
<1>5. s \in Snapshot /\ s.uri = u /\ s.fromSeq = serverSeq /\ s.state = Object(c, u)
  BY <1>3 DEF SnapshotOf, Snapshot, IInv, TypeOK, HubTypes
<1>6. Calm => s.state = heap[u][Host]
  BY <1>4, <1>5 DEF Object
<1> HIDE DEF s
<1>7. m \in Message /\ m.kind = "snapshots" /\ m.snapshots = {s}
  BY <1>5 DEF s, Message
<1> HIDE DEF m
<1>8. Honest(m) /\ \A v \in Uris : Shows(m, v) <=> v = u
  BY <1>2, <1>3, <1>5, <1>6, <1>7 DEF Honest, Shows
<1>9. inbox' = [inbox EXCEPT ![arg[c].conn] = Append(@, m)]
      /\ subs' = [subs EXCEPT ![arg[c].conn] = @ \cup {u}]
  BY DEF Subscribe, Answer, m
<1> QED BY <1>1, <1>2, <1>7, <1>8, <1>9 DEF m

-----------------------------------------------------------------------------
(* A reconnect under way covers the channels it has looked up: it will answer with their *)
(* snapshots, or with a replay of everything the link is subscribed to by then.          *)

Covers(c, h, u) ==
  /\ arg[c].op = "reconnect" /\ arg[c].conn = h
  /\ pc[c] \in {"policy", "load", "have"} /\ frame[c].ref[u] # None

Covered(h, u) == \E c \in Calls : Covers(c, h, u)

\* What a link that is subscribed to u, and covered by no reconnect, is told: nothing about
\* the past of u, ...
Carries(h, u) ==
  /\ u \in subs[h] /\ ~Covered(h, u) /\ log' = log
  /\ \/ inbox'[h] = inbox[h]
     \/ \E m \in Message : /\ inbox'[h] = Append(inbox[h], m) /\ m.kind \notin {"action", "replay"}
                           /\ ~Shows(m, u)

\* ... an envelope that is broadcast, ...
Hears(h, u) ==
  /\ u \in subs[h] /\ ~Covered(h, u)
  /\ \E c \in Calls : /\ Publishes(c) /\ log' = Append(log, EnvelopeOf(c))
                      /\ \/ inbox'[h] = Append(inbox[h], EnvelopeOf(c))
                         \/ inbox'[h] = inbox[h] /\ EnvelopeOf(c).uri # u

\* ... a snapshot of it, or a replay.
IsShown(h, u) ==
  /\ log' = log /\ Live(h)
  /\ \E m \in Message : /\ inbox'[h] = Append(inbox[h], m) /\ m.kind = "snapshots"
                        /\ Shows(m, u) /\ Honest(m)

IsReplayed(h) ==
  /\ log' = log
  /\ \E m \in Message : /\ inbox'[h] = Append(inbox[h], m) /\ m.kind = "replay"
                        /\ Exact(m, subs'[h])

\* A round of reconnect goes on with the objects it has looked up, or answers.
LEMMA RoundIs ==
  ASSUME TypeOK, NEW c \in Calls, NEW g \in Frame, NEW kept \in SUBSET Uris, Rounds(c, g, kept)
  PROVE  /\ UNCHANGED <<log, link>> /\ subs'[arg[c].conn] = kept
         /\ \A h \in Conns \ {arg[c].conn} : subs'[h] = subs[h] /\ inbox'[h] = inbox[h]
         /\ \/ /\ UNCHANGED inbox
               /\ pc'[c] = "policy" /\ frame'[c].ref = g.ref
            \/ inbox'[arg[c].conn] = Append(inbox[arg[c].conn], Resumption(c, g, kept))
<1> DEFINE h == arg[c].conn
           m == Resumption(c, g, kept)
<1>1. /\ UNCHANGED <<log, link>> /\ subs' = [subs EXCEPT ![h] = kept] /\ h \in Conns
      /\ \/ \E u \in g.todo : /\ Goto(c, "policy", [g EXCEPT !.uri = u, !.todo = @ \ {u}])
                              /\ UNCHANGED inbox
         \/ inbox' = [inbox EXCEPT ![h] = Append(@, m)]
  BY DEF Rounds, NextUri, Answer
<1>2. ASSUME NEW u, Goto(c, "policy", [g EXCEPT !.uri = u, !.todo = @ \ {u}])
      PROVE  pc'[c] = "policy" /\ frame'[c].ref = g.ref
  <2> DEFINE k == [g EXCEPT !.uri = u, !.todo = @ \ {u}]
  <2>1. k.ref = g.ref
    BY DEF Frame
  <2> HIDE DEF k
  <2>2. frame'[c] = k /\ pc'[c] = "policy"
    BY <1>2 DEF k, Goto, TypeOK, CallTypes
  <2> QED BY <2>1, <2>2
<1> HIDE DEF m
<1> QED BY <1>1, <1>2 DEF m, TypeOK, HubTypes, HistoryTypes

\* A call that is past its first turn moves by its own turns only.
LEMMA OthersStay ==
  ASSUME TypeOK, CallInv, [Next]_vars, NEW c \in Calls, pc[c] \in {"policy", "load", "have"}
  PROVE  \/ Resume(c) \/ Crash
         \/ pc'[c] = pc[c] /\ frame'[c] = frame[c] /\ arg'[c] = arg[c]
<1> DEFINE Same == pc'[c] = pc[c] /\ frame'[c] = frame[c] /\ arg'[c] = arg[c]
<1>1. ASSUME NEW d \in Calls, d # c, Turns(d)
      PROVE  Same
  BY <1>1 DEF Turns, Goto, TypeOK, CallTypes
<1>2. ASSUME NEW d \in Calls, Issue(d)
      PROVE  Same
  BY <1>2 DEF Issue, TypeOK, CallTypes
<1>3. ASSUME NEW d \in Calls, d # c, Run(d)
      PROVE  Same
  <2>1. CASE Settle(d, "done") \/ Settle(d, "failed")
    BY <1>3, <2>1 DEF Settle, Goto, TypeOK, CallTypes
  <2>2. ASSUME NEW b \in Calls, NEW r, pc[b] = "idle", pc' = [pc EXCEPT ![d] = "awaiting", ![b] = "begin"],
               arg' = [arg EXCEPT ![b] = r], frame' = [frame EXCEPT ![d].child = b]
        PROVE  Same
    BY <1>3, <2>2 DEF TypeOK, CallTypes
  <2> QED BY <1>3, <2>1, <2>2 DEF Run
<1>4. ASSUME NEW d \in Calls, d # c, Resume(d)
      PROVE  Same
  BY <1>1, <1>3, <1>4, BeginTurns, LoadTurns, FollowTurns, QueueTurns DEF Resume
<1> QED BY <1>2, <1>4
    DEF Next, Connect, Disconnect, Unsubscribe, Hydrate, vars, callVars

\* The turns of a reconnect that has looked something up.
LEMMA ReconnectingTurns ==
  ASSUME NEW c \in Calls, Resume(c), pc[c] \in {"policy", "load", "have"}, arg[c].op = "reconnect"
  PROVE  Load(c) \/ LoadFailed(c) \/ LinkLost(c) \/ ReconnectPolicy(c) \/ ReconnectUri(c)
BY DEF Resume, Refused, StatelessRefused, BeginLookup, BeginPolicy, BeginHandler, Notify, LoadMissing,
       SubscribeDenied, SubscribeGranted, Subscribe, BeginReconnect, Dispatch, DispatchDuplicate,
       DispatchFrom, Enter, Authorized, Persisted, Sequenced, Exec, ExecPolicy, Run, Awaited, Get,
       BeginCreate, Create, Created, Destroy, Destroyed, Begins, Has, Verdict, Locked

\* It covers its channels until it answers, if no write fails.
LEMMA CoverKept ==
  ASSUME WritesSucceed, IInv, LInv, LInv', CallInv, [Next]_vars, NEW c \in Calls, NEW h \in Conns,
         NEW u \in Uris, Covers(c, h, u), u \in subs'[h]
  PROVE  Covers(c, h, u)' \/ IsShown(h, u) \/ IsReplayed(h)
<1> USE DEF IInv
<1>1. TypeOK /\ pc[c] \in {"policy", "load", "have"} /\ arg[c].op = "reconnect" /\ arg[c].conn = h
      /\ frame[c].ref[u] # None /\ frame[c] \in Frame
  BY DEF Covers, TypeOK, CallTypes
<1>2. arg'[c] = arg[c]
  BY <1>1, RequestsStay
<1>3. CASE Crash
  BY <1>3 DEF Crash
<1>4. CASE Load(c)
  <2>1. PICK ok \in WriteOutcomes :
          Goto(c, "have", [frame[c] EXCEPT !.ref[frame[c].uri] = c, !.wrote = ok])
    BY <1>4 DEF Load
  <2>2. pc'[c] = "have" /\ frame'[c] = [frame[c] EXCEPT !.ref[frame[c].uri] = c, !.wrote = ok]
    BY <1>1, <2>1 DEF Goto, TypeOK, CallTypes
  <2>3. frame'[c].ref[u] \in {c, frame[c].ref[u]}
    BY <1>1, <2>2 DEF Frame
  <2>4. c # None
    BY HubAssumption
  <2> QED BY <1>1, <1>2, <2>2, <2>3, <2>4 DEF Covers
<1>5. CASE LoadFailed(c)
  BY <1>5 DEF LoadFailed, CallInv, Holds
<1>6. CASE LinkLost(c)
  BY <1>1, <1>6 DEF LinkLost, LInv, StaleHasNothing, linkVars
<1>7. ASSUME NEW f \in Frame, f = frame[c], Lookup(c, f), pc[c] = "policy", f.uri \in Uris
      PROVE  Covers(c, h, u)'
  <2>1. CASE instances[f.uri] # None /\ Goto(c, "have", [f EXCEPT !.ref[f.uri] = instances[f.uri]])
    <3>1. pc'[c] = "have" /\ frame'[c] = [f EXCEPT !.ref[f.uri] = instances[f.uri]]
      BY <1>1, <2>1 DEF Goto, TypeOK, CallTypes
    <3>2. frame'[c].ref[u] \in {instances[f.uri], f.ref[u]}
      BY <3>1 DEF Frame
    <3> QED BY <1>1, <1>2, <1>7, <2>1, <3>1, <3>2 DEF Covers
  <2>2. CASE Goto(c, "load", [f EXCEPT !.loaded = storage[f.uri]])
    <3>1. pc'[c] = "load" /\ frame'[c] = [f EXCEPT !.loaded = storage[f.uri]]
      BY <1>1, <2>2 DEF Goto, TypeOK, CallTypes
    <3>2. frame'[c].ref = f.ref
      BY <3>1 DEF Frame
    <3> QED BY <1>1, <1>2, <1>7, <3>1, <3>2 DEF Covers
  <2> QED BY <1>7, <2>1, <2>2 DEF Lookup
<1>8. ASSUME NEW g \in Frame, NEW kept \in SUBSET Uris, Rounds(c, g, kept)
      PROVE  Covers(c, h, u)' \/ IsShown(h, u) \/ IsReplayed(h)
  <2> DEFINE m == Resumption(c, g, kept)
  <2>1. g.ref = frame[c].ref /\ Live(h)
    BY <1>1, <1>8 DEF Rounds, Continues
  <2>2. /\ UNCHANGED log /\ subs'[h] = kept
        /\ \/ pc'[c] = "policy" /\ frame'[c].ref = g.ref
           \/ inbox'[h] = Append(inbox[h], m)
    BY <1>1, <1>8, RoundIs
  <2>3. CASE pc'[c] = "policy" /\ frame'[c].ref = g.ref
    BY <1>1, <1>2, <2>1, <2>3 DEF Covers
  <2>4. CASE inbox'[h] = Append(inbox[h], m)
    <3>1. kept \cap Internal = {}
      BY <2>2 DEF LInv, InternalHidden
    <3>2. /\ m \in Message /\ Honest(m)
          /\ \/ m.kind = "replay" /\ Exact(m, kept)
             \/ m.kind = "snapshots" /\ Shows(m, u)
      BY <1>1, <1>8, <2>1, <3>1, ResumptionIs
    <3> HIDE DEF m
    <3> QED BY <2>1, <2>2, <2>4, <3>2 DEF IsShown, IsReplayed
  <2> QED BY <2>2, <2>3, <2>4
<1>9. CASE ReconnectPolicy(c) \/ ReconnectUri(c)
  <2>1. hydrated
    BY <1>1, PastReady DEF Resting, Settled
  <2>2. arg[c] \in Request /\ arg[c].conn \in Conns
    BY <1>1, RequestOf DEF TypeOK
  <2>3. CASE Live(arg[c].conn) /\ \E g \in Frame, kept \in SUBSET Uris :
               NextUri(c, g, kept) /\ Continues(c, g, kept)
    BY <1>1, <1>8, <2>1, <2>2, <2>3 DEF Rounds
  <2>4. CASE ~Live(arg[c].conn) /\ UNCHANGED linkVars
    BY <1>1, <2>4 DEF LInv, StaleHasNothing, linkVars
  <2> QED BY <1>1, <1>7, <1>9, <2>3, <2>4, ReconnectTurns
<1>10. CASE pc'[c] = pc[c] /\ frame'[c] = frame[c]
  BY <1>1, <1>2, <1>10 DEF Covers
<1> QED BY <1>1, <1>3, <1>4, <1>5, <1>6, <1>9, <1>10, OthersStay, ReconnectingTurns

\* What a link may be told that stays subscribed to u, uncovered.
LEMMA FollowSteps ==
  ASSUME WritesSucceed, IInv, LInv, LInv', CallInv, [Next]_vars, NEW h \in Conns,
         NEW u \in Uris \ Stateless, u \in subs'[h], ~Covered(h, u)'
  PROVE  Carries(h, u) \/ Hears(h, u) \/ IsShown(h, u) \/ IsReplayed(h)
<1> USE DEF IInv
<1>1. CASE Covered(h, u)
  BY <1>1, CoverKept DEF Covered
<1>2. CASE ~Covered(h, u)
  <2>1. CASE Silent
    BY <1>2, <2>1 DEF Silent, Carries
  <2>2. ASSUME NEW m \in Message, Broadcast(m)
        PROVE  /\ u \in subs[h]
               /\ inbox'[h] = Append(inbox[h], m) \/ (inbox'[h] = inbox[h] /\ m.uri # u)
    <3>1. PICK dead \in Dead(m.uri) :
            /\ inbox' = [g \in Conns |-> IF g \in Subscribers(m.uri) \ dead
                                         THEN Append(inbox[g], m) ELSE inbox[g]]
            /\ link' = [g \in Conns |-> IF g \in dead THEN "gone" ELSE link[g]]
            /\ subs' = [g \in Conns |-> IF g \in dead THEN {} ELSE subs[g]]
      BY <2>2 DEF Broadcast
    <3>2. h \notin dead /\ u \in subs[h]
      BY <3>1
    <3>3. Live(h)
      BY <3>2 DEF LInv, StaleHasNothing
    <3>4. m.uri = u => h \in Subscribers(m.uri) \ dead
      BY <3>2, <3>3 DEF Subscribers
    <3> QED BY <3>1, <3>2, <3>4
  <2>3. CASE Notifies
    BY <1>2, <2>2, <2>3 DEF Notifies, Carries, Shows
  <2>4. ASSUME NEW c \in Calls, Publishes(c)
        PROVE  Hears(h, u)
    <3> DEFINE e == EnvelopeOf(c)
    <3>1. e \in Envelope /\ log' = Append(log, e) /\ Broadcast(e)
      BY <2>4, PublishedFacts DEF Publishes, Publish
    <3>2. e \in Message
      BY <3>1 DEF Message
    <3> HIDE DEF e
    <3>3. /\ u \in subs[h]
          /\ inbox'[h] = Append(inbox[h], e) \/ (inbox'[h] = inbox[h] /\ e.uri # u)
      BY <2>2, <3>1, <3>2
    <3> QED BY <1>2, <2>4, <3>1, <3>3 DEF e, Hears
  <2>5. ASSUME NEW c \in Calls, Subscribe(c)
        PROVE  Carries(h, u) \/ IsShown(h, u)
    <3> DEFINE m == [kind |-> "snapshots", call |-> c, missing |-> {},
                     snapshots |-> {SnapshotOf(c, frame[c].uri)}]
               g == arg[c].conn
    <3>1. /\ m \in Message /\ m.kind = "snapshots" /\ Honest(m)
          /\ \A v \in Uris : Shows(m, v) <=> v = frame[c].uri
          /\ g \in Conns /\ Live(g) /\ UNCHANGED log
          /\ inbox' = [inbox EXCEPT ![g] = Append(@, m)]
          /\ subs' = [subs EXCEPT ![g] = @ \cup {frame[c].uri}]
      BY <2>5, SubscribeIs
    <3> HIDE DEF m
    <3>2. CASE h # g
      BY <1>2, <3>1, <3>2 DEF Carries, TypeOK, HubTypes, HistoryTypes
    <3>3. CASE h = g /\ u = frame[c].uri
      BY <3>1, <3>3 DEF IsShown, TypeOK, HistoryTypes
    <3>4. CASE h = g /\ u # frame[c].uri
      BY <1>2, <3>1, <3>4 DEF Carries, TypeOK, HubTypes, HistoryTypes
    <3> QED BY <3>2, <3>3, <3>4
  <2>6. ASSUME NEW c \in Calls, NEW g \in Frame, NEW kept \in SUBSET Uris, Rounds(c, g, kept)
        PROVE  Carries(h, u) \/ IsShown(h, u) \/ IsReplayed(h)
    <3> DEFINE m == Resumption(c, g, kept)
               k == arg[c].conn
    <3>1. /\ UNCHANGED log /\ subs'[k] = kept
          /\ h # k => subs'[h] = subs[h] /\ inbox'[h] = inbox[h]
          /\ UNCHANGED inbox \/ inbox'[k] = Append(inbox[k], m)
      BY <2>6, RoundIs
    <3>2. CASE h # k
      BY <1>2, <3>1, <3>2 DEF Carries
    <3>3. CASE h = k
      <4>1. Live(h) /\ Continues(c, g, kept) /\ arg[c].op = "reconnect"
        BY <2>6, <3>3 DEF Rounds
      <4>2. u \in subs[h] \/ g.ref[u] # None
        BY <3>1, <3>3, <4>1 DEF Continues
      <4>3. g.ref[u] = None \/ pc[c] = "begin" \/ Covers(c, h, u)
        BY <3>3, <4>1 DEF Continues, Covers
      <4>4. g.ref[u] = None
        BY <1>2, <4>1, <4>3 DEF Continues, Covered
      <4>5. CASE UNCHANGED inbox
        BY <1>2, <3>1, <4>2, <4>4, <4>5 DEF Carries
      <4>6. CASE inbox'[h] = Append(inbox[h], m)
        <5>1. kept \cap Internal = {}
          BY <3>1, <3>3 DEF LInv, InternalHidden
        <5>2. /\ m \in Message
              /\ \/ m.kind = "replay" /\ Exact(m, kept)
                 \/ m.kind = "snapshots" /\ ~Shows(m, u)
          BY <2>6, <4>4, <5>1, ResumptionIs
        <5> HIDE DEF m
        <5> QED BY <1>2, <3>1, <3>3, <4>2, <4>4, <4>6, <5>2 DEF Carries, IsReplayed
      <4> QED BY <3>1, <3>3, <4>5, <4>6
    <3> QED BY <3>2, <3>3
  <2> QED BY <2>1, <2>3, <2>4, <2>5, <2>6, FollowCases
<1> QED BY <1>1, <1>2

-----------------------------------------------------------------------------
(* A link resumed by a replay. *)

\* After a replay m, no later message of which is another one or a snapshot of u: all that
\* came after what it replaced is in it, or among the messages.
Complete(m, u, messages, history) ==
  \A k \in DOMAIN history :
    history[k].uri = u /\ history[k].seq > m.lastSeen =>
      \/ history[k] \in m.actions
      \/ \E j \in DOMAIN messages : messages[j] = history[k]

Latest(i, u, messages) ==
  \A j \in DOMAIN messages : i < j => messages[j].kind # "replay" /\ ~Shows(messages[j], u)

Informed(u, messages, history) ==
  \A i \in DOMAIN messages :
    messages[i].kind = "replay" /\ Latest(i, u, messages) => Complete(messages[i], u, messages, history)

ResumedInv ==
  \A h \in Conns : \A u \in subs[h] \ Stateless : ~Covered(h, u) => Informed(u, inbox[h], log)

\* A message that is no replay, beside an envelope of u or without one.
LEMMA InformedMore ==
  ASSUME NEW u, NEW s \in Seq(Message), NEW l, Informed(u, s, l), NEW m, m.kind # "replay"
  PROVE  Informed(u, Append(s, m), l)
<1> DEFINE t == Append(s, m)
           n == Len(s) + 1
<1>1. /\ \A i \in DOMAIN s : i \in DOMAIN t /\ t[i] = s[i]
      /\ n \in DOMAIN t /\ t[n] = m
      /\ \A i \in DOMAIN t : i \in DOMAIN s \/ i = n
  BY AppendIs
<1> HIDE DEF t, n
<1>2. ASSUME NEW i \in DOMAIN t, t[i].kind = "replay", Latest(i, u, t)
      PROVE  Complete(t[i], u, t, l)
  <2>1. i \in DOMAIN s /\ t[i] = s[i]
    BY <1>1, <1>2
  <2>2. Latest(i, u, s)
    BY <1>1, <1>2 DEF Latest
  <2>3. Complete(s[i], u, s, l)
    BY <1>2, <2>1, <2>2 DEF Informed
  <2> QED BY <1>1, <2>1, <2>3 DEF Complete
<1>3. Informed(u, t, l)
  BY <1>2 DEF Informed
<1> QED BY <1>3 DEF t

LEMMA InformedOfMore ==
  ASSUME NEW u, NEW s, NEW l \in Seq(Envelope), Informed(u, s, l), NEW e,
         e.uri # u \/ \E j \in DOMAIN s : s[j] = e
  PROVE  Informed(u, s, Append(l, e))
<1> DEFINE t == Append(l, e)
           n == Len(l) + 1
<1>1. /\ \A i \in DOMAIN l : i \in DOMAIN t /\ t[i] = l[i]
      /\ n \in DOMAIN t /\ t[n] = e
      /\ \A i \in DOMAIN t : i \in DOMAIN l \/ i = n
  BY AppendIs
<1> HIDE DEF t, n
<1>2. Informed(u, s, t)
  BY <1>1 DEF Informed, Complete
<1> QED BY <1>2 DEF t

\* A snapshot of u closes what came before, and a replay brings it.
LEMMA InformedAnew ==
  ASSUME NEW u, NEW s \in Seq(Message), NEW l, NEW m,
         Shows(m, u) \/ (m.kind = "replay" /\ Complete(m, u, << >>, l))
  PROVE  Informed(u, Append(s, m), l)
<1> DEFINE t == Append(s, m)
           n == Len(s) + 1
<1>1. /\ n \in DOMAIN t /\ t[n] = m
      /\ \A i \in DOMAIN t : i \in DOMAIN s \/ i = n
      /\ \A i \in DOMAIN s : i < n
  BY AppendIs
<1> HIDE DEF t, n
<1>2. ASSUME NEW i \in DOMAIN t, t[i].kind = "replay", Latest(i, u, t)
      PROVE  Complete(t[i], u, t, l)
  <2>1. ~(i < n)
    BY <1>1, <1>2 DEF Latest, Shows
  <2>2. t[i] = m /\ m.kind = "replay"
    BY <1>1, <1>2, <2>1
  <2>3. Complete(m, u, << >>, l)
    BY <2>2 DEF Shows
  <2>4. DOMAIN << >> = {}
    OBVIOUS
  <2> QED BY <2>2, <2>3, <2>4 DEF Complete
<1>3. Informed(u, t, l)
  BY <1>2 DEF Informed
<1> QED BY <1>3 DEF t

LEMMA ResumedInit == Init => ResumedInv
BY DEF Init, ResumedInv

LEMMA ResumedHolds ==
  ASSUME WritesSucceed, IInv, LInv, LInv', CallInv, ResumedInv, [Next]_vars
  PROVE  ResumedInv'
<1>1. log \in Seq(Envelope) /\ \A h \in Conns : inbox[h] \in Seq(Message)
  BY DEF IInv, TypeOK, HistoryTypes
<1>2. ASSUME NEW h \in Conns, NEW u \in subs'[h] \ Stateless, ~Covered(h, u)'
      PROVE  Informed(u, inbox'[h], log')
  <2>1. u \in Uris
    <3>1. TypeOK'
      BY StepHolds DEF IInv
    <3> QED BY <1>2, <3>1 DEF TypeOK, HubTypes
  <2>2. inbox[h] \in Seq(Message)
    BY <1>1
  <2>3. ASSUME Carries(h, u) \/ Hears(h, u)
        PROVE  Informed(u, inbox[h], log)
    BY <1>2, <2>3 DEF ResumedInv, Carries, Hears
  <2>4. CASE Carries(h, u)
    BY <2>2, <2>3, <2>4, InformedMore DEF Carries
  <2>5. CASE Hears(h, u)
    <3>1. PICK c \in Calls : /\ Publishes(c) /\ log' = Append(log, EnvelopeOf(c))
                             /\ \/ inbox'[h] = Append(inbox[h], EnvelopeOf(c))
                                \/ inbox'[h] = inbox[h] /\ EnvelopeOf(c).uri # u
      BY <2>5 DEF Hears
    <3> DEFINE e == EnvelopeOf(c)
    <3>2. e.kind # "replay"
      BY DEF EnvelopeOf
    <3> HIDE DEF e
    <3>3. CASE inbox'[h] = inbox[h] /\ e.uri # u
      BY <1>1, <2>3, <2>5, <3>1, <3>3, InformedOfMore DEF e
    <3>4. CASE inbox'[h] = Append(inbox[h], e)
      <4>1. \E j \in DOMAIN inbox'[h] : inbox'[h][j] = e
        BY <2>2, <3>4, AppendIs
      <4>2. Informed(u, inbox'[h], log)
        BY <2>2, <2>3, <2>5, <3>2, <3>4, InformedMore
      <4> QED BY <1>1, <3>1, <4>1, <4>2, InformedOfMore DEF e
    <3> QED BY <3>1, <3>3, <3>4 DEF e
  <2>6. CASE IsShown(h, u)
    BY <2>2, <2>6, InformedAnew DEF IsShown
  <2>7. CASE IsReplayed(h)
    <3>1. PICK m : /\ inbox'[h] = Append(inbox[h], m) /\ m.kind = "replay" /\ log' = log
                   /\ Exact(m, subs'[h])
      BY <2>7 DEF IsReplayed
    <3>2. Complete(m, u, << >>, log)
      BY <1>2, <3>1 DEF Exact, Complete
    <3> QED BY <2>2, <3>1, <3>2, InformedAnew
  <2> QED BY <1>2, <2>1, <2>4, <2>5, <2>6, <2>7, FollowSteps
<1> QED BY <1>2 DEF ResumedInv

\* The last snapshot of a transcript is one, and the last.
LEMMA LastSnapshotIs ==
  ASSUME TypeOK, NEW h \in Conns, NEW u
  PROVE  LET n == LastSnapshot(h, u) IN
         \/ n = 0 /\ \A i \in DOMAIN inbox[h] : ~Shows(inbox[h][i], u)
         \/ /\ n \in DOMAIN inbox[h] /\ n # 0 /\ Shows(inbox[h][n], u)
            /\ \A i \in DOMAIN inbox[h] : Shows(inbox[h][i], u) => i <= n
<1> DEFINE l == Len(inbox[h])
           S == {i \in DOMAIN inbox[h] : Shows(inbox[h][i], u)}
           n == LastSnapshot(h, u)
<1>1. DOMAIN inbox[h] = 1..l /\ l \in Nat
  BY DEF TypeOK, HistoryTypes
<1>2. n = IF S = {} THEN 0 ELSE CHOOSE i \in S : \A j \in S : j <= i
  BY DEF LastSnapshot, Shows, Positions
<1>3. CASE S = {}
  BY <1>2, <1>3
<1>4. CASE S # {}
  <2>1. S \in SUBSET (0..l)
    BY <1>1
  <2> HIDE DEF S, l
  <2>2. \E i \in S : \A j \in S : j <= i
    BY <1>1, <1>4, <2>1, Greatest
  <2>3. n \in S /\ \A j \in S : j <= n
    BY <1>2, <1>4, <2>2
  <2>4. n \in 1..l /\ n # 0
    BY <1>1, <2>3 DEF S
  <2> QED BY <1>1, <2>3, <2>4 DEF S
<1> QED BY <1>3, <1>4

\* No reconnect under way covers anything.
LEMMA RestingUncovered ==
  ASSUME NEW h, ~Reconnecting(h)
  PROVE  \A u : ~Covered(h, u)
BY DEF Reconnecting, Covered, Covers, Settled

-----------------------------------------------------------------------------
(* The commit under way: the envelope it has decided on, and the number it took. *)

Decided == lock # << >> /\ pc[Head(lock)] \in {"persisting", "sequencing"}

\* The highest sequence number that was taken, or is about to be.
Top == IF lock # << >> /\ pc[Head(lock)] = "persisting" THEN serverSeq + 1 ELSE serverSeq

\* The kinds of step: the commit goes on, decides, or publishes.
GoesOn ==
  /\ UNCHANGED <<hydrated, log>> /\ serverSeq <= serverSeq'
  /\ Pending' = Pending /\ Top' = Top

Decides(c) ==
  /\ (Enter(c) \/ Authorized(c)) /\ (Accept(c) \/ Reject(c))
  /\ HoldsLock(c) /\ pc[c] \in {"queued", "authorizing"}

\* The first call of the queue commits, or waits its turn.
LEMMA HeadFacts ==
  ASSUME TypeOK, Mutex, lock # << >>
  PROVE  Head(lock) \in Calls /\ pc[Head(lock)] \in Busy
BY DEF TypeOK, HubTypes, Mutex, CommitsExclude, Busy

LEMMA HeadOnly ==
  ASSUME TypeOK, Mutex, NEW c \in Calls, pc[c] \in {"persisting", "sequencing"}
  PROVE  lock # << >> /\ Head(lock) = c /\ Decided
BY DEF Mutex, CommitsExclude, Locked, Decided

\* The next call in the queue has not entered yet.
LEMMA ReleasedHead ==
  ASSUME TypeOK, Mutex, NEW c \in Calls, HoldsLock(c), Release, NEW label, NEW f, Goto(c, label, f)
  PROVE  ~Decided' /\ Pending' = log' /\ Top' = serverSeq'
<1>1. lock \in Seq(Calls) /\ lock # << >> /\ Head(lock) = c /\ lock' = Tail(lock)
  BY DEF HoldsLock, Release, TypeOK, HubTypes
<1>2. CASE lock' = << >>
  BY <1>2 DEF Decided, Pending, Top
<1>3. CASE lock' # << >>
  <2>1. 2 \in DOMAIN lock /\ Head(lock') = lock[2] /\ lock[1] = c /\ 1 \in DOMAIN lock
        /\ lock[2] \in Calls
    BY <1>1, <1>3
  <2>2. lock[2] # c
    BY <2>1 DEF Mutex, QueuedOnce
  <2>3. pc'[lock[2]] = pc[lock[2]]
    BY <2>1, <2>2 DEF Goto, TypeOK, CallTypes
  <2>4. pc[lock[2]] \notin Locked
    BY <2>1, <2>2, Alone
  <2> QED BY <2>1, <2>3, <2>4 DEF Decided, Pending, Top, Locked
<1> QED BY <1>2, <1>3

\* As long as the queue and the calls in it stay, so does the commit.
LEMMA OutsideGoesOn ==
  ASSUME IInv, Outside
  PROVE  GoesOn
<1>1. lock # << >> => /\ pc'[Head(lock)] = pc[Head(lock)] /\ frame'[Head(lock)] = frame[Head(lock)]
  BY HeadFacts DEF Outside, IInv
<1>2. UNCHANGED <<hydrated, serverSeq, lock, log>>
  BY DEF Outside
<1>3. Pending' = Pending
  BY <1>1, <1>2 DEF Pending, EnvelopeOf
<1>4. Top' = Top
  BY <1>1, <1>2 DEF Top
<1>5. serverSeq <= serverSeq'
  BY <1>2 DEF IInv, TypeOK, HubTypes
<1> QED BY <1>2, <1>3, <1>4, <1>5 DEF GoesOn

LEMMA QueueGoesOn ==
  ASSUME IInv, NEW c \in Calls, Dispatch(c) \/ DispatchFrom(c)
  PROVE  GoesOn
<1> USE DEF IInv
<1>1. /\ UNCHANGED <<hydrated, serverSeq, log>> /\ pc[c] = "have" /\ serverSeq \in Nat
  BY DEF Dispatch, DispatchFrom, Has, seqVars, histVars, TypeOK, HubTypes
<1>2. \A i \in DOMAIN lock : lock[i] # c
  BY <1>1 DEF Mutex, CommitsExclude, Locked
<1>3. lock # << >> => Head(lock) # c /\ Head(lock) \in Calls /\ lock \in Seq(Calls)
  BY <1>2 DEF TypeOK, HubTypes
<1>4. PICK label, f : Goto(c, label, f) /\ (UNCHANGED lock \/ (lock' = Append(lock, c) /\ label = "queued"))
  BY DEF Dispatch, DispatchFrom, Queue, Settle
<1>5. \A d \in Calls \ {c} : pc'[d] = pc[d] /\ frame'[d] = frame[d]
  BY <1>4 DEF Goto, TypeOK, CallTypes
<1>6. pc'[c] = label
  BY <1>4 DEF Goto, TypeOK, CallTypes
<1>7. CASE lock # << >>
  <2>1. lock' # << >> /\ Head(lock') = Head(lock)
    BY <1>3, <1>4, <1>7
  <2>2. pc'[Head(lock)] = pc[Head(lock)] /\ frame'[Head(lock)] = frame[Head(lock)]
    BY <1>3, <1>5, <1>7
  <2>3. Pending' = Pending /\ Top' = Top
    BY <1>1, <1>7, <2>1, <2>2 DEF Pending, Top, EnvelopeOf
  <2> QED BY <1>1, <2>3 DEF GoesOn
<1>8. CASE lock = << >>
  <2>1. lock' = << >> \/ (lock' # << >> /\ Head(lock') = c /\ pc'[c] = "queued")
    BY <1>4, <1>6, <1>8
  <2>2. Pending' = Pending /\ Top' = Top
    BY <1>1, <1>8, <2>1 DEF Pending, Top
  <2> QED BY <1>1, <2>2 DEF GoesOn
<1> QED BY <1>7, <1>8

\* The turns of a commit.
LEMMA CommitGoesOn ==
  ASSUME WritesSucceed, IInv, CallInv, NEW c \in Calls,
         Enter(c) \/ Authorized(c) \/ Persisted(c) \/ Sequenced(c)
  PROVE  GoesOn \/ Decides(c) \/ Publishes(c)
<1> USE DEF IInv
<1>1. HoldsLock(c) /\ serverSeq \in Nat /\ frame[c].wrote /\ pc[c] # "idle"
  BY DEF Enter, Authorized, Persisted, Sequenced, HoldsLock, Locked, Mutex, CommitsExclude, TypeOK,
         HubTypes, CallInv, Holds
<1>2. lock # << >> /\ Head(lock) = c
  BY <1>1 DEF HoldsLock
<1>3. CASE Enter(c) \/ Authorized(c)
  <2>1. pc[c] \in {"queued", "authorizing"} /\ Pending = log /\ Top = serverSeq
    BY <1>2, <1>3 DEF Enter, Authorized, Pending, Top
  <2>2. CASE Accept(c) \/ Reject(c)
    BY <1>1, <1>3, <2>1, <2>2 DEF Decides
  <2>3. CASE Abandon(c)
    <3>1. UNCHANGED <<hydrated, serverSeq, log>> /\ Release /\ Settle(c, "failed")
      BY <2>3 DEF Abandon, seqVars, histVars
    <3>2. Pending' = log' /\ Top' = serverSeq'
      BY <1>1, <3>1, ReleasedHead DEF Settle
    <3> QED BY <1>1, <2>1, <3>1, <3>2 DEF GoesOn
  <2>4. CASE Goto(c, "authorizing", frame[c])
             /\ UNCHANGED <<seqVars, instVars, lock, ring, linkVars, storeVars, histVars>>
    <3>1. pc'[c] = "authorizing" /\ UNCHANGED <<hydrated, serverSeq, lock, log>>
      BY <2>4 DEF Goto, TypeOK, CallTypes, seqVars, histVars
    <3>2. Pending' = log /\ Top' = serverSeq
      BY <1>2, <3>1 DEF Pending, Top
    <3> QED BY <1>1, <2>1, <3>1, <3>2 DEF GoesOn
  <2> QED BY <1>3, <2>2, <2>3, <2>4 DEF Enter, Authorized, Reduce
<1>4. CASE Persisted(c)
  <2>1. pc[c] = "persisting" /\ Sequence(c, frame[c]) /\ frame[c] \in Frame
    BY <1>1, <1>4 DEF Persisted, TypeOK, CallTypes
  <2>2. PICK ok \in WriteOutcomes : Goto(c, "sequencing", [frame[c] EXCEPT !.wrote = ok])
    BY <2>1 DEF Sequence
  <2>3. frame[c].seq = serverSeq + 1
    BY <2>1 DEF Numbers
  <2>4. UNCHANGED <<hydrated, lock, log>> /\ serverSeq' = serverSeq + 1
    BY <2>1, <2>3 DEF Sequence, histVars
  <2>5. /\ pc'[c] = "sequencing" /\ frame'[c].uri = frame[c].uri /\ frame'[c].seq = frame[c].seq
        /\ frame'[c].accepted = frame[c].accepted
    <3>1. pc'[c] = "sequencing" /\ frame'[c] = [frame[c] EXCEPT !.wrote = ok]
      BY <2>2 DEF Goto, TypeOK, CallTypes
    <3> QED BY <2>1, <3>1 DEF Frame
  <2>6. Pending' = Pending
    BY <1>2, <2>1, <2>4, <2>5 DEF Pending, EnvelopeOf
  <2>7. Top' = Top
    BY <1>2, <2>1, <2>4, <2>5 DEF Top
  <2> QED BY <1>1, <2>4, <2>6, <2>7 DEF GoesOn
<1>5. CASE Sequenced(c)
  BY <1>1, <1>5 DEF Sequenced, Publishes
<1> QED BY <1>3, <1>4, <1>5

LEMMA CommitCases ==
  ASSUME WritesSucceed, IInv, CallInv, [Next]_vars
  PROVE  GoesOn \/ Hydrate \/ Crash \/ \E c \in Calls : Decides(c) \/ Publishes(c)
BY OutsideGoesOn, QueueGoesOn, CommitGoesOn, StepCases

\* What a commit that decides adds.
LEMMA DecidesIs ==
  ASSUME IInv, NEW c \in Calls, Decides(c)
  PROVE  \E e \in Envelope :
           /\ Pending = log /\ Pending' = Append(log, e) /\ log' = log /\ UNCHANGED inbox
           /\ hydrated /\ hydrated' /\ serverSeq <= serverSeq'
           /\ Top = serverSeq /\ e.seq = serverSeq + 1 /\ Top' = serverSeq + 1
           /\ e.uri = frame[c].uri /\ e.call = c /\ (e.accepted <=> Accept(c))
<1> USE DEF IInv
<1>1. /\ lock # << >> /\ Head(lock) = c /\ pc[c] \in {"queued", "authorizing"}
      /\ serverSeq \in Nat /\ pc[c] \in Holding
  BY DEF Decides, HoldsLock, TypeOK, HubTypes, Holding, Locked
<1>2. Pending = log /\ Top = serverSeq
  BY <1>1 DEF Pending, Top
<1>3. hydrated
  BY <1>1, PastReady DEF Resting, Settled
<1>4. frame[c] \in Frame /\ frame[c].uri \in Uris
  BY <1>1, HoldingFacts
<1> DEFINE e(b) == [kind |-> "action", uri |-> frame[c].uri, seq |-> serverSeq + 1, call |-> c,
                    accepted |-> b]
<1>5. \A b \in BOOLEAN : /\ e(b) \in Envelope /\ e(b).seq = serverSeq + 1 /\ e(b).call = c
                         /\ e(b).uri = frame[c].uri /\ e(b).accepted = b
  BY <1>1, <1>4 DEF Envelope
<1>6. CASE Accept(c)
  <2>1. PICK ok \in WriteOutcomes :
          Goto(c, "persisting", [frame[c] EXCEPT !.seq = NextSeq, !.accepted = TRUE, !.wrote = ok])
    BY <1>6 DEF Accept
  <2>2. UNCHANGED <<hydrated, serverSeq, lock, log, inbox>>
    BY <1>6 DEF Accept, seqVars, histVars
  <2>3. /\ pc'[c] = "persisting" /\ frame'[c].uri = frame[c].uri /\ frame'[c].seq = serverSeq + 1
        /\ frame'[c].accepted = TRUE
    <3>1. /\ pc'[c] = "persisting"
          /\ frame'[c] = [frame[c] EXCEPT !.seq = NextSeq, !.accepted = TRUE, !.wrote = ok]
      BY <2>1 DEF Goto, TypeOK, CallTypes
    <3> QED BY <1>4, <3>1 DEF Frame, NextSeq
  <2>4. Pending' = Append(log, e(TRUE)) /\ Top' = serverSeq + 1
    BY <1>1, <2>2, <2>3 DEF Pending, Top, EnvelopeOf
  <2>5. hydrated' /\ serverSeq <= serverSeq'
    BY <1>1, <1>3, <2>2
  <2> HIDE DEF e
  <2> QED BY <1>2, <1>3, <1>5, <1>6, <2>2, <2>4, <2>5
<1>7. CASE Reject(c) /\ ~Accept(c)
  <2> DEFINE f == [frame[c] EXCEPT !.seq = NextSeq, !.accepted = FALSE]
  <2>1. Sequence(c, f)
    BY <1>7 DEF Reject
  <2>2. f \in Frame /\ f.uri = frame[c].uri /\ f.seq = serverSeq + 1 /\ f.accepted = FALSE
    <3>1. NextSeq = serverSeq + 1 /\ NextSeq \in Nat
      BY <1>1 DEF NextSeq
    <3> QED BY <1>4, <3>1 DEF Frame
  <2> HIDE DEF f
  <2>3. PICK ok \in WriteOutcomes : Goto(c, "sequencing", [f EXCEPT !.wrote = ok])
    BY <2>1 DEF Sequence
  <2>4. UNCHANGED <<hydrated, lock, log, inbox>> /\ serverSeq' = serverSeq + 1
    BY <2>1, <2>2 DEF Sequence, histVars
  <2>5. /\ pc'[c] = "sequencing" /\ frame'[c].uri = frame[c].uri /\ frame'[c].seq = serverSeq + 1
        /\ frame'[c].accepted = FALSE
    <3>1. pc'[c] = "sequencing" /\ frame'[c] = [f EXCEPT !.wrote = ok]
      BY <2>3 DEF Goto, TypeOK, CallTypes
    <3> QED BY <2>2, <3>1 DEF Frame
  <2>6. Pending' = Append(log, e(FALSE)) /\ Top' = serverSeq + 1
    BY <1>1, <2>4, <2>5 DEF Pending, Top, EnvelopeOf
  <2>7. hydrated' /\ serverSeq <= serverSeq'
    BY <1>1, <1>3, <2>4
  <2> HIDE DEF e
  <2> QED BY <1>2, <1>3, <1>5, <1>7, <2>4, <2>6, <2>7
<1> QED BY <1>6, <1>7 DEF Decides

\* A commit that publishes adds what it had decided.
LEMMA PublishesIs ==
  ASSUME IInv, NEW c \in Calls, Publishes(c)
  PROVE  LET e == EnvelopeOf(c) IN
         /\ e \in Envelope /\ e.seq = serverSeq
         /\ Pending = Append(log, e) /\ log' = Append(log, e) /\ Pending' = log'
         /\ UNCHANGED <<hydrated, serverSeq>> /\ Top = serverSeq /\ Top' = serverSeq
<1> USE DEF IInv
<1>1. pc[c] = "sequencing" /\ frame[c].wrote /\ Publish(c)
  BY DEF Publishes
<1>2. HoldsLock(c) /\ lock # << >> /\ Head(lock) = c
  BY <1>1, HeadOnly DEF HoldsLock
<1>3. Pending = Append(log, EnvelopeOf(c)) /\ Top = serverSeq
  BY <1>1, <1>2 DEF Pending, Top
<1>4. UNCHANGED <<hydrated, serverSeq>> /\ log' = Append(log, EnvelopeOf(c)) /\ Release
      /\ \E label : Goto(c, label, Blank)
  BY <1>1 DEF Publish, seqVars, Settle
<1>5. Pending' = log' /\ Top' = serverSeq'
  BY <1>2, <1>4, ReleasedHead
<1> QED BY <1>1, <1>3, <1>4, <1>5, PublishedFacts

-----------------------------------------------------------------------------
(* The links of one client take turns: a commit begins on a live link, and then every     *)
(* other link of its client that has committed is gone.                                   *)

\* Two requests of one client on different links.
Rivals(a, b) ==
  a.conn # None /\ b.conn # None /\ ClientOf[a.conn] = ClientOf[b.conn] /\ a.conn # b.conn

Decidedly(i) == arg[Pending[i].call]

\* Of the commits that were published, and of the one under way.
TurnInv ==
  \A i \in DOMAIN Pending :
    /\ Decidedly(i).conn # None => link[Decidedly(i).conn] # "unused"
    /\ \A j \in DOMAIN Pending : i < j /\ Rivals(Decidedly(i), Decidedly(j)) =>
         /\ link[Decidedly(i).conn] = "gone"
         /\ \A k \in DOMAIN Pending : k > j => Decidedly(k).conn # Decidedly(i).conn

\* A handle is used once: it never comes back, and is never new again.
LEMMA HandlesAge ==
  ASSUME IInv, LInv, [Next]_vars, NEW h \in Conns
  PROVE  /\ link[h] = "gone" => link'[h] = "gone"
         /\ link[h] # "unused" => link'[h] # "unused"
<1> USE DEF IInv, TypeOK, HubTypes
<1>1. CASE Ignores \/ Withdraws \/ \E g \in Conns : Serves(g)
  BY <1>1 DEF Ignores, Withdraws, Serves
<1>2. CASE Announces
  <2>1. link'[h] = link[h] \/ (link'[h] = "gone" /\ Live(h))
    BY <1>2 DEF Announces, Broadcast, Dead, Subscribers
  <2> QED BY <2>1
<1>3. CASE \E g \in Conns : Connect(g)
  BY <1>3 DEF Connect, Previous, Live
<1> QED BY <1>1, <1>2, <1>3, StepLinks DEF LinkStep

\* A call that begins to commit for a link finds it live, in the same turn.
LEMMA DecidesLive ==
  ASSUME IInv, NEW c \in Calls, Decides(c), arg[c].conn # None
  PROVE  Live(arg[c].conn)
<1> USE DEF IInv, TypeOK, CallTypes
<1>1. pc'[c] \in {"persisting", "sequencing"}
  BY DEF Decides, Accept, Reject, Sequence, Goto
<1>2. ~Abandon(c) /\ ~Goto(c, "authorizing", frame[c])
  BY <1>1 DEF Abandon, Settle, Goto
<1> QED BY <1>2 DEF Decides, Enter, Authorized

\* What a turn of a commit does to the commits that are decided.
LEMMA CommitPending ==
  ASSUME IInv, NEW c \in Calls, Enter(c) \/ Authorized(c) \/ Persisted(c) \/ Sequenced(c)
  PROVE  Pending' = Pending \/ Pending' = log \/ Decides(c)
<1> USE DEF IInv
<1>1. HoldsLock(c) /\ lock # << >> /\ Head(lock) = c
  BY DEF Enter, Authorized, Persisted, Sequenced, HoldsLock, Locked, Mutex, CommitsExclude
<1>2. CASE Abandon(c)
  <2>1. log' = log /\ Release /\ Settle(c, "failed")
    BY <1>2 DEF Abandon, histVars
  <2> QED BY <1>1, <2>1, ReleasedHead DEF Settle
<1>3. CASE Enter(c) \/ Authorized(c)
  <2>1. pc[c] \in {"queued", "authorizing"} /\ Pending = log
    BY <1>1, <1>3 DEF Enter, Authorized, Pending
  <2>2. CASE Accept(c) \/ Reject(c)
    BY <1>1, <1>3, <2>1, <2>2 DEF Decides
  <2>3. CASE Goto(c, "authorizing", frame[c])
             /\ UNCHANGED <<seqVars, instVars, lock, ring, linkVars, storeVars, histVars>>
    <3>1. pc'[c] = "authorizing" /\ UNCHANGED <<lock, log>>
      BY <2>3 DEF Goto, TypeOK, CallTypes, histVars
    <3> QED BY <1>1, <2>1, <3>1 DEF Pending
  <2> QED BY <1>2, <1>3, <2>2, <2>3 DEF Enter, Authorized, Reduce
<1>4. CASE Persisted(c) /\ ~Abandon(c)
  <2>1. pc[c] = "persisting" /\ Sequence(c, frame[c]) /\ frame[c] \in Frame
    BY <1>4 DEF Persisted, TypeOK, CallTypes
  <2>2. PICK ok \in WriteOutcomes : Goto(c, "sequencing", [frame[c] EXCEPT !.wrote = ok])
    BY <2>1 DEF Sequence
  <2>3. UNCHANGED <<lock, log>>
    BY <2>1 DEF Sequence, histVars
  <2>4. /\ pc'[c] = "sequencing" /\ frame'[c].uri = frame[c].uri /\ frame'[c].seq = frame[c].seq
        /\ frame'[c].accepted = frame[c].accepted
    <3>1. pc'[c] = "sequencing" /\ frame'[c] = [frame[c] EXCEPT !.wrote = ok]
      BY <2>2 DEF Goto, TypeOK, CallTypes
    <3> QED BY <2>1, <3>1 DEF Frame
  <2> QED BY <1>1, <2>1, <2>3, <2>4 DEF Pending, EnvelopeOf
<1>5. CASE Sequenced(c) /\ ~Abandon(c)
  BY <1>5, PublishesIs DEF Sequenced, Publishes
<1> QED BY <1>2, <1>3, <1>4, <1>5

\* The commits that are decided stay, are cut back to the published ones, or grow by one.
LEMMA PendingMoves ==
  ASSUME IInv, [Next]_vars
  PROVE  Pending' = Pending \/ Pending' = log \/ \E c \in Calls : Decides(c)
<1>1. CASE Outside \/ \E c \in Calls : Dispatch(c) \/ DispatchFrom(c)
  BY <1>1, OutsideGoesOn, QueueGoesOn DEF GoesOn
<1>2. CASE Hydrate
  BY <1>2 DEF Hydrate, Pending, EnvelopeOf, callVars, histVars
<1>3. CASE Crash
  BY <1>3 DEF Crash, Pending, histVars
<1> QED BY <1>1, <1>2, <1>3, CommitPending, StepCases

\* The published commits are the first of those decided.
LEMMA PendingBegins ==
  ASSUME IInv
  PROVE  /\ \A i \in DOMAIN log : i \in DOMAIN Pending /\ Pending[i] = log[i] /\ i \in Nat
         /\ \A i \in DOMAIN Pending :
              i \in DOMAIN log \/ (Decided /\ Pending[i].call = Head(lock))
<1>1. log \in Seq(Envelope)
  BY DEF IInv, TypeOK, HistoryTypes
<1>2. CASE Pending = log
  BY <1>1, <1>2
<1>3. CASE Decided /\ Pending = Append(log, EnvelopeOf(Head(lock)))
  <2> DEFINE e == EnvelopeOf(Head(lock))
  <2>1. e.call = Head(lock)
    BY DEF EnvelopeOf
  <2>2. Decided /\ Pending = Append(log, e)
    BY <1>3
  <2> HIDE DEF e
  <2> QED BY <1>1, <2>1, <2>2, AppendIs
<1> QED BY <1>2, <1>3 DEF Pending, Decided

LEMMA TurnInit == Init => TurnInv
BY DEF Init, TurnInv, Pending

LEMMA TurnHolds == IInv /\ LInv /\ ClientInv /\ TurnInv /\ [Next]_vars => TurnInv'
<1> SUFFICES ASSUME IInv, LInv, ClientInv, TurnInv, [Next]_vars PROVE TurnInv'
  OBVIOUS
<1>1. \A i \in DOMAIN Pending : /\ arg'[Pending[i].call] = Decidedly(i)
                                /\ Decidedly(i) \in Request
  <2>1. ASSUME NEW i \in DOMAIN Pending
        PROVE  Pending[i].call \in Calls /\ pc[Pending[i].call] # "idle"
    <3>1. CASE i \in DOMAIN log
      <4>1. log[i] \in Envelope /\ Pending[i] = log[i]
        BY <3>1, PendingBegins DEF IInv, TypeOK, HistoryTypes
      <4> QED BY <3>1, <4>1 DEF ClientInv, Envelope
    <3>2. CASE Decided /\ Pending[i].call = Head(lock)
      BY <3>2, HeadFacts DEF Decided, IInv
    <3> QED BY <3>1, <3>2, PendingBegins
  <2> QED BY <2>1, RequestsStay, HubAssumption DEF Decidedly, IInv, TypeOK, CallTypes
<1>2. \A i \in DOMAIN Pending : Decidedly(i).conn # None =>
        /\ Decidedly(i).conn \in Conns
        /\ link[Decidedly(i).conn] = "gone" => link'[Decidedly(i).conn] = "gone"
        /\ link'[Decidedly(i).conn] # "unused"
  BY <1>1, HandlesAge DEF TurnInv, Request
<1>3. CASE Pending' = Pending
  BY <1>1, <1>2, <1>3 DEF TurnInv, Decidedly, Rivals
<1>4. CASE Pending' = log
  <2>1. \A i \in DOMAIN Pending' : i \in DOMAIN Pending /\ Decidedly(i)' = Decidedly(i)
    BY <1>1, <1>4, PendingBegins DEF Decidedly
  <2> QED BY <1>2, <2>1 DEF TurnInv, Rivals
<1>5. ASSUME NEW c \in Calls, Decides(c)
      PROVE  TurnInv'
  <2> DEFINE b == arg[c]
  <2>1. PICK e \in Envelope : Pending = log /\ Pending' = Append(log, e) /\ e.call = c
    BY <1>5, DecidesIs
  <2>2. log \in Seq(Envelope)
    BY DEF IInv, TypeOK, HistoryTypes
  <2> PICK n \in Nat : n = Len(log) + 1
    BY <2>2
  <2>3. /\ \A i \in DOMAIN Pending : /\ i \in Nat /\ i \in DOMAIN Pending' /\ i < n
                                     /\ Pending'[i] = Pending[i]
        /\ n \in DOMAIN Pending' /\ Pending'[n] = e
        /\ \A i \in DOMAIN Pending' : i \in DOMAIN Pending \/ i = n
    BY <2>1, <2>2, AppendIs
  <2>4. pc[c] # "idle" /\ b \in Request
    BY <1>5, HubAssumption DEF Decides, IInv, TypeOK, CallTypes
  <2>5. /\ \A i \in DOMAIN Pending : Decidedly(i)' = Decidedly(i)
        /\ Decidedly(n)' = b
    BY <1>1, <2>1, <2>3, <2>4, RequestsStay DEF Decidedly
  <2>6. b.conn # None => b.conn \in Conns /\ Live(b.conn) /\ link'[b.conn] # "unused"
    <3>1. b.conn # None => b.conn \in Conns /\ Live(b.conn)
      BY <1>5, <2>4, DecidesLive DEF Request
    <3> QED BY <3>1, HandlesAge DEF Live
  <2>7. \A i \in DOMAIN Pending : Rivals(Decidedly(i), b) => link'[Decidedly(i).conn] = "gone"
    <3>1. ASSUME NEW i \in DOMAIN Pending, Rivals(Decidedly(i), b)
          PROVE  link[Decidedly(i).conn] = "gone"
      <4>1. Decidedly(i).conn \in Conns /\ link[Decidedly(i).conn] # "unused"
        BY <1>2, <3>1 DEF Rivals, TurnInv
      <4>2. ~Live(Decidedly(i).conn)
        BY <2>6, <3>1, <4>1 DEF Rivals, LInv, OneLinkPerClient
      <4> QED BY <4>1, <4>2 DEF Live, IInv, TypeOK, HubTypes
    <3> QED BY <1>2, <3>1 DEF Rivals
  <2>8. \A i \in DOMAIN Pending : Decidedly(i).conn # None /\ link[Decidedly(i).conn] = "gone"
                                    => b.conn # Decidedly(i).conn
    BY <2>6 DEF Live
  <2> HIDE DEF b
  <2>9. ASSUME NEW i \in DOMAIN Pending', NEW j \in DOMAIN Pending', i < j,
               Rivals(Decidedly(i), Decidedly(j))'
        PROVE  /\ link'[Decidedly(i)'.conn] = "gone"
               /\ \A k \in DOMAIN Pending' : k > j => Decidedly(k)'.conn # Decidedly(i)'.conn
    <3>1. i \in DOMAIN Pending /\ Decidedly(i)' = Decidedly(i) /\ Decidedly(i).conn # None
      BY <2>3, <2>5, <2>9 DEF Rivals
    <3>2. CASE j \in DOMAIN Pending
      <4>1. Rivals(Decidedly(i), Decidedly(j))
        BY <2>5, <2>9, <3>1, <3>2 DEF Rivals
      <4>2. /\ link[Decidedly(i).conn] = "gone"
            /\ \A k \in DOMAIN Pending : k > j => Decidedly(k).conn # Decidedly(i).conn
        BY <2>9, <3>1, <3>2, <4>1 DEF TurnInv
      <4> QED BY <1>2, <2>3, <2>5, <2>8, <3>1, <4>2
    <3>3. CASE j = n
      <4>1. Rivals(Decidedly(i), b)
        BY <2>5, <2>9, <3>1, <3>3 DEF Rivals
      <4>2. \A k \in DOMAIN Pending' : ~(k > j)
        BY <2>3, <3>3
      <4> QED BY <2>7, <3>1, <4>1, <4>2
    <3> QED BY <2>3, <3>2, <3>3
  <2>10. \A i \in DOMAIN Pending' : Decidedly(i)'.conn # None => link'[Decidedly(i)'.conn] # "unused"
    BY <1>2, <2>3, <2>5, <2>6
  <2> QED BY <2>9, <2>10 DEF TurnInv
<1> QED BY <1>3, <1>4, <1>5, PendingMoves

\* One link's envelopes are in the order of its clientSeq, each committed once: the
\* watermark is raised before the queue, and the mutex is handed on in the queue's order.
\* And the links of one client take turns: whatever was queued for a link that was replaced
\* is not committed once its successor has committed, because the link is checked in the
\* turn that begins the commit.
THEOREM ClientOrder == Spec => []CommitsFollowClient
<1>1. ASSUME IInv, ClientInv, TurnInv
      PROVE  CommitsFollowClient
  <2>1. \A i, j \in DOMAIN log : i < j => Before(Logged(i), Logged(j))
    BY <1>1 DEF ClientInv
  <2>2. \A i \in DOMAIN log : i \in DOMAIN Pending /\ Decidedly(i) = Logged(i)
    BY <1>1, PendingBegins DEF Decidedly, Logged
  <2>3. \A i, j \in DOMAIN log : i < j /\ Rivals(Logged(i), Logged(j)) =>
          /\ link[Logged(i).conn] = "gone"
          /\ \A k \in DOMAIN log : k > j => Logged(k).conn # Logged(i).conn
    BY <1>1, <2>2 DEF TurnInv
  <2> QED BY <2>1, <2>3 DEF CommitsFollowClient, Before, Logged, Rivals
<1> QED BY <1>1, ClientInit, ClientHolds, TurnInit, TurnHolds, LinkInvariance, PTL DEF Spec

-----------------------------------------------------------------------------
(* Snapshots are of channels with a state, and none is newer than the hub's counter. *)

Stated(m)      == m.kind = "snapshots" => \A s \in m.snapshots : s.uri \in Uris \ Stateless
Recent(m, seq) == m.kind = "snapshots" => \A s \in m.snapshots : s.fromSeq <= seq

ToldInv ==
  /\ \A i \in DOMAIN log : log[i].uri \notin Stateless
  /\ \A h \in Conns : link[h] = "unused" => inbox[h] = << >>
  /\ \A h \in Conns : \A i \in DOMAIN inbox[h] :
       /\ Stated(inbox[h][i])
       /\ Live(h) => /\ Recent(inbox[h][i], serverSeq)
                     /\ inbox[h][i].kind = "snapshots" => hydrated

\* A link is told nothing, or something that is true of now.
LEMMA TellSteps ==
  ASSUME IInv, LInv, CallInv, [Next]_vars, NEW h \in Conns
  PROVE  \/ inbox'[h] = inbox[h]
         \/ Live(h) /\ \E m \in Message : inbox'[h] = Append(inbox[h], m) /\ Honest(m)
<1> USE DEF IInv
<1>1. CASE Silent
  BY <1>1 DEF Silent
<1>2. ASSUME NEW m \in Message, Broadcast(m)
      PROVE  inbox'[h] = inbox[h] \/ (Live(h) /\ inbox'[h] = Append(inbox[h], m))
  BY <1>2 DEF Broadcast, Subscribers
<1>3. CASE Notifies
  BY <1>2, <1>3 DEF Notifies, Honest
<1>4. ASSUME NEW c \in Calls, Publishes(c)
      PROVE  inbox'[h] = inbox[h] \/ (Live(h) /\ \E m \in Message : inbox'[h] = Append(inbox[h], m) /\ Honest(m))
  <2> DEFINE e == EnvelopeOf(c)
  <2>1. e \in Envelope /\ e.kind = "action" /\ Broadcast(e)
    BY <1>4, PublishedFacts DEF Publishes, Publish
  <2>2. e \in Message
    BY <2>1 DEF Message
  <2> HIDE DEF e
  <2> QED BY <1>2, <2>1, <2>2 DEF Honest
<1>5. ASSUME NEW c \in Calls, Subscribe(c)
      PROVE  inbox'[h] = inbox[h] \/ (Live(h) /\ \E m \in Message : inbox'[h] = Append(inbox[h], m) /\ Honest(m))
  <2> DEFINE m == [kind |-> "snapshots", call |-> c, missing |-> {},
                   snapshots |-> {SnapshotOf(c, frame[c].uri)}]
  <2>1. /\ m \in Message /\ Honest(m) /\ arg[c].conn \in Conns /\ Live(arg[c].conn)
        /\ inbox' = [inbox EXCEPT ![arg[c].conn] = Append(@, m)]
    BY <1>5, SubscribeIs
  <2> HIDE DEF m
  <2> QED BY <2>1 DEF TypeOK, HistoryTypes
<1>6. ASSUME NEW c \in Calls, NEW g \in Frame, NEW kept \in SUBSET Uris, Rounds(c, g, kept)
      PROVE  inbox'[h] = inbox[h] \/ (Live(h) /\ \E m \in Message : inbox'[h] = Append(inbox[h], m) /\ Honest(m))
  <2> DEFINE m == Resumption(c, g, kept)
             k == arg[c].conn
  <2>1. /\ subs'[k] = kept /\ Live(k) /\ k \in Conns
        /\ h # k => inbox'[h] = inbox[h]
        /\ UNCHANGED inbox \/ inbox'[k] = Append(inbox[k], m)
    BY <1>6, RoundIs DEF Rounds
  <2>2. kept \cap Internal = {}
    <3>1. LInv'
      BY LinkHolds
    <3> QED BY <2>1, <3>1 DEF LInv, InternalHidden
  <2>3. m \in Message /\ Honest(m)
    BY <1>6, <2>2, ResumptionIs
  <2> HIDE DEF m
  <2> QED BY <2>1, <2>3
<1> QED BY <1>1, <1>3, <1>4, <1>5, <1>6, FollowCases

\* A handle is live once, from when it was unused.
LEMMA HandleSteps ==
  ASSUME IInv, LInv, [Next]_vars, NEW h \in Conns
  PROVE  /\ link'[h] = "unused" => link[h] = "unused"
         /\ Live(h)' => Live(h) \/ link[h] = "unused"
<1>1. LinkStep /\ link \in [Conns -> {"unused", "live", "gone"}]
  BY StepLinks DEF IInv, TypeOK, HubTypes
<1>2. CASE Ignores \/ Withdraws \/ \E g \in Conns : Serves(g)
  BY <1>2 DEF Ignores, Withdraws, Serves, Live
<1>3. CASE Announces
  BY <1>1, <1>3 DEF Announces, Broadcast, Live
<1>4. ASSUME NEW g \in Conns, Connect(g)
      PROVE  /\ link'[h] = "unused" => link[h] = "unused"
             /\ Live(h)' => Live(h) \/ link[h] = "unused"
  BY <1>1, <1>4 DEF Connect, Live
<1> QED BY <1>1, <1>2, <1>3, <1>4 DEF LinkStep

\* The counter of a hub that has read it only grows.
LEMMA CounterSteps ==
  ASSUME WritesSucceed, IInv, CallInv, [Next]_vars, hydrated, ~Crash
  PROVE  hydrated' /\ serverSeq <= serverSeq'
<1>1. CASE GoesOn
  BY <1>1 DEF GoesOn
<1>2. ASSUME NEW c \in Calls, Decides(c)
      PROVE  hydrated' /\ serverSeq <= serverSeq'
  BY <1>2, DecidesIs
<1>3. ASSUME NEW c \in Calls, Publishes(c)
      PROVE  hydrated' /\ serverSeq <= serverSeq'
  <2>1. UNCHANGED <<hydrated, serverSeq>> /\ serverSeq \in Nat
    BY <1>3, PublishesIs DEF IInv, TypeOK, HubTypes
  <2> QED BY <2>1
<1>4. ~Hydrate
  BY DEF Hydrate
<1> QED BY <1>1, <1>2, <1>3, <1>4, CommitCases

\* What a hub broadcasts.
LEMMA LogSteps ==
  ASSUME WritesSucceed, IInv, CallInv, [Next]_vars
  PROVE  \/ log' = log
         \/ \E e \in Envelope : log' = Append(log, e) /\ e.uri \notin Stateless
<1>1. ASSUME NEW c \in Calls, Decides(c)
      PROVE  log' = log
  BY <1>1, DecidesIs
<1>2. ASSUME NEW c \in Calls, Publishes(c)
      PROVE  \E e \in Envelope : log' = Append(log, e) /\ e.uri \notin Stateless
  <2>1. EnvelopeOf(c).uri = frame[c].uri
    BY DEF EnvelopeOf
  <2>2. frame[c].uri \notin Stateless
    BY <1>2 DEF Publishes, CallInv, Holds, Holding, Locked
  <2> QED BY <1>2, <2>1, <2>2, PublishesIs
<1> QED BY <1>1, <1>2, CommitCases DEF GoesOn, Hydrate, Crash, histVars

LEMMA ToldInit == Init => ToldInv
BY DEF Init, ToldInv, Live

LEMMA ToldHolds ==
  ASSUME WritesSucceed, IInv, LInv, CallInv, ToldInv, [Next]_vars
  PROVE  ToldInv'
<1> USE DEF IInv
<1>1. \A i \in DOMAIN log' : log'[i].uri \notin Stateless
  <2>1. CASE log' = log
    BY <2>1 DEF ToldInv
  <2>2. ASSUME NEW e \in Envelope, log' = Append(log, e), e.uri \notin Stateless
        PROVE  \A i \in DOMAIN log' : log'[i].uri \notin Stateless
    BY <2>2, AppendIs DEF ToldInv, TypeOK, HistoryTypes
  <2> QED BY <2>1, <2>2, LogSteps
<1>2. \A h \in Conns : link'[h] = "unused" => inbox'[h] = << >>
  BY HandleSteps, TellSteps DEF ToldInv, Live
<1>3. ASSUME NEW h \in Conns, NEW i \in DOMAIN inbox'[h]
      PROVE  Stated(inbox'[h][i])
  <2>1. inbox[h] \in Seq(Message)
    BY DEF TypeOK, HistoryTypes
  <2>2. CASE inbox'[h] = inbox[h]
    BY <1>3, <2>2 DEF ToldInv
  <2>3. ASSUME NEW m \in Message, inbox'[h] = Append(inbox[h], m), Honest(m)
        PROVE  Stated(inbox'[h][i])
    <3>1. Stated(m)
      BY <2>3 DEF Honest, Stated
    <3> QED BY <1>3, <2>1, <2>3, <3>1, AppendIs DEF ToldInv
  <2> QED BY <2>2, <2>3, TellSteps
<1>4. ASSUME NEW h \in Conns, NEW i \in DOMAIN inbox'[h], Live(h)'
      PROVE  Recent(inbox'[h][i], serverSeq') /\ (inbox'[h][i].kind = "snapshots" => hydrated')
  <2>1. inbox[h] \in Seq(Message) /\ serverSeq \in Nat
    BY DEF TypeOK, HistoryTypes, HubTypes
  <2>2. TypeOK'
    BY StepHolds
  <2>3. ~Crash
    BY <1>4 DEF Crash, Live
  <2>4. hydrated => hydrated' /\ serverSeq <= serverSeq' /\ serverSeq' \in Nat
    BY <2>2, <2>3, CounterSteps DEF TypeOK, HubTypes
  <2>5. ASSUME NEW m \in Message, Recent(m, serverSeq), m.kind = "snapshots" => hydrated
        PROVE  Recent(m, serverSeq') /\ (m.kind = "snapshots" => hydrated')
    <3>1. CASE m.kind # "snapshots"
      BY <3>1 DEF Recent
    <3>2. CASE m.kind = "snapshots"
      <4>1. \A s \in m.snapshots : s.fromSeq \in Nat
        BY <2>5, <3>2 DEF Message, Snapshot, Envelope
      <4> QED BY <2>1, <2>4, <2>5, <3>2, <4>1 DEF Recent
    <3> QED BY <3>1, <3>2
  <2>6. ASSUME i \in DOMAIN inbox[h], inbox'[h][i] = inbox[h][i]
        PROVE  Recent(inbox'[h][i], serverSeq') /\ (inbox'[h][i].kind = "snapshots" => hydrated')
    <3>1. Live(h)
      <4>1. inbox[h] # << >>
        BY <2>6
      <4> QED BY <1>4, <4>1, HandleSteps DEF ToldInv
    <3>2. inbox[h][i] \in Message
      BY <2>1, <2>6
    <3> QED BY <2>5, <2>6, <3>1, <3>2 DEF ToldInv
  <2>7. CASE inbox'[h] = inbox[h]
    BY <1>4, <2>6, <2>7
  <2>8. ASSUME NEW m \in Message, inbox'[h] = Append(inbox[h], m), Honest(m)
        PROVE  Recent(inbox'[h][i], serverSeq') /\ (inbox'[h][i].kind = "snapshots" => hydrated')
    <3>1. Recent(m, serverSeq) /\ (m.kind = "snapshots" => hydrated)
      BY <2>1, <2>8 DEF Honest, Recent
    <3>2. inbox'[h][i] = m \/ (i \in DOMAIN inbox[h] /\ inbox'[h][i] = inbox[h][i])
      BY <1>4, <2>1, <2>8, AppendIs
    <3> QED BY <2>5, <2>6, <3>1, <3>2
  <2> QED BY <2>7, <2>8, TellSteps
<1> QED BY <1>1, <1>2, <1>3, <1>4 DEF ToldInv

LEMMA ResumedImplies ==
  ASSUME TypeOK, ToldInv, ResumedInv
  PROVE  ResumedSeesAll
<1> SUFFICES ASSUME NEW h \in Conns, NEW i \in Replays(h), ~Reconnecting(h),
                    \A j \in Replays(h) : j <= i,
                    NEW u \in inbox[h][i].resumed \cap subs[h], LastSnapshot(h, u) < i,
                    NEW k \in DOMAIN log, log[k].uri = u, log[k].seq > inbox[h][i].lastSeen
             PROVE  log[k] \in inbox[h][i].actions \cup {inbox[h][j] : j \in Positions(h)}
  BY DEF ResumedSeesAll
<1>1. i \in DOMAIN inbox[h] /\ inbox[h][i].kind = "replay"
  BY DEF Replays, Positions
<1>2. \A j \in DOMAIN inbox[h] : j \in Nat
  BY DEF TypeOK, HistoryTypes
<1>3. ASSUME NEW j \in DOMAIN inbox[h], i < j
      PROVE  inbox[h][j].kind # "replay" /\ ~Shows(inbox[h][j], u)
  <2>1. ~(j <= i)
    BY <1>1, <1>2, <1>3
  <2>2. inbox[h][j].kind # "replay"
    BY <2>1 DEF Replays, Positions
  <2>3. LastSnapshot(h, u) \in Nat
    BY <1>2, LastSnapshotIs
  <2>4. ~(j <= LastSnapshot(h, u)) /\ (LastSnapshot(h, u) = 0 => ~Shows(inbox[h][j], u))
    BY <1>1, <1>2, <1>3, <2>3, LastSnapshotIs
  <2>5. ~Shows(inbox[h][j], u)
    BY <2>4, LastSnapshotIs
  <2> QED BY <2>2, <2>5
<1>4. CASE u \notin Stateless
  <2>1. Complete(inbox[h][i], u, inbox[h], log)
    BY <1>1, <1>3, <1>4, RestingUncovered DEF ResumedInv, Informed, Latest
  <2> QED BY <2>1 DEF Complete, Positions
<1>5. CASE u \in Stateless
  <2>1. log[k].uri \notin Stateless
    BY DEF ToldInv
  <2> QED BY <1>5, <2>1
<1> QED BY <1>4, <1>5

\* A link that was resumed by a replay, and is not reconnecting, was sent every envelope of
\* its channels that came after what it had seen: in the replay, or live (reconnect, the
\* replay ring, #broadcast).  If the write of a singleton's initial state can fail, a
\* reconnect may throw half way, with channels subscribed and nothing answered.
THEOREM ResumedMissesNothing ==
  ASSUME WritesSucceed
  PROVE  Spec => []ResumedSeesAll
<1> DEFINE I == IInv /\ LInv /\ CallInv /\ ToldInv /\ ResumedInv
<1>1. Init => I
  BY InitHolds, LinkInit, CallInit, ToldInit, ResumedInit
<1>2. I /\ [Next]_vars => I'
  BY StepHolds, LinkHolds, CallHolds, ToldHolds, ResumedHolds DEF IInv
<1>3. I => ResumedSeesAll
  BY ResumedImplies DEF IInv
<1> QED BY <1>1, <1>2, <1>3, PTL DEF Spec

-----------------------------------------------------------------------------
(* The mirror of a link that follows a channel. *)

\* The snapshot of u in a message.
Shot(m, u) == CHOOSE s \in m.snapshots : s.uri = u

\* The envelopes of a transcript that a client applies to the snapshot at i.
Later(messages, i, u, from) ==
  {j \in DOMAIN messages : /\ j > i /\ messages[j].kind = "action" /\ messages[j].uri = u
                           /\ messages[j].accepted /\ messages[j].seq > from}

SeenFrom(from, history) ==
  IF history = << >> \/ Last(history).seq < from THEN from ELSE Last(history).seq

\* The snapshot at i is torn, or what is made of it is what the log says.
Mirrors(u, messages, pending, history, i) ==
  LET base == Shot(messages[i], u) IN
  \/ base.state # AsOf(pending, u, base.fromSeq)
  \/ Applied(base.state, messages, Later(messages, i, u, base.fromSeq))
       = AsOf(pending, u, SeenFrom(base.fromSeq, history))

Mirrored(u, messages, pending, history) ==
  \A i \in DOMAIN messages :
    Shows(messages[i], u) /\ Latest(i, u, messages) => Mirrors(u, messages, pending, history, i)

MirrorInv ==
  \A h \in Conns : \A u \in subs[h] \ Stateless : ~Covered(h, u) => Mirrored(u, inbox[h], Pending, log)

Ordered(history) == \A i, j \in DOMAIN history : i < j => history[i].seq < history[j].seq

LEMMA ShotIs ==
  ASSUME NEW m \in Message, NEW u, Shows(m, u)
  PROVE  /\ Shot(m, u) \in m.snapshots /\ Shot(m, u).uri = u
         /\ Shot(m, u).state \in State /\ Shot(m, u).fromSeq \in Nat
<1>1. \E s \in m.snapshots : s.uri = u
  BY DEF Shows
<1>2. Shot(m, u) \in m.snapshots /\ Shot(m, u).uri = u
  BY <1>1 DEF Shot
<1>3. m.snapshots \subseteq Snapshot
  BY DEF Message, Shows, Envelope
<1> QED BY <1>2, <1>3 DEF Snapshot

\* The highest sequence a mirror accounts for.
LEMMA SeenIs ==
  ASSUME NEW l \in Seq(Envelope), Ordered(l), NEW from \in Nat
  PROVE  /\ SeenFrom(from, l) \in Nat /\ from <= SeenFrom(from, l)
         /\ \A i \in DOMAIN l : l[i].seq \in Nat /\ l[i].seq <= SeenFrom(from, l)
         /\ \A n \in Nat : from <= n /\ (\A i \in DOMAIN l : l[i].seq <= n) => SeenFrom(from, l) <= n
         /\ \A n \in Nat : from < n /\ (\A i \in DOMAIN l : l[i].seq < n) => SeenFrom(from, l) < n
<1>1. \A i \in DOMAIN l : l[i].seq \in Nat
  <2>1. \A i \in DOMAIN l : l[i] \in Envelope
    OBVIOUS
  <2> QED BY <2>1 DEF Envelope
<1>2. CASE l = << >>
  <2>1. DOMAIN l = {} /\ SeenFrom(from, l) = from
    BY <1>2 DEF SeenFrom
  <2> QED BY <2>1
<1>3. CASE l # << >>
  <2> DEFINE n == Len(l)
  <2>1. n \in DOMAIN l /\ Last(l) = l[n]
    BY <1>3 DEF Last
  <2>2. \A i \in DOMAIN l : i = n \/ i < n
    OBVIOUS
  <2> HIDE DEF n
  <2>3. \A i \in DOMAIN l : l[i].seq <= l[n].seq
    BY <1>1, <2>1, <2>2 DEF Ordered
  <2>4. SeenFrom(from, l) = IF l[n].seq < from THEN from ELSE l[n].seq
    BY <1>3, <2>1 DEF SeenFrom
  <2> QED BY <1>1, <2>1, <2>3, <2>4
<1> QED BY <1>2, <1>3

LEMMA SeenAppended ==
  ASSUME NEW l \in Seq(Envelope), NEW e \in Envelope, NEW from \in Nat, from <= e.seq
  PROVE  SeenFrom(from, Append(l, e)) = e.seq
<1>1. e.seq \in Nat
  BY DEF Envelope
<1>2. Append(l, e) # << >> /\ Last(Append(l, e)) = e
  BY DEF Last
<1> QED BY <1>1, <1>2 DEF SeenFrom

\* The positions of a longer transcript.
LEMMA LongerTranscript ==
  ASSUME NEW t \in Seq(Message), NEW m, NEW u, NEW i \in DOMAIN Append(t, m),
         Shows(Append(t, m)[i], u), Latest(i, u, Append(t, m))
  PROVE  \/ i = Len(t) + 1 /\ Append(t, m)[i] = m /\ Shows(m, u)
         \/ /\ i \in DOMAIN t /\ Append(t, m)[i] = t[i] /\ i < Len(t) + 1
            /\ m.kind # "replay" /\ ~Shows(m, u)
            /\ Shows(t[i], u) /\ Latest(i, u, t)
<1> DEFINE s == Append(t, m)
           n == Len(t) + 1
<1>1. /\ \A j \in DOMAIN t : j \in DOMAIN s /\ s[j] = t[j] /\ j < n
      /\ n \in DOMAIN s /\ s[n] = m
      /\ \A j \in DOMAIN s : j \in DOMAIN t \/ j = n
  BY AppendIs
<1> HIDE DEF s, n
<1>2. i \in DOMAIN s /\ Shows(s[i], u) /\ Latest(i, u, s)
  BY DEF s
<1>3. CASE i = n
  BY <1>1, <1>2, <1>3 DEF s, n
<1>4. CASE i \in DOMAIN t
  <2>1. m.kind # "replay" /\ ~Shows(m, u)
    BY <1>1, <1>2, <1>4 DEF Latest
  <2>2. Latest(i, u, t) /\ Shows(t[i], u)
    BY <1>1, <1>2, <1>4 DEF Latest
  <2> QED BY <1>1, <1>4, <2>1, <2>2 DEF s, n
<1> QED BY <1>1, <1>2, <1>3, <1>4

\* What is applied grows by the new envelope at most.
LEMMA LaterAppended ==
  ASSUME NEW t \in Seq(Message), NEW m \in Message, NEW u, NEW from, NEW i \in DOMAIN t,
         NEW start \in State
  PROVE  /\ Applied(start, t, Later(t, i, u, from)) \in State
         /\ Applied(start, Append(t, m), Later(Append(t, m), i, u, from)) =
              IF m.kind = "action" /\ m.uri = u /\ m.accepted /\ m.seq > from
              THEN Append(Applied(start, t, Later(t, i, u, from)), m.call)
              ELSE Applied(start, t, Later(t, i, u, from))
<1> DEFINE s == Append(t, m)
           n == Len(t) + 1
           W == Later(t, i, u, from)
           X == Later(s, i, u, from)
<1>1. /\ \A j \in DOMAIN t : j \in DOMAIN s /\ s[j] = t[j] /\ j < n
      /\ n \in DOMAIN s /\ s[n] = m
      /\ \A j \in DOMAIN s : j \in DOMAIN t \/ j = n
  BY AppendIs
<1>2. \A j \in DOMAIN t : t[j] \in Message
  OBVIOUS
<1>3. \A k \in Message : k.call \in Calls
  BY DEF Message, Envelope
<1>4. n > i
  BY <1>1
<1> HIDE DEF s, n
<1>5. \A j \in DOMAIN t : j \in W <=> j \in X
  BY <1>1 DEF Later
<1>6. n \in X <=> m.kind = "action" /\ m.uri = u /\ m.accepted /\ m.seq > from
  BY <1>1, <1>4 DEF Later
<1> HIDE DEF W, X
<1>7. \A j \in DOMAIN t : j \in W => t[j].call \in Calls
  BY <1>2, <1>3
<1>8. Applied(start, t, W) \in State
  BY <1>7, AppliedTyped
<1>9. Applied(start, s, X) = IF n \in X THEN Append(Applied(start, t, W), m.call)
                                        ELSE Applied(start, t, W)
  BY <1>3, <1>5, <1>7, AppliedAppended DEF s, n
<1> QED BY <1>6, <1>8, <1>9 DEF s, W, X

\* A message about something else.
LEMMA MirroredBeside ==
  ASSUME NEW u, NEW t \in Seq(Message), NEW p, NEW l, Mirrored(u, t, p, l), NEW m \in Message,
         ~Shows(m, u), ~(m.kind = "action" /\ m.uri = u)
  PROVE  Mirrored(u, Append(t, m), p, l)
<1> DEFINE s == Append(t, m)
<1>1. ASSUME NEW i \in DOMAIN s, Shows(s[i], u), Latest(i, u, s)
      PROVE  Mirrors(u, s, p, l, i)
  <2>1. i \in DOMAIN t /\ s[i] = t[i] /\ Shows(t[i], u) /\ Latest(i, u, t)
    BY <1>1, LongerTranscript
  <2>2. t[i] \in Message
    BY <2>1
  <2> HIDE DEF s
  <2> DEFINE b == Shot(t[i], u)
  <2>3. b.state \in State
    BY <2>1, <2>2, ShotIs
  <2>4. Mirrors(u, t, p, l, i)
    BY <2>1 DEF Mirrored
  <2> HIDE DEF b
  <2>5. Applied(b.state, s, Later(s, i, u, b.fromSeq)) = Applied(b.state, t, Later(t, i, u, b.fromSeq))
    BY <2>1, <2>3, LaterAppended DEF s
  <2> QED BY <2>1, <2>4, <2>5 DEF Mirrors, b
<1> HIDE DEF s
<1>2. Mirrored(u, s, p, l)
  BY <1>1 DEF Mirrored
<1> QED BY <1>2 DEF s

\* A new snapshot is a mirror of its own, and a replay ends the claim.
LEMMA MirroredAnew ==
  ASSUME NEW u, NEW t \in Seq(Message), NEW p, NEW l \in Seq(Envelope), Ordered(l),
         NEW m \in Message, NEW n \in Nat, \A i \in DOMAIN l : l[i].seq <= n,
         m.kind = "replay" \/ (Shows(m, u) /\ \A s \in m.snapshots : s.fromSeq = n)
  PROVE  Mirrored(u, Append(t, m), p, l)
<1> DEFINE s == Append(t, m)
<1>1. ASSUME NEW i \in DOMAIN s, Shows(s[i], u), Latest(i, u, s)
      PROVE  Mirrors(u, s, p, l, i)
  <2>1. i = Len(t) + 1 /\ s[i] = m /\ Shows(m, u)
    BY <1>1, LongerTranscript
  <2> DEFINE b == Shot(m, u)
  <2>2. b.state \in State /\ b.fromSeq = n
    BY <2>1, ShotIs DEF Shows
  <2>3. s \in Seq(Message) /\ \A j \in DOMAIN s : ~(j > i)
    BY <2>1
  <2> HIDE DEF s, b
  <2>4. \A j \in DOMAIN s : j \notin Later(s, i, u, n)
    BY <2>3 DEF Later
  <2>5. Applied(b.state, s, Later(s, i, u, n)) = b.state
    BY <2>2, <2>3, <2>4, AppliedNothing
  <2>6. SeenFrom(n, l) = n
    BY SeenIs
  <2> QED BY <2>1, <2>2, <2>5, <2>6 DEF Mirrors, b
<1> HIDE DEF s
<1>2. Mirrored(u, s, p, l)
  BY <1>1 DEF Mirrored
<1> QED BY <1>2 DEF s

\* A commit decides: what it will broadcast is newer than all that is mirrored.
LEMMA MirroredDecided ==
  ASSUME NEW u, NEW t \in Seq(Message), NEW l \in Seq(Envelope), Ordered(l), Mirrored(u, t, l, l),
         NEW n \in Nat, NEW e \in Envelope, e.seq = n + 1, \A i \in DOMAIN l : l[i].seq <= n,
         \A i \in DOMAIN t : Recent(t[i], n)
  PROVE  Mirrored(u, t, Append(l, e), l)
<1>1. ASSUME NEW i \in DOMAIN t, Shows(t[i], u), Latest(i, u, t)
      PROVE  Mirrors(u, t, Append(l, e), l, i)
  <2> DEFINE b == Shot(t[i], u)
  <2>1. b.state \in State /\ b.fromSeq \in Nat /\ b.fromSeq <= n
    <3>1. t[i] \in Message
      OBVIOUS
    <3> QED BY <1>1, <3>1, ShotIs DEF Recent, Shows
  <2>2. Mirrors(u, t, l, l, i)
    BY <1>1 DEF Mirrored
  <2> HIDE DEF b
  <2>3. SeenFrom(b.fromSeq, l) \in Nat /\ SeenFrom(b.fromSeq, l) <= n
    BY <2>1, SeenIs
  <2>4. \A k \in Nat : k <= n => AsOf(Append(l, e), u, k) = AsOf(l, u, k)
    <3>1. \A k \in Nat : k <= n => ~(e.seq <= k)
      OBVIOUS
    <3> QED BY <3>1, AsOfAppended
  <2> QED BY <2>1, <2>2, <2>3, <2>4 DEF Mirrors, b
<1> QED BY <1>1 DEF Mirrored

\* It publishes an envelope of another channel, ...
LEMMA MirroredPast ==
  ASSUME NEW u, NEW t \in Seq(Message), NEW l \in Seq(Envelope), Ordered(l), NEW e \in Envelope,
         Mirrored(u, t, Append(l, e), l), \A i \in DOMAIN l : l[i].seq < e.seq,
         \A i \in DOMAIN t : Recent(t[i], e.seq), e.uri # u
  PROVE  Mirrored(u, t, Append(l, e), Append(l, e))
<1>1. e.seq \in Nat
  BY DEF Envelope
<1>2. ASSUME NEW i \in DOMAIN t, Shows(t[i], u), Latest(i, u, t)
      PROVE  Mirrors(u, t, Append(l, e), Append(l, e), i)
  <2> DEFINE b == Shot(t[i], u)
             k == SeenFrom(b.fromSeq, l)
  <2>1. b.state \in State /\ b.fromSeq \in Nat /\ b.fromSeq <= e.seq
    <3>1. t[i] \in Message
      OBVIOUS
    <3> QED BY <1>2, <3>1, ShotIs DEF Recent, Shows
  <2>2. Mirrors(u, t, Append(l, e), l, i)
    BY <1>2 DEF Mirrored
  <2> HIDE DEF b
  <2>3. k \in Nat /\ \A j \in DOMAIN l : l[j].seq \in Nat /\ l[j].seq <= k
    BY <2>1, SeenIs
  <2>4. SeenFrom(b.fromSeq, Append(l, e)) = e.seq
    BY <2>1, SeenAppended
  <2> HIDE DEF k
  <2>5. \A n : AsOf(Append(l, e), u, n) = AsOf(l, u, n)
    BY AsOfAppended
  <2>6. AsOf(l, u, k) = AsOf(l, u, e.seq)
    <3>1. \A j \in DOMAIN l : l[j].seq <= k <=> l[j].seq <= e.seq
      BY <1>1, <2>3
    <3> QED BY <3>1, AsOfSame
  <2> QED BY <2>2, <2>4, <2>5, <2>6 DEF Mirrors, b, k
<1> QED BY <1>2 DEF Mirrored

\* ... or of this one, to a link that applies it if its snapshot is older.
LEMMA MirroredApplied ==
  ASSUME NEW u, NEW t \in Seq(Message), NEW l \in Seq(Envelope), Ordered(l), NEW e \in Envelope,
         Mirrored(u, t, Append(l, e), l), \A i \in DOMAIN l : l[i].seq < e.seq,
         \A i \in DOMAIN t : Recent(t[i], e.seq), e.uri = u
  PROVE  Mirrored(u, Append(t, e), Append(l, e), Append(l, e))
<1>1. e.seq \in Nat /\ e.kind = "action" /\ e \in Message
  BY DEF Envelope, Message
<1> DEFINE s == Append(t, e)
<1>2. ASSUME NEW i \in DOMAIN s, Shows(s[i], u), Latest(i, u, s)
      PROVE  Mirrors(u, s, Append(l, e), Append(l, e), i)
  <2>1. i \in DOMAIN t /\ s[i] = t[i] /\ Shows(t[i], u) /\ Latest(i, u, t)
    BY <1>1, <1>2, LongerTranscript DEF Shows
  <2> DEFINE b == Shot(t[i], u)
             k == SeenFrom(b.fromSeq, l)
             held == Applied(b.state, t, Later(t, i, u, b.fromSeq))
  <2>2. b.state \in State /\ b.fromSeq \in Nat /\ b.fromSeq <= e.seq
    <3>1. t[i] \in Message
      BY <2>1
    <3> QED BY <2>1, <3>1, ShotIs DEF Recent, Shows
  <2>3. Mirrors(u, t, Append(l, e), l, i)
    BY <2>1 DEF Mirrored
  <2> HIDE DEF b
  <2>4. Applied(b.state, s, Later(s, i, u, b.fromSeq)) =
          IF e.accepted /\ e.seq > b.fromSeq THEN Append(held, e.call) ELSE held
    <3> DEFINE from  == b.fromSeq
               start == b.state
    <3>1. start \in State
      BY <2>2
    <3> HIDE DEF from, start
    <3>2. Applied(start, s, Later(s, i, u, from)) =
            IF e.kind = "action" /\ e.uri = u /\ e.accepted /\ e.seq > from
            THEN Append(Applied(start, t, Later(t, i, u, from)), e.call)
            ELSE Applied(start, t, Later(t, i, u, from))
      BY <1>1, <2>1, <3>1, LaterAppended
    <3> QED BY <1>1, <3>2 DEF from, start
  <2> HIDE DEF held, s
  <2>5. /\ k \in Nat /\ b.fromSeq <= k /\ k <= e.seq /\ (b.fromSeq < e.seq => k < e.seq)
        /\ \A j \in DOMAIN l : l[j].seq \in Nat /\ l[j].seq <= k
    <3>1. \A j \in DOMAIN l : l[j].seq \in Nat
      BY <2>2, SeenIs
    <3>2. \A j \in DOMAIN l : l[j].seq <= e.seq
      BY <1>1, <3>1
    <3> QED BY <1>1, <2>2, <3>2, SeenIs
  <2>6. SeenFrom(b.fromSeq, Append(l, e)) = e.seq
    BY <2>2, SeenAppended
  <2> HIDE DEF k
  <2>7. CASE b.state # AsOf(Append(l, e), u, b.fromSeq)
    BY <2>1, <2>7 DEF Mirrors, b
  <2>8. CASE held = AsOf(Append(l, e), u, k) /\ b.fromSeq = e.seq
    <3>1. k = e.seq /\ ~(e.seq > b.fromSeq)
      BY <1>1, <2>2, <2>5, <2>8
    <3> QED BY <2>1, <2>4, <2>6, <2>8, <3>1 DEF Mirrors, b
  <2>9. CASE held = AsOf(Append(l, e), u, k) /\ b.fromSeq # e.seq
    <3>1. e.seq > b.fromSeq /\ k < e.seq /\ ~(e.seq <= k) /\ e.seq <= e.seq
      BY <1>1, <2>2, <2>5, <2>9
    <3>2. held = AsOf(l, u, k)
      BY <2>9, <3>1, AsOfAppended
    <3>3. AsOf(l, u, k) = AsOf(l, u, e.seq)
      <4>1. \A j \in DOMAIN l : l[j].seq <= k <=> l[j].seq <= e.seq
        BY <1>1, <2>5, <3>1
      <4> QED BY <4>1, AsOfSame
    <3>4. AsOf(Append(l, e), u, e.seq) = IF e.accepted THEN Append(AsOf(l, u, e.seq), e.call)
                                                       ELSE AsOf(l, u, e.seq)
      BY <3>1, AsOfAppended
    <3> QED BY <2>1, <2>4, <2>6, <3>1, <3>2, <3>3, <3>4 DEF Mirrors, b
  <2> QED BY <2>3, <2>7, <2>8, <2>9 DEF Mirrors, b, k, held
<1> HIDE DEF s
<1>3. Mirrored(u, s, Append(l, e), Append(l, e))
  BY <1>2 DEF Mirrored
<1> QED BY <1>3 DEF s

\* What a step does to the pending envelope.
LEMMA PendingSteps ==
  ASSUME WritesSucceed, IInv, CallInv, [Next]_vars
  PROVE  \/ Crash
         \/ Pending' = Pending /\ log' = log
         \/ \E e \in Envelope : /\ Pending = log /\ Pending' = Append(log, e) /\ log' = log
                                /\ UNCHANGED inbox /\ hydrated /\ e.seq = serverSeq + 1
         \/ \E c \in Calls : Publishes(c)
<1>1. CASE Hydrate
  BY <1>1 DEF Hydrate, Pending, EnvelopeOf, callVars, histVars
<1>2. ASSUME NEW c \in Calls, Decides(c)
      PROVE  \E e \in Envelope : /\ Pending = log /\ Pending' = Append(log, e) /\ log' = log
                                 /\ UNCHANGED inbox /\ hydrated /\ e.seq = serverSeq + 1
  BY <1>2, DecidesIs
<1> QED BY <1>1, <1>2, CommitCases DEF GoesOn

LEMMA LogFacts ==
  ASSUME IInv
  PROVE  /\ log \in Seq(Envelope) /\ Ordered(log) /\ storedSeq \in Nat /\ serverSeq \in Nat
         /\ \A i \in DOMAIN log : log[i].seq \in Nat /\ log[i].seq <= storedSeq
         /\ hydrated => \A i \in DOMAIN log : log[i].seq <= serverSeq
<1>1. log \in Seq(Envelope) /\ storedSeq \in Nat /\ serverSeq \in Nat
  BY DEF IInv, TypeOK, HistoryTypes, HubTypes
<1>2. \A i \in DOMAIN log : log[i] \in Envelope
  BY <1>1
<1>3. \A i \in DOMAIN log : log[i].seq \in Nat
  BY <1>2 DEF Envelope
<1>4. \A i \in DOMAIN log : log[i].seq <= storedSeq
  BY DEF IInv, History, DeliveredIsDurable
<1>5. hydrated => storedSeq <= serverSeq
  BY DEF IInv, Numbers
<1>6. Ordered(log)
  BY DEF IInv, History, LogIncreasing, Ordered
<1> QED BY <1>1, <1>3, <1>4, <1>5, <1>6

LEMMA MirrorInit == Init => MirrorInv
BY DEF Init, MirrorInv

LEMMA MirrorHolds ==
  ASSUME WritesSucceed, IInv, LInv, LInv', CallInv, ToldInv, MirrorInv, [Next]_vars
  PROVE  MirrorInv'
<1>1. log \in Seq(Envelope) /\ Ordered(log) /\ serverSeq \in Nat /\ storedSeq \in Nat
  BY LogFacts
<1>2. ASSUME NEW h \in Conns, NEW u \in subs'[h] \ Stateless, ~Covered(h, u)'
      PROVE  Mirrored(u, inbox'[h], Pending', log')
  <2>1. u \in Uris
    <3>1. TypeOK'
      BY StepHolds DEF IInv
    <3> QED BY <1>2, <3>1 DEF TypeOK, HubTypes
  <2>2. inbox[h] \in Seq(Message)
    BY DEF IInv, TypeOK, HistoryTypes
  <2>3. ~Crash
    BY <1>2 DEF Crash
  <2>4. ASSUME u \in subs[h]
        PROVE  \A i \in DOMAIN inbox[h] : Recent(inbox[h][i], serverSeq)
    BY <2>4 DEF ToldInv, LInv, StaleHasNothing
  <2>5. ASSUME Carries(h, u) \/ Hears(h, u)
        PROVE  u \in subs[h] /\ Mirrored(u, inbox[h], Pending, log)
    BY <1>2, <2>5 DEF MirrorInv, Carries, Hears
  <2>6. CASE Carries(h, u)
    <3>1. Mirrored(u, inbox'[h], Pending, log)
      <4>1. CASE inbox'[h] = inbox[h]
        BY <2>5, <2>6, <4>1
      <4>2. ASSUME NEW m \in Message, inbox'[h] = Append(inbox[h], m), m.kind # "action", ~Shows(m, u)
            PROVE  Mirrored(u, inbox'[h], Pending, log)
        BY <2>2, <2>5, <2>6, <4>2, MirroredBeside
      <4> QED BY <2>6, <4>1, <4>2 DEF Carries
    <3>2. log' = log
      BY <2>6 DEF Carries
    <3>3. CASE Pending' = Pending
      BY <3>1, <3>2, <3>3
    <3>4. ASSUME NEW e \in Envelope, Pending = log, Pending' = Append(log, e), UNCHANGED inbox,
                 hydrated, e.seq = serverSeq + 1
          PROVE  Mirrored(u, inbox'[h], Pending', log')
      <4>1. Mirrored(u, inbox[h], log, log) /\ \A i \in DOMAIN inbox[h] : Recent(inbox[h][i], serverSeq)
        BY <2>4, <2>5, <2>6, <3>4
      <4>2. \A i \in DOMAIN log : log[i].seq <= serverSeq
        BY <3>4, LogFacts
      <4>3. Mirrored(u, inbox[h], Append(log, e), log)
        BY <1>1, <2>2, <3>4, <4>1, <4>2, MirroredDecided
      <4> QED BY <3>2, <3>4, <4>3
    <3>5. ASSUME NEW c \in Calls, Publishes(c)
          PROVE  FALSE
      <4>1. log' = Append(log, EnvelopeOf(c))
        BY <3>5, PublishesIs
      <4> QED BY <1>1, <3>2, <4>1
    <3> QED BY <2>3, <3>3, <3>4, <3>5, PendingSteps
  <2>7. CASE Hears(h, u)
    <3>1. PICK c \in Calls : /\ Publishes(c)
                             /\ \/ inbox'[h] = Append(inbox[h], EnvelopeOf(c))
                                \/ inbox'[h] = inbox[h] /\ EnvelopeOf(c).uri # u
      BY <2>7 DEF Hears
    <3> DEFINE e == EnvelopeOf(c)
    <3>2. /\ e \in Envelope /\ e.seq = serverSeq
          /\ Pending = Append(log, e) /\ log' = Append(log, e) /\ Pending' = Append(log, e)
      BY <3>1, PublishesIs
    <3>3. \A i \in DOMAIN log : log[i].seq < e.seq
      BY <3>1, PublishedFacts DEF Publishes
    <3> HIDE DEF e
    <3>4. /\ Mirrored(u, inbox[h], Append(log, e), log)
          /\ \A i \in DOMAIN inbox[h] : Recent(inbox[h][i], e.seq)
      BY <2>4, <2>5, <2>7, <3>2
    <3>5. CASE e.uri # u
      <4>1. Mirrored(u, inbox[h], Append(log, e), Append(log, e))
        BY <1>1, <2>2, <3>2, <3>3, <3>4, <3>5, MirroredPast
      <4>2. CASE inbox'[h] = inbox[h]
        BY <3>2, <4>1, <4>2
      <4>3. CASE inbox'[h] = Append(inbox[h], e)
        <5>1. e \in Message /\ ~Shows(e, u)
          BY <3>2 DEF Message, Envelope, Shows
        <5>2. Mirrored(u, Append(inbox[h], e), Append(log, e), Append(log, e))
          BY <2>2, <3>5, <4>1, <5>1, MirroredBeside
        <5> QED BY <3>2, <4>3, <5>2
      <4> QED BY <3>1, <4>2, <4>3 DEF e
    <3>6. CASE e.uri = u
      <4>1. inbox'[h] = Append(inbox[h], e)
        BY <3>1, <3>6 DEF e
      <4>2. Mirrored(u, Append(inbox[h], e), Append(log, e), Append(log, e))
        BY <1>1, <2>2, <3>2, <3>3, <3>4, <3>6, MirroredApplied
      <4> QED BY <3>2, <4>1, <4>2
    <3> QED BY <3>5, <3>6
  <2>8. CASE IsShown(h, u)
    <3>1. PICK m \in Message : inbox'[h] = Append(inbox[h], m) /\ Shows(m, u) /\ Honest(m)
      BY <2>8 DEF IsShown
    <3>2. hydrated /\ \A s \in m.snapshots : s.fromSeq = serverSeq
      BY <3>1 DEF Honest, Shows
    <3>3. \A i \in DOMAIN log : log[i].seq <= serverSeq
      BY <3>2, LogFacts
    <3>4. \A p : Mirrored(u, Append(inbox[h], m), p, log)
      BY <1>1, <2>2, <3>1, <3>2, <3>3, MirroredAnew
    <3> QED BY <2>8, <3>1, <3>4 DEF IsShown
  <2>9. CASE IsReplayed(h)
    <3>1. PICK m \in Message : inbox'[h] = Append(inbox[h], m) /\ m.kind = "replay"
      BY <2>9 DEF IsReplayed
    <3>2. \A p : Mirrored(u, Append(inbox[h], m), p, log)
      BY <1>1, <2>2, <3>1, LogFacts, MirroredAnew
    <3> QED BY <2>9, <3>1, <3>2 DEF IsReplayed
  <2> QED BY <1>2, <2>1, <2>6, <2>7, <2>8, <2>9, FollowSteps
<1> QED BY <1>2 DEF MirrorInv

LEMMA MirrorImplies ==
  ASSUME TypeOK, ToldInv, MirrorInv
  PROVE  MirrorFollowsLogUnlessTorn
<1> SUFFICES ASSUME NEW h \in Conns, NEW u \in subs[h], Following(h, u), ~Torn(h, u)
             PROVE  Mirror(h, u) = AsOf(Pending, u, Seen(h, u))
  BY DEF MirrorFollowsLogUnlessTorn, MirrorIsExact
<1> DEFINE n == LastSnapshot(h, u)
           t == inbox[h]
           b == Shot(t[n], u)
<1>1. n # 0 /\ ~Reconnecting(h) /\ \A i \in Replays(h) : i < n
  BY DEF Following
<1>2. n \in DOMAIN t /\ Shows(t[n], u) /\ \A i \in DOMAIN t : Shows(t[i], u) => i <= n
  BY <1>1, LastSnapshotIs
<1>3. \A i \in DOMAIN t : i \in Nat
  BY DEF TypeOK, HistoryTypes
<1>4. SnapshotAt(h, u, n) = b
  BY DEF SnapshotAt, Shot
<1>5. Mirror(h, u) = Applied(b.state, t, Later(t, n, u, b.fromSeq))
  BY <1>4 DEF Mirror, Later, IsAction, Positions
<1>6. Seen(h, u) = SeenFrom(b.fromSeq, log)
  BY <1>4 DEF Seen, SeenFrom
<1>7. b.state = AsOf(Pending, u, b.fromSeq)
  BY <1>1, <1>4 DEF Torn
<1>8. Latest(n, u, t)
  <2>1. ASSUME NEW j \in DOMAIN t, n < j
        PROVE  t[j].kind # "replay" /\ ~Shows(t[j], u)
    <3>1. ~(j <= n) /\ ~(j < n)
      BY <1>2, <1>3, <2>1
    <3> QED BY <1>1, <1>2, <3>1 DEF Replays, Positions
  <2> QED BY <2>1 DEF Latest
<1>9. u \notin Stateless
  <2>1. Stated(t[n])
    BY <1>2 DEF ToldInv
  <2> QED BY <1>2, <2>1 DEF Stated, Shows
<1>10. Mirrors(u, t, Pending, log, n)
  <2>1. Mirrored(u, t, Pending, log)
    BY <1>1, <1>9, RestingUncovered DEF MirrorInv
  <2> QED BY <1>2, <1>8, <2>1 DEF Mirrored
<1> QED BY <1>5, <1>6, <1>7, <1>10 DEF Mirrors

\* A subscribed link that applies every later envelope to its last snapshot holds what the
\* accepted envelopes up to the last broadcast reduce to, unless that snapshot was torn
\* (subscribe and reconnect read the object between the two writes of #commit).
THEOREM MirrorFollows ==
  ASSUME WritesSucceed
  PROVE  Spec => []MirrorFollowsLogUnlessTorn
<1> DEFINE I == IInv /\ LInv /\ CallInv /\ ToldInv /\ MirrorInv
<1>1. Init => I
  BY InitHolds, LinkInit, CallInit, ToldInit, MirrorInit
<1>2. I /\ [Next]_vars => I'
  BY StepHolds, LinkHolds, CallHolds, ToldHolds, MirrorHolds DEF IInv
<1>3. I => MirrorFollowsLogUnlessTorn
  BY MirrorImplies DEF IInv
<1> QED BY <1>1, <1>2, <1>3, PTL DEF Spec

-----------------------------------------------------------------------------
(* Event sourcing: the states in memory and in the storage are what the log reduces to. *)

\* Before the hydration nothing was broadcast, and nobody was shown a state.
StateInv ==
  /\ hydrated \/ log = << >>
  /\ \A u \in Uris \ Stateless : heap[u][Host] = AsOf(Pending, u, Top)
                                 /\ storage[u] = AsOf(Pending, u, Top)

\* What a snapshot shows, given what is decided.
AtMostOneAhead(m, pending, top) ==
  m.kind = "snapshots" =>
    \A s \in m.snapshots : \E n \in {s.fromSeq, s.fromSeq + 1} :
      n <= top /\ s.state = AsOf(pending, s.uri, n)

ShotInv ==
  \A h \in Conns : \A i \in DOMAIN inbox[h] :
    /\ inbox[h][i].kind = "snapshots" => hydrated
    /\ AtMostOneAhead(inbox[h][i], Pending, Top)

\* Nothing that is decided is above Top, and nothing broadcast above serverSeq.
LEMMA PendingFacts ==
  ASSUME IInv
  PROVE  /\ Pending \in Seq(Envelope) /\ Top \in {serverSeq, serverSeq + 1} /\ Top \in Nat
         /\ hydrated => \A i \in DOMAIN Pending : Pending[i].seq \in Nat /\ Pending[i].seq <= Top
         /\ ~hydrated => Pending = log
<1>1. /\ log \in Seq(Envelope) /\ serverSeq \in Nat
      /\ \A i \in DOMAIN log : log[i].seq \in Nat
      /\ hydrated => \A i \in DOMAIN log : log[i].seq <= serverSeq
  BY LogFacts
<1>2. Top \in {serverSeq, serverSeq + 1} /\ Top \in Nat /\ serverSeq <= Top
  BY <1>1 DEF Top
<1>3. CASE ~Decided
  <2>1. Pending = log
    BY <1>3 DEF Decided, Pending
  <2>2. hydrated => \A i \in DOMAIN log : log[i].seq <= Top
    BY <1>1, <1>2
  <2> QED BY <1>1, <1>2, <2>1, <2>2
<1>4. CASE Decided
  <2> DEFINE c == Head(lock)
             e == EnvelopeOf(c)
  <2>1. c \in Calls /\ pc[c] \in {"persisting", "sequencing"} /\ lock # << >>
    BY <1>4, HeadFacts DEF Decided, IInv
  <2>2. Pending = Append(log, e)
    BY <2>1 DEF Pending
  <2>3. e \in Envelope /\ e.seq = frame[c].seq
    BY <2>1, EnvelopeTyped DEF IInv, Holding, Locked, EnvelopeOf
  <2>4. frame[c].seq = Top
    BY <2>1 DEF Top, IInv, Numbers
  <2>5. hydrated
    BY <2>1, PastReady DEF Resting, Settled
  <2> HIDE DEF e, c
  <2>6. \A i \in DOMAIN Pending : \/ i \in DOMAIN log /\ Pending[i] = log[i]
                                  \/ Pending[i] = e
    BY <1>1, <2>2, AppendIs
  <2>7. \A i \in DOMAIN Pending : Pending[i].seq \in Nat /\ Pending[i].seq <= Top
    BY <1>1, <1>2, <2>3, <2>4, <2>5, <2>6
  <2> QED BY <1>1, <1>2, <2>2, <2>3, <2>5, <2>7
<1> QED BY <1>3, <1>4

\* What is decided of the past stays.
LEMMA PastStays ==
  ASSUME WritesSucceed, IInv, CallInv, [Next]_vars, hydrated, ~Crash,
         NEW u, NEW n \in Nat, n <= Top
  PROVE  n <= Top' /\ AsOf(Pending', u, n) = AsOf(Pending, u, n)
<1>1. CASE GoesOn
  BY <1>1 DEF GoesOn
<1>2. ASSUME NEW c \in Calls, Publishes(c)
      PROVE  Pending' = Pending /\ Top' = Top
  BY <1>2, PublishesIs
<1>3. ASSUME NEW c \in Calls, Decides(c)
      PROVE  n <= Top' /\ AsOf(Pending', u, n) = AsOf(Pending, u, n)
  <2>1. PICK e \in Envelope : /\ Pending = log /\ Pending' = Append(log, e)
                              /\ Top = serverSeq /\ e.seq = serverSeq + 1 /\ Top' = serverSeq + 1
    BY <1>3, DecidesIs
  <2>2. n <= Top' /\ ~(e.seq <= n)
    BY <2>1, LogFacts
  <2> QED BY <2>1, <2>2, LogFacts, AsOfAppended
<1>4. ~Hydrate
  BY DEF Hydrate
<1> QED BY <1>1, <1>2, <1>3, <1>4, CommitCases

LEMMA StateInit == Init /\ Calm => StateInv
<1> SUFFICES ASSUME Init, Calm PROVE StateInv
  OBVIOUS
<1>1. log = << >> /\ Pending = << >>
  BY DEF Init, Pending
<1>2. \A u \in Uris \ Stateless : heap[u][Host] = << >> /\ storage[u] = << >>
  BY HubAssumption DEF Init, Calm, Objects
<1> QED BY <1>1, <1>2, AsOfEmpty DEF StateInv

LEMMA StateHolds ==
  ASSUME Calm, IInv, CallInv, StateInv, [Next]_vars
  PROVE  StateInv'
<1>1. WritesSucceed /\ ~Crash
  BY DEF Calm, Crash
<1>2. hydrated' \/ log' = << >>
  <2>1. CASE hydrated
    BY <1>1, <2>1, CounterSteps
  <2>2. CASE ~hydrated
    <3>1. \A c \in Calls : ~Publishes(c)
      BY <2>2, PastReady DEF Publishes, Resting, Settled
    <3>2. log' = log
      BY <1>1, <3>1, DecidesIs, CommitCases DEF GoesOn, Hydrate, histVars
    <3> QED BY <2>2, <3>2 DEF StateInv
  <2> QED BY <2>1, <2>2
<1>3. ASSUME NEW u \in Uris \ Stateless
      PROVE  heap'[u][Host] = AsOf(Pending', u, Top') /\ storage'[u] = AsOf(Pending', u, Top')
  <2>1. heap[u][Host] = AsOf(Pending, u, Top) /\ storage[u] = AsOf(Pending, u, Top)
    BY DEF StateInv
  <2>2. ASSUME NEW c \in Calls, Decides(c)
        PROVE  /\ Accept(c) /\ frame[c].uri = u
                    => AsOf(Pending', u, Top') = Append(AsOf(Pending, u, Top), c)
               /\ ~(Accept(c) /\ frame[c].uri = u) => AsOf(Pending', u, Top') = AsOf(Pending, u, Top)
    <3>1. PICK e \in Envelope :
            /\ Pending = log /\ Pending' = Append(log, e) /\ hydrated
            /\ Top = serverSeq /\ e.seq = serverSeq + 1 /\ Top' = serverSeq + 1
            /\ e.uri = frame[c].uri /\ e.call = c /\ (e.accepted <=> Accept(c))
      BY <2>2, DecidesIs
    <3>2. e.seq <= Top' /\ \A i \in DOMAIN log : log[i].seq <= Top' <=> log[i].seq <= Top
      <4>1. \A i \in DOMAIN log : log[i].seq \in Nat /\ log[i].seq <= serverSeq
        BY <3>1, LogFacts
      <4> QED BY <3>1, <4>1, LogFacts
    <3>3. AsOf(log, u, Top') = AsOf(log, u, Top)
      BY <3>2, LogFacts, AsOfSame
    <3>4. AsOf(Append(log, e), u, Top') = IF e.uri = u /\ e.accepted /\ e.seq <= Top'
                                          THEN Append(AsOf(log, u, Top'), e.call)
                                          ELSE AsOf(log, u, Top')
      BY LogFacts, AsOfAppended
    <3> QED BY <3>1, <3>2, <3>3, <3>4
  <2>3. ASSUME NEW c \in Calls, Enter(c) \/ Authorized(c), Accept(c)
        PROVE  heap'[u][Host] = AsOf(Pending', u, Top') /\ storage'[u] = AsOf(Pending', u, Top')
    <3>1. Decides(c) /\ pc[c] \in Holding
      BY <2>3 DEF Decides, Holding, Locked, Enter, Authorized, HoldsLock, IInv, Mutex, CommitsExclude
    <3>2. frame[c].uri \in Uris /\ frame[c].ref[frame[c].uri] \in Objects
      BY <3>1, HoldingFacts DEF IInv
    <3>3. frame[c].ref[frame[c].uri] = Host
      BY <3>2, NoneIsNoCall DEF CallInv, Holds
    <3> DEFINE next == Append(heap[frame[c].uri][Host], c)
    <3>4. heap' = [heap EXCEPT ![frame[c].uri][Host] = next]
          /\ storage' = [storage EXCEPT ![frame[c].uri] = next]
      BY <1>1, <2>3, <3>3 DEF Accept, Reduced, Object, WriteOutcomes, WritesSucceed
    <3>5. heap \in [Uris -> [Objects -> State]] /\ storage \in [Uris -> State \cup {Absent}]
          /\ Host \in Objects
      BY DEF IInv, TypeOK, HubTypes, Objects
    <3>6. CASE frame[c].uri = u
      <4>1. heap'[u][Host] = next /\ storage'[u] = next
        BY <3>4, <3>5, <3>6
      <4> QED BY <2>1, <2>2, <2>3, <3>1, <3>6, <4>1
    <3>7. CASE frame[c].uri # u
      <4>1. heap'[u][Host] = heap[u][Host] /\ storage'[u] = storage[u]
        BY <3>4, <3>5, <3>7
      <4> QED BY <2>1, <2>2, <3>1, <3>7, <4>1
    <3> QED BY <3>6, <3>7
  <2>4. CASE UNCHANGED <<heap, storage>> /\ ~\E c \in Calls : (Enter(c) \/ Authorized(c)) /\ Accept(c)
    <3>1. AsOf(Pending', u, Top') = AsOf(Pending, u, Top)
      <4>1. CASE GoesOn
        BY <4>1 DEF GoesOn
      <4>2. ASSUME NEW c \in Calls, Publishes(c)
            PROVE  Pending' = Pending /\ Top' = Top
        BY <4>2, PublishesIs
      <4>3. ASSUME NEW c \in Calls, Decides(c)
            PROVE  AsOf(Pending', u, Top') = AsOf(Pending, u, Top)
        BY <2>2, <2>4, <4>3 DEF Decides
      <4>4. CASE Hydrate
        <5>1. ~hydrated /\ Pending' = Pending
          BY <4>4 DEF Hydrate, Pending, EnvelopeOf, callVars, histVars
        <5>2. Pending = << >>
          BY <5>1, PendingFacts DEF StateInv
        <5> QED BY <5>1, <5>2, AsOfEmpty
      <4> QED BY <1>1, <4>1, <4>2, <4>3, <4>4, CommitCases
    <3> QED BY <2>1, <2>4, <3>1
  <2> QED BY <2>3, <2>4, ObjectsStay DEF IInv
<1> QED BY <1>2, <1>3 DEF StateInv

LEMMA StateImplies ==
  ASSUME Calm, IInv, CallInv, StateInv
  PROVE  StateIsTheLog
<1> SUFFICES ASSUME NEW u \in Uris \ Stateless
             PROVE  /\ heap[u][instances[u]] = AsOf(Pending, u, Horizon)
                    /\ storage[u] = AsOf(Pending, u, Horizon)
  BY DEF StateIsTheLog
<1>1. instances[u] = Host
  BY DEF CallInv
<1>2. heap[u][Host] = AsOf(Pending, u, Top) /\ storage[u] = AsOf(Pending, u, Top)
  BY DEF StateInv
<1>3. AsOf(Pending, u, Top) = AsOf(Pending, u, Horizon)
  <2>1. CASE hydrated
    <3>1. \A i \in DOMAIN Pending : Pending[i].seq \in Nat /\ Pending[i].seq <= Top
      BY <2>1, PendingFacts
    <3>2. Top \in Nat /\ Horizon \in Nat /\ Top <= Horizon
      BY PendingFacts, LogFacts DEF Horizon
    <3>3. \A i \in DOMAIN Pending : Pending[i].seq <= Top <=> Pending[i].seq <= Horizon
      BY <3>1, <3>2
    <3> QED BY <3>3, PendingFacts, AsOfSame
  <2>2. CASE ~hydrated
    <3>1. Pending = << >>
      BY <2>2, PendingFacts DEF StateInv
    <3> QED BY <3>1, AsOfEmpty
  <2> QED BY <2>1, <2>2
<1> QED BY <1>1, <1>2, <1>3

\* As long as the process lives, no write fails, and the channels are neither created nor
\* destroyed nor loaded concurrently: the state in memory and the one in the storage are
\* both what the accepted envelopes reduce to (#commit).
THEOREM StateFollows ==
  ASSUME Calm
  PROVE  Spec => []StateIsTheLog
<1> DEFINE I == IInv /\ CallInv /\ StateInv
<1>1. Init => I
  BY InitHolds, CallInit, StateInit
<1>2. I /\ [Next]_vars => I'
  BY StepHolds, CallHolds, StateHolds DEF IInv
<1>3. I => StateIsTheLog
  BY StateImplies
<1> QED BY <1>1, <1>2, <1>3, PTL DEF Spec

LEMMA ShotInit == Init => ShotInv
BY DEF Init, ShotInv

LEMMA ShotHolds ==
  ASSUME Calm, IInv, LInv, CallInv, StateInv, ShotInv, [Next]_vars
  PROVE  ShotInv'
<1>1. WritesSucceed /\ ~Crash
  BY DEF Calm, Crash
<1>2. ASSUME NEW m \in Message, m.kind = "snapshots" => hydrated, AtMostOneAhead(m, Pending, Top)
      PROVE  (m.kind = "snapshots" => hydrated') /\ AtMostOneAhead(m, Pending', Top')
  <2>1. CASE m.kind # "snapshots"
    BY <2>1 DEF AtMostOneAhead
  <2>2. CASE m.kind = "snapshots"
    <3>1. hydrated'
      BY <1>1, <1>2, <2>2, CounterSteps
    <3>2. ASSUME NEW s \in m.snapshots
          PROVE  \E n \in {s.fromSeq, s.fromSeq + 1} : n <= Top' /\ s.state = AsOf(Pending', s.uri, n)
      <4>1. PICK n \in {s.fromSeq, s.fromSeq + 1} : n <= Top /\ s.state = AsOf(Pending, s.uri, n)
        BY <1>2, <2>2, <3>2 DEF AtMostOneAhead
      <4>2. n \in Nat
        <5>1. s.fromSeq \in Nat
          BY <2>2 DEF Message, Snapshot, Envelope
        <5> QED BY <5>1
      <4>3. n <= Top' /\ AsOf(Pending', s.uri, n) = AsOf(Pending, s.uri, n)
        BY <1>1, <1>2, <2>2, <4>1, <4>2, PastStays
      <4> QED BY <4>1, <4>3
    <3> QED BY <3>1, <3>2 DEF AtMostOneAhead
  <2> QED BY <2>1, <2>2
<1>3. ASSUME NEW m, Honest(m)
      PROVE  (m.kind = "snapshots" => hydrated) /\ AtMostOneAhead(m, Pending, Top)
  <2>1. ASSUME m.kind = "snapshots", NEW s \in m.snapshots
        PROVE  \E n \in {s.fromSeq, s.fromSeq + 1} : n <= Top /\ s.state = AsOf(Pending, s.uri, n)
    <3>1. s.uri \in Uris \ Stateless /\ s.fromSeq = serverSeq /\ s.state = heap[s.uri][Host]
      BY <1>3, <2>1 DEF Honest
    <3>2. s.state = AsOf(Pending, s.uri, Top)
      BY <3>1 DEF StateInv
    <3>3. Top \in {s.fromSeq, s.fromSeq + 1} /\ Top <= Top
      BY <3>1, PendingFacts
    <3> QED BY <3>2, <3>3
  <2> QED BY <1>3, <2>1 DEF Honest, AtMostOneAhead
<1>4. ASSUME NEW h \in Conns, NEW i \in DOMAIN inbox'[h]
      PROVE  /\ inbox'[h][i].kind = "snapshots" => hydrated'
             /\ AtMostOneAhead(inbox'[h][i], Pending', Top')
  <2>1. inbox[h] \in Seq(Message)
    BY DEF IInv, TypeOK, HistoryTypes
  <2>2. ASSUME i \in DOMAIN inbox[h], inbox'[h][i] = inbox[h][i]
        PROVE  /\ inbox'[h][i].kind = "snapshots" => hydrated'
               /\ AtMostOneAhead(inbox'[h][i], Pending', Top')
    <3>1. inbox[h][i] \in Message
      BY <2>1, <2>2
    <3>2. (inbox[h][i].kind = "snapshots" => hydrated) /\ AtMostOneAhead(inbox[h][i], Pending, Top)
      BY <2>2 DEF ShotInv
    <3> QED BY <1>2, <2>2, <3>1, <3>2
  <2>3. CASE inbox'[h] = inbox[h]
    BY <1>4, <2>2, <2>3
  <2>4. ASSUME NEW m \in Message, inbox'[h] = Append(inbox[h], m), Honest(m)
        PROVE  /\ inbox'[h][i].kind = "snapshots" => hydrated'
               /\ AtMostOneAhead(inbox'[h][i], Pending', Top')
    <3>1. inbox'[h][i] = m \/ (i \in DOMAIN inbox[h] /\ inbox'[h][i] = inbox[h][i])
      BY <1>4, <2>1, <2>4, AppendIs
    <3>2. (m.kind = "snapshots" => hydrated') /\ AtMostOneAhead(m, Pending', Top')
      BY <1>2, <1>3, <2>4
    <3> QED BY <2>2, <3>1, <3>2
  <2> QED BY <2>3, <2>4, TellSteps
<1> QED BY <1>4 DEF ShotInv

\* In the same setting, a snapshot shows the channel as of its fromSeq or one commit later,
\* that of the commit whose state is written and whose number is not (snapshotOf).
THEOREM SnapshotsAreClose ==
  ASSUME Calm
  PROVE  Spec => []SnapshotAtMostOneAhead
<1> DEFINE I == IInv /\ LInv /\ CallInv /\ StateInv /\ ShotInv
<1>1. Init => I
  BY InitHolds, LinkInit, CallInit, StateInit, ShotInit
<1>2. I /\ [Next]_vars => I'
  BY StepHolds, LinkHolds, CallHolds, StateHolds, ShotHolds DEF IInv
<1>3. I => SnapshotAtMostOneAhead
  BY DEF ShotInv, AtMostOneAhead, SnapshotAtMostOneAhead, Positions
<1> QED BY <1>1, <1>2, <1>3, PTL DEF Spec

-----------------------------------------------------------------------------
(* The background tasks: the hub with them is still the hub, so that all that is proved *)
(* of it holds under tasks too; and no task escapes an abort or close.                  *)

-----------------------------------------------------------------------------
(* The tasks add nothing to what the hub does. *)

\* A task that dispatches is a call that host code issues.
LEMMA DispatchIsIssue ==
  ASSUME NEW t \in Tasks, TaskDispatches(t)
  PROVE  \E d \in Calls : Issue(d)
<1>1. PICK d \in Calls, r \in Requests :
        /\ pc[d] = "idle" /\ r.op = "dispatch"
        /\ pc' = [pc EXCEPT ![d] = "begin"] /\ arg' = [arg EXCEPT ![d] = r]
  BY DEF TaskDispatches
<1>2. r.conn = None
  BY <1>1, HubAssumption
<1>3. UNCHANGED <<frame, seqVars, instVars, lock, ring, linkVars, storeVars, histVars>>
  BY DEF TaskDispatches, seqVars, instVars, linkVars, storeVars, histVars
<1>4. Issue(d)
  BY <1>1, <1>2, <1>3 DEF Issue
<1> QED BY <1>4

\* Every step of the composition is a step of the hub, or leaves the hub alone.
LEMMA StepOfHub == [BackgroundNext]_allVars => [Next]_vars
<1> SUFFICES ASSUME [BackgroundNext]_allVars PROVE [Next]_vars
  OBVIOUS
<1>1. CASE Next
  BY <1>1
<1>2. CASE \E t \in Tasks : TaskDispatches(t)
  BY <1>2, DispatchIsIssue DEF Next
<1>3. CASE HostLaunches \/ HostAborts \/ Close \/ Closed
  BY <1>3 DEF HostLaunches, HostAborts, Close, Closed
<1>4. CASE \E t \in Tasks : TaskResumes(t) \/ TaskEnds(t)
  BY <1>4 DEF TaskResumes, TaskEnds
<1>5. CASE UNCHANGED allVars
  BY <1>5 DEF allVars
<1> QED BY <1>1, <1>2, <1>3, <1>4, <1>5 DEF BackgroundNext

\* Whatever tasks are launched and aborted, and whenever the hub is closed, the hub
\* behaves as a hub: all that is proved of it holds (ctx.background, close of hub.ts).
THEOREM StillAHub == BackgroundSpec => Spec
<1>1. BackgroundInit => Init
  BY DEF BackgroundInit
<1> QED BY <1>1, StepOfHub, PTL DEF BackgroundSpec, Spec

\* The mutex is safe from the dispatches of tasks.
THEOREM TasksExclude == BackgroundSpec => []CommitsExclude
BY StillAHub, MutualExclusion, PTL

-----------------------------------------------------------------------------
(* No task escapes.  The property holds because a controller that is made is one nobody *)
(* has aborted yet: its name is a task's that was never launched.                       *)

TaskTypes ==
  /\ task \in [Tasks -> [at : {"unborn", "running", "awaiting", "ended"},
                         uri : Uris \cup {None}, signal : Tasks \cup {None},
                         child : Calls \cup {None}]]
  /\ aborters \in [Uris -> Tasks \cup {None}]
  /\ aborted \subseteq Tasks
  /\ closing \in {"no", "waiting", "done"}

\* A task that runs belongs to a URI and has a controller.
RunningOwned == \A t \in Running : task[t].uri \in Uris /\ task[t].signal \in Tasks

\* A controller that was never made is nobody's, and was never aborted.
ControllersAreBorn ==
  \A t \in Tasks : task[t].at = "unborn" =>
    t \notin aborted /\ \A u \in Uris : aborters[u] # t

BInv == TaskTypes /\ RunningOwned /\ ControllersAreBorn /\ NoTaskEscapes

LEMMA BackgroundStarts == BackgroundInit => BInv
BY TaskAssumption
DEF BackgroundInit, BInv, TaskTypes, RunningOwned, ControllersAreBorn, NoTaskEscapes, Running, Unborn

\* Launching under the controller of a URI, new or not.
LEMMA LaunchKeeps ==
  ASSUME BInv, NEW u \in Uris, Launch(u)
  PROVE  BInv'
<1>1. PICK t \in Tasks :
        /\ \A s \in Tasks : task[s].at = "unborn" <=> s >= t
        /\ task' = [task EXCEPT ![t] = [Unborn EXCEPT !.at = "running", !.uri = u,
                      !.signal = IF aborters[u] = None THEN t ELSE aborters[u]]]
        /\ aborters' = [aborters EXCEPT ![u] = IF aborters[u] = None THEN t ELSE aborters[u]]
  BY DEF Launch
<1> DEFINE controller == IF aborters[u] = None THEN t ELSE aborters[u]
           born == [Unborn EXCEPT !.at = "running", !.uri = u, !.signal = controller]
<1>2. closing = "no" /\ aborted' = aborted /\ closing' = "no"
  BY DEF Launch
<1>3. task[t].at = "unborn" /\ t # None
  <2>1. t >= t
    BY DEF Tasks
  <2> QED BY <1>1, <2>1, TaskAssumption
<1>4. controller \in Tasks /\ aborters[u] \in Tasks \cup {None}
  BY DEF BInv, TaskTypes
<1>5. born.at = "running" /\ born.uri = u /\ born.signal = controller /\ born.child = None
  BY DEF Unborn
<1>6. born \in [at : {"unborn", "running", "awaiting", "ended"}, uri : Uris \cup {None},
                signal : Tasks \cup {None}, child : Calls \cup {None}]
  BY <1>4 DEF Unborn
<1> HIDE DEF born
<1>7. task' = [task EXCEPT ![t] = born]
  BY <1>1 DEF born
<1>8. task'[t] = born /\ \A s \in Tasks \ {t} : task'[s] = task[s]
  BY <1>7 DEF BInv, TaskTypes
<1>9. aborters' = [aborters EXCEPT ![u] = controller]
  BY <1>1
<1>10. aborters'[u] = controller /\ \A v \in Uris \ {u} : aborters'[v] = aborters[v]
  BY <1>9 DEF BInv, TaskTypes
<1> HIDE DEF controller
<1>11. TaskTypes'
  BY <1>2, <1>4, <1>6, <1>7, <1>9 DEF BInv, TaskTypes
<1>12. Running' = Running \cup {t}
  BY <1>5, <1>8 DEF Running
<1>13. RunningOwned'
  BY <1>3, <1>4, <1>5, <1>8, <1>12 DEF BInv, RunningOwned, Running
<1>14. ControllersAreBorn'
  <2>1. ASSUME NEW s \in Tasks, task'[s].at = "unborn"
        PROVE  s # t /\ s # controller /\ task[s].at = "unborn"
    <3>1. s # t
      BY <1>5, <1>8, <2>1
    <3>2. task[s].at = "unborn"
      BY <1>8, <2>1, <3>1
    <3>3. s # controller
      BY <3>1, <3>2 DEF BInv, ControllersAreBorn, controller
    <3> QED BY <3>1, <3>2, <3>3
  <2>2. ASSUME NEW s \in Tasks, task'[s].at = "unborn", NEW v \in Uris
        PROVE  s \notin aborted' /\ aborters'[v] # s
    BY <1>2, <1>10, <2>1, <2>2 DEF BInv, ControllersAreBorn
  <2> QED BY <2>1, <2>2, <1>2 DEF BInv, ControllersAreBorn
<1>15. NoTaskEscapes'
  <2>1. ASSUME NEW s \in Running', ~Stopped(s)'
        PROVE  aborters'[task'[s].uri] = task'[s].signal
    <3>1. CASE s = t
      BY <1>5, <1>8, <1>10, <3>1
    <3>2. CASE s # t
      <4>1. s \in Running /\ task'[s] = task[s] /\ ~Stopped(s)
        BY <1>2, <1>8, <1>12, <2>1, <3>2 DEF Running, Stopped
      <4>2. aborters[task[s].uri] = task[s].signal /\ task[s].uri \in Uris /\ task[s].signal \in Tasks
        BY <4>1 DEF BInv, NoTaskEscapes, RunningOwned
      <4>3. task[s].uri = u => controller = aborters[u]
        BY <4>2, TaskAssumption DEF controller
      <4> QED BY <1>10, <4>1, <4>2, <4>3
    <3> QED BY <3>1, <3>2
  <2> QED BY <1>2, <2>1 DEF NoTaskEscapes
<1> QED BY <1>11, <1>13, <1>14, <1>15 DEF BInv

\* Aborting some URIs: whoever was under way there is stopped.
LEMMA AbortKeeps ==
  ASSUME BInv, NEW us \in SUBSET Uris, Abort(us), UNCHANGED task,
         \/ UNCHANGED closing
         \/ us = Uris /\ closing' = "waiting"
  PROVE  BInv'
<1>1. aborted' = aborted \cup ({aborters[u] : u \in us} \ {None})
  BY DEF Abort
<1>2. \A u \in Uris : aborters'[u] = IF u \in us THEN None ELSE aborters[u]
  BY DEF Abort
<1>3. TaskTypes'
  BY DEF BInv, TaskTypes, Abort
<1>4. RunningOwned' /\ Running' = Running
  BY DEF BInv, RunningOwned, Running
<1>5. ControllersAreBorn'
  BY <1>1, <1>2, TaskAssumption DEF BInv, ControllersAreBorn
<1>6. ASSUME NEW t \in Running
      PROVE  /\ Stopped(t) => Stopped(t)'
             /\ ~Stopped(t)' => aborters'[task[t].uri] = task[t].signal /\ task[t].uri \notin us
  <2>1. task[t].uri \in Uris /\ task[t].signal \in Tasks
    BY DEF BInv, RunningOwned
  <2>2. Stopped(t) => Stopped(t)'
    BY <1>1 DEF Stopped
  <2>3. ASSUME ~Stopped(t)'
        PROVE  aborters'[task[t].uri] = task[t].signal /\ task[t].uri \notin us
    <3>1. aborters[task[t].uri] = task[t].signal
      BY <2>2, <2>3 DEF BInv, NoTaskEscapes
    <3>2. task[t].uri \notin us
      BY <1>1, <2>1, <2>3, <3>1, TaskAssumption DEF Stopped
    <3> QED BY <1>2, <2>1, <3>1, <3>2
  <2> QED BY <2>2, <2>3
<1>7. NoTaskEscapes'
  <2>1. \A t \in Running' : ~Stopped(t)' => aborters'[task'[t].uri] = task'[t].signal
    BY <1>4, <1>6
  <2>2. closing' # "no" => \A t \in Running' : Stopped(t)'
    BY <1>4, <1>6 DEF BInv, NoTaskEscapes, RunningOwned
  <2>3. closing' = "done" => Running' = {}
    BY <1>4 DEF BInv, NoTaskEscapes
  <2> QED BY <2>1, <2>2, <2>3 DEF NoTaskEscapes
<1> QED BY <1>3, <1>4, <1>5, <1>7 DEF BInv

\* A task waits for its call, goes on, or ends: it keeps its controller.
LEMMA TaskKeeps ==
  ASSUME BInv, NEW t \in Tasks, NEW label, NEW child \in Calls \cup {None},
         UNCHANGED <<aborters, aborted, closing>>,
         \/ label = "ended" /\ child = task[t].child
         \/ t \in Running /\ label \in {"running", "awaiting"},
         task[t].at # "unborn",
         task' = [task EXCEPT ![t].at = label, ![t].child = child]
  PROVE  BInv'
<1>1. /\ \A s \in Tasks \ {t} : task'[s] = task[s]
      /\ task'[t].at = label /\ task'[t].uri = task[t].uri /\ task'[t].signal = task[t].signal
      /\ task' \in [Tasks -> [at : {"unborn", "running", "awaiting", "ended"},
                              uri : Uris \cup {None}, signal : Tasks \cup {None},
                              child : Calls \cup {None}]]
  BY DEF BInv, TaskTypes
<1>2. Running' \subseteq Running
  BY <1>1 DEF Running
<1>3. TaskTypes' /\ RunningOwned' /\ ControllersAreBorn'
  BY <1>1, <1>2 DEF BInv, TaskTypes, RunningOwned, ControllersAreBorn, Running
<1>4. \A s \in Running' : /\ Stopped(s)' <=> Stopped(s)
                          /\ task'[s].uri = task[s].uri /\ task'[s].signal = task[s].signal
  BY <1>1 DEF Stopped, Running
<1>5. NoTaskEscapes'
  BY <1>2, <1>4 DEF BInv, NoTaskEscapes
<1> QED BY <1>3, <1>5 DEF BInv

\* A step of the hub aborts the tasks of the channels whose deletion it begins.
LEMMA AsideKeeps ==
  ASSUME TypeOK, BInv, Aside
  PROVE  BInv'
<1>1. Destroying \subseteq Uris
  BY DEF Destroying, TypeOK, CallTypes, WellPlaced, Placed, Holding
<1> QED BY <1>1, AbortKeeps DEF Aside

LEMMA BackgroundHolds == TypeOK /\ BInv /\ [BackgroundNext]_allVars => BInv'
<1> SUFFICES ASSUME TypeOK, BInv, [BackgroundNext]_allVars PROVE BInv'
  OBVIOUS
<1>1. CASE Next /\ Aside
  BY <1>1, AsideKeeps
<1>2. Contexts \subseteq Uris
  <2>1. \A c \in Calls : pc[c] = "running" => arg[c].uri \in Uris
    BY RequestOf DEF TypeOK, Request
  <2>2. \A t \in Tasks : task[t].at = "running" => task[t].uri \in Uris
    BY DEF BInv, RunningOwned, Running
  <2> QED BY <2>1, <2>2 DEF Contexts
<1>3. CASE HostLaunches
  BY <1>2, <1>3, LaunchKeeps DEF HostLaunches
<1>4. CASE HostAborts
  BY <1>2, <1>4, AbortKeeps DEF HostAborts
<1>5. CASE Close
  BY <1>5, AbortKeeps DEF Close
<1>6. CASE Closed
  BY <1>6 DEF Closed, BInv, TaskTypes, RunningOwned, ControllersAreBorn, NoTaskEscapes, Running,
              Stopped
<1>7. ASSUME NEW t \in Tasks, TaskDispatches(t)
      PROVE  BInv'
  <2>1. PICK d \in Calls : task' = [task EXCEPT ![t].at = "awaiting", ![t].child = d]
    BY <1>7 DEF TaskDispatches
  <2>2. task[t].at = "running" /\ UNCHANGED <<aborters, aborted, closing>>
    BY <1>7 DEF TaskDispatches
  <2> QED BY <2>1, <2>2, TaskKeeps DEF Running
<1>8. ASSUME NEW t \in Tasks, TaskResumes(t)
      PROVE  BInv'
  BY <1>8, TaskKeeps DEF TaskResumes, Running
<1>9. ASSUME NEW t \in Tasks, TaskEnds(t)
      PROVE  BInv'
  <2>1. task' = [task EXCEPT ![t].at = "ended", ![t].child = task[t].child]
    BY <1>9 DEF TaskEnds, BInv, TaskTypes
  <2>2. task[t].child \in Calls \cup {None}
    BY DEF BInv, TaskTypes
  <2> QED BY <1>9, <2>1, <2>2, TaskKeeps DEF TaskEnds
<1>10. CASE UNCHANGED allVars
  BY <1>10 DEF allVars, taskVars, BInv, TaskTypes, RunningOwned, ControllersAreBorn, NoTaskEscapes,
               Running, Stopped
<1> QED BY <1>1, <1>3, <1>4, <1>5, <1>6, <1>7, <1>8, <1>9, <1>10 DEF BackgroundNext

\* Whoever runs without having been told to stop can still be told so, by the next abort
\* of its URI, by destroy or by close; and none runs when close has resolved.
THEOREM TasksAreCaught == BackgroundSpec => []NoTaskEscapes
<1>1. BInv => NoTaskEscapes
  BY DEF BInv
<1> QED BY <1>1, StillAHub, TypeCorrect, BackgroundStarts, BackgroundHolds, PTL DEF BackgroundSpec

=============================================================================
