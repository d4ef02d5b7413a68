------------------------------- MODULE MCHub --------------------------------
(***************************************************************************)
(* Instances of the hub for TLC: what the calls of each run may ask for.   *)
(* The number of calls bounds every sequence number and every transcript.  *)
(***************************************************************************)
EXTENDS HubProperties, TLC

CONSTANTS u1, u2, u3, u4, h1, h2, h3, h4, h5, c1, c2, c3, c4

\* A request that names nothing but its operation and its URI.
Ask(op, u) ==
  [op |-> op, conn |-> None, uri |-> u, uris |-> {}, clientSeq |-> 0, lastSeen |-> 0,
   valid |-> TRUE, lenient |-> FALSE]

From(op, h, u) == [Ask(op, u) EXCEPT !.conn = h]

\* h dispatches to u with one of these client sequences.
Client(h, u, seqs) == {[From("dispatchFrom", h, u) EXCEPT !.clientSeq = n] : n \in seqs}

Invalid(r) == {[r EXCEPT !.valid = FALSE, !.lenient = b] : b \in BOOLEAN}

\* h reconnects, having seen one of these sequences.
Back(h, us, seqs) ==
  {[From("reconnect", h, u1) EXCEPT !.uris = us, !.lastSeen = n] : n \in seqs}

Handles == {h1, h2, h3, h4, h5}
Apart   == [h \in Handles |-> h]                                   \* clients of their own
Shared  == [h \in Handles |-> IF h \in {h1, h2, h3} THEN "client" ELSE h]
Alice   == [h \in Handles |-> IF h = h3 THEN "bob" ELSE "alice"]

-----------------------------------------------------------------------------
(* A scenario is a bag of requests (some made only while no other call runs), a number of *)
(* calls and some links, of which one may have to connect first (where an idle link makes *)
(* no difference, or the links are alike).  Each new call and each new link of a run fits *)
(* one of its scenarios.                                                                  *)

CONSTANT Scenarios

\* Each of these requests, up to n times.
Upto(n, requests) == [r \in requests |-> n]

\* A subscriber, a client that dispatches, and the host.
Live4 ==
  [asks  |-> Upto(2, {Ask("dispatch", u4)})
               @@ Upto(1, {From("subscribe", h4, u4)} \cup Client(h5, u4, 1..2)),
   alone |-> {}, calls |-> 4, conns |-> {h4, h5}, first |-> h4]

\* A client that comes back on one of two links, while the host dispatches to a channel it
\* may follow and to an internal one.  A third link is another principal's.
Resume3 ==
  [asks  |-> Upto(2, {Ask("dispatch", u1), Ask("dispatch", u2)}
                       \cup Back(h1, {u1, u2}, 0..1) \cup Back(h2, {u1, u3}, {0})),
   alone |-> {}, calls |-> 3, conns |-> {h1, h2, h3}, first |-> None]

\* A client whose dispatches are under way on two links, of which one replaces the other.
Takeover4 ==
  [asks  |-> Upto(2, Client(h1, u4, {1})) @@ Upto(1, Client(h1, u4, {2}) \cup Client(h2, u4, {1})),
   alone |-> {}, calls |-> 4, conns |-> {h1, h2}, first |-> None]

\* Commands and notifications, with and without a state and a connection.
Command2 ==
  [asks  |-> Upto(2, {From("exec", h1, u1), From("exec", h1, u3), Ask("exec", u1),
                      Ask("exec", u3), From("subscribe", h1, u3), From("subscribe", h1, u2),
                      Ask("notify", u3), Ask("notify", u2), Ask("get", u1), Ask("get", u3)}),
   alone |-> {}, calls |-> 2, conns |-> {h1, h2}, first |-> None]

LinkScenarios == {Live4, Resume3, Takeover4, Command2}

\* Channels are created, loaded and destroyed.
Lifecycle3 ==
  [asks  |-> Upto(1, {From("subscribe", h1, u1), Ask("dispatch", u1), Ask("notify", u1),
                      Ask("create", u2), Ask("destroy", u2)}
                       \cup Invalid(From("dispatchFrom", h1, u2))),
   alone |-> {}, calls |-> 3, conns |-> {h1}, first |-> h1]

\* Two clients that listen, both to all commits or one before a restart and one after it.
\* (Subscriptions beside other calls are in the other scenarios.)
Listeners4 ==
  [asks  |-> Upto(1, {From("subscribe", h4, u1), From("subscribe", h5, u1)})
               @@ Upto(2, {Ask("dispatch", u1)}),
   alone |-> {"subscribe"}, calls |-> 4, conns |-> {h4, h5}, first |-> h4]

\* A client whose link is replaced while it is at work.
Replaced3 ==
  [asks  |-> Upto(1, {From("subscribe", h1, u1), From("subscribe", h2, u1)}
                       \cup Client(h1, u1, {1}) \cup Client(h2, u1, {1})),
   alone |-> {}, calls |-> 3, conns |-> {h1, h2}, first |-> h1]

\* A client comes back, perhaps to another incarnation of the hub than the one it has seen.
Return3 ==
  [asks  |-> Upto(2, {Ask("dispatch", u1)}) @@ Upto(1, Back(h1, {u1, u3}, 0..1)),
   alone |-> {}, calls |-> 3, conns |-> {h1}, first |-> h1]

FaultScenarios == {Lifecycle3, Listeners4, Replaced3, Return3}

Wanted == UNION {DOMAIN s.asks : s \in Scenarios}

Issued  == {c \in Calls : pc[c] # "idle"}
Ongoing == {c \in Issued : pc[c] \notin Settled}

Opened == {h \in Conns : link[h] # "unused"}

Fits(s) ==
  /\ Cardinality(Issued) <= s.calls
  /\ Opened \subseteq s.conns
  /\ s.first # None /\ Opened # {} => s.first \in Opened
  /\ \A c \in Issued : arg[c] \in DOMAIN s.asks
  /\ \A c \in Issued : Cardinality({d \in Issued : arg[d] = arg[c]}) <= s.asks[arg[c]]
  /\ \A c \in Ongoing : arg[c].op \in s.alone => Ongoing = {c}

\* The calls but c4 are interchangeable, and c4 comes last.
Symmetry == Permutations(Calls \ {c4})

FitsOne == (c4 \in Issued => Issued = Calls) /\ \E s \in Scenarios : Fits(s)

\* Only a new call and a new connection can leave a scenario.
ScenarioNext ==
  \/ \E c \in Calls : (Issue(c) /\ FitsOne') \/ (Resume(c) /\ (Issued' # Issued => FitsOne'))
  \/ \E h \in Conns : (Connect(h) /\ FitsOne') \/ Disconnect(h)
  \/ \E h \in Conns, u \in Uris : Unsubscribe(h, u)
  \/ Hydrate \/ Crash

ScenarioSpec == Init /\ [][ScenarioNext]_vars

-----------------------------------------------------------------------------
\* Commands, effects and tasks that dispatch, while a channel is destroyed.
TaskRequests ==
  {Ask("exec", u2), Ask("dispatch", u1), Ask("destroy", u1)}

\* The requests of the runs that show a disagreement with the documentation.
TornRequests    == {From("subscribe", h1, u1), Ask("dispatch", u1)}
DestroyRequests == {Ask("destroy", u1), Ask("dispatch", u1)}
ColdRequests    == {Ask("dispatch", u1)}
=============================================================================
