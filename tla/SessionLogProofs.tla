------------------------- MODULE SessionLogProofs ---------------------------
(***************************************************************************)
(* What a session leaves in the hub's log and on the wire, for every set   *)
(* of channels and any number of sockets, dispatches and requests, through *)
(* failed saves, kills and restarts: a number stands for one action; what  *)
(* the hub has promised follows the log; what is pending is open.          *)
(***************************************************************************)
EXTENDS SessionProofs

-----------------------------------------------------------------------------
(* Where the number of a dispatch is: with a caller that waits for a save, in a frame,  *)
(* with the hub, or in the log.  It is in one place at a time.                          *)

OnItsWay(s, i) == up[s][i].method = "dispatch"
InHand(s) == job[s].stage \in {"committing", "writing"}

NumberAt(s) == job[s].request.n

SentOnce ==
  /\ \A s, t \in Sockets : \A i \in DOMAIN up[s], j \in DOMAIN up[t] :
       OnItsWay(s, i) /\ OnItsWay(t, j) /\ up[s][i].n = up[t][j].n => s = t /\ i = j
  /\ \A s, t \in Sockets : \A j \in DOMAIN up[t] :
       InHand(s) /\ OnItsWay(t, j) => NumberAt(s) # up[t][j].n
  /\ \A s, t \in Sockets : InHand(s) /\ InHand(t) /\ NumberAt(s) = NumberAt(t) => s = t
  /\ \A i, j \in DOMAIN log : log[i].n > 0 /\ log[i].n = log[j].n => i = j
  /\ \A i \in DOMAIN log, t \in Sockets :
       /\ InHand(t) => log[i].n # NumberAt(t)
       /\ \A j \in DOMAIN up[t] : OnItsWay(t, j) => log[i].n # up[t][j].n

IsSent(n) ==
  \/ \E s \in Sockets : \E i \in DOMAIN up[s] : OnItsWay(s, i) /\ up[s][i].n = n
  \/ \E s \in Sockets : InHand(s) /\ NumberAt(s) = n
  \/ \E i \in DOMAIN log : log[i].n = n

\* It is committed or sent only when it has been saved that it is used, and only once
\* its caller no longer waits for a save.
Heldback ==
  /\ done => ~Connected /\ ~ready
  /\ ready => writable
  /\ ~Durable => flushing = << >> /\ saves = << >>
  /\ \A n \in Numbers : IsSent(n) => n < nextSeq
  /\ \A n \in Numbers : IsSent(n) /\ Durable =>
       /\ stored # None => n < stored.nextSeq
       /\ \A k \in DOMAIN saves : n < saves[k].nextSeq
  /\ \A n \in Numbers : \A i \in DOMAIN flushing : flushing[i].n = n =>
       /\ ~IsSent(n) /\ n < nextSeq
       /\ flushing[i].behind \in DOMAIN saves
       /\ \A k \in DOMAIN saves : flushing[i].behind <= k => n < saves[k].nextSeq
  /\ \A i, j \in DOMAIN flushing :
       flushing[i].n # 0 /\ flushing[i].n = flushing[j].n => i = j

-----------------------------------------------------------------------------
(* A number is in one place at a time: what the hub does. *)

\* The numbers on the wire, in hand and in the log.
LEMMA NumbersTyped ==
  ASSUME Types
  PROVE  /\ \A s \in Sockets : \A i \in DOMAIN up[s] : OnItsWay(s, i) => up[s][i].n \in Numbers
         /\ \A s \in Sockets : InHand(s) => NumberAt(s) \in Numbers
         /\ \A i \in DOMAIN log : log[i].n \in 0..MaxDispatch
<1>1. ASSUME NEW s \in Sockets, NEW i \in DOMAIN up[s], OnItsWay(s, i)
      PROVE  up[s][i].n \in Numbers
  <2>1. up[s][i] \in UpFrames
    BY DEF Types, WireTypes
  <2>2. up[s][i] \in Requests
    BY <1>1, <2>1 DEF UpFrames, Issued, OnItsWay
  <2> QED BY <1>1, <2>2 DEF Requests, OnItsWay
<1>2. ASSUME NEW s \in Sockets, InHand(s)
      PROVE  NumberAt(s) \in Numbers
  <2>1. job[s] \in Jobs
    BY DEF Types, HubTypes
  <2>2. job[s].request \in Issued /\ job[s].request.method = "dispatch"
    BY <1>2, <2>1 DEF Jobs, InHand, Idle
  <2> QED BY <2>2 DEF NumberAt, Issued, Requests
<1>3. \A i \in DOMAIN log : log[i].n \in 0..MaxDispatch
  <2>1. log \in Seq(Envelopes)
    BY DEF Types, HubTypes
  <2>2. \A i \in DOMAIN log : log[i] \in Envelopes
    BY <2>1
  <2> QED BY <2>2 DEF Envelopes
<1> QED BY <1>1, <1>2, <1>3

\* Frames move up in their queues or are lost, a dispatch at the head of a queue may be
\* taken in hand, what is in hand stays there, is dropped, or goes to the log.
Moved(d) ==
  /\ \A s \in Sockets : \A i \in DOMAIN up'[s] :
       i + d[s] \in DOMAIN up[s] /\ up'[s][i] = up[s][i + d[s]]
  /\ \A s \in Sockets : InHand(s)' =>
       \/ InHand(s) /\ NumberAt(s)' = NumberAt(s)
       \/ /\ ~InHand(s) /\ d[s] = 1 /\ 1 \in DOMAIN up[s] /\ OnItsWay(s, 1)
          /\ NumberAt(s)' = up[s][1].n
  /\ \/ log' = log
     \/ \E e : /\ log' = Append(log, e)
               /\ \/ e.n = 0
                  \/ \E w \in Sockets : InHand(w) /\ ~InHand(w)' /\ e.n = NumberAt(w)

\* Numbers that only move are nowhere twice, and nowhere new.
LEMMA MovedOnce ==
  ASSUME Types, Types', SentOnce, NEW d \in [Sockets -> Nat], Moved(d)
  PROVE  SentOnce' /\ \A n \in Numbers : IsSent(n)' => IsSent(n)
<1>1. /\ \A s \in Sockets : \A i \in DOMAIN up[s] : OnItsWay(s, i) => up[s][i].n \in Numbers
      /\ \A s \in Sockets : InHand(s) => NumberAt(s) \in Numbers
      /\ \A i \in DOMAIN log : log[i].n \in 0..MaxDispatch
  BY NumbersTyped
<1>2. /\ \A s \in Sockets : up'[s] \in Seq(UpFrames')
      /\ log \in Seq(Envelopes) /\ DOMAIN log = 1..Len(log) /\ Len(log) \in Nat
      /\ \A n \in Numbers : n > 0
  BY ClientAssumption DEF Types, WireTypes, HubTypes, Numbers
<1>3. ASSUME NEW s \in Sockets, NEW i \in DOMAIN up'[s], OnItsWay(s, i)'
      PROVE  /\ i + d[s] \in DOMAIN up[s] /\ OnItsWay(s, i + d[s])
             /\ up'[s][i].n = up[s][i + d[s]].n /\ i \in Nat
             /\ up'[s][i].n \in Numbers
             /\ d[s] = 1 => i + d[s] # 1
  <2>1. i + d[s] \in DOMAIN up[s] /\ up'[s][i] = up[s][i + d[s]]
    BY DEF Moved
  <2>2. i \in Nat \ {0}
    BY <1>2
  <2>3. OnItsWay(s, i + d[s])
    BY <1>3, <2>1 DEF OnItsWay
  <2> QED BY <1>1, <2>1, <2>2, <2>3
<1>4. ASSUME NEW s \in Sockets, InHand(s)'
      PROVE  \/ InHand(s) /\ NumberAt(s)' = NumberAt(s)
             \/ /\ ~InHand(s) /\ d[s] = 1 /\ 1 \in DOMAIN up[s] /\ OnItsWay(s, 1)
                /\ NumberAt(s)' = up[s][1].n
  BY <1>4 DEF Moved
<1>5. ASSUME NEW i \in DOMAIN log'
      PROVE  \/ i \in DOMAIN log /\ log'[i] = log[i]
             \/ i = Len(log) + 1 /\ log'[i].n = 0
             \/ /\ i = Len(log) + 1
                /\ \E w \in Sockets : InHand(w) /\ ~InHand(w)' /\ log'[i].n = NumberAt(w)
  <2>1. CASE log' = log
    BY <2>1
  <2>2. ASSUME NEW e, log' = Append(log, e),
               \/ e.n = 0
               \/ \E w \in Sockets : InHand(w) /\ ~InHand(w)' /\ e.n = NumberAt(w)
        PROVE  <1>5!2
    <3>1. i \in 1..(Len(log) + 1)
      BY <1>2, <2>2
    <3>2. CASE i \in DOMAIN log
      BY <1>2, <2>2, <3>2
    <3>3. CASE i = Len(log) + 1
      <4>1. log'[i] = e
        BY <1>2, <2>2, <3>3
      <4> QED BY <2>2, <3>3, <4>1
    <3> QED BY <1>2, <3>1, <3>2, <3>3
  <2> QED BY <2>1, <2>2 DEF Moved
<1>6. ASSUME NEW s \in Sockets, NEW t \in Sockets, NEW i \in DOMAIN up'[s],
             NEW j \in DOMAIN up'[t], OnItsWay(s, i)', OnItsWay(t, j)',
             up'[s][i].n = up'[t][j].n
      PROVE  s = t /\ i = j
  <2>1. s = t /\ i + d[s] = j + d[t] /\ i \in Nat /\ j \in Nat
    BY <1>3, <1>6 DEF SentOnce
  <2> QED BY <2>1
<1>7. ASSUME NEW s \in Sockets, NEW t \in Sockets, NEW j \in DOMAIN up'[t], InHand(s)',
             OnItsWay(t, j)'
      PROVE  NumberAt(s)' # up'[t][j].n
  <2> DEFINE k == j + d[t]
  <2>1. /\ k \in DOMAIN up[t] /\ OnItsWay(t, k) /\ up'[t][j].n = up[t][k].n
        /\ d[t] = 1 => k # 1
    BY <1>3, <1>7
  <2> HIDE DEF k
  <2>2. CASE InHand(s) /\ NumberAt(s)' = NumberAt(s)
    BY <2>1, <2>2 DEF SentOnce
  <2>3. CASE /\ ~InHand(s) /\ d[s] = 1 /\ 1 \in DOMAIN up[s] /\ OnItsWay(s, 1)
             /\ NumberAt(s)' = up[s][1].n
    BY <2>1, <2>3 DEF SentOnce
  <2> QED BY <1>4, <1>7, <2>2, <2>3
<1>8. ASSUME NEW s \in Sockets, NEW t \in Sockets, InHand(s)', InHand(t)',
             NumberAt(s)' = NumberAt(t)'
      PROVE  s = t
  <2>1. CASE InHand(s) /\ InHand(t)
    BY <1>4, <1>8, <2>1 DEF SentOnce
  <2>2. CASE InHand(s) /\ ~InHand(t)
    BY <1>4, <1>8, <2>2 DEF SentOnce
  <2>3. CASE ~InHand(s) /\ InHand(t)
    BY <1>4, <1>8, <2>3 DEF SentOnce
  <2>4. CASE ~InHand(s) /\ ~InHand(t)
    BY <1>4, <1>8, <2>4 DEF SentOnce
  <2> QED BY <2>1, <2>2, <2>3, <2>4
<1>9. ASSUME NEW i \in DOMAIN log', NEW j \in DOMAIN log', log'[i].n > 0,
             log'[i].n = log'[j].n
      PROVE  i = j
  <2>1. ASSUME NEW k \in DOMAIN log, NEW w \in Sockets, InHand(w)
        PROVE  log[k].n # NumberAt(w)
    BY <2>1 DEF SentOnce
  <2>2. ~(0 > 0)
    OBVIOUS
  <2>3. CASE i \in DOMAIN log /\ log'[i] = log[i]
    BY <1>5, <1>9, <2>1, <2>2, <2>3 DEF SentOnce
  <2>4. CASE j \in DOMAIN log /\ log'[j] = log[j]
    BY <1>5, <1>9, <2>1, <2>2, <2>4 DEF SentOnce
  <2>5. CASE i = Len(log) + 1 /\ j = Len(log) + 1
    BY <2>5
  <2> QED BY <1>5, <2>3, <2>4, <2>5
<1>10. ASSUME NEW i \in DOMAIN log', NEW t \in Sockets, InHand(t)'
       PROVE  log'[i].n # NumberAt(t)'
  <2>1. NumberAt(t)' \in Numbers
    BY <1>1, <1>4, <1>10
  <2>2. CASE i \in DOMAIN log /\ log'[i] = log[i]
    BY <1>4, <1>10, <2>2 DEF SentOnce
  <2>3. CASE log'[i].n = 0
    BY <1>2, <2>1, <2>3
  <2>4. ASSUME NEW w \in Sockets, InHand(w), ~InHand(w)', log'[i].n = NumberAt(w)
        PROVE  log'[i].n # NumberAt(t)'
    <3>1. w # t
      BY <1>10, <2>4
    <3> QED BY <1>4, <1>10, <2>4, <3>1 DEF SentOnce
  <2> QED BY <1>5, <2>2, <2>3, <2>4
<1>11. ASSUME NEW i \in DOMAIN log', NEW t \in Sockets, NEW j \in DOMAIN up'[t],
              OnItsWay(t, j)'
       PROVE  log'[i].n # up'[t][j].n
  <2> DEFINE k == j + d[t]
  <2>1. /\ k \in DOMAIN up[t] /\ OnItsWay(t, k) /\ up'[t][j].n = up[t][k].n
        /\ up'[t][j].n \in Numbers
    BY <1>3, <1>11
  <2> HIDE DEF k
  <2>2. CASE i \in DOMAIN log /\ log'[i] = log[i]
    BY <2>1, <2>2 DEF SentOnce
  <2>3. CASE log'[i].n = 0
    BY <1>2, <2>1, <2>3
  <2>4. CASE \E w \in Sockets : InHand(w) /\ ~InHand(w)' /\ log'[i].n = NumberAt(w)
    BY <2>1, <2>4 DEF SentOnce
  <2> QED BY <1>5, <2>2, <2>3, <2>4
<1>12. ASSUME NEW n \in Numbers, IsSent(n)'
       PROVE  IsSent(n)
  <2>1. CASE \E s \in Sockets : \E i \in DOMAIN up'[s] : OnItsWay(s, i)' /\ up'[s][i].n = n
    BY <1>3, <2>1 DEF IsSent
  <2>2. CASE \E s \in Sockets : InHand(s)' /\ NumberAt(s)' = n
    BY <1>4, <2>2 DEF IsSent
  <2>3. CASE \E i \in DOMAIN log' : log'[i].n = n
    BY <1>2, <1>5, <2>3 DEF IsSent
  <2> QED BY <1>12, <2>1, <2>2, <2>3 DEF IsSent
<1>13. SentOnce'
  BY <1>6, <1>7, <1>8, <1>9, <1>10, <1>11 DEF SentOnce
<1> QED BY <1>12, <1>13

\* Nothing is taken from a queue, of which some may be lost.
LEMMA NothingTaken ==
  ASSUME Types, \A t \in Sockets : up'[t] = << >> \/ up'[t] = up[t],
         \A t \in Sockets : InHand(t)' => InHand(t) /\ NumberAt(t)' = NumberAt(t),
         \/ log' = log
         \/ \E e : /\ log' = Append(log, e)
                   /\ \/ e.n = 0
                      \/ \E w \in Sockets : InHand(w) /\ ~InHand(w)' /\ e.n = NumberAt(w)
  PROVE  \E d \in [Sockets -> Nat] : Moved(d)
<1> DEFINE d == [t \in Sockets |-> 0]
<1>1. d \in [Sockets -> Nat] /\ \A t \in Sockets : d[t] = 0
  OBVIOUS
<1> HIDE DEF d
<1>2. \A t \in Sockets : up[t] \in Seq(UpFrames)
  BY DEF Types, WireTypes
<1>3. ASSUME NEW t \in Sockets, NEW i \in DOMAIN up'[t]
      PROVE  i + d[t] \in DOMAIN up[t] /\ up'[t][i] = up[t][i + d[t]]
  <2>1. up'[t] = up[t]
    BY <1>3
  <2>2. i \in DOMAIN up[t]
    BY <1>3, <2>1
  <2>3. i \in Nat
    BY <1>2, <2>2
  <2>4. i + d[t] = i
    BY <1>1, <2>3
  <2> QED BY <2>1, <2>2, <2>4
<1>4. Moved(d)
  BY <1>3 DEF Moved
<1> QED BY <1>1, <1>4

\* The head of one queue is taken, and if it is a dispatch it may be taken in hand.
LEMMA HeadTaken ==
  ASSUME Types, NEW s \in Sockets, up[s] # << >>, ~InHand(s), log' = log,
         \A t \in Sockets :
           up'[t] = << >> \/ up'[t] = (IF t = s THEN Tail(up[s]) ELSE up[t]),
         \A t \in Sockets \ {s} : InHand(t)' => InHand(t) /\ NumberAt(t)' = NumberAt(t),
         InHand(s)' => Head(up[s]).method = "dispatch" /\ NumberAt(s)' = Head(up[s]).n
  PROVE  \E d \in [Sockets -> Nat] : Moved(d)
<1> DEFINE d == [t \in Sockets |-> IF t = s THEN 1 ELSE 0]
<1>1. d \in [Sockets -> Nat] /\ d[s] = 1 /\ \A t \in Sockets \ {s} : d[t] = 0
  OBVIOUS
<1> HIDE DEF d
<1>2. \A t \in Sockets : up[t] \in Seq(UpFrames)
  BY DEF Types, WireTypes
<1>3. ASSUME NEW t \in Sockets, NEW i \in DOMAIN up'[t]
      PROVE  i + d[t] \in DOMAIN up[t] /\ up'[t][i] = up[t][i + d[t]]
  <2>1. up'[t] # << >>
    BY <1>3
  <2>2. CASE t = s
    <3>1. up'[s] = Tail(up[s])
      BY <2>1, <2>2
    <3>2. i \in DOMAIN Tail(up[s])
      BY <1>3, <2>2, <3>1
    <3>3. i + 1 \in DOMAIN up[s] /\ Tail(up[s])[i] = up[s][i + 1]
      BY <1>2, <3>2
    <3> QED BY <1>1, <2>2, <3>1, <3>3
  <2>3. CASE t # s
    <3>1. up'[t] = up[t]
      BY <2>1, <2>3
    <3>2. i \in DOMAIN up[t]
      BY <1>3, <3>1
    <3>3. i \in Nat
      BY <1>2, <3>2
    <3>4. i + d[t] = i
      BY <1>1, <2>3, <3>3
    <3> QED BY <3>1, <3>2, <3>4
  <2> QED BY <2>2, <2>3
<1>4. 1 \in DOMAIN up[s] /\ Head(up[s]) = up[s][1]
  BY <1>2
<1>5. Moved(d)
  BY <1>1, <1>3, <1>4 DEF Moved, OnItsWay
<1> QED BY <1>1, <1>5

\* One job is put in place of another.
LEMMA OtherJobs ==
  ASSUME Types, NEW s \in Sockets, NEW j, job' = [job EXCEPT ![s] = j]
  PROVE  /\ job'[s] = j /\ \A t \in Sockets \ {s} : job'[t] = job[t]
         /\ \A t \in Sockets \ {s} : InHand(t)' => InHand(t) /\ NumberAt(t)' = NumberAt(t)
         /\ j.stage \notin {"committing", "writing"} => ~InHand(s)'
BY DEF Types, HubTypes, InHand, NumberAt

\* What the hub takes from its sockets.
LEMMA TakesMove ==
  ASSUME Types, NEW s \in Sockets,
         TakeHandshake(s) \/ TakeSubscribe(s) \/ TakeUnsubscribe(s) \/ TakeDispatch(s)
  PROVE  \E d \in [Sockets -> Nat] : Moved(d)
<1> DEFINE r == Head(up[s])
<1>1. up[s] # << >> /\ job[s] = Idle
  BY DEF TakeHandshake, TakeSubscribe, TakeUnsubscribe, TakeDispatch, FrameFor
<1>2. ~InHand(s) /\ job \in [Sockets -> Jobs] /\ up \in [Sockets -> Seq(UpFrames)]
  BY <1>1 DEF InHand, Idle, Types, HubTypes, WireTypes
<1>3. log' = log
  BY DEF TakeHandshake, TakeSubscribe, TakeUnsubscribe, TakeDispatch, hubVars
<1>4. CASE TakeHandshake(s)
  <2> DEFINE replaced == {link} \ {0, s}
             j == Job(IF r.method = "reconnect" THEN "resuming"
                      ELSE IF r.uris = {} THEN "greeting" ELSE "subscribing", r, r.uris)
  <2>1. up' = Drained(Taken(s), replaced) /\ job' = [Ended(job, replaced) EXCEPT ![s] = j]
    BY <1>4 DEF TakeHandshake
  <2>2. \A t \in Sockets :
          up'[t] = << >> \/ up'[t] = (IF t = s THEN Tail(up[s]) ELSE up[t])
    <3> HIDE DEF replaced
    <3> QED BY <1>2, <2>1 DEF Drained, Taken
  <2>3. j.stage \notin {"committing", "writing"}
    BY DEF Job
  <2>4. job'[s] = j /\ \A t \in Sockets \ {s} : job'[t] = Idle \/ job'[t] = job[t]
    <3> HIDE DEF j, replaced
    <3> QED BY <2>1 DEF Ended
  <2> HIDE DEF j
  <2>5. ~InHand(s)' /\ \A t \in Sockets \ {s} :
                         InHand(t)' => InHand(t) /\ NumberAt(t)' = NumberAt(t)
    BY <2>3, <2>4 DEF InHand, NumberAt, Idle
  <2> QED BY <1>1, <1>2, <1>3, <2>2, <2>5, HeadTaken
<1>5. ASSUME TakeSubscribe(s) \/ TakeUnsubscribe(s) \/ TakeDispatch(s)
      PROVE  \A t \in Sockets :
               up'[t] = << >> \/ up'[t] = (IF t = s THEN Tail(up[s]) ELSE up[t])
  <2>1. up' = Taken(s)
    BY <1>5 DEF TakeSubscribe, TakeUnsubscribe, TakeDispatch
  <2> QED BY <1>2, <2>1 DEF Taken
<1>6. CASE TakeSubscribe(s)
  <2> DEFINE j == IF link = s THEN Job("subscribing", r, {r.uri}) ELSE Refusal(r)
  <2>1. job' = [job EXCEPT ![s] = j]
    BY <1>6 DEF TakeSubscribe
  <2>2. j.stage \notin {"committing", "writing"}
    BY DEF Job, Refusal, Answering
  <2> HIDE DEF j
  <2>3. ~InHand(s)' /\ \A t \in Sockets \ {s} :
                         InHand(t)' => InHand(t) /\ NumberAt(t)' = NumberAt(t)
    BY <2>1, <2>2, OtherJobs
  <2> QED BY <1>1, <1>2, <1>3, <1>5, <1>6, <2>3, HeadTaken
<1>7. CASE TakeUnsubscribe(s)
  <2>1. job' = job
    BY <1>7 DEF TakeUnsubscribe
  <2>2. \A t \in Sockets : InHand(t)' => InHand(t) /\ NumberAt(t)' = NumberAt(t)
    BY <2>1 DEF InHand, NumberAt
  <2>3. ~InHand(s)'
    BY <1>2, <2>1 DEF InHand
  <2> QED BY <1>1, <1>2, <1>3, <1>5, <1>7, <2>2, <2>3, HeadTaken
<1>8. CASE TakeDispatch(s)
  <2>1. PICK j \in {Job("committing", r, {}), Answering(r, [type |-> "duplicate"]),
                    Refusal(r)} :
          job' = [job EXCEPT ![s] = j]
    BY <1>8 DEF TakeDispatch
  <2>2. r.method = "dispatch"
    BY <1>8 DEF TakeDispatch, FrameFor
  <2>3. j.stage \in {"committing", "writing"} => j.request = r
    BY <2>1 DEF Job, Refusal, Answering
  <2>4. /\ job'[s] = j
        /\ \A t \in Sockets \ {s} : InHand(t)' => InHand(t) /\ NumberAt(t)' = NumberAt(t)
    BY <2>1, OtherJobs
  <2>5. InHand(s)' => r.method = "dispatch" /\ NumberAt(s)' = r.n
    BY <2>2, <2>3, <2>4 DEF InHand, NumberAt
  <2> QED BY <1>1, <1>2, <1>3, <1>5, <1>8, <2>4, <2>5, HeadTaken
<1> QED BY <1>4, <1>6, <1>7, <1>8

\* What the hub does for a request, up to its answer.
LEMMA JobsMove ==
  ASSUME Types, NEW s \in Sockets,
         \/ \E u \in Uris : SubscribeOne(s, u) \/ ResumeOne(s, u)
         \/ Greet(s) \/ Resume(s) \/ Commit(s) \/ Publish(s) \/ Answer(s) \/ Detach(s)
  PROVE  \E d \in [Sockets -> Nat] : Moved(d)
<1>1. job \in [Sockets -> Jobs] /\ up \in [Sockets -> Seq(UpFrames)]
  BY DEF Types, HubTypes, WireTypes
<1>2. ASSUME log' = log, up' = up, NEW j, job' = [job EXCEPT ![s] = j],
             j.stage \in {"committing", "writing"} =>
               InHand(s) /\ j.request = job[s].request
      PROVE  \E d \in [Sockets -> Nat] : Moved(d)
  <2>1. /\ job'[s] = j
        /\ \A t \in Sockets \ {s} : InHand(t)' => InHand(t) /\ NumberAt(t)' = NumberAt(t)
    BY <1>2, OtherJobs
  <2>2. InHand(s)' => InHand(s) /\ NumberAt(s)' = NumberAt(s)
    BY <1>2, <2>1 DEF InHand, NumberAt
  <2> QED BY <1>2, <2>1, <2>2, NothingTaken
<1>3. ASSUME NEW u \in Uris, SubscribeOne(s, u)
      PROVE  \E d \in [Sockets -> Nat] : Moved(d)
  <2> DEFINE r    == job[s].request
             todo == job[s].todo \ {u}
             got  == IF u \in Stateless THEN job[s].snapshots
                     ELSE job[s].snapshots \cup {SnapshotOf(u)}
             next == [job[s] EXCEPT !.todo = todo, !.snapshots = got,
                                    !.stage = IF todo = {} THEN "greeting" ELSE "subscribing"]
  <2>1. \E j \in {Answering(r, [type |-> "subscribed", snapshots |-> got]), next,
                  Refusal(r)} :
          job' = [job EXCEPT ![s] = j]
    BY <1>1, <1>3, Zenon DEF SubscribeOne
  <2>2. log' = log /\ up' = up /\ job[s].stage = "subscribing"
    BY <1>3 DEF SubscribeOne, hubVars
  <2>3. next.stage \notin {"committing", "writing"}
    <3>1. job[s] \in Jobs /\ job[s] # Idle
      BY <1>1, <2>2 DEF Idle
    <3>2. next.stage = (IF todo = {} THEN "greeting" ELSE "subscribing")
      BY <2>2, <3>1 DEF Jobs
    <3> QED BY <3>2
  <2> HIDE DEF next
  <2> QED BY <1>2, <2>1, <2>2, <2>3 DEF Refusal, Answering
<1>4. ASSUME NEW u \in Uris, ResumeOne(s, u)
      PROVE  \E d \in [Sockets -> Nat] : Moved(d)
  <2>1. log' = log /\ up' = up /\ job[s].stage = "resuming"
    BY <1>4 DEF ResumeOne, hubVars
  <2>2. \A t \in Sockets \ {s} : job'[t] = job[t]
    BY <1>1, <1>4 DEF ResumeOne
  <2>3. job'[s].stage = "resuming"
    <3>1. job[s] \in Jobs /\ job[s] # Idle
      BY <1>1, <2>1 DEF Idle
    <3> QED BY <1>1, <1>4, <2>1, <3>1 DEF ResumeOne, Jobs
  <2>4. \A t \in Sockets : InHand(t)' => InHand(t) /\ NumberAt(t)' = NumberAt(t)
    BY <2>2, <2>3 DEF InHand, NumberAt
  <2> QED BY <2>1, <2>4, NothingTaken
<1>5. CASE Greet(s)
  <2>1. log' = log /\ up' = up /\ \E x : job' = [job EXCEPT ![s] = Answering(@.request, x)]
    BY <1>5 DEF Greet, hubVars
  <2> QED BY <1>1, <1>2, <2>1 DEF Answering
<1>6. CASE Resume(s)
  <2>1. log' = log /\ up' = up /\ \E x : job' = [job EXCEPT ![s] = Answering(@.request, x)]
    BY <1>6 DEF Resume, hubVars
  <2> QED BY <1>1, <1>2, <2>1 DEF Answering
<1>7. CASE Commit(s)
  <2>1. log' = log /\ up' = up /\ job[s].stage = "committing"
    BY <1>7 DEF Commit, hubVars
  <2>2. PICK verdict \in Verdicts :
          job' = [job EXCEPT ![s] =
                    IF verdict = "throw" THEN Refusal(@.request)
                    ELSE [stage |-> "writing", request |-> @.request,
                          accepted |-> verdict = "accept"]]
    BY <1>7 DEF Commit
  <2> DEFINE j == IF verdict = "throw" THEN Refusal(job[s].request)
                  ELSE [stage |-> "writing", request |-> job[s].request,
                        accepted |-> verdict = "accept"]
  <2>3. job' = [job EXCEPT ![s] = j]
    BY <1>1, <2>2
  <2>4. j.stage \in {"committing", "writing"} => j.request = job[s].request
    BY DEF Refusal, Answering
  <2>5. InHand(s)
    BY <2>1 DEF InHand
  <2> HIDE DEF j
  <2> QED BY <1>2, <2>1, <2>3, <2>4, <2>5
<1>8. CASE Publish(s)
  <2> DEFINE r == job[s].request
             e == Envelope(r.uri, r.n, job[s].accepted)
             j == IF s \in detached THEN Idle
                  ELSE Answering(r, [type |-> "envelope", envelope |-> e])
  <2>1. /\ log' = Append(log, e) /\ up' = up /\ job[s].stage = "writing"
        /\ job' = [job EXCEPT ![s] = j]
    BY <1>8 DEF Publish, Broadcast
  <2>2. j.stage \notin {"committing", "writing"}
    BY DEF Idle, Answering
  <2>3. e.n = NumberAt(s) /\ InHand(s)
    BY <2>1 DEF Envelope, NumberAt, InHand
  <2> HIDE DEF j, e
  <2>4. /\ ~InHand(s)'
        /\ \A t \in Sockets \ {s} : InHand(t)' => InHand(t) /\ NumberAt(t)' = NumberAt(t)
    BY <2>1, <2>2, OtherJobs
  <2> QED BY <2>1, <2>3, <2>4, NothingTaken
<1>9. CASE Answer(s)
  <2>1. log' = log /\ up' = up /\ job' = [job EXCEPT ![s] = Idle]
    BY <1>9 DEF Answer, hubVars
  <2> QED BY <1>2, <2>1 DEF Idle
<1>10. CASE Detach(s)
  <2>1. log' = log /\ up' = Drained(up, {s}) /\ job' = Ended(job, {s})
    BY <1>10 DEF Detach, hubVars
  <2>2. \A t \in Sockets : up'[t] = << >> \/ up'[t] = up[t]
    BY <2>1 DEF Drained
  <2>3. \A t \in Sockets : job'[t] = Idle \/ job'[t] = job[t]
    BY <2>1 DEF Ended
  <2>4. \A t \in Sockets : InHand(t)' => InHand(t) /\ NumberAt(t)' = NumberAt(t)
    BY <2>3 DEF InHand, NumberAt, Idle
  <2> QED BY <2>1, <2>2, <2>4, NothingTaken
<1> QED BY <1>3, <1>4, <1>5, <1>6, <1>7, <1>8, <1>9, <1>10

\* What the host does.
LEMMA HostMoves ==
  ASSUME Types, NEW S,
         (\E u \in Uris : Foreign(u) \/ Destroy(u)) \/ Restart(S)
  PROVE  \E d \in [Sockets -> Nat] : Moved(d)
<1>1. ASSUME NEW u \in Uris, Foreign(u)
      PROVE  \E d \in [Sockets -> Nat] : Moved(d)
  <2>1. log' = Append(log, Envelope(u, 0, TRUE)) /\ up' = up /\ job' = job
    BY <1>1 DEF Foreign, Broadcast
  <2>2. Envelope(u, 0, TRUE).n = 0
    BY DEF Envelope
  <2>3. \A t \in Sockets : InHand(t)' => InHand(t) /\ NumberAt(t)' = NumberAt(t)
    BY <2>1 DEF InHand, NumberAt
  <2> QED BY <2>1, <2>2, <2>3, NothingTaken
<1>2. ASSUME NEW u \in Uris, Destroy(u)
      PROVE  \E d \in [Sockets -> Nat] : Moved(d)
  <2>1. log' = log /\ up' = up /\ job' = job
    BY <1>2 DEF Destroy
  <2>2. \A t \in Sockets : InHand(t)' => InHand(t) /\ NumberAt(t)' = NumberAt(t)
    BY <2>1 DEF InHand, NumberAt
  <2> QED BY <2>1, <2>2, NothingTaken
<1>3. CASE Restart(S)
  <2>1. up' = Drained(up, S) /\ job' = [t \in Sockets |-> Idle]
    BY <1>3 DEF Restart
  <2>2. \A t \in Sockets : up'[t] = << >> \/ up'[t] = up[t]
    BY <2>1 DEF Drained
  <2>3. \A t \in Sockets : ~InHand(t)'
    BY <2>1 DEF InHand, Idle
  <2>4. \/ log' = log
        \/ \E e : /\ log' = Append(log, e)
                  /\ \E w \in Sockets : InHand(w) /\ ~InHand(w)' /\ e.n = NumberAt(w)
    <3>1. \/ log' = log
          \/ \E w \in Writing : log' = Append(log, Envelope(job[w].request.uri,
                                                            job[w].request.n, job[w].accepted))
      BY <1>3 DEF Restart
    <3>2. \A w \in Writing : w \in Sockets /\ InHand(w)
      BY DEF Writing, InHand
    <3>3. \A w \in Writing : Envelope(job[w].request.uri, job[w].request.n,
                                      job[w].accepted).n = NumberAt(w)
      BY DEF Envelope, NumberAt
    <3> QED BY <2>3, <3>1, <3>2, <3>3
  <2> QED BY <2>2, <2>3, <2>4, NothingTaken
<1> QED BY <1>1, <1>2, <1>3

-----------------------------------------------------------------------------
(* A number is in one place at a time: what the client does. *)

\* Frames sent one after the other follow what their queue held, if they are not lost.
LEMMA FramesFollow ==
  ASSUME NEW A, NEW v \in [Sockets -> Seq(A)], NEW rs \in Seq(A), NEW t
  PROVE  \A x \in Sockets : \A j \in DOMAIN SendFrames(v, t, rs)[x] :
           \/ j \in DOMAIN v[x] /\ SendFrames(v, t, rs)[x][j] = v[x][j]
           \/ x = t /\ \E k \in DOMAIN rs :
                         j = Len(v[x]) + k /\ SendFrames(v, t, rs)[x][j] = rs[k]
<1> DEFINE G == [Sockets -> Seq(A)]
           l == Len(rs)
<1>0. PICK y : y = SendFrames(v, t, rs)
  OBVIOUS
<1>1. PICK h \in [0..l -> G] :
        /\ h[0] = v /\ h[l] = y
        /\ \A i \in 1..l : h[i] = SentUp(h[i - 1], t, rs[i])
  BY <1>0, SendSteps
<1>2. l \in Nat /\ DOMAIN rs = 1..l /\ \A i \in 1..l : rs[i] \in A
  OBVIOUS
<1> DEFINE Good(i, w) ==
      \A x \in Sockets :
        /\ w[x] = v[x] \/ (x = t /\ x \notin detached /\ Len(w[x]) = Len(v[x]) + i)
        /\ x = t /\ x \notin detached => Len(w[x]) = Len(v[x]) + i
        /\ \A j \in DOMAIN w[x] :
             \/ j \in DOMAIN v[x] /\ w[x][j] = v[x][j]
             \/ x = t /\ \E k \in 1..i : j = Len(v[x]) + k /\ w[x][j] = rs[k]
           S == {i \in Nat : i <= l => Good(i, h[i])}
<1>3. 0 \in S
  <2>1. \A x \in Sockets : Len(v[x]) \in Nat
    OBVIOUS
  <2> QED BY <1>1, <2>1
<1>4. ASSUME NEW i \in Nat, i \in S
      PROVE  i + 1 \in S
  <2> SUFFICES ASSUME i + 1 <= l PROVE Good(i + 1, h[i + 1])
    OBVIOUS
  <2>1. Good(i, h[i])
    BY <1>2, <1>4
  <2>2. i + 1 \in 1..l /\ i \in 0..l /\ i + 1 - 1 = i
    BY <1>2
  <2>3. h[i + 1] = SentUp(h[i], t, rs[i + 1]) /\ rs[i + 1] \in A
    BY <1>1, <1>2, <2>2
  <2>4. h[i] \in G
    BY <1>1, <2>2
  <2> DEFINE w == h[i]
             r == rs[i + 1]
             z == h[i + 1]
  <2>5. z = (IF t \in detached THEN w ELSE [w EXCEPT ![t] = Append(w[t], r)])
    BY <2>3 DEF SentUp
  <2>6. w \in [Sockets -> Seq(A)] /\ Good(i, w) /\ r \in A /\ r = rs[i + 1]
    BY <2>1, <2>3, <2>4
  <2> HIDE DEF w, r, z, Good
  <2>7. ASSUME NEW x \in Sockets
        PROVE  /\ z[x] = v[x] \/ (x = t /\ x \notin detached /\ Len(z[x]) = Len(v[x]) + (i + 1))
               /\ x = t /\ x \notin detached => Len(z[x]) = Len(v[x]) + (i + 1)
               /\ \A j \in DOMAIN z[x] :
                    \/ j \in DOMAIN v[x] /\ z[x][j] = v[x][j]
                    \/ x = t /\ \E k \in 1..(i + 1) : j = Len(v[x]) + k /\ z[x][j] = rs[k]
    <3>1. /\ w[x] = v[x] \/ (x = t /\ x \notin detached /\ Len(w[x]) = Len(v[x]) + i)
          /\ x = t /\ x \notin detached => Len(w[x]) = Len(v[x]) + i
          /\ \A j \in DOMAIN w[x] :
               \/ j \in DOMAIN v[x] /\ w[x][j] = v[x][j]
               \/ x = t /\ \E k \in 1..i : j = Len(v[x]) + k /\ w[x][j] = rs[k]
      BY <2>6 DEF Good
    <3>2. w[x] \in Seq(A) /\ v[x] \in Seq(A) /\ 1..i \subseteq 1..(i + 1)
      BY <2>6
    <3>3. CASE x # t \/ t \in detached
      <4>1. z[x] = w[x]
        BY <2>5, <2>6, <3>3
      <4>2. z[x] = v[x]
        BY <3>1, <3>3, <4>1
      <4> QED BY <3>2, <3>3, <4>2
    <3>4. CASE x = t /\ t \notin detached
      <4>1. z[x] = Append(w[x], r)
        BY <2>5, <2>6, <3>4
      <4>2. Len(w[x]) = Len(v[x]) + i /\ Len(z[x]) = Len(v[x]) + (i + 1)
        BY <3>1, <3>2, <3>4, <2>6, <4>1
      <4>3. ASSUME NEW j \in DOMAIN z[x]
            PROVE  \/ j \in DOMAIN v[x] /\ z[x][j] = v[x][j]
                   \/ x = t /\ \E k \in 1..(i + 1) : j = Len(v[x]) + k /\ z[x][j] = rs[k]
        <5>1. j \in 1..(Len(w[x]) + 1)
          BY <2>6, <3>2, <4>1, <4>3
        <5>2. CASE j \in DOMAIN w[x]
          <6>1. z[x][j] = w[x][j]
            BY <2>6, <3>2, <4>1, <5>2
          <6> QED BY <3>1, <3>2, <5>2, <6>1
        <5>3. CASE j = Len(w[x]) + 1
          <6>1. z[x][j] = r
            BY <2>6, <3>2, <4>1, <5>3
          <6>2. j = Len(v[x]) + (i + 1) /\ i + 1 \in 1..(i + 1)
            BY <3>2, <4>2, <5>3
          <6> QED BY <2>6, <3>4, <6>1, <6>2
        <5> QED BY <3>2, <5>1, <5>2, <5>3
      <4> QED BY <3>4, <4>2, <4>3
    <3> QED BY <3>3, <3>4
  <2>8. Good(i + 1, z)
    BY <2>7 DEF Good
  <2> QED BY <2>8 DEF z
<1>5. l \in S
  <2> HIDE DEF S
  <2> QED BY <1>2, <1>3, <1>4, Induction
<1>6. Good(l, h[l])
  BY <1>2, <1>5
<1>7. Good(l, y)
  <2> HIDE DEF Good, S
  <2> QED BY <1>1, <1>6
<1>8. \A x \in Sockets : \A j \in DOMAIN y[x] :
        \/ j \in DOMAIN v[x] /\ y[x][j] = v[x][j]
        \/ x = t /\ \E k \in 1..l : j = Len(v[x]) + k /\ y[x][j] = rs[k]
  BY <1>7, Zenon
<1> HIDE DEF l, Good, S, G
<1> QED BY <1>0, <1>2, <1>8

Added(t, rs) ==
  \A s \in Sockets : \A i \in DOMAIN up'[s] :
    \/ i \in DOMAIN up[s] /\ up'[s][i] = up[s][i]
    \/ s = t /\ \E k \in DOMAIN rs : i = Len(up[s]) + k /\ up'[s][i] = rs[k]

\* More frames are sent, with dispatches whose numbers have not been sent before.
LEMMA SentMore ==
  ASSUME SentOnce, UNCHANGED <<job, log>>, NEW t, NEW rs, Added(t, rs),
         \A k \in DOMAIN rs : rs[k].method = "dispatch" => ~IsSent(rs[k].n),
         \A j, k \in DOMAIN rs :
           rs[j].method = "dispatch" /\ rs[k].method = "dispatch" /\ rs[j].n = rs[k].n => j = k
  PROVE  /\ SentOnce'
         /\ \A n : IsSent(n)' =>
              IsSent(n) \/ \E k \in DOMAIN rs : rs[k].method = "dispatch" /\ rs[k].n = n
<1> DEFINE New(n) == \E k \in DOMAIN rs : rs[k].method = "dispatch" /\ rs[k].n = n
<1>1. ASSUME NEW s \in Sockets, NEW i \in DOMAIN up'[s], OnItsWay(s, i)'
      PROVE  \/ /\ i \in DOMAIN up[s] /\ OnItsWay(s, i) /\ up'[s][i].n = up[s][i].n
             \/ /\ s = t
                /\ \E k \in DOMAIN rs : /\ i = Len(up[s]) + k /\ rs[k].method = "dispatch"
                                        /\ up'[s][i].n = rs[k].n
  BY <1>1 DEF OnItsWay, Added
<1>2. ASSUME NEW s \in Sockets, NEW i \in DOMAIN up'[s], OnItsWay(s, i)'
      PROVE  \/ i \in DOMAIN up[s] /\ OnItsWay(s, i) /\ up'[s][i].n = up[s][i].n
             \/ New(up'[s][i].n) /\ ~IsSent(up'[s][i].n)
  BY <1>1, <1>2
<1>3. /\ \A s : InHand(s)' = InHand(s) /\ NumberAt(s)' = NumberAt(s)
      /\ log' = log
  BY DEF InHand, NumberAt
<1>4. ASSUME NEW s \in Sockets, NEW x \in Sockets, NEW i \in DOMAIN up'[s],
             NEW j \in DOMAIN up'[x], OnItsWay(s, i)', OnItsWay(x, j)',
             up'[s][i].n = up'[x][j].n
      PROVE  s = x /\ i = j
  <2>1. CASE i \in DOMAIN up[s] /\ OnItsWay(s, i) /\ up'[s][i].n = up[s][i].n
    <3>1. IsSent(up'[s][i].n)
      BY <2>1 DEF IsSent
    <3>2. j \in DOMAIN up[x] /\ OnItsWay(x, j) /\ up'[x][j].n = up[x][j].n
      BY <1>2, <1>4, <3>1
    <3>3. up[s][i].n = up[x][j].n
      BY <1>4, <2>1, <3>2
    <3> QED BY <2>1, <3>2, <3>3 DEF SentOnce
  <2>2. CASE j \in DOMAIN up[x] /\ OnItsWay(x, j) /\ up'[x][j].n = up[x][j].n
    <3>1. IsSent(up'[x][j].n)
      BY <2>2 DEF IsSent
    <3>2. i \in DOMAIN up[s] /\ OnItsWay(s, i) /\ up'[s][i].n = up[s][i].n
      BY <1>2, <1>4, <3>1
    <3> QED BY <1>4, <2>2, <3>2 DEF SentOnce
  <2>3. CASE /\ s = t
             /\ \E k \in DOMAIN rs : /\ i = Len(up[s]) + k /\ rs[k].method = "dispatch"
                                     /\ up'[s][i].n = rs[k].n
    <3>1. CASE /\ x = t
               /\ \E k \in DOMAIN rs : /\ j = Len(up[x]) + k /\ rs[k].method = "dispatch"
                                       /\ up'[x][j].n = rs[k].n
      BY <1>4, <2>3, <3>1
    <3> QED BY <1>1, <1>4, <2>2, <3>1
  <2> QED BY <1>1, <1>4, <2>1, <2>3
<1>5. ASSUME NEW s \in Sockets, NEW x \in Sockets, NEW j \in DOMAIN up'[x], InHand(s),
             OnItsWay(x, j)'
      PROVE  NumberAt(s) # up'[x][j].n
  <2>1. IsSent(NumberAt(s))
    BY <1>5 DEF IsSent
  <2> QED BY <1>2, <1>5, <2>1 DEF SentOnce
<1>6. ASSUME NEW i \in DOMAIN log, NEW x \in Sockets, NEW j \in DOMAIN up'[x],
             OnItsWay(x, j)'
      PROVE  log[i].n # up'[x][j].n
  <2>1. IsSent(log[i].n)
    BY DEF IsSent
  <2> QED BY <1>2, <1>6, <2>1 DEF SentOnce
<1>7. SentOnce'
  <2>1. /\ \A s, x \in Sockets : InHand(s) /\ InHand(x) /\ NumberAt(s) = NumberAt(x) => s = x
        /\ \A i, j \in DOMAIN log : log[i].n > 0 /\ log[i].n = log[j].n => i = j
        /\ \A i \in DOMAIN log, x \in Sockets : InHand(x) => log[i].n # NumberAt(x)
    BY DEF SentOnce
  <2> QED BY <1>3, <1>4, <1>5, <1>6, <2>1 DEF SentOnce
<1>8. ASSUME NEW n, IsSent(n)'
      PROVE  IsSent(n) \/ New(n)
  <2>1. CASE \E s \in Sockets : \E i \in DOMAIN up'[s] : OnItsWay(s, i)' /\ up'[s][i].n = n
    BY <1>2, <2>1 DEF IsSent
  <2>2. CASE \E s \in Sockets : InHand(s) /\ NumberAt(s) = n
    BY <2>2 DEF IsSent
  <2>3. CASE \E i \in DOMAIN log : log[i].n = n
    BY <2>3 DEF IsSent
  <2> QED BY <1>3, <1>8, <2>1, <2>2, <2>3 DEF IsSent
<1> QED BY <1>7, <1>8

\* Nothing is sent.
LEMMA SentNothing ==
  ASSUME UNCHANGED <<up, job, log>>
  PROVE  /\ SentOnce => SentOnce'
         /\ \A n : IsSent(n)' => IsSent(n)
BY DEF SentOnce, IsSent, OnItsWay, InHand, NumberAt

\* One frame is sent.
LEMMA SentOne ==
  ASSUME Types, SentOnce, UNCHANGED <<job, log>>, NEW t, NEW r,
         up' = SentUp(up, t, r), r.method = "dispatch" => ~IsSent(r.n)
  PROVE  /\ SentOnce'
         /\ \A n : IsSent(n)' => IsSent(n) \/ (r.method = "dispatch" /\ r.n = n)
<1> DEFINE rs == <<r>>
<1>1. DOMAIN rs = {1} /\ rs[1] = r
  OBVIOUS
<1>2. up \in [Sockets -> Seq(UpFrames)]
  BY DEF Types, WireTypes
<1> HIDE DEF rs
<1>3. ASSUME NEW s \in Sockets, NEW i \in DOMAIN up'[s]
      PROVE  \/ i \in DOMAIN up[s] /\ up'[s][i] = up[s][i]
             \/ s = t /\ \E k \in DOMAIN rs : i = Len(up[s]) + k /\ up'[s][i] = rs[k]
  <2>1. CASE up'[s] = up[s]
    BY <1>3, <2>1
  <2>2. CASE s = t /\ up'[s] = Append(up[s], r)
    <3>1. i \in 1..(Len(up[s]) + 1) /\ Len(up[s]) \in Nat
      BY <1>2, <1>3, <2>2
    <3>2. CASE i = Len(up[s]) + 1
      BY <1>1, <1>2, <2>2, <3>1, <3>2
    <3>3. CASE i \in DOMAIN up[s]
      BY <1>2, <2>2, <3>3
    <3> QED BY <1>2, <3>1, <3>2, <3>3
  <2> QED BY <1>2, <2>1, <2>2 DEF SentUp
<1>4. /\ \A k \in DOMAIN rs : rs[k].method = "dispatch" => ~IsSent(rs[k].n)
      /\ \A j, k \in DOMAIN rs :
           rs[j].method = "dispatch" /\ rs[k].method = "dispatch" /\ rs[j].n = rs[k].n => j = k
  BY <1>1
<1>5. /\ SentOnce'
      /\ \A n : IsSent(n)' =>
           IsSent(n) \/ \E k \in DOMAIN rs : rs[k].method = "dispatch" /\ rs[k].n = n
  <2>1. Added(t, rs)
    BY <1>3 DEF Added
  <2> QED BY <1>4, <2>1, SentMore
<1> QED BY <1>1, <1>5

\* What is sent of the callers of a save are their numbers, and none if it has failed.
LEMMA SentNumbers ==
  ASSUME NEW s \in Seq(Flushes),
         \A i, j \in DOMAIN s : s[i].n # 0 /\ s[i].n = s[j].n => i = j
  PROVE  /\ \A k \in DOMAIN Sent(s) :
              /\ ~failed' /\ \E i \in DOMAIN s : s[i].n # 0 /\ Sent(s)[k].n = s[i].n
         /\ \A j, k \in DOMAIN Sent(s) : Sent(s)[j].n = Sent(s)[k].n => j = k
<1> DEFINE I == {i \in DOMAIN s : s[i].n # 0}
           c == Cardinality(I)
           sel == Selected(s, I)
           ds == IF failed' \/ ~Connected THEN << >> ELSE sel
           rs == [k \in DOMAIN ds |-> DispatchRequest(nextId + k - 1, ds[k].uri, ds[k].n)]
<1>1. Sent(s) = rs
  BY DEF Sent
<1>2. I \in SUBSET (DOMAIN s) /\ \A i \in I : s[i].n # 0 /\ i \in Nat
  OBVIOUS
<1> HIDE DEF I
<1>3. PICK f \in [1..c -> I] :
        /\ Selected(s, I) = [k \in 1..c |-> s[f[k]]]
        /\ \A j, k \in 1..c : j < k => f[j] < f[k]
  <2> HIDE DEF sel, ds, rs
  <2> QED BY <1>2, Selecting
<1>4. c \in Nat /\ DOMAIN sel = 1..c
  BY <1>2, SelectedTyped
<1>5. \A k \in 1..c : f[k] \in I /\ sel[k] = s[f[k]]
  BY <1>3
<1>6. \A j, k \in 1..c : f[j] = f[k] => j = k
  <2>1. \A j, k \in 1..c : j < k \/ k < j \/ j = k
    BY <1>4
  <2>2. \A j \in 1..c : f[j] \in Nat
    BY <1>2, <1>5
  <2> QED BY <1>3, <2>1, <2>2
<1> HIDE DEF c, sel
<1>7. \A k \in DOMAIN rs : k \in 1..c /\ ~failed' /\ rs[k].n = s[f[k]].n
  <2>1. \A k \in DOMAIN ds : k \in 1..c /\ ~failed' /\ ds[k] = s[f[k]]
    BY <1>4, <1>5
  <2> HIDE DEF ds
  <2> QED BY <2>1 DEF DispatchRequest
<1> HIDE DEF rs
<1>8. \A k \in DOMAIN rs : f[k] \in DOMAIN s /\ s[f[k]].n # 0
  BY <1>2, <1>5, <1>7
<1>9. ASSUME NEW j \in DOMAIN rs, NEW k \in DOMAIN rs, rs[j].n = rs[k].n
      PROVE  j = k
  <2>1. s[f[j]].n = s[f[k]].n
    BY <1>7, <1>9
  <2>2. f[j] = f[k]
    BY <1>8, <2>1
  <2> QED BY <1>6, <1>7, <2>2
<1> QED BY <1>1, <1>7, <1>8, <1>9

-----------------------------------------------------------------------------
(* What is sent has been saved as used, and its caller waits no longer. *)

\* At most one checkpoint is queued, of the next number as it is now.
Queues == saves' = saves \/ (Durable /\ \E c : c.nextSeq = nextSeq' /\ saves' = Append(saves, c))

\* What a turn queues to be saved has the next number as it is now.
LEMMA PersistQueues ==
  ASSUME NEW must, Persist(must)
  PROVE  Queues
<1> DEFINE c == Checkpoint(view', subscribed', nextSeq')
<1>1. saves' = saves \/ (Durable /\ saves' = Append(saves, c))
  <2> HIDE DEF c
  <2> QED BY DEF Persist, c
<1>2. c.nextSeq = nextSeq'
  BY DEF Checkpoint
<1> QED BY <1>1, <1>2 DEF Queues

\* The queue of checkpoints grows at its end.
LEMMA QueueGrows ==
  ASSUME Types, Types', Queues
  PROVE  /\ \A k \in DOMAIN saves : k \in DOMAIN saves' /\ saves'[k] = saves[k]
         /\ \A k \in DOMAIN saves' : k \notin DOMAIN saves => saves'[k].nextSeq = nextSeq'
         /\ ~Durable => saves' = saves
<1>1. saves \in Seq(Checkpoints)
  BY DEF Types, ClientTypes
<1> HIDE DEF Checkpoints
<1>2. CASE saves' = saves
  BY <1>2
<1>3. ASSUME NEW c, c.nextSeq = nextSeq', saves' = Append(saves, c), Durable
      PROVE  /\ \A k \in DOMAIN saves : k \in DOMAIN saves' /\ saves'[k] = saves[k]
             /\ \A k \in DOMAIN saves' : k \notin DOMAIN saves => saves'[k].nextSeq = nextSeq'
  <2>1. saves' \in Seq(Checkpoints')
    BY DEF Types, ClientTypes
  <2>2. /\ DOMAIN saves = 1..Len(saves) /\ Len(saves) \in Nat
        /\ DOMAIN saves' = 1..(Len(saves) + 1)
        /\ \A k \in 1..Len(saves) : saves'[k] = saves[k]
        /\ saves'[Len(saves) + 1] = c
    BY <1>1, <1>3
  <2> QED BY <1>3, <2>2
<1> QED BY <1>2, <1>3 DEF Queues

\* Nothing is dispatched and nothing ends: what is sent is sent already, and the callers
\* wait as before.
LEMMA HeldStill ==
  ASSUME Types, Types', Heldback, UNCHANGED <<nextSeq, stored>>, Queues,
         flushing' = flushing \/ \E w : w.n = 0 /\ flushing' = Append(flushing, w) /\ Durable,
         \A n \in Numbers : IsSent(n)' => IsSent(n),
         done' => ~Connected' /\ ~ready', ready' => writable'
  PROVE  Heldback'
<1>1. /\ \A k \in DOMAIN saves : k \in DOMAIN saves' /\ saves'[k] = saves[k]
      /\ \A k \in DOMAIN saves' : k \notin DOMAIN saves => saves'[k].nextSeq = nextSeq'
      /\ ~Durable => saves' = saves
  BY QueueGrows
<1>2. flushing \in Seq(Flushes)
  BY DEF Types, ClientTypes
<1>3. ASSUME NEW i \in DOMAIN flushing', flushing'[i].n # 0
      PROVE  i \in DOMAIN flushing /\ flushing'[i] = flushing[i]
  <2>1. CASE flushing' = flushing
    BY <1>3, <2>1
  <2>2. ASSUME NEW w, w.n = 0, flushing' = Append(flushing, w)
        PROVE  i \in DOMAIN flushing /\ flushing'[i] = flushing[i]
    <3>1. flushing' \in Seq(Flushes')
      BY DEF Types, ClientTypes
    <3>2. i \in 1..(Len(flushing) + 1) /\ Len(flushing) \in Nat
      BY <1>2, <1>3, <2>2, <3>1
    <3>3. CASE i = Len(flushing) + 1
      BY <1>2, <1>3, <2>2, <3>1, <3>3
    <3>4. CASE i \in 1..Len(flushing)
      <4>1. DOMAIN flushing = 1..Len(flushing)
        BY <1>2
      <4>2. \A k \in 1..Len(flushing) : Append(flushing, w)[k] = flushing[k]
        BY <1>2
      <4> QED BY <2>2, <3>4, <4>1, <4>2
    <3> QED BY <3>2, <3>3, <3>4
  <2> QED BY <2>1, <2>2
<1>4. ~Durable => flushing' = << >> /\ saves' = << >>
  BY <1>1 DEF Heldback
<1>5. \A n \in Numbers : IsSent(n)' => n < nextSeq'
  BY DEF Heldback
<1>6. ASSUME NEW n \in Numbers, IsSent(n)', Durable
      PROVE  /\ stored' # None => n < stored'.nextSeq
             /\ \A k \in DOMAIN saves' : n < saves'[k].nextSeq
  BY <1>1, <1>5, <1>6 DEF Heldback
<1>7. ASSUME NEW n \in Numbers, NEW i \in DOMAIN flushing', flushing'[i].n = n
      PROVE  /\ ~IsSent(n)' /\ n < nextSeq'
             /\ flushing'[i].behind \in DOMAIN saves'
             /\ \A k \in DOMAIN saves' : flushing'[i].behind <= k => n < saves'[k].nextSeq
  <2>1. n # 0
    BY ClientAssumption DEF Numbers
  <2>2. i \in DOMAIN flushing /\ flushing'[i] = flushing[i]
    BY <1>3, <1>7, <2>1
  <2>3. /\ ~IsSent(n) /\ n < nextSeq /\ flushing[i].behind \in DOMAIN saves
        /\ \A k \in DOMAIN saves : flushing[i].behind <= k => n < saves[k].nextSeq
    BY <1>7, <2>2 DEF Heldback
  <2>4. ASSUME NEW k \in DOMAIN saves', flushing'[i].behind <= k
        PROVE  n < saves'[k].nextSeq
    BY <1>1, <2>2, <2>3, <2>4
  <2> QED BY <1>1, <2>2, <2>3, <2>4
<1>8. \A i, j \in DOMAIN flushing' :
        flushing'[i].n # 0 /\ flushing'[i].n = flushing'[j].n => i = j
  BY <1>3 DEF Heldback
<1> QED BY <1>4, <1>5, <1>6, <1>7, <1>8 DEF Heldback

\* Turns of the hub.
LEMMA HubHolds ==
  ASSUME Types, Types', SentOnce, Heldback, UNCHANGED <<clientVars, reader>>,
         \E d \in [Sockets -> Nat] : Moved(d)
  PROVE  SentOnce' /\ Heldback'
<1>1. SentOnce' /\ \A n \in Numbers : IsSent(n)' => IsSent(n)
  BY MovedOnce
<1>2. /\ UNCHANGED <<nextSeq, stored, flushing>> /\ Queues
      /\ done' = done /\ Connected' = Connected /\ ready' = ready /\ writable' = writable
  BY DEF clientVars, saveState, linkState, shakeState, Queues, Connected
<1>3. done' => ~Connected' /\ ~ready'
  BY <1>2 DEF Heldback
<1>4. ready' => writable'
  BY <1>2 DEF Heldback
<1> QED BY <1>1, <1>2, <1>3, <1>4, HeldStill

\* Requests that are not dispatches.
LEMMA AskedHolds ==
  ASSUME Types, Types', SentOnce, Heldback, UNCHANGED <<job, log>>,
         NEW t, NEW r, up' = SentUp(up, t, r) \/ up' = up, r.method # "dispatch",
         UNCHANGED <<nextSeq, stored, flushing, done>>, Queues,
         done => ~Connected' /\ ~ready', ready' => writable'
  PROVE  SentOnce' /\ Heldback'
<1>1. SentOnce' /\ \A n : IsSent(n)' => IsSent(n)
  <2>1. CASE up' = up
    BY <2>1, SentNothing
  <2>2. CASE up' = SentUp(up, t, r)
    <3>1. /\ SentOnce'
          /\ \A n : IsSent(n)' => IsSent(n) \/ (r.method = "dispatch" /\ r.n = n)
      BY <2>2, SentOne
    <3> QED BY <3>1
  <2> QED BY <2>1, <2>2
<1> QED BY <1>1, HeldStill

\* Calls that dispatch nothing.
LEMMA CallsHold ==
  ASSUME Types, Types', SentOnce, Heldback, UNCHANGED serverVars,
         \/ \E us \in SUBSET Uris : Hello(us)
         \/ \E s \in Sockets : Reconnect(s)
         \/ \E u \in Uris : Subscribe(u) \/ Unsubscribe(u)
  PROVE  SentOnce' /\ Heldback'
<1>1. UNCHANGED <<job, log>>
  BY DEF serverVars, hubVars
<1>2. /\ done => ~Connected /\ ~ready
      /\ ready => writable
  BY DEF Heldback
<1>3. ASSUME NEW us \in SUBSET Uris, Hello(us)
      PROVE  SentOnce' /\ Heldback'
  <2> DEFINE r == Request("hello", us, us \ Known(view))
  <2>1. up' = SentUp(up, reader, r) /\ r.method # "dispatch"
    BY <1>3 DEF Hello, Ask, Request
  <2>2. /\ UNCHANGED <<nextSeq, stored, flushing, done>> /\ Queues
        /\ ~done /\ ready' = FALSE
    BY <1>3 DEF Hello, BeginHandshake, linkState, saveState, Queues
  <2> HIDE DEF r
  <2> QED BY <1>1, <2>1, <2>2, AskedHolds
<1>4. ASSUME NEW s \in Sockets, Reconnect(s)
      PROVE  SentOnce' /\ Heldback'
  <2> DEFINE r == [Request("reconnect", subscribed, {}) EXCEPT !.seen = view.seen]
  <2>1. up' = SentUp(up, s, r)
    BY <1>4 DEF Reconnect
  <2>2. r.method # "dispatch"
    BY DEF Request
  <2>3. /\ UNCHANGED <<nextSeq, stored, flushing, done>> /\ Queues
        /\ ~done /\ ready' = FALSE
    BY <1>4 DEF Reconnect, BeginHandshake, linkState, saveState, Queues
  <2> HIDE DEF r
  <2> QED BY <1>1, <2>1, <2>2, <2>3, AskedHolds
<1>5. ASSUME NEW u \in Uris, Subscribe(u)
      PROVE  SentOnce' /\ Heldback'
  <2> DEFINE r == [Request("subscribe", {u}, {u} \ Known(view)) EXCEPT !.uri = u]
  <2>1. up' = SentUp(up, reader, r)
    BY <1>5 DEF Subscribe, Ask
  <2>2. r.method # "dispatch"
    BY DEF Request
  <2>3. /\ UNCHANGED <<nextSeq, stored, flushing, done, ready, writable>> /\ Queues /\ ~done
    BY <1>5 DEF Subscribe, linkState, shakeState, saveState, Queues
  <2> HIDE DEF r
  <2> QED BY <1>1, <1>2, <2>1, <2>2, <2>3, AskedHolds
<1>6. ASSUME NEW u \in Uris, Unsubscribe(u)
      PROVE  SentOnce' /\ Heldback'
  <2> DEFINE r == [method |-> "unsubscribe", uri |-> u]
  <2>1. up' = SentUp(up, reader, r) \/ up' = up
    BY <1>6 DEF Unsubscribe
  <2>2. r.method # "dispatch"
    OBVIOUS
  <2>3. UNCHANGED <<nextSeq, stored, flushing, done, ready, writable, reader>> /\ Queues
    BY <1>6, PersistQueues DEF Unsubscribe, linkState, shakeState
  <2>4. Connected' = Connected
    BY <2>3 DEF Connected
  <2> HIDE DEF r
  <2> QED BY <1>1, <1>2, <2>1, <2>2, <2>3, <2>4, AskedHolds
<1> QED BY <1>3, <1>4, <1>5, <1>6

\* What happens to the client.
LEMMA EventsHold ==
  ASSUME Types, Types', SentOnce, Heldback, UNCHANGED serverVars,
         \/ ReceivePush \/ ReceiveAnswer \/ ReceiveLate \/ EndOfStream
         \/ \E r \in waiting : Timeout(r)
         \/ Shutdown \/ Restore
  PROVE  SentOnce' /\ Heldback'
<1>1. UNCHANGED <<job, log>>
  BY DEF serverVars, hubVars
<1>2. /\ done => ~Connected /\ ~ready
      /\ ready => writable
  BY DEF Heldback
<1>3. up' = up
  BY DEF ReceivePush, ReceiveAnswer, ReceiveLate, EndOfStream, Timeout, Shutdown, Restore
<1>4. SentOnce' /\ \A n \in Numbers : IsSent(n)' => IsSent(n)
  BY <1>1, <1>3, SentNothing
<1>5. ASSUME UNCHANGED <<nextSeq, stored, flushing>>, Queues,
             done' => ~Connected' /\ ~ready', ready' => writable'
      PROVE  Heldback'
  BY <1>4, <1>5, HeldStill
<1>6. CASE ReceivePush
  <2>1. UNCHANGED <<nextSeq, stored, flushing, done, ready, writable, reader>> /\ Queues
    BY <1>6, PersistQueues DEF ReceivePush, linkState
  <2> QED BY <1>2, <1>4, <1>5, <2>1 DEF Connected
<1>7. CASE ReceiveAnswer
  <2>1. UNCHANGED <<nextSeq, stored, flushing, done, reader>> /\ Queues /\ Connected
    BY <1>7, PersistQueues DEF ReceiveAnswer, Incoming
  <2>2. \/ ready' = TRUE /\ writable' = TRUE
        \/ UNCHANGED <<ready, writable>>
    BY <1>7 DEF ReceiveAnswer, Welcome, Resumed, Joined, Answered, shakeState
  <2> QED BY <1>2, <1>4, <1>5, <2>1, <2>2
<1>8. CASE ReceiveLate
  <2>1. /\ UNCHANGED <<nextSeq, stored, flushing, done, ready, writable, reader>>
        /\ Queues
    BY <1>8 DEF ReceiveLate, clientVars, linkState, shakeState, saveState, Queues
  <2> QED BY <1>2, <1>4, <1>5, <2>1 DEF Connected
<1>9. CASE EndOfStream
  <2>1. /\ UNCHANGED <<nextSeq, stored, flushing>> /\ Queues
        /\ ready' = FALSE /\ reader' = 0
    BY <1>9, PersistQueues DEF EndOfStream
  <2> QED BY <1>4, <1>5, <2>1 DEF Connected
<1>10. CASE \E r \in waiting : Timeout(r)
  <2>1. UNCHANGED <<nextSeq, stored, flushing, done, ready, writable, reader>> /\ Queues
    BY <1>10, PersistQueues DEF Timeout, linkState, shakeState
  <2> QED BY <1>2, <1>4, <1>5, <2>1 DEF Connected
<1>11. CASE Shutdown
  <2>1. UNCHANGED <<nextSeq, stored, writable>> /\ Queues
    BY <1>11, PersistQueues DEF Shutdown
  <2>2. /\ UNCHANGED <<reader, ready, done>> \/ (reader' = 0 /\ ready' = FALSE)
    BY <1>11 DEF Shutdown, TearDown, shakeState
  <2>3. (done' => ~Connected' /\ ~ready') /\ (ready' => writable')
    BY <1>2, <2>1, <2>2 DEF Connected
  <2>4. flushing' = flushing \/ \E w : w.n = 0 /\ flushing' = Append(flushing, w) /\ Durable
    <3> DEFINE w == Flush(0, CHOOSE u \in Uris : TRUE)
    <3>1. flushing' = flushing \/ (flushing' = Append(flushing, w) /\ Durable)
      <4> DEFINE waits == Durable /\ (writable \/ saves # << >>)
      <4>1. flushing' = IF waits THEN Append(flushing, w) ELSE flushing
        BY <1>11 DEF Shutdown
      <4> HIDE DEF w
      <4> QED BY <4>1
    <3>2. w.n = 0
      BY DEF Flush
    <3> QED BY <3>1, <3>2
  <2> QED BY <1>4, <2>1, <2>3, <2>4, HeldStill
<1>12. CASE Restore
  <2>1. /\ Durable /\ stored # None /\ nextSeq' = stored.nextSeq /\ stored' = stored
        /\ reader' = 0 /\ ready' = FALSE /\ saves' = << >> /\ flushing' = << >>
    BY <1>12 DEF Restore
  <2>2. \A n \in Numbers : IsSent(n)' => n < stored.nextSeq
    BY <1>4, <2>1 DEF Heldback
  <2>3. ~Connected'
    BY <2>1 DEF Connected
  <2>4. Heldback'
    BY <2>1, <2>2, <2>3 DEF Heldback
  <2> QED BY <1>4, <2>4
<1> QED BY <1>6, <1>7, <1>8, <1>9, <1>10, <1>11, <1>12

-----------------------------------------------------------------------------
(* The end of a save. *)

\* A selection takes every position once.
LEMMA SelectedOnce ==
  ASSUME NEW A, NEW s \in Seq(A), NEW I \in SUBSET (DOMAIN s)
  PROVE  \E f : /\ \A k \in DOMAIN Selected(s, I) : f[k] \in I /\ Selected(s, I)[k] = s[f[k]]
                /\ \A j, k \in DOMAIN Selected(s, I) : f[j] = f[k] => j = k
<1> DEFINE c == Cardinality(I)
           sel == Selected(s, I)
<1>1. PICK f \in [1..c -> I] :
        /\ sel = [k \in 1..c |-> s[f[k]]]
        /\ \A j, k \in 1..c : j < k => f[j] < f[k]
  <2> HIDE DEF sel
  <2>1. \E f \in [1..c -> I] :
        /\ Selected(s, I) = [k \in 1..c |-> s[f[k]]]
        /\ \A j, k \in 1..c : j < k => f[j] < f[k]
    BY Selecting
  <2> QED BY <2>1 DEF sel
<1>2. c \in Nat /\ DOMAIN sel = 1..c
  BY SelectedTyped
<1>3. \A i \in I : i \in Nat
  OBVIOUS
<1> HIDE DEF c, sel
<1>4. \A k \in 1..c : f[k] \in I /\ sel[k] = s[f[k]] /\ f[k] \in Nat
  BY <1>1, <1>3
<1>5. \A j, k \in 1..c : f[j] = f[k] => j = k
  <2>1. \A j, k \in 1..c : j < k \/ k < j \/ j = k
    BY <1>2
  <2> QED BY <1>1, <1>4, <2>1
<1> QED BY <1>2, <1>4, <1>5 DEF sel

\* Those who wait again are callers that waited before, each of them once.
LEMMA WaitAgainFrom ==
  ASSUME Types, Len(saves) > 1
  PROVE  \E g :
           /\ \A k \in DOMAIN WaitAgain :
                /\ g[k] \in DOMAIN flushing /\ WaitAgain[k].n = flushing[g[k]].n
                /\ \/ /\ flushing[g[k]].behind > 1
                      /\ WaitAgain[k].behind = flushing[g[k]].behind - 1
                   \/ WaitAgain[k].behind = Len(saves) - 1
           /\ \A j, k \in DOMAIN WaitAgain : g[j] = g[k] => j = k
<1> DEFINE I == {i \in DOMAIN flushing : flushing[i].behind > 1}
           J == {i \in DOMAIN flushing : flushing[i].behind <= 1}
           later == Selected(flushing, I)
           woken == Selected(flushing, J)
           p == [i \in DOMAIN later |-> [later[i] EXCEPT !.behind = @ - 1]]
           q == [i \in DOMAIN woken |-> [woken[i] EXCEPT !.behind = Len(saves) - 1]]
<1>1. /\ flushing \in Seq(Flushes)
      /\ \A i \in DOMAIN flushing : flushing[i] \in [n : 0..MaxDispatch, uri : SomeUris, behind : Nat]
  <2>1. flushing \in Seq(Flushes)
    BY DEF Types, ClientTypes
  <2>2. \A i \in DOMAIN flushing : flushing[i] \in Flushes
    <3> HIDE DEF Flushes
    <3> QED BY <2>1
  <2> QED BY <2>1, <2>2 DEF Flushes
<1>2. WaitAgain = p \o q
  BY DEF WaitAgain
<1>3. /\ I \in SUBSET (DOMAIN flushing) /\ J \in SUBSET (DOMAIN flushing)
      /\ \A i \in I : i \notin J /\ flushing[i].behind > 1
  <2>1. \A i \in DOMAIN flushing : flushing[i].behind \in Nat
    BY <1>1
  <2> QED BY <2>1
<1> HIDE DEF I, J
<1>4. PICK f : /\ \A k \in DOMAIN later : f[k] \in I /\ later[k] = flushing[f[k]]
               /\ \A j, k \in DOMAIN later : f[j] = f[k] => j = k
  BY <1>1, <1>3, SelectedOnce
<1>5. PICK h : /\ \A k \in DOMAIN woken : h[k] \in J /\ woken[k] = flushing[h[k]]
               /\ \A j, k \in DOMAIN woken : h[j] = h[k] => j = k
  BY <1>1, <1>3, SelectedOnce
<1>6. later \in Seq(Flushes) /\ woken \in Seq(Flushes)
  BY <1>1, <1>3, SelectedTyped
<1> HIDE DEF later, woken
<1> DEFINE a == Len(later)
           b == Len(woken)
<1> DEFINE P == {[later[i] EXCEPT !.behind = @ - 1] : i \in DOMAIN later}
           Q == {[woken[i] EXCEPT !.behind = Len(saves) - 1] : i \in DOMAIN woken}
<1>8. p \in Seq(P) /\ q \in Seq(Q)
  <2>1. /\ \A i \in DOMAIN later : [later[i] EXCEPT !.behind = @ - 1] \in P
        /\ \A i \in DOMAIN woken : [woken[i] EXCEPT !.behind = Len(saves) - 1] \in Q
    OBVIOUS
  <2>2. DOMAIN later = 1..Len(later) /\ DOMAIN woken = 1..Len(woken)
        /\ Len(later) \in Nat /\ Len(woken) \in Nat
    BY <1>6
  <2> HIDE DEF P, Q
  <2>3. p \in Seq(P)
    BY <2>1, <2>2
  <2>4. q \in Seq(Q)
    BY <2>1, <2>2
  <2> QED BY <2>3, <2>4
<1> HIDE DEF P, Q, a, b
<1>7. /\ a \in Nat /\ b \in Nat /\ DOMAIN later = 1..a /\ DOMAIN woken = 1..b
  BY <1>6 DEF a, b
<1>9. /\ DOMAIN p = 1..a /\ DOMAIN q = 1..b
      /\ \A k \in 1..a : p[k].n = later[k].n /\ p[k].behind = later[k].behind - 1
      /\ \A k \in 1..b : q[k].n = woken[k].n /\ q[k].behind = Len(saves) - 1
  <2>1. \A k \in 1..a : later[k] \in [n : 0..MaxDispatch, uri : SomeUris, behind : Nat]
    BY <1>1, <1>3, <1>4, <1>7
  <2>2. \A k \in 1..b : woken[k] \in [n : 0..MaxDispatch, uri : SomeUris, behind : Nat]
    BY <1>1, <1>3, <1>5, <1>7
  <2> QED BY <1>7, <2>1, <2>2
<1> HIDE DEF p, q
<1> DEFINE w == p \o q
           g == [k \in 1..(a + b) |-> IF k <= a THEN f[k] ELSE h[k - a]]
<1>10. /\ DOMAIN w = 1..(a + b)
       /\ \A k \in 1..(a + b) : k <= a => w[k] = p[k]
       /\ \A k \in 1..(a + b) : ~(k <= a) => w[k] = q[k - a]
  <2>1. Len(p) = a /\ Len(q) = b
    BY <1>7, <1>8, <1>9
  <2>2. DOMAIN w = 1..(Len(p) + Len(q))
    BY <1>8
  <2>3. \A k \in 1..(Len(p) + Len(q)) : w[k] = IF k <= Len(p) THEN p[k] ELSE q[k - Len(p)]
    BY <1>8
  <2> QED BY <2>1, <2>2, <2>3
<1> HIDE DEF w
<1>11. ASSUME NEW k \in 1..(a + b)
       PROVE  \/ k \in 1..a /\ g[k] = f[k] /\ w[k] = p[k]
              \/ ~(k <= a) /\ k - a \in 1..b /\ g[k] = h[k - a] /\ w[k] = q[k - a]
  BY <1>7, <1>10
<1> HIDE DEF g
<1>12. ASSUME NEW k \in 1..(a + b)
       PROVE  /\ g[k] \in DOMAIN flushing /\ w[k].n = flushing[g[k]].n
              /\ \/ flushing[g[k]].behind > 1 /\ w[k].behind = flushing[g[k]].behind - 1
                 \/ w[k].behind = Len(saves) - 1
  <2>1. CASE k \in 1..a /\ g[k] = f[k] /\ w[k] = p[k]
    <3>1. f[k] \in I /\ later[k] = flushing[f[k]]
      BY <1>4, <1>7, <2>1
    <3> QED BY <1>3, <1>9, <2>1, <3>1
  <2>2. CASE ~(k <= a) /\ k - a \in 1..b /\ g[k] = h[k - a] /\ w[k] = q[k - a]
    <3>1. h[k - a] \in J /\ woken[k - a] = flushing[h[k - a]]
      BY <1>5, <1>7, <2>2
    <3> QED BY <1>3, <1>9, <2>2, <3>1
  <2> QED BY <1>11, <2>1, <2>2
<1>13. ASSUME NEW j \in 1..(a + b), NEW k \in 1..(a + b), g[j] = g[k]
       PROVE  j = k
  <2>1. \A i \in 1..a : f[i] \in I
    BY <1>4, <1>7
  <2>2. \A i \in 1..b : h[i] \in J
    BY <1>5, <1>7
  <2>3. CASE j \in 1..a /\ k \in 1..a
    BY <1>4, <1>7, <1>11, <1>13, <2>3
  <2>4. CASE ~(j <= a) /\ ~(k <= a)
    <3>1. /\ j - a \in 1..b /\ g[j] = h[j - a]
          /\ k - a \in 1..b /\ g[k] = h[k - a]
      BY <1>7, <1>11, <2>4
    <3>2. h[j - a] = h[k - a]
      BY <1>13, <3>1
    <3>3. \A m, n \in 1..b : h[m] = h[n] => m = n
      BY <1>5, <1>7
    <3>4. j - a = k - a
      BY <3>1, <3>2, <3>3
    <3> QED BY <1>7, <3>4
  <2>5. CASE j \in 1..a /\ ~(k <= a)
    BY <1>3, <1>7, <1>11, <1>13, <2>1, <2>2, <2>5
  <2>6. CASE k \in 1..a /\ ~(j <= a)
    BY <1>3, <1>7, <1>11, <1>13, <2>1, <2>2, <2>6
  <2> QED BY <1>7, <2>3, <2>4, <2>5, <2>6
<1>14. WaitAgain = w /\ DOMAIN w = 1..(a + b)
  BY <1>2, <1>10 DEF w
<1> QED BY <1>12, <1>13, <1>14

\* The dispatches among some of the callers are sent.
LEMMA CallersSent ==
  ASSUME Types, SentOnce, Heldback, UNCHANGED <<job, log>>, NEW s \in Seq(Flushes),
         \A i \in DOMAIN s : i \in DOMAIN flushing /\ s[i] = flushing[i], SendAll(Sent(s))
  PROVE  /\ SentOnce'
         /\ \A n \in Numbers : IsSent(n)' =>
              \/ IsSent(n)
              \/ ~failed' /\ \E i \in DOMAIN flushing : flushing[i].n = n
<1>1. /\ \A k \in DOMAIN Sent(s) :
           ~failed' /\ \E i \in DOMAIN s : s[i].n # 0 /\ Sent(s)[k].n = s[i].n
      /\ \A j, k \in DOMAIN Sent(s) : Sent(s)[j].n = Sent(s)[k].n => j = k
  <2>1. \A i, j \in DOMAIN s : s[i].n # 0 /\ s[i].n = s[j].n => i = j
    BY DEF Heldback
  <2> QED BY <2>1, SentNumbers
<1>2. Sent(s) \in Seq(Requests)
  BY SentRequests
<1>3. up' = SendFrames(up, reader, Sent(s))
  BY DEF SendAll, SendFrames
<1>4. PICK rs : rs = Sent(s)
  OBVIOUS
<1>5. Added(reader, rs)
  <2>1. PICK A : A = UpFrames \cup Requests
    OBVIOUS
  <2>2. up \in [Sockets -> Seq(UpFrames)]
    BY DEF Types, WireTypes
  <2>3. UpFrames \subseteq A /\ Requests \subseteq A
    BY <2>1
  <2> HIDE DEF UpFrames, Requests
  <2>4. up \in [Sockets -> Seq(A)]
    BY <2>2, <2>3, QueuesGrow
  <2>5. rs \in Seq(A)
    BY <1>2, <1>4, <2>3
  <2>6. PICK v : v = up
    OBVIOUS
  <2>7. PICK t : t = reader
    OBVIOUS
  <2>8. up' = SendFrames(v, t, rs) /\ v \in [Sockets -> Seq(A)]
    BY <1>3, <1>4, <2>4, <2>6, <2>7
  <2>9. \A x \in Sockets : \A j \in DOMAIN SendFrames(v, t, rs)[x] :
           \/ j \in DOMAIN v[x] /\ SendFrames(v, t, rs)[x][j] = v[x][j]
           \/ x = t /\ \E k \in DOMAIN rs :
                         j = Len(v[x]) + k /\ SendFrames(v, t, rs)[x][j] = rs[k]
    BY <2>5, <2>8, FramesFollow
  <2> QED BY <2>6, <2>7, <2>8, <2>9 DEF Added
<1>6. \A k \in DOMAIN rs : \E i \in DOMAIN flushing : rs[k].n = flushing[i].n /\ rs[k].n # 0
  BY <1>1, <1>4
<1>7. \A k \in DOMAIN rs : rs[k] \in Requests
  BY <1>2, <1>4
<1>8. \A k \in DOMAIN rs : rs[k].method = "dispatch" => ~IsSent(rs[k].n)
  <2>1. \A k \in DOMAIN rs : rs[k].n # 0 => rs[k].n \in Numbers
    BY <1>7, ClientAssumption DEF Requests, Numbers
  <2> QED BY <1>6, <2>1 DEF Heldback
<1>9. \A j, k \in DOMAIN rs :
        rs[j].method = "dispatch" /\ rs[k].method = "dispatch" /\ rs[j].n = rs[k].n => j = k
  BY <1>1, <1>4
<1>10. PICK t : t = reader
  OBVIOUS
<1>11. /\ SentOnce'
       /\ \A n : IsSent(n)' =>
            IsSent(n) \/ \E k \in DOMAIN rs : rs[k].method = "dispatch" /\ rs[k].n = n
  <2>1. Added(t, rs)
    BY <1>5, <1>10
  <2> QED BY <1>8, <1>9, <2>1, SentMore
<1> QED BY <1>1, <1>4, <1>6, <1>11

\* The end of the last save.
LEMMA LastSaveHolds ==
  ASSUME Types, Types', SentOnce, Heldback, UNCHANGED serverVars, NEW ok \in BOOLEAN,
         SaveEnds(ok), Len(saves) = 1, Flushed
  PROVE  SentOnce' /\ Heldback'
<1>1. /\ saves # << >> /\ failed' = ~ok
      /\ stored' = IF ok THEN Head(saves) ELSE stored
      /\ UNCHANGED <<current, initialized, nextSeq, writable, detached>>
  BY DEF SaveEnds
<1>2. UNCHANGED <<job, log>>
  BY DEF serverVars, hubVars
<1>3. /\ flushing \in Seq(Flushes) /\ DOMAIN saves = {1} /\ Head(saves) = saves[1]
  BY DEF Types, ClientTypes
<1>4. Durable /\ flushing' = << >>
  BY <1>1 DEF Heldback, Flushed
<1> DEFINE closes == {i \in DOMAIN flushing : flushing[i].n = 0}
           m == CHOOSE i \in closes : TRUE
           before == SubSeq(flushing, 1, m - 1)
<1>5. /\ SentOnce'
      /\ \A n \in Numbers : IsSent(n)' =>
           \/ IsSent(n)
           \/ ~failed' /\ \E i \in DOMAIN flushing : flushing[i].n = n
  <2>1. CASE closes # {} /\ SendAll(Sent(before))
    <3>1. m \in DOMAIN flushing
      BY <2>1
    <3> HIDE DEF m
    <3>2. /\ before \in Seq(Flushes)
          /\ \A i \in DOMAIN before : i \in DOMAIN flushing /\ before[i] = flushing[i]
      <4> HIDE DEF Flushes
      <4> QED BY <1>3, <3>1
    <3> HIDE DEF before
    <3> QED BY <1>2, <2>1, <3>2, CallersSent
  <2>2. CASE SendAll(Sent(flushing))
    BY <1>2, <1>3, <2>2, CallersSent
  <2> QED BY <2>1, <2>2 DEF Flushed
<1>6. \A n \in Numbers : IsSent(n)' => n < nextSeq'
  BY <1>1, <1>5 DEF Heldback
<1>7. ASSUME NEW n \in Numbers, IsSent(n)', stored' # None
      PROVE  n < stored'.nextSeq
  <2>1. CASE ok
    <3>1. n < saves[1].nextSeq
      <4>1. CASE IsSent(n)
        BY <1>3, <1>4, <4>1 DEF Heldback
      <4>2. ASSUME NEW i \in DOMAIN flushing, flushing[i].n = n
            PROVE  n < saves[1].nextSeq
        BY <1>3, <4>2 DEF Heldback
      <4> QED BY <1>5, <1>7, <4>1, <4>2
    <3> QED BY <1>1, <1>3, <2>1, <3>1
  <2>2. CASE ~ok
    <3>1. IsSent(n) /\ stored' = stored
      BY <1>1, <1>5, <1>7, <2>2
    <3> QED BY <1>4, <1>7, <3>1 DEF Heldback
  <2> QED BY <2>1, <2>2
<1>8. /\ UNCHANGED <<reader, ready, done>> \/ (reader' = 0 /\ ready' = FALSE)
      /\ saves' = << >> \/ saves' = <<Checkpoint(view', subscribed, nextSeq)>>
  <2>1. CASE TearDown /\ saves' = << >>
    BY <2>1 DEF TearDown
  <2>2. CASE /\ saves' = IF view' # view /\ writable
                         THEN <<Checkpoint(view', subscribed, nextSeq)>> ELSE << >>
             /\ UNCHANGED <<reader, down, shakeState, done, subscribed>>
    <3>1. saves' = << >> \/ saves' = <<Checkpoint(view', subscribed, nextSeq)>>
      BY <2>2, Zenon
    <3> QED BY <2>2, <3>1 DEF shakeState
  <2> QED BY <2>1, <2>2 DEF Flushed
<1>9. \A k \in DOMAIN saves' : saves'[k].nextSeq = nextSeq
  <2>1. PICK c : c = Checkpoint(view', subscribed, nextSeq)
    OBVIOUS
  <2>2. c.nextSeq = nextSeq
    BY <2>1 DEF Checkpoint
  <2> QED BY <1>8, <2>1, <2>2
<1>10. (done' => ~Connected' /\ ~ready') /\ (ready' => writable')
  BY <1>1, <1>8 DEF Heldback, Connected
<1>11. \A n \in Numbers : IsSent(n)' =>
         \A k \in DOMAIN saves' : n < saves'[k].nextSeq
  BY <1>1, <1>6, <1>9
<1> HIDE DEF closes, m, before
<1> QED BY <1>4, <1>5, <1>6, <1>7, <1>10, <1>11 DEF Heldback

\* The end of a save when more are queued.
LEMMA OneSaveHolds ==
  ASSUME Types, Types', SentOnce, Heldback, UNCHANGED serverVars, NEW ok \in BOOLEAN,
         SaveEnds(ok), Len(saves) > 1, flushing' = WaitAgain, saves' = Tail(saves),
         UNCHANGED <<reader, down, up, shakeState, done, waiting, nextId, subscribed, view>>
  PROVE  SentOnce' /\ Heldback'
<1>1. /\ saves # << >>
      /\ stored' = IF ok THEN Head(saves) ELSE stored
      /\ UNCHANGED <<nextSeq, writable, reader, ready, done, up, job, log>>
  BY DEF SaveEnds, shakeState, serverVars, hubVars
<1>2. /\ DOMAIN saves = 1..Len(saves) /\ Len(saves) \in Nat /\ Head(saves) = saves[1]
      /\ DOMAIN saves' = 1..(Len(saves) - 1)
      /\ \A k \in 1..(Len(saves) - 1) : saves'[k] = saves[k + 1]
  <2>1. saves \in Seq(Checkpoints)
    BY DEF Types, ClientTypes
  <2> HIDE DEF Checkpoints
  <2> QED BY <2>1
<1>3. /\ Durable /\ SentOnce' /\ \A n \in Numbers : IsSent(n)' => IsSent(n)
      /\ \A n \in Numbers : IsSent(n) => IsSent(n)'
  <2>1. Durable
    BY <1>1 DEF Heldback
  <2>2. SentOnce' /\ \A n : IsSent(n)' => IsSent(n)
    BY <1>1, SentNothing
  <2>3. \A n : IsSent(n) => IsSent(n)'
    BY <1>1 DEF IsSent, OnItsWay, InHand, NumberAt
  <2> QED BY <2>1, <2>2, <2>3
<1>4. PICK g :
        /\ \A k \in DOMAIN WaitAgain :
             /\ g[k] \in DOMAIN flushing /\ WaitAgain[k].n = flushing[g[k]].n
             /\ \/ /\ flushing[g[k]].behind > 1
                   /\ WaitAgain[k].behind = flushing[g[k]].behind - 1
                \/ WaitAgain[k].behind = Len(saves) - 1
        /\ \A j, k \in DOMAIN WaitAgain : g[j] = g[k] => j = k
  BY WaitAgainFrom
<1>5. /\ \A k \in DOMAIN flushing' :
             /\ g[k] \in DOMAIN flushing /\ flushing'[k].n = flushing[g[k]].n
             /\ \/ /\ flushing[g[k]].behind > 1
                   /\ flushing'[k].behind = flushing[g[k]].behind - 1
                \/ flushing'[k].behind = Len(saves) - 1
      /\ \A j, k \in DOMAIN flushing' : g[j] = g[k] => j = k
  BY <1>4
<1>6. ASSUME NEW n \in Numbers, IsSent(n)'
      PROVE  /\ n < nextSeq'
             /\ stored' # None => n < stored'.nextSeq
             /\ \A k \in DOMAIN saves' : n < saves'[k].nextSeq
  <2>1. /\ n < nextSeq /\ (stored # None => n < stored.nextSeq)
        /\ \A k \in DOMAIN saves : n < saves[k].nextSeq
    BY <1>3, <1>6 DEF Heldback
  <2>2. 1 \in DOMAIN saves /\ \A k \in DOMAIN saves' : k + 1 \in DOMAIN saves
    BY <1>2
  <2> QED BY <1>1, <1>2, <2>1, <2>2
<1>7. ASSUME NEW n \in Numbers, NEW i \in DOMAIN flushing', flushing'[i].n = n
      PROVE  /\ ~IsSent(n)' /\ n < nextSeq'
             /\ flushing'[i].behind \in DOMAIN saves'
             /\ \A k \in DOMAIN saves' : flushing'[i].behind <= k => n < saves'[k].nextSeq
  <2>1. g[i] \in DOMAIN flushing /\ flushing[g[i]].n = n
    BY <1>5, <1>7
  <2>2. /\ ~IsSent(n) /\ n < nextSeq /\ flushing[g[i]].behind \in DOMAIN saves
        /\ \A k \in DOMAIN saves : flushing[g[i]].behind <= k => n < saves[k].nextSeq
    BY <2>1 DEF Heldback
  <2> DEFINE b == flushing[g[i]].behind
  <2>3. b \in 1..Len(saves) /\ flushing'[i].behind \in 1..(Len(saves) - 1)
        /\ b <= flushing'[i].behind + 1
    BY <1>2, <1>5, <2>2
  <2>4. ASSUME NEW k \in DOMAIN saves', flushing'[i].behind <= k
        PROVE  n < saves'[k].nextSeq
    <3>1. k \in 1..(Len(saves) - 1) /\ k + 1 \in DOMAIN saves /\ b <= k + 1
      BY <1>2, <2>3, <2>4
    <3> QED BY <1>2, <2>2, <3>1
  <2> QED BY <1>1, <1>2, <1>3, <2>2, <2>3, <2>4
<1>8. \A i, j \in DOMAIN flushing' :
        flushing'[i].n # 0 /\ flushing'[i].n = flushing'[j].n => i = j
  <2> SUFFICES ASSUME NEW i \in DOMAIN flushing', NEW j \in DOMAIN flushing',
                      flushing'[i].n # 0, flushing'[i].n = flushing'[j].n
               PROVE  i = j
    OBVIOUS
  <2>1. g[i] = g[j]
    BY <1>5 DEF Heldback
  <2> QED BY <1>5, <2>1
<1>9. Connected' = Connected /\ done' = done /\ ready' = ready /\ writable' = writable
  BY <1>1 DEF Connected
<1>10. done' => ~Connected' /\ ~ready'
  BY <1>9 DEF Heldback
<1>11. ready' => writable'
  <2>1. ready => writable
    BY DEF Heldback
  <2> QED BY <1>9, <2>1
<1> QED BY <1>3, <1>6, <1>7, <1>8, <1>10, <1>11 DEF Heldback

-----------------------------------------------------------------------------
(* A dispatch takes the next number. *)

\* With a storage the caller waits behind a checkpoint that says that its number is
\* used; without one the request is sent at once.
LEMMA DispatchHolds ==
  ASSUME Types, Types', SentOnce, Heldback, NEW u \in Uris, Dispatch(u), UNCHANGED serverVars
  PROVE  SentOnce' /\ Heldback'
<1> DEFINE c == Checkpoint(view', subscribed', nextSeq')
           w == Flush(nextSeq, u)
           r == DispatchRequest(nextId, u, nextSeq)
<1>1. /\ ready /\ nextSeq <= MaxDispatch /\ nextSeq' = nextSeq + 1
      /\ UNCHANGED <<linkState, shakeState, writable, stored, reader>>
      /\ Persist(TRUE)
  BY DEF Dispatch
<1>2. \/ Durable /\ flushing' = Append(flushing, w) /\ UNCHANGED <<callState, up>>
      \/ ~Durable /\ Ask(r) /\ UNCHANGED flushing
  BY DEF Dispatch
<1>3. /\ UNCHANGED <<job, log>>
      /\ done' = done /\ ready' = ready /\ writable' = writable /\ Connected' = Connected
  BY <1>1 DEF serverVars, hubVars, linkState, shakeState, Connected
<1>4. nextSeq \in Numbers /\ nextSeq \in Nat /\ nextSeq # 0
  BY <1>1, ClientAssumption DEF Types, ClientTypes, Numbers
<1>5. ~IsSent(nextSeq)
  BY <1>4 DEF Heldback
<1>6. writable /\ ~done
  BY <1>1 DEF Heldback
<1>7. done' => ~Connected' /\ ~ready'
  BY <1>3 DEF Heldback
<1>8. ready' => writable'
  BY <1>3, <1>6
<1>9. CASE ~Durable
  <2>1. up' = SentUp(up, reader, r) /\ flushing' = flushing
    BY <1>2, <1>9 DEF Ask
  <2>2. r.method = "dispatch" /\ r.n = nextSeq
    BY DEF DispatchRequest
  <2> HIDE DEF r
  <2>3. /\ SentOnce'
        /\ \A n : IsSent(n)' => IsSent(n) \/ n = nextSeq
    BY <1>3, <1>5, <2>1, <2>2, SentOne
  <2>4. saves' = << >> /\ flushing' = << >>
    <3>1. saves' = saves
      BY <1>1, <1>9 DEF Persist
    <3> QED BY <1>9, <2>1, <3>1 DEF Heldback
  <2>5. \A n \in Numbers : IsSent(n)' => n < nextSeq'
    BY <1>1, <1>4, <2>3 DEF Heldback, Numbers
  <2> QED BY <1>7, <1>8, <1>9, <2>3, <2>4, <2>5 DEF Heldback
<1>10. CASE Durable
  <2>1. up' = up /\ flushing' = Append(flushing, w)
    BY <1>2, <1>10
  <2>2. saves' = Append(saves, c) /\ c.nextSeq = nextSeq'
    <3>1. saves' = Append(saves, c)
      BY <1>1, <1>3, <1>6, <1>10 DEF Persist
    <3> QED BY <3>1 DEF Checkpoint
  <2>3. w.n = nextSeq /\ w.behind = Len(saves')
    BY DEF Flush
  <2>4. /\ SentOnce' /\ \A n : IsSent(n)' => IsSent(n)
    BY <1>3, <2>1, SentNothing
  <2>5. saves \in Seq(Checkpoints) /\ saves' \in Seq(Checkpoints') /\ flushing \in Seq(Flushes)
    BY DEF Types, ClientTypes
  <2> HIDE DEF c, w, Checkpoints, Flushes
  <2>6. /\ DOMAIN saves = 1..Len(saves) /\ Len(saves) \in Nat
        /\ DOMAIN saves' = 1..(Len(saves) + 1) /\ Len(saves') = Len(saves) + 1
        /\ \A k \in 1..Len(saves) : saves'[k] = saves[k]
        /\ saves'[Len(saves) + 1] = c
    BY <2>2, <2>5
  <2>7. /\ DOMAIN flushing = 1..Len(flushing) /\ Len(flushing) \in Nat
        /\ DOMAIN flushing' = 1..(Len(flushing) + 1)
        /\ \A k \in 1..Len(flushing) : flushing'[k] = flushing[k]
        /\ flushing'[Len(flushing) + 1] = w
    BY <2>1, <2>5
  <2>8. \A n \in Numbers : n \in Nat
    BY DEF Numbers
  <2>9. ASSUME NEW n \in Numbers, IsSent(n)'
        PROVE  /\ n < nextSeq'
               /\ stored' # None => n < stored'.nextSeq
               /\ \A k \in DOMAIN saves' : n < saves'[k].nextSeq
    <3>1. /\ IsSent(n) /\ n < nextSeq
          /\ stored # None => n < stored.nextSeq
          /\ \A k \in DOMAIN saves : n < saves[k].nextSeq
      BY <1>10, <2>4, <2>9 DEF Heldback
    <3>2. n < nextSeq'
      BY <1>1, <1>4, <2>8, <3>1
    <3> QED BY <1>1, <2>2, <2>6, <3>1, <3>2
  <2>10. ASSUME NEW i \in DOMAIN flushing'
         PROVE  \/ i \in DOMAIN flushing /\ flushing'[i] = flushing[i]
                \/ i = Len(flushing) + 1 /\ flushing'[i] = w
    BY <2>7
  <2>11. ASSUME NEW n \in Numbers, NEW i \in DOMAIN flushing', flushing'[i].n = n
         PROVE  /\ ~IsSent(n)' /\ n < nextSeq'
                /\ flushing'[i].behind \in DOMAIN saves'
                /\ \A k \in DOMAIN saves' : flushing'[i].behind <= k => n < saves'[k].nextSeq
    <3>1. CASE i \in DOMAIN flushing /\ flushing'[i] = flushing[i]
      <4>1. /\ ~IsSent(n) /\ n < nextSeq /\ flushing[i].behind \in DOMAIN saves
            /\ \A k \in DOMAIN saves : flushing[i].behind <= k => n < saves[k].nextSeq
        BY <2>11, <3>1 DEF Heldback
      <4>2. n < nextSeq'
        BY <1>1, <1>4, <2>8, <4>1
      <4> QED BY <2>2, <2>4, <2>6, <3>1, <4>1, <4>2
    <3>2. CASE i = Len(flushing) + 1 /\ flushing'[i] = w
      <4>1. n = nextSeq /\ n < nextSeq'
        BY <1>1, <1>4, <2>3, <2>11, <3>2
      <4> QED BY <1>5, <2>2, <2>3, <2>4, <2>6, <3>2, <4>1
    <3> QED BY <2>10, <3>1, <3>2
  <2>12. \A i \in DOMAIN flushing : flushing[i].n # nextSeq
    BY <1>4 DEF Heldback
  <2>13. ASSUME NEW i \in DOMAIN flushing', NEW j \in DOMAIN flushing',
                flushing'[i].n # 0, flushing'[i].n = flushing'[j].n
         PROVE  i = j
    <3>1. CASE i \in DOMAIN flushing /\ flushing'[i] = flushing[i]
      BY <2>3, <2>10, <2>12, <2>13, <3>1 DEF Heldback
    <3>2. CASE i = Len(flushing) + 1 /\ flushing'[i] = w
      BY <2>3, <2>10, <2>12, <2>13, <3>2
    <3> QED BY <2>10, <3>1, <3>2
  <2> QED BY <1>7, <1>8, <1>10, <2>4, <2>9, <2>11, <2>13 DEF Heldback
<1> QED BY <1>9, <1>10

-----------------------------------------------------------------------------
(* The invariant. *)

\* At the start nothing has been sent.
LEMMA SentInit ==
  ASSUME Init
  PROVE  SentOnce /\ Heldback
<1>1. /\ \A s \in Sockets : up[s] = << >> /\ job[s] = Idle
      /\ log = << >> /\ saves = << >> /\ flushing = << >> /\ stored = None
      /\ done = FALSE /\ ready = FALSE
  BY DEF Init, WireInit, ServerInit, ClientInit
<1>2. \A s \in Sockets : DOMAIN up[s] = {} /\ ~InHand(s)
  BY <1>1 DEF InHand, Idle
<1>3. DOMAIN log = {} /\ DOMAIN saves = {} /\ DOMAIN flushing = {}
  BY <1>1
<1>4. \A n : ~IsSent(n)
  BY <1>2, <1>3 DEF IsSent
<1>5. SentOnce
  BY <1>2, <1>3 DEF SentOnce
<1>6. Heldback
  BY <1>1, <1>3, <1>4 DEF Heldback
<1> QED BY <1>5, <1>6

\* No step of either of the two spoils it.
LEMMA SentStep ==
  ASSUME Types, Types', SentOnce, Heldback, [Next]_vars
  PROVE  SentOnce' /\ Heldback'
<1>1. CASE \E s \in 1..current :
              \/ TakeHandshake(s) /\ UNCHANGED clientVars
              \/ TakeSubscribe(s) /\ UNCHANGED clientVars
              \/ TakeUnsubscribe(s) /\ UNCHANGED clientVars
              \/ TakeDispatch(s) /\ UNCHANGED clientVars
              \/ \E u \in Uris : SubscribeOne(s, u) /\ UNCHANGED clientVars
              \/ Greet(s) /\ UNCHANGED clientVars
              \/ \E u \in Uris : ResumeOne(s, u) /\ UNCHANGED clientVars
              \/ Resume(s) /\ UNCHANGED clientVars
              \/ Commit(s) /\ UNCHANGED clientVars
              \/ Publish(s) /\ UNCHANGED clientVars
              \/ Answer(s) /\ UNCHANGED clientVars
              \/ Detach(s) /\ UNCHANGED clientVars
  <2>1. PICK s \in 1..current :
              \/ TakeHandshake(s) \/ TakeSubscribe(s) \/ TakeUnsubscribe(s) \/ TakeDispatch(s)
              \/ \E u \in Uris : SubscribeOne(s, u) \/ ResumeOne(s, u)
              \/ Greet(s) \/ Resume(s) \/ Commit(s) \/ Publish(s) \/ Answer(s) \/ Detach(s)
    BY <1>1
  <2>2. UNCHANGED clientVars
    BY <1>1
  <2>3. s \in Sockets
    BY ServerAssumption DEF Types, ClientTypes, Sockets
  <2>4. reader' = reader
    BY <2>1 DEF TakeHandshake, TakeSubscribe, TakeUnsubscribe, TakeDispatch, SubscribeOne,
                ResumeOne, Greet, Resume, Commit, Publish, Answer, Detach
  <2>5. \E d \in [Sockets -> Nat] : Moved(d)
    BY <2>1, <2>3, TakesMove, JobsMove
  <2> QED BY <2>2, <2>4, <2>5, HubHolds
<1>2. CASE \/ \E u \in Uris : Foreign(u) /\ UNCHANGED clientVars
           \/ \E u \in Uris : Destroy(u) /\ UNCHANGED clientVars
           \/ Restart(1..current) /\ UNCHANGED clientVars
  <2>1. (\E u \in Uris : Foreign(u) \/ Destroy(u)) \/ Restart(1..current)
    BY <1>2
  <2>2. UNCHANGED clientVars
    BY <1>2
  <2>3. reader' = reader
    BY <2>1 DEF Foreign, Destroy, Restart
  <2>4. \E d \in [Sockets -> Nat] : Moved(d)
    BY <2>1, HostMoves
  <2> QED BY <2>2, <2>3, <2>4, HubHolds
<1>3. CASE \/ \E us \in SUBSET Uris : Hello(us) /\ UNCHANGED serverVars
           \/ \E s \in Sockets : Reconnect(s) /\ UNCHANGED serverVars
           \/ \E u \in Uris : Subscribe(u) /\ UNCHANGED serverVars
           \/ \E u \in Uris : Unsubscribe(u) /\ UNCHANGED serverVars
           \/ \E u \in Uris : Dispatch(u) /\ UNCHANGED serverVars
  BY <1>3, CallsHold, DispatchHolds
<1>4. CASE \/ Shutdown /\ UNCHANGED serverVars
           \/ ReceivePush /\ UNCHANGED serverVars
           \/ ReceiveAnswer /\ UNCHANGED serverVars
           \/ ReceiveLate /\ UNCHANGED serverVars
           \/ EndOfStream /\ UNCHANGED serverVars
           \/ \E r \in waiting : Timeout(r) /\ UNCHANGED serverVars
           \/ Restore /\ UNCHANGED serverVars
  BY <1>4, EventsHold
<1>5. CASE \E ok \in BOOLEAN : SaveEnds(ok) /\ UNCHANGED serverVars
  <2>1. PICK ok \in BOOLEAN : SaveEnds(ok) /\ UNCHANGED serverVars
    BY <1>5
  <2>2. CASE Len(saves) = 1 /\ Flushed
    BY <2>1, <2>2, LastSaveHolds
  <2>3. CASE /\ Len(saves) > 1 /\ flushing' = WaitAgain /\ saves' = Tail(saves)
             /\ UNCHANGED <<reader, down, up, shakeState, done, waiting, nextId, subscribed,
                            view>>
    BY <2>1, <2>3, OneSaveHolds
  <2> QED BY <2>1, <2>2, <2>3 DEF SaveEnds
<1>6. CASE UNCHANGED vars
  <2>1. /\ UNCHANGED <<up, job, log, nextSeq, stored, flushing>> /\ Queues
        /\ Connected' = Connected /\ done' = done /\ ready' = ready /\ writable' = writable
    BY <1>6 DEF vars, serverVars, hubVars, clientVars, linkState, shakeState, saveState,
                Connected, Queues
  <2>2. SentOnce' /\ \A n \in Numbers : IsSent(n)' => IsSent(n)
    BY <2>1, SentNothing
  <2>3. done' => ~Connected' /\ ~ready'
    BY <2>1 DEF Heldback
  <2>4. ready' => writable'
    BY <2>1 DEF Heldback
  <2> QED BY <2>1, <2>2, <2>3, <2>4, HeldStill
<1> QED BY <1>1, <1>2, <1>3, <1>4, <1>5, <1>6 DEF Next

\* A number is never used for two actions, whatever the application does, and through
\* failed saves, kills and restarts.
THEOREM NumbersUsedOnce == Spec => []OncePerNumber
<1>1. Init => SentOnce /\ Heldback
  BY SentInit
<1>2. Types /\ Types' /\ SentOnce /\ Heldback /\ [Next]_vars => SentOnce' /\ Heldback'
  BY SentStep
<1>3. Types /\ SentOnce => OncePerNumber
  <2> SUFFICES ASSUME Types, SentOnce, NEW n \in 1..MaxDispatch
               PROVE  Cardinality(Committed(n)) <= 1
    BY DEF OncePerNumber
  <2>1. n > 0
    BY ClientAssumption
  <2>2. \A x, y \in Committed(n) : x = y
    BY <2>1 DEF Committed, SentOnce
  <2>3. CASE Committed(n) = {}
    BY <2>3, FS_EmptySet
  <2>4. ASSUME NEW x \in Committed(n)
        PROVE  Cardinality(Committed(n)) <= 1
    <3>1. Committed(n) = {x}
      BY <2>2
    <3>2. Cardinality({x}) = 1
      BY FS_Singleton
    <3> QED BY <3>1, <3>2
  <2> QED BY <2>3, <2>4
<1> QED BY <1>1, <1>2, <1>3, SessionInvariance, PTL DEF Spec

-----------------------------------------------------------------------------
(* What the client knows, and what is on its way to it. *)

\* What the frames to the client bear: the sequences it can see through them.
IsPush(f) == f.kind = "action"
AnswerTo(f, r) == f.kind = "answer" /\ f.id = r.id

Marks(result) ==
  IF result.type = "envelope" THEN {result.envelope.seq}
  ELSE IF result.type = "hello"
       THEN {result.serverSeq} \cup {t.fromSeq : t \in result.snapshots}
  ELSE IF result.type \in {"subscribed", "snapshot"}
       THEN {t.fromSeq : t \in result.snapshots}
  ELSE IF result.type = "replay"
       THEN {result.actions[k].seq : k \in DOMAIN result.actions}
  ELSE {}

Bears(f) == IF IsPush(f) THEN {f.seq} ELSE Marks(f.result)

Coming == down[reader]

\* The sequences the client has had.
Had ==
  {view.seen} \cup {early[k].seq : k \in DOMAIN early}
    \cup UNION {Waits(view, u) : u \in Known(view)}

-----------------------------------------------------------------------------
(* Order among the client's calls. *)

IsHandshake(r) == r.method \in {"hello", "reconnect"}

ClientOrder ==
  /\ \A u \in Known(view) : view.mirrors[u].primed =>
       u \in subscribed /\ view.mirrors[u].buffered = << >>
  /\ Known(view) \subseteq subscribed \cup UNION {Taking(r) : r \in waiting}
  /\ \A r \in waiting : IsHandshake(r) =>
       ~ready /\ \A q \in waiting : Restates(q) => q = r
  /\ \A r \in waiting : r.method = "subscribe" => ready /\ r.uris \cap subscribed = {}
  /\ ready => initialized /\ early = << >> /\ Connected
  /\ ~Connected => waiting = {} /\ early = << >>
  /\ Connected /\ ~ready => \A u \in Known(view) : ~view.mirrors[u].primed
  /\ ~initialized => subscribed = {}
  /\ \A r \in waiting : r.method = "hello" => ~initialized
  /\ \A r \in waiting : r.method = "reconnect" => r.uris = subscribed /\ r.seen = view.seen
  /\ ready => \A u \in Known(view) : ~view.mirrors[u].primed =>
       \E r \in waiting : r.method = "subscribe" /\ u \in r.uris

-----------------------------------------------------------------------------
(* Order at the hub. *)

TrueSnapshots(S) ==
  /\ \A s, t \in S : s.uri = t.uri => s = t
  /\ \A t \in S : t.fromSeq \in 0..Len(log) /\ t.state = StateAt(log, t.uri, t.fromSeq)

\* These are the envelopes of the request's channels after what it has seen, up to b.
Replays(s, r, b) ==
  /\ \A k \in DOMAIN s : s[k].seq <= b
  /\ \A u \in r.uris \ gone : {e \in Range(s) : e.uri = u} = Between(u, r.seen, b)

GoodResult(r, result) ==
  /\ result.type \in {"hello", "subscribed", "snapshot"} => TrueSnapshots(result.snapshots)
  /\ result.type \in {"hello", "subscribed"} =>
       r.uris \ Stateless = {t.uri : t \in result.snapshots}
  /\ result.type \in {"replay", "snapshot"} => result.missing \subseteq gone
  /\ result.type = "snapshot" =>
       (r.uris \ result.missing) \ Stateless = {t.uri : t \in result.snapshots}
  /\ result.type = "replay" =>
       /\ \A j, k \in DOMAIN result.actions :
            j < k => result.actions[j].seq < result.actions[k].seq
       /\ \E b \in 0..Len(log) : Replays(result.actions, r, b)

LinksOrdered ==
  /\ \A s \in Sockets : s > current =>
       up[s] = << >> /\ job[s] = Idle /\ s \notin detached /\ link # s
  /\ reader \in {0, current}
  /\ \A s \in Sockets : s # reader => down[s] = << >>
  /\ link \notin detached
  /\ \A s \in Sockets : job[s].stage \in {"subscribing", "greeting", "resuming"} => link = s

LogKept ==
  /\ Len(ring) <= Len(log) /\ \A i \in DOMAIN ring : ring[i] = log[Len(log) - Len(ring) + i]
  /\ \A i \in DOMAIN log : log[i].uri \in Stateful

\* What a job has found so far is true, and what it has reached is subscribed.
JobGood(j) ==
  /\ j.stage = "resuming" =>
       j.missing \subseteq gone /\ (j.request.uris \ j.todo) \ gone \subseteq subs
  /\ j.stage \in {"subscribing", "greeting"} =>
       /\ TrueSnapshots(j.snapshots)
       /\ {t.uri : t \in j.snapshots} = (j.request.uris \ j.todo) \ Stateless
       /\ j.stage = "greeting" => j.todo = {}
       /\ j.todo \subseteq j.request.uris
       /\ j.request.method = "subscribe" => j.todo = j.request.uris
       /\ (j.request.uris \ j.todo) \ gone \subseteq subs
  /\ j.stage = "answering" => GoodResult(j.request, j.result)

JobsGood == \A s \in Sockets : JobGood(job[s])

AnswersGood ==
  Connected => \A i \in DOMAIN Coming, r \in waiting :
    AnswerTo(Coming[i], r) => GoodResult(r, Coming[i].result)

HubOrder == LinksOrdered /\ LogKept /\ JobsGood /\ AnswersGood

-----------------------------------------------------------------------------
(* What the hub has still to read undoes no subscription that the client counts on. *)

Upsets(f, u) ==
  \/ f.method = "unsubscribe" /\ f.uri = u
  \/ f.method \in {"hello", "reconnect"}

\* The hub is busy with this request.
Handling(r) == job[reader] # Idle /\ job[reader].request = r

Shaking == job[reader].stage = "subscribing" /\ job[reader].request.method = "hello"

Undisturbed(u) == \A j \in DOMAIN up[reader] : ~Upsets(up[reader][j], u)

\* The channel is restated, or the answer that restates it is on its way.
Claimed(u) ==
  \/ u \in Known(view) /\ view.mirrors[u].primed
  \/ \E r \in waiting : /\ Restates(r) /\ u \in r.uris
                        /\ \E i \in DOMAIN Coming : AnswerTo(Coming[i], r)

Upright ==
  Connected =>
    \A u \in Uris :
      /\ Claimed(u) => Undisturbed(u) /\ ~Shaking
      /\ \A r \in waiting : Restates(r) /\ u \in r.uris =>
           /\ Handling(r) => Undisturbed(u)
           /\ \A k, j \in DOMAIN up[reader] :
                k < j /\ up[reader][k] = r => ~Upsets(up[reader][j], u)

-----------------------------------------------------------------------------
(* Copies. *)

CopiesTrue == \A u \in Known(view) \ gone : Copied(view.mirrors[u], u)

\* What has been seen of these channels has been applied.
Gapless ==
  /\ view.seen <= Len(log)
  /\ \A u \in subscribed \ gone : Between(u, view.mirrors[u].applied, view.seen) = {}

Kept(c) ==
  /\ c.seen <= Len(log)
  /\ \A u \in DOMAIN c.channels \ gone :
       /\ c.channels[u].confirmed = StateAt(log, u, c.channels[u].applied)
       /\ c.channels[u].applied <= Len(log)
       /\ Between(u, c.channels[u].applied, c.seen) = {}

AllKept ==
  /\ stored # None => Kept(stored)
  /\ \A k \in DOMAIN saves : Kept(saves[k])

-----------------------------------------------------------------------------
(* The stream. *)

InOrder(H, E, D) ==
  /\ \A j, k \in DOMAIN E : j < k => E[j].seq < E[k].seq
  /\ \A j \in DOMAIN D : IsPush(D[j]) =>
       /\ \A h \in H : h < D[j].seq
       /\ \A i \in DOMAIN D : i < j => \A h \in Bears(D[i]) : h < D[j].seq

Stream == Connected => InOrder(Had, early, Coming)

\* What answer restates channel u as of b.
Brings(result, r, u, b) ==
  \/ /\ result.type \in {"hello", "subscribed", "snapshot"}
     /\ \/ \E t \in result.snapshots : t.uri = u /\ t.fromSeq = b
        \/ u \in Stateless /\ b = view.mirrors[u].applied
  \/ /\ result.type = "replay"
     /\ r.seen <= b /\ \A k \in DOMAIN result.actions : result.actions[k].seq <= b
     /\ {e \in Range(result.actions) : e.uri = u} = Between(u, r.seen, b)

InJob(r, u, b) ==
  /\ Handling(r)
  /\ \/ /\ job[reader].stage \in {"subscribing", "greeting"}
        /\ \/ \E t \in job[reader].snapshots : t.uri = u /\ t.fromSeq = b
           \/ /\ u \in Stateless /\ u \notin job[reader].todo
              /\ b = view.mirrors[u].applied
     \/ job[reader].stage = "answering" /\ Brings(job[reader].result, r, u, b)

InFrame(i, r, u, b) == AnswerTo(Coming[i], r) /\ Brings(Coming[i].result, r, u, b)

\* The i-th frame on its way restates channel u as of b.
Promised(u, b, i) ==
  /\ ~view.mirrors[u].primed
  /\ \E r \in waiting :
       /\ Restates(r) /\ u \in r.uris
       /\ \/ i \in DOMAIN Coming /\ InFrame(i, r, u, b)
          \/ i = Len(Coming) + 1 /\ InJob(r, u, b)

Based(u, b) ==
  \/ view.mirrors[u].primed /\ b = view.mirrors[u].applied
  \/ \E i \in 1..(Len(Coming) + 1) : Promised(u, b, i)

Linked(u) == reader \notin detached => link = reader /\ u \in subs

\* What was held back before the i-th frame joins on to b.
Joins(u, b, i) ==
  LET held == view.mirrors[u].buffered IN
  /\ b <= Len(log)
  /\ \A j, k \in DOMAIN held : j < k /\ held[k].seq > b => held[j].seq < held[k].seq
  /\ ~ready => \A k \in DOMAIN held : held[k].seq <= b
  /\ \A j \in DOMAIN Coming :
       j < i /\ ~IsPush(Coming[j]) /\ Coming[j].result.type = "envelope"
         /\ Coming[j].result.envelope.uri = u => Coming[j].result.envelope.seq <= b

Bases ==
  Connected => \A u \in Known(view) \ gone :
    /\ \A b \in 0..Len(log) : Based(u, b) => Linked(u)
    /\ \A b \in 0..Len(log) : \A i \in 1..(Len(Coming) + 1) : Promised(u, b, i) => Joins(u, b, i)

Held(u) == Range(view.mirrors[u].buffered) \cup Range(early) \cup Range(Coming)

Reached(c) ==
  /\ reader \notin detached => c = Len(log)
  /\ \A h \in Had : h <= c
  /\ \A i \in DOMAIN Coming : \A h \in Bears(Coming[i]) : h <= c
  /\ job[reader].stage = "answering" => \A h \in Marks(job[reader].result) : h <= c
  /\ \A u \in Known(view) \ gone : \A b \in 0..Len(log) :
       Based(u, b) => Between(u, b, c) \subseteq Held(u)

Cut == Connected => \E c \in 0..Len(log) : Reached(c)

-----------------------------------------------------------------------------
(* What is on its way. *)

\* What a result is, by its type.
LEMMA ResultParts ==
  ASSUME NEW result \in Results
  PROVE  /\ result.type \in {"error", "duplicate", "envelope", "hello", "subscribed", "replay",
                             "snapshot"}
         /\ result.type = "envelope" => result.envelope \in Told
         /\ result.type = "hello" => result.serverSeq \in Nat
         /\ result.type \in {"hello", "subscribed", "snapshot"} =>
              result.snapshots \in SUBSET Snapshots
         /\ result.type \in {"replay", "snapshot"} => result.missing \in SUBSET Uris
         /\ result.type = "replay" => result.actions \in Seq(Told)
BY DEF Results

\* What the log tells.
LEMMA ToldTyped ==
  ASSUME HubTypes
  PROVE  \A e \in Told : /\ e.kind = "action" /\ e.seq \in Nat /\ e.uri \in Uris
                         /\ e.seq \in 1..Len(log) /\ log[e.seq] = e /\ e \in Envelopes
BY LogTyped DEF Envelopes

\* The sequences an answer bears.
LEMMA MarksTyped ==
  ASSUME HubTypes, NEW result \in Results
  PROVE  Marks(result) \subseteq Nat
<1>1. CASE result.type = "replay"
  <2>1. result.actions \in Seq(Told)
    BY <1>1, ResultParts
  <2>2. \A k \in DOMAIN result.actions : result.actions[k] \in Told
    BY <2>1
  <2> QED BY <1>1, <2>2, ToldTyped DEF Marks
<1>2. CASE result.type = "envelope"
  BY <1>2, ResultParts, ToldTyped DEF Marks
<1>3. CASE result.type \in {"hello", "subscribed", "snapshot"}
  BY <1>3, ResultParts DEF Marks, Snapshots
<1>4. CASE result.type \notin {"replay", "envelope", "hello", "subscribed", "snapshot"}
  BY <1>4 DEF Marks
<1> QED BY <1>1, <1>2, <1>3, <1>4

\* An answer on its way.
LEMMA AnswerParts ==
  ASSUME NEW f \in Answers
  PROVE  /\ f.kind = "answer" /\ f.id \in Nat /\ f.id < nextId /\ f.result \in Results
         /\ ~IsPush(f) /\ (f \notin Told \/ ~HubTypes)
         /\ \A q \in waiting : q.id = f.id => Fits(q, f.result)
<1>1. /\ f.kind = "answer" /\ f.id \in Nat /\ f.id < nextId /\ f.result \in Results
      /\ \A q \in waiting : q.id = f.id => Fits(q, f.result)
  BY DEF Answers
<1>2. ~IsPush(f) /\ (f \notin Told \/ ~HubTypes)
  BY <1>1, ToldTyped DEF IsPush
<1> QED BY <1>1, <1>2

\* The frames on their way to the client are broadcasts of the log, or answers.
LEMMA ComingTyped ==
  ASSUME Types, Connected
  PROVE  /\ reader \in Sockets /\ Coming \in Seq(DownFrames) /\ Len(Coming) \in Nat
         /\ DOMAIN Coming = 1..Len(Coming)
         /\ \A i \in DOMAIN Coming :
              /\ Coming[i] \in DownFrames
              /\ IsPush(Coming[i]) <=> Coming[i] \in Told
              /\ ~IsPush(Coming[i]) => Coming[i] \in Answers
              /\ Bears(Coming[i]) \subseteq Nat
<1>1. reader \in Sockets
  BY DEF Types, WireTypes, Connected, Sockets
<1>2. Coming \in Seq(DownFrames)
  BY <1>1 DEF Types, WireTypes, Coming
<1>3. ASSUME NEW f \in DownFrames
      PROVE  /\ IsPush(f) <=> f \in Told
             /\ ~IsPush(f) => f \in Answers
             /\ Bears(f) \subseteq Nat
  <2>1. CASE f \in Told
    BY <2>1, ToldTyped DEF Bears, IsPush, Types
  <2>2. CASE f \in Answers
    <3>1. ~IsPush(f) /\ f \notin Told /\ f.result \in Results
      BY <2>2, AnswerParts DEF Types
    <3>2. Marks(f.result) \subseteq Nat
      BY <3>1, MarksTyped DEF Types
    <3> QED BY <2>2, <3>1, <3>2 DEF Bears
  <2> QED BY <2>1, <2>2 DEF DownFrames
<1>4. \A i \in DOMAIN Coming : Coming[i] \in DownFrames
  BY <1>2
<1> QED BY <1>1, <1>2, <1>3, <1>4

\* What the client has had.
LEMMA HadTyped ==
  ASSUME Types
  PROVE  /\ Had \subseteq Nat
         /\ early \in Seq(Told) /\ Len(early) \in Nat /\ DOMAIN early = 1..Len(early)
         /\ view \in Plain(Told)
         /\ \A u \in Known(view) : Waits(view, u) \subseteq Had
         /\ SeqsOf(early) \subseteq Had /\ view.seen \in Had
<1>1. view \in Plain(Told)
  BY ViewsArePlain DEF Types, ClientTypes
<1>2. early \in Seq(Told)
  BY DEF Types, ClientTypes
<1>3. \A k \in DOMAIN early : early[k].seq \in Nat
  BY <1>2, ToldTyped DEF Types
<1>4. view.seen \in Nat
  BY <1>1, PlainParts
<1>5. ASSUME NEW u \in Known(view) PROVE Waits(view, u) \subseteq Nat
  <2>1. view.mirrors[u].buffered \in Seq(For(Told, u))
    BY <1>1, PlainParts
  <2>2. \A k \in DOMAIN view.mirrors[u].buffered : view.mirrors[u].buffered[k] \in Told
    BY <2>1 DEF For
  <2> QED BY <2>2, ToldTyped DEF Waits, Types
<1> QED BY <1>1, <1>2, <1>3, <1>4, <1>5 DEF Had, SeqsOf

\* What a mirror holds back.
LEMMA BufferedTyped ==
  ASSUME Types, NEW u \in Known(view)
  PROVE  LET held == view.mirrors[u].buffered
         IN  /\ held \in Seq(Told) /\ Len(held) \in Nat /\ DOMAIN held = 1..Len(held)
             /\ \A k \in DOMAIN held :
                  /\ held[k] \in Told /\ held[k].uri = u /\ held[k].seq \in Nat
                  /\ held[k].seq \in Waits(view, u) /\ held[k].seq \in Had
<1> DEFINE held == view.mirrors[u].buffered
<1>1. held \in Seq(For(Told, u))
  BY HadTyped, PlainParts
<1>2. \A k \in DOMAIN held : held[k] \in Told /\ held[k].uri = u
  BY <1>1 DEF For
<1>3. \A k \in DOMAIN held : held[k].seq \in Waits(view, u)
  BY DEF Waits
<1>4. \A k \in DOMAIN held : held[k].seq \in Nat
  BY <1>2, ToldTyped DEF Types
<1>5. Waits(view, u) \subseteq Had
  BY HadTyped
<1>6. held \in Seq(Told)
  BY <1>1, SeqMonotone DEF For
<1> HIDE DEF held
<1>7. Len(held) \in Nat /\ DOMAIN held = 1..Len(held)
  BY <1>6
<1> QED BY <1>2, <1>3, <1>4, <1>5, <1>6, <1>7 DEF held

\* Frames are read from the front: k of them.
Shifted(D, F, k) ==
  Len(D) = Len(F) + k /\ \A i \in DOMAIN F : i + k \in DOMAIN D /\ F[i] = D[i + k]

\* A queue whose first frame was read ...
LEMMA ShiftedTail ==
  ASSUME NEW A, NEW D \in Seq(A), D # << >>
  PROVE  Shifted(D, Tail(D), 1) /\ Tail(D) \in Seq(A) /\ Head(D) = D[1] /\ 1 \in DOMAIN D
<1> DEFINE F == Tail(D)
<1>1. Len(D) \in Nat /\ Len(D) > 0 /\ DOMAIN D = 1..Len(D)
  OBVIOUS
<1>2. F \in Seq(A) /\ Len(F) = Len(D) - 1 /\ \A i \in 1..Len(F) : F[i] = D[i + 1]
  OBVIOUS
<1>3. DOMAIN F = 1..Len(F)
  BY <1>2
<1>4. Head(D) = D[1]
  OBVIOUS
<1> HIDE DEF F
<1> QED BY <1>1, <1>2, <1>3, <1>4 DEF Shifted, F

\* ... and one that was not.
LEMMA ShiftedNot ==
  ASSUME NEW A, NEW D \in Seq(A)
  PROVE  Shifted(D, D, 0)
<1>1. Len(D) \in Nat /\ DOMAIN D = 1..Len(D)
  OBVIOUS
<1> QED BY <1>1 DEF Shifted

\* The order of the stream survives as frames are read.
LEMMA StreamPasses ==
  ASSUME NEW A, NEW D \in Seq(A), NEW F \in Seq(A), NEW k \in {0, 1}, Shifted(D, F, k),
         NEW H, NEW G, NEW E, NEW L, InOrder(H, E, D),
         \A h \in G : h \in H \/ (k = 1 /\ h \in Bears(D[1])),
         \A i, j \in DOMAIN L : i < j => L[i].seq < L[j].seq
  PROVE  InOrder(G, L, F)
<1>1. DOMAIN D = 1..Len(D) /\ DOMAIN F = 1..Len(F) /\ Len(D) \in Nat /\ Len(F) \in Nat
  OBVIOUS
<1>2. ASSUME NEW j \in DOMAIN F, IsPush(F[j])
      PROVE  /\ \A h \in G : h < F[j].seq
             /\ \A i \in DOMAIN F : i < j => \A h \in Bears(F[i]) : h < F[j].seq
  <2>1. j + k \in DOMAIN D /\ F[j] = D[j + k]
    BY DEF Shifted
  <2>2. \A h \in H : h < D[j + k].seq
    BY <1>2, <2>1 DEF InOrder
  <2>3. \A i \in DOMAIN D : i < j + k => \A h \in Bears(D[i]) : h < D[j + k].seq
    BY <1>2, <2>1 DEF InOrder
  <2>4. k = 1 => \A h \in Bears(D[1]) : h < D[j + k].seq
    BY <1>1, <2>1, <2>3
  <2>5. ASSUME NEW i \in DOMAIN F, i < j PROVE \A h \in Bears(F[i]) : h < F[j].seq
    <3>1. i + k \in DOMAIN D /\ F[i] = D[i + k] /\ i + k < j + k
      BY <1>1, <2>5 DEF Shifted
    <3> QED BY <2>1, <2>3, <3>1
  <2> QED BY <2>1, <2>2, <2>4, <2>5
<1> QED BY <1>2 DEF InOrder

-----------------------------------------------------------------------------
(* The order at the hub, step by step. *)

\* The log stays as it is, or takes one more envelope.
Longer ==
  \/ log' = log
  \/ \E e : e.seq = Len(log) + 1 /\ log' = Append(log, e)

\* What was true of the past stays true.
LEMMA TrueStays ==
  ASSUME HubTypes, HubTypes', Longer, NEW S \in SUBSET Snapshots, TrueSnapshots(S)
  PROVE  TrueSnapshots(S)'
<1>0. Len(log) <= Len(log') /\ Len(log) \in Nat /\ Len(log') \in Nat
  <2>1. log \in Seq(Envelopes)
    BY LogTyped
  <2> QED BY <2>1 DEF Longer
<1>1. ASSUME NEW t \in S
      PROVE  t.fromSeq \in 0..Len(log') /\ t.state = StateAt(log', t.uri, t.fromSeq)
  <2>1. t.fromSeq \in 0..Len(log) /\ t.state = StateAt(log, t.uri, t.fromSeq)
    BY DEF TrueSnapshots
  <2>2. ASSUME NEW e, e.seq = Len(log) + 1, log' = Append(log, e)
        PROVE  StateAt(log', t.uri, t.fromSeq) = StateAt(log, t.uri, t.fromSeq)
    <3>1. t.fromSeq \in Int /\ t.fromSeq <= Len(log) /\ ~(e.seq <= t.fromSeq)
      BY <1>0, <2>1, <2>2
    <3> HIDE DEF StateAt
    <3>2. StateAt(Append(log, e), t.uri, t.fromSeq) = StateAt(log, t.uri, t.fromSeq)
      BY <3>1, StateStays
    <3> QED BY <2>2, <3>2
  <2>3. StateAt(log', t.uri, t.fromSeq) = StateAt(log, t.uri, t.fromSeq)
    BY <2>2 DEF Longer
  <2> QED BY <1>0, <2>1, <2>3
<1> QED BY <1>1 DEF TrueSnapshots

\* The past stays as it is.
LEMMA BetweenStays ==
  ASSUME HubTypes, HubTypes', Longer, NEW u, NEW a \in Int, NEW b \in Int, b <= Len(log)
  PROVE  Between(u, a, b)' = Between(u, a, b)
<1>1. log \in Seq(Envelopes) /\ Len(log) \in Nat /\ DOMAIN log = 1..Len(log)
  BY LogTyped
<1>2. CASE log' = log
  BY <1>2 DEF Between, Told
<1>3. ASSUME NEW e, e.seq = Len(log) + 1, log' = Append(log, e)
      PROVE  Between(u, a, b)' = Between(u, a, b)
  <2>1. log' = [k \in 1..(Len(log) + 1) |-> IF k = Len(log) + 1 THEN e ELSE log[k]]
    BY <1>1, <1>3, AppendIs
  <2>2. Told' = Told \cup {e}
    <3>1. DOMAIN log' = 1..(Len(log) + 1) /\ log'[Len(log) + 1] = e
          /\ \A k \in 1..Len(log) : log'[k] = log[k]
      BY <1>1, <2>1
    <3>2. \A k \in 1..(Len(log) + 1) : k = Len(log) + 1 \/ k \in 1..Len(log)
      BY <1>1
    <3>3. Len(log) + 1 \in DOMAIN log' /\ \A k \in 1..Len(log) : k \in DOMAIN log'
      BY <1>1, <3>1
    <3> QED BY <1>1, <3>1, <3>2, <3>3 DEF Told
  <2>3. ~(e.seq <= b)
    BY <1>1, <1>3
  <2> QED BY <2>2, <2>3 DEF Between
<1> QED BY <1>2, <1>3 DEF Longer

\* A replay of the log up to b stays one when the log grows ...
LEMMA ReplaysStay ==
  ASSUME HubTypes, HubTypes', Longer, gone \subseteq gone', NEW s, NEW r, r.seen \in Nat,
         NEW b \in 0..Len(log), Replays(s, r, b)
  PROVE  Replays(s, r, b)' /\ b \in 0..Len(log')
<1>1. Len(log) <= Len(log') /\ Len(log) \in Nat /\ Len(log') \in Nat
  <2>1. log \in Seq(Envelopes)
    BY LogTyped
  <2> QED BY <2>1 DEF Longer
<1>2. \A u : Between(u, r.seen, b)' = Between(u, r.seen, b)
  BY <1>1, BetweenStays
<1>3. \A u \in r.uris \ gone' : {e \in Range(s) : e.uri = u} = Between(u, r.seen, b)'
  BY <1>2 DEF Replays
<1> QED BY <1>1, <1>3 DEF Replays

\* ... so that a good answer stays good ...
LEMMA GoodStays ==
  ASSUME HubTypes, HubTypes', Longer, gone \subseteq gone', NEW r \in Requests,
         NEW result \in Results, GoodResult(r, result)
  PROVE  GoodResult(r, result)'
<1>1. result.type \in {"hello", "subscribed", "snapshot"} => TrueSnapshots(result.snapshots)'
  BY TrueStays, ResultParts DEF GoodResult
<1>2. r.seen \in Nat
  BY DEF Requests
<1>3. result.type = "replay" => \E b \in 0..Len(log') : Replays(result.actions, r, b)'
  <2> SUFFICES ASSUME result.type = "replay"
               PROVE  \E b \in 0..Len(log') : Replays(result.actions, r, b)'
    OBVIOUS
  <2>1. PICK b \in 0..Len(log) : Replays(result.actions, r, b)
    BY DEF GoodResult
  <2>2. PICK s : s = result.actions
    OBVIOUS
  <2>3. Replays(s, r, b)' /\ b \in 0..Len(log')
    BY <1>2, <2>1, <2>2, ReplaysStay
  <2> QED BY <2>2, <2>3
<1>4. PICK s : s = result.actions
  OBVIOUS
<1> QED BY <1>1, <1>3, <1>4 DEF GoodResult

\* ... and a good job, while its link keeps the subscriptions.
LEMMA JobStays ==
  ASSUME HubTypes, HubTypes', Longer, gone \subseteq gone', subs \ gone' \subseteq subs',
         NEW j \in Jobs, JobGood(j)
  PROVE  JobGood(j)'
<1>1. CASE j.stage \in {"subscribing", "greeting"}
  <2>1. j.snapshots \in SUBSET Snapshots
    BY <1>1 DEF Jobs, Idle
  <2>2. TrueSnapshots(j.snapshots)'
    BY <1>1, <2>1, TrueStays DEF JobGood
  <2> QED BY <1>1, <2>2 DEF JobGood
<1>2. CASE j.stage = "answering"
  <2>1. j.result \in Results /\ j.request \in Requests
    BY <1>2 DEF Jobs, Idle, Issued
  <2>2. GoodResult(j.request, j.result)'
    BY <1>2, <2>1, GoodStays DEF JobGood
  <2> QED BY <1>2, <2>2 DEF JobGood
<1>3. CASE j.stage \notin {"subscribing", "greeting", "answering"}
  BY <1>3 DEF JobGood
<1> QED BY <1>1, <1>2, <1>3

\* Jobs that stay, and jobs that are good from the start.
LEMMA JobsStay ==
  ASSUME Types, Types', Longer, gone \subseteq gone', subs \ gone' \subseteq subs', JobsGood,
         \A s \in Sockets : job'[s] = job[s] \/ JobGood(job[s])'
  PROVE  JobsGood'
<1>1. ASSUME NEW s \in Sockets PROVE JobGood(job[s])'
  <2>1. CASE job'[s] = job[s]
    <3>1. job[s] \in Jobs /\ JobGood(job[s])
      BY DEF Types, HubTypes, JobsGood
    <3> DEFINE j == job[s]
    <3>2. PICK i : i = job[s]
      OBVIOUS
    <3>3. i \in Jobs /\ JobGood(i) /\ job'[s] = i
      BY <2>1, <3>1, <3>2
    <3>4. JobGood(i)'
      BY <3>3, JobStays DEF Types
    <3> QED BY <3>3, <3>4 DEF JobGood
  <2> QED BY <2>1
<1> QED BY <1>1 DEF JobsGood, Sockets

\* Answers on their way stay good, and answer no request that is new.
LEMMA AnswersStay ==
  ASSUME Types, Types', Longer, gone \subseteq gone', AnswersGood,
         Connected' => \A i \in DOMAIN Coming' :
           Connected /\ \E k \in DOMAIN Coming : Coming'[i] = Coming[k],
         \A r \in waiting' : r \in waiting \/ r.id >= nextId
  PROVE  AnswersGood'
<1> SUFFICES ASSUME Connected', NEW i \in DOMAIN Coming', NEW r \in waiting',
                    AnswerTo(Coming'[i], r)
             PROVE  GoodResult(r, Coming[i].result)'
  BY DEF AnswersGood, AnswerTo
<1>0. Connected
  OBVIOUS
<1>1. PICK k \in DOMAIN Coming : Coming'[i] = Coming[k]
  OBVIOUS
<1>2. Coming[k] \in Answers /\ Coming[k].result \in Results /\ Coming[k].id \in Nat
      /\ Coming[k].id < nextId
  <2>1. ~IsPush(Coming[k])
    BY <1>1 DEF AnswerTo, IsPush
  <2>2. Coming[k] \in Answers
    BY <1>0, <2>1, ComingTyped
  <2> QED BY <2>2, AnswerParts
<1>3. r \in waiting
  <2>1. r.id = Coming[k].id /\ nextId \in Nat
    BY <1>1 DEF AnswerTo, Types, ClientTypes
  <2> QED BY <1>2, <2>1
<1>4. GoodResult(r, Coming[k].result)
  BY <1>0, <1>1, <1>3 DEF AnswersGood, AnswerTo
<1>5. PICK x : x = Coming[k].result
  OBVIOUS
<1>6. r \in Requests
  BY <1>3 DEF Types, ClientTypes, Issued
<1>7. GoodResult(r, x)'
  BY <1>2, <1>4, <1>5, <1>6, GoodStays DEF Types
<1> QED BY <1>1, <1>5, <1>7 DEF GoodResult, TrueSnapshots, Replays, Between, Told, StateAt

\* Sockets, as the hub goes on.
LEMMA LinksStay ==
  ASSUME Types, LinksOrdered, UNCHANGED <<clientVars, reader>>,
         \A s \in Sockets : s # reader => down'[s] = down[s],
         \A s \in Sockets : s > current => up'[s] = up[s] /\ job'[s] = job[s],
         detached' \subseteq detached \cup 1..current,
         link' <= current, link' \notin detached',
         \A s \in Sockets : job'[s].stage \in {"subscribing", "greeting", "resuming"} =>
           \/ job[s].stage \in {"subscribing", "greeting", "resuming"} /\ link' = link
           \/ link' = s
  PROVE  LinksOrdered'
<1>1. current' = current /\ reader' = reader /\ current \in Nat
  BY DEF clientVars, linkState, Types, ClientTypes, Sockets
<1>2. ASSUME NEW s \in Sockets, s > current
      PROVE  up'[s] = << >> /\ job'[s] = Idle /\ s \notin detached' /\ link' # s
  <2>1. s \notin 1..current /\ s \in Nat
    BY <1>1, <1>2 DEF Sockets
  <2>2. link' # s
    BY <1>1, <1>2, <2>1
  <2> QED BY <1>2, <2>1, <2>2 DEF LinksOrdered
<1>3. \A s \in Sockets : s # reader => down'[s] = << >>
  BY DEF LinksOrdered
<1>4. \A s \in Sockets :
        job'[s].stage \in {"subscribing", "greeting", "resuming"} => link' = s
  BY DEF LinksOrdered
<1> QED BY <1>1, <1>2, <1>3, <1>4 DEF LinksOrdered, Sockets

\* Where a link can be.
LEMMA LinkWithin ==
  ASSUME Types, LinksOrdered
  PROVE  /\ link <= current /\ link \in Nat /\ current \in Nat /\ current \in Sockets
         /\ 1..current \subseteq Sockets
         /\ \A s \in 1..current : s \in Nat /\ s <= current
         /\ \A s \in 1..current, t \in Sockets : t > current => t # s
<1>1. link \in 0..MaxSockets /\ current \in 1..MaxSockets /\ MaxSockets \in Nat
  BY ServerAssumption DEF Types, HubTypes, ClientTypes, Sockets
<1>2. link # 0 => link \in Sockets
  BY <1>1 DEF Sockets
<1>3. ~(link > current)
  BY <1>1, <1>2 DEF LinksOrdered, Sockets
<1> QED BY <1>1, <1>3 DEF Sockets

\* Answers on their way stay good when nothing is sent.
LEMMA AnswersStand ==
  ASSUME Types, Types', Longer, gone \subseteq gone', AnswersGood, UNCHANGED <<clientVars, reader>>,
         down' = down
  PROVE  AnswersGood'
<1>1. Coming' = Coming /\ (Connected' => Connected)
  BY DEF Coming, Connected
<1>2. waiting' = waiting
  BY DEF clientVars, callState
<1>3. Connected' => \A i \in DOMAIN Coming' :
        Connected /\ \E k \in DOMAIN Coming : Coming'[i] = Coming[k]
  BY <1>1
<1> QED BY <1>1, <1>2, <1>3, AnswersStay

\* Frames that the hub takes up.
LEMMA TakesOrdered ==
  ASSUME Types, Types', HubOrder, UNCHANGED clientVars, NEW s \in 1..current,
         TakeHandshake(s) \/ TakeSubscribe(s) \/ TakeUnsubscribe(s) \/ TakeDispatch(s)
  PROVE  HubOrder'
<1>0. /\ s \in Sockets /\ s \notin detached /\ job[s] = Idle /\ Longer /\ gone' = gone
      /\ down' = down /\ reader' = reader /\ log' = log /\ ring' = ring
      /\ job \in [Sockets -> Jobs] /\ up \in [Sockets -> Seq(UpFrames)]
      /\ s <= current /\ s \in Nat
  <2>1. s \in Sockets /\ s <= current /\ s \in Nat
    BY LinkWithin DEF HubOrder
  <2>2. /\ s \notin detached /\ job[s] = Idle
        /\ UNCHANGED <<hubVars, down, reader>>
    BY DEF TakeHandshake, TakeSubscribe, TakeUnsubscribe, TakeDispatch, FrameFor
  <2>3. job \in [Sockets -> Jobs] /\ up \in [Sockets -> Seq(UpFrames)]
    BY DEF Types, HubTypes, WireTypes
  <2> QED BY <2>1, <2>2, <2>3 DEF hubVars, Longer
<1>1. LogKept'
  BY <1>0 DEF LogKept, HubOrder
<1>2. AnswersGood'
  BY <1>0, AnswersStand DEF HubOrder
<1>3. LinksOrdered
  BY DEF HubOrder
<1>4. \A t \in Sockets : t > current => t # s
  BY <1>3, LinkWithin
<1>5. LinksOrdered'
  <2>1. CASE TakeHandshake(s)
    <3> DEFINE replaced == {link} \ {0, s}
    <3>1. link' = s /\ detached' = detached \cup replaced
      BY <2>1 DEF TakeHandshake
    <3>2. replaced \subseteq 1..current /\ s \notin detached'
      BY <1>0, <1>3, <3>1, LinkWithin
    <3>3. ASSUME NEW t \in Sockets, t # s
          PROVE  /\ up'[t] = up[t] \/ t \in replaced
                 /\ job'[t] = job[t] \/ t \in replaced
                 /\ job'[t].stage \notin {"subscribing", "greeting", "resuming"}
      <4>1. job'[t] = IF t \in replaced /\ job[t].stage # "writing" THEN Idle ELSE job[t]
        BY <1>0, <2>1, <3>3 DEF TakeHandshake, Ended
      <4>2. up'[t] = IF t \in replaced THEN << >> ELSE up[t]
        BY <1>0, <2>1, <3>3 DEF TakeHandshake, Drained, Taken
      <4>3. t \notin replaced => job[t].stage \notin {"subscribing", "greeting", "resuming"}
        BY <1>3, <3>3 DEF LinksOrdered, Sockets
      <4> QED BY <4>1, <4>2, <4>3 DEF Idle
    <3>4. \A t \in Sockets : t > current => t # s /\ t \notin replaced
      BY <1>3, <1>4, <3>2, LinkWithin
    <3> HIDE DEF replaced
    <3>5. \A t \in Sockets : t > current => up'[t] = up[t] /\ job'[t] = job[t]
      BY <3>3, <3>4
    <3>6. \A t \in Sockets : job'[t].stage \in {"subscribing", "greeting", "resuming"} => link' = t
      BY <3>1, <3>3
    <3>7. detached' \subseteq detached \cup 1..current
      BY <3>1, <3>2
    <3> QED BY <1>0, <1>3, <3>1, <3>2, <3>5, <3>6, <3>7, LinksStay
  <2>2. CASE TakeSubscribe(s) \/ TakeUnsubscribe(s) \/ TakeDispatch(s)
    <3>1. link' = link /\ detached' = detached
      BY <2>2 DEF TakeSubscribe, TakeUnsubscribe, TakeDispatch, linkVars
    <3>2. \A t \in Sockets : t # s => up'[t] = up[t] /\ job'[t] = job[t]
      BY <1>0, <2>2 DEF TakeSubscribe, TakeUnsubscribe, TakeDispatch, Taken
    <3>3. job'[s].stage \in {"subscribing", "greeting", "resuming"} => link = s
      BY <1>0, <2>2 DEF TakeSubscribe, TakeUnsubscribe, TakeDispatch, Job, Refusal, Answering, Idle
    <3>4. \A t \in Sockets : t > current => up'[t] = up[t] /\ job'[t] = job[t]
      BY <1>4, <3>2
    <3>5. \A t \in Sockets : job'[t].stage \in {"subscribing", "greeting", "resuming"} =>
            job[t].stage \in {"subscribing", "greeting", "resuming"} \/ link' = t
      BY <3>1, <3>2, <3>3
    <3>6. link' <= current /\ link' \notin detached' /\ detached' \subseteq detached \cup 1..current
      BY <1>3, <3>1, LinkWithin DEF LinksOrdered
    <3> QED BY <1>0, <1>3, <3>1, <3>4, <3>5, <3>6, LinksStay
  <2> QED BY <2>1, <2>2
<1>6. JobsGood'
  <2>1. CASE TakeHandshake(s)
    <3>1. PICK r : r = Head(up[s])
      OBVIOUS
    <3>2. ASSUME NEW t \in Sockets
          PROVE  JobGood(job[t])'
      <4>1. CASE t = s
        <5>1. job'[s] = Job(IF r.method = "reconnect" THEN "resuming"
                            ELSE IF r.uris = {} THEN "greeting" ELSE "subscribing", r, r.uris)
          BY <1>0, <2>1, <3>1 DEF TakeHandshake, Ended
        <5>2. r.method \in {"hello", "reconnect"}
          BY <2>1, <3>1 DEF TakeHandshake, FrameFor
        <5>3. TrueSnapshots({})'
          BY DEF TrueSnapshots
        <5> QED BY <4>1, <5>1, <5>2, <5>3 DEF Job, JobGood
      <4>2. CASE t # s
        <5>1. job'[t] = job[t] \/ job'[t] = Idle
          BY <1>0, <2>1, <4>2 DEF TakeHandshake, Ended
        <5>2. job[t].stage \notin {"subscribing", "greeting", "resuming"} \/ job'[t] = Idle
          BY <1>0, <1>3, <2>1, <4>2 DEF TakeHandshake, Ended, LinksOrdered, Sockets
        <5>3. CASE job'[t] = Idle
          BY <5>3 DEF JobGood, Idle
        <5>4. CASE job'[t] = job[t] /\ job[t].stage \notin {"subscribing", "greeting", "resuming"}
          <6>1. job[t] \in Jobs /\ JobGood(job[t])
            BY <1>0 DEF HubOrder, JobsGood
          <6>2. CASE job[t].stage = "answering"
            <7>1. /\ job[t].result \in Results /\ GoodResult(job[t].request, job[t].result)
                  /\ job[t].request \in Requests
              BY <6>1, <6>2 DEF JobGood, Jobs, Idle, Issued
            <7>2. PICK x, y : x = job[t].request /\ y = job[t].result
              OBVIOUS
            <7>3. GoodResult(x, y)'
              BY <1>0, <7>1, <7>2, GoodStays DEF Types
            <7> QED BY <5>4, <6>2, <7>2, <7>3 DEF JobGood
          <6>3. CASE job[t].stage # "answering"
            BY <5>4, <6>3 DEF JobGood
          <6> QED BY <6>2, <6>3
        <5> QED BY <5>1, <5>2, <5>3, <5>4
      <4> QED BY <4>1, <4>2
    <3> QED BY <3>2 DEF JobsGood, Sockets
  <2>2. CASE TakeSubscribe(s) \/ TakeDispatch(s)
    <3>1. subs' = subs
      BY <2>2 DEF TakeSubscribe, TakeDispatch, linkVars
    <3>2. \A t \in Sockets : t # s => job'[t] = job[t]
      BY <1>0, <2>2 DEF TakeSubscribe, TakeDispatch
    <3>3. JobGood(job[s])'
      <4>1. PICK r : r = Head(up[s])
        OBVIOUS
      <4>2. CASE TakeSubscribe(s)
        <5>1. r \in UpFrames /\ r.method = "subscribe"
          BY <1>0, <4>1, <4>2 DEF TakeSubscribe, FrameFor
        <5>2. r.uris = {r.uri}
          BY <5>1 DEF UpFrames, Issued, Requests
        <5>3. TrueSnapshots({})'
          BY DEF TrueSnapshots
        <5>4. job'[s] = IF link = s THEN Job("subscribing", r, {r.uri}) ELSE Refusal(r)
          BY <1>0, <4>1, <4>2 DEF TakeSubscribe
        <5> QED BY <5>1, <5>2, <5>3, <5>4 DEF Job, Refusal, Answering, JobGood, GoodResult
      <4>3. CASE TakeDispatch(s)
        <5>1. \/ job'[s] = Job("committing", r, {})
              \/ job'[s] = Answering(r, [type |-> "duplicate"])
              \/ job'[s] = Refusal(r)
          BY <1>0, <4>1, <4>3 DEF TakeDispatch
        <5> QED BY <5>1 DEF Job, Refusal, Answering, JobGood, GoodResult
      <4> QED BY <2>2, <4>2, <4>3
    <3> QED BY <1>0, <3>1, <3>2, <3>3, JobsStay DEF HubOrder
  <2>3. CASE TakeUnsubscribe(s)
    <3>1. job' = job
      BY <2>3 DEF TakeUnsubscribe
    <3>2. CASE link # s
      <4>1. subs' = subs
        BY <2>3, <3>2 DEF TakeUnsubscribe
      <4> QED BY <1>0, <3>1, <4>1, JobsStay DEF HubOrder
    <3>3. CASE link = s
      <4>1. ASSUME NEW t \in Sockets
            PROVE  JobGood(job[t])'
        <5>1. job[t].stage \notin {"subscribing", "greeting", "resuming"}
          BY <1>0, <1>3, <3>3 DEF LinksOrdered, Idle
        <5>2. job[t] \in Jobs /\ JobGood(job[t])
          BY <1>0 DEF HubOrder, JobsGood
        <5>3. PICK j : j = job[t]
          OBVIOUS
        <5>4. CASE j.stage = "answering"
          <6>1. j.result \in Results /\ GoodResult(j.request, j.result) /\ j.request \in Requests
            BY <5>2, <5>3, <5>4 DEF JobGood, Jobs, Idle, Issued
          <6>2. GoodResult(j.request, j.result)'
            BY <1>0, <6>1, GoodStays DEF Types
          <6>3. JobGood(j)'
            BY <5>4, <6>2 DEF JobGood
          <6> QED BY <3>1, <5>3, <6>3 DEF JobGood
        <5>5. CASE j.stage # "answering"
          BY <3>1, <5>1, <5>3, <5>5 DEF JobGood
        <5> QED BY <5>4, <5>5
      <4> QED BY <4>1 DEF JobsGood, Sockets
    <3> QED BY <3>2, <3>3
  <2> QED BY <2>1, <2>2, <2>3
<1> QED BY <1>1, <1>2, <1>5, <1>6 DEF HubOrder

\* A turn of one job that takes no frame, and at most drops its own link, keeps the links
\* in order.
LEMMA OneJobLinks ==
  ASSUME Types, LinksOrdered, UNCHANGED <<clientVars, reader, up, down, detached>>,
         NEW s \in 1..current,
         \A t \in Sockets : t # s => job'[t] = job[t],
         job[s] # Idle,
         job'[s].stage \in {"subscribing", "greeting", "resuming"} =>
           job[s].stage \in {"subscribing", "greeting", "resuming"} /\ link' = link,
         link' = link \/ (link' = 0 /\ \A t \in Sockets :
           job'[t].stage \in {"subscribing", "greeting", "resuming"} => t = s /\ link' = link)
  PROVE  LinksOrdered'
<1>1. link' <= current /\ link' \notin detached'
  BY LinkWithin DEF LinksOrdered, Types, WireTypes, Sockets
<1>2. \A t \in Sockets : t > current => up'[t] = up[t] /\ job'[t] = job[t]
  BY LinkWithin
<1>3. \A t \in Sockets : job'[t].stage \in {"subscribing", "greeting", "resuming"} =>
        \/ job[t].stage \in {"subscribing", "greeting", "resuming"} /\ link' = link
        \/ link' = t
  OBVIOUS
<1> QED BY <1>1, <1>2, <1>3, LinksStay

\* One more channel of a hello or a subscribe.
LEMMA SnapshotAdded ==
  ASSUME HubTypes, NEW S, TrueSnapshots(S), NEW u, \A t \in S : t.uri # u
  PROVE  TrueSnapshots(S \cup {SnapshotOf(u)})
<1>1. /\ SnapshotOf(u).uri = u /\ SnapshotOf(u).fromSeq = Len(log)
      /\ SnapshotOf(u).state = StateAt(log, u, Len(log)) /\ Len(log) \in 0..Len(log)
  BY LogTyped DEF SnapshotOf
<1> DEFINE x == SnapshotOf(u)
<1> HIDE DEF x
<1> QED BY <1>1 DEF TrueSnapshots, x

\* A channel is reached by hello or subscribe: its snapshot is that of the whole log.
LEMMA SubscribesOrdered ==
  ASSUME Types, Types', HubOrder, UNCHANGED clientVars, NEW s \in 1..current, NEW u \in Uris,
         SubscribeOne(s, u)
  PROVE  HubOrder'
<1>1. s \in Sockets /\ LinksOrdered /\ link = s /\ job[s].stage = "subscribing" /\ u \in job[s].todo
  BY LinkWithin DEF SubscribeOne, HubOrder, LinksOrdered
<1>2. /\ UNCHANGED <<hubVars, up, down, reader, detached>> /\ Longer
      /\ UNCHANGED <<log, ring, gone>>
  BY DEF SubscribeOne, hubVars, Longer
<1> DEFINE r == job[s].request
           todo == job[s].todo \ {u}
           got == IF u \in Stateless THEN job[s].snapshots
                  ELSE job[s].snapshots \cup {SnapshotOf(u)}
<1>3. /\ job[s] \in Jobs /\ job[s] # Idle /\ job[s].todo \subseteq Uris
      /\ job[s].request.method \in {"hello", "subscribe"}
      /\ JobGood(job[s])
  BY <1>1 DEF Types, HubTypes, HubOrder, JobsGood, Jobs, Idle
<1>4. /\ TrueSnapshots(got) /\ got \in SUBSET Snapshots
      /\ {t.uri : t \in got} = (r.uris \ todo) \ Stateless
  <2>1. /\ TrueSnapshots(job[s].snapshots)
        /\ {t.uri : t \in job[s].snapshots} = (r.uris \ job[s].todo) \ Stateless
        /\ job[s].todo \subseteq r.uris
    BY <1>1, <1>3 DEF JobGood
  <2>2. (\A t \in job[s].snapshots : t.uri # u)
    BY <1>1, <2>1
  <2>3. SnapshotOf(u).uri = u /\ SnapshotOf(u) \in Snapshots
    BY SnapshotTyped DEF Types, SnapshotOf
  <2>4. job[s].snapshots \in SUBSET Snapshots
    BY <1>1, <1>3 DEF Jobs, Idle
  <2>5. TrueSnapshots(job[s].snapshots \cup {SnapshotOf(u)})
    BY <2>1, <2>2, SnapshotAdded DEF Types
  <2>6. {t.uri : t \in job[s].snapshots \cup {SnapshotOf(u)}} = {t.uri : t \in job[s].snapshots} \cup {u}
    BY <2>3
  <2> QED BY <1>1, <2>1, <2>3, <2>4, <2>5, <2>6
<1>5. CASE u \in gone
  <2>1. job' = [job EXCEPT ![s] = Refusal(r)]
    BY <1>5 DEF SubscribeOne
  <2>2. job'[s] = Refusal(r) /\ \A t \in Sockets : t # s => job'[t] = job[t]
    BY <1>1, <2>1 DEF Types, HubTypes
  <2>3. JobGood(job[s])'
    BY <2>2 DEF Refusal, Answering, JobGood, GoodResult
  <2>4. \/ link' = link /\ subs' = subs
        \/ link' = 0
    BY <1>5 DEF SubscribeOne, Unlinked, linkVars
  <2>5. \A t \in Sockets : job'[t].stage \in {"subscribing", "greeting", "resuming"} => t # s /\ link = t
    BY <1>1, <2>2 DEF Refusal, Answering, LinksOrdered
  <2>6. LinksOrdered'
    <3>1. job'[s].stage \notin {"subscribing", "greeting", "resuming"}
      BY <2>2 DEF Refusal, Answering
    <3>2. link' = link \/ (link' = 0 /\ \A t \in Sockets :
             job'[t].stage \in {"subscribing", "greeting", "resuming"} => t = s /\ link' = link)
      BY <1>1, <2>4, <2>5
    <3> QED BY <1>1, <1>2, <1>3, <2>2, <3>1, <3>2, OneJobLinks
  <2>7. JobsGood'
    <3>1. ASSUME NEW t \in Sockets, t # s PROVE JobGood(job[t])'
      <4>1. job'[t] = job[t] /\ job[t] \in Jobs /\ JobGood(job[t])
        BY <2>2, <3>1 DEF Types, HubTypes, HubOrder, JobsGood
      <4>2. job[t].stage \notin {"subscribing", "greeting", "resuming"}
        BY <1>1, <3>1 DEF LinksOrdered
      <4>3. PICK j : j = job[t]
        OBVIOUS
      <4>4. CASE j.stage = "answering"
        <5>1. j.result \in Results /\ GoodResult(j.request, j.result) /\ j.request \in Requests
          BY <4>1, <4>3, <4>4 DEF JobGood, Jobs, Idle, Issued
        <5>2. GoodResult(j.request, j.result)'
          BY <1>2, <5>1, GoodStays DEF Types
        <5>3. JobGood(j)'
          BY <4>4, <5>2 DEF JobGood
        <5> QED BY <4>1, <4>3, <5>3 DEF JobGood
      <4>5. CASE j.stage # "answering"
        BY <4>1, <4>2, <4>3, <4>5 DEF JobGood
      <4> QED BY <4>4, <4>5
    <3> QED BY <2>3, <3>1 DEF JobsGood, Sockets
  <2>8. LogKept'
    BY <1>2 DEF LogKept, HubOrder
  <2>9. AnswersGood'
    BY <1>2, AnswersStand DEF HubOrder
  <2> QED BY <2>6, <2>7, <2>8, <2>9 DEF HubOrder
<1>6. CASE u \notin gone
  <2>1. /\ subs' = subs \cup {u} /\ link' = link
        /\ job' = [job EXCEPT ![s] =
             IF r.method = "subscribe"
             THEN Answering(r, [type |-> "subscribed", snapshots |-> got])
             ELSE [@ EXCEPT !.todo = todo, !.snapshots = got,
                            !.stage = IF todo = {} THEN "greeting" ELSE "subscribing"]]
    BY <1>6 DEF SubscribeOne
  <2>2. /\ job'[s] = IF r.method = "subscribe"
                     THEN Answering(r, [type |-> "subscribed", snapshots |-> got])
                     ELSE [job[s] EXCEPT !.todo = todo, !.snapshots = got,
                             !.stage = IF todo = {} THEN "greeting" ELSE "subscribing"]
        /\ \A t \in Sockets : t # s => job'[t] = job[t]
    BY <1>1, <2>1 DEF Types, HubTypes
  <2>3. job[s] \in [stage : {"subscribing", "greeting", "resuming", "committing"},
                 request : Issued, todo : SUBSET Uris, missing : SUBSET Uris,
                 snapshots : SUBSET Snapshots]
    BY <1>1, <1>3 DEF Jobs, Idle
  <2>4. /\ TrueSnapshots(job[s].snapshots) /\ job[s].todo \subseteq r.uris
        /\ r.method = "subscribe" => job[s].todo = r.uris
        /\ (r.uris \ job[s].todo) \ gone \subseteq subs
    BY <1>1, <1>3 DEF JobGood
  <2> HIDE DEF got, todo
  <2>6. PICK g, d, q : g = got /\ d = todo /\ q = r
    OBVIOUS
  <2>7. TrueSnapshots(g)' /\ {t.uri : t \in g} = (q.uris \ d) \ Stateless
    <3>1. TrueSnapshots(g)
      BY <1>4, <2>6
    <3>2. g \in SUBSET Snapshots
      BY <1>4, <2>6
    <3>3. TrueSnapshots(g)'
      BY <1>2, <3>1, <3>2, TrueStays DEF Types
    <3>4. {t.uri : t \in got} = (q.uris \ d) \ Stateless
      BY <1>4, <2>6, Zenon
    <3> QED BY <2>6, <3>3, <3>4, Zenon
  <2>8. d \subseteq q.uris /\ (q.uris \ d) \ gone \subseteq subs \cup {u}
    BY <2>4, <2>6 DEF todo
  <2>9. ASSUME q.method = "subscribe" PROVE JobsGood'
    <3>1. job'[s] = Answering(q, [type |-> "subscribed", snapshots |-> g])
      BY <2>2, <2>6, <2>9
    <3>2. q.uris = {u}
      <4>1. q \in Issued
        BY <2>3, <2>6
      <4>2. q.uris = {q.uri} /\ job[s].todo = q.uris
        BY <2>4, <2>6, <2>9, <4>1 DEF Issued, Requests
      <4> QED BY <1>1, <4>2
    <3>3. d = {}
      BY <2>4, <2>6, <2>9, <3>2 DEF todo
    <3>4. GoodResult(q, [type |-> "subscribed", snapshots |-> g])'
      BY <2>7, <3>3 DEF GoodResult
    <3>5. JobGood(job[s])'
      BY <3>1, <3>4 DEF JobGood, Answering
    <3>6. \A t \in Sockets : job'[t] = job[t] \/ JobGood(job[t])'
      BY <2>2, <3>5
    <3> QED BY <1>2, <2>1, <3>6, JobsStay DEF HubOrder
  <2>10. ASSUME q.method # "subscribe" PROVE JobsGood'
    <3>1. job'[s] = [job[s] EXCEPT !.todo = d, !.snapshots = g,
                       !.stage = IF d = {} THEN "greeting" ELSE "subscribing"]
      BY <2>2, <2>6, <2>10
    <3>2. /\ job'[s].stage = (IF d = {} THEN "greeting" ELSE "subscribing")
          /\ job'[s].todo = d /\ job'[s].snapshots = g /\ job'[s].request = q
      BY <2>3, <2>6, <3>1
    <3>3. JobGood(job[s])'
      BY <1>2, <2>1, <2>7, <2>8, <2>10, <3>2 DEF JobGood
    <3>4. \A t \in Sockets : job'[t] = job[t] \/ JobGood(job[t])'
      BY <2>2, <3>3
    <3> QED BY <1>2, <2>1, <3>4, JobsStay DEF HubOrder
  <2>11. JobsGood'
    BY <2>9, <2>10
  <2>12. LinksOrdered'
    BY <1>1, <1>2, <1>3, <2>1, <2>2, OneJobLinks
  <2>13. LogKept'
    BY <1>2 DEF LogKept, HubOrder
  <2>14. AnswersGood'
    BY <1>2, AnswersStand DEF HubOrder
  <2> QED BY <2>11, <2>12, <2>13, <2>14 DEF HubOrder
<1> QED BY <1>5, <1>6

\* Steps that only change what one socket is busy with.
LEMMA OneJobOrdered ==
  ASSUME Types, Types', HubOrder, UNCHANGED <<clientVars, hubVars, reader, up, down, detached, link>>,
         subs \ gone \subseteq subs', NEW s \in 1..current, job[s] # Idle,
         \A t \in Sockets : t # s => job'[t] = job[t],
         job'[s].stage \in {"subscribing", "greeting", "resuming"} =>
           job[s].stage \in {"subscribing", "greeting", "resuming"},
         JobGood(job[s])'
  PROVE  HubOrder'
<1>1. Longer /\ UNCHANGED <<log, ring, gone>> /\ LinksOrdered
  BY DEF hubVars, Longer, HubOrder
<1>2. LinksOrdered'
  BY <1>1, OneJobLinks
<1>3. \A t \in Sockets : job'[t] = job[t] \/ JobGood(job[t])'
  OBVIOUS
<1>4. JobsGood'
  BY <1>1, <1>3, JobsStay DEF HubOrder
<1>5. LogKept'
  BY <1>1 DEF LogKept, HubOrder
<1>6. AnswersGood'
  BY <1>1, AnswersStand DEF HubOrder
<1> QED BY <1>2, <1>4, <1>5, <1>6 DEF HubOrder

\* The sequence in the answer to hello is that of the log.
LEMMA GreetsOrdered ==
  ASSUME Types, Types', HubOrder, UNCHANGED clientVars, NEW s \in 1..current, Greet(s)
  PROVE  HubOrder'
<1>1. s \in Sockets /\ job[s].stage = "greeting"
  BY LinkWithin DEF Greet, HubOrder
<1>2. UNCHANGED <<clientVars, hubVars, reader, up, down, detached, link, subs>>
  BY DEF Greet, linkVars
<1>3. job[s] \in Jobs /\ JobGood(job[s]) /\ job[s] # Idle /\ job[s].snapshots \in SUBSET Snapshots
  BY <1>1 DEF Types, HubTypes, HubOrder, JobsGood, Jobs, Idle
<1>4. PICK r, ss : r = job[s].request /\ ss = job[s].snapshots
  OBVIOUS
<1>5. /\ job'[s] = Answering(r, [type |-> "hello", serverSeq |-> Len(log), snapshots |-> ss])
      /\ \A t \in Sockets : t # s => job'[t] = job[t]
  BY <1>1, <1>4 DEF Greet, Types, HubTypes
<1>6. TrueSnapshots(ss) /\ r.uris \ Stateless = {t.uri : t \in ss}
  BY <1>1, <1>3, <1>4 DEF JobGood
<1>7. TrueSnapshots(ss)'
  BY <1>2, <1>3, <1>4, <1>6, TrueStays DEF Types, Longer, hubVars
<1>8. JobGood(job[s])'
  BY <1>5, <1>6, <1>7 DEF JobGood, GoodResult, Answering
<1> QED BY <1>1, <1>2, <1>3, <1>5, <1>8, OneJobOrdered DEF Answering

\* A channel is reached by reconnect: it is subscribed, or was destroyed.
LEMMA ResumeOnesOrdered ==
  ASSUME Types, Types', HubOrder, UNCHANGED clientVars, NEW s \in 1..current, NEW u \in Uris,
         ResumeOne(s, u)
  PROVE  HubOrder'
<1>1. s \in Sockets /\ job[s].stage = "resuming" /\ u \in job[s].todo
  BY LinkWithin DEF ResumeOne, HubOrder
<1>2. /\ UNCHANGED <<clientVars, hubVars, reader, up, down, detached, link>> /\ gone' = gone
      /\ subs' = IF u \in gone THEN subs ELSE subs \cup {u}
  BY DEF ResumeOne, hubVars
<1>3. job[s] \in Jobs /\ JobGood(job[s]) /\ job[s] # Idle
  BY <1>1 DEF Types, HubTypes, HubOrder, JobsGood, Jobs, Idle
<1>4. /\ job' = [job EXCEPT ![s].todo = @ \ {u},
                            ![s].missing = IF u \in gone THEN @ \cup {u} ELSE @]
      /\ job \in [Sockets -> Jobs]
  BY DEF ResumeOne, Types, HubTypes
<1>5. /\ job'[s] = [[job[s] EXCEPT !.todo = @ \ {u}] EXCEPT
                       !.missing = IF u \in gone THEN @ \cup {u} ELSE @]
      /\ \A t \in Sockets : t # s => job'[t] = job[t]
  BY <1>1, <1>4
<1>6. job[s] \in [stage : {"subscribing", "greeting", "resuming", "committing"},
                 request : Issued, todo : SUBSET Uris, missing : SUBSET Uris,
                 snapshots : SUBSET Snapshots]
  BY <1>1, <1>3 DEF Jobs, Idle
<1>7. /\ job'[s].stage = "resuming" /\ job'[s].request = job[s].request
      /\ job'[s].todo = job[s].todo \ {u}
      /\ job'[s].missing = IF u \in gone THEN job[s].missing \cup {u} ELSE job[s].missing
  BY <1>1, <1>5, <1>6
<1>8. JobGood(job[s])'
  BY <1>1, <1>2, <1>3, <1>7 DEF JobGood
<1> QED BY <1>1, <1>2, <1>3, <1>5, <1>7, <1>8, OneJobOrdered

\* The ring is the end of the log.
LEMMA RingOrder ==
  ASSUME HubTypes, LogKept
  PROVE  /\ DOMAIN ring = 1..Len(ring) /\ Len(ring) \in Nat /\ Len(ring) <= Len(log)
         /\ ring \in Seq(Told)
         /\ \A i \in DOMAIN ring : ring[i].seq = Len(log) - Len(ring) + i /\ ring[i] \in Told
<1>1. ring \in Seq(Told) /\ Len(ring) <= Len(log) /\ Len(log) \in Nat /\ DOMAIN log = 1..Len(log)
  BY LogTyped DEF HubTypes, LogKept
<1>2. DOMAIN ring = 1..Len(ring) /\ Len(ring) \in Nat
  BY <1>1
<1>3. ASSUME NEW i \in DOMAIN ring PROVE ring[i].seq = Len(log) - Len(ring) + i
  <2>1. ring[i] = log[Len(log) - Len(ring) + i]
    BY DEF LogKept
  <2>2. Len(log) - Len(ring) + i \in DOMAIN log
    BY <1>1, <1>2
  <2>3. \A k \in DOMAIN log : log[k].seq = k
    BY LogTyped
  <2> QED BY <2>1, <2>2, <2>3
<1> QED BY <1>1, <1>2, <1>3

\* What a replay holds: what the ring has after seen on these channels, in its order.
LEMMA ReplayHolds ==
  ASSUME HubTypes, LogKept, NEW seen \in Nat, NEW missing
  PROVE  LET s == Replay(seen, missing).actions
         IN  /\ s \in Seq(Told)
             /\ \A j, k \in DOMAIN s : j < k => s[j].seq < s[k].seq
             /\ \A e : e \in Range(s) <=>
                  \E i \in DOMAIN ring : e = ring[i] /\ e.seq > seen /\ e.uri \in subs
<1> DEFINE I == {i \in DOMAIN ring : ring[i].seq > seen /\ ring[i].uri \in subs}
           s == Selected(ring, I)
           n == Cardinality(I)
<1>1. Replay(seen, missing).actions = s
  BY DEF Replay
<1>2. ring \in Seq(Told) /\ I \in SUBSET (DOMAIN ring)
  BY RingOrder
<1> HIDE DEF I
<1>3. s \in Seq(Told)
  BY <1>2, SelectedTyped
<1>4. PICK f \in [1..n -> I] :
        /\ s = [k \in 1..n |-> ring[f[k]]]
        /\ \A j, k \in 1..n : j < k => f[j] < f[k]
        /\ \A i \in I : \E k \in 1..n : f[k] = i
  BY <1>2, Selecting
<1> HIDE DEF s
<1>5. DOMAIN s = 1..n
  BY <1>4
<1>6. ASSUME NEW j \in DOMAIN s, NEW k \in DOMAIN s, j < k PROVE s[j].seq < s[k].seq
  <2>1. s[j] = ring[f[j]] /\ s[k] = ring[f[k]] /\ f[j] < f[k] /\ f[j] \in DOMAIN ring
        /\ f[k] \in DOMAIN ring
    BY <1>2, <1>4, <1>5, <1>6
  <2>2. /\ ring[f[j]].seq = Len(log) - Len(ring) + f[j]
        /\ ring[f[k]].seq = Len(log) - Len(ring) + f[k]
        /\ Len(log) \in Nat /\ Len(ring) \in Nat /\ f[j] \in Nat /\ f[k] \in Nat
    BY <2>1, RingOrder, LogTyped
  <2> QED BY <2>1, <2>2
<1>7. ASSUME NEW e
      PROVE  e \in Range(s) <=> \E i \in I : e = ring[i]
  BY <1>4, <1>5 DEF Range
<1>8. \A e : e \in Range(s) <=>
        \E i \in DOMAIN ring : e = ring[i] /\ e.seq > seen /\ e.uri \in subs
  BY <1>7 DEF I
<1> QED BY <1>1, <1>3, <1>6, <1>8

\* A replay that the ring covers holds all that the log has after seen.
LEMMA ReplayIsAll ==
  ASSUME HubTypes, LogKept, NEW r \in Requests, NEW missing, r.uris \ gone \subseteq subs,
         r.seen = Len(log) \/ Replayed!Covers(ring, r.seen)
  PROVE  Replays(Replay(r.seen, missing).actions, r, Len(log))
<1>1. PICK s : s = Replay(r.seen, missing).actions
  OBVIOUS
<1>2. r.seen \in Nat
  BY DEF Requests
<1>3. /\ s \in Seq(Told)
      /\ \A e : e \in Range(s) <=>
           \E i \in DOMAIN ring : e = ring[i] /\ e.seq > r.seen /\ e.uri \in subs
  BY <1>1, <1>2, ReplayHolds
<1>4. Len(log) \in Nat /\ DOMAIN log = 1..Len(log) /\ log \in Seq(Envelopes)
      /\ \A k \in DOMAIN log : log[k].seq = k
  BY LogTyped
<1>5. ASSUME NEW k \in DOMAIN s PROVE s[k].seq <= Len(log)
  <2>1. s[k] \in Told
    BY <1>3
  <2>2. s[k].seq \in 1..Len(log)
    BY <2>1, ToldTyped
  <2> QED BY <1>4, <2>2
<1>6. ASSUME NEW u \in r.uris \ gone
      PROVE  {e \in Range(s) : e.uri = u} = Between(u, r.seen, Len(log))
  <2>1. ASSUME NEW e \in Range(s), e.uri = u PROVE e \in Between(u, r.seen, Len(log))
    <3>1. PICK i \in DOMAIN ring : e = ring[i] /\ e.seq > r.seen
      BY <1>3
    <3>2. e \in Told
      BY <3>1, RingOrder
    <3>3. e.seq \in 1..Len(log)
      BY <3>2, ToldTyped
    <3> QED BY <1>2, <1>4, <2>1, <3>1, <3>2, <3>3 DEF Between
  <2>2. ASSUME NEW e \in Between(u, r.seen, Len(log)) PROVE e \in Range(s) /\ e.uri = u
    <3>1. e \in Told /\ e.uri = u /\ r.seen < e.seq /\ e.seq <= Len(log)
      BY DEF Between
    <3>2. e.seq \in 1..Len(log) /\ log[e.seq] = e
      BY <3>1, ToldTyped
    <3>3. DOMAIN ring = 1..Len(ring) /\ Len(ring) \in Nat /\ Len(ring) <= Len(log)
          /\ \A i \in DOMAIN ring : ring[i].seq = Len(log) - Len(ring) + i
                                    /\ ring[i] = log[Len(log) - Len(ring) + i]
      BY RingOrder DEF LogKept
    <3>4. Replayed!Covers(ring, r.seen)
      BY <1>2, <1>4, <3>1, <3>2
    <3>5. ring # << >> /\ ring[1].seq <= r.seen + 1
      BY <3>4 DEF Replayed!Covers
    <3>6. 1 \in DOMAIN ring
      BY <3>3, <3>5, RingOrder
    <3>7. Len(log) - Len(ring) <= r.seen
      BY <1>2, <1>4, <3>3, <3>5, <3>6
    <3> DEFINE i == e.seq - (Len(log) - Len(ring))
    <3>8. i \in DOMAIN ring /\ Len(log) - Len(ring) + i = e.seq
      BY <1>2, <1>4, <3>1, <3>2, <3>3, <3>7
    <3>9. ring[i] = e
      BY <3>2, <3>3, <3>8
    <3>10. e.uri \in subs
      BY <3>1
    <3> QED BY <1>2, <1>3, <3>1, <3>2, <3>8, <3>9, <3>10
  <2> QED BY <2>1, <2>2
<1>7. Replays(s, r, Len(log))
  BY <1>5, <1>6 DEF Replays
<1> QED BY <1>1, <1>7

\* The answer to reconnect: what the ring holds after the request's sequence is all there
\* is, or snapshots.
LEMMA ResumesOrdered ==
  ASSUME Types, Types', HubOrder, UNCHANGED clientVars, NEW s \in 1..current, Resume(s)
  PROVE  HubOrder'
<1>1. s \in Sockets /\ job[s].stage = "resuming" /\ job[s].todo = {}
  BY LinkWithin DEF Resume, HubOrder
<1>2. /\ UNCHANGED <<clientVars, hubVars, reader, up, down, detached, link, subs>>
      /\ log' = log /\ gone' = gone
  BY DEF Resume, linkVars, hubVars
<1>3. job[s] \in Jobs /\ JobGood(job[s]) /\ job[s] # Idle
  BY <1>1 DEF Types, HubTypes, HubOrder, JobsGood, Jobs, Idle
<1>4. PICK r, m : r = job[s].request /\ m = job[s].missing
  OBVIOUS
<1>5. /\ job'[s] = Answering(r, AnswerToResume(r, m))
      /\ \A t \in Sockets : t # s => job'[t] = job[t]
  BY <1>1, <1>4 DEF Resume, Types, HubTypes
<1>6. m \subseteq gone /\ r \in Requests
  BY <1>1, <1>3, <1>4 DEF JobGood, Jobs, Idle, Issued
<1>11. r.uris \ gone \subseteq subs
  BY <1>1, <1>3, <1>4 DEF JobGood
<1>7. PICK x : x = AnswerToResume(r, m)
  OBVIOUS
<1>8. GoodResult(r, x)'
  <2>1. CASE /\ x = Replay(r.seen, m)
             /\ r.seen = Len(log) \/ Replayed!Covers(ring, r.seen)
    <3>1. r.seen \in Nat
      BY <1>6 DEF Requests
    <3>2. PICK q : q = x.actions
      OBVIOUS
    <3>3. \A j, k \in DOMAIN q : j < k => q[j].seq < q[k].seq
      BY <2>1, <3>1, <3>2, ReplayHolds DEF Types, HubOrder
    <3>4. x.type = "replay" /\ x.missing = m
      BY <2>1 DEF Replay
    <3>5. Replays(q, r, Len(log)) /\ Len(log) \in 0..Len(log)
      BY <1>6, <1>11, <2>1, <3>2, ReplayIsAll, LogTyped DEF HubOrder, Types
    <3>6. Replays(q, r, Len(log))'
      BY <1>2, <3>5 DEF Replays, Between, Told
    <3> QED BY <1>2, <1>6, <3>2, <3>3, <3>4, <3>5, <3>6 DEF GoodResult
  <2>2. CASE x = [type |-> "snapshot", missing |-> m,
                  snapshots |-> {SnapshotOf(u) : u \in (r.uris \ m) \ Stateless}]
    <3> DEFINE ss == {SnapshotOf(u) : u \in (r.uris \ m) \ Stateless}
    <3>1. ASSUME NEW t \in ss
          PROVE  /\ t.uri \in (r.uris \ m) \ Stateless /\ t.fromSeq = Len(log)
                 /\ t.state = StateAt(log, t.uri, Len(log)) /\ t = SnapshotOf(t.uri)
      BY DEF SnapshotOf
    <3>2. \A u \in (r.uris \ m) \ Stateless : SnapshotOf(u).uri = u
      BY DEF SnapshotOf
    <3>3. {t.uri : t \in ss} = (r.uris \ m) \ Stateless
      BY <3>1, <3>2
    <3>4. PICK g : g = ss
      OBVIOUS
    <3>5. x.type = "snapshot" /\ x.missing = m /\ x.snapshots = g
      BY <2>2, <3>4
    <3>6. \A t \in g : t.fromSeq = Len(log) /\ t.state = StateAt(log, t.uri, Len(log))
                         /\ t = SnapshotOf(t.uri)
      BY <3>1, <3>4
    <3>7. Len(log) \in 0..Len(log)
      BY LogTyped DEF Types
    <3>8. TrueSnapshots(g)
      BY <3>6, <3>7 DEF TrueSnapshots
    <3>9. g \in SUBSET Snapshots
      BY <1>6, <3>4, SnapshotTyped DEF Requests, Types
    <3>10. TrueSnapshots(g)'
      BY <1>2, <3>8, <3>9, TrueStays DEF Types, Longer
    <3> QED BY <1>2, <1>6, <3>3, <3>4, <3>5, <3>10 DEF GoodResult
  <2> QED BY <1>7, <2>1, <2>2 DEF AnswerToResume
<1>9. job'[s].stage = "answering" /\ job'[s].request = r /\ job'[s].result = x
  BY <1>5, <1>7 DEF Answering
<1>10. JobGood(job[s])'
  BY <1>8, <1>9 DEF JobGood
<1> QED BY <1>1, <1>2, <1>3, <1>5, <1>9, <1>10, OneJobOrdered

\* The verdict on an action.
LEMMA CommitsOrdered ==
  ASSUME Types, Types', HubOrder, UNCHANGED clientVars, NEW s \in 1..current, Commit(s)
  PROVE  HubOrder'
<1>1. s \in Sockets /\ job[s].stage = "committing" /\ job[s] # Idle
  BY LinkWithin DEF Commit, HubOrder, Idle
<1>2. UNCHANGED <<clientVars, hubVars, reader, up, down, detached, link, subs>>
  BY DEF Commit, linkVars
<1>3. PICK verdict \in Verdicts : job' = [job EXCEPT ![s] =
         IF verdict = "throw" THEN Refusal(@.request)
         ELSE [stage |-> "writing", request |-> @.request,
               accepted |-> verdict = "accept"]]
  BY DEF Commit
<1>4. /\ job'[s] = IF verdict = "throw" THEN Refusal(job[s].request)
                   ELSE [stage |-> "writing", request |-> job[s].request,
                         accepted |-> verdict = "accept"]
      /\ \A t \in Sockets : t # s => job'[t] = job[t]
  BY <1>1, <1>3 DEF Types, HubTypes
<1>5. /\ JobGood(job[s])'
      /\ job'[s].stage \notin {"subscribing", "greeting", "resuming"}
  BY <1>4 DEF JobGood, Refusal, Answering, GoodResult
<1> QED BY <1>1, <1>2, <1>4, <1>5, OneJobOrdered

\* A frame is sent to the client, if the client is there to read it.
LEMMA SentComes ==
  ASSUME Types, reader' = reader, NEW s, NEW f, down' = SentDown(down, s, f) \/ down' = down
  PROVE  /\ \A t \in Sockets : t # reader => down'[t] = down[t]
         /\ Connected => Coming' = Coming \/ (Coming' = Append(Coming, f) /\ s = reader)
         /\ Connected' <=> Connected
         /\ Connected => reader \in Sockets
         /\ Connected /\ down' = SentDown(down, s, f) /\ s = reader /\ s \notin detached =>
              Coming' = Append(Coming, f)
<1>1. down \in [Sockets -> Seq(DownFrames)] /\ (Connected => reader \in Sockets)
  BY DEF Types, WireTypes, Connected, Sockets
<1>2. CASE down' = SentDown(down, s, f) /\ ~(s \in detached \/ s # reader)
  <2>1. down' = [down EXCEPT ![s] = Append(@, f)] /\ s = reader
    BY <1>2 DEF SentDown
  <2> QED BY <1>1, <2>1 DEF Coming, Connected
<1>3. CASE down' = down
  BY <1>1, <1>3 DEF Coming, Connected, SentDown
<1>4. CASE down' = SentDown(down, s, f) /\ (s \in detached \/ s # reader)
  BY <1>1, <1>4 DEF Coming, Connected, SentDown
<1> QED BY <1>2, <1>3, <1>4

\* Answers on their way stay good when a good one is sent.
LEMMA AnswersAppended ==
  ASSUME Types, Types', Longer, gone \subseteq gone', AnswersGood, UNCHANGED <<clientVars, reader>>,
         NEW f, Connected => Coming' = Coming \/ Coming' = Append(Coming, f),
         Coming' # Coming => \A r \in waiting : AnswerTo(f, r) => GoodResult(r, f.result)'
  PROVE  AnswersGood'
<1>1. waiting' = waiting /\ (Connected' <=> Connected)
  BY DEF clientVars, callState, Connected
<1>2. CASE Coming' = Coming \/ ~Connected
  <2>1. \A r \in waiting' : r \in waiting
    BY <1>1
  <2>2. Connected' => \A i \in DOMAIN Coming' :
          Connected /\ \E k \in DOMAIN Coming : Coming'[i] = Coming[k]
    BY <1>1, <1>2
  <2> QED BY <1>1, <2>1, <2>2, AnswersStay
<1>3. CASE Connected /\ Coming' # Coming /\ Coming' = Append(Coming, f)
  <2> SUFFICES ASSUME NEW i \in DOMAIN Coming', NEW r \in waiting', AnswerTo(Coming'[i], r)
               PROVE  GoodResult(r, Coming[i].result)'
    BY DEF AnswersGood, AnswerTo
  <2>1. Coming \in Seq(DownFrames) /\ DOMAIN Coming = 1..Len(Coming) /\ Len(Coming) \in Nat
    BY <1>3, ComingTyped
  <2>2. Coming' = [k \in 1..(Len(Coming) + 1) |-> IF k = Len(Coming) + 1 THEN f ELSE Coming[k]]
    BY <1>3, <2>1, AppendIs
  <2>3. CASE i = Len(Coming) + 1
    <3>1. Coming'[i] = f
      BY <2>2, <2>3
    <3>2. GoodResult(r, f.result)'
      BY <1>1, <1>3, <3>1
    <3> QED BY <3>1, <3>2 DEF GoodResult, TrueSnapshots, Replays, Between, Told, StateAt
  <2>4. CASE i # Len(Coming) + 1
    <3>0. DOMAIN Coming' = 1..(Len(Coming) + 1)
      BY <2>2
    <3>1. i \in DOMAIN Coming /\ Coming'[i] = Coming[i]
      <4>1. i \in 1..(Len(Coming) + 1)
        BY <3>0
      <4>2. i \in DOMAIN Coming
        BY <2>1, <2>4, <4>1
      <4> QED BY <2>2, <2>4, <4>1, <4>2
    <3>2. Coming[i] \in Answers
      <4>1. ~IsPush(Coming[i])
        BY <3>1 DEF AnswerTo, IsPush
      <4> QED BY <1>3, <3>1, <4>1, ComingTyped
    <3>3. GoodResult(r, Coming[i].result) /\ Coming[i].result \in Results /\ r \in waiting
      BY <1>1, <1>3, <3>1, <3>2, AnswerParts DEF AnswersGood, AnswerTo
    <3>4. PICK x : x = Coming[i].result
      OBVIOUS
    <3>5. GoodResult(r, x)'
      BY <3>3, <3>4, GoodStays DEF Types, ClientTypes, Issued
    <3>6. x = Coming'[i].result
      BY <3>1, <3>4
    <3> QED BY <3>5, <3>6 DEF GoodResult, TrueSnapshots, Replays, Between, Told, StateAt
  <2> QED BY <2>3, <2>4
<1> QED BY <1>2, <1>3

\* The log and the ring after one more envelope.
LEMMA BroadcastKept ==
  ASSUME HubTypes, LogKept, NEW e, Broadcast(e), e.seq = Len(log) + 1, e.uri \in Stateful
  PROVE  LogKept' /\ Longer /\ gone' = gone
<1>1. log' = Append(log, e) /\ ring' = Replayed!Push(ring, e) /\ gone' = gone
  BY DEF Broadcast
<1>2. /\ log \in Seq(Envelopes) /\ Len(log) \in Nat /\ ring \in Seq(Told) /\ Len(ring) \in Nat
      /\ DOMAIN ring = 1..Len(ring) /\ Len(ring) <= Len(log) /\ ReplayLimit \in Nat \ {0}
      /\ DOMAIN log = 1..Len(log)
  BY LogTyped, RingOrder, ServerAssumption
<1>3. /\ Len(log') = Len(log) + 1 /\ DOMAIN log' = 1..(Len(log) + 1)
      /\ \A i \in 1..Len(log) : log'[i] = log[i]
      /\ log'[Len(log) + 1] = e
  BY <1>1, <1>2
<1>4. \A i \in DOMAIN log' : log'[i].uri \in Stateful
  BY <1>2, <1>3 DEF LogKept
<1>5. \A i \in 1..Len(ring) : ring[i] = log[Len(log) - Len(ring) + i]
  BY <1>2 DEF LogKept
<1>6. CASE Len(ring) = ReplayLimit
  <2> DEFINE t == Tail(ring)
  <2>1. t \in Seq(Told) /\ Len(t) = Len(ring) - 1 /\ \A i \in 1..Len(t) : t[i] = ring[i + 1]
    BY <1>2, <1>6
  <2>2. ring' = Append(t, e)
    BY <1>1, <1>6 DEF Replayed!Push
  <2> HIDE DEF t
  <2>3. Len(t) \in Nat
    BY <2>1
  <2>4. /\ Len(ring') = Len(t) + 1 /\ DOMAIN ring' = 1..(Len(t) + 1)
        /\ \A i \in 1..Len(t) : ring'[i] = t[i]
        /\ ring'[Len(t) + 1] = e
    BY <2>1, <2>2
  <2>5. ASSUME NEW i \in DOMAIN ring' PROVE ring'[i] = log'[Len(log') - Len(ring') + i]
    <3>1. CASE i = Len(t) + 1
      <4>1. Len(log') - Len(ring') + i = Len(log) + 1
        BY <1>2, <1>3, <2>1, <2>3, <2>4, <3>1
      <4> QED BY <1>3, <2>4, <3>1, <4>1
    <3>2. CASE i \in 1..Len(t)
      <4>0. i \in Nat /\ i + 1 \in 1..Len(ring)
        BY <1>2, <2>1, <3>2
      <4>1. ring'[i] = log[Len(log) - Len(ring) + (i + 1)]
        BY <1>5, <2>1, <2>4, <3>2, <4>0
      <4>2. /\ Len(log') - Len(ring') + i = Len(log) - Len(ring) + (i + 1)
            /\ Len(log) - Len(ring) + (i + 1) \in 1..Len(log)
        <5>1. Len(log') = Len(log) + 1 /\ Len(ring') = Len(ring)
          BY <1>2, <1>3, <2>1, <2>4
        <5> QED BY <1>2, <4>0, <5>1
      <4> QED BY <1>3, <4>1, <4>2
    <3> QED BY <2>3, <2>4, <3>1, <3>2
  <2>6. Len(ring') <= Len(log')
    BY <1>2, <1>3, <2>1, <2>4
  <2>7. LogKept'
    BY <1>4, <2>5, <2>6 DEF LogKept
  <2>8. Longer
    BY <1>1 DEF Longer
  <2> QED BY <1>1, <2>7, <2>8
<1>7. CASE Len(ring) # ReplayLimit
  <2>1. ring' = Append(ring, e)
    BY <1>1, <1>7 DEF Replayed!Push
  <2>2. /\ Len(ring') = Len(ring) + 1 /\ DOMAIN ring' = 1..(Len(ring) + 1)
        /\ \A i \in 1..Len(ring) : ring'[i] = ring[i]
        /\ ring'[Len(ring) + 1] = e
    BY <1>2, <2>1
  <2>3. ASSUME NEW i \in DOMAIN ring' PROVE ring'[i] = log'[Len(log') - Len(ring') + i]
    <3>1. CASE i = Len(ring) + 1
      <4>1. Len(log') - Len(ring') + i = Len(log) + 1
        BY <1>2, <1>3, <2>2, <3>1
      <4> QED BY <1>3, <2>2, <3>1, <4>1
    <3>2. CASE i \in 1..Len(ring)
      <4>1. ring'[i] = log[Len(log) - Len(ring) + i]
        BY <1>5, <2>2, <3>2
      <4>2. /\ Len(log') - Len(ring') + i = Len(log) - Len(ring) + i
            /\ Len(log) - Len(ring) + i \in 1..Len(log)
        BY <1>2, <1>3, <2>2, <3>2
      <4> QED BY <1>3, <4>1, <4>2
    <3> QED BY <1>2, <2>2, <3>1, <3>2
  <2>6. Len(ring') <= Len(log')
    BY <1>2, <1>3, <2>2
  <2>7. LogKept'
    BY <1>4, <2>3, <2>6 DEF LogKept
  <2>8. Longer
    BY <1>1 DEF Longer
  <2> QED BY <1>1, <2>7, <2>8
<1> QED BY <1>6, <1>7

\* Commits.
LEMMA PublishesOrdered ==
  ASSUME Types, Types', HubOrder, UNCHANGED clientVars,
         (\E s \in 1..current : Publish(s)) \/ \E u \in Uris : Foreign(u)
  PROVE  HubOrder'
<1>1. PICK e : /\ Broadcast(e) /\ e.seq = Len(log) + 1 /\ e.uri \in Stateful /\ e.kind = "action"
  <2>1. ASSUME NEW s \in 1..current, Publish(s)
        PROVE  \E e : Broadcast(e) /\ e.seq = Len(log) + 1 /\ e.uri \in Stateful /\ e.kind = "action"
    <3>1. s \in Sockets
      BY LinkWithin DEF HubOrder
    <3>2. job[s].request \in Requests /\ job[s].request.method = "dispatch"
      BY <2>1, <3>1 DEF Publish, Types, HubTypes, Jobs, Idle, Issued
    <3>3. job[s].request.uri \in Stateful
      BY <3>2 DEF Requests
    <3> DEFINE e == Envelope(job[s].request.uri, job[s].request.n, job[s].accepted)
    <3>4. Broadcast(e) /\ e.seq = Len(log) + 1 /\ e.uri = job[s].request.uri /\ e.kind = "action"
      BY <2>1 DEF Publish, Envelope
    <3> QED BY <3>3, <3>4
  <2>2. ASSUME NEW u \in Uris, Foreign(u)
        PROVE  \E e : Broadcast(e) /\ e.seq = Len(log) + 1 /\ e.uri \in Stateful /\ e.kind = "action"
    BY <2>2 DEF Foreign, Envelope
  <2> QED BY <2>1, <2>2
<1>2. LogKept' /\ Longer /\ gone' = gone
  BY <1>1, BroadcastKept DEF Types, HubOrder
<1>3. UNCHANGED <<linkVars, up, reader, detached>> /\ link' = link /\ subs' = subs
  BY DEF Publish, Foreign, linkVars
<1>4. \A t \in Sockets : \/ job'[t] = job[t]
                         \/ t \in 1..current /\ job[t] # Idle /\ job'[t].stage \in {"idle", "answering"}
                              /\ JobGood(job[t])'
  <2>1. ASSUME NEW s \in 1..current, Publish(s), NEW t \in Sockets
        PROVE  \/ job'[t] = job[t]
               \/ t \in 1..current /\ job[t] # Idle /\ job'[t].stage \in {"idle", "answering"}
                    /\ JobGood(job[t])'
    <3>1. s \in Sockets /\ job \in [Sockets -> Jobs] /\ job[s] # Idle
      BY <2>1, LinkWithin DEF HubOrder, Publish, Idle, Types, HubTypes
    <3>2. job'[s] = (IF s \in detached THEN Idle
                     ELSE Answering(job[s].request, [type |-> "envelope",
                       envelope |-> Envelope(job[s].request.uri, job[s].request.n, job[s].accepted)]))
          /\ (t # s => job'[t] = job[t])
      BY <2>1, <3>1 DEF Publish
    <3> QED BY <3>1, <3>2 DEF Answering, Idle, JobGood, GoodResult
  <2>2. ASSUME NEW u \in Uris, Foreign(u) PROVE job' = job
    BY <2>2 DEF Foreign
  <2> QED BY <2>1, <2>2
<1>5. down' = SentDown(down, link, e) \/ down' = down
  BY <1>1 DEF Broadcast
<1>6. LinksOrdered'
  <2>1. \A t \in Sockets : t # reader => down'[t] = down[t]
    BY <1>3, <1>5, SentComes
  <2>2. \A t \in Sockets : t > current => up'[t] = up[t] /\ job'[t] = job[t]
    BY <1>3, <1>4, LinkWithin DEF HubOrder, LinksOrdered
  <2>3. link' <= current /\ link' \notin detached' /\ detached' \subseteq detached \cup 1..current
    BY <1>3, LinkWithin DEF HubOrder, LinksOrdered
  <2>4. \A t \in Sockets : job'[t].stage \in {"subscribing", "greeting", "resuming"} =>
           job[t].stage \in {"subscribing", "greeting", "resuming"} /\ link' = link
    BY <1>3, <1>4
  <2> QED BY <1>3, <2>1, <2>2, <2>3, <2>4, LinksStay DEF HubOrder
<1>7. JobsGood'
  <2>1. \A t \in Sockets : job'[t] = job[t] \/ JobGood(job[t])'
    BY <1>4
  <2> QED BY <1>2, <1>3, <2>1, JobsStay DEF HubOrder
<1>8. AnswersGood'
  <2>1. Connected => Coming' = Coming \/ Coming' = Append(Coming, e)
    BY <1>3, <1>5, SentComes
  <2>2. \A r \in waiting : ~AnswerTo(e, r)
    BY <1>1 DEF AnswerTo
  <2> QED BY <1>2, <1>3, <2>1, <2>2, AnswersAppended DEF HubOrder
<1> QED BY <1>2, <1>6, <1>7, <1>8 DEF HubOrder

\* An answer that leaves is the good one of its job.
LEMMA AnswersOrdered ==
  ASSUME Types, Types', HubOrder, UNCHANGED clientVars, NEW s \in 1..current, Answer(s)
  PROVE  HubOrder'
<1>1. s \in Sockets /\ job[s].stage = "answering" /\ job[s] # Idle /\ job \in [Sockets -> Jobs]
  BY LinkWithin DEF Answer, HubOrder, Idle, Types, HubTypes
<1>2. /\ UNCHANGED <<clientVars, hubVars, reader, up, detached, link, subs>>
      /\ UNCHANGED <<log, ring, gone>> /\ Longer
  BY DEF Answer, linkVars, hubVars, Longer
<1>3. job'[s] = Idle /\ \A t \in Sockets : t # s => job'[t] = job[t]
  BY <1>1 DEF Answer
<1>4. PICK f : f = [kind |-> "answer", id |-> job[s].request.id, result |-> job[s].result]
  OBVIOUS
<1>5. down' = SentDown(down, s, f)
  BY <1>4 DEF Answer
<1>6. LinksOrdered'
  <2>1. \A t \in Sockets : t # reader => down'[t] = down[t]
    BY <1>2, <1>5, SentComes
  <2>2. \A t \in Sockets : t > current => up'[t] = up[t] /\ job'[t] = job[t]
    BY <1>2, <1>3, LinkWithin DEF HubOrder
  <2>3. link' <= current /\ link' \notin detached' /\ detached' \subseteq detached \cup 1..current
    BY <1>2, LinkWithin DEF HubOrder, LinksOrdered
  <2>4. \A t \in Sockets : job'[t].stage \in {"subscribing", "greeting", "resuming"} =>
           job[t].stage \in {"subscribing", "greeting", "resuming"} /\ link' = link
    BY <1>2, <1>3 DEF Idle
  <2> QED BY <1>2, <2>1, <2>2, <2>3, <2>4, LinksStay DEF HubOrder
<1>7. JobsGood'
  <2>1. JobGood(job[s])'
    BY <1>3 DEF JobGood, Idle
  <2>2. \A t \in Sockets : job'[t] = job[t] \/ JobGood(job[t])'
    BY <1>3, <2>1
  <2> QED BY <1>2, <2>2, JobsStay DEF HubOrder
<1>8. LogKept'
  BY <1>2 DEF LogKept, HubOrder
<1>9. AnswersGood'
  <2>1. Connected => Coming' = Coming \/ Coming' = Append(Coming, f)
    BY <1>2, <1>5, SentComes
  <2>2. ASSUME NEW r \in waiting, AnswerTo(f, r)
        PROVE  GoodResult(r, f.result)'
    <3>1. job[s].request \in Issued /\ JobGood(job[s]) /\ job[s].result \in Results
      BY <1>1 DEF HubOrder, JobsGood, Jobs, Idle
    <3>2. r = job[s].request
      BY <1>4, <2>2, <3>1 DEF AnswerTo, Issued
    <3>3. GoodResult(r, f.result) /\ f.result \in Results
      BY <1>1, <1>4, <3>1, <3>2 DEF JobGood
    <3>4. PICK x : x = f.result
      OBVIOUS
    <3>5. GoodResult(r, x)'
      BY <1>2, <3>1, <3>2, <3>3, <3>4, GoodStays DEF Types, Issued
    <3> QED BY <3>4, <3>5
  <2> QED BY <1>2, <2>1, <2>2, AnswersAppended DEF HubOrder
<1> QED BY <1>6, <1>7, <1>8, <1>9 DEF HubOrder

\* A channel that is destroyed loses its subscriptions.
LEMMA DestroysOrdered ==
  ASSUME Types, Types', HubOrder, UNCHANGED clientVars, NEW u \in Uris, Destroy(u)
  PROVE  HubOrder'
<1>1. /\ gone' = gone \cup {u} /\ subs' = subs \ {u}
      /\ UNCHANGED <<log, ring, link, watermark, job, up, down, reader, detached>> /\ Longer
  BY DEF Destroy, Longer
<1>2. LinksOrdered'
  <2>1. link' <= current /\ link' \notin detached' /\ detached' \subseteq detached \cup 1..current
    BY <1>1, LinkWithin DEF HubOrder, LinksOrdered
  <2> QED BY <1>1, <2>1, LinksStay DEF HubOrder
<1>3. JobsGood'
  BY <1>1, JobsStay DEF HubOrder
<1>4. LogKept'
  BY <1>1 DEF LogKept, HubOrder
<1>5. AnswersGood'
  BY <1>1, AnswersStand DEF HubOrder
<1> QED BY <1>2, <1>3, <1>4, <1>5 DEF HubOrder

\* A socket ends, and its link with it.
LEMMA DetachesOrdered ==
  ASSUME Types, Types', HubOrder, UNCHANGED clientVars, NEW s \in 1..current, Detach(s)
  PROVE  HubOrder'
<1>1. /\ s \in Sockets /\ job \in [Sockets -> Jobs] /\ LinksOrdered
      /\ up \in [Sockets -> Seq(UpFrames)]
  BY LinkWithin DEF HubOrder, Types, HubTypes, WireTypes
<1>2. /\ UNCHANGED <<log, ring, gone, down, reader>> /\ Longer
      /\ detached' = detached \cup {s} /\ up' = Drained(up, {s}) /\ job' = Ended(job, {s})
      /\ IF link = s THEN link' = 0 /\ subs' = {} ELSE link' = link /\ subs' = subs
  BY DEF Detach, hubVars, linkVars, Unlinked, Longer
<1>3. /\ \A t \in Sockets : t # s => up'[t] = up[t] /\ job'[t] = job[t]
      /\ job'[s] = Idle \/ (job'[s] = job[s] /\ job[s].stage = "writing")
  <2>1. \A t \in Sockets : job'[t] = IF t \in {s} /\ job[t].stage # "writing" THEN Idle ELSE job[t]
    BY <1>2 DEF Ended
  <2>2. \A t \in Sockets : up'[t] = IF t \in {s} THEN << >> ELSE up[t]
    BY <1>2 DEF Drained
  <2> QED BY <1>1, <2>1, <2>2
<1>4. LinksOrdered'
  <2>1. \A t \in Sockets : t > current => up'[t] = up[t] /\ job'[t] = job[t]
    BY <1>1, <1>3, LinkWithin
  <2>2. link' <= current /\ link' \notin detached' /\ detached' \subseteq detached \cup 1..current
    <3>1. 0 \notin detached' /\ 0 <= current
      BY <1>2, LinkWithin DEF HubOrder, Types, WireTypes, Sockets
    <3> QED BY <1>1, <1>2, <3>1, LinkWithin DEF LinksOrdered
  <2>3. \A t \in Sockets : job'[t].stage \in {"subscribing", "greeting", "resuming"} =>
           job[t].stage \in {"subscribing", "greeting", "resuming"} /\ link' = link
    <3>1. ASSUME NEW t \in Sockets, job'[t].stage \in {"subscribing", "greeting", "resuming"}
          PROVE  t # s /\ job'[t] = job[t] /\ link = t
      <4>1. t # s
        BY <1>1, <1>3, <3>1 DEF Idle
      <4> QED BY <1>1, <1>3, <3>1, <4>1 DEF LinksOrdered
    <3> QED BY <1>2, <3>1
  <2> QED BY <1>1, <1>2, <2>1, <2>2, <2>3, LinksStay
<1>5. JobsGood'
  <2>1. CASE link # s
    <3>1. JobGood(job[s])'
      BY <1>1, <1>3 DEF JobGood, Idle
    <3>2. \A t \in Sockets : job'[t] = job[t] \/ JobGood(job[t])'
      BY <1>3, <3>1
    <3> QED BY <1>2, <2>1, <3>2, JobsStay DEF HubOrder
  <2>2. CASE link = s
    <3>1. ASSUME NEW t \in Sockets PROVE JobGood(job[t])'
      <4>1. CASE t = s
        BY <1>3, <4>1 DEF JobGood, Idle
      <4>2. CASE t # s
        <5>1. job'[t] = job[t] /\ job[t] \in Jobs /\ JobGood(job[t])
          BY <1>1, <1>3, <4>2 DEF HubOrder, JobsGood
        <5>2. job[t].stage \notin {"subscribing", "greeting", "resuming"}
          BY <1>1, <2>2, <4>2 DEF LinksOrdered
        <5>3. PICK j : j = job[t]
          OBVIOUS
        <5>4. CASE j.stage = "answering"
          <6>1. j.result \in Results /\ GoodResult(j.request, j.result) /\ j.request \in Requests
            BY <5>1, <5>3, <5>4 DEF JobGood, Jobs, Idle, Issued
          <6>2. GoodResult(j.request, j.result)'
            BY <1>2, <6>1, GoodStays DEF Types
          <6>3. JobGood(j)'
            BY <5>4, <6>2 DEF JobGood
          <6> QED BY <5>1, <5>3, <6>3 DEF JobGood
        <5>5. CASE j.stage # "answering"
          BY <5>1, <5>2, <5>3, <5>5 DEF JobGood
        <5> QED BY <5>4, <5>5
      <4> QED BY <4>1, <4>2
    <3> QED BY <3>1 DEF JobsGood, Sockets
  <2> QED BY <2>1, <2>2
<1>6. LogKept'
  BY <1>2 DEF LogKept, HubOrder
<1>7. AnswersGood'
  BY <1>2, AnswersStand DEF HubOrder
<1> QED BY <1>4, <1>5, <1>6, <1>7 DEF HubOrder

\* The hub starts again, with the ring empty and no link.
LEMMA RestartsOrdered ==
  ASSUME Types, Types', HubOrder, UNCHANGED clientVars, Restart(1..current)
  PROVE  HubOrder'
<1>1. job \in [Sockets -> Jobs] /\ LinksOrdered /\ up \in [Sockets -> Seq(UpFrames)]
  BY DEF HubOrder, Types, HubTypes, WireTypes
<1>2. /\ UNCHANGED <<gone, down, reader>> /\ ring' = << >>
      /\ detached' = detached \cup 1..current /\ up' = Drained(up, 1..current)
      /\ job' = [t \in Sockets |-> Idle] /\ link' = 0 /\ subs' = {}
      /\ log' \in {log} \cup
           {Append(log, Envelope(job[s].request.uri, job[s].request.n, job[s].accepted))
              : s \in Writing}
  BY DEF Restart, Unlinked
<1>3. /\ Longer
      /\ log' = log \/ \E e : log' = Append(log, e) /\ e.uri \in Stateful
  <2>1. CASE log' = log
    BY <2>1 DEF Longer
  <2>2. ASSUME NEW s \in Writing,
               log' = Append(log, Envelope(job[s].request.uri, job[s].request.n, job[s].accepted))
        PROVE  \E e : e.seq = Len(log) + 1 /\ log' = Append(log, e) /\ e.uri \in Stateful
    <3>1. job[s].request \in Requests /\ job[s].request.method = "dispatch"
      BY <1>1, <2>2 DEF Writing, Jobs, Idle, Issued
    <3>2. job[s].request.uri \in Stateful
      BY <3>1 DEF Requests
    <3> QED BY <2>2, <3>2 DEF Envelope
  <2> QED BY <1>2, <2>1, <2>2 DEF Longer
<1>4. LinksOrdered'
  <2>1. \A t \in Sockets : t > current => up'[t] = up[t] /\ job'[t] = job[t]
    <3>1. \A t \in Sockets : t > current => t \notin 1..current
      BY <1>1, LinkWithin
    <3> QED BY <1>1, <1>2, <3>1 DEF LinksOrdered, Drained
  <2>2. link' <= current /\ link' \notin detached'
    BY <1>1, <1>2, LinkWithin DEF Types, WireTypes, Sockets
  <2>3. \A t \in Sockets : job'[t].stage \notin {"subscribing", "greeting", "resuming"}
    BY <1>2 DEF Idle
  <2> QED BY <1>1, <1>2, <2>1, <2>2, <2>3, LinksStay
<1>5. JobsGood'
  BY <1>2 DEF JobsGood, JobGood, Idle, Sockets
<1>6. LogKept'
  <2>1. Len(ring') = 0 /\ DOMAIN ring' = {}
    BY <1>2
  <2>2. log \in Seq(Envelopes) /\ DOMAIN log = 1..Len(log) /\ Len(log) \in Nat
        /\ \A i \in DOMAIN log : log[i].uri \in Stateful
    BY LogTyped DEF Types, HubOrder, LogKept
  <2>3. 0 <= Len(log') /\ \A i \in DOMAIN log' : log'[i].uri \in Stateful
    BY <1>3, <2>2
  <2> QED BY <2>1, <2>3 DEF LogKept
<1>7. AnswersGood'
  BY <1>2, <1>3, AnswersStand DEF HubOrder
<1> QED BY <1>4, <1>5, <1>6, <1>7 DEF HubOrder

\* A turn of the hub.
HubSteps ==
  \/ \E s \in 1..current :
       \/ TakeHandshake(s) \/ TakeSubscribe(s) \/ TakeUnsubscribe(s) \/ TakeDispatch(s)
       \/ \E u \in Uris : SubscribeOne(s, u) \/ ResumeOne(s, u)
       \/ Greet(s) \/ Resume(s) \/ Commit(s) \/ Publish(s) \/ Answer(s) \/ Detach(s)
  \/ \E u \in Uris : Foreign(u) \/ Destroy(u)
  \/ Restart(1..current)

\* Every turn of the hub keeps it in order.
LEMMA HubStepsOrdered ==
  ASSUME Types, Types', HubOrder, HubSteps, UNCHANGED clientVars
  PROVE  HubOrder'
BY TakesOrdered, SubscribesOrdered, GreetsOrdered, ResumeOnesOrdered, ResumesOrdered, CommitsOrdered,
   PublishesOrdered, AnswersOrdered, DestroysOrdered, DetachesOrdered, RestartsOrdered DEF HubSteps

-----------------------------------------------------------------------------
(* What the client's steps do to the wire. *)

\* Sequence p is q with more at its end, all of it from A.
More(q, p, A) ==
  /\ Len(q) \in Nat /\ Len(p) \in Nat /\ DOMAIN q = 1..Len(q) /\ DOMAIN p = 1..Len(p)
  /\ Len(q) <= Len(p) /\ \A j \in 1..Len(q) : p[j] = q[j]
  /\ \A j \in 1..Len(p) : j > Len(q) => p[j] \in A

\* Nothing more was sent.
LEMMA MoreNone ==
  ASSUME NEW F, NEW q \in Seq(F), NEW A
  PROVE  More(q, q, A)
BY DEF More

\* A frame more was sent.
LEMMA MoreAtEnd ==
  ASSUME NEW q, NEW p, NEW A, NEW F, p \in Seq(F), More(q, p, A), NEW f \in A
  PROVE  More(q, Append(p, f), A)
<1>1. Append(p, f) = [k \in 1..(Len(p) + 1) |-> IF k = Len(p) + 1 THEN f ELSE p[k]]
  BY AppendIs
<1>2. Len(Append(p, f)) = Len(p) + 1 /\ DOMAIN Append(p, f) = 1..(Len(p) + 1) /\ Len(p) \in Nat
  BY <1>1
<1>3. \A j \in 1..(Len(p) + 1) : Append(p, f)[j] = IF j = Len(p) + 1 THEN f ELSE p[j]
  BY <1>1
<1> DEFINE x == Append(p, f)
<1> HIDE DEF x
<1>4. Len(x) = Len(p) + 1 /\ DOMAIN x = 1..(Len(p) + 1)
      /\ \A j \in 1..(Len(p) + 1) : x[j] = IF j = Len(p) + 1 THEN f ELSE p[j]
  BY <1>2, <1>3 DEF x
<1>5. \A j \in 1..Len(q) : x[j] = q[j]
  BY <1>2, <1>4 DEF More
<1>6. \A j \in 1..Len(x) : j > Len(q) => x[j] \in A
  BY <1>2, <1>4 DEF More
<1>7. More(q, x, A)
  BY <1>2, <1>4, <1>5, <1>6 DEF More
<1> QED BY <1>7 DEF x

\* The frames of one step of the client, on the link in use.
Speaks(A) ==
  /\ \A s \in Sockets : s # reader => up'[s] = up[s]
  /\ Connected => More(up[reader], up'[reader], A)

\* A client that sends nothing says nothing ...
LEMMA SpeaksNot ==
  ASSUME Types, up' = up, NEW A
  PROVE  Speaks(A)
<1>1. Connected => reader \in Sockets /\ up[reader] \in Seq(UpFrames)
  BY DEF Types, WireTypes, Connected, Sockets
<1> QED BY <1>1, MoreNone DEF Speaks

\* ... one that sends a frame says that ...
LEMMA SpeaksOnce ==
  ASSUME Types, Connected, NEW f, up' = SentUp(up, reader, f)
  PROVE  Speaks({f})
<1>1. reader \in Sockets /\ up \in [Sockets -> Seq(UpFrames)] /\ up[reader] \in Seq(UpFrames)
  BY DEF Types, WireTypes, Connected, Sockets
<1>2. CASE reader \in detached
  BY <1>2, SpeaksNot DEF SentUp
<1>3. CASE reader \notin detached
  <2>1. /\ up'[reader] = Append(up[reader], f)
        /\ \A s \in Sockets : s # reader => up'[s] = up[s]
    BY <1>1, <1>3 DEF SentUp
  <2>2. More(up[reader], up[reader], {f})
    BY <1>1, MoreNone
  <2>3. More(up[reader], Append(up[reader], f), {f})
    BY <1>1, <2>2, MoreAtEnd
  <2> QED BY <2>1, <2>3 DEF Speaks
<1> QED BY <1>2, <1>3

\* ... and one that sends several says them in their order.
LEMMA SpeaksAll ==
  ASSUME Types, NEW rs \in Seq(Requests), SendAll(rs)
  PROVE  Speaks(Range(rs))
<1> DEFINE F == UpFrames \cup Requests
<1>1. up \in [Sockets -> Seq(F)] /\ rs \in Seq(F)
  <2>1. UpFrames \subseteq F /\ Requests \subseteq F
    OBVIOUS
  <2> HIDE DEF F
  <2>2. up \in [Sockets -> Seq(UpFrames)]
    BY DEF Types, WireTypes
  <2> QED BY <2>1, <2>2, SeqMonotone, QueuesGrow
<1> HIDE DEF F
<1>2. PICK h \in [0..Len(rs) -> [Sockets -> Seq(F)]] :
        /\ h[0] = up /\ h[Len(rs)] = SendFrames(up, reader, rs)
        /\ \A i \in 1..Len(rs) : h[i] = SentUp(h[i - 1], reader, rs[i])
  BY <1>1, SendSteps
<1> DEFINE A == Range(rs)
           Good(i) == /\ \A s \in Sockets : s # reader => h[i][s] = up[s]
                      /\ Connected => More(up[reader], h[i][reader], A)
           S == {i \in Nat : i <= Len(rs) => Good(i)}
<1>3. Len(rs) \in Nat /\ \A i \in 1..Len(rs) : rs[i] \in A
  BY DEF Range
<1>4. Connected => reader \in Sockets
  BY DEF Types, WireTypes, Connected, Sockets
<1> HIDE DEF A
<1>5. 0 \in S
  <2>1. Good(0)
    BY <1>1, <1>2, <1>4, MoreNone
  <2> QED BY <2>1
<1>6. ASSUME NEW n \in Nat, n \in S PROVE n + 1 \in S
  <2> SUFFICES ASSUME n + 1 <= Len(rs) PROVE Good(n + 1)
    OBVIOUS
  <2>1. Good(n) /\ n \in 0..Len(rs) /\ n + 1 \in 1..Len(rs) /\ (n + 1) - 1 = n
    BY <1>3, <1>6
  <2> HIDE DEF Good, S
  <2>2. h[n + 1] = SentUp(h[n], reader, rs[n + 1]) /\ h[n] \in [Sockets -> Seq(F)]
        /\ rs[n + 1] \in A
    BY <1>2, <1>3, <2>1
  <2> DEFINE f == rs[n + 1]
             q == h[n]
  <2>3. CASE reader \in detached \/ ~Connected
    <3>1. \A s \in Sockets : s # reader => h[n + 1][s] = q[s]
      BY <1>4, <2>2 DEF SentUp
    <3>2. Connected => h[n + 1] = q
      BY <2>2, <2>3 DEF SentUp
    <3> QED BY <2>1, <3>1, <3>2 DEF Good
  <2>4. CASE reader \notin detached /\ Connected
    <3>1. /\ h[n + 1][reader] = Append(q[reader], f)
          /\ \A s \in Sockets : s # reader => h[n + 1][s] = q[s]
      BY <1>4, <2>2, <2>4 DEF SentUp
    <3>2. More(up[reader], q[reader], A) /\ q[reader] \in Seq(F)
      BY <1>4, <2>1, <2>2, <2>4 DEF Good
    <3>3. f \in A
      BY <2>2
    <3> HIDE DEF f, q
    <3>4. More(up[reader], Append(q[reader], f), A)
      BY <3>2, <3>3, MoreAtEnd
    <3> QED BY <2>1, <3>1, <3>4 DEF Good, q
  <2> QED BY <2>3, <2>4
<1> HIDE DEF S, Good
<1>7. Len(rs) \in S
  BY <1>3, <1>5, <1>6, Induction
<1>8. Good(Len(rs))
  BY <1>3, <1>7 DEF S
<1>9. up' = SendFrames(up, reader, rs)
  BY DEF SendAll, SendFrames
<1> QED BY <1>2, <1>8, <1>9 DEF Good, Speaks, A

\* The link stays, and the client reads at most one frame of it.
Staying ==
  /\ reader' = reader /\ current' = current
  /\ \A s \in Sockets : s # reader => down'[s] = down[s]
  /\ Connected => Coming' = Coming \/ (Coming # << >> /\ Coming' = Tail(Coming))

\* The client gives the link up.
Ending ==
  /\ reader' = 0 /\ current' = current
  /\ \A s \in Sockets : down'[s] = << >>

\* The client opens another socket.
Opening ==
  /\ reader' = current + 1 /\ current' = current + 1 /\ current + 1 \in Sockets
  /\ \A s \in Sockets : s # current + 1 => up'[s] = up[s]
  /\ \A s \in Sockets : down'[s] = << >>

OnWire ==
  /\ detached' = detached
  /\ \/ Staying /\ \A s \in Sockets : s # reader => up'[s] = up[s]
     \/ Ending /\ \A s \in Sockets : s # reader => up'[s] = up[s]
     \/ Opening
  /\ \A r \in waiting' : r \in waiting \/ r.id >= nextId

\* What the client does on the wire leaves the hub in order.
LEMMA OnWireOrdered ==
  ASSUME Types, Types', HubOrder, UNCHANGED serverVars, OnWire
  PROVE  HubOrder'
<1>1. /\ UNCHANGED <<log, ring, gone, link, subs, watermark, job>> /\ Longer
      /\ down \in [Sockets -> Seq(DownFrames)] /\ reader \in 0..MaxSockets
      /\ current \in Nat /\ (Connected => reader = current) /\ reader \in {0, current}
      /\ detached' = detached
  BY LinkWithin DEF serverVars, hubVars, linkVars, Longer, Types, WireTypes, HubOrder, LinksOrdered,
     Connected, OnWire
<1>2. LinksOrdered
  BY DEF HubOrder
<1>3. /\ reader' \in {0, current'} /\ current' \in Nat /\ current <= current'
      /\ \A s \in Sockets : s > current' => up'[s] = up[s]
      /\ \A s \in Sockets : s # reader' => down'[s] = << >>
      /\ Connected' => \A i \in DOMAIN Coming' :
           Connected /\ \E k \in DOMAIN Coming : Coming'[i] = Coming[k]
  <2>1. CASE Staying /\ \A s \in Sockets : s # reader => up'[s] = up[s]
    <3>1. reader' = reader /\ current' = current
      BY <2>1 DEF Staying
    <3>2. \A s \in Sockets : s > current => s # reader
      BY <1>1 DEF Sockets
    <3>3. \A s \in Sockets : s # reader => down'[s] = << >>
      BY <1>2, <2>1 DEF Staying, LinksOrdered
    <3>4. ASSUME Connected', NEW i \in DOMAIN Coming'
          PROVE  Connected /\ \E k \in DOMAIN Coming : Coming'[i] = Coming[k]
      <4>1. Connected
        BY <3>1, <3>4 DEF Connected
      <4>2. CASE Coming' = Coming
        BY <4>1, <4>2
      <4>3. CASE Coming # << >> /\ Coming' = Tail(Coming)
        <5>1. Coming \in Seq(DownFrames) /\ Coming # << >>
          BY <4>1, <4>3, ComingTyped
        <5>2. Shifted(Coming, Tail(Coming), 1)
          BY <5>1, ShiftedTail
        <5>3. i + 1 \in DOMAIN Coming /\ Coming'[i] = Coming[i + 1]
          BY <4>3, <5>2 DEF Shifted
        <5> QED BY <4>1, <5>3
      <4> QED BY <2>1, <4>1, <4>2, <4>3 DEF Staying
    <3> QED BY <1>1, <2>1, <3>1, <3>2, <3>3, <3>4
  <2>2. CASE Ending /\ \A s \in Sockets : s # reader => up'[s] = up[s]
    <3>1. reader' = 0 /\ current' = current /\ \A s \in Sockets : down'[s] = << >>
      BY <2>2 DEF Ending
    <3>2. \A s \in Sockets : s > current => s # reader
      BY <1>1 DEF Sockets
    <3>3. ~Connected'
      BY <3>1 DEF Connected
    <3> QED BY <1>1, <2>2, <3>1, <3>2, <3>3
  <2>3. CASE Opening
    <3>1. /\ reader' = current + 1 /\ current' = current + 1 /\ current + 1 \in Sockets
          /\ \A s \in Sockets : s # current + 1 => up'[s] = up[s]
          /\ \A s \in Sockets : down'[s] = << >>
      BY <2>3 DEF Opening
    <3>2. \A s \in Sockets : s > current + 1 => s # current + 1
      BY <1>1 DEF Sockets
    <3>3. Coming' = << >>
      BY <3>1 DEF Coming
    <3> QED BY <1>1, <3>1, <3>2, <3>3
  <2> QED BY <2>1, <2>2, <2>3 DEF OnWire
<1>4. LinksOrdered'
  <2>1. \A s \in Sockets : s > current' => s > current
    BY <1>1, <1>3 DEF Sockets
  <2>2. \A s \in Sockets : s > current' =>
          up'[s] = << >> /\ job'[s] = Idle /\ s \notin detached' /\ link' # s
    BY <1>1, <1>2, <1>3, <2>1 DEF LinksOrdered
  <2> QED BY <1>1, <1>2, <1>3, <2>2 DEF LinksOrdered, Sockets
<1>5. LogKept'
  BY <1>1 DEF LogKept, HubOrder
<1>6. JobsGood'
  BY <1>1, JobsStay DEF HubOrder
<1>7. AnswersGood'
  BY <1>1, <1>3, AnswersStay DEF HubOrder, OnWire
<1> QED BY <1>4, <1>5, <1>6, <1>7 DEF HubOrder

\* The client's reading end.
LEMMA ReaderIs ==
  ASSUME Types, HubOrder
  PROVE  /\ current \in Sockets /\ current \in Nat /\ (Connected => reader = current)
         /\ reader \in Nat /\ (Connected => reader \in Sockets)
         /\ down \in [Sockets -> Seq(DownFrames)] /\ up \in [Sockets -> Seq(UpFrames)]
         /\ \A s \in Sockets : s # reader => down[s] = << >>
         /\ nextId \in Nat
BY LinkWithin DEF Types, WireTypes, ClientTypes, HubOrder, LinksOrdered, Connected, Sockets

\* Nothing happens on the wire.
LEMMA StayingPut ==
  ASSUME UNCHANGED <<down, reader, current>>
  PROVE  Staying
BY DEF Staying, Coming

\* One more request.
LEMMA AskWaits ==
  ASSUME Types, NEW r, r.id = nextId, waiting' = waiting \cup {r}
  PROVE  \A q \in waiting' : q \in waiting \/ q.id >= nextId
BY DEF Types, ClientTypes

\* A frame is read.
LEMMA IncomingStays ==
  ASSUME Types, HubOrder, NEW kind, Incoming(kind), UNCHANGED <<reader, current>>
  PROVE  /\ Staying /\ Connected /\ Coming # << >> /\ Coming' = Tail(Coming)
         /\ Head(Coming) = Coming[1] /\ Coming[1].kind = kind /\ Shifted(Coming, Coming', 1)
         /\ Head(down[reader]) = Coming[1] /\ 1 \in DOMAIN Coming
<1>1. /\ Connected /\ Coming # << >> /\ Head(Coming).kind = kind
      /\ down' = [down EXCEPT ![reader] = Tail(@)] /\ reader \in Sockets
      /\ down \in [Sockets -> Seq(DownFrames)]
  BY ReaderIs DEF Incoming, Coming
<1>2. Coming' = Tail(Coming) /\ \A s \in Sockets : s # reader => down'[s] = down[s]
  BY <1>1 DEF Coming
<1>3. Coming \in Seq(DownFrames)
  BY <1>1 DEF Coming
<1>4. Shifted(Coming, Tail(Coming), 1) /\ Head(Coming) = Coming[1] /\ 1 \in DOMAIN Coming
  BY <1>1, <1>3, ShiftedTail
<1> QED BY <1>1, <1>2, <1>4 DEF Staying, Coming

\* A shutdown ends the link.
LEMMA TearDownEnds ==
  ASSUME TearDown, current' = current
  PROVE  Ending /\ waiting' = {}
BY DEF TearDown, Ending

\* The requests of dispatches that go on.
LEMMA SentDispatches ==
  ASSUME Types, NEW callers \in Seq(Flushes)
  PROVE  /\ Sent(callers) \in Seq(Requests)
         /\ \A r \in Range(Sent(callers)) : r.id >= nextId /\ r.method = "dispatch" /\ r \in Requests
<1>1. Sent(callers) \in Seq(Requests) /\ \A i \in DOMAIN Sent(callers) : Sent(callers)[i].id = nextId + i - 1
  BY SentRequests
<1>2. nextId \in Nat
  BY DEF Types, ClientTypes
<1>3. \A i \in DOMAIN Sent(callers) : Sent(callers)[i].method = "dispatch"
  BY DEF Sent, DispatchRequest
<1> DEFINE s == Sent(callers)
<1> HIDE DEF s
<1>4. s \in Seq(Requests) /\ DOMAIN s = 1..Len(s) /\ Len(s) \in Nat
      /\ \A i \in DOMAIN s : s[i].id = nextId + i - 1 /\ s[i].method = "dispatch"
  BY <1>1, <1>3 DEF s
<1>5. \A i \in DOMAIN s : s[i].id >= nextId /\ s[i] \in Requests
  BY <1>2, <1>4
<1> QED BY <1>4, <1>5 DEF Range, s

\* The end of the last save.
LEMMA FlushedParts ==
  ASSUME Types, Flushed
  PROVE  \E callers \in Seq(Flushes) :
           /\ SendAll(Sent(callers))
           /\ \/ TearDown /\ saves' = << >>
              \/ /\ callers = flushing /\ view' = ReleaseAll(view, flushing)
                 /\ \A i \in DOMAIN flushing : flushing[i].n # 0
                 /\ waiting' = waiting \cup Range(Sent(callers))
                 /\ saves' = IF view' # view /\ writable
                             THEN <<Checkpoint(view', subscribed, nextSeq)>> ELSE << >>
                 /\ UNCHANGED <<reader, down, ready, early, done, subscribed>>
<1>1. flushing \in Seq(Flushes)
  BY DEF Types, ClientTypes
<1> DEFINE closes == {i \in DOMAIN flushing : flushing[i].n = 0}
           m == CHOOSE i \in closes : TRUE
           before == SubSeq(flushing, 1, m - 1)
<1>2. CASE closes # {} /\ SendAll(Sent(before)) /\ TearDown /\ saves' = << >>
  <2>1. m \in DOMAIN flushing
    BY <1>2
  <2> HIDE DEF m
  <2>2. before \in Seq(Flushes)
    <3> HIDE DEF Flushes
    <3> QED BY <1>1, <2>1
  <2> QED BY <1>2, <2>2
<1>3. CASE /\ closes = {} /\ view' = FoldLeft(LAMBDA v, w : Released(w, v), view, flushing)
           /\ SendAll(Sent(flushing)) /\ waiting' = waiting \cup Range(Sent(flushing))
           /\ saves' = IF view' # view /\ writable
                       THEN <<Checkpoint(view', subscribed, nextSeq)>> ELSE << >>
           /\ UNCHANGED <<reader, down, shakeState, done, subscribed>>
  BY <1>1, <1>3 DEF ReleaseAll, shakeState
<1> QED BY <1>2, <1>3 DEF Flushed

\* The end of a save sends what waited for it, or ends the link.
LEMMA SaveOnWire ==
  ASSUME Types, HubOrder, NEW ok \in BOOLEAN, SaveEnds(ok)
  PROVE  OnWire
<1>1. detached' = detached /\ current' = current
  BY DEF SaveEnds
<1>2. CASE Flushed
  <2>1. PICK callers \in Seq(Flushes) :
           /\ SendAll(Sent(callers))
           /\ \/ TearDown
              \/ /\ waiting' = waiting \cup Range(Sent(callers))
                 /\ UNCHANGED <<reader, down>>
    BY <1>2, FlushedParts
  <2>2. /\ Sent(callers) \in Seq(Requests)
        /\ \A r \in Range(Sent(callers)) : r.id >= nextId
    BY SentDispatches
  <2>3. \A s \in Sockets : s # reader => up'[s] = up[s]
    BY <2>1, <2>2, SpeaksAll DEF Speaks
  <2>4. CASE TearDown
    BY <1>1, <2>3, <2>4, TearDownEnds DEF OnWire
  <2>5. CASE waiting' = waiting \cup Range(Sent(callers)) /\ UNCHANGED <<reader, down>>
    BY <1>1, <2>2, <2>3, <2>5, StayingPut DEF OnWire
  <2> QED BY <2>1, <2>4, <2>5
<1>3. CASE UNCHANGED <<reader, down, up, shakeState, done, waiting, nextId, subscribed, view>>
  BY <1>1, <1>3, StayingPut DEF OnWire
<1> QED BY <1>2, <1>3 DEF SaveEnds

ClientSteps ==
  \/ \E us \in SUBSET Uris : Hello(us)
  \/ \E s \in Sockets : Reconnect(s)
  \/ \E u \in Uris : Subscribe(u) \/ Unsubscribe(u) \/ Dispatch(u)
  \/ Shutdown \/ ReceivePush \/ ReceiveAnswer \/ ReceiveLate \/ EndOfStream
  \/ \E r \in waiting : Timeout(r)
  \/ \E ok \in BOOLEAN : SaveEnds(ok)
  \/ Restore

\* Every turn of the client on the wire.
LEMMA ClientOnWire ==
  ASSUME Types, HubOrder, ClientSteps
  PROVE  OnWire
<1>1. ASSUME NEW us \in SUBSET Uris, Hello(us) PROVE OnWire
  <2>1. PICK r : r = Request("hello", us, us \ Known(view))
    OBVIOUS
  <2>2. /\ up' = SentUp(up, reader, r) /\ waiting' = waiting \cup {r} /\ r.id = nextId /\ Connected
        /\ UNCHANGED <<down, reader, current, detached>>
    BY <1>1, <2>1 DEF Hello, Ask, Request, linkState
  <2> QED BY <2>2, SpeaksOnce, AskWaits, StayingPut DEF OnWire, Speaks
<1>2. ASSUME NEW s \in Sockets, Reconnect(s) PROVE OnWire
  <2>1. PICK r : r = [Request("reconnect", subscribed, {}) EXCEPT !.seen = view.seen]
    OBVIOUS
  <2>2. /\ up' = SentUp(up, s, r) /\ waiting' \subseteq waiting \cup {r} /\ r.id = nextId
        /\ reader' = s /\ current' = s /\ detached' = detached
        /\ s = reader \/ s = current + 1
        /\ down' = IF s # current THEN [down EXCEPT ![current] = << >>] ELSE down
    BY <1>2, <2>1 DEF Reconnect, Request
  <2>3. \A q \in waiting' : q \in waiting \/ q.id >= nextId
    BY <2>2, ReaderIs
  <2>4. CASE s = reader
    <3>1. s = current /\ Connected
      BY <2>4, ReaderIs DEF Connected, Sockets
    <3> QED BY <2>2, <2>3, <2>4, <3>1, SpeaksOnce, StayingPut DEF OnWire, Speaks
  <2>5. CASE s = current + 1
    <3>1. \A t \in Sockets : t # s => up'[t] = up[t]
      BY <2>2, <2>5, ReaderIs DEF SentUp
    <3>2. \A t \in Sockets : down'[t] = << >>
      <4>1. s # current /\ down' = [down EXCEPT ![current] = << >>]
        BY <2>2, <2>5, ReaderIs
      <4>2. \A t \in Sockets : t # current => t # reader
        BY ReaderIs DEF Connected, Sockets
      <4> QED BY <4>1, <4>2, ReaderIs
    <3> QED BY <2>2, <2>3, <2>5, <3>1, <3>2 DEF OnWire, Opening
  <2> QED BY <2>2, <2>4, <2>5
<1>3. ASSUME NEW u \in Uris, Subscribe(u) PROVE OnWire
  <2>1. PICK r : r = [Request("subscribe", {u}, {u} \ Known(view)) EXCEPT !.uri = u]
    OBVIOUS
  <2>2. /\ up' = SentUp(up, reader, r) /\ waiting' = waiting \cup {r} /\ r.id = nextId /\ Connected
        /\ UNCHANGED <<down, reader, current, detached>>
    BY <1>3, <2>1 DEF Subscribe, Ask, Request, linkState
  <2> QED BY <2>2, SpeaksOnce, AskWaits, StayingPut DEF OnWire, Speaks
<1>4. ASSUME NEW u \in Uris, Unsubscribe(u) PROVE OnWire
  <2>1. PICK f : f = [method |-> "unsubscribe", uri |-> u]
    OBVIOUS
  <2>2. /\ up' = IF Connected THEN SentUp(up, reader, f) ELSE up
        /\ UNCHANGED <<down, reader, current, detached, waiting>>
    BY <1>4, <2>1 DEF Unsubscribe, linkState, callState
  <2> QED BY <2>2, SpeaksOnce, StayingPut DEF OnWire, Speaks
<1>5. ASSUME NEW u \in Uris, Dispatch(u) PROVE OnWire
  <2>1. UNCHANGED <<down, reader, current, detached>>
    BY <1>5 DEF Dispatch, linkState
  <2>2. CASE Durable
    BY <1>5, <2>1, <2>2, StayingPut DEF OnWire, Dispatch, callState
  <2>3. CASE ~Durable
    <3>1. PICK r : r = DispatchRequest(nextId, u, nextSeq)
      OBVIOUS
    <3>2. up' = SentUp(up, reader, r) /\ waiting' = waiting \cup {r} /\ r.id = nextId
      BY <1>5, <2>3, <3>1 DEF Dispatch, Ask, DispatchRequest
    <3>3. \A s \in Sockets : s # reader => up'[s] = up[s]
      BY <3>2, ReaderIs DEF SentUp
    <3> QED BY <2>1, <3>2, <3>3, AskWaits, StayingPut DEF OnWire
  <2> QED BY <2>2, <2>3
<1>6. CASE Shutdown
  <2>1. UNCHANGED <<current, up, detached>>
    BY <1>6 DEF Shutdown
  <2>2. TearDown \/ UNCHANGED <<reader, down, waiting>>
    BY <1>6 DEF Shutdown
  <2> QED BY <2>1, <2>2, TearDownEnds, StayingPut DEF OnWire
<1>7. CASE ReceivePush
  <2>1. Incoming("action") /\ UNCHANGED <<reader, current, detached, up, waiting>>
    BY <1>7 DEF ReceivePush, linkState, callState
  <2> QED BY <2>1, IncomingStays DEF OnWire
<1>8. CASE ReceiveAnswer
  <2>1. /\ Incoming("answer") /\ UNCHANGED <<reader, current, detached, up>>
        /\ waiting' \subseteq waiting
    BY <1>8 DEF ReceiveAnswer
  <2> QED BY <2>1, IncomingStays DEF OnWire
<1>9. CASE ReceiveLate
  <2>1. /\ Incoming("answer") /\ UNCHANGED <<reader, current, detached, up, waiting>>
    BY <1>9 DEF ReceiveLate, clientVars, linkState, callState
  <2> QED BY <2>1, IncomingStays DEF OnWire
<1>10. CASE EndOfStream
  <2>1. /\ reader' = 0 /\ down' = [down EXCEPT ![reader] = << >>] /\ waiting' = {}
        /\ UNCHANGED <<up, current, detached>>
    BY <1>10 DEF EndOfStream, linkState
  <2>2. \A s \in Sockets : down'[s] = << >>
    BY <2>1, ReaderIs
  <2> QED BY <2>1, <2>2 DEF OnWire, Ending
<1>11. ASSUME NEW r \in waiting, Timeout(r) PROVE OnWire
  <2>1. waiting' = waiting \ {r} /\ UNCHANGED <<reader, down, current, detached, up>>
    BY <1>11 DEF Timeout, linkState
  <2> QED BY <2>1, StayingPut DEF OnWire
<1>12. ASSUME NEW ok \in BOOLEAN, SaveEnds(ok) PROVE OnWire
  BY <1>12, SaveOnWire
<1>13. CASE Restore
  <2>1. /\ reader' = 0 /\ down' = [s \in Sockets |-> << >>] /\ waiting' = {}
        /\ UNCHANGED <<up, current, detached>>
    BY <1>13 DEF Restore
  <2> QED BY <2>1 DEF OnWire, Ending
<1> QED BY <1>1, <1>2, <1>3, <1>4, <1>5, <1>6, <1>7, <1>8, <1>9, <1>10, <1>11, <1>12, <1>13
        DEF ClientSteps

\* A step is a turn of one side.
LEMMA NextIs ==
  ASSUME Next
  PROVE  (HubSteps /\ UNCHANGED clientVars) \/ (ClientSteps /\ UNCHANGED serverVars)
BY DEF Next, HubSteps, ClientSteps

\* Every step keeps the hub in order.
LEMMA StepOrdered ==
  ASSUME Types, HubOrder, [Next]_vars
  PROVE  HubOrder'
<1>1. Types'
  BY StepTyped
<1>2. CASE HubSteps /\ UNCHANGED clientVars
  BY <1>1, <1>2, HubStepsOrdered
<1>3. CASE ClientSteps /\ UNCHANGED serverVars
  BY <1>1, <1>3, ClientOnWire, OnWireOrdered
<1>4. CASE UNCHANGED vars
  <2>1. UNCHANGED <<up, down, reader, detached, serverVars, clientVars>>
    BY <1>4 DEF vars
  <2>2. OnWire
    BY <2>1, StayingPut DEF OnWire, clientVars, linkState, callState
  <2> QED BY <1>1, <2>1, <2>2, OnWireOrdered
<1> QED BY <1>2, <1>3, <1>4, NextIs

\* The hub starts in order.
LEMMA InitOrdered ==
  ASSUME Init
  PROVE  HubOrder
<1>1. /\ up = [s \in Sockets |-> << >>] /\ down = [s \in Sockets |-> << >>]
      /\ reader = 1 /\ detached = {} /\ log = << >> /\ ring = << >> /\ gone = {}
      /\ link = 0 /\ subs = {} /\ job = [s \in Sockets |-> Idle] /\ current = 1 /\ waiting = {}
  BY DEF Init, WireInit, ServerInit, ClientInit
<1>2. LinksOrdered
  BY <1>1 DEF LinksOrdered, Idle, Sockets
<1>3. LogKept /\ JobsGood /\ AnswersGood
  BY <1>1 DEF LogKept, JobsGood, JobGood, Idle, AnswersGood
<1> QED BY <1>2, <1>3 DEF HubOrder

-----------------------------------------------------------------------------
(* What is pending, and what has ended. *)

\* The dispatches pending on a channel.
Pend(v, u) == Range(v.mirrors[u].pending)

\* Whatever is pending in w was pending in v, on the same channel, and has not ended since.
Lasts(v, w) ==
  \A u \in Known(w) : \A n \in Pend(w, u) :
    u \in Known(v) /\ n \in Pend(v, u) /\ w.outcome[n] = v.outcome[n]

\* A dispatch is pending on one channel at most.
Lone(v) == \A t, u \in Known(v) : t # u => Pend(v, t) \cap Pend(v, u) = {}

\* Dispatch n is pending on no channel but u.
OnlyAt(v, n, u) == \A t \in Known(v) : t # u => n \notin Pend(v, t)

\* What is pending are numbers.
LEMMA PendTyped ==
  ASSUME NEW E, NEW v \in Plain(E), NEW u \in Known(v)
  PROVE  /\ v.mirrors[u] \in Mirrors(E) /\ v.mirrors[u].pending \in Seq(Numbers)
         /\ Pend(v, u) \subseteq Numbers /\ v.outcome \in [Numbers -> Outcome]
<1>1. v.mirrors[u] \in Mirrors(E) /\ v.outcome \in [Numbers -> Outcome]
  BY PlainParts
<1>2. v.mirrors[u].pending \in Seq(Numbers)
  BY <1>1 DEF Mirrors
<1> QED BY <1>1, <1>2 DEF Pend, Range

\* What lasts twice lasts ...
LEMMA LastsTwice ==
  ASSUME NEW v, NEW w, NEW x, Lasts(v, w), Lasts(w, x)
  PROVE  Lasts(v, x)
BY DEF Lasts

\* ... and stays where it is.
LEMMA LastsThere ==
  ASSUME NEW v, NEW w, Lasts(v, w)
  PROVE  /\ Lone(v) => Lone(w)
         /\ \A n, u : OnlyAt(v, n, u) => OnlyAt(w, n, u)
         /\ \A u \in Known(v) \cap Known(w) : Pend(w, u) \subseteq Pend(v, u)
<1>1. \A u \in Known(w) : \A n \in Pend(w, u) : u \in Known(v) /\ n \in Pend(v, u)
  BY DEF Lasts
<1>2. ASSUME Lone(v) PROVE Lone(w)
  BY <1>1, <1>2 DEF Lone
<1>3. ASSUME NEW n, NEW u, OnlyAt(v, n, u) PROVE OnlyAt(w, n, u)
  BY <1>1, <1>3 DEF OnlyAt
<1> QED BY <1>1, <1>2, <1>3

\* A view lasts that has the same pending actions, and no others ended.
LEMMA LastsAlike ==
  ASSUME NEW v, NEW w, w.outcome = v.outcome,
         \A u \in Known(w) :
           \/ w.mirrors[u].pending = << >>
           \/ u \in Known(v) /\ w.mirrors[u].pending = v.mirrors[u].pending
  PROVE  Lasts(v, w)
<1>1. \A u \in Known(w) : w.mirrors[u].pending = << >> => Pend(w, u) = {}
  BY DEF Pend, Range
<1> QED BY <1>1 DEF Lasts, Pend

\* One mirror is replaced by one with fewer pending actions.
LEMMA ShorterLasts ==
  ASSUME NEW E, NEW v \in Plain(E), NEW w \in Plain(E), Known(w) = Known(v),
         NEW u \in Known(v), Pend(w, u) \subseteq Pend(v, u),
         \A t \in Known(v) \ {u} : Pend(w, t) = Pend(v, t),
         \A n \in Numbers : w.outcome[n] # v.outcome[n] =>
           n \notin Pend(w, u) /\ OnlyAt(v, n, u)
  PROVE  Lasts(v, w)
<1>1. \A t \in Known(v) : Pend(w, t) \subseteq Numbers
  BY PendTyped
<1> QED BY <1>1 DEF Lasts, OnlyAt

\* The end of some dispatches is not that of others.
LEMMA SettleAllElse ==
  ASSUME NEW E, NEW v \in Plain(E), NEW ns, NEW outcome, NEW n \in Numbers \ ns
  PROVE  SettleAll(v, ns, outcome).outcome[n] = v.outcome[n]
<1>1. v = [mirrors |-> v.mirrors, seen |-> v.seen, outcome |-> v.outcome]
        /\ v.outcome \in [Numbers -> Outcome]
  BY PlainParts
<1> DEFINE o == [k \in Numbers |-> IF k \in ns /\ v.outcome[k] = "open" THEN outcome
                                   ELSE v.outcome[k]]
<1>2. SettleAll(v, ns, outcome) = [mirrors |-> v.mirrors, seen |-> v.seen, outcome |-> o]
  <2>1. SettleAll(v, ns, outcome) = [v EXCEPT !.outcome = o]
    BY <1>1 DEF SettleAll
  <2> HIDE DEF o
  <2> QED BY <1>1, <2>1
<1>3. o[n] = v.outcome[n]
  OBVIOUS
<1> HIDE DEF o
<1> QED BY <1>2, <1>3

\* The same for the end of one.
LEMMA SettleElse ==
  ASSUME NEW E, NEW v \in Plain(E), NEW m, NEW outcome, NEW n \in Numbers \ {m}
  PROVE  Settle(v, m, outcome).outcome[n] = v.outcome[n]
<1>1. v = [mirrors |-> v.mirrors, seen |-> v.seen, outcome |-> v.outcome]
        /\ v.outcome \in [Numbers -> Outcome]
  BY PlainParts
<1>2. [v EXCEPT !.outcome[m] = outcome].outcome[n] = v.outcome[n]
  BY <1>1
<1> QED BY <1>2 DEF Settle

-----------------------------------------------------------------------------
(* Operator by operator. *)

\* #restate ends nothing.
LEMMA RestateLasts ==
  ASSUME NEW E, NEW v \in Plain(E), NEW u \in Known(v)
  PROVE  Lasts(v, Restate(v, u)) /\ Restate(v, u) \in Plain(E)
           /\ Known(Restate(v, u)) = Known(v)
           /\ \A t \in Known(v) : Pend(Restate(v, u), t) = Pend(v, t)
<1> DEFINE w == Restate(v, u)
<1>1. /\ w \in Plain(E) /\ Same(v, w) /\ w.outcome = v.outcome
      /\ \A t \in Known(v) : w.mirrors[t].pending = v.mirrors[t].pending
  BY RestateSame
<1> HIDE DEF w
<1>2. Known(w) = Known(v)
  BY <1>1 DEF Same
<1>3. Lasts(v, w)
  BY <1>1, <1>2, LastsAlike
<1>4. \A t \in Known(v) : Pend(w, t) = Pend(v, t)
  BY <1>1 DEF Pend
<1> QED BY <1>1, <1>2, <1>3, <1>4 DEF w

\* What is given up is no longer pending.
LEMMA LoseLasts ==
  ASSUME NEW E, NEW v \in Plain(E), NEW u \in Known(v), Lone(v)
  PROVE  /\ Lasts(v, Lose(v, u)) /\ Lose(v, u) \in Plain(E) /\ Known(Lose(v, u)) = Known(v)
         /\ Pend(Lose(v, u), u) = {}
<1> DEFINE w == SettleAll(v, Pend(v, u), "lost")
           m == [v.mirrors[u] EXCEPT !.pending = << >>]
           x == [w EXCEPT !.mirrors[u] = m]
<1>1. "lost" \in Outcome \ {"open"} /\ \A n : Witnessed(E, n, "lost")
  BY DEF Witnessed, Outcome
<1>2. w \in Plain(E) /\ Same(v, w) /\ w.mirrors = v.mirrors
  BY <1>1, SettleAllSame
<1>3. \A n \in Numbers \ Pend(v, u) : w.outcome[n] = v.outcome[n]
  BY SettleAllElse
<1>4. u \in Known(w) /\ v.mirrors[u] \in Mirrors(E) /\ Known(w) = Known(v)
  BY <1>2, PlainParts DEF Same
<1>5. m.pending = << >>
  BY <1>4 DEF Mirrors
<1> HIDE DEF w
<1>6. Lose(v, u) = x
  BY <1>2 DEF Lose, w, Pend
<1>7. Lose(v, u) \in Plain(E) /\ Same(v, Lose(v, u))
  BY LoseSame
<1> HIDE DEF m
<1>8. /\ Known(x) = Known(w) /\ x.outcome = w.outcome /\ x.mirrors[u] = m
      /\ \A t \in Known(w) \ {u} : x.mirrors[t] = w.mirrors[t]
  BY <1>2, <1>4, MirrorFrame DEF Plain
<1> HIDE DEF x
<1>9. Pend(x, u) = {} /\ \A t \in Known(v) \ {u} : Pend(x, t) = Pend(v, t)
  BY <1>2, <1>4, <1>5, <1>8 DEF Pend, Range
<1>10. \A n \in Pend(v, u) : OnlyAt(v, n, u)
  BY DEF Lone, OnlyAt
<1>11. Lasts(v, x)
  <2>1. \A n \in Numbers : x.outcome[n] # v.outcome[n] => n \in Pend(v, u)
    BY <1>3, <1>8
  <2>2. x \in Plain(E) /\ Known(x) = Known(v)
    BY <1>4, <1>6, <1>7, <1>8
  <2> QED BY <1>9, <1>10, <2>1, <2>2, ShorterLasts
<1> QED BY <1>4, <1>6, <1>7, <1>8, <1>9, <1>11

\* #forget ends what was pending on the channel it forgets.
LEMMA ForgetLasts ==
  ASSUME NEW E, NEW v \in Plain(E), NEW u, Lone(v)
  PROVE  Lasts(v, Forget(v, u)) /\ Forget(v, u) \in Plain(E)
<1>1. Forget(v, u) \in Plain(E) /\ Fewer(v, Forget(v, u), {u})
  BY ForgetFewer
<1>2. CASE u \notin Known(v)
  <2>1. Lasts(v, v)
    BY LastsAlike
  <2> QED BY <1>1, <1>2, <2>1 DEF Forget
<1>3. CASE u \in Known(v)
  <2> DEFINE w == Lose(v, u)
             D == Known(v) \ {u}
             ms == Restrict(w.mirrors, D)
  <2>1. w \in Plain(E) /\ Lasts(v, w) /\ Known(w) = Known(v)
    BY <1>3, LoseLasts
  <2> HIDE DEF w
  <2>2. w = [mirrors |-> w.mirrors, seen |-> w.seen, outcome |-> w.outcome]
    BY <2>1, PlainParts
  <2>3. Forget(v, u) = [mirrors |-> ms, seen |-> w.seen, outcome |-> w.outcome]
    <3>1. Forget(v, u) = [w EXCEPT !.mirrors = Restrict(w.mirrors, Known(v) \ {u})]
      BY <1>3 DEF Forget, w
    <3> HIDE DEF ms
    <3> QED BY <2>2, <3>1 DEF ms
  <2>4. DOMAIN ms = D /\ \A t \in D : ms[t] = w.mirrors[t]
    BY <2>1 DEF Restrict
  <2> HIDE DEF ms
  <2> DEFINE x == [mirrors |-> ms, seen |-> w.seen, outcome |-> w.outcome]
  <2>5. Known(x) = D /\ x.outcome = w.outcome /\ x.mirrors = ms
    BY <2>4 DEF Known
  <2>6. x = Forget(v, u)
    BY <2>3
  <2> HIDE DEF x, D
  <2>7. Lasts(w, x)
    <3>1. D \subseteq Known(w)
      BY <2>1 DEF D
    <3> QED BY <2>4, <2>5, <3>1, LastsAlike
  <2> QED BY <1>1, <2>1, <2>6, <2>7, LastsTwice
<1> QED BY <1>2, <1>3

\* The client's own envelope ends its dispatch and those before it, and takes them off.
LEMMA EchoLasts ==
  ASSUME NEW E \in SUBSET Envelopes, NEW v \in Plain(E), NEW e \in E, e.uri \in Known(v), Lone(v)
  PROVE  Lasts(v, Echo(v, e)) /\ Echo(v, e) \in Plain(E) /\ Known(Echo(v, e)) = Known(v)
<1> DEFINE u == e.uri
           p == v.mirrors[u].pending
           earlier == {n \in Range(p) : n < e.n}
           w1 == SettleAll(v, earlier, "lost")
           w == SettleAll(w1, Range(p) \cap {e.n}, OutcomeOf(e))
           I == {i \in DOMAIN p : p[i] > e.n}
           m == [v.mirrors[u] EXCEPT !.pending = Selected(p, I)]
           x == [w EXCEPT !.mirrors[u] = m]
<1>1. Echo(v, e) \in Plain(E) /\ Same(v, Echo(v, e))
  BY EchoSame
<1>2. w1 \in Plain(E) /\ Same(v, w1) /\ w1.mirrors = v.mirrors
  <2>1. \A n : Witnessed(E, n, "lost")
    BY DEF Witnessed
  <2>2. "lost" \in Outcome \ {"open"}
    BY DEF Outcome
  <2> QED BY <2>1, <2>2, SettleAllSame
<1>3. \A n \in Numbers \ earlier : w1.outcome[n] = v.outcome[n]
  BY SettleAllElse
<1> HIDE DEF w1
<1>4. w \in Plain(E) /\ Same(w1, w) /\ w.mirrors = w1.mirrors
  <2>1. OutcomeOf(e) \in Outcome \ {"open"} /\ e.accepted = (OutcomeOf(e) = "confirmed")
    BY DEF Outcome, OutcomeOf, Envelopes
  <2>2. Witnessed(E, e.n, OutcomeOf(e))
    BY <2>1 DEF Witnessed
  <2> DEFINE ns == Range(p) \cap {e.n}
  <2>3. \A n \in ns \cap Numbers : Witnessed(E, n, OutcomeOf(e))
    BY <2>2
  <2> HIDE DEF ns
  <2>4. LET y == SettleAll(w1, ns, OutcomeOf(e))
        IN  y \in Plain(E) /\ Same(w1, y) /\ y.mirrors = w1.mirrors
    BY <1>2, <2>1, <2>3, SettleAllSame
  <2> QED BY <2>4 DEF ns
<1>5. \A n \in Numbers \ (Range(p) \cap {e.n}) : w.outcome[n] = w1.outcome[n]
  BY <1>2, SettleAllElse
<1>6. v.mirrors[u] \in Mirrors(E) /\ p \in Seq(Numbers) /\ Pend(v, u) = Range(p)
      /\ Range(p) \subseteq Numbers
  BY PendTyped DEF Pend
<1>7. /\ Selected(p, I) \in Seq(Numbers)
      /\ \A n \in Range(Selected(p, I)) : n \in Range(p) /\ n > e.n
  <2>1. p \in Seq(Numbers) /\ I \in SUBSET (DOMAIN p)
    BY <1>6
  <2> DEFINE q == Selected(p, I)
  <2>2. q \in Seq(Numbers) /\ \A k \in DOMAIN q : \E i \in I : q[k] = p[i]
    <3> HIDE DEF p, I
    <3> QED BY <2>1, SelectedTyped
  <2> HIDE DEF q
  <2> QED BY <2>2 DEF Range, q
<1>8. Echo(v, e) = x
  BY <1>2, <1>4 DEF Echo, w, w1
<1>9. m.pending = Selected(p, I)
  BY <1>6 DEF Mirrors
<1> HIDE DEF m, I
<1> HIDE DEF w
<1>10. u \in Known(w) /\ Known(w) = Known(v) /\ w.mirrors = v.mirrors
  BY <1>2, <1>4 DEF Same
<1>11. /\ Known(x) = Known(w) /\ x.outcome = w.outcome /\ x.mirrors[u] = m
       /\ \A t \in Known(w) \ {u} : x.mirrors[t] = w.mirrors[t]
  <2> HIDE DEF u, p, earlier
  <2>1. w \in Views(E, Numbers, {}, Uris) /\ u \in Known(w)
    BY <1>4, <1>10 DEF Plain
  <2> QED BY <2>1, MirrorFrame
<1> HIDE DEF x
<1>12. \A n \in Pend(x, u) : n \in Range(p) /\ n > e.n
  BY <1>7, <1>9, <1>11 DEF Pend
<1>13. \A t \in Known(v) \ {u} : Pend(x, t) = Pend(v, t)
  BY <1>10, <1>11 DEF Pend
<1>14. e.n \in Nat
  BY DEF Envelopes
<1>15. ASSUME NEW n \in Numbers, x.outcome[n] # v.outcome[n]
       PROVE  n \notin Pend(x, u) /\ OnlyAt(v, n, u)
  <2>1. n \in earlier \/ n \in Range(p) \cap {e.n}
    BY <1>3, <1>5, <1>11, <1>15
  <2>2. n \in Range(p) /\ n <= e.n
    BY <1>14, <2>1 DEF Numbers
  <2>3. n \notin Pend(x, u)
    BY <1>12, <1>14, <2>2 DEF Numbers
  <2> QED BY <1>6, <2>2, <2>3 DEF Lone, OnlyAt
<1>16. Lasts(v, x)
  <2>1. x \in Plain(E) /\ Known(x) = Known(v) /\ u \in Known(v)
    BY <1>1, <1>8, <1>10, <1>11
  <2>2. Pend(x, u) \subseteq Pend(v, u)
    BY <1>6, <1>12
  <2> HIDE DEF u
  <2> QED BY <1>13, <1>15, <2>1, <2>2, ShorterLasts
<1> QED BY <1>1, <1>8, <1>10, <1>11, <1>16

\* The views in which whatever is pending was pending in v0, and has not ended since.
Heirs(E, v0) == {w \in Plain(E) : Lasts(v0, w)}

\* A view is an heir of itself, and what lasts from an heir is another.
LEMMA HeirsGoOn ==
  ASSUME NEW E, NEW v0 \in Plain(E), Lone(v0)
  PROVE  /\ v0 \in Heirs(E, v0)
         /\ \A w \in Heirs(E, v0) : Lone(w) /\ w \in Plain(E)
         /\ \A w \in Heirs(E, v0), x \in Plain(E) : Lasts(w, x) => x \in Heirs(E, v0)
<1>1. Lasts(v0, v0)
  BY LastsAlike
<1>2. \A w \in Heirs(E, v0) : Lone(w) /\ w \in Plain(E)
  BY LastsThere DEF Heirs
<1>3. \A w \in Heirs(E, v0), x \in Plain(E) : Lasts(w, x) => x \in Heirs(E, v0)
  BY LastsTwice DEF Heirs
<1> QED BY <1>1, <1>2, <1>3 DEF Heirs

\* A mirror is replaced by one with the same pending actions, or with none.
LEMMA WithLasts ==
  ASSUME NEW E, NEW v \in Plain(E), NEW u \in Known(v), NEW m \in Mirrors(E),
         m.buffered \in Seq(For(E, u)), m.pending = v.mirrors[u].pending
  PROVE  /\ [v EXCEPT !.mirrors[u] = m] \in Plain(E)
         /\ Lasts(v, [v EXCEPT !.mirrors[u] = m])
         /\ Known([v EXCEPT !.mirrors[u] = m]) = Known(v)
<1> DEFINE w == [v EXCEPT !.mirrors[u] = m]
<1>1. /\ w \in Plain(E) /\ Known(w) = Known(v) /\ w.outcome = v.outcome
      /\ w.mirrors[u] = m /\ \A t \in Known(v) \ {u} : w.mirrors[t] = v.mirrors[t]
  BY PlainChanged
<1> HIDE DEF w
<1>2. \A t \in Known(w) : t \in Known(v) /\ w.mirrors[t].pending = v.mirrors[t].pending
  BY <1>1
<1>3. Lasts(v, w)
  BY <1>1, <1>2, LastsAlike
<1> QED BY <1>1, <1>3 DEF w

\* #see ends nothing.
LEMMA SeeLasts ==
  ASSUME NEW E, NEW v \in Plain(E), NEW n \in Nat
  PROVE  See(v, n) \in Plain(E) /\ Lasts(v, See(v, n)) /\ Known(See(v, n)) = Known(v)
<1> DEFINE w == See(v, n)
<1>1. v \in Views(E, Numbers, {}, Uris)
  BY DEF Plain
<1>2. w \in Plain(E) /\ w.mirrors = v.mirrors /\ Known(w) = Known(v)
  BY <1>1, SeeGood DEF Plain
<1>3. w.outcome = v.outcome
  <2>1. v = [mirrors |-> v.mirrors, seen |-> v.seen, outcome |-> v.outcome]
    BY PlainParts
  <2> QED BY <2>1 DEF See
<1> HIDE DEF w
<1>4. Lasts(v, w)
  BY <1>2, <1>3, LastsAlike
<1> QED BY <1>2, <1>4 DEF w

\* Nor does an envelope that is applied.
LEMMA AdvanceLasts ==
  ASSUME NEW E \in SUBSET Envelopes, NEW v \in Plain(E), NEW e \in E, e.uri \in Known(v)
  PROVE  Advance(v, e) \in Plain(E) /\ Lasts(v, Advance(v, e))
           /\ Known(Advance(v, e)) = Known(v)
<1> DEFINE u == e.uri
           w == See(v, e.seq)
           m == [v.mirrors[u] EXCEPT !.applied = e.seq,
                   !.confirmed = IF e.accepted THEN Append(v.mirrors[u].confirmed, Tag(e))
                                 ELSE v.mirrors[u].confirmed]
<1>1. e.seq \in Nat /\ e.n \in Nat
  BY ClientAssumption DEF Envelopes
<1>2. w \in Plain(E) /\ Lasts(v, w) /\ Known(w) = Known(v) /\ w.mirrors = v.mirrors
  <2>1. w.mirrors = v.mirrors
    <3>1. v = [mirrors |-> v.mirrors, seen |-> v.seen, outcome |-> v.outcome]
      BY PlainParts
    <3> QED BY <3>1 DEF See
  <2> DEFINE n == e.seq
  <2>2. n \in Nat
    BY <1>1
  <2> HIDE DEF n
  <2>3. See(v, n) \in Plain(E) /\ Lasts(v, See(v, n)) /\ Known(See(v, n)) = Known(v)
    BY <2>2, SeeLasts
  <2> QED BY <2>1, <2>3 DEF n
<1>3. v.mirrors[u] \in Mirrors(E) /\ v.mirrors[u].buffered \in Seq(For(E, u))
  BY PlainParts
<1>4. m \in Mirrors(E) /\ m.buffered \in Seq(For(E, u)) /\ m.pending = v.mirrors[u].pending
  <2>1. Tag(e) \in Int
    BY <1>1 DEF Tag
  <2>2. Append(v.mirrors[u].confirmed, Tag(e)) \in Seq(Int)
    BY <1>3, <2>1 DEF Mirrors
  <2> QED BY <1>1, <1>3, <2>2 DEF Mirrors
<1>5. Advance(v, e) = [w EXCEPT !.mirrors[u] = m]
  <2>1. Advance(v, e) = [w EXCEPT !.mirrors[u].applied = e.seq,
           !.mirrors[u].confirmed = IF e.accepted THEN Append(@, Tag(e)) ELSE @]
    BY DEF Advance
  <2>2. u \in DOMAIN w.mirrors /\ w = [mirrors |-> w.mirrors, seen |-> w.seen, outcome |-> w.outcome]
    BY <1>2, PlainParts DEF Known
  <2> HIDE DEF w
  <2> HIDE DEF u
  <2> QED BY <1>2, <1>3, <2>1, <2>2 DEF Mirrors
<1> HIDE DEF w, m, u
<1>6. u \in Known(w) /\ m.pending = w.mirrors[u].pending
  BY <1>2, <1>4 DEF u
<1> DEFINE x == [w EXCEPT !.mirrors[u] = m]
<1>7. x \in Plain(E) /\ Lasts(w, x) /\ Known(x) = Known(w)
  BY <1>2, <1>4, <1>6, WithLasts
<1> HIDE DEF x
<1>8. Lasts(v, x)
  BY <1>2, <1>7, LastsTwice
<1> QED BY <1>2, <1>5, <1>7, <1>8 DEF x

\* #reconcile ends what it takes off.
LEMMA ReconcileLasts ==
  ASSUME NEW E \in SUBSET Envelopes, NEW v \in Plain(E), NEW e \in E, e.uri \in Known(v), Lone(v)
  PROVE  Reconcile(v, e) \in Plain(E) /\ Lasts(v, Reconcile(v, e))
           /\ Known(Reconcile(v, e)) = Known(v)
<1> DEFINE w == IF e.n > 0 THEN Echo(v, e) ELSE v
           x == IF e.seq <= w.mirrors[e.uri].applied THEN w ELSE Advance(w, e)
<1>1. w \in Plain(E) /\ Lasts(v, w) /\ Known(w) = Known(v)
  <2>1. Lasts(v, v)
    BY LastsAlike
  <2> QED BY <2>1, EchoLasts
<1> HIDE DEF w
<1>2. x \in Plain(E) /\ Lasts(w, x) /\ Known(x) = Known(w)
  <2>1. Lasts(w, w)
    BY LastsAlike
  <2>2. Advance(w, e) \in Plain(E) /\ Lasts(w, Advance(w, e)) /\ Known(Advance(w, e)) = Known(w)
    BY <1>1, AdvanceLasts
  <2> QED BY <1>1, <2>1, <2>2
<1> HIDE DEF x
<1> DEFINE y == Restate(x, e.uri)
<1>3. y \in Plain(E) /\ Lasts(x, y) /\ Known(y) = Known(x)
  BY <1>1, <1>2, RestateLasts
<1> HIDE DEF y
<1>4. Lasts(v, y)
  BY <1>1, <1>2, <1>3, LastsTwice
<1>5. Reconcile(v, e) = y
  BY DEF Reconcile, w, x, y
<1> QED BY <1>1, <1>2, <1>3, <1>4, <1>5

\* #inbound.
LEMMA InboundLasts ==
  ASSUME NEW E \in SUBSET Envelopes, NEW v \in Plain(E), NEW e \in E, Lone(v)
  PROVE  Inbound(v, e) \in Plain(E) /\ Lasts(v, Inbound(v, e))
<1>1. CASE e.uri \notin Known(v)
  BY <1>1, LastsAlike DEF Inbound
<1>2. CASE e.uri \in Known(v) /\ v.mirrors[e.uri].primed
  BY <1>2, ReconcileLasts DEF Inbound
<1>3. CASE e.uri \in Known(v) /\ ~v.mirrors[e.uri].primed
  <2> DEFINE u == e.uri
             m == [v.mirrors[u] EXCEPT !.buffered = Append(v.mirrors[u].buffered, e)]
  <2>1. v.mirrors[u] \in Mirrors(E) /\ v.mirrors[u].buffered \in Seq(For(E, u))
    BY <1>3, PlainParts
  <2>2. e \in For(E, u)
    BY DEF For
  <2>3. m \in Mirrors(E) /\ m.buffered \in Seq(For(E, u)) /\ m.pending = v.mirrors[u].pending
    <3>1. Append(v.mirrors[u].buffered, e) \in Seq(For(E, u))
      BY <2>1, <2>2, AppendTyped
    <3>2. Append(v.mirrors[u].buffered, e) \in Seq(E)
      <4>1. v.mirrors[u].buffered \in Seq(E)
        BY <2>1 DEF Mirrors
      <4> QED BY <4>1, AppendTyped
    <3> QED BY <2>1, <3>1, <3>2 DEF Mirrors
  <2>4. Inbound(v, e) = [v EXCEPT !.mirrors[u] = m]
    <3>1. Inbound(v, e) = [v EXCEPT !.mirrors[u].buffered = Append(@, e)]
      BY <1>3 DEF Inbound
    <3> QED BY <3>1
  <2> HIDE DEF m, u
  <2>5. u \in Known(v)
    BY <1>3 DEF u
  <2>6. [v EXCEPT !.mirrors[u] = m] \in Plain(E) /\ Lasts(v, [v EXCEPT !.mirrors[u] = m])
    BY <2>3, <2>5, WithLasts
  <2> QED BY <2>4, <2>6
<1> QED BY <1>1, <1>2, <1>3

\* Several envelopes, one after the other.
LEMMA InboundAllLasts ==
  ASSUME NEW E \in SUBSET Envelopes, NEW v \in Plain(E), NEW s \in Seq(E), Lone(v)
  PROVE  InboundAll(v, s) \in Plain(E) /\ Lasts(v, InboundAll(v, s))
<1> DEFINE G == Heirs(E, v)
<1>1. v \in G /\ \A e \in E, w \in G : Inbound(w, e) \in G
  BY HeirsGoOn, InboundLasts
<1> HIDE DEF G
<1>2. PICK h \in [0..Len(s) -> G] : h[Len(s)] = InboundAll(v, s)
  BY <1>1, InboundAllSteps
<1>3. Len(s) \in 0..Len(s)
  OBVIOUS
<1>4. InboundAll(v, s) \in G
  BY <1>2, <1>3
<1> QED BY <1>4 DEF G, Heirs

\* #drain.
LEMMA DrainLasts ==
  ASSUME NEW E \in SUBSET Envelopes, NEW v \in Plain(E), NEW u \in Known(v), Lone(v)
  PROVE  Drain(v, u) \in Plain(E) /\ Lasts(v, Drain(v, u)) /\ Known(v) \subseteq Known(Drain(v, u))
<1> DEFINE B == For(E, u)
           s == v.mirrors[u].buffered
           m == [v.mirrors[u] EXCEPT !.buffered = << >>]
           w == [v EXCEPT !.mirrors[u] = m]
           G == {x \in Heirs(E, w) : Known(v) \subseteq Known(x)}
<1>1. v.mirrors[u] \in Mirrors(E) /\ s \in Seq(B)
  BY PlainParts
<1>2. m \in Mirrors(E) /\ m.buffered \in Seq(For(E, u)) /\ m.pending = v.mirrors[u].pending
  <2>1. << >> \in Seq(E) /\ << >> \in Seq(For(E, u))
    OBVIOUS
  <2> QED BY <1>1, <2>1 DEF Mirrors
<1>3. w \in Plain(E) /\ Lasts(v, w) /\ Known(w) = Known(v)
  <2> HIDE DEF m
  <2> QED BY <1>2, WithLasts
<1>4. Drain(v, u) = ReconcileAll(w, s)
  BY DEF Drain, ReconcileAll
<1> HIDE DEF w, s
<1>5. Lone(w)
  BY <1>3, LastsThere
<1>6. w \in G
  BY <1>3, <1>5, HeirsGoOn
<1>7. ASSUME NEW e \in B, NEW x \in G
      PROVE  Reconcile(x, e) \in G
  <2>1. e \in E /\ e.uri = u
    BY DEF For
  <2>2. x \in Heirs(E, w) /\ x \in Plain(E) /\ Lone(x) /\ Known(v) \subseteq Known(x)
    BY <1>3, <1>5, HeirsGoOn
  <2>3. Reconcile(x, e) \in Plain(E) /\ Lasts(x, Reconcile(x, e))
          /\ Known(Reconcile(x, e)) = Known(x)
    BY <2>1, <2>2, ReconcileLasts
  <2> QED BY <1>3, <1>5, <2>2, <2>3, HeirsGoOn
<1> HIDE DEF G, B
<1>8. PICK h \in [0..Len(s) -> G] : h[Len(s)] = ReconcileAll(w, s)
  BY <1>1, <1>6, <1>7, DrainSteps
<1>9. Len(s) \in 0..Len(s)
  BY <1>1
<1> DEFINE x == ReconcileAll(w, s)
<1>10. x \in G
  BY <1>8, <1>9
<1> HIDE DEF x
<1>11. x \in Plain(E) /\ Lasts(w, x) /\ Known(v) \subseteq Known(x)
  BY <1>10 DEF G, Heirs
<1>12. Lasts(v, x)
  BY <1>3, <1>11, LastsTwice
<1> QED BY <1>4, <1>11, <1>12 DEF x

\* Nothing is pending on channel u.
Void(v, u) == u \in Known(v) => Pend(v, u) = {}

\* A channel on which nothing is pending keeps none as actions last.
LEMMA VoidLasts ==
  ASSUME NEW v, NEW w, Lasts(v, w), NEW u, Void(v, u)
  PROVE  Void(w, u)
BY DEF Lasts, Void

\* Where nothing is pending, whatever ends is none of the pending.
LEMMA VoidEndsNone ==
  ASSUME NEW v, NEW w, \A u \in Known(w) : Void(w, u)
  PROVE  Lasts(v, w)
BY DEF Lasts, Void

\* #applySnapshot.
LEMMA ApplySnapshotLasts ==
  ASSUME NEW E \in SUBSET Envelopes, NEW v \in Plain(E), NEW s \in Snapshots, Lone(v)
  PROVE  ApplySnapshot(v, s) \in Plain(E) /\ Lasts(v, ApplySnapshot(v, s))
           /\ Known(v) \subseteq Known(ApplySnapshot(v, s))
<1>1. CASE s.uri \notin Known(v)
  BY <1>1, LastsAlike DEF ApplySnapshot
<1>2. CASE s.uri \in Known(v)
  <2> DEFINE u == s.uri
             n == s.fromSeq
             m == [v.mirrors[u] EXCEPT !.confirmed = s.state, !.applied = s.fromSeq,
                                       !.primed = TRUE]
             w == [v EXCEPT !.mirrors[u] = m]
             x == See(w, n)
             y == Drain(x, u)
             z == Restate(y, u)
  <2>1. v.mirrors[u] \in Mirrors(E) /\ v.mirrors[u].buffered \in Seq(For(E, u))
    BY <1>2, PlainParts
  <2>2. m \in Mirrors(E) /\ m.buffered \in Seq(For(E, u)) /\ n \in Nat
          /\ m.pending = v.mirrors[u].pending
    BY <2>1 DEF Mirrors, Snapshots
  <2>3. ApplySnapshot(v, s) = z
    BY <1>2 DEF ApplySnapshot
  <2> HIDE DEF m
  <2>4. w \in Plain(E) /\ Lasts(v, w) /\ Known(w) = Known(v)
    BY <1>2, <2>2, WithLasts
  <2> HIDE DEF w, n
  <2>5. x \in Plain(E) /\ Lasts(w, x) /\ Known(x) = Known(w)
    BY <2>2, <2>4, SeeLasts
  <2> HIDE DEF x
  <2>6. Lone(w) /\ Lone(x)
    BY <2>4, <2>5, LastsThere
  <2>7. u \in Known(x)
    BY <1>2, <2>4, <2>5
  <2> HIDE DEF u
  <2>8. y \in Plain(E) /\ Lasts(x, y) /\ Known(x) \subseteq Known(y)
    BY <2>5, <2>6, <2>7, DrainLasts
  <2> HIDE DEF y
  <2>9. z \in Plain(E) /\ Lasts(y, z) /\ Known(z) = Known(y)
    BY <2>7, <2>8, RestateLasts
  <2> HIDE DEF z
  <2>10. Lasts(v, x)
    BY <2>4, <2>5, LastsTwice
  <2>11. Lasts(v, y)
    BY <2>8, <2>10, LastsTwice
  <2>12. Lasts(v, z)
    BY <2>9, <2>11, LastsTwice
  <2> QED BY <2>3, <2>4, <2>5, <2>8, <2>9, <2>12
<1> QED BY <1>1, <1>2

\* #primeWithoutSnapshot.
LEMMA PrimeLasts ==
  ASSUME NEW E \in SUBSET Envelopes, NEW v \in Plain(E), NEW u, Lone(v)
  PROVE  PrimeWithoutSnapshot(v, u) \in Plain(E) /\ Lasts(v, PrimeWithoutSnapshot(v, u))
<1>1. CASE u \notin Known(v) \/ v.mirrors[u].primed
  BY <1>1, LastsAlike DEF PrimeWithoutSnapshot
<1>2. CASE u \in Known(v) /\ ~v.mirrors[u].primed
  <2> DEFINE m == [v.mirrors[u] EXCEPT !.primed = TRUE]
             w == [v EXCEPT !.mirrors[u] = m]
             y == Drain(w, u)
             z == Restate(y, u)
  <2>1. v.mirrors[u] \in Mirrors(E) /\ v.mirrors[u].buffered \in Seq(For(E, u))
    BY <1>2, PlainParts
  <2>2. m \in Mirrors(E) /\ m.buffered \in Seq(For(E, u)) /\ m.pending = v.mirrors[u].pending
    BY <2>1 DEF Mirrors
  <2>3. PrimeWithoutSnapshot(v, u) = z
    <3>1. PrimeWithoutSnapshot(v, u) = Restate(Drain([v EXCEPT !.mirrors[u].primed = TRUE], u), u)
      BY <1>2 DEF PrimeWithoutSnapshot
    <3> QED BY <3>1
  <2> HIDE DEF m
  <2>4. w \in Plain(E) /\ Lasts(v, w) /\ Known(w) = Known(v)
    BY <1>2, <2>2, WithLasts
  <2> HIDE DEF w
  <2>5. Lone(w)
    BY <2>4, LastsThere
  <2>6. y \in Plain(E) /\ Lasts(w, y) /\ Known(w) \subseteq Known(y)
    BY <1>2, <2>4, <2>5, DrainLasts
  <2> HIDE DEF y
  <2>7. z \in Plain(E) /\ Lasts(y, z)
    BY <1>2, <2>4, <2>6, RestateLasts
  <2> HIDE DEF z
  <2>8. Lasts(v, y)
    BY <2>4, <2>6, LastsTwice
  <2>9. Lasts(v, z)
    BY <2>7, <2>8, LastsTwice
  <2> QED BY <2>3, <2>7, <2>9
<1> QED BY <1>1, <1>2

\* Several channels, one after the other.
LEMMA ApplyAllLasts ==
  ASSUME NEW E \in SUBSET Envelopes, NEW v \in Plain(E), NEW ss \in SUBSET Snapshots,
         IsFiniteSet(ss), NEW us, IsFiniteSet(us), Lone(v)
  PROVE  ApplyAll(v, ss, us) \in Plain(E) /\ Lasts(v, ApplyAll(v, ss, us))
<1> DEFINE G == Heirs(E, v)
<1>1. v \in G /\ \A s \in ss, w \in G : ApplySnapshot(w, s) \in G
  BY HeirsGoOn, ApplySnapshotLasts
<1>2. \A u \in us, w \in G : PrimeWithoutSnapshot(w, u) \in G
  BY HeirsGoOn, PrimeLasts
<1> HIDE DEF G
<1>3. ApplySnapshots(v, ss) \in G
  BY <1>1, ApplySnapshotsStay
<1>4. PrimeAll(ApplySnapshots(v, ss), us) \in G
  BY <1>2, <1>3, PrimeAllStays
<1>5. ApplyAll(v, ss, us) = PrimeAll(ApplySnapshots(v, ss), us)
  BY DEF ApplyAll, PrimeAll, ApplySnapshots
<1> QED BY <1>4, <1>5 DEF G, Heirs

\* Priming adds no pending action, for any set of mirrors.
LEMMA PrimeAllLasts ==
  ASSUME NEW E \in SUBSET Envelopes, NEW v \in Plain(E), NEW us, IsFiniteSet(us), Lone(v)
  PROVE  PrimeAll(v, us) \in Plain(E) /\ Lasts(v, PrimeAll(v, us))
<1> DEFINE G == Heirs(E, v)
<1>1. v \in G /\ \A u \in us, w \in G : PrimeWithoutSnapshot(w, u) \in G
  BY HeirsGoOn, PrimeLasts
<1> HIDE DEF G
<1>2. PrimeAll(v, us) \in G
  BY <1>1, PrimeAllStays
<1> QED BY <1>2 DEF G, Heirs

\* Forgetting the fate of calls adds no pending action, for any set of mirrors.
LEMMA ForgetAllLasts ==
  ASSUME NEW E, NEW v \in Plain(E), NEW us, IsFiniteSet(us), Lone(v)
  PROVE  ForgetAll(v, us) \in Plain(E) /\ Lasts(v, ForgetAll(v, us))
<1> DEFINE G == Heirs(E, v)
<1>1. v \in G /\ \A u \in us, w \in G : Forget(w, u) \in G
  BY HeirsGoOn, ForgetLasts
<1> HIDE DEF G
<1>2. ForgetAll(v, us) \in G
  BY <1>1, ForgetAllStays
<1> QED BY <1>2 DEF G, Heirs

\* The snapshots of a reconnect: the channels they are of give up what is pending.
LEMMA RestateAllVoids ==
  ASSUME NEW E \in SUBSET Envelopes, NEW v \in Plain(E), NEW ss \in SUBSET Snapshots,
         IsFiniteSet(ss), Lone(v)
  PROVE  /\ RestateAll(v, ss) \in Plain(E) /\ Lasts(v, RestateAll(v, ss))
         /\ \A t \in ss : Void(RestateAll(v, ss), t.uri)
<1> DEFINE G == Heirs(E, v)
           A == [T \in SUBSET ss |-> {w \in G : \A t \in T : Void(w, t.uri)}]
<1>1. ASSUME NEW s \in ss, NEW w \in G
      PROVE  RestatedBy(w, s) \in G /\ Void(RestatedBy(w, s), s.uri)
               /\ \A u : Void(w, u) => Void(RestatedBy(w, s), u)
  <2>1. Lone(w) /\ w \in Plain(E)
    BY HeirsGoOn
  <2>2. CASE s.uri \notin Known(w)
    BY <2>2 DEF RestatedBy, Void
  <2>3. CASE s.uri \in Known(w)
    <3> DEFINE u == s.uri
               x == Lose(w, u)
               y == ApplySnapshot(x, s)
    <3>1. x \in Plain(E) /\ Lasts(w, x) /\ Pend(x, u) = {}
      BY <2>1, <2>3, LoseLasts
    <3>2. RestatedBy(w, s) = y
      BY <2>3 DEF RestatedBy
    <3> HIDE DEF x
    <3>3. Lone(x)
      BY <2>1, <3>1, LastsThere
    <3>4. y \in Plain(E) /\ Lasts(x, y)
      BY <3>1, <3>3, ApplySnapshotLasts
    <3> HIDE DEF y
    <3>5. Lasts(w, y)
      BY <3>1, <3>4, LastsTwice
    <3>6. Void(x, u)
      BY <3>1 DEF Void
    <3>7. y \in G
      BY <3>4, <3>5, HeirsGoOn
    <3> QED BY <3>2, <3>4, <3>5, <3>6, <3>7, VoidLasts
  <2> QED BY <2>2, <2>3
<1>2. v \in G
  BY HeirsGoOn
<1> HIDE DEF G
<1>3. RestateAllAlong(A, G, v, ss)
  <2>1. v \in A[{}]
    BY <1>2
  <2>2. ASSUME NEW T \in SUBSET ss, NEW s \in T, NEW w \in G, w \in A[T \ {s}]
        PROVE  RestatedBy(w, s) \in A[T]
    <3>1. s \in ss /\ T \ {s} \in SUBSET ss
      OBVIOUS
    <3>2. \A t \in T \ {s} : Void(w, t.uri)
      BY <2>2, <3>1
    <3>3. \A t \in T : Void(RestatedBy(w, s), t.uri)
      BY <1>1, <3>1, <3>2
    <3> QED BY <1>1, <3>1, <3>3
  <2> QED BY <2>1, <2>2 DEF RestateAllAlong
<1> HIDE DEF A
<1>4. RestateAll(v, ss) \in G /\ RestateAll(v, ss) \in A[ss]
  <2>1. \A s \in ss, w \in G : RestatedBy(w, s) \in G
    BY <1>1
  <2> QED BY <1>2, <1>3, <2>1, RestateAllReach
<1>5. \A t \in ss : Void(RestateAll(v, ss), t.uri)
  <2> DEFINE x == RestateAll(v, ss)
  <2>1. x \in A[ss]
    BY <1>4
  <2> HIDE DEF x
  <2> QED BY <2>1 DEF A, x
<1> QED BY <1>4, <1>5 DEF G, Heirs

\* What a replay leaves: nothing is pending.
LEMMA LoseAllVoids ==
  ASSUME NEW E \in SUBSET Envelopes, NEW v \in Plain(E), IsFiniteSet(Known(v)), Lone(v)
  PROVE  /\ LoseAll(v, Known(v)) \in Plain(E) /\ Lasts(v, LoseAll(v, Known(v)))
         /\ \A u \in Known(v) : Void(LoseAll(v, Known(v)), u)
<1> DEFINE us == Known(v)
           G == {w \in Heirs(E, v) : us \subseteq Known(w)}
           A == [T \in SUBSET us |-> {w \in G : \A t \in T : Void(w, t)}]
           op(w, u) == Restate(Lose(Drain(w, u), u), u)
<1>1. ASSUME NEW u \in us, NEW w \in G
      PROVE  op(w, u) \in G /\ Void(op(w, u), u)
               /\ \A t : Void(w, t) => Void(op(w, u), t)
  <2> DEFINE x == Drain(w, u)
             y == Lose(x, u)
             z == Restate(y, u)
  <2>1. Lone(w) /\ w \in Plain(E) /\ w \in Heirs(E, v) /\ u \in Known(w)
          /\ us \subseteq Known(w)
    BY HeirsGoOn
  <2>2. x \in Plain(E) /\ Lasts(w, x) /\ Known(w) \subseteq Known(x)
    BY <2>1, DrainLasts
  <2> HIDE DEF x
  <2>3. Lone(x)
    BY <2>1, <2>2, LastsThere
  <2>4. y \in Plain(E) /\ Lasts(x, y) /\ Known(y) = Known(x) /\ Pend(y, u) = {}
    BY <2>1, <2>2, <2>3, LoseLasts
  <2> HIDE DEF y
  <2>5. z \in Plain(E) /\ Lasts(y, z) /\ Known(z) = Known(y)
    BY <2>1, <2>2, <2>4, RestateLasts
  <2>6. z = op(w, u)
    BY DEF x, y
  <2> HIDE DEF z
  <2>7. Lasts(w, y)
    BY <2>2, <2>4, LastsTwice
  <2>8. Lasts(w, z)
    BY <2>5, <2>7, LastsTwice
  <2>9. z \in Heirs(E, v) /\ us \subseteq Known(z)
    BY <2>1, <2>2, <2>4, <2>5, <2>8, HeirsGoOn
  <2>10. Void(y, u)
    BY <2>4 DEF Void
  <2>11. Void(z, u) /\ \A t : Void(w, t) => Void(z, t)
    BY <2>5, <2>8, <2>10, VoidLasts
  <2> HIDE DEF op
  <2> QED BY <2>6, <2>9, <2>11
<1>2. v \in G
  BY HeirsGoOn
<1> HIDE DEF G, us
<1>3. LoseAllAlong(A, G, v, us)
  <2>1. v \in A[{}]
    BY <1>2
  <2>2. ASSUME NEW T \in SUBSET us, NEW s \in T, NEW w \in G, w \in A[T \ {s}]
        PROVE  op(w, s) \in A[T]
    <3>1. s \in us /\ T \ {s} \in SUBSET us
      OBVIOUS
    <3> HIDE DEF op
    <3>2. \A t \in T \ {s} : Void(w, t)
      BY <2>2, <3>1
    <3>3. \A t \in T : Void(op(w, s), t)
      BY <1>1, <3>1, <3>2
    <3> QED BY <1>1, <3>1, <3>3
  <2> HIDE DEF A
  <2> QED BY <2>1, <2>2 DEF LoseAllAlong
<1> HIDE DEF A
<1>4. LoseAll(v, us) \in G /\ LoseAll(v, us) \in A[us]
  <2>1. \A u \in us, w \in G : Restate(Lose(Drain(w, u), u), u) \in G
    BY <1>1
  <2>2. IsFiniteSet(us)
    BY DEF us
  <2> HIDE DEF op
  <2> QED BY <1>2, <1>3, <2>1, <2>2, LoseAllReach
<1>5. \A t \in us : Void(LoseAll(v, us), t)
  <2> DEFINE x == LoseAll(v, us)
  <2>1. x \in A[us]
    BY <1>4
  <2> HIDE DEF x
  <2> QED BY <2>1 DEF A, x
<1> QED BY <1>4, <1>5 DEF G, Heirs, us

\* After a replay nothing is pending.
LEMMA AfterReplayVoids ==
  ASSUME NEW E \in SUBSET Envelopes, NEW v \in Plain(E), IsFiniteSet(Known(v)), Lone(v)
  PROVE  \A u \in Known(AfterReplay(v)) : Void(AfterReplay(v), u)
<1> DEFINE w == LoseAll(v, Known(v))
           x == SettleAll(w, DOMAIN w.outcome, "lost")
<1>1. w \in Plain(E) /\ Lasts(v, w) /\ \A u \in Known(v) : Void(w, u)
  BY LoseAllVoids
<1>2. AfterReplay(v) = x
  BY DEF AfterReplay, LoseAll
<1> HIDE DEF w
<1>3. x.mirrors = w.mirrors
  BY <1>1, EndAllSame
<1> HIDE DEF x
<1>4. ASSUME NEW u \in Known(x) PROVE Void(x, u)
  <2>1. Void(w, u)
    BY <1>1 DEF Lasts, Void
  <2> QED BY <1>3, <2>1 DEF Void, Known, Pend
<1> QED BY <1>2, <1>4

\* Mirrors that hold envelopes back, that are made, or that are primed, end nothing.
LEMMA UnprimeLasts ==
  ASSUME NEW E, NEW v \in Plain(E), NEW us
  PROVE  Unprime(v, us) \in Plain(E) /\ Lasts(v, Unprime(v, us))
<1> DEFINE D == Known(v)
           ms == [u \in D |-> IF u \in us
                              THEN [v.mirrors[u] EXCEPT !.primed = FALSE, !.buffered = << >>]
                              ELSE v.mirrors[u]]
           w == Unprime(v, us)
<1>1. w \in Plain(E)
  BY UnprimeWaits
<1>2. w = [mirrors |-> ms, seen |-> v.seen, outcome |-> v.outcome]
  <2>1. v = [mirrors |-> v.mirrors, seen |-> v.seen, outcome |-> v.outcome]
    BY PlainParts
  <2>2. w = [v EXCEPT !.mirrors = ms]
    BY DEF Unprime
  <2> HIDE DEF ms, w
  <2> QED BY <2>1, <2>2
<1>3. \A u \in D : v.mirrors[u] \in Mirrors(E)
  BY PlainParts
<1>4. DOMAIN ms = D /\ \A u \in D : ms[u].pending = v.mirrors[u].pending
  BY <1>3 DEF Mirrors
<1> HIDE DEF ms, w
<1>5. Known(w) = D /\ w.outcome = v.outcome
        /\ \A u \in D : w.mirrors[u].pending = v.mirrors[u].pending
  BY <1>2, <1>4 DEF Known
<1>6. Lasts(v, w)
  BY <1>5, LastsAlike
<1> QED BY <1>1, <1>6 DEF w

\* Priming every mirror leaves what is pending alone.
LEMMA AllPrimedLasts ==
  ASSUME NEW E, NEW v \in Plain(E)
  PROVE  AllPrimed(v) \in Plain(E) /\ Lasts(v, AllPrimed(v))
<1> DEFINE D == Known(v)
           ms == [u \in D |-> [v.mirrors[u] EXCEPT !.primed = TRUE]]
           w == AllPrimed(v)
<1>1. w \in Plain(E)
  BY AllPrimedNow
<1>2. w = [mirrors |-> ms, seen |-> v.seen, outcome |-> v.outcome]
  <2>1. v = [mirrors |-> v.mirrors, seen |-> v.seen, outcome |-> v.outcome]
    BY PlainParts
  <2>2. w = [v EXCEPT !.mirrors = ms]
    BY DEF AllPrimed
  <2> HIDE DEF ms, w
  <2> QED BY <2>1, <2>2
<1>3. \A u \in D : v.mirrors[u] \in Mirrors(E)
  BY PlainParts
<1>4. DOMAIN ms = D /\ \A u \in D : ms[u].pending = v.mirrors[u].pending
  BY <1>3 DEF Mirrors
<1> HIDE DEF ms, w
<1>5. Known(w) = D /\ w.outcome = v.outcome
        /\ \A u \in D : w.mirrors[u].pending = v.mirrors[u].pending
  BY <1>2, <1>4 DEF Known
<1>6. Lasts(v, w)
  BY <1>5, LastsAlike
<1> QED BY <1>1, <1>6 DEF w

\* The mirrors that a hello adds have nothing pending.
LEMMA MirrorsLast ==
  ASSUME NEW E, NEW v \in Plain(E), NEW us \in SUBSET Uris
  PROVE  WithMirrors(v, us) \in Plain(E) /\ Lasts(v, WithMirrors(v, us))
<1> DEFINE D == Known(v) \cup us
           ms == [u \in D |-> IF u \in Known(v) THEN v.mirrors[u] ELSE NewMirror(FALSE)]
           w == WithMirrors(v, us)
<1>1. w \in Plain(E)
  BY MirrorsWait
<1>2. w = [mirrors |-> ms, seen |-> v.seen, outcome |-> v.outcome]
  <2>1. v = [mirrors |-> v.mirrors, seen |-> v.seen, outcome |-> v.outcome]
    BY PlainParts
  <2>2. w = [v EXCEPT !.mirrors = ms]
    BY DEF WithMirrors
  <2> HIDE DEF ms, w
  <2> QED BY <2>1, <2>2
<1>3. /\ DOMAIN ms = D /\ \A u \in Known(v) : ms[u] = v.mirrors[u]
      /\ \A u \in D \ Known(v) : ms[u].pending = << >>
  BY DEF NewMirror
<1> HIDE DEF ms, w
<1>4. Known(w) = D /\ w.outcome = v.outcome /\ w.mirrors = ms
  BY <1>2, <1>3 DEF Known
<1>5. Lasts(v, w)
  BY <1>3, <1>4, LastsAlike
<1> QED BY <1>1, <1>5 DEF w

-----------------------------------------------------------------------------
(* Requests that fail. *)

\* #discard of a dispatch that is pending on its own channel, if at all, and then no more.
LEMMA DiscardLasts ==
  ASSUME NEW E, NEW v \in Plain(E), NEW u, NEW n \in Numbers,
         NEW outcome \in Outcome \ {"open"}, Witnessed(E, n, outcome), OnlyAt(v, n, u)
  PROVE  Discard(v, u, n, outcome) \in Plain(E) /\ Lasts(v, Discard(v, u, n, outcome))
<1>1. CASE u \notin Known(v)
  <2> DEFINE w == Settle(v, n, outcome)
  <2>1. w \in Plain(E) /\ w.mirrors = v.mirrors
    BY SettleSame
  <2>2. \A k \in Numbers \ {n} : w.outcome[k] = v.outcome[k]
    BY SettleElse
  <2>3. Discard(v, u, n, outcome) = w
    BY <1>1 DEF Discard
  <2> HIDE DEF w
  <2>4. Known(w) = Known(v) /\ \A t \in Known(v) : Pend(w, t) = Pend(v, t)
    BY <2>1 DEF Known, Pend
  <2>5. \A t \in Known(v) : n \notin Pend(v, t) /\ Pend(v, t) \subseteq Numbers
    BY <1>1, PendTyped DEF OnlyAt
  <2>6. Lasts(v, w)
    BY <2>2, <2>4, <2>5 DEF Lasts
  <2> QED BY <2>1, <2>3, <2>6
<1>2. CASE u \in Known(v)
  <2> DEFINE p == v.mirrors[u].pending
             m == [v.mirrors[u] EXCEPT !.pending = Without(p, n)]
             w == [v EXCEPT !.mirrors[u] = m]
             x == Settle(w, n, outcome)
             y == Restate(x, u)
  <2>1. v.mirrors[u] \in Mirrors(E) /\ p \in Seq(Numbers) /\ Pend(v, u) = Range(p)
    BY <1>2, PendTyped DEF Pend
  <2>2. m \in Mirrors(E) /\ SameCopy(v.mirrors[u], m) /\ m.pending = Without(p, n)
    <3>1. Without(p, n) \in Seq(Numbers)
      BY <2>1, SelectedTyped DEF Without
    <3> QED BY <2>1, <3>1 DEF Mirrors, SameCopy
  <2>3. \A k \in Range(Without(p, n)) : k \in Range(p) /\ k # n
    <3> DEFINE I == {i \in DOMAIN p : p[i] # n}
               q == Selected(p, I)
    <3>1. I \in SUBSET (DOMAIN p)
      OBVIOUS
    <3>2. q \in Seq(Numbers) /\ \A k \in DOMAIN q : \E i \in I : q[k] = p[i]
      <4> HIDE DEF p, I
      <4> QED BY <2>1, <3>1, SelectedTyped
    <3>3. Without(p, n) = q
      BY DEF Without
    <3> HIDE DEF q
    <3> QED BY <3>2, <3>3 DEF Range
  <2>4. Discard(v, u, n, outcome) = y
    <3>1. Discard(v, u, n, outcome)
            = Restate(Settle([v EXCEPT !.mirrors[u].pending = Without(@, n)], n, outcome), u)
      BY <1>2 DEF Discard
    <3> QED BY <3>1
  <2> HIDE DEF m
  <2>5. /\ w \in Plain(E) /\ Same(v, w) /\ w.outcome = v.outcome /\ w.mirrors[u] = m
        /\ \A t \in Known(v) \ {u} : w.mirrors[t] = v.mirrors[t]
    BY <1>2, <2>2, PlainSame
  <2> HIDE DEF w
  <2>6. x \in Plain(E) /\ Same(w, x) /\ x.mirrors = w.mirrors
    BY <2>5, SettleSame
  <2>7. \A k \in Numbers \ {n} : x.outcome[k] = w.outcome[k]
    BY <2>5, SettleElse
  <2> HIDE DEF x
  <2>8. Known(x) = Known(v) /\ u \in Known(x)
    BY <1>2, <2>5, <2>6 DEF Same
  <2>9. Pend(x, u) \subseteq Pend(v, u) /\ n \notin Pend(x, u)
    BY <2>1, <2>2, <2>3, <2>5, <2>6 DEF Pend
  <2>10. \A t \in Known(v) \ {u} : Pend(x, t) = Pend(v, t)
    BY <2>5, <2>6 DEF Pend
  <2>11. \A k \in Numbers : x.outcome[k] # v.outcome[k] => k \notin Pend(x, u) /\ OnlyAt(v, k, u)
    BY <2>5, <2>7, <2>9
  <2>12. Lasts(v, x)
    BY <1>2, <2>6, <2>8, <2>9, <2>10, <2>11, ShorterLasts
  <2>13. y \in Plain(E) /\ Lasts(x, y)
    BY <2>6, <2>8, RestateLasts
  <2> HIDE DEF y
  <2> QED BY <2>4, <2>12, <2>13, LastsTwice
<1> QED BY <1>1, <1>2

\* What a request that fails ends.
LEMMA FailureLasts ==
  ASSUME NEW E, NEW v \in Plain(E), NEW r \in Requests, NEW why, Lone(v),
         r.method = "dispatch" => OnlyAt(v, r.n, r.uri)
  PROVE  Failure(v, r, why) \in Plain(E) /\ Lasts(v, Failure(v, r, why))
<1>1. CASE r.method # "dispatch"
  <2>1. IsFiniteSet(r.created)
    BY ClientAssumption, FS_Subset DEF Requests
  <2> QED BY <1>1, <2>1, ForgetAllLasts DEF Failure
<1>2. CASE r.method = "dispatch" /\ why = "transport"
  BY <1>2, LastsAlike DEF Failure
<1>3. CASE r.method = "dispatch" /\ why # "transport"
  <2>1. r.n \in Numbers
    BY <1>3 DEF Requests
  <2>2. Witnessed(E, r.n, "lost") /\ "lost" \in Outcome \ {"open"}
    BY DEF Witnessed, Outcome
  <2>3. Failure(v, r, why) = Discard(v, r.uri, r.n, "lost")
    BY <1>3 DEF Failure
  <2> QED BY <1>3, <2>1, <2>2, <2>3, DiscardLasts
<1> QED BY <1>1, <1>2, <1>3

\* The same of all the calls that fail with a connection, one after the other.
LEMMA FailuresLast ==
  ASSUME NEW E, NEW v \in Plain(E), NEW rs \in SUBSET Requests, IsFiniteSet(rs), NEW why,
         Lone(v), \A r \in rs : r.method = "dispatch" => OnlyAt(v, r.n, r.uri)
  PROVE  Failures(v, rs, why) \in Plain(E) /\ Lasts(v, Failures(v, rs, why))
<1> DEFINE G == Heirs(E, v)
<1>1. ASSUME NEW r \in rs, NEW w \in G
      PROVE  Failure(w, r, why) \in G
  <2>1. w \in Plain(E) /\ Lone(w) /\ Lasts(v, w)
    BY HeirsGoOn DEF Heirs
  <2>2. r.method = "dispatch" => OnlyAt(w, r.n, r.uri)
    BY <2>1, LastsThere
  <2>3. Failure(w, r, why) \in Plain(E) /\ Lasts(w, Failure(w, r, why))
    BY <2>1, <2>2, FailureLasts
  <2> QED BY <2>3, HeirsGoOn
<1>2. v \in G
  BY HeirsGoOn
<1> HIDE DEF G
<1>3. Failures(v, rs, why) \in G
  BY <1>1, <1>2, FailuresStay
<1> QED BY <1>3 DEF G, Heirs

\* Dispatches whose flush returns.
LEMMA ReleaseLasts ==
  ASSUME NEW E, NEW v \in Plain(E), NEW s \in Seq(Flushes), Lone(v),
         \A i \in DOMAIN s : s[i].n # 0 /\ OnlyAt(v, s[i].n, s[i].uri)
  PROVE  ReleaseAll(v, s) \in Plain(E) /\ Lasts(v, ReleaseAll(v, s))
<1> DEFINE G == Heirs(E, v)
           A == {w \in Flushes : w.n # 0 /\ OnlyAt(v, w.n, w.uri)}
<1>1. ASSUME NEW w \in A, NEW x \in G
      PROVE  Released(w, x) \in G
  <2>1. x \in Plain(E) /\ Lone(x) /\ Lasts(v, x)
    BY HeirsGoOn DEF Heirs
  <2>2. OnlyAt(x, w.n, w.uri)
    BY <2>1, LastsThere
  <2>3. w.n \in Numbers
    BY ClientAssumption DEF Flushes, Numbers
  <2>4. Witnessed(E, w.n, "lost") /\ "lost" \in Outcome \ {"open"}
    BY DEF Witnessed, Outcome
  <2> DEFINE y == Discard(x, w.uri, w.n, "lost")
  <2>5. y \in Plain(E) /\ Lasts(x, y)
    BY <2>1, <2>2, <2>3, <2>4, DiscardLasts
  <2> HIDE DEF y
  <2>6. y \in G
    BY <2>5, HeirsGoOn
  <2> QED BY <2>6 DEF Released, y
<1>2. s \in Seq(A)
  OBVIOUS
<1>3. v \in G
  BY HeirsGoOn
<1> HIDE DEF G, A
<1>4. PICK h \in [0..Len(s) -> G] : h[0] = v /\ h[Len(s)] = ReleaseAll(v, s)
  BY <1>1, <1>2, <1>3, ReleaseSteps
<1>5. Len(s) \in 0..Len(s)
  BY <1>2
<1>6. ReleaseAll(v, s) \in G
  BY <1>4, <1>5
<1> QED BY <1>6 DEF G, Heirs

-----------------------------------------------------------------------------
(* The pending actions, everywhere they are kept. *)

\* What is pending is open, has been numbered, and belongs to one channel with state.
Standing(v, seq) ==
  /\ Lone(v)
  /\ \A u \in Known(v) : \A n \in Pend(v, u) :
       v.outcome[n] = "open" /\ n < seq /\ u \in Stateful

\* The same for what a checkpoint holds.
Whole(c) ==
  /\ \A t, u \in DOMAIN c.channels :
       t # u => Range(c.channels[t].pending) \cap Range(c.channels[u].pending) = {}
  /\ \A u \in DOMAIN c.channels : \A n \in Range(c.channels[u].pending) :
       n < c.nextSeq /\ u \in Stateful

\* A dispatch that somebody waits for is pending on its own channel, if at all.
Claims(n, u) == n < nextSeq /\ OnlyAt(view, n, u)

PendingIsOpen ==
  /\ Standing(view, nextSeq)
  /\ \A r \in waiting : r.method = "dispatch" => Claims(r.n, r.uri)
  /\ \A i \in DOMAIN flushing : flushing[i].n # 0 => Claims(flushing[i].n, flushing[i].uri)
  /\ \A i \in DOMAIN saves : Whole(saves[i])
  /\ stored # None => Whole(stored)

\* The view of a client is plain, and what lasts from it is as it was.
LEMMA ViewStands ==
  ASSUME Types, PendingIsOpen
  PROVE  view \in Plain(Told) /\ Lone(view) /\ Told \in SUBSET Envelopes /\ early \in Seq(Told)
<1>1. view \in Views(Told, Numbers, {}, {})
  BY DEF Types, ClientTypes
<1>2. view \in Plain(Told)
  BY <1>1, ViewsMonotone DEF Plain
<1> QED BY <1>2, ToldAreEnvelopes DEF PendingIsOpen, Standing, Types, ClientTypes

\* A view that stands goes on to stand as its actions last.
LEMMA StandingLasts ==
  ASSUME NEW v, NEW w, NEW seq, Standing(v, seq), Lasts(v, w)
  PROVE  Standing(w, seq)
<1>1. Lone(w)
  BY LastsThere DEF Standing
<1> QED BY <1>1 DEF Standing, Lasts

\* The answer to hello.
LEMMA WelcomeLasts ==
  ASSUME Types, PendingIsOpen, NEW r \in Requests, NEW result \in Results,
         result.type = "hello", IsFiniteSet(result.snapshots), Welcome(r, result)
  PROVE  Lasts(view, view')
<1> DEFINE n == result.serverSeq
           ss == result.snapshots
           us == r.uris
           v == See(view, n)
           w == ApplyAll(v, ss, us)
           x == InboundAll(w, early)
<1>1. n \in Nat /\ ss \in SUBSET Snapshots /\ IsFiniteSet(ss)
  BY DEF Results
<1>2. IsFiniteSet(us)
  BY ClientAssumption, FS_Subset DEF Requests
<1>3. view' = x
  BY DEF Welcome, Finished
<1>4. view \in Plain(Told) /\ Lone(view) /\ Told \in SUBSET Envelopes /\ early \in Seq(Told)
  BY ViewStands
<1> HIDE DEF n, ss, us
<1>5. v \in Plain(Told) /\ Lasts(view, v)
  BY <1>1, <1>4, SeeLasts
<1> HIDE DEF v
<1>6. Lone(v)
  BY <1>4, <1>5, LastsThere
<1>7. w \in Plain(Told) /\ Lasts(v, w)
  BY <1>1, <1>2, <1>4, <1>5, <1>6, ApplyAllLasts
<1> HIDE DEF w
<1>8. Lone(w)
  BY <1>6, <1>7, LastsThere
<1>9. Lasts(w, x)
  BY <1>4, <1>7, <1>8, InboundAllLasts
<1> HIDE DEF x
<1>10. Lasts(view, w)
  BY <1>5, <1>7, LastsTwice
<1> QED BY <1>3, <1>9, <1>10, LastsTwice

\* The answer to reconnect that replays: nothing is pending after it.
LEMMA ReplayLasts ==
  ASSUME Types, PendingIsOpen, NEW result \in Results, result.type = "replay",
         ResumedByReplay(result)
  PROVE  Lasts(view, view')
<1> DEFINE us == result.missing
           fs == result.actions
           v == ForgetAll(view, us)
           w == AllPrimed(v)
           x == InboundAll(w, fs)
           y == InboundAll(x, early)
<1>1. us \in SUBSET Uris /\ fs \in Seq(Told)
  BY DEF Results
<1>2. IsFiniteSet(us)
  BY <1>1, ClientAssumption, FS_Subset
<1>3. view \in Plain(Told) /\ Lone(view) /\ Told \in SUBSET Envelopes /\ early \in Seq(Told)
  BY ViewStands
<1>4. view' = AfterReplay(y)
  BY DEF ResumedByReplay, Finished, AllPrimed
<1> HIDE DEF us, fs
<1>5. v \in Plain(Told) /\ Lasts(view, v)
  BY <1>2, <1>3, ForgetAllLasts
<1> HIDE DEF v
<1>6. Lone(v)
  BY <1>3, <1>5, LastsThere
<1>7. w \in Plain(Told) /\ Lasts(v, w)
  BY <1>5, AllPrimedLasts
<1> HIDE DEF w
<1>8. Lone(w)
  BY <1>6, <1>7, LastsThere
<1>9. x \in Plain(Told) /\ Lasts(w, x)
  BY <1>1, <1>3, <1>7, <1>8, InboundAllLasts
<1> HIDE DEF x
<1>10. Lone(x)
  BY <1>8, <1>9, LastsThere
<1>11. y \in Plain(Told) /\ Lasts(x, y)
  BY <1>3, <1>9, <1>10, InboundAllLasts
<1> HIDE DEF y
<1>12. Lone(y)
  BY <1>10, <1>11, LastsThere
<1>13. IsFiniteSet(Known(y))
  <2>1. Known(y) \subseteq Uris
    BY <1>11, PlainParts
  <2> QED BY <2>1, ClientAssumption, FS_Subset
<1> DEFINE z == AfterReplay(y)
<1>14. \A u \in Known(z) : Void(z, u)
  BY <1>3, <1>11, <1>12, <1>13, AfterReplayVoids
<1> HIDE DEF z
<1>15. Lasts(view, z)
  BY <1>14, VoidEndsNone
<1> QED BY <1>4, <1>15 DEF z

\* The answer to reconnect that restates: nothing is pending after it.
LEMMA SnapshotLasts ==
  ASSUME Types, PendingIsOpen, NEW result \in Results, result.type = "snapshot",
         IsFiniteSet(result.snapshots), ResumedBySnapshot(result)
  PROVE  Lasts(view, view')
<1> DEFINE us == result.missing
           ss == result.snapshots
           v == ForgetAll(view, us)
           given == {t.uri : t \in ss} \cap Known(v)
           w == RestateAll(v, ss)
           dropped == (Known(v) \ given) \ Stateless
           others == (Known(v) \ given) \cap Stateless
           x == PrimeAll(w, others)
           y == ForgetAll(x, dropped)
           z == InboundAll(y, early)
           q == SettleAll(z, DOMAIN z.outcome, "lost")
<1>1. us \in SUBSET Uris /\ ss \in SUBSET Snapshots
  BY DEF Results
<1>2. IsFiniteSet(us) /\ IsFiniteSet(ss)
  BY <1>1, ClientAssumption, FS_Subset
<1>3. view \in Plain(Told) /\ Lone(view) /\ Told \in SUBSET Envelopes /\ early \in Seq(Told)
  BY ViewStands
<1>4. view' = q
  BY DEF ResumedBySnapshot, Finished, RestateAll, RestatedBy, PrimeAll
<1> HIDE DEF us, ss
<1>5. v \in Plain(Told) /\ Lasts(view, v)
  BY <1>2, <1>3, ForgetAllLasts
<1> HIDE DEF v
<1>6. Lone(v) /\ Standing(v, nextSeq)
  BY <1>3, <1>5, LastsThere, StandingLasts DEF PendingIsOpen
<1>7. IsFiniteSet(dropped) /\ IsFiniteSet(others)
  <2>1. dropped \subseteq Uris /\ others \subseteq Uris
    BY <1>5, PlainParts
  <2> HIDE DEF dropped, others
  <2> QED BY <2>1, ClientAssumption, FS_Subset
<1>8. \A u \in Known(v) : u \in Stateful => u \in given \/ u \in dropped
  BY DEF Stateful
<1> HIDE DEF dropped, others
<1>9. w \in Plain(Told) /\ Lasts(v, w) /\ \A t \in ss : Void(w, t.uri)
  BY <1>1, <1>2, <1>3, <1>5, <1>6, RestateAllVoids
<1>10. \A u \in given : Void(w, u)
  BY <1>9
<1> HIDE DEF w, given
<1>11. Lone(w)
  BY <1>6, <1>9, LastsThere
<1>12. x \in Plain(Told) /\ Lasts(w, x)
  BY <1>3, <1>7, <1>9, <1>11, PrimeAllLasts
<1> HIDE DEF x
<1>13. Lone(x)
  BY <1>11, <1>12, LastsThere
<1>14. y \in Plain(Told) /\ Lasts(x, y) /\ Known(y) = Known(x) \ dropped
  <2>1. y \in Plain(Told) /\ Lasts(x, y)
    BY <1>7, <1>12, <1>13, ForgetAllLasts
  <2>2. Fewer(x, y, dropped)
    BY <1>7, <1>12, ForgetAllFewer
  <2> QED BY <2>1, <2>2 DEF Fewer
<1> HIDE DEF y
<1>15. Lone(y)
  BY <1>13, <1>14, LastsThere
<1>16. z \in Plain(Told) /\ Lasts(y, z)
  BY <1>3, <1>14, <1>15, InboundAllLasts
<1> HIDE DEF z
<1>17. ASSUME NEW u \in Known(z) PROVE Void(z, u)
  <2>1. CASE u \notin Known(v) \/ u \notin Stateful
    <3>1. Void(v, u)
      BY <1>6, <2>1 DEF Standing, Void
    <3>2. Void(w, u)
      BY <1>9, <3>1, VoidLasts
    <3>3. Void(x, u)
      BY <1>12, <3>2, VoidLasts
    <3>4. Void(y, u)
      BY <1>14, <3>3, VoidLasts
    <3> QED BY <1>16, <3>4, VoidLasts
  <2>2. CASE u \in given
    <3>1. Void(x, u)
      BY <1>10, <1>12, <2>2, VoidLasts
    <3>2. Void(y, u)
      BY <1>14, <3>1, VoidLasts
    <3> QED BY <1>16, <3>2, VoidLasts
  <2>3. CASE u \in dropped
    <3>1. Void(y, u)
      BY <1>14, <2>3 DEF Void
    <3> QED BY <1>16, <3>1, VoidLasts
  <2> QED BY <1>8, <2>1, <2>2, <2>3
<1>18. q.mirrors = z.mirrors
  BY <1>16, EndAllSame
<1> HIDE DEF q
<1>19. \A u \in Known(q) : Void(q, u)
  BY <1>17, <1>18 DEF Void, Known, Pend
<1> QED BY <1>4, <1>19, VoidEndsNone

\* The answer to subscribe.
LEMMA JoinedLasts ==
  ASSUME Types, PendingIsOpen, NEW r \in Requests, NEW result \in Results,
         result.type = "subscribed", IsFiniteSet(result.snapshots), Joined(r, result)
  PROVE  Lasts(view, view')
<1> DEFINE ss == result.snapshots
           us == IF ss = {} THEN {r.uri} ELSE {}
<1>1. ss \in SUBSET Snapshots /\ IsFiniteSet(ss)
  BY DEF Results
<1>2. IsFiniteSet(us)
  BY FS_Singleton, FS_EmptySet
<1>3. view' = ApplyAll(view, ss, us)
  BY DEF Joined
<1> HIDE DEF ss, us
<1> QED BY <1>1, <1>2, <1>3, ViewStands, ApplyAllLasts

\* The answer to a dispatch.
LEMMA AnsweredLasts ==
  ASSUME Types, PendingIsOpen, NEW r \in waiting, r \in Requests, NEW result \in Results,
         result.type \in {"envelope", "duplicate"}, Fits(r, result), Answered(r, result)
  PROVE  Lasts(view, view')
<1>1. r.n \in Numbers /\ OnlyAt(view, r.n, r.uri)
  BY DEF Fits, Requests, PendingIsOpen, Claims
<1>2. view \in Plain(Told) /\ Lone(view) /\ Told \in SUBSET Envelopes
  BY ViewStands
<1>3. CASE result.type = "duplicate"
  <2>1. view' = Discard(view, r.uri, r.n, "duplicate")
    BY <1>3 DEF Answered
  <2>2. "duplicate" \in Outcome \ {"open"} /\ Witnessed(Told, r.n, "duplicate")
    BY DEF Outcome, Witnessed
  <2> QED BY <1>1, <1>2, <2>1, <2>2, DiscardLasts
<1>4. CASE result.type = "envelope"
  <2> DEFINE e == result.envelope
             v == Inbound(view, e)
             w == Discard(v, r.uri, r.n, OutcomeOf(e))
  <2>1. e \in Told /\ e.n = r.n
    BY <1>4 DEF Results, Fits
  <2>2. view' = IF v.outcome[r.n] = "open" THEN w ELSE v
    BY <1>4 DEF Answered
  <2> HIDE DEF e
  <2>3. v \in Plain(Told) /\ Lasts(view, v)
    BY <1>2, <2>1, InboundLasts
  <2> HIDE DEF v
  <2>4. OnlyAt(v, r.n, r.uri)
    BY <1>1, <2>3, LastsThere
  <2>5. OutcomeOf(e) \in Outcome \ {"open"} /\ e.accepted = (OutcomeOf(e) = "confirmed")
    BY <1>2, <2>1 DEF Outcome, OutcomeOf, Envelopes
  <2>6. Witnessed(Told, r.n, OutcomeOf(e))
    BY <2>1, <2>5 DEF Witnessed
  <2>7. Lasts(v, w)
    BY <1>1, <2>3, <2>4, <2>5, <2>6, DiscardLasts
  <2> HIDE DEF w
  <2>8. Lasts(view, w)
    BY <2>3, <2>7, LastsTwice
  <2> QED BY <2>2, <2>3, <2>8
<1> QED BY <1>3, <1>4

\* What a turn saves of a view that stands is whole.
LEMMA CheckpointWhole ==
  ASSUME NEW E, NEW v \in Plain(E), NEW seq, Standing(v, seq), NEW us
  PROVE  Whole(Checkpoint(v, us, seq))
<1> DEFINE D == us \cap Known(v)
           cs == [u \in D |-> [confirmed |-> v.mirrors[u].confirmed,
                               applied |-> v.mirrors[u].applied,
                               pending |-> v.mirrors[u].pending]]
           c == [nextSeq |-> seq, seen |-> v.seen, channels |-> cs]
<1>1. Checkpoint(v, us, seq) = c
  BY DEF Checkpoint
<1>2. DOMAIN cs = D /\ \A u \in D : Range(cs[u].pending) = Pend(v, u)
  BY DEF Pend
<1>3. c.channels = cs /\ c.nextSeq = seq
  OBVIOUS
<1> HIDE DEF cs, c
<1>4. \A t, u \in D : t # u => Pend(v, t) \cap Pend(v, u) = {}
  BY DEF Standing, Lone
<1>5. \A u \in D : \A n \in Pend(v, u) : n < seq /\ u \in Stateful
  BY DEF Standing
<1> HIDE DEF D
<1> QED BY <1>1, <1>2, <1>3, <1>4, <1>5 DEF Whole

\* A turn after which whatever is pending was pending before, and which forgets nobody
\* who waits: the saves it queues are of what it leaves.
LEMMA PendingKept ==
  ASSUME Types, PendingIsOpen, Lasts(view, view'), nextSeq' = nextSeq,
         \A r \in waiting' : r.method = "dispatch" => Claims(r.n, r.uri),
         \A i \in DOMAIN flushing' : flushing'[i].n # 0 =>
           Claims(flushing'[i].n, flushing'[i].uri),
         \A i \in DOMAIN saves' :
           Whole(saves'[i]) \/ saves'[i] = Checkpoint(view', subscribed', nextSeq'),
         stored' # None => Whole(stored'), view' \in Plain(Told)
  PROVE  PendingIsOpen'
<1>1. Standing(view', nextSeq')
  BY StandingLasts DEF PendingIsOpen
<1>2. \A n, u : Claims(n, u) => Claims(n, u)'
  BY LastsThere DEF Claims
<1>3. Whole(Checkpoint(view', subscribed', nextSeq'))
  BY <1>1, CheckpointWhole
<1> QED BY <1>1, <1>2, <1>3 DEF PendingIsOpen

\* The end of a turn queues a save, or none.
LEMMA SavesOfATurn ==
  ASSUME Types, PendingIsOpen, NEW must, Persist(must)
  PROVE  \A i \in DOMAIN saves' :
           Whole(saves'[i]) \/ saves'[i] = Checkpoint(view', subscribed', nextSeq')
<1> DEFINE c == Checkpoint(view', subscribed', nextSeq')
<1>1. saves' \in {saves, Append(saves, c)}
  BY DEF Persist
<1> HIDE DEF c
<1>2. saves \in Seq(Checkpoints) /\ \A i \in DOMAIN saves : Whole(saves[i])
  BY DEF Types, ClientTypes, PendingIsOpen
<1>3. CASE saves' = saves
  BY <1>2, <1>3
<1>4. CASE saves' = Append(saves, c)
  <2>1. ASSUME NEW i \in DOMAIN saves'
        PROVE  saves'[i] = c \/ (i \in DOMAIN saves /\ saves'[i] = saves[i])
    BY <1>2, <1>4
  <2> QED BY <1>2, <2>1 DEF c
<1> QED BY <1>1, <1>3, <1>4

\* A turn of the client that leaves who waits, or fewer, and what is stored.
LEMMA PendingStays ==
  ASSUME Types, Types', PendingIsOpen, Told' = Told, Lasts(view, view'),
         UNCHANGED <<nextSeq, flushing, stored>>,
         \A r \in waiting' : r \in waiting \/ r.method # "dispatch",
         saves' = saves \/ \E must \in BOOLEAN : Persist(must)
  PROVE  PendingIsOpen'
<1>1. view' \in Plain(Told)
  <2>1. view' \in Views(Told, Numbers, {}, {})
    BY DEF Types, ClientTypes
  <2> QED BY <2>1, ViewsMonotone DEF Plain
<1>2. \A i \in DOMAIN saves' :
        Whole(saves'[i]) \/ saves'[i] = Checkpoint(view', subscribed', nextSeq')
  BY SavesOfATurn DEF PendingIsOpen
<1>3. /\ \A r \in waiting' : r.method = "dispatch" => Claims(r.n, r.uri)
      /\ \A i \in DOMAIN flushing' : flushing'[i].n # 0 =>
           Claims(flushing'[i].n, flushing'[i].uri)
      /\ stored' # None => Whole(stored')
  BY DEF PendingIsOpen
<1> QED BY <1>1, <1>2, <1>3, PendingKept

-----------------------------------------------------------------------------
(* The turns of the client. *)

\* Calls of the application, but dispatch and shutdown.
LEMMA CallsPend ==
  ASSUME Types, Types', PendingIsOpen, UNCHANGED serverVars,
         \/ \E us \in SUBSET Uris : Hello(us)
         \/ \E s \in Sockets : Reconnect(s)
         \/ \E u \in Uris : Subscribe(u)
         \/ \E u \in Uris : Unsubscribe(u)
  PROVE  PendingIsOpen'
<1>1. view \in Plain(Told) /\ Lone(view)
  BY ViewStands
<1>2. Told' = Told
  BY DEF serverVars, hubVars, Told
<1>3. ASSUME NEW us \in SUBSET Uris, Hello(us) PROVE PendingIsOpen'
  <2> DEFINE v == Unprime(view, us)
             w == WithMirrors(v, us)
  <2>1. /\ view' = w /\ waiting' = waiting \cup {Request("hello", us, us \ Known(view))}
        /\ UNCHANGED <<nextSeq, flushing, stored, saves>>
    BY <1>3 DEF Hello, Ask, saveState
  <2>2. v \in Plain(Told) /\ Lasts(view, v)
    BY <1>1, UnprimeLasts
  <2> HIDE DEF v
  <2>3. Lasts(v, w)
    BY <2>2, MirrorsLast
  <2> HIDE DEF w
  <2>4. Lasts(view, view')
    BY <2>1, <2>2, <2>3, LastsTwice
  <2>5. \A r \in waiting' : r \in waiting \/ r.method # "dispatch"
    BY <2>1 DEF Request
  <2> QED BY <1>2, <2>1, <2>4, <2>5, PendingStays
<1>4. ASSUME NEW s \in Sockets, Reconnect(s) PROVE PendingIsOpen'
  <2> DEFINE v == Unprime(view, Known(view))
             w == Failures(v, waiting, "transport")
             r == [Request("reconnect", subscribed, {}) EXCEPT !.seen = view.seen]
  <2>1. /\ view' = v \/ view' = w
        /\ \A q \in waiting' : q \in waiting \/ q = r
        /\ UNCHANGED <<nextSeq, flushing, stored, saves>>
    <3>1. view' = IF s # current THEN w ELSE v
      BY <1>4 DEF Reconnect
    <3>2. waiting' = (IF s # current THEN {} ELSE waiting) \cup {r}
      BY <1>4 DEF Reconnect
    <3>3. UNCHANGED <<nextSeq, flushing, stored, saves>>
      BY <1>4 DEF Reconnect, saveState
    <3> HIDE DEF v, w, r
    <3> QED BY <3>1, <3>2, <3>3
  <2>2. r.method = "reconnect"
    BY DEF Request
  <2> HIDE DEF r
  <2>3. v \in Plain(Told) /\ Lasts(view, v)
    BY <1>1, UnprimeLasts
  <2> HIDE DEF v
  <2>4. Lone(v) /\ \A q \in waiting : q.method = "dispatch" => OnlyAt(v, q.n, q.uri)
    BY <1>1, <2>3, LastsThere DEF PendingIsOpen, Claims
  <2>5. waiting \in SUBSET Requests /\ IsFiniteSet(waiting)
    BY DEF Types, ClientTypes, Issued
  <2>6. Lasts(v, w)
    BY <2>3, <2>4, <2>5, FailuresLast
  <2> HIDE DEF w
  <2>7. Lasts(view, view')
    BY <2>1, <2>3, <2>6, LastsTwice
  <2>8. \A q \in waiting' : q \in waiting \/ q.method # "dispatch"
    BY <2>1, <2>2
  <2> QED BY <1>2, <2>1, <2>7, <2>8, PendingStays
<1>5. ASSUME NEW u \in Uris, Subscribe(u) PROVE PendingIsOpen'
  <2> DEFINE w == WithMirrors(view, {u})
             r == [Request("subscribe", {u}, {u} \ Known(view)) EXCEPT !.uri = u]
  <2>1. /\ view' = w /\ waiting' = waiting \cup {r}
        /\ UNCHANGED <<nextSeq, flushing, stored, saves>>
    BY <1>5 DEF Subscribe, Ask, saveState
  <2>2. r.method = "subscribe"
    BY DEF Request
  <2>3. Lasts(view, w)
    BY <1>1, MirrorsLast
  <2> HIDE DEF w, r
  <2>4. \A q \in waiting' : q \in waiting \/ q.method # "dispatch"
    BY <2>1, <2>2
  <2> QED BY <1>2, <2>1, <2>3, <2>4, PendingStays
<1>6. ASSUME NEW u \in Uris, Unsubscribe(u) PROVE PendingIsOpen'
  <2>1. /\ view' = Forget(view, u) /\ waiting' = waiting
        /\ UNCHANGED <<nextSeq, flushing, stored>> /\ Persist(FALSE)
    BY <1>6 DEF Unsubscribe, callState
  <2>2. Lasts(view, view')
    BY <1>1, <2>1, ForgetLasts
  <2> QED BY <1>2, <2>1, <2>2, PendingStays
<1> QED BY <1>3, <1>4, <1>5, <1>6

\* A dispatch makes its own number pending, on its own channel.
LEMMA DispatchPends ==
  ASSUME Types, Types', PendingIsOpen, UNCHANGED serverVars, NEW u \in Uris, Dispatch(u)
  PROVE  PendingIsOpen'
<1> DEFINE n == nextSeq
           o == [view.outcome EXCEPT ![n] = "open"]
           v == [view EXCEPT !.outcome = o]
           p == view.mirrors[u].pending
           m == [view.mirrors[u] EXCEPT !.pending = Append(p, n)]
           w == [v EXCEPT !.mirrors[u] = m]
<1>1. view \in Plain(Told) /\ Lone(view) /\ Standing(view, n)
  BY ViewStands DEF PendingIsOpen
<1>2. n \in Numbers /\ u \in Stateful /\ nextSeq' = n + 1 /\ stored' = stored
        /\ n \in Nat /\ n + 1 > n /\ Persist(TRUE)
  <2>1. nextSeq \in 1..(MaxDispatch + 1) /\ nextSeq <= MaxDispatch /\ MaxDispatch \in Nat
    BY ClientAssumption DEF Dispatch, Types, ClientTypes
  <2>2. nextSeq \in Numbers /\ nextSeq \in Nat /\ nextSeq + 1 > nextSeq
    BY <2>1 DEF Numbers
  <2>3. u \in Stateful /\ nextSeq' = nextSeq + 1 /\ stored' = stored /\ Persist(TRUE)
    BY DEF Dispatch
  <2> QED BY <2>2, <2>3
<1>3. view = [mirrors |-> view.mirrors, seen |-> view.seen, outcome |-> view.outcome]
        /\ view.outcome \in [Numbers -> Outcome] /\ view.mirrors \in [Known(view) -> Mirrors(Told)]
        /\ Known(view) \subseteq Uris
  BY <1>1, PlainParts
<1>4. v = [mirrors |-> view.mirrors, seen |-> view.seen, outcome |-> o]
  <2> HIDE DEF o
  <2> QED BY <1>3
<1>5. view' = IF u \in Known(v)
               THEN Restate([v EXCEPT !.mirrors[u].pending = Append(@, n)], u) ELSE v
  <2> DEFINE x == [view EXCEPT !.outcome[nextSeq] = "open"]
  <2>1. view' = IF u \in Known(x)
                THEN Restate([x EXCEPT !.mirrors[u].pending = Append(@, nextSeq)], u) ELSE x
    BY DEF Dispatch
  <2>2. x = v
    OBVIOUS
  <2> HIDE DEF v, x
  <2> QED BY <2>1, <2>2
<1>6. o[n] = "open" /\ \A k \in Numbers \ {n} : o[k] = view.outcome[k]
  BY <1>2, <1>3
<1>7. \A t \in Known(view) : \A k \in Pend(view, t) :
        k \in Numbers /\ k < n /\ k # n /\ o[k] = "open" /\ t \in Stateful
  <2> HIDE DEF o
  <2>1. ASSUME NEW t \in Known(view), NEW k \in Pend(view, t)
        PROVE  k \in Numbers /\ k < n /\ t \in Stateful /\ view.outcome[k] = "open"
    BY <1>1, PendTyped DEF Standing
  <2>2. \A k \in Numbers : k < n => k # n
    BY <1>2 DEF Numbers
  <2> QED BY <1>6, <2>1, <2>2
<1> HIDE DEF o
<1>8. Known(v) = Known(view) /\ v.mirrors = view.mirrors /\ v.outcome = o
  BY <1>4 DEF Known
<1> HIDE DEF v
<1>9. /\ Known(view') = Known(view) /\ view'.outcome = o
      /\ \A t \in Known(view) \ {u} : Pend(view', t) = Pend(view, t)
      /\ u \in Known(view) => Pend(view', u) \subseteq Pend(view, u) \cup {n}
  <2>1. CASE u \notin Known(v)
    BY <1>5, <1>8, <2>1 DEF Pend
  <2>2. CASE u \in Known(v)
    <3>1. view.mirrors[u] \in Mirrors(Told) /\ p \in Seq(Numbers)
      BY <1>1, <1>8, <2>2, PendTyped
    <3>2. [v EXCEPT !.mirrors[u].pending = Append(@, n)] = w
      BY <1>8
    <3>3. Append(p, n) \in Seq(Numbers) /\ Range(Append(p, n)) \subseteq Range(p) \cup {n}
      <4> HIDE DEF n, p
      <4>1. Append(p, n) \in Seq(Numbers)
        BY <1>2, <3>1, AppendTyped
      <4>2. \A k \in DOMAIN Append(p, n) : Append(p, n)[k] = n \/ (k \in DOMAIN p /\ Append(p, n)[k] = p[k])
        BY <3>1
      <4> QED BY <4>1, <4>2 DEF Range
    <3>4. m \in Mirrors(Told) /\ m.pending = Append(p, n) /\ m.buffered \in Seq(For(Told, u))
      <4>1. view.mirrors[u].buffered \in Seq(For(Told, u))
        BY <1>1, <1>8, <2>2, PlainParts
      <4> QED BY <3>1, <3>3, <4>1 DEF Mirrors
    <3>5. v \in Plain(Told)
      <4>1. \A k \in Numbers : o[k] = "open" => k \in Numbers
        OBVIOUS
      <4>2. \A k \in Numbers : o[k] # view.outcome[k] => Witnessed(Told, k, o[k])
        BY <1>6 DEF Witnessed
      <4>3. o \in [Numbers -> Outcome]
        BY <1>2, <1>3 DEF o, Outcome
      <4>4. view \in Views(Told, Numbers, {}, Uris)
        BY <1>1 DEF Plain
      <4>5. [view EXCEPT !.outcome = o] \in Views(Told, Numbers, {}, Uris)
        BY <4>1, <4>2, <4>3, <4>4, OutcomesChanged
      <4> QED BY <4>5 DEF v, Plain
    <3> HIDE DEF m
    <3>6. /\ w \in Plain(Told) /\ Known(w) = Known(v) /\ w.outcome = v.outcome /\ w.mirrors[u] = m
          /\ \A t \in Known(v) \ {u} : w.mirrors[t] = v.mirrors[t]
      BY <2>2, <3>4, <3>5, PlainChanged
    <3> HIDE DEF w
    <3>7. /\ Known(Restate(w, u)) = Known(w) /\ Restate(w, u).outcome = w.outcome
          /\ \A t \in Known(w) : Pend(Restate(w, u), t) = Pend(w, t)
      <4>1. u \in Known(w)
        BY <2>2, <3>6
      <4> QED BY <3>6, <4>1, RestateLasts, RestateSame
    <3>8. view' = Restate(w, u)
      BY <1>5, <2>2, <3>2
    <3>9. Pend(w, u) \subseteq Pend(view, u) \cup {n}
      BY <3>3, <3>4, <3>6 DEF Pend
    <3>10. \A t \in Known(view) \ {u} : Pend(w, t) = Pend(view, t)
      BY <1>8, <3>6 DEF Pend
    <3> QED BY <1>8, <2>2, <3>6, <3>7, <3>8, <3>9, <3>10
  <2> QED BY <2>1, <2>2
<1>10. \A t \in Known(view') : \A k \in Pend(view', t) :
         \/ k \in Pend(view, t) \/ (t = u /\ k = n)
  BY <1>9
<1> HIDE DEF w, m, p
<1>11. Standing(view', n + 1)
  <2>1. Lone(view')
    <3>1. ASSUME NEW s \in Known(view'), NEW t \in Known(view'), s # t,
                 NEW k \in Pend(view', s) \cap Pend(view', t)
          PROVE  FALSE
      <4>1. s \in Known(view) /\ t \in Known(view)
        BY <1>9
      <4>2. k \notin Pend(view, s) \/ k \notin Pend(view, t)
        BY <1>1, <3>1, <4>1 DEF Lone
      <4> QED BY <1>7, <1>10, <3>1, <4>1, <4>2
    <3> QED BY <3>1 DEF Lone
  <2>2. ASSUME NEW t \in Known(view'), NEW k \in Pend(view', t)
        PROVE  view'.outcome[k] = "open" /\ k < n + 1 /\ t \in Stateful
    <3>1. CASE k \in Pend(view, t)
      <4>1. t \in Known(view)
        BY <1>9
      <4>2. k \in Numbers /\ k < n /\ o[k] = "open" /\ t \in Stateful
        BY <1>7, <3>1, <4>1
      <4>3. k < n + 1
        BY <1>2, <4>2 DEF Numbers
      <4> QED BY <1>9, <4>2, <4>3
    <3>2. CASE t = u /\ k = n
      BY <1>2, <1>6, <1>9, <3>2
    <3> QED BY <1>10, <3>1, <3>2
  <2> QED BY <2>1, <2>2 DEF Standing
<1> DEFINE now(k, t) == k < n + 1 /\ OnlyAt(view', k, t)
<1>12. \A t : \A k \in Numbers \cup {0} : Claims(k, t) => now(k, t)
  <2> SUFFICES ASSUME NEW k \in Numbers \cup {0}, NEW t, k < n, OnlyAt(view, k, t)
               PROVE  k < n + 1 /\ OnlyAt(view', k, t)
    BY <1>2 DEF Claims
  <2>1. k < n + 1 /\ k # n
    BY <1>2 DEF Numbers
  <2> QED BY <1>9, <1>10, <2>1 DEF OnlyAt
<1>13. now(n, u)
  <2>1. OnlyAt(view', n, u)
    BY <1>7, <1>9, <1>10 DEF OnlyAt
  <2> QED BY <1>2, <2>1
<1> HIDE DEF now
<1>14. ASSUME NEW r \in waiting', r.method = "dispatch"
       PROVE  now(r.n, r.uri)
  <2>1. waiting' = waiting \/ waiting' = waiting \cup {DispatchRequest(nextId, u, n)}
    BY DEF Dispatch, Ask, callState
  <2>2. CASE r \in waiting
    <3>1. Claims(r.n, r.uri) /\ r.n \in Numbers
      BY <1>14, <2>2 DEF PendingIsOpen, Types, ClientTypes, Issued, Requests
    <3> QED BY <1>12, <3>1
  <2>3. CASE r = DispatchRequest(nextId, u, n)
    <3>1. r.n = n /\ r.uri = u
      BY <2>3 DEF DispatchRequest
    <3> QED BY <1>13, <3>1
  <2> QED BY <2>1, <2>2, <2>3
<1>15. ASSUME NEW i \in DOMAIN flushing', flushing'[i].n # 0
       PROVE  now(flushing'[i].n, flushing'[i].uri)
  <2>1. flushing \in Seq(Flushes)
    BY DEF Types, ClientTypes
  <2> DEFINE f == Flush(n, u)
  <2>2. f.n = n /\ f.uri = u
    BY DEF Flush
  <2>3. flushing' = flushing \/ flushing' = Append(flushing, f)
    BY DEF Dispatch
  <2> HIDE DEF f
  <2>4. flushing'[i] = f \/ (i \in DOMAIN flushing /\ flushing'[i] = flushing[i])
    BY <2>1, <2>3
  <2>5. CASE flushing'[i] = f
    BY <1>13, <2>2, <2>5
  <2>6. CASE i \in DOMAIN flushing /\ flushing'[i] = flushing[i]
    <3> DEFINE k == flushing[i].n
               t == flushing[i].uri
    <3>1. flushing[i] \in Flushes
      BY <2>1, <2>6
    <3>2. k \in Numbers \cup {0}
      BY <3>1, ClientAssumption DEF Flushes, Numbers
    <3>3. Claims(k, t)
      BY <1>15, <2>6 DEF PendingIsOpen
    <3> HIDE DEF k, t
    <3>4. now(k, t)
      BY <1>12, <3>2, <3>3
    <3> QED BY <2>6, <3>4 DEF k, t
  <2> QED BY <2>4, <2>5, <2>6
<1>16. \A i \in DOMAIN saves' : Whole(saves'[i])
  <2>1. \A i \in DOMAIN saves' :
          Whole(saves'[i]) \/ saves'[i] = Checkpoint(view', subscribed', nextSeq')
    BY <1>2, SavesOfATurn
  <2>2. view' \in Plain(Told')
    <3>1. view' \in Views(Told, Numbers, {}, {})'
      BY DEF Types, ClientTypes
    <3> QED BY <3>1, ViewsMonotone DEF Plain
  <2>3. Whole(Checkpoint(view', subscribed', nextSeq'))
    BY <1>2, <1>11, <2>2, CheckpointWhole
  <2> QED BY <2>1, <2>3
<1> QED BY <1>2, <1>11, <1>14, <1>15, <1>16 DEF PendingIsOpen, Claims, now

\* A session that is torn down has nothing pending.
LEMMA TearDownPends ==
  ASSUME Types, TearDown
  PROVE  Lasts(view, view') /\ waiting' = {} /\ subscribed' = {}
<1>1. view \in Views(Told, Numbers, {}, {})
  BY DEF Types, ClientTypes
<1>2. view.outcome = view.outcome /\ view = [mirrors |-> view.mirrors, seen |-> view.seen, outcome |-> view.outcome]
  BY <1>1 DEF Views, ViewsOf
<1>3. PICK o : o = [n \in DOMAIN view.outcome |->
        IF n \in DOMAIN view.outcome /\ view.outcome[n] = "open" THEN "lost" ELSE view.outcome[n]]
  OBVIOUS
<1>4. SettleAll(view, DOMAIN view.outcome, "lost") =
        [mirrors |-> view.mirrors, seen |-> view.seen, outcome |-> o]
  BY <1>2, <1>3 DEF SettleAll
<1>5. view'.mirrors = << >>
  BY <1>4 DEF TearDown
<1>6. DOMAIN << >> = {}
  OBVIOUS
<1>7. Known(view') = {}
  BY <1>5, <1>6 DEF Known
<1> QED BY <1>7 DEF TearDown, Lasts

\* Frames that arrive.
LEMMA ReceivedPends ==
  ASSUME Types, Types', PendingIsOpen, UNCHANGED serverVars,
         ReceivePush \/ ReceiveAnswer \/ ReceiveLate
  PROVE  PendingIsOpen'
<1>1. Told' = Told
  BY DEF serverVars, hubVars, Told
<1>2. /\ view \in Plain(Told) /\ Lone(view) /\ Told \in SUBSET Envelopes
      /\ Lasts(view, view)
  BY ViewStands DEF Lasts
<1>3. CASE ReceivePush
  <2> DEFINE e == Head(down[reader])
  <2>1. /\ view' = Inbound(view, e) \/ view' = view
        /\ UNCHANGED <<waiting, nextSeq, flushing, stored>> /\ Persist(FALSE)
    BY <1>3 DEF ReceivePush, callState
  <2>2. e \in Told
    BY <1>3, IncomingTyped DEF ReceivePush
  <2> HIDE DEF e
  <2>3. Lasts(view, view')
    BY <1>2, <2>1, <2>2, InboundLasts
  <2> QED BY <1>1, <2>1, <2>3, PendingStays
<1>4. CASE ReceiveAnswer
  <2>1. PICK r \in waiting, result \in Results :
          /\ r \in Requests /\ Fits(r, result) /\ waiting' = waiting \ {r}
          /\ \/ result.type = "hello" /\ Welcome(r, result)
             \/ result.type \in {"replay", "snapshot"} /\ Resumed(result)
             \/ result.type = "subscribed" /\ Joined(r, result)
             \/ result.type \in {"envelope", "duplicate"} /\ Answered(r, result)
             \/ result.type = "error" /\ view' = Failure(view, r, "error")
    BY <1>4, AnswerFor
  <2>2. /\ UNCHANGED <<nextSeq, flushing, stored>> /\ \E must \in BOOLEAN : Persist(must)
    <3>1. \E q : Persist(q.method \in {"hello", "reconnect"} /\ ready')
      BY <1>4 DEF ReceiveAnswer
    <3>2. UNCHANGED <<nextSeq, flushing, stored>>
      BY <1>4 DEF ReceiveAnswer
    <3> QED BY <3>1, <3>2
  <2>3. Lasts(view, view')
    <3>1. CASE result.type = "hello" /\ Welcome(r, result)
      BY <2>1, <3>1, WelcomeLasts DEF Fits
    <3>2. CASE result.type \in {"replay", "snapshot"} /\ Resumed(result)
      BY <2>1, <3>2, ReplayLasts, SnapshotLasts DEF Fits, Resumed
    <3>3. CASE result.type = "subscribed" /\ Joined(r, result)
      BY <2>1, <3>3, JoinedLasts DEF Fits
    <3>4. CASE result.type \in {"envelope", "duplicate"} /\ Answered(r, result)
      BY <2>1, <3>4, AnsweredLasts
    <3>5. CASE result.type = "error" /\ view' = Failure(view, r, "error")
      <4>1. r.method = "dispatch" => OnlyAt(view, r.n, r.uri)
        BY DEF PendingIsOpen, Claims
      <4> QED BY <1>2, <2>1, <3>5, <4>1, FailureLasts
    <3> QED BY <2>1, <3>1, <3>2, <3>3, <3>4, <3>5
  <2>4. \A q \in waiting' : q \in waiting
    BY <2>1
  <2> QED BY <1>1, <2>2, <2>3, <2>4, PendingStays
<1>5. CASE ReceiveLate
  <2>1. UNCHANGED <<view, waiting, nextSeq, flushing, stored, saves>>
    BY <1>5 DEF ReceiveLate, clientVars, callState, saveState
  <2> QED BY <1>1, <1>2, <2>1, PendingStays
<1> QED BY <1>3, <1>4, <1>5

\* A request times out, or the link ends.
LEMMA FailedPends ==
  ASSUME Types, Types', PendingIsOpen, UNCHANGED serverVars,
         (\E r \in waiting : Timeout(r)) \/ EndOfStream
  PROVE  PendingIsOpen'
<1>1. Told' = Told
  BY DEF serverVars, hubVars, Told
<1>2. /\ view \in Plain(Told) /\ Lone(view)
      /\ \A r \in waiting : r \in Requests /\ (r.method = "dispatch" => OnlyAt(view, r.n, r.uri))
  BY ViewStands DEF PendingIsOpen, Claims, Types, ClientTypes, Issued
<1>3. ASSUME NEW r \in waiting, Timeout(r) PROVE PendingIsOpen'
  <2>1. /\ view' = Failure(view, r, "timeout") /\ waiting' = waiting \ {r}
        /\ UNCHANGED <<nextSeq, flushing, stored>> /\ Persist(FALSE)
    BY <1>3 DEF Timeout
  <2>2. Lasts(view, view')
    BY <1>2, <2>1, FailureLasts
  <2> QED BY <1>1, <2>1, <2>2, PendingStays
<1>4. CASE EndOfStream
  <2>1. /\ view' = Failures(view, waiting, "transport") /\ waiting' = {}
        /\ UNCHANGED <<nextSeq, flushing, stored>> /\ Persist(FALSE)
    BY <1>4 DEF EndOfStream
  <2>2. IsFiniteSet(waiting) /\ waiting \in SUBSET Requests
    BY <1>2 DEF Types, ClientTypes
  <2>3. Lasts(view, view')
    BY <1>2, <2>1, <2>2, FailuresLast
  <2> QED BY <1>1, <2>1, <2>3, PendingStays
<1> QED BY <1>3, <1>4

\* The application calls shutdown.
LEMMA ShutdownPends ==
  ASSUME Types, Types', PendingIsOpen, UNCHANGED serverVars, Shutdown
  PROVE  PendingIsOpen'
<1> DEFINE f == Flush(0, CHOOSE u \in Uris : TRUE)
<1>1. /\ TearDown \/ UNCHANGED <<view, waiting>>
      /\ UNCHANGED <<nextSeq, stored>> /\ Persist(TRUE)
      /\ flushing' = flushing \/ flushing' = Append(flushing, f)
  <2>1. /\ TearDown \/ UNCHANGED <<view, waiting>>
        /\ UNCHANGED <<nextSeq, stored>> /\ Persist(TRUE)
    BY DEF Shutdown
  <2>2. flushing' = flushing \/ flushing' = Append(flushing, f)
    BY DEF Shutdown
  <2> QED BY <2>1, <2>2
<1>2. f.n = 0
  BY DEF Flush
<1> HIDE DEF f
<1>3. Lasts(view, view') /\ waiting' \subseteq waiting
  <2>1. Lasts(view, view)
    BY DEF Lasts
  <2> QED BY <1>1, <2>1, TearDownPends
<1>4. \A i \in DOMAIN flushing' : flushing'[i].n # 0 =>
        Claims(flushing'[i].n, flushing'[i].uri)
  <2>1. flushing \in Seq(Flushes)
    BY DEF Types, ClientTypes
  <2>2. ASSUME NEW i \in DOMAIN flushing'
        PROVE  flushing'[i] = f \/ (i \in DOMAIN flushing /\ flushing'[i] = flushing[i])
    BY <1>1, <2>1
  <2> QED BY <1>2, <2>2 DEF PendingIsOpen
<1>5. view' \in Plain(Told)
  <2>1. view' \in Views(Told, Numbers, {}, {})'
    BY DEF Types, ClientTypes
  <2>2. Told' = Told
    BY DEF serverVars, hubVars, Told
  <2>3. view' \in Views(Told, Numbers, {}, {})
    BY <2>1, <2>2
  <2> QED BY <2>3, ViewsMonotone DEF Plain
<1>6. \A i \in DOMAIN saves' :
        Whole(saves'[i]) \/ saves'[i] = Checkpoint(view', subscribed', nextSeq')
  BY <1>1, SavesOfATurn
<1>7. \A r \in waiting' : r.method = "dispatch" => Claims(r.n, r.uri)
  BY <1>3 DEF PendingIsOpen
<1>8. stored' # None => Whole(stored')
  BY <1>1 DEF PendingIsOpen
<1> QED BY <1>1, <1>3, <1>4, <1>5, <1>6, <1>7, <1>8, PendingKept

\* What is sent for callers whose flush returns.
LEMMA SentFor ==
  ASSUME Types, NEW callers \in Seq(Flushes)
  PROVE  \A r \in Range(Sent(callers)) :
           \E i \in DOMAIN callers : callers[i].n # 0 /\ r.n = callers[i].n /\ r.uri = callers[i].uri
<1> DEFINE I == {i \in DOMAIN callers : callers[i].n # 0}
           ds == IF failed' \/ ~Connected THEN << >> ELSE Selected(callers, I)
           rs == [i \in DOMAIN ds |-> DispatchRequest(nextId + i - 1, ds[i].uri, ds[i].n)]
<1>1. Sent(callers) = rs
  BY DEF Sent
<1>2. I \in SUBSET (DOMAIN callers) /\ \A i \in I : callers[i].n # 0
  OBVIOUS
<1> HIDE DEF I
<1>3. \A k \in DOMAIN Selected(callers, I) : \E i \in I : Selected(callers, I)[k] = callers[i]
  BY <1>2, SelectedTyped
<1>4. \A k \in DOMAIN ds : \E i \in I : ds[k] = callers[i]
  <2>1. DOMAIN << >> = {}
    OBVIOUS
  <2> QED BY <1>3, <2>1
<1> HIDE DEF ds
<1>5. \A k \in DOMAIN rs : rs[k].n = ds[k].n /\ rs[k].uri = ds[k].uri /\ k \in DOMAIN ds
  BY DEF DispatchRequest
<1> HIDE DEF rs
<1> QED BY <1>1, <1>2, <1>4, <1>5 DEF Range

\* Whoever waits again for a save waited before.
LEMMA OldCallers ==
  ASSUME Types, Len(saves) > 1
  PROVE  \A k \in DOMAIN WaitAgain : \E i \in DOMAIN flushing :
           WaitAgain[k].n = flushing[i].n /\ WaitAgain[k].uri = flushing[i].uri
<1> DEFINE I == {i \in DOMAIN flushing : flushing[i].behind > 1}
           J == {i \in DOMAIN flushing : flushing[i].behind <= 1}
           R == [n : Int, uri : SomeUris, behind : Int]
           later == Selected(flushing, I)
           woken == Selected(flushing, J)
           p == [i \in DOMAIN later |-> [later[i] EXCEPT !.behind = @ - 1]]
           q == [i \in DOMAIN woken |-> [woken[i] EXCEPT !.behind = Len(saves) - 1]]
           old(w) == \E i \in DOMAIN flushing : w.n = flushing[i].n /\ w.uri = flushing[i].uri
<1>1. flushing \in Seq(Flushes) /\ Len(saves) - 1 \in Int
  BY DEF Types, ClientTypes
<1>2. WaitAgain = p \o q
  BY DEF WaitAgain
<1>4. I \in SUBSET (DOMAIN flushing) /\ J \in SUBSET (DOMAIN flushing)
  OBVIOUS
<1> HIDE DEF I, J
<1>5. later \in Seq(Flushes) /\ \A k \in DOMAIN later : \E i \in I : later[k] = flushing[i]
  BY <1>1, <1>4, SelectedTyped
<1>6. woken \in Seq(Flushes) /\ \A k \in DOMAIN woken : \E i \in J : woken[k] = flushing[i]
  BY <1>1, <1>4, SelectedTyped
<1> HIDE DEF later, woken
<1>7. p \in Seq(R) /\ \A k \in DOMAIN p : old(p[k])
  <2>1. DOMAIN later = 1..Len(later) /\ Len(later) \in Nat
    BY <1>5
  <2>2. \A k \in DOMAIN later : later[k] \in Flushes /\ \E i \in DOMAIN flushing : later[k] = flushing[i]
    BY <1>4, <1>5
  <2>3. ASSUME NEW k \in DOMAIN later
        PROVE  [later[k] EXCEPT !.behind = @ - 1] \in R /\ old([later[k] EXCEPT !.behind = @ - 1])
    <3>1. later[k] \in Flushes
      BY <2>2
    <3>2. [later[k] EXCEPT !.behind = @ - 1] \in R
            /\ [later[k] EXCEPT !.behind = @ - 1].n = later[k].n
            /\ [later[k] EXCEPT !.behind = @ - 1].uri = later[k].uri
      BY <3>1, ClientAssumption DEF Flushes
    <3> QED BY <2>2, <3>2
  <2>4. DOMAIN p = 1..Len(later) /\ \A k \in DOMAIN p : p[k] = [later[k] EXCEPT !.behind = @ - 1]
    BY <2>1
  <2>5. p \in Seq(R)
    <3> HIDE DEF R, old
    <3> QED BY <2>1, <2>3
  <2> HIDE DEF R, p, old
  <2>6. \A k \in DOMAIN p : old(p[k])
    BY <2>1, <2>3, <2>4
  <2> QED BY <2>5, <2>6
<1>8. q \in Seq(R) /\ \A k \in DOMAIN q : old(q[k])
  <2>1. DOMAIN woken = 1..Len(woken) /\ Len(woken) \in Nat
    BY <1>6
  <2>2. \A k \in DOMAIN woken : woken[k] \in Flushes /\ \E i \in DOMAIN flushing : woken[k] = flushing[i]
    BY <1>4, <1>6
  <2> DEFINE b == Len(saves) - 1
  <2>3. ASSUME NEW k \in DOMAIN woken
        PROVE  [woken[k] EXCEPT !.behind = b] \in R /\ old([woken[k] EXCEPT !.behind = b])
    <3>1. woken[k] \in Flushes /\ b \in Int
      BY <1>1, <2>2
    <3> HIDE DEF b
    <3>2. [woken[k] EXCEPT !.behind = b] \in R
            /\ [woken[k] EXCEPT !.behind = b].n = woken[k].n
            /\ [woken[k] EXCEPT !.behind = b].uri = woken[k].uri
      BY <3>1, ClientAssumption DEF Flushes
    <3> QED BY <2>2, <3>2
  <2>4. DOMAIN q = 1..Len(woken) /\ \A k \in DOMAIN q : q[k] = [woken[k] EXCEPT !.behind = b]
    BY <2>1
  <2>5. q \in Seq(R)
    <3> HIDE DEF R, old
    <3> QED BY <2>1, <2>3
  <2> HIDE DEF R, q, old
  <2>6. \A k \in DOMAIN q : old(q[k])
    BY <2>1, <2>3, <2>4
  <2> QED BY <2>5, <2>6
<1> HIDE DEF p, q, R
<1> DEFINE c == p \o q
<1>9. ASSUME NEW k \in DOMAIN c
      PROVE  (k \in DOMAIN p /\ c[k] = p[k]) \/ (\E j \in DOMAIN q : c[k] = q[j])
  <2>1. k \in 1..(Len(p) + Len(q)) /\ Len(p) \in Nat /\ Len(q) \in Nat
    BY <1>7, <1>8
  <2>2. CASE k <= Len(p)
    BY <1>7, <1>8, <2>1, <2>2
  <2>3. CASE k > Len(p)
    <3>1. k - Len(p) \in DOMAIN q /\ c[k] = q[k - Len(p)]
      BY <1>7, <1>8, <2>1, <2>3
    <3> QED BY <3>1
  <2> QED BY <2>1, <2>2, <2>3
<1> HIDE DEF c
<1>10. \A k \in DOMAIN c : old(c[k])
  <2> HIDE DEF old
  <2> QED BY <1>7, <1>8, <1>9
<1> QED BY <1>2, <1>10 DEF c

\* A save has ended, well or not.
LEMMA SaveEndsPends ==
  ASSUME Types, Types', PendingIsOpen, UNCHANGED serverVars, NEW ok \in BOOLEAN, SaveEnds(ok)
  PROVE  PendingIsOpen'
<1>1. saves # << >> /\ nextSeq' = nextSeq /\ stored' \in {stored, Head(saves)}
  BY DEF SaveEnds
<1>2. saves \in Seq(Checkpoints) /\ flushing \in Seq(Flushes)
  BY DEF Types, ClientTypes
<1>3. stored' # None => Whole(stored')
  <2>1. Head(saves) = saves[1] /\ 1 \in DOMAIN saves
    BY <1>1, <1>2
  <2> QED BY <1>1, <2>1 DEF PendingIsOpen
<1>4. view' \in Plain(Told)
  <2>1. view' \in Views(Told, Numbers, {}, {})'
    BY DEF Types, ClientTypes
  <2>2. Told' = Told
    BY DEF serverVars, hubVars, Told
  <2>3. view' \in Views(Told, Numbers, {}, {})
    BY <2>1, <2>2
  <2> QED BY <2>3, ViewsMonotone DEF Plain
<1>5. DOMAIN << >> = {}
  OBVIOUS
<1>6. CASE Len(saves) > 1 /\ flushing' = WaitAgain /\ saves' = Tail(saves)
             /\ UNCHANGED <<waiting, view>>
  <2>1. Lasts(view, view')
    BY <1>6 DEF Lasts
  <2>2. \A i \in DOMAIN saves' : Whole(saves'[i])
    <3>1. ASSUME NEW i \in DOMAIN Tail(saves)
          PROVE  i + 1 \in DOMAIN saves /\ Tail(saves)[i] = saves[i + 1]
      BY <1>1, <1>2
    <3> QED BY <1>6, <3>1 DEF PendingIsOpen
  <2>3. \A i \in DOMAIN flushing' : flushing'[i].n # 0 =>
          Claims(flushing'[i].n, flushing'[i].uri)
    BY <1>6, OldCallers DEF PendingIsOpen
  <2>4. \A r \in waiting' : r.method = "dispatch" => Claims(r.n, r.uri)
    BY <1>6 DEF PendingIsOpen
  <2> QED BY <1>1, <1>3, <1>4, <2>1, <2>2, <2>3, <2>4, PendingKept
<1>7. CASE Flushed
  <2>1. PICK callers \in Seq(Flushes) :
          /\ SendAll(Sent(callers))
          /\ \/ TearDown /\ saves' = << >>
             \/ /\ callers = flushing /\ view' = ReleaseAll(view, flushing)
                /\ \A i \in DOMAIN flushing : flushing[i].n # 0
                /\ waiting' = waiting \cup Range(Sent(callers))
                /\ saves' = IF view' # view /\ writable
                            THEN <<Checkpoint(view', subscribed, nextSeq)>> ELSE << >>
                /\ UNCHANGED <<reader, down, ready, early, done, subscribed>>
    BY <1>7, FlushedParts
  <2>2. flushing' = << >>
    BY <1>7 DEF Flushed
  <2>3. \A i \in DOMAIN flushing' : flushing'[i].n # 0 =>
          Claims(flushing'[i].n, flushing'[i].uri)
    BY <1>5, <2>2
  <2>4. CASE TearDown /\ saves' = << >>
    <3>1. Lasts(view, view') /\ waiting' = {}
      BY <2>4, TearDownPends
    <3>2. \A i \in DOMAIN saves' : Whole(saves'[i])
      BY <1>5, <2>4
    <3>3. \A r \in waiting' : r.method = "dispatch" => Claims(r.n, r.uri)
      BY <3>1
    <3> QED BY <1>1, <1>3, <1>4, <2>3, <3>1, <3>2, <3>3, PendingKept
  <2>5. CASE /\ callers = flushing /\ view' = ReleaseAll(view, flushing)
             /\ \A i \in DOMAIN flushing : flushing[i].n # 0
             /\ waiting' = waiting \cup Range(Sent(callers))
             /\ saves' = IF view' # view /\ writable
                         THEN <<Checkpoint(view', subscribed, nextSeq)>> ELSE << >>
             /\ UNCHANGED <<reader, down, ready, early, done, subscribed>>
    <3>1. \A i \in DOMAIN flushing : flushing[i].n # 0 /\ OnlyAt(view, flushing[i].n, flushing[i].uri)
      BY <2>5 DEF PendingIsOpen, Claims
    <3>2. Lasts(view, view')
      BY <1>2, <2>5, <3>1, ViewStands, ReleaseLasts
    <3>3. \A r \in waiting' : r.method = "dispatch" => Claims(r.n, r.uri)
      <4>1. \A r \in Range(Sent(flushing)) : Claims(r.n, r.uri)
        BY <1>2, SentFor DEF PendingIsOpen
      <4> QED BY <2>5, <4>1 DEF PendingIsOpen
    <3>4. \A i \in DOMAIN saves' : saves'[i] = Checkpoint(view', subscribed', nextSeq')
      <4> DEFINE c == Checkpoint(view', subscribed', nextSeq')
      <4>1. saves' = << >> \/ saves' = <<c>>
        BY <1>1, <2>5
      <4> HIDE DEF c
      <4>2. \A i \in DOMAIN <<c>> : <<c>>[i] = c
        OBVIOUS
      <4> QED BY <1>5, <4>1, <4>2 DEF c
    <3> QED BY <1>1, <1>3, <1>4, <2>3, <3>2, <3>3, <3>4, PendingKept
  <2> QED BY <2>1, <2>4, <2>5
<1>8. \/ Flushed
      \/ Len(saves) > 1 /\ flushing' = WaitAgain /\ saves' = Tail(saves)
           /\ UNCHANGED <<waiting, view>>
  BY DEF SaveEnds
<1> QED BY <1>6, <1>7, <1>8

\* A new process restores the last checkpoint: what was pending is pending again.
LEMMA RestorePends ==
  ASSUME Types, PendingIsOpen, UNCHANGED serverVars, Restore
  PROVE  PendingIsOpen'
<1> DEFINE us == DOMAIN stored.channels
           cs == stored.channels
           open == UNION {Range(stored.channels[u].pending) : u \in us}
<1>1. /\ nextSeq' = stored.nextSeq /\ stored' = stored /\ waiting' = {}
      /\ saves' = << >> /\ flushing' = << >>
  BY DEF Restore
<1>2. stored \in Checkpoints /\ Whole(stored) /\ stored # None
  BY DEF Restore, Types, ClientTypes, PendingIsOpen
<1>3. /\ stored.nextSeq \in 1..(MaxDispatch + 1) /\ us \subseteq Uris
      /\ \A u \in us : cs[u].pending \in Seq(Numbers)
  BY <1>2 DEF Checkpoints
<1>4. PICK o : o = [n \in 1..MaxDispatch |->
                   IF n >= stored.nextSeq THEN "unused"
                   ELSE IF n \in open THEN "open"
                   ELSE IF view.outcome[n] = "open" THEN "lost" ELSE view.outcome[n]]
  OBVIOUS
<1>5. PICK mirrors : mirrors = [u \in us |-> Restated([NewMirror(TRUE) EXCEPT
            !.confirmed = stored.channels[u].confirmed, !.applied = stored.channels[u].applied,
            !.pending = stored.channels[u].pending])]
  OBVIOUS
<1>6. view' = [mirrors |-> mirrors, seen |-> stored.seen, outcome |-> o]
  BY <1>4, <1>5 DEF Restore
<1>7. view'.mirrors = mirrors /\ view'.outcome = o
  BY <1>6
<1>8. ASSUME NEW u \in us PROVE mirrors[u].pending = cs[u].pending
  <2>1. mirrors[u] = Restated([NewMirror(TRUE) EXCEPT
            !.confirmed = stored.channels[u].confirmed, !.applied = stored.channels[u].applied,
            !.pending = stored.channels[u].pending])
    BY <1>5
  <2> QED BY <2>1 DEF Restated, NewMirror
<1>9. Known(view') = us /\ \A u \in us : Pend(view', u) = Range(cs[u].pending)
  <2>1. DOMAIN mirrors = us
    BY <1>5
  <2> QED BY <1>7, <1>8, <2>1 DEF Known, Pend
<1>10. ASSUME NEW u \in us, NEW n \in Range(cs[u].pending)
       PROVE  o[n] = "open" /\ n < stored.nextSeq /\ u \in Stateful
  <2>1. n < stored.nextSeq /\ u \in Stateful
    BY <1>2 DEF Whole
  <2>2. n \in Numbers
    BY <1>3 DEF Range
  <2>3. n \in open
    BY Zenon
  <2>4. ~(n >= stored.nextSeq)
    BY <1>3, <2>1, <2>2 DEF Numbers
  <2> QED BY <1>4, <2>1, <2>2, <2>3, <2>4 DEF Numbers
<1>11. Standing(view', nextSeq')
  <2>1. Lone(view')
    BY <1>2, <1>9 DEF Lone, Whole
  <2> QED BY <1>1, <1>7, <1>9, <1>10, <2>1 DEF Standing
<1>12. DOMAIN << >> = {}
  OBVIOUS
<1> QED BY <1>1, <1>2, <1>11, <1>12 DEF PendingIsOpen

\* Nothing is pending at the start.
LEMMA InitPends ==
  ASSUME Init
  PROVE  PendingIsOpen
<1>1. /\ view.mirrors = << >> /\ waiting = {} /\ saves = << >> /\ flushing = << >>
      /\ stored = None
  BY DEF Init, ClientInit
<1>2. DOMAIN << >> = {}
  OBVIOUS
<1>3. Known(view) = {}
  BY <1>1, <1>2 DEF Known
<1> QED BY <1>1, <1>2, <1>3 DEF PendingIsOpen, Standing, Lone

\* The hub does not touch it.
LEMMA PendingFrame ==
  ASSUME PendingIsOpen, UNCHANGED clientVars
  PROVE  PendingIsOpen'
<1>1. UNCHANGED <<view, nextSeq, waiting, flushing, saves, stored>>
  BY DEF clientVars, callState, saveState
<1> QED BY <1>1 DEF PendingIsOpen, Standing, Lone, Claims, OnlyAt, Pend, Known

\* Every step, of the client or of the hub, keeps each pending action open or on its way to
\* be answered.
LEMMA StepPends ==
  ASSUME Types, Types', PendingIsOpen, [Next]_vars
  PROVE  PendingIsOpen'
<1>1. CASE UNCHANGED clientVars
  BY <1>1, PendingFrame
<1>2. CASE \/ \E us \in SUBSET Uris : Hello(us) /\ UNCHANGED serverVars
           \/ \E s \in Sockets : Reconnect(s) /\ UNCHANGED serverVars
           \/ \E u \in Uris : Subscribe(u) /\ UNCHANGED serverVars
           \/ \E u \in Uris : Unsubscribe(u) /\ UNCHANGED serverVars
           \/ \E u \in Uris : Dispatch(u) /\ UNCHANGED serverVars
           \/ Shutdown /\ UNCHANGED serverVars
  BY <1>2, CallsPend, DispatchPends, ShutdownPends
<1>3. CASE \/ ReceivePush /\ UNCHANGED serverVars
           \/ ReceiveAnswer /\ UNCHANGED serverVars
           \/ ReceiveLate /\ UNCHANGED serverVars
           \/ EndOfStream /\ UNCHANGED serverVars
           \/ \E r \in waiting : Timeout(r) /\ UNCHANGED serverVars
           \/ \E ok \in BOOLEAN : SaveEnds(ok) /\ UNCHANGED serverVars
           \/ Restore /\ UNCHANGED serverVars
  BY <1>3, ReceivedPends, FailedPends, SaveEndsPends, RestorePends
<1>4. CASE UNCHANGED vars
  BY <1>1, <1>4 DEF vars
<1> QED BY <1>1, <1>2, <1>3, <1>4 DEF Next

\* What the client shows as pending is open, on one channel, and numbered below the next
\* dispatch, in the view, in every checkpoint and after a restart from one (#settle,
\* #echo, #discard, #lose, checkpointOf and #restore): no action stays on top of a state
\* after its caller was told how it ended.
THEOREM PendingStaysOpen == Spec => []PendingIsOpen
<1>1. Init => PendingIsOpen
  BY InitPends
<1>2. Types /\ Types' /\ PendingIsOpen /\ [Next]_vars => PendingIsOpen'
  BY StepPends
<1> QED BY <1>1, <1>2, SessionInvariance, PTL DEF Spec

=============================================================================
