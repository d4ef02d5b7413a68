----------------------------- MODULE Background -----------------------------
(***************************************************************************)
(* Background tasks of hub.ts: what ctx.background launches, what stops    *)
(* it, and close().  A task belongs to the URI of the context that         *)
(* launched it and shares an AbortController with the tasks of that URI; a *)
(* controller is named by the task it was made for.  Host code keeps its   *)
(* word (README.md:349): a task looks at its signal after every await and, *)
(* once aborted, does nothing but return.                                  *)
(***************************************************************************)
EXTENDS HubProperties

CONSTANT MaxTasks   \* bound: tasks that are ever launched

Tasks == 1..MaxTasks

ASSUME TaskAssumption == MaxTasks \in Nat /\ None \notin Tasks

VARIABLES
  task,       \* by task: where it is, its URI, its signal, the call it waits for
  aborters,   \* #aborters: the controller of a URI, or None
  aborted,    \* controllers that were aborted
  closing     \* close(): "no" (#closed is false), "waiting" or "done"

taskVars == <<task, aborters, aborted, closing>>
allVars  == <<vars, taskVars>>

Unborn == [at |-> "unborn", uri |-> None, signal |-> None, child |-> None]

BackgroundInit ==
  /\ Init
  /\ task = [t \in Tasks |-> Unborn]
  /\ aborters = [u \in Uris |-> None] /\ aborted = {} /\ closing = "no"

\* #running
Running == {t \in Tasks : task[t].at \in {"running", "awaiting"}}

Stopped(t) == task[t].signal \in aborted

-----------------------------------------------------------------------------
\* Mutant: every task gets a controller, and the URI keeps the latest.
BackgroundAlone(u) ==
  /\ closing = "no"
  /\ \E t \in Tasks :
       /\ \A s \in Tasks : task[s].at = "unborn" <=> s >= t
       /\ task' = [task EXCEPT ![t] = [Unborn EXCEPT !.at = "running", !.uri = u, !.signal = t]]
       /\ aborters' = [aborters EXCEPT ![u] = t]
  /\ UNCHANGED <<aborted, closing>>

\* #background: runs at once, under the controller of its URI; refused when closed.
Launch(u) ==
  /\ closing = "no"
  /\ \E t \in Tasks :
       LET controller == IF aborters[u] = None THEN t ELSE aborters[u] IN
       /\ \A s \in Tasks : task[s].at = "unborn" <=> s >= t
       /\ task' = [task EXCEPT ![t] =
                     [Unborn EXCEPT !.at = "running", !.uri = u, !.signal = controller]]
       /\ aborters' = [aborters EXCEPT ![u] = controller]
  /\ UNCHANGED <<aborted, closing>>

\* #abortBackground, of some URIs.
Abort(us) ==
  /\ aborted' = aborted \cup ({aborters[u] : u \in us} \ {None})
  /\ aborters' = [u \in Uris |-> IF u \in us THEN None ELSE aborters[u]]

\* Contexts that are in use: those of handlers, effects and tasks.
Contexts == {arg[c].uri : c \in {d \in Calls : pc[d] = "running"}}
              \cup {task[t].uri : t \in {s \in Tasks : task[s].at = "running" /\ ~Stopped(s)}}

\* Host code calls ctx.background or ctx.abortBackground.
HostLaunches == \E u \in Contexts : Launch(u) /\ UNCHANGED vars

HostAborts ==
  \E u \in Contexts :
    /\ aborters[u] # None /\ Abort({u})
    /\ UNCHANGED <<vars, task, closing>>

\* A task dispatches and waits for the call; what that throws is the task's affair.
TaskDispatches(t) ==
  /\ task[t].at = "running" /\ ~Stopped(t)
  /\ \E d \in Calls, r \in Requests :
       /\ pc[d] = "idle" /\ r.op = "dispatch"
       /\ pc' = [pc EXCEPT ![d] = "begin"] /\ arg' = [arg EXCEPT ![d] = r]
       /\ task' = [task EXCEPT ![t].at = "awaiting", ![t].child = d]
  /\ UNCHANGED <<frame, seqVars, instVars, lock, ring, linkVars, storeVars, histVars,
                 aborters, aborted, closing>>

TaskResumes(t) ==
  /\ task[t].at = "awaiting" /\ pc[task[t].child] \in Settled
  /\ task' = [task EXCEPT ![t].at = "running", ![t].child = None]
  /\ UNCHANGED <<vars, aborters, aborted, closing>>

\* Returned or thrown: it leaves #running.
TaskEnds(t) ==
  /\ task[t].at = "running"
  /\ task' = [task EXCEPT ![t].at = "ended"]
  /\ UNCHANGED <<vars, aborters, aborted, closing>>

\* Mutant: close waits without telling anybody.
CloseUnaborted ==
  /\ closing = "no" /\ closing' = "waiting"
  /\ UNCHANGED <<vars, task, aborters, aborted>>

\* close: no new task from here on, every task is aborted ...
Close ==
  /\ closing = "no" /\ closing' = "waiting"
  /\ Abort(Uris)
  /\ UNCHANGED <<vars, task>>

\* ... and it waits until none runs.
Closed ==
  /\ closing = "waiting" /\ Running = {}
  /\ closing' = "done"
  /\ UNCHANGED <<vars, task, aborters, aborted>>

\* The URIs whose destroy deletes the stored state in this turn: it aborts their tasks.
Destroying == {frame[c].uri : c \in {d \in Calls : pc[d] = "have" /\ pc'[d] = "deleting"}}

Aside == Abort(Destroying) /\ UNCHANGED <<task, closing>>

HubResumes(c) == Resume(c) /\ Aside

BackgroundNext ==
  \/ Next /\ Aside
  \/ HostLaunches \/ HostAborts \/ Close \/ Closed
  \/ \E t \in Tasks : TaskDispatches(t) \/ TaskResumes(t) \/ TaskEnds(t)

\* The event loop is fair to the hub, and to the tasks: an aborted one returns.
BackgroundFairness ==
  /\ WF_allVars(Hydrate /\ Aside) /\ \A c \in Calls : WF_allVars(HubResumes(c))
  /\ WF_allVars(Closed)
  /\ \A t \in Tasks : WF_allVars(TaskResumes(t)) /\ WF_allVars(Stopped(t) /\ TaskEnds(t))

BackgroundSpec == BackgroundInit /\ [][BackgroundNext]_allVars /\ BackgroundFairness

-----------------------------------------------------------------------------
\* No task escapes: whoever runs without having been told to stop can still be told so, by
\* the next abort of its URI or by close; and when close has resolved, none runs.
NoTaskEscapes ==
  /\ \A t \in Running : ~Stopped(t) => aborters[task[t].uri] = task[t].signal
  /\ closing # "no" => \A t \in Running : Stopped(t)
  /\ closing = "done" => Running = {}

\* close resolves, whatever the tasks were waiting for: the hub goes on committing what
\* they have dispatched.
CloseSettles == closing = "waiting" ~> closing = "done"
=============================================================================
