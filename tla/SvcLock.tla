------------------------------- MODULE SvcLock -------------------------------
(***************************************************************************)
(* The service manager of the modes sshcontainer_vm and full_k8s_gcp: a    *)
(* request of a team or an administrator is refused while the pending list *)
(* of the service holds a row that is not done, and is otherwise published *)
(* as a task and then entered in the list; a worker takes a task, runs it  *)
(* and closes a row of the list.  The list is meant to be a lock on the    *)
(* service.  What a task does to the service is left to the modules that   *)
(* extend this one; here a task may raise or not.                          *)
(*                                                                         *)
(* sshcontainer_vm closes the row in a finally, full_k8s_gcp only when the *)
(* task did not raise; the request handlers of the two are the same.       *)
(***************************************************************************)
EXTENDS Naturals, Sequences, FiniteSets

CONSTANTS
  Services,        \* pairs of a team and a challenge
  Actions,         \* what a request may ask for
  Handlers,        \* requests the webapp serves at once
  Workers,         \* svcmanager workers
  NoTask,          \* an idle handler or worker
  ReleaseOnError,  \* a task that raises closes its row
  Overtaking,      \* a task may be finished before its row is inserted
  MaxRequests,     \* bound: requests that pass the check
  MaxDeaths,       \* bound: requests that die between publish and insert
  MaxCrashes       \* bound: workers that die with a task

Tasks == [svc : Services, act : Actions]

ASSUME SvcLockAssumption ==
  /\ ReleaseOnError \in BOOLEAN /\ Overtaking \in BOOLEAN
  /\ MaxRequests \in Nat /\ MaxDeaths \in Nat /\ MaxCrashes \in Nat
  /\ NoTask \notin Tasks

ASSUME FiniteAssumption == IsFiniteSet(Handlers) /\ IsFiniteSet(Workers)

VARIABLES
  open,     \* open[s]: rows of the pending list with is_done = false
  queue,    \* the durable queue svcmanager_task
  pc,       \* pc[h]: "idle", "publish", "insert"; or "refused" until the next request
  asked,    \* asked[h]: the task of the request h serves
  work,     \* work[w]: the task of w, or NoTask
  requests, deaths, crashes

lockVars == <<open, queue, pc, asked, work, requests, deaths, crashes>>

\* Tasks of s that were published and not yet finished, wherever they are.
Queued(s) == {i \in 1..Len(queue) : queue[i].svc = s}
RunBy(s) == {w \in Workers : work[w] # NoTask /\ work[w].svc = s}
\* Requests for s that passed the check and have not published their task yet, and
\* those whose task is published and whose row is not inserted.
Publishing(s) == {h \in Handlers : pc[h] = "publish" /\ asked[h].svc = s}
Inserting(s) == {h \in Handlers : pc[h] = "insert" /\ asked[h].svc = s}

\* The service has a task that was published and is not finished.
Busy(s) == Queued(s) # {} \/ RunBy(s) # {}

LockInit ==
  /\ open = [s \in Services |-> 0]
  /\ queue = <<>>
  /\ pc = [h \in Handlers |-> "idle"]
  /\ asked = [h \in Handlers |-> NoTask]
  /\ work = [w \in Workers |-> NoTask]
  /\ requests = 0 /\ deaths = 0 /\ crashes = 0

-----------------------------------------------------------------------------
(* The webapp. *)

\* Mutant: the check is dropped.
PendingNever(s) == FALSE
\* The service has a row that is not done.
Pending(s) == open[s] > 0

\* A request that passed authorisation looks at the pending list.
Ask(h, t) ==
  /\ pc[h] \in {"idle", "refused"}
  /\ ~Pending(t.svc)
  /\ requests < MaxRequests
  /\ requests' = requests + 1
  /\ pc' = [pc EXCEPT ![h] = "publish"]
  /\ asked' = [asked EXCEPT ![h] = t]
  /\ UNCHANGED <<open, queue, work, deaths, crashes>>

\* "the last request still in progress."
Refuse(h, s) ==
  /\ pc[h] = "idle"
  /\ Pending(s)
  /\ pc' = [pc EXCEPT ![h] = "refused"]
  /\ UNCHANGED <<open, queue, asked, work, requests, deaths, crashes>>

Publish(h) ==
  /\ pc[h] = "publish"
  /\ queue' = Append(queue, asked[h])
  /\ pc' = [pc EXCEPT ![h] = "insert"]
  /\ UNCHANGED <<open, asked, work, requests, deaths, crashes>>

Insert(h) ==
  /\ pc[h] = "insert"
  /\ open' = [open EXCEPT ![asked[h].svc] = @ + 1]
  /\ pc' = [pc EXCEPT ![h] = "idle"]
  /\ asked' = [asked EXCEPT ![h] = NoTask]
  /\ UNCHANGED <<queue, work, requests, deaths, crashes>>

\* The broker or the database cannot be reached, or the webapp is restarted.
RequestDies(h) ==
  /\ pc[h] \in {"publish", "insert"}
  /\ deaths < MaxDeaths
  /\ deaths' = deaths + 1
  /\ pc' = [pc EXCEPT ![h] = "idle"]
  /\ asked' = [asked EXCEPT ![h] = NoTask]
  /\ UNCHANGED <<open, queue, work, requests, crashes>>

-----------------------------------------------------------------------------
(* The workers. *)

\* svcmanager_task acknowledges the task before it runs it.
Take(w) ==
  /\ work[w] = NoTask
  /\ queue # <<>>
  /\ work' = [work EXCEPT ![w] = Head(queue)]
  /\ queue' = Tail(queue)
  /\ UNCHANGED <<open, pc, asked, requests, deaths, crashes>>

\* Mutant: every row of the service is marked done.
CloseAll(s) == 0
\* The first row that is not done, if there is one, is marked done.
Close(s) == IF open[s] > 0 THEN open[s] - 1 ELSE 0

\* Mutant: sshcontainer_vm without its finally.
ReleasesOnlyDone(raised) == ~raised
\* Whether the end of a task closes its row.
Releases(raised) == ReleaseOnError \/ ~raised

Finish(w, raised) ==
  /\ work[w] # NoTask
  /\ Overtaking \/ Inserting(work[w].svc) = {}
  /\ open' = IF Releases(raised)
             THEN [open EXCEPT ![work[w].svc] = Close(work[w].svc)] ELSE open
  /\ work' = [work EXCEPT ![w] = NoTask]
  /\ UNCHANGED <<queue, pc, asked, requests, deaths, crashes>>

\* The worker dies with its task, which was acknowledged, and is started again.
WorkerCrash(w) ==
  /\ work[w] # NoTask
  /\ crashes < MaxCrashes
  /\ crashes' = crashes + 1
  /\ work' = [work EXCEPT ![w] = NoTask]
  /\ UNCHANGED <<open, queue, pc, asked, requests, deaths>>

-----------------------------------------------------------------------------
RequestStep(h) ==
  \/ \E t \in Tasks : Ask(h, t)
  \/ \E s \in Services : Refuse(h, s)
  \/ Publish(h)
  \/ Insert(h)
  \/ RequestDies(h)

LockNext ==
  \/ \E h \in Handlers : RequestStep(h)
  \/ \E w \in Workers : Take(w) \/ (\E raised \in BOOLEAN : Finish(w, raised)) \/ WorkerCrash(w)

LockSpec == LockInit /\ [][LockNext]_lockVars

-----------------------------------------------------------------------------
(* Properties. *)

LockTypeOK ==
  /\ open \in [Services -> Nat]
  /\ queue \in Seq(Tasks)
  /\ pc \in [Handlers -> {"idle", "publish", "insert", "refused"}]
  /\ asked \in [Handlers -> Tasks \union {NoTask}]
  /\ \A h \in Handlers : pc[h] \in {"publish", "insert"} => asked[h] \in Tasks
  /\ work \in [Workers -> Tasks \union {NoTask}]
  /\ requests \in Nat /\ deaths \in Nat /\ crashes \in Nat

\* While a service has tasks, each has its row, or a request that is about to
\* insert it; every request that died in between leaves at most one task without.
\* Workers may finish in any order, raise or die, and rows may be inserted late
\* (handler_svcmanager_request, handler_svcmanager_task).
LockCoversTasks ==
  \A s \in Services :
    Cardinality(Queued(s)) + Cardinality(RunBy(s)) <= open[s] + Cardinality(Inserting(s)) + deaths

\* However many requests race, and whatever their tasks do, a service never has more
\* tasks than the webapp serves requests at once, and one for each request that
\* died between publish and insert (handler_svcmanager_request).
TasksBounded ==
  \A s \in Services :
    Cardinality(Queued(s)) + Cardinality(RunBy(s)) + Cardinality(Publishing(s))
      <= Cardinality(Handlers) + deaths

\* The pending list bounds what is in flight: every task has its row, and the rows and the
\* requests at work are few, but for what died (handler_svcmanager_request).
TasksCovered == LockCoversTasks /\ TasksBounded

\* Requests served one at a time never put two tasks of a service in flight, with
\* any number of workers: what the pending list is for.
AtMostOneTask ==
  \A s \in Services :
    /\ \A i, j \in Queued(s) : i = j
    /\ \A v, w \in RunBy(s) : v = w
    /\ Queued(s) = {} \/ RunBy(s) = {}

\* What AtMostOneTask rests on: a service with a task has a row or is about to, and a
\* request that has passed the check is for a service without tasks.
SerialInv ==
  /\ AtMostOneTask
  /\ \A s \in Services : Busy(s) => Pending(s) \/ Inserting(s) # {}
  /\ \A h \in Handlers : pc[h] = "publish" => ~Busy(asked[h].svc)

\* A service that has a pending row gets rid of it, unless a worker died with a task:
\* it is not locked for ever (handler_svcmanager_task).
LockReleased == \A s \in Services : Pending(s) ~> ~Pending(s) \/ crashes > 0
=============================================================================
