------------------------------ MODULE K8sService ------------------------------
(***************************************************************************)
(* The services of the mode full_k8s_gcp: what the tasks of SvcLock do.    *)
(* A service has a row, a config map and a deployment of its own, and its  *)
(* ports in the load balancer of its team, which is read, changed and      *)
(* replaced as a whole.  Errors of the Kubernetes interface are logged and *)
(* the task goes on; any other exception ends the task, and so leaves its  *)
(* row of the pending list open (ReleaseOnError is FALSE here).            *)
(*                                                                         *)
(* Row and config map carry the key pair generated when the service was    *)
(* provisioned, a number; 0 is none.  A load balancer without ports is     *)
(* deleted, so the empty set stands for none.                              *)
(***************************************************************************)
EXTENDS SvcLock

CONSTANTS
  Teams,
  TeamOf,      \* TeamOf[s]: the team of service s
  Prefixed,    \* Prefixed[s]: services of that team whose slug begins with the slug of s
  MaxFaults    \* bound: requests to Kubernetes that fail, tasks that raise

ASSUME K8sServiceAssumption ==
  /\ TeamOf \in [Services -> Teams]
  /\ Prefixed \in [Services -> SUBSET Services]
  /\ Actions = {"build_image", "provision", "delete", "reset", "restart"}
  /\ ReleaseOnError = FALSE
  /\ MaxFaults \in Nat

VARIABLES
  row,        \* row[s]: the key in the service row
  config,     \* config[s]: the key in the config map
  deployed,   \* services that have a deployment
  lb,         \* lb[t]: services with ports in the load balancer of team t
  step,       \* step[w]: where w is in its task
  key,        \* key[w]: the key pair w generated
  read,       \* read[w]: whether the read of w failed, and what there was to read
  made,       \* key pairs generated so far
  faults,
  stale       \* history: teams whose load balancer was changed between a read and its write

k8sVars == <<row, config, deployed, lb, step, key, read, made, faults, stale>>
vars == <<lockVars, k8sVars>>

Svc(w) == work[w].svc
Act(w) == work[w].act
Lb(s) == lb[TeamOf[s]]
NothingRead == [failed |-> FALSE, seen |-> {}]

Init ==
  /\ LockInit
  /\ row = [s \in Services |-> 0]
  /\ config = [s \in Services |-> 0]
  /\ deployed = {}
  /\ lb = [t \in Teams |-> {}]
  /\ step = [w \in Workers |-> "idle"]
  /\ key = [w \in Workers |-> 0]
  /\ read = [w \in Workers |-> NothingRead]
  /\ made = 0 /\ faults = 0 /\ stale = {}

-----------------------------------------------------------------------------
At(w, from) == work[w] # NoTask /\ step[w] = from
Goto(w, to) == step' = [step EXCEPT ![w] = to]
Fault == faults < MaxFaults /\ faults' = faults + 1
NoFault == UNCHANGED faults

\* Where a task begins.
FirstStep(act) ==
  CASE act = "provision" -> "configure"
    [] act = "delete" -> "undeploy"
    [] OTHER -> "patch"

StartTask(w) ==
  /\ Take(w)
  /\ Goto(w, FirstStep(Head(queue).act))
  /\ UNCHANGED <<row, config, deployed, lb, key, read, made, faults, stale>>

\* Mutant: a task that raised is queued again.
EndTaskRequeues(w) ==
  /\ step[w] \in {"done", "raised"}
  /\ work' = [work EXCEPT ![w] = NoTask]
  /\ queue' = IF step[w] = "raised" THEN Append(queue, work[w]) ELSE queue
  /\ open' = IF step[w] = "raised" THEN open ELSE [open EXCEPT ![Svc(w)] = Close(Svc(w))]
  /\ Goto(w, "idle")
  /\ UNCHANGED <<pc, asked, requests, deaths, crashes,
                 row, config, deployed, lb, key, read, made, faults, stale>>

EndTask(w) ==
  /\ step[w] \in {"done", "raised"}
  /\ Finish(w, step[w] = "raised")
  /\ Goto(w, "idle")
  /\ UNCHANGED <<row, config, deployed, lb, key, read, made, faults, stale>>

\* Mutant: what the worker was doing outlives it.
DieInPlace(w) == WorkerCrash(w) /\ UNCHANGED k8sVars

Die(w) ==
  /\ WorkerCrash(w)
  /\ Goto(w, "idle")
  /\ UNCHANGED <<row, config, deployed, lb, key, read, made, faults, stale>>

\* An exception that is none of Kubernetes: no artifact, no connection.
Raise(w) ==
  /\ work[w] # NoTask /\ step[w] \notin {"done", "raised"}
  /\ Fault
  /\ Goto(w, "raised")
  /\ UNCHANGED <<lockVars, row, config, deployed, lb, key, read, made, stale>>

-----------------------------------------------------------------------------
(* do_provision, but for the load balancer. *)

\* A config map that exists is kept (409).
CreateConfigMap(w) ==
  /\ At(w, "configure")
  /\ made' = made + 1
  /\ key' = [key EXCEPT ![w] = made + 1]
  /\ \/ /\ NoFault
        /\ config' = IF config[Svc(w)] = 0 THEN [config EXCEPT ![Svc(w)] = made + 1] ELSE config
     \/ Fault /\ UNCHANGED config
  /\ Goto(w, "deploy")
  /\ UNCHANGED <<lockVars, row, deployed, lb, read, stale>>

CreateDeployment(w) ==
  /\ At(w, "deploy")
  /\ \/ NoFault /\ deployed' = deployed \union {Svc(w)}
     \/ Fault /\ UNCHANGED deployed
  /\ Goto(w, "read")
  /\ UNCHANGED <<lockVars, row, config, lb, key, read, made, stale>>

\* A service row that exists makes the insert fail: (team, challenge, order) is
\* unique.
InsertRow(w) ==
  /\ At(w, "insert")
  /\ IF row[Svc(w)] = 0
     THEN row' = [row EXCEPT ![Svc(w)] = key[w]] /\ Goto(w, "done")
     ELSE UNCHANGED row /\ Goto(w, "raised")
  /\ UNCHANGED <<lockVars, config, deployed, lb, key, read, made, faults, stale>>

-----------------------------------------------------------------------------
(* create_service_loadbalancer and delete_service_loadbalancer. *)

\* The ports whose name contains that of the service are its own, or begin like it.
Covers(s) == {s} \union Prefixed[s]

\* Mutant: nothing is copied from the load balancer that exists.
KeptNothing(w) == {}
Kept(w) == IF read[w].failed THEN {} ELSE read[w].seen \ Covers(Svc(w))

AfterWrite(w) == IF Act(w) = "delete" THEN "unconfigure" ELSE "insert"

\* A delete that finds no load balancer returns.
ReadLoadBalancer(w) ==
  /\ At(w, "read")
  /\ read' = [read EXCEPT ![w] = [failed |-> FALSE, seen |-> Lb(Svc(w))]]
  /\ Goto(w, IF Act(w) = "delete" /\ Lb(Svc(w)) = {} THEN "unconfigure" ELSE "write")
  /\ UNCHANGED <<lockVars, row, config, deployed, lb, key, made, faults, stale>>

\* Any other answer is logged, and the task goes on as if there were no ports.
ReadFails(w) ==
  /\ At(w, "read")
  /\ Fault
  /\ read' = [read EXCEPT ![w] = [failed |-> TRUE, seen |-> Lb(Svc(w))]]
  /\ Goto(w, "write")
  /\ UNCHANGED <<lockVars, row, config, deployed, lb, key, made, stale>>

\* A load balancer was found: it is replaced, and otherwise created.
Found(w) == ~read[w].failed /\ read[w].seen # {}

\* create_namespaced_service does nothing to one that exists, and
\* replace_namespaced_service nothing to one that does not.
Written(w, ports) ==
  IF Found(w) <=> Lb(Svc(w)) # {} THEN ports ELSE Lb(Svc(w))

Ports(w) == Kept(w) \union (IF Act(w) = "provision" THEN {Svc(w)} ELSE {})

NewLb(w) == IF Ports(w) = {} THEN {} ELSE Written(w, Ports(w))

NoteStale(w) ==
  stale' = IF read[w].seen = Lb(Svc(w)) THEN stale ELSE stale \union {TeamOf[Svc(w)]}

WriteLoadBalancer(w) ==
  /\ At(w, "write")
  /\ \/ NoFault /\ lb' = [lb EXCEPT ![TeamOf[Svc(w)]] = NewLb(w)] /\ NoteStale(w)
     \/ Fault /\ UNCHANGED <<lb, stale>>
  /\ read' = [read EXCEPT ![w] = NothingRead]
  /\ Goto(w, AfterWrite(w))
  /\ UNCHANGED <<lockVars, row, config, deployed, key, made>>

-----------------------------------------------------------------------------
(* do_delete; do_reset, do_restart and do_build_image. *)

DeleteDeployment(w) ==
  /\ At(w, "undeploy")
  /\ \/ NoFault /\ deployed' = deployed \ {Svc(w)}
     \/ Fault /\ UNCHANGED deployed
  /\ Goto(w, "read")
  /\ UNCHANGED <<lockVars, row, config, lb, key, read, made, stale>>

\* Mutant: the config map is left for the next provision.
ConfigKept(s) == config[s]
ConfigGone(s) == 0

DeleteConfigMap(w) ==
  /\ At(w, "unconfigure")
  /\ \/ NoFault /\ config' = [config EXCEPT ![Svc(w)] = ConfigGone(Svc(w))]
     \/ Fault /\ UNCHANGED config
  /\ Goto(w, "unrow")
  /\ UNCHANGED <<lockVars, row, deployed, lb, key, read, made, stale>>

DeleteRow(w) ==
  /\ At(w, "unrow")
  /\ row' = [row EXCEPT ![Svc(w)] = 0]
  /\ Goto(w, "done")
  /\ UNCHANGED <<lockVars, config, deployed, lb, key, read, made, faults, stale>>

\* The deployment is patched to restart its pods, or an image is built: nothing of
\* the state here changes, and errors of Kubernetes do not matter.
PatchDeployment(w) ==
  /\ At(w, "patch")
  /\ Goto(w, "done")
  /\ UNCHANGED <<lockVars, row, config, deployed, lb, key, read, made, faults, stale>>

-----------------------------------------------------------------------------
TaskStep(w) ==
  \/ StartTask(w) \/ EndTask(w) \/ Die(w) \/ Raise(w)
  \/ CreateConfigMap(w) \/ CreateDeployment(w) \/ InsertRow(w)
  \/ ReadLoadBalancer(w) \/ ReadFails(w) \/ WriteLoadBalancer(w)
  \/ DeleteDeployment(w) \/ DeleteConfigMap(w) \/ DeleteRow(w) \/ PatchDeployment(w)

Next ==
  \/ \E h \in Handlers : RequestStep(h) /\ UNCHANGED k8sVars
  \/ \E w \in Workers : TaskStep(w)

Spec == Init /\ [][Next]_vars

-----------------------------------------------------------------------------
(* Properties. *)

Steps == {"idle", "configure", "deploy", "read", "write", "insert", "undeploy",
          "unconfigure", "unrow", "patch", "done", "raised"}

TypeOK ==
  /\ LockTypeOK
  /\ row \in [Services -> Nat]
  /\ config \in [Services -> Nat]
  /\ deployed \subseteq Services
  /\ lb \in [Teams -> SUBSET Services]
  /\ step \in [Workers -> Steps]
  /\ key \in [Workers -> Nat]
  /\ read \in [Workers -> [failed : BOOLEAN, seen : SUBSET Services]]
  /\ made \in Nat /\ faults \in Nat
  /\ stale \subseteq Teams
  /\ \A w \in Workers : step[w] = "idle" <=> work[w] = NoTask

\* When nothing fails, requests are served one at a time and no load balancer changed
\* between a read and a write of another task, a service without tasks has a row exactly when it has its
\* deployment and its ports, and its key is the one the row shows (do_provision,
\* do_delete; get_credentials).  Ports of a slug that begins like that of another
\* service are left to PortsLost.
RestConsistent ==
  faults = 0 /\ crashes = 0 /\ deaths = 0 =>
    \A s \in Services :
      ~Busy(s) /\ TeamOf[s] \notin stale =>
        /\ s \in deployed <=> row[s] # 0
        /\ (\A v \in Services : s \notin Prefixed[v]) => (s \in Lb(s) <=> row[s] # 0)
        /\ config[s] = row[s]

\* A service loses its ports to its own delete, or to a task of another service of
\* the team whose slug its own begins with, whose read of the load balancer failed,
\* or whose read is out of date; to nothing else (create_service_loadbalancer,
\* delete_service_loadbalancer).
PortsLost ==
  [][\A s \in Services :
       s \in Lb(s) /\ s \notin lb'[TeamOf[s]] =>
         \E w \in Workers :
           /\ At(w, "write") /\ step'[w] # "write" /\ TeamOf[Svc(w)] = TeamOf[s]
           /\ \/ Svc(w) = s /\ Act(w) = "delete"
              \/ s \in Prefixed[Svc(w)]
              \/ read[w].failed
              \/ read[w].seen # Lb(s)]_vars

\* What PortsLost rests on: only a provision or a delete reads the load balancer.
ReadInv ==
  \A w \in Workers :
    step[w] \in {"configure", "deploy", "undeploy", "read", "write"} =>
      Act(w) \in {"provision", "delete"}

\* The service manager keeps the locking discipline of SvcLock, without a finally.
ImplementsLock == LockSpec
=============================================================================
