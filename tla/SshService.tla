------------------------------ MODULE SshService ------------------------------
(***************************************************************************)
(* The services of the mode sshcontainer_vm: what the tasks of SvcLock do. *)
(* A service has a row in the table service, an archive of its files on    *)
(* the disk of the worker's host, and a container on a machine, reached    *)
(* over SSH.  Remote commands may fail; what they return is logged and     *)
(* otherwise ignored.                                                      *)
(*                                                                         *)
(* Archive, row and container carry the password that was generated when   *)
(* the service was provisioned, a number here; 0 is none.                  *)
(***************************************************************************)
EXTENDS SvcLock

CONSTANTS
  Hosts,       \* machines that run workers; workers of one host share its disk
  HostOf,      \* HostOf[w]: the host of worker w
  MaxFaults    \* bound: preparations and remote commands that fail

ASSUME SshServiceAssumption ==
  /\ HostOf \in [Workers -> Hosts]
  /\ Actions = {"provision", "delete", "reset", "restart"}
  /\ MaxFaults \in Nat

VARIABLES
  row,       \* row[s]: the password in the service row
  archive,   \* archive[x][s]: the password in the archive on host x
  folder,    \* folder[s]: the password in the compose file on the machine
  up,        \* up[s]: the password of the container that runs
  step,      \* step[w]: where w is in its task
  new,       \* new[w]: the password of the service w adds, not committed
  made,      \* passwords generated so far
  faults

sshVars == <<row, archive, folder, up, step, new, made, faults>>
vars == <<lockVars, sshVars>>

Svc(w) == work[w].svc
Act(w) == work[w].act

Init ==
  /\ LockInit
  /\ row = [s \in Services |-> 0]
  /\ archive = [x \in Hosts |-> [s \in Services |-> 0]]
  /\ folder = [s \in Services |-> 0]
  /\ up = [s \in Services |-> 0]
  /\ step = [w \in Workers |-> "idle"]
  /\ new = [w \in Workers |-> 0]
  /\ made = 0 /\ faults = 0

-----------------------------------------------------------------------------
At(w, from) == work[w] # NoTask /\ step[w] = from
Goto(w, to) == step' = [step EXCEPT ![w] = to]

\* A failure is one of at most MaxFaults.
Fault == faults < MaxFaults /\ faults' = faults + 1
NoFault == UNCHANGED faults

StartTask(w) ==
  /\ Take(w)
  /\ Goto(w, "start")
  /\ UNCHANGED <<row, archive, folder, up, new, made, faults>>

\* Mutant: a task that raises leaves its row open.
EndTaskForgets(w) ==
  /\ step[w] \in {"done", "raised"}
  /\ work' = [work EXCEPT ![w] = NoTask]
  /\ open' = IF step[w] = "raised" THEN open ELSE [open EXCEPT ![Svc(w)] = Close(Svc(w))]
  /\ Goto(w, "idle")
  /\ UNCHANGED <<queue, pc, asked, requests, deaths, crashes, row, archive, folder, up, new, made, faults>>

\* The task ends, raising or not, and the pending list is looked at.
EndTask(w) ==
  /\ step[w] \in {"done", "raised"}
  /\ Finish(w, step[w] = "raised")
  /\ Goto(w, "idle")
  /\ UNCHANGED <<row, archive, folder, up, new, made, faults>>

\* Mutant: what the worker was doing outlives it.
DieInPlace(w) == WorkerCrash(w) /\ UNCHANGED sshVars

\* The worker dies: its transaction is rolled back, the rest stays.
Die(w) ==
  /\ WorkerCrash(w)
  /\ Goto(w, "idle")
  /\ new' = [new EXCEPT ![w] = 0]
  /\ UNCHANGED <<row, archive, folder, up, made, faults>>

\* The files of the challenge that a provision or a reset needs cannot be unpacked.
AssetMissing(w) ==
  /\ At(w, "start") /\ Act(w) \in {"provision", "reset"}
  /\ Fault
  /\ Goto(w, "raised")
  /\ UNCHANGED <<lockVars, row, archive, folder, up, new, made>>

-----------------------------------------------------------------------------
(* do_provision. *)

\* Mutant: a service that exists is provisioned again.
ExistingNever(s) == FALSE
Existing(s) == row[s] # 0

ProvisionCheck(w) ==
  /\ At(w, "start") /\ Act(w) = "provision"
  /\ Goto(w, IF Existing(Svc(w)) THEN "done" ELSE "prepare")
  /\ UNCHANGED <<lockVars, row, archive, folder, up, new, made, faults>>

\* prepare_container: a password is generated, the files are archived on the disk.
Prepare(w) ==
  /\ At(w, "prepare")
  /\ made' = made + 1
  /\ archive' = [archive EXCEPT ![HostOf[w]][Svc(w)] = made + 1]
  /\ new' = [new EXCEPT ![w] = made + 1]
  /\ Goto(w, "flush")
  /\ NoFault
  /\ UNCHANGED <<lockVars, row, folder, up>>

\* The files are missing, or there is no machine (which is found out after the
\* archive was written): rolled back, logged and forgotten.
PrepareFails(w) ==
  /\ At(w, "prepare")
  /\ Fault
  /\ \/ UNCHANGED <<archive, made>>
     \/ /\ made' = made + 1
        /\ archive' = [archive EXCEPT ![HostOf[w]][Svc(w)] = made + 1]
  /\ Goto(w, "done")
  /\ UNCHANGED <<lockVars, row, folder, up, new>>

\* The row is inserted and not committed.  It waits for another uncommitted row of
\* the service, and fails on a committed one: (team, challenge, order) is unique.
Flush(w) ==
  /\ At(w, "flush")
  /\ \A v \in Workers \ {w} : ~(At(v, "run") /\ Svc(v) = Svc(w) /\ new[v] # 0)
  /\ \A v \in Workers \ {w} : ~(At(v, "commit") /\ Svc(v) = Svc(w))
  /\ IF row[Svc(w)] = 0
     THEN Goto(w, "run") /\ UNCHANGED new
     ELSE Goto(w, "done") /\ new' = [new EXCEPT ![w] = 0]
  /\ UNCHANGED <<lockVars, row, archive, folder, up, made, faults>>

Commit(w) ==
  /\ At(w, "commit")
  /\ row' = [row EXCEPT ![Svc(w)] = new[w]]
  /\ new' = [new EXCEPT ![w] = 0]
  /\ Goto(w, "done")
  /\ UNCHANGED <<lockVars, archive, folder, up, made, faults>>

-----------------------------------------------------------------------------
(* run_container, of do_provision and do_reset. *)

\* get_deployed_machine finds the service: committed, or flushed by this worker.
Deployed(w) == row[Svc(w)] # 0 \/ new[w] # 0

AfterRun(w) == IF Act(w) = "provision" THEN "commit" ELSE "done"

\* The archive is copied and unpacked, and the container is started from it.
RunContainer(w) ==
  /\ At(w, "run") /\ Deployed(w)
  /\ archive[HostOf[w]][Svc(w)] # 0
  /\ folder' = [folder EXCEPT ![Svc(w)] = archive[HostOf[w]][Svc(w)]]
  /\ up' = [up EXCEPT ![Svc(w)] = archive[HostOf[w]][Svc(w)]]
  /\ Goto(w, AfterRun(w))
  /\ UNCHANGED <<lockVars, row, archive, new, made, faults>>

\* The machine cannot be reached, or the build fails: the task goes on.
RunFails(w) ==
  /\ At(w, "run") /\ Deployed(w)
  /\ Fault
  /\ \/ UNCHANGED folder
     \/ /\ archive[HostOf[w]][Svc(w)] # 0
        /\ folder' = [folder EXCEPT ![Svc(w)] = archive[HostOf[w]][Svc(w)]]
  /\ Goto(w, AfterRun(w))
  /\ UNCHANGED <<lockVars, row, archive, up, new, made>>

\* This host has no archive to copy: the task goes on too.
NothingToRun(w) ==
  /\ At(w, "run") /\ Deployed(w)
  /\ archive[HostOf[w]][Svc(w)] = 0
  /\ Goto(w, AfterRun(w))
  /\ UNCHANGED <<lockVars, row, archive, folder, up, new, made, faults>>

-----------------------------------------------------------------------------
(* delete_container, of do_delete and do_reset; do_restart. *)

\* Mutant: a reset ends when the container is deleted.
AfterDownIsEnd(w) == IF Act(w) = "delete" THEN "unrow" ELSE "done"
AfterDown(w) == IF Act(w) = "delete" THEN "unrow" ELSE "run"

\* docker compose down works on the compose file; then the folder is removed.
DeleteContainer(w) ==
  /\ At(w, "start") /\ Act(w) \in {"delete", "reset"} /\ Deployed(w)
  /\ up' = IF folder[Svc(w)] = 0 THEN up ELSE [up EXCEPT ![Svc(w)] = 0]
  /\ folder' = [folder EXCEPT ![Svc(w)] = 0]
  /\ Goto(w, AfterDown(w))
  /\ UNCHANGED <<lockVars, row, archive, new, made, faults>>

\* The machine cannot be reached; docker compose down fails and the folder is
\* removed all the same; or the connection is lost between the two.
DeleteFails(w) ==
  /\ At(w, "start") /\ Act(w) \in {"delete", "reset"} /\ Deployed(w)
  /\ Fault
  /\ \/ folder' \in {folder, [folder EXCEPT ![Svc(w)] = 0]} /\ UNCHANGED up
     \/ folder[Svc(w)] # 0 /\ up' = [up EXCEPT ![Svc(w)] = 0] /\ UNCHANGED folder
  /\ Goto(w, AfterDown(w))
  /\ UNCHANGED <<lockVars, row, archive, new, made>>

\* The row is deleted whatever became of the container.
DeleteRow(w) ==
  /\ At(w, "unrow") /\ row[Svc(w)] # 0
  /\ row' = [row EXCEPT ![Svc(w)] = 0]
  /\ Goto(w, "done")
  /\ UNCHANGED <<lockVars, archive, folder, up, new, made, faults>>

\* docker compose restart keeps the container and its password.
RestartContainer(w) ==
  /\ At(w, "start") /\ Act(w) = "restart" /\ Deployed(w)
  /\ Goto(w, "done")
  /\ UNCHANGED <<lockVars, row, archive, folder, up, new, made, faults>>

\* The service row that a task other than provision needs is not there: ValueError.
NotFound(w) ==
  /\ \/ At(w, "start") /\ Act(w) # "provision"
     \/ step[w] \in {"run", "unrow"} /\ At(w, step[w])
  /\ ~Deployed(w)
  /\ Goto(w, "raised")
  /\ UNCHANGED <<lockVars, row, archive, folder, up, new, made, faults>>

\* The machine of the service is no longer known, or its key cannot be read: that is
\* found out before a connection is tried, and only do_provision catches it.
MachineLost(w) ==
  /\ At(w, "run") \/ (At(w, "start") /\ Act(w) # "provision")
  /\ Deployed(w)
  /\ Fault
  /\ Goto(w, IF Act(w) = "provision" THEN "done" ELSE "raised")
  /\ new' = [new EXCEPT ![w] = 0]
  /\ UNCHANGED <<lockVars, row, archive, folder, up, made>>

-----------------------------------------------------------------------------
TaskStep(w) ==
  \/ StartTask(w) \/ EndTask(w) \/ Die(w) \/ AssetMissing(w) \/ MachineLost(w)
  \/ ProvisionCheck(w) \/ Prepare(w) \/ PrepareFails(w) \/ Flush(w) \/ Commit(w)
  \/ RunContainer(w) \/ RunFails(w) \/ NothingToRun(w)
  \/ DeleteContainer(w) \/ DeleteFails(w) \/ DeleteRow(w) \/ RestartContainer(w) \/ NotFound(w)

Next ==
  \/ \E h \in Handlers : RequestStep(h) /\ UNCHANGED sshVars
  \/ \E w \in Workers : TaskStep(w)

Spec == Init /\ [][Next]_vars

\* A request that passed the check goes on, and so does a task whose worker lives:
\* each request has a thread of the web server, each task the thread of its worker.
FairSpec ==
  /\ Spec
  /\ \A h \in Handlers : WF_vars((Publish(h) \/ Insert(h)) /\ UNCHANGED sshVars)
  /\ \A w \in Workers : WF_vars(TaskStep(w) /\ UNCHANGED crashes)

-----------------------------------------------------------------------------
(* Properties. *)

Steps == {"idle", "start", "prepare", "flush", "run", "commit", "unrow", "done", "raised"}

TypeOK ==
  /\ LockTypeOK
  /\ row \in [Services -> Nat]
  /\ archive \in [Hosts -> [Services -> Nat]]
  /\ folder \in [Services -> Nat]
  /\ up \in [Services -> Nat]
  /\ step \in [Workers -> Steps]
  /\ new \in [Workers -> Nat]
  /\ made \in Nat /\ faults \in Nat
  /\ \A w \in Workers : step[w] = "idle" <=> work[w] = NoTask

\* When no command fails, a service without tasks has a row exactly when it has a
\* container, and the container has the password the row shows (do_provision,
\* do_delete, do_reset, do_restart; get_credentials).
RestConsistent ==
  faults = 0 /\ crashes = 0 =>
    \A s \in Services : ~Busy(s) => up[s] = row[s] /\ folder[s] = row[s]

\* The archive a reset starts from is the one the service was provisioned with, in
\* spite of failed tasks, while all workers share a host (prepare_container).
ArchiveIsCurrent ==
  \A x \in Hosts, s \in Services : row[s] # 0 => archive[x][s] = row[s]

\* What ArchiveIsCurrent rests on: between the check of do_provision and its commit
\* the service has no row, and the archive is the one the new row describes.
ArchiveInv ==
  /\ ArchiveIsCurrent
  /\ \A w \in Workers :
       /\ step[w] \in {"prepare", "flush", "commit"} => Act(w) = "provision" /\ row[Svc(w)] = 0
       /\ step[w] = "run" /\ Act(w) = "provision" => row[Svc(w)] = 0
       /\ step[w] \in {"flush", "commit"} \/ (step[w] = "run" /\ Act(w) = "provision")
            => archive[HostOf[w]][Svc(w)] = new[w]
       /\ new[w] # 0 => step[w] \in {"flush", "commit", "run"} /\ Act(w) = "provision"

\* A reset whose commands do not fail leaves the container running with the password
\* of its row, whatever failed before it, while workers share a host ("Successfully reset service", core.py).
ResetRestores ==
  [][\A w \in Workers :
       At(w, "run") /\ Act(w) = "reset" /\ step'[w] = "done" /\ faults' = faults
         => up'[Svc(w)] = row[Svc(w)]]_vars

\* The service manager keeps the locking discipline: it implements SvcLock.
ImplementsLock == LockSpec
=============================================================================
