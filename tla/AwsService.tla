------------------------------ MODULE AwsService ------------------------------
(***************************************************************************)
(* The services of the four AWS modes.  A team has one machine, a          *)
(* CloudFormation stack made by a provision; all machines share a network  *)
(* and a file server, the infrastructure stack.  Three of the modes keep a *)
(* queue of resets as a lock: its row is committed before the task is      *)
(* published, and the task closes one row when it got to its end.          *)
(* full_rootuser_aws is an older copy, with no lock and no check for a     *)
(* service that exists.                                                    *)
(*                                                                         *)
(* Rows and stacks carry the key pair they were made with, a number; 0 is  *)
(* no row or no stack.                                                     *)
(***************************************************************************)
EXTENDS Naturals, Sequences, FiniteSets

CONSTANTS
  Services,     \* the teams: all challenges share the machine of a team
  Infra,        \* the stack of the network and the file server
  Handlers,     \* requests the webapp serves at once
  Workers,      \* svcmanager workers
  NoTask,       \* an idle handler or worker
  MaxRequests,  \* bound: requests that are let through
  MaxDeaths,    \* bound: requests that end before they published
  MaxFaults,    \* bound: AWS calls and preparations that fail
  MaxCrashes    \* bound: workers that die with a task

Acts == {"infraprovision", "provision", "reset", "delete"}
Tasks == [svc : Services, act : Acts, by : {"admin", "team"}]
Stacks == Services \union {Infra}

ASSUME AwsAssumption ==
  /\ Infra \notin Services
  /\ NoTask \notin Tasks
  /\ MaxRequests \in Nat /\ MaxDeaths \in Nat /\ MaxFaults \in Nat /\ MaxCrashes \in Nat

ASSUME AwsFinite == IsFiniteSet(Handlers) /\ IsFiniteSet(Workers)

\* The modes are copies of one another that have drifted apart.  A record stands for one
\* of the functions of a mode, whose steps are the actions below, and says what is
\* different: the actions that may be asked for and the step that a reset begins with;
\* whether the infrastructure gets a key pair; what comes of a provision when the service
\* exists, and when there is a machine; the step after the new stack of a reset.
AwsEc2Request == [actions |-> Acts, reset |-> "insert"]
AwsEc2Machine == [ownKey |-> TRUE]
AwsEc2Provision == [ifExists |-> "done", afterMachine |-> "share"]
AwsEc2Reset == [afterRemake |-> "release"]
LksnRequest == [actions |-> Acts, reset |-> "insert"]
LksnMachine == [ownKey |-> TRUE]
LksnProvision == [ifExists |-> "done", afterMachine |-> "share"]
LksnReset == [afterRemake |-> "release"]
FullRootChallRequest == [actions |-> Acts, reset |-> "insert"]
FullRootChallMachine == [ownKey |-> TRUE]
FullRootChallProvision == [ifExists |-> "done", afterMachine |-> "share"]
FullRootChallReset == [afterRemake |-> "release"]
FullRootUserRequest == [actions |-> Acts \ {"infraprovision"}, reset |-> "publish"]
FullRootUserMachine == [ownKey |-> FALSE]
FullRootUserProvision == [ifExists |-> "machine", afterMachine |-> "stack"]
FullRootUserReset == [afterRemake |-> "done"]

Mode(request, network, provision, reset) ==
  [request |-> request, network |-> network, provision |-> provision, reset |-> reset]
Modes ==
  {Mode(AwsEc2Request, AwsEc2Machine, AwsEc2Provision, AwsEc2Reset),
   Mode(LksnRequest, LksnMachine, LksnProvision, LksnReset),
   Mode(FullRootChallRequest, FullRootChallMachine, FullRootChallProvision, FullRootChallReset),
   Mode(FullRootUserRequest, FullRootUserMachine, FullRootUserProvision, FullRootUserReset)}

VARIABLES
  mode,      \* SERVICE_MODE, set before the contest
  open,      \* open[s]: rows of ServiceResetQueue with is_done = false
  queue,     \* the durable queue svcmanager_task
  pc,        \* pc[h]: "idle", "insert", "publish"; or "refused" until the next request
  asked,     \* asked[h]: the task of the request h serves
  work,      \* work[w]: the task of w, or NoTask
  step,      \* step[w]: where w is in its task
  key,       \* key[w]: the key pair w generated or read
  row,       \* row[s]: the key pair in the service row
  machine,   \* the key pair in the row of ProvisionMachine
  stack,     \* stack[x]: the key pair the stack x was made with
  broken,    \* stacks whose creation failed: they exist and cannot be updated
  shares,    \* teams with a share for their flags on the file server
  made,      \* key pairs generated so far
  givenUp,   \* givenUp[s]: reset rows that no task is going to close
  overlap,   \* stacks that two tasks worked on at the same time
  redone,    \* services whose stack was rewritten while they had a row
  requests, deaths, faults, crashes

webVars == <<open, queue, pc, asked, requests, deaths>>
taskVars == <<work, step, key, faults, crashes>>
cloudVars == <<row, machine, stack, broken, shares, made>>
ghostVars == <<givenUp, overlap, redone>>
vars == <<mode, webVars, taskVars, cloudVars, ghostVars>>

Svc(w) == work[w].svc
Act(w) == work[w].act

Init ==
  /\ mode \in Modes
  /\ open = [s \in Services |-> 0]
  /\ queue = <<>>
  /\ pc = [h \in Handlers |-> "idle"] /\ asked = [h \in Handlers |-> NoTask]
  /\ work = [w \in Workers |-> NoTask] /\ step = [w \in Workers |-> "idle"]
  /\ key = [w \in Workers |-> 0]
  /\ row = [s \in Services |-> 0] /\ machine = 0
  /\ stack = [x \in Stacks |-> 0] /\ broken = {} /\ shares = {} /\ made = 0
  /\ givenUp = [s \in Services |-> 0] /\ overlap = {} /\ redone = {}
  /\ requests = 0 /\ deaths = 0 /\ faults = 0 /\ crashes = 0

-----------------------------------------------------------------------------
(* The webapp. *)

Locks(t) == t.act = "reset" /\ mode.request.reset = "insert"

\* A request that passed authorisation; a reset looks for an open row of the team.
Ask(h, t) ==
  /\ pc[h] \in {"idle", "refused"}
  /\ requests < MaxRequests
  /\ t.act \in mode.request.actions
  /\ Locks(t) => open[t.svc] = 0
  /\ requests' = requests + 1
  /\ pc' = [pc EXCEPT ![h] = IF t.act = "reset" THEN mode.request.reset ELSE "publish"]
  /\ asked' = [asked EXCEPT ![h] = t]
  /\ UNCHANGED <<mode, open, queue, deaths, taskVars, cloudVars, ghostVars>>

\* "reset in progress"
Refuse(h, s) ==
  /\ mode.request.reset = "insert" /\ pc[h] = "idle" /\ open[s] > 0
  /\ pc' = [pc EXCEPT ![h] = "refused"]
  /\ UNCHANGED <<mode, open, queue, asked, requests, deaths, taskVars, cloudVars, ghostVars>>

InsertReset(h) ==
  /\ pc[h] = "insert"
  /\ open' = [open EXCEPT ![asked[h].svc] = @ + 1]
  /\ pc' = [pc EXCEPT ![h] = "publish"]
  /\ UNCHANGED <<mode, queue, asked, requests, deaths, taskVars, cloudVars, ghostVars>>

Publish(h) ==
  /\ pc[h] = "publish"
  /\ queue' = Append(queue, asked[h])
  /\ pc' = [pc EXCEPT ![h] = "idle"] /\ asked' = [asked EXCEPT ![h] = NoTask]
  /\ UNCHANGED <<mode, open, requests, deaths, taskVars, cloudVars, ghostVars>>

\* The broker cannot be reached, the files of the challenge are missing ("artifact not
\* found."), or the webapp is restarted: the row of a reset stays.
RequestDies(h) ==
  /\ pc[h] = "publish" \/ pc[h] = "insert"
  /\ deaths < MaxDeaths /\ deaths' = deaths + 1
  /\ pc' = [pc EXCEPT ![h] = "idle"] /\ asked' = [asked EXCEPT ![h] = NoTask]
  /\ givenUp' = IF pc[h] = "publish" /\ Locks(asked[h])
                THEN [givenUp EXCEPT ![asked[h].svc] = @ + 1] ELSE givenUp
  /\ UNCHANGED <<mode, open, queue, requests, taskVars, cloudVars, overlap, redone>>

-----------------------------------------------------------------------------
(* The worker: tasks, which are acknowledged before they are run. *)

At(w, from) == work[w] # NoTask /\ step[w] = from
Goto(w, to) == step' = [step EXCEPT ![w] = to]
Fault == faults < MaxFaults /\ faults' = faults + 1
NoFault == UNCHANGED faults

Start(w) ==
  /\ work[w] = NoTask /\ queue # <<>>
  /\ work' = [work EXCEPT ![w] = Head(queue)]
  /\ queue' = Tail(queue)
  /\ Goto(w, "start")
  /\ overlap' = IF \E v \in Workers : work[v] # NoTask /\ Svc(v) = Head(queue).svc
                THEN overlap \union {Head(queue).svc} ELSE overlap
  /\ UNCHANGED <<mode, open, pc, asked, requests, deaths, key, faults, crashes, cloudVars, givenUp, redone>>

\* Mutant: the next task starts where this one stopped.
LeaveInPlace(w) ==
  /\ work' = [work EXCEPT ![w] = NoTask]
  /\ UNCHANGED <<step, key, givenUp>>

\* A task is over; the row of a reset, if it has one, stays open.
Leave(w) ==
  /\ work' = [work EXCEPT ![w] = NoTask]
  /\ Goto(w, "idle")
  /\ key' = [key EXCEPT ![w] = 0]
  /\ givenUp' = IF Locks(work[w]) THEN [givenUp EXCEPT ![Svc(w)] = @ + 1] ELSE givenUp

\* It was not allowed, had nothing to do, failed, or is complete and no reset.
End(w) ==
  /\ At(w, "done")
  /\ Leave(w)
  /\ UNCHANGED <<mode, webVars, faults, crashes, cloudVars, overlap, redone>>

Die(w) ==
  /\ work[w] # NoTask
  /\ crashes < MaxCrashes /\ crashes' = crashes + 1
  /\ Leave(w)
  /\ UNCHANGED <<mode, webVars, faults, cloudVars, overlap, redone>>

\* Mutants: every open row of the team is closed; a reset leaves its row.
CloseAll(s) == 0
CloseNone(s) == open[s]
\* The first open row of the team, if there is one, is marked done.
Close(s) == IF open[s] > 0 THEN open[s] - 1 ELSE 0

\* The end of do_reset in the modes with a queue of resets, whatever became of the stack.
Release(w) ==
  /\ At(w, "release")
  /\ open' = [open EXCEPT ![Svc(w)] = Close(Svc(w))]
  /\ work' = [work EXCEPT ![w] = NoTask]
  /\ Goto(w, "idle")
  /\ key' = [key EXCEPT ![w] = 0]
  /\ UNCHANGED <<mode, queue, pc, asked, requests, deaths, faults, crashes, cloudVars, ghostVars>>

Allowed(t) == t.act = "reset" \/ t.by = "admin"

\* What a task looks at first.  The files of the challenge may not be unpacked.
FirstStep(w) ==
  CASE ~Allowed(work[w]) -> "done"
    [] Act(w) = "infraprovision" -> "machine"
    [] Act(w) = "provision" -> IF row[Svc(w)] # 0 THEN mode.provision.ifExists ELSE "machine"
    [] Act(w) = "delete" -> IF row[Svc(w)] = 0 THEN "done" ELSE "unrow"
    [] Act(w) = "reset" -> IF row[Svc(w)] = 0 THEN "done" ELSE "describe"

Begin(w) ==
  /\ At(w, "start")
  /\ \/ NoFault /\ Goto(w, FirstStep(w))
     \/ Fault /\ FirstStep(w) # "done" /\ Goto(w, "done")
  /\ UNCHANGED <<mode, webVars, work, key, crashes, cloudVars, ghostVars>>

-----------------------------------------------------------------------------
(* create_or_update_cloudformation_stack and delete_cloudformation_stack. *)

\* An update to the parameters that a stack has is an error, and so is any update of
\* one that was never created properly.
Writable(x, k) == stack[x] = 0 \/ (x \notin broken /\ stack[x] # k)

Written(x, k) ==
  /\ Writable(x, k)
  /\ stack' = [stack EXCEPT ![x] = k]
  /\ UNCHANGED broken

\* No output: refused, or failed, in which case a new stack may be there all the same.
NotWritten(x, k) ==
  \/ ~Writable(x, k) /\ NoFault /\ UNCHANGED <<stack, broken>>
  \/ Fault /\ UNCHANGED <<stack, broken>>
  \/ Fault /\ stack[x] = 0 /\ stack' = [stack EXCEPT ![x] = k] /\ broken' = broken \union {x}

\* What a deletion leaves: nothing, or, when AWS refuses it, the stack as it was.
Gone(x) == stack' = [stack EXCEPT ![x] = 0] /\ broken' = broken \ {x}
Deleted(x) == (Gone(x) /\ NoFault) \/ (Fault /\ UNCHANGED <<stack, broken>>)
\* The waiter raises, because the deletion failed or takes longer than it waits.
DeleteRaises(x) == Fault /\ (Gone(x) \/ UNCHANGED <<stack, broken>>)

-----------------------------------------------------------------------------
(* create_or_get_provision_machine. *)

AfterMachine(w) == IF Act(w) = "provision" THEN mode.provision.afterMachine ELSE "done"

\* The key pair of the infrastructure: new, or, in full_rootuser_aws, none.
InfraKey == IF mode.network.ownKey THEN made + 1 ELSE 1

FindMachine(w) ==
  /\ At(w, "machine")
  /\ Goto(w, IF machine # 0 THEN AfterMachine(w) ELSE "infra")
  /\ overlap' = IF machine = 0 /\ \E v \in Workers : step[v] \in {"infra", "register"}
                THEN overlap \union {Infra} ELSE overlap
  /\ UNCHANGED <<mode, webVars, work, key, faults, crashes, cloudVars, givenUp, redone>>

MakeInfra(w) ==
  /\ At(w, "infra")
  /\ made' = made + 1
  /\ key' = [key EXCEPT ![w] = InfraKey]
  /\ \/ Written(Infra, InfraKey) /\ NoFault /\ Goto(w, "register")
     \/ NotWritten(Infra, InfraKey) /\ Goto(w, "done")
  /\ UNCHANGED <<mode, webVars, work, crashes, row, machine, shares, ghostVars>>

\* The name of the machine is unique: the second of two inserts raises.
Register(w) ==
  /\ At(w, "register")
  /\ IF machine = 0 THEN machine' = key[w] /\ Goto(w, AfterMachine(w))
                    ELSE Goto(w, "done") /\ UNCHANGED machine
  /\ UNCHANGED <<mode, webVars, work, key, faults, crashes, row, stack, broken, shares, made, ghostVars>>

-----------------------------------------------------------------------------
(* do_provision. *)

\* generate_share_in_samba_server: errors, a key that is not the server's among them,
\* are logged only.
Share(w) ==
  /\ At(w, "share")
  /\ \/ NoFault /\ shares' = IF stack[Infra] = machine THEN shares \union {Svc(w)} ELSE shares
     \/ Fault /\ UNCHANGED shares
  /\ Goto(w, "stack")
  /\ UNCHANGED <<mode, webVars, work, key, crashes, row, machine, stack, broken, made, ghostVars>>

MakeStack(w) ==
  /\ At(w, "stack")
  /\ made' = made + 1
  /\ key' = [key EXCEPT ![w] = made + 1]
  /\ \/ Written(Svc(w), made + 1) /\ NoFault /\ Goto(w, "insert")
     \/ NotWritten(Svc(w), made + 1) /\ Goto(w, "done")
  /\ redone' = IF row[Svc(w)] # 0 /\ stack' # stack THEN redone \union {Svc(w)} ELSE redone
  /\ UNCHANGED <<mode, webVars, work, crashes, row, machine, shares, givenUp, overlap>>

\* (team, challenge, order) is unique: the insert raises if the row is there.
InsertRow(w) ==
  /\ At(w, "insert")
  /\ row' = IF row[Svc(w)] = 0 THEN [row EXCEPT ![Svc(w)] = key[w]] ELSE row
  /\ Goto(w, "done")
  /\ UNCHANGED <<mode, webVars, work, key, faults, crashes, machine, stack, broken, shares, made, ghostVars>>

-----------------------------------------------------------------------------
(* do_delete and do_reset. *)

\* The row goes first, whatever becomes of the stack.
DeleteRow(w) ==
  /\ At(w, "unrow")
  /\ row' = [row EXCEPT ![Svc(w)] = 0]
  /\ Goto(w, "unstack")
  /\ UNCHANGED <<mode, webVars, work, key, faults, crashes, machine, stack, broken, shares, made, ghostVars>>

\* The parameters and the template are read from the stack that is to be replaced.
Describe(w) ==
  /\ At(w, "describe")
  /\ \/ /\ stack[Svc(w)] # 0 /\ NoFault
        /\ key' = [key EXCEPT ![w] = stack[Svc(w)]] /\ Goto(w, "unstack")
     \/ stack[Svc(w)] = 0 /\ NoFault /\ Goto(w, "done") /\ UNCHANGED key
     \/ Fault /\ Goto(w, "done") /\ UNCHANGED key
  /\ UNCHANGED <<mode, webVars, work, crashes, cloudVars, ghostVars>>

\* Mutant: a reset ends when the stack is deleted.
AfterUnstackEnds(w) == IF Act(w) = "reset" THEN mode.reset.afterRemake ELSE "done"
AfterUnstack(w) == IF Act(w) = "reset" THEN "remake" ELSE "done"

DeleteStack(w) ==
  /\ At(w, "unstack")
  /\ \/ Deleted(Svc(w)) /\ Goto(w, AfterUnstack(w))
     \/ DeleteRaises(Svc(w)) /\ Goto(w, "done")
  /\ UNCHANGED <<mode, webVars, work, key, crashes, row, machine, shares, made, ghostVars>>

\* Mutant: the machine comes back with a key pair of its own.
ResetKeyNew(w) == made + 1
ResetKey(w) == key[w]

\* That there is no output is ignored.
RemakeStack(w) ==
  /\ At(w, "remake")
  /\ (Written(Svc(w), ResetKey(w)) /\ NoFault) \/ NotWritten(Svc(w), ResetKey(w))
  /\ Goto(w, mode.reset.afterRemake)
  /\ UNCHANGED <<mode, webVars, work, key, crashes, row, machine, shares, made, ghostVars>>

-----------------------------------------------------------------------------
RequestStep(h) ==
  \/ \E t \in Tasks : Ask(h, t)
  \/ \E s \in Services : Refuse(h, s)
  \/ InsertReset(h) \/ Publish(h) \/ RequestDies(h)

Work(w) ==
  \/ Start(w) \/ Begin(w) \/ End(w) \/ Release(w)
  \/ FindMachine(w) \/ MakeInfra(w) \/ Register(w) \/ Share(w) \/ MakeStack(w) \/ InsertRow(w)
  \/ DeleteRow(w) \/ Describe(w) \/ DeleteStack(w) \/ RemakeStack(w)

Next ==
  \/ \E h \in Handlers : RequestStep(h)
  \/ \E w \in Workers : Work(w) \/ Die(w)

Spec == Init /\ [][Next]_vars

\* A request that was let through is carried out, and a worker goes on.
Fairness ==
  /\ \A h \in Handlers : WF_vars(InsertReset(h)) /\ WF_vars(Publish(h))
  /\ \A w \in Workers : WF_vars(Work(w))

FairSpec == Spec /\ Fairness

-----------------------------------------------------------------------------
(* Properties. *)

Steps == {"idle", "start", "machine", "infra", "register", "share", "stack", "insert",
          "unrow", "describe", "unstack", "remake", "release", "done"}

TypeOK ==
  /\ mode \in Modes
  /\ open \in [Services -> Nat]
  /\ queue \in Seq(Tasks)
  /\ pc \in [Handlers -> {"idle", "insert", "publish", "refused"}]
  /\ asked \in [Handlers -> Tasks \union {NoTask}]
  /\ \A h \in Handlers : pc[h] \in {"insert", "publish"} <=> asked[h] # NoTask
  /\ work \in [Workers -> Tasks \union {NoTask}]
  /\ step \in [Workers -> Steps]
  /\ \A w \in Workers : step[w] = "idle" <=> work[w] = NoTask
  /\ key \in [Workers -> Nat]
  /\ row \in [Services -> Nat] /\ machine \in Nat
  /\ stack \in [Stacks -> Nat] /\ broken \subseteq Stacks /\ shares \subseteq Services
  /\ givenUp \in [Services -> Nat] /\ overlap \subseteq Stacks /\ redone \subseteq Services
  /\ made \in Nat /\ requests \in Nat /\ deaths \in Nat /\ faults \in Nat /\ crashes \in Nat

\* Resets of s on their way that have a row: about to be published, queued, run.
Publishing(s) == {h \in Handlers : pc[h] = "publish" /\ Locks(asked[h]) /\ asked[h].svc = s}
Queued(s) == {i \in 1..Len(queue) : Locks(queue[i]) /\ queue[i].svc = s}
RunBy(s) == {w \in Workers : work[w] # NoTask /\ Locks(work[w]) /\ Svc(w) = s}

Busy(s) == \E w \in Workers : work[w] # NoTask /\ Svc(w) = s

\* Every open row of the reset queue belongs to a reset on its way or to one that is
\* known to have given up, however many requests and workers race: a reset that gets to
\* its end finds a row to close (the reset_req of do_reset is never None).
ResetsAccounted ==
  \A s \in Services :
    open[s] = Cardinality(Publishing(s)) + Cardinality(Queued(s)) + Cardinality(RunBy(s)) + givenUp[s]

\* The key of the file server that the workers use is the one it was made with, whatever
\* fails or dies, unless two provisions found no machine at the same time
\* (create_or_get_provision_machine).
ServerKeyKnown ==
  mode.network.ownKey /\ Infra \notin overlap /\ machine # 0 => stack[Infra] = machine

\* The key that a team is shown opens its machine, whatever fails or dies, unless tasks
\* of the team overlapped or its stack was rewritten under its row, which
\* without an overlap only full_rootuser_aws does (get_credentials, do_provision, do_reset).
KeyShown ==
  \A s \in Services \ overlap :
    /\ ~Busy(s) /\ s \notin redone => row[s] = 0 \/ stack[s] \in {0, row[s]}
    /\ s \in redone => mode.provision.ifExists = "machine"

\* The rows never show a key that does not open the machine it is for.
KeysShown == ServerKeyKnown /\ KeyShown

\* When nothing fails and tasks do not overlap, a team at rest has a machine exactly when
\* it has a row, and a share for its flags (do_provision, do_delete, do_reset).
RestConsistent ==
  faults = 0 /\ crashes = 0 /\ Infra \notin overlap =>
    \A s \in Services \ overlap :
      ~Busy(s) => /\ row[s] = 0 <=> stack[s] = 0
                  /\ row[s] # 0 /\ mode.provision.afterMachine = "share" => s \in shares

\* A row of the reset queue that a task can still close is closed in the end: a team is
\* locked out of resets only by those that gave up (handler_svcmanager_request, do_reset).
ResetReleased == \A s \in Services : open[s] > givenUp[s] ~> open[s] = givenUp[s]
=============================================================================
