--------------------------- MODULE DeployPipeline ---------------------------
(***************************************************************************)
(* The deployment pipeline of pm-api and pm-worker.                        *)
(*                                                                         *)
(* pm-api inserts a row in "deployments" and then, in a second step, adds  *)
(* a job to the BullMQ queue pm-deploy (DeploymentsService).  pm-worker    *)
(* takes jobs with a concurrency of two; runDeploy carries one deployment  *)
(* through clone, build and swap, an await at a time, so that two runs,    *)
(* also two runs of one application, interleave between any two of these   *)
(* steps.  A run owns nothing but its own row: the Docker containers of    *)
(* the application are shared by all its runs and are found by label.      *)
(*                                                                         *)
(* A crash of the worker process loses every run; BullMQ notices the       *)
(* stalled jobs and hands each out again, at most MaxStalls times.         *)
(***************************************************************************)
EXTENDS Naturals, Sequences, FiniteSets

CONSTANTS
    App,         \* applications
    Dep,         \* identifiers of deployment rows: bounds the deploys of a run
    Sha,         \* commits
    Slot,        \* the worker's concurrent job slots
    None,        \* SQL NULL, "no run", "no container"
    MaxStalls,   \* BullMQ's maxStalledCount
    MaxCrashes,  \* bound on worker crashes
    Faults       \* the calls that may fail, a subset of FaultKinds

(* The calls whose failure the code handles, or leaves unhandled. *)
FaultKinds == {"github", "enqueue", "prepare", "clone", "build", "env",
               "stop", "remove", "create", "start", "publish"}

ASSUME StallsAssumption == MaxStalls \in Nat /\ MaxCrashes \in Nat
ASSUME SlotAssumption == IsFiniteSet(Slot)
ASSUME FaultsAssumption == Faults \subseteq FaultKinds
ASSUME NoneAssumption == None \notin App \cup Dep \cup Sha \cup (Dep \X Nat)

VARIABLES
    row,         \* deployments table: Dep -> row, NoRow when not inserted
    clock,       \* number of finishedAt timestamps written so far
    deleted,     \* applications with deletedAt set
    vetted,      \* applications a deploy request has read as not deleted
    adding,      \* rows inserted whose queue.add has not happened yet
    wait,        \* BullMQ wait list, head first
    stalled,     \* active jobs whose worker process is gone
    runs,        \* how often each job has been handed to the worker
    crashes,     \* worker crashes so far
    slot,        \* the run in each slot: program counter, row, old containers
    containers,  \* containers Docker knows, running or not
    running,     \* containers that run, and so hold their host port
    lister       \* history: the run that last listed an app's containers

apiVars == <<deleted, vetted, adding>>
queueVars == <<wait, stalled, runs, crashes>>
dockerVars == <<containers, running, lister>>
vars == <<row, clock, apiVars, queueVars, slot, dockerVars>>

-----------------------------------------------------------------------------
(* Rows, runs and containers *)

InProgress == {"cloning", "building", "swapping"}
Terminal == {"succeeded", "failed"}
Status == {"none", "queued"} \cup InProgress \cup Terminal

(* A container is created by one run of one deployment: the pair of the    *)
(* deployment and the number of the run stands for the Docker id.          *)
Container == Dep \X Nat

Row == [status : Status, app : App \cup {None}, sha : Sha \cup {None},
        trigger : {"none", "fresh", "redeploy", "rollback"},
        image : BOOLEAN, finishedAt : Nat, container : Container \cup {None}]

NoRow == [status |-> "none", app |-> None, sha |-> None, trigger |-> "none",
          image |-> FALSE, finishedAt |-> 0, container |-> None]

(* enqueueDeploy's INSERT; image says whether image_tag is given (its      *)
(* value is always pm/<slug>:<sha>, so it is determined by the row).       *)
QueuedRow(a, c, t, img) ==
    [NoRow EXCEPT !.status = "queued", !.app = a, !.sha = c, !.trigger = t,
                  !.image = img]

Pc == {"idle", "claimed", "clone", "build", "list", "remove", "start",
       "settle", "record", "done"}

Run == [pc : Pc, dep : Dep \cup {None}, todo : SUBSET Container]

Idle == [pc |-> "idle", dep |-> None, todo |-> {}]

(* The label pm.app and the name <slug>_<sha12> of a container. *)
AppOf(c) == row[c[1]].app
NameOf(c) == <<row[c[1]].app, row[c[1]].sha>>
ContainersOf(a) == {c \in containers : AppOf(c) = a}

DepOf(s) == slot[s].dep
At(s, p) == slot[s].pc = p
Mine(s) == <<DepOf(s), runs[DepOf(s)]>>
AppOfSlot(s) == row[DepOf(s)].app

SetPc(s, p) == slot' = [slot EXCEPT ![s].pc = p]
SetStatus(s, st) == row' = [row EXCEPT ![DepOf(s)].status = st]

Init ==
    /\ row = [d \in Dep |-> NoRow]
    /\ clock = 0
    /\ deleted = {} /\ vetted = {} /\ adding = {}
    /\ wait = <<>> /\ stalled = {}
    /\ runs = [d \in Dep |-> 0] /\ crashes = 0
    /\ slot = [s \in Slot |-> Idle]
    /\ containers = {} /\ running = {}
    /\ lister = [a \in App |-> None]

-----------------------------------------------------------------------------
(* pm-api: deploy requests, the webhook, deletion of an application *)

(* A manual deploy or a push reads the application row, not deleted. *)
ReadApp(a) ==
    /\ a \notin deleted
    /\ vetted' = vetted \cup {a}
    /\ UNCHANGED <<row, clock, deleted, adding, queueVars, slot, dockerVars>>

(* GitHub does not resolve the branch: the request ends in BadRequest. *)
ResolveFails(a) ==
    /\ "github" \in Faults
    /\ a \in vetted
    /\ vetted' = vetted \ {a}
    /\ UNCHANGED <<row, clock, deleted, adding, queueVars, slot, dockerVars>>

Enqueue(d, a, c, t, img) ==
    /\ row[d] = NoRow
    /\ row' = [row EXCEPT ![d] = QueuedRow(a, c, t, img)]
    /\ adding' = adding \cup {d}
    /\ UNCHANGED <<clock, deleted, queueVars, slot, dockerVars>>

Deploy(d, a, c) ==
    /\ a \in vetted
    /\ vetted' = vetted \ {a}
    /\ Enqueue(d, a, c, "fresh", FALSE)

SucceededRows(a) == {t \in Dep : row[t].app = a /\ row[t].status = "succeeded"}

(* The application's last success is deployed again, also when the         *)
(* application has been deleted: the route reads the deployment only.      *)
Redeploy(d, a) ==
    \E last \in SucceededRows(a) :
        /\ \A t \in SucceededRows(a) : row[t].finishedAt <= row[last].finishedAt
        /\ Enqueue(d, a, row[last].sha, "redeploy", row[last].image)
        /\ UNCHANGED vetted

(* Mutant: the status of the target is not looked at. *)
RollbackToAny(d, target) ==
    /\ row[target] # NoRow
    /\ Enqueue(d, row[target].app, row[target].sha, "rollback", TRUE)
    /\ UNCHANGED vetted

Rollback(d, target) ==
    /\ row[target].status = "succeeded" /\ row[target].image
    /\ Enqueue(d, row[target].app, row[target].sha, "rollback", TRUE)
    /\ UNCHANGED vetted

(* Mutant: a repeated queue.add without a job id. *)
AddJobTwice(d) ==
    /\ d \in adding
    /\ adding' = adding \ {d}
    /\ wait' = wait \o <<d, d>>
    /\ UNCHANGED <<row, clock, deleted, vetted, stalled, runs, crashes, slot,
                   dockerVars>>

AddJob(d) ==
    /\ d \in adding
    /\ adding' = adding \ {d}
    /\ wait' = Append(wait, d)
    /\ UNCHANGED <<row, clock, deleted, vetted, stalled, runs, crashes, slot,
                   dockerVars>>

(* Redis refuses the job, or pm-api stops before it adds it. *)
AddFails(d) ==
    /\ "enqueue" \in Faults
    /\ d \in adding
    /\ adding' = adding \ {d}
    /\ UNCHANGED <<row, clock, deleted, vetted, queueVars, slot, dockerVars>>

SoftDelete(a) ==
    /\ a \notin deleted
    /\ deleted' = deleted \cup {a}
    /\ UNCHANGED <<row, clock, vetted, adding, queueVars, slot, dockerVars>>

-----------------------------------------------------------------------------
(* BullMQ and the worker process *)

Claim(s) ==
    /\ At(s, "idle") /\ wait # <<>>
    /\ wait' = Tail(wait)
    /\ slot' = [slot EXCEPT ![s] = [Idle EXCEPT !.pc = "claimed", !.dep = Head(wait)]]
    /\ runs' = [runs EXCEPT ![Head(wait)] = @ + 1]
    /\ UNCHANGED <<row, clock, apiVars, stalled, crashes, dockerVars>>

Active == {DepOf(s) : s \in {t \in Slot : ~At(t, "idle")}}

(* The worker process dies with all its runs; it is restarted at once. *)
Crash ==
    /\ crashes < MaxCrashes
    /\ Active # {}
    /\ crashes' = crashes + 1
    /\ stalled' = stalled \cup Active
    /\ slot' = [s \in Slot |-> Idle]
    /\ UNCHANGED <<row, clock, apiVars, wait, runs, dockerVars>>

(* BullMQ's stalled check: back to the head of the wait list, or failed    *)
(* for good without runDeploy (and so without the row) hearing of it.      *)
StalledCheck(d) ==
    /\ d \in stalled
    /\ stalled' = stalled \ {d}
    /\ wait' = IF runs[d] <= MaxStalls THEN <<d>> \o wait ELSE wait
    /\ UNCHANGED <<row, clock, apiVars, runs, crashes, slot, dockerVars>>

-----------------------------------------------------------------------------
(* runDeploy *)

(* Mutant: the catch block logs the error and leaves the row alone. *)
FailSilently(s) ==
    /\ slot' = [slot EXCEPT ![s].pc = "done", ![s].todo = {}]
    /\ UNCHANGED <<row, clock>>

(* The catch block: the row fails; nothing done in Docker is undone. *)
Fail(s) ==
    /\ row' = [row EXCEPT ![DepOf(s)].status = "failed",
                          ![DepOf(s)].finishedAt = clock + 1]
    /\ clock' = clock + 1
    /\ slot' = [slot EXCEPT ![s].pc = "done", ![s].todo = {}]

FailsOn(s, kind) == kind \in Faults /\ Fail(s)

Begin(s) ==
    /\ At(s, "claimed")
    /\ SetStatus(s, "cloning")
    /\ SetPc(s, "clone")
    /\ UNCHANGED <<clock, apiVars, queueVars, dockerVars>>

(* The first update or the creation of the build directory fails: this is  *)
(* before the try block, so the row keeps the status it has by then.       *)
BeginFails(s) ==
    /\ "prepare" \in Faults
    /\ At(s, "claimed")
    /\ SetStatus(s, "cloning") \/ UNCHANGED row
    /\ SetPc(s, "done")
    /\ UNCHANGED <<clock, apiVars, queueVars, dockerVars>>

(* Mutant: the status of the build is written after it. *)
CloneWritesLate(s) ==
    /\ At(s, "clone")
    /\ SetStatus(s, "swapping") /\ SetPc(s, "build")
    /\ UNCHANGED <<clock, apiVars, queueVars, dockerVars>>

Clone(s) ==
    /\ At(s, "clone")
    /\ \/ SetStatus(s, "building") /\ SetPc(s, "build") /\ UNCHANGED clock
       \/ FailsOn(s, "clone")
    /\ UNCHANGED <<apiVars, queueVars, dockerVars>>

(* Every run builds, a redeploy and a rollback too. *)
Build(s) ==
    /\ At(s, "build")
    /\ \/ SetStatus(s, "swapping") /\ SetPc(s, "list") /\ UNCHANGED clock
       \/ FailsOn(s, "build")
    /\ UNCHANGED <<apiVars, queueVars, dockerVars>>

List(s) ==
    /\ At(s, "list")
    /\ \/ /\ slot' = [slot EXCEPT ![s].pc = "remove",
                                  ![s].todo = ContainersOf(AppOfSlot(s))]
          /\ lister' = [lister EXCEPT ![AppOfSlot(s)] = Mine(s)]
          /\ UNCHANGED <<row, clock>>
       \/ FailsOn(s, "env") /\ UNCHANGED lister
    /\ UNCHANGED <<apiVars, queueVars, containers, running>>

(* The loop over the listed containers: stop one, then remove it by force, *)
(* each failure ignored.  One that another run has removed is gone.        *)
StopOld(s) ==
    /\ At(s, "remove")
    /\ \E c \in slot[s].todo \cap running : running' = running \ {c}
    /\ UNCHANGED <<row, clock, apiVars, queueVars, slot, containers, lister>>

(* Mutant: old containers are stopped and not removed. *)
RemoveOldOnlyStops(s) ==
    /\ At(s, "remove")
    /\ \E c \in slot[s].todo :
        /\ c \notin running
        /\ slot' = [slot EXCEPT ![s].todo = @ \ {c}]
    /\ UNCHANGED <<row, clock, apiVars, queueVars, dockerVars>>

(* Mutant: a container is dropped that Docker still runs. *)
RemoveOldUnforced(s) ==
    /\ At(s, "remove")
    /\ \E c \in slot[s].todo :
        /\ slot' = [slot EXCEPT ![s].todo = @ \ {c}]
        /\ containers' = containers \ {c}
    /\ UNCHANGED <<row, clock, apiVars, queueVars, running, lister>>

RemoveOld(s) ==
    /\ At(s, "remove")
    /\ \E c \in slot[s].todo :
        /\ c \notin running \/ "stop" \in Faults
        /\ slot' = [slot EXCEPT ![s].todo = @ \ {c}]
        /\ \/ containers' = containers \ {c} /\ running' = running \ {c}
           \/ "remove" \in Faults /\ UNCHANGED <<containers, running>>
    /\ UNCHANGED <<row, clock, apiVars, queueVars, lister>>

(* Mutant: a taken name is waited for. *)
CreateWaits(s) ==
    /\ At(s, "remove") /\ slot[s].todo = {}
    /\ \A c \in containers : NameOf(c) # NameOf(Mine(s))
    /\ containers' = containers \cup {Mine(s)}
    /\ SetPc(s, "start")
    /\ UNCHANGED <<row, clock, apiVars, queueVars, running, lister>>

(* Docker refuses a second container with the same name. *)
Create(s) ==
    /\ At(s, "remove") /\ slot[s].todo = {}
    /\ \/ /\ \A c \in containers : NameOf(c) # NameOf(Mine(s))
          /\ containers' = containers \cup {Mine(s)}
          /\ SetPc(s, "start")
          /\ UNCHANGED <<row, clock>>
       \/ /\ \/ "create" \in Faults
             \/ \E c \in containers : NameOf(c) = NameOf(Mine(s))
          /\ Fail(s)
          /\ UNCHANGED containers
    /\ UNCHANGED <<apiVars, queueVars, running, lister>>

(* The container must still exist and the application's port be free. *)
CanStart(c) == c \in containers /\ \A r \in running : AppOf(r) # AppOf(c)

(* Mutant: an error of start is ignored, as those of stop and remove are. *)
StartIgnoresErrors(s) ==
    /\ At(s, "start")
    /\ running' = IF CanStart(Mine(s)) THEN running \cup {Mine(s)} ELSE running
    /\ SetPc(s, "settle")
    /\ UNCHANGED <<row, clock, apiVars, queueVars, containers, lister>>

Start(s) ==
    /\ At(s, "start")
    /\ \/ /\ CanStart(Mine(s))
          /\ running' = running \cup {Mine(s)}
          /\ SetPc(s, "settle")
          /\ UNCHANGED <<row, clock>>
       \/ /\ "start" \in Faults \/ ~CanStart(Mine(s))
          /\ Fail(s)
          /\ UNCHANGED running
    /\ UNCHANGED <<apiVars, queueVars, containers, lister>>

(* Five seconds of settling, then the nginx sites of the app's domains. *)
Publish(s) ==
    /\ At(s, "settle")
    /\ \/ SetPc(s, "record") /\ UNCHANGED <<row, clock>>
       \/ FailsOn(s, "publish")
    /\ UNCHANGED <<apiVars, queueVars, dockerVars>>

Record(s) ==
    /\ At(s, "record")
    /\ row' = [row EXCEPT ![DepOf(s)].status = "succeeded",
                          ![DepOf(s)].finishedAt = clock + 1,
                          ![DepOf(s)].image = TRUE,
                          ![DepOf(s)].container = Mine(s)]
    /\ clock' = clock + 1
    /\ SetPc(s, "done")
    /\ UNCHANGED <<apiVars, queueVars, dockerVars>>

(* The build directory is removed and the job completed or failed. *)
Complete(s) ==
    /\ At(s, "done")
    /\ slot' = [slot EXCEPT ![s] = Idle]
    /\ UNCHANGED <<row, clock, apiVars, queueVars, dockerVars>>

-----------------------------------------------------------------------------
Request ==
    \/ \E a \in App : ReadApp(a) \/ ResolveFails(a) \/ SoftDelete(a)
    \/ \E d \in Dep : \/ \E a \in App : Redeploy(d, a) \/ \E c \in Sha : Deploy(d, a, c)
                      \/ \E target \in Dep : Rollback(d, target)

RunStep(s) ==
    \/ Begin(s) \/ BeginFails(s) \/ Clone(s) \/ Build(s) \/ List(s)
    \/ StopOld(s) \/ RemoveOld(s) \/ Create(s) \/ Start(s) \/ Publish(s)
    \/ Record(s) \/ Complete(s)

Next ==
    \/ Request
    \/ \E d \in Dep : AddJob(d) \/ AddFails(d) \/ StalledCheck(d)
    \/ \E s \in Slot : Claim(s) \/ RunStep(s)
    \/ Crash

Spec == Init /\ [][Next]_vars

(* pm-api goes on with a request it has begun; a worker slot goes on with  *)
(* its run and takes the next job; BullMQ checks for stalled jobs on a     *)
(* timer.  Nobody has to ask for a deploy, and nothing has to crash.       *)
Fairness ==
    /\ \A d \in Dep : WF_vars(AddJob(d)) /\ WF_vars(StalledCheck(d))
    /\ \A s \in Slot : WF_vars(Claim(s)) /\ WF_vars(RunStep(s))

FairSpec == Spec /\ Fairness

-----------------------------------------------------------------------------
(* Properties.                                                             *)

(* Every variable has the type the schema, BullMQ and Docker give it.      *)
TypeOK ==
    /\ row \in [Dep -> Row]
    /\ clock \in Nat
    /\ deleted \subseteq App /\ vetted \subseteq App
    /\ adding \subseteq Dep
    /\ wait \in Seq(Dep) /\ stalled \subseteq Dep
    /\ runs \in [Dep -> Nat] /\ crashes \in Nat
    /\ slot \in [Slot -> Run]
    /\ containers \subseteq Container /\ running \subseteq containers
    /\ lister \in [App -> Container \cup {None}]

(* Where the job of a row is: not yet added, waiting, with a run, or       *)
(* abandoned by a dead worker.                                             *)
HasJob(d) ==
    \/ d \in adding \cup stalled
    \/ \E i \in 1..Len(wait) : wait[i] = d
    \/ \E s \in Slot : DepOf(s) = d

(* The run that listed an application's containers last is out of reach of *)
(* every other run: once its row says succeeded, its container runs, also  *)
(* when runs of the application overlap, crash or fail around it           *)
(* (deploy.ts, the swap and the final update).                             *)
LastSwapServes ==
    \A a \in App :
        lister[a] # None /\ row[lister[a][1]].status = "succeeded"
            => lister[a] \in running

(* A row that is not terminal still has a job that will carry it on,       *)
(* unless the job was lost in one of three places: queue.add failed after  *)
(* the insert, the run failed before its try block, or BullMQ gave up on a *)
(* job that stalled more than MaxStalls times.                             *)
NoStrandedRow ==
    \A d \in Dep :
        row[d].status \in {"queued"} \cup InProgress /\ ~HasJob(d)
            => \/ "enqueue" \in Faults /\ runs[d] = 0
               \/ /\ "prepare" \in Faults /\ runs[d] > 0
                  /\ row[d].status \in {"queued", "cloning"} \/ runs[d] > 1
               \/ runs[d] > MaxStalls

(* As long as Docker removes what it is told to remove, overlapping,       *)
(* failing and crashing runs leave no more containers of an application    *)
(* behind than the worker has slots.                                       *)
ResidueBounded ==
    "remove" \notin Faults =>
        \A a \in App : Cardinality(ContainersOf(a)) <= Cardinality(Slot)

(* What is redeployed or rolled back to is a commit that an earlier        *)
(* deployment of the same application has served.                          *)
OnlyServedIsRepeated ==
    \A d \in Dep : row[d].trigger \in {"redeploy", "rollback"} =>
        \E t \in Dep \ {d} : /\ row[t].app = row[d].app
                              /\ row[t].sha = row[d].sha
                              /\ row[t].container # None

(* The outcome of a deployment is final: only a job that a crash has made  *)
(* BullMQ hand out again takes a row out of succeeded or failed.           *)
OutcomeIsFinal ==
    [][\A d \in Dep : row[d].status \in Terminal /\ row'[d].status # row[d].status
            => runs[d] \in 2..(crashes + 1)]_vars

(* Where queue.add works and no job stalls twice, every deployment that was *)
(* queued gets an outcome: a crash, runs that overlap and calls that fail   *)
(* do not leave one in progress.                                            *)
DeploymentsEnd ==
    \A d \in Dep : row[d].status = "queued" ~> row[d].status \in Terminal

(* The table of deployments implements the lifecycle its readers rely on.  *)
(* A started deployment starts over only where the worker may crash.       *)
Lifecycle == INSTANCE DeploymentLifecycle WITH
    Restarts <- MaxCrashes > 0,
    status <- [d \in Dep |-> row[d].status],
    served <- {d \in Dep : row[d].container # None}

(* Every step of the pipeline is a step of the lifecycle or leaves it be.  *)
ImplementsLifecycle == Lifecycle!Spec

(* And then the pipeline also makes the lifecycle's progress, started over *)
(* by a crash or not.                                                      *)
ImplementsFairLifecycle == Lifecycle!FairSpec

-----------------------------------------------------------------------------
(* What the design document says and the code does not do.                *)

(* Design 6.3 step 6: on failure "leave old container running".  Between   *)
(* runs, an application that some deployment has served has a container    *)
(* running, whatever later deployments failed.                             *)
FailureKeepsOld ==
    \A d \in Dep :
        row[d].container # None /\ (\A s \in Slot : At(s, "idle"))
            => \E c \in running : AppOf(c) = row[d].app
=============================================================================
