----------------------- MODULE DeployRefinementProofs -----------------------
(***************************************************************************)
(* From the inductive invariant of DeployPipelineProofs: what a step can   *)
(* do to a row, hence that outcomes are final and that the pipeline        *)
(* implements DeploymentLifecycle; then what it leaves behind: a row that  *)
(* is not final has a job or a known reason to have none, what is repeated *)
(* has been served, and the containers of an application are no more than  *)
(* the slots.                                                              *)
(***************************************************************************)
EXTENDS DeployPipelineProofs, FiniteSetTheorems

SameContainer(d) == row'[d].container = row[d].container

(* The edges along which a step can take the row of d. *)
RowEdge(d) ==
    \/ /\ row[d].status = "none" /\ row'[d].status = "queued"
       /\ SameContainer(d)
    \/ /\ row[d].status = "queued" \/ runs[d] >= 2
       /\ row[d].status # "none" /\ row'[d].status = "cloning"
       /\ SameContainer(d)
    \/ row[d].status = "cloning" /\ row'[d].status = "building" /\ SameContainer(d)
    \/ row[d].status = "building" /\ row'[d].status = "swapping" /\ SameContainer(d)
    \/ row[d].status \in InProgress /\ row'[d].status = "failed" /\ SameContainer(d)
    \/ /\ row[d].status = "swapping" /\ row'[d].status = "succeeded"
       /\ row'[d].container # None

OneRow == \E d \in Dep : RowEdge(d) /\ \A e \in Dep \ {d} : row'[e] = row[e]

(* The catch block takes a row in progress to failed.                      *)
LEMMA FailEdge ==
    ASSUME IndInv, NEW s \in Slot, Fail(s),
           slot[s].pc \in {"clone", "build"} \cup Swapping
    PROVE  OneRow
<1>1. DepOf(s) \in Dep /\ row[DepOf(s)].status \in InProgress
  BY BusySlot DEF IndInv, RunMatchesRow, At, InProgress, Swapping
<1>2. /\ row'[DepOf(s)].status = "failed" /\ SameContainer(DepOf(s))
      /\ \A e \in Dep \ {DepOf(s)} : row'[e] = row[e]
  BY <1>1 DEF Fail, IndInv, TypeOK, Row, SameContainer
<1> QED BY <1>1, <1>2 DEF OneRow, RowEdge

(* setStatus moves the run's own row and no other.                         *)
LEMMA StatusEdge ==
    ASSUME IndInv, NEW s \in Slot, slot[s].pc # "idle", NEW st, SetStatus(s, st)
    PROVE  /\ DepOf(s) \in Dep
           /\ row'[DepOf(s)].status = st /\ SameContainer(DepOf(s))
           /\ \A e \in Dep \ {DepOf(s)} : row'[e] = row[e]
<1>1. DepOf(s) \in Dep
  BY BusySlot
<1> QED BY <1>1 DEF SetStatus, IndInv, TypeOK, Row, SameContainer

(* A step of runDeploy moves at most its own row, along an edge.           *)
LEMMA RunEdge ==
    ASSUME IndInv, NEW s \in Slot, RunStep(s)
    PROVE  OneRow \/ UNCHANGED row
<1>1. CASE At(s, "claimed") /\ SetStatus(s, "cloning")
  <2>1. row[DepOf(s)].status = "queued" \/ runs[DepOf(s)] >= 2
    BY <1>1, BusySlot DEF At, IndInv, RunMatchesRow
  <2>2. row[DepOf(s)].status # "none"
    BY <1>1, BusySlot DEF At
  <2> QED BY <1>1, <2>1, <2>2, StatusEdge DEF At, OneRow, RowEdge
<1>2. CASE At(s, "clone") /\ SetStatus(s, "building")
  <2>1. row[DepOf(s)].status = "cloning"
    BY <1>2 DEF IndInv, RunMatchesRow
  <2> QED BY <1>2, <2>1, StatusEdge DEF At, OneRow, RowEdge
<1>3. CASE At(s, "build") /\ SetStatus(s, "swapping")
  <2>1. row[DepOf(s)].status = "building"
    BY <1>3 DEF IndInv, RunMatchesRow
  <2> QED BY <1>3, <2>1, StatusEdge DEF At, OneRow, RowEdge
<1>4. CASE Record(s)
  <2>1. /\ DepOf(s) \in Dep /\ Mine(s) # None /\ row[DepOf(s)].status = "swapping"
    BY <1>4, BusySlot, NoneAssumption
       DEF Record, At, IndInv, RunMatchesRow, Swapping, Container
  <2>2. /\ row'[DepOf(s)].status = "succeeded"
        /\ row'[DepOf(s)].container = Mine(s)
        /\ \A e \in Dep \ {DepOf(s)} : row'[e] = row[e]
    BY <1>4, <2>1 DEF Record, IndInv, TypeOK, Row
  <2> QED BY <2>1, <2>2 DEF OneRow, RowEdge
<1>5. CASE Fail(s) /\ slot[s].pc \in {"clone", "build"} \cup Swapping
  BY <1>5, FailEdge
<1> QED BY <1>1, <1>2, <1>3, <1>4, <1>5
        DEF RunStep, Begin, BeginFails, Clone, Build, List, StopOld, RemoveOld,
            Create, Start, Publish, Complete, FailsOn, At, Swapping

(* A request moves at most the row it inserts.                             *)
LEMMA RequestEdge ==
    ASSUME IndInv, Request
    PROVE  OneRow \/ UNCHANGED row
<1>1. ASSUME NEW d \in Dep, NEW a \in App, NEW c \in Sha \cup {None}, NEW img \in BOOLEAN,
             NEW t \in {"fresh", "redeploy", "rollback"}, Enqueue(d, a, c, t, img)
      PROVE  OneRow
  <2>1. /\ row[d].status = "none" /\ row[d].container = None
        /\ QueuedRow(a, c, t, img).status = "queued"
        /\ QueuedRow(a, c, t, img).container = None
    BY <1>1 DEF Enqueue, NoRow, QueuedRow
  <2>2. /\ row'[d] = QueuedRow(a, c, t, img)
        /\ \A e \in Dep \ {d} : row'[e] = row[e]
    BY <1>1 DEF Enqueue, IndInv, TypeOK
  <2> QED BY <2>1, <2>2 DEF OneRow, RowEdge, SameContainer
<1>2. CASE \E a \in App : ReadApp(a) \/ ResolveFails(a) \/ SoftDelete(a)
  BY <1>2 DEF ReadApp, ResolveFails, SoftDelete
<1> QED BY <1>1, <1>2, RequestCases

(* So does every step: rows move one at a time, along the edges.           *)
LEMMA NextEdge == IndInv /\ [Next]_vars => OneRow \/ UNCHANGED row
<1> SUFFICES ASSUME IndInv, [Next]_vars PROVE OneRow \/ UNCHANGED row
  OBVIOUS
<1>1. CASE Request
  BY <1>1, RequestEdge
<1>2. ASSUME NEW d \in Dep, AddJob(d) \/ AddFails(d) \/ StalledCheck(d)
      PROVE  UNCHANGED row
  BY <1>2 DEF AddJob, AddFails, StalledCheck
<1>3. ASSUME NEW s \in Slot, Claim(s) PROVE UNCHANGED row
  BY <1>3 DEF Claim
<1>4. ASSUME NEW s \in Slot, RunStep(s) PROVE OneRow \/ UNCHANGED row
  BY <1>4, RunEdge
<1>5. CASE Crash \/ UNCHANGED vars
  BY <1>5 DEF Crash, vars
<1> QED BY <1>1, <1>2, <1>3, <1>4, <1>5 DEF Next

(* A repeated run means that the worker has crashed. *)
LEMMA RepeatMeansCrash ==
    ASSUME IndInv, NEW d \in Dep, runs[d] >= 2
    PROVE  runs[d] \in 2..(crashes + 1) /\ MaxCrashes > 0
BY StallsAssumption DEF IndInv, TypeOK, JobHasRow

-----------------------------------------------------------------------------

FinalStep ==
    \A d \in Dep : row[d].status \in Terminal /\ row'[d].status # row[d].status
        => runs[d] \in 2..(crashes + 1)

(* An outcome changes only after a crash made BullMQ repeat the job.       *)
THEOREM OutcomesAreFinal == Spec => OutcomeIsFinal
<1>1. IndInv /\ [Next]_vars => FinalStep
  <2> SUFFICES ASSUME IndInv, [Next]_vars, NEW d \in Dep,
                      row[d].status \in Terminal, row'[d].status # row[d].status
               PROVE  runs[d] \in 2..(crashes + 1)
    BY DEF FinalStep
  <2>1. RowEdge(d)
    BY NextEdge DEF OneRow
  <2>2. runs[d] >= 2
    BY <2>1 DEF RowEdge, Terminal, InProgress
  <2> QED BY <2>2, RepeatMeansCrash
<1>2. IndInv /\ [Next]_vars => [FinalStep]_vars
  BY <1>1
<1> QED BY <1>2, InductiveInvariant, PTL DEF Spec, OutcomeIsFinal, FinalStep

-----------------------------------------------------------------------------

StatusOf == [d \in Dep |-> row[d].status]
Served == {d \in Dep : row[d].container # None}

(* One row that moves is one function update of the lifecycle's status.    *)
LEMMA MovedStatus ==
    ASSUME IndInv, NEW d \in Dep, \A e \in Dep \ {d} : row'[e] = row[e]
    PROVE  /\ StatusOf' = [StatusOf EXCEPT ![d] = row'[d].status]
           /\ SameContainer(d) => Served' = Served
           /\ row'[d].container # None => Served' = Served \cup {d}
BY DEF StatusOf, Served, SameContainer

(* Each edge of a row is a step of the lifecycle (setStatus, the final     *)
(* update and the catch block of runDeploy; the insert of enqueueDeploy).  *)
LEMMA EdgeIsLifecycleStep ==
    ASSUME IndInv, OneRow PROVE Lifecycle!Next
<1>1. PICK d \in Dep : RowEdge(d) /\ \A e \in Dep \ {d} : row'[e] = row[e]
  BY DEF OneRow
<1>2. /\ StatusOf' = [StatusOf EXCEPT ![d] = row'[d].status]
      /\ SameContainer(d) => Served' = Served
      /\ row'[d].container # None => Served' = Served \cup {d}
  BY <1>1, MovedStatus
<1>3. StatusOf[d] = row[d].status
  BY DEF StatusOf
<1>4. CASE row[d].status = "none" /\ row'[d].status = "queued" /\ SameContainer(d)
  <2>1. Lifecycle!Submit(d)
    BY <1>2, <1>3, <1>4 DEF Lifecycle!Submit, Lifecycle!Move, StatusOf, Served
  <2> QED BY <2>1 DEF Lifecycle!Next
<1>5. CASE /\ row[d].status = "queued" \/ runs[d] >= 2
           /\ row[d].status # "none" /\ row'[d].status = "cloning"
           /\ SameContainer(d)
  <2>1. row[d].status = "queued" \/ MaxCrashes > 0
    BY <1>5, RepeatMeansCrash
  <2>2. Lifecycle!Begin(d)
    BY <1>2, <1>3, <1>5, <2>1
       DEF Lifecycle!Begin, Lifecycle!Move, StatusOf, Served
  <2> QED BY <2>2 DEF Lifecycle!Next, Lifecycle!Work
<1>6. CASE /\ <<row[d].status, row'[d].status>> \in Lifecycle!Forward
           /\ SameContainer(d)
  <2>1. \E edge \in Lifecycle!Forward : row[d].status = edge[1] /\ row'[d].status = edge[2]
    BY <1>6 DEF Lifecycle!Forward
  <2>2. \E edge \in Lifecycle!Forward : Lifecycle!Move(d, edge[1], edge[2])
    BY <1>2, <1>3, <2>1 DEF Lifecycle!Move, StatusOf
  <2>3. Lifecycle!Advance(d)
    BY <1>2, <1>6, <2>2 DEF Lifecycle!Advance, Served
  <2> QED BY <2>3 DEF Lifecycle!Next, Lifecycle!Work
<1>7. CASE /\ row[d].status \in InProgress /\ row'[d].status = "failed"
           /\ SameContainer(d)
  <2>1. Lifecycle!Fail(d)
    BY <1>2, <1>3, <1>7 DEF Lifecycle!Fail, Lifecycle!Move, Lifecycle!InProgress,
                            InProgress, StatusOf, Served
  <2> QED BY <2>1 DEF Lifecycle!Next, Lifecycle!Work
<1>8. CASE /\ row[d].status = "swapping" /\ row'[d].status = "succeeded"
           /\ row'[d].container # None
  <2>1. Lifecycle!Succeed(d)
    BY <1>2, <1>3, <1>8 DEF Lifecycle!Succeed, Lifecycle!Move, StatusOf, Served
  <2> QED BY <2>1 DEF Lifecycle!Next, Lifecycle!Work
<1> QED BY <1>1, <1>4, <1>5, <1>6, <1>7, <1>8 DEF RowEdge, Lifecycle!Forward

(* What the table of deployments shows follows the lifecycle: every step   *)
(* of pm-api, BullMQ, the worker and its crashes is a lifecycle step of    *)
(* one deployment or changes neither a status nor what has been served.    *)
THEOREM PipelineImplementsLifecycle == Spec => ImplementsLifecycle
<1>1. Init => Lifecycle!Init
  BY DEF Init, NoRow, Lifecycle!Init
<1>2. IndInv /\ [Next]_vars => [Lifecycle!Next]_(Lifecycle!vars)
  <2> SUFFICES ASSUME IndInv, [Next]_vars
               PROVE  Lifecycle!Next \/ UNCHANGED Lifecycle!vars
    OBVIOUS
  <2>1. CASE OneRow
    BY <2>1, EdgeIsLifecycleStep
  <2>2. CASE UNCHANGED row
    BY <2>2 DEF Lifecycle!vars
  <2> QED BY <2>1, <2>2, NextEdge
<1> QED BY <1>1, <1>2, InductiveInvariant, PTL
        DEF Spec, ImplementsLifecycle, Lifecycle!Spec
-----------------------------------------------------------------------------
(* What the pipeline leaves behind *)

Open == {"queued"} \cup InProgress
Held == adding \cup stalled \cup Waiting \cup {slot[s].dep : s \in Slot}

(* The three ways for a job to be lost. *)
Excused(d) ==
    \/ "enqueue" \in Faults /\ runs[d] = 0
    \/ /\ "prepare" \in Faults /\ runs[d] > 0
       /\ row[d].status \in {"queued", "cloning"} \/ runs[d] > 1
    \/ runs[d] > MaxStalls

(* A run that is about to complete leaves an outcome or an excuse. *)
StrandInv ==
    /\ \A d \in Dep : row[d].status \in Open /\ d \notin Held => Excused(d)
    /\ \A s \in Slot : slot[s].pc = "done" =>
           row[slot[s].dep].status \in Terminal \/ Excused(slot[s].dep)

(* Steps that leave rows and runs alone and lose no job.                   *)
LEMMA StrandKept ==
    ASSUME StrandInv, UNCHANGED <<row, runs>>, Held \subseteq Held',
           \A s \in Slot : slot'[s] = slot[s] \/ slot'[s].pc # "done"
    PROVE  StrandInv'
BY DEF StrandInv, Excused

(* A request that inserts a row has a job to add.                          *)
LEMMA StrandRequest == ASSUME IndInv, StrandInv, Request PROVE StrandInv'
<1>1. CASE \E a \in App : ReadApp(a) \/ ResolveFails(a) \/ SoftDelete(a)
  <2>1. UNCHANGED <<row, runs, adding, stalled, wait, slot>>
    BY <1>1 DEF ReadApp, ResolveFails, SoftDelete, queueVars
  <2>2. Held' = Held
    BY <2>1 DEF Held, Waiting, Members
  <2> QED BY <2>1, <2>2, StrandKept
<1>2. ASSUME NEW d \in Dep, NEW a \in App, NEW c \in Sha \cup {None}, NEW img \in BOOLEAN,
             NEW t \in {"fresh", "redeploy", "rollback"}, Enqueue(d, a, c, t, img)
      PROVE  StrandInv'
  <2>1. /\ row[d].status = "none" /\ adding' = adding \cup {d}
        /\ \A e \in Dep : e # d => row'[e] = row[e]
        /\ UNCHANGED <<runs, stalled, wait, slot>>
    BY <1>2 DEF Enqueue, NoRow, IndInv, TypeOK, queueVars
  <2>2. Held' = Held \cup {d}
    BY <2>1 DEF Held, Waiting, Members
  <2>3. \A s \in Slot : slot[s].pc = "done" => slot[s].dep \in Dep /\ slot[s].dep # d
    BY <2>1, BusySlot DEF DepOf
  <2> QED BY <2>1, <2>2, <2>3 DEF StrandInv, Excused
<1> QED BY <1>1, <1>2, RequestCases

(* queue.add moves the job or loses it before its first run; BullMQ gives  *)
(* a job up that has run more than MaxStalls times.                        *)
LEMMA StrandQueue ==
    ASSUME IndInv, StrandInv, NEW d \in Dep, AddJob(d) \/ AddFails(d) \/ StalledCheck(d)
    PROVE  StrandInv'
<1>1. UNCHANGED <<row, runs, slot>> /\ wait \in Seq(Dep) /\ Distinct(wait)
  BY DEF AddJob, AddFails, StalledCheck, queueVars, IndInv, TypeOK, JobOnce
<1>2. CASE AddJob(d)
  <2>1. Members(Append(wait, d)) = Members(wait) \cup {d}
    BY <1>1, AppendMembers
  <2>2. adding' = adding \ {d} /\ Waiting' = Waiting \cup {d} /\ stalled' = stalled
    BY <1>2, <2>1 DEF AddJob, Waiting
  <2>3. Held \subseteq Held'
    BY <1>1, <2>2 DEF Held
  <2> QED BY <1>1, <2>3, StrandKept
<1>3. CASE AddFails(d)
  <2>1. "enqueue" \in Faults /\ runs[d] = 0 /\ adding' = adding \ {d}
        /\ UNCHANGED <<stalled, wait>>
    BY <1>3 DEF AddFails, queueVars, IndInv, JobHasRow
  <2>2. Held \subseteq Held' \cup {d}
    BY <1>1, <2>1 DEF Held, Waiting, Members
  <2> QED BY <1>1, <2>1, <2>2 DEF StrandInv, Excused
<1>4. CASE StalledCheck(d)
  <2>1. stalled' = stalled \ {d} /\ adding' = adding
        /\ wait' = (IF runs[d] <= MaxStalls THEN <<d>> \o wait ELSE wait)
    BY <1>4 DEF StalledCheck, apiVars
  <2>2. runs[d] \in Nat /\ MaxStalls \in Nat
    BY StallsAssumption DEF IndInv, TypeOK
  <2>3. CASE runs[d] <= MaxStalls
    <3>1. Members(<<d>> \o wait) = Members(wait) \cup {d}
      BY <1>1, PrependMembers
    <3>2. Waiting' = Waiting \cup {d}
      BY <2>1, <2>3, <3>1 DEF Waiting
    <3>3. Held \subseteq Held'
      BY <1>1, <2>1, <3>2 DEF Held
    <3> QED BY <1>1, <3>3, StrandKept
  <2>4. CASE ~(runs[d] <= MaxStalls)
    <3>1. runs[d] > MaxStalls /\ wait' = wait
      BY <2>1, <2>2, <2>4
    <3>2. Held \subseteq Held' \cup {d}
      BY <1>1, <2>1, <3>1 DEF Held, Waiting, Members
    <3> QED BY <1>1, <3>1, <3>2 DEF StrandInv, Excused
  <2> QED BY <2>3, <2>4
<1> QED BY <1>2, <1>3, <1>4

(* The job taken from the list is the slot's; nobody else has it.          *)
LEMMA StrandClaim == ASSUME IndInv, StrandInv, NEW s \in Slot, Claim(s) PROVE StrandInv'
<1>1. /\ wait \in Seq(Dep) /\ wait # <<>> /\ Distinct(wait)
      /\ slot \in [Slot -> Run] /\ runs \in [Dep -> Nat] /\ slot[s].pc = "idle"
  BY DEF Claim, At, IndInv, TypeOK, JobOnce
<1>2. PICK d \in Dep : d = Head(wait) /\ d \in Waiting
                       /\ Members(Tail(wait)) = Members(wait) \ {d}
  BY <1>1, TailMembers DEF Waiting
<1>3. /\ wait' = Tail(wait) /\ runs' = [runs EXCEPT ![d] = @ + 1]
      /\ slot' = [slot EXCEPT ![s] = [Idle EXCEPT !.pc = "claimed", !.dep = d]]
      /\ UNCHANGED <<row, adding, stalled>>
  BY <1>2 DEF Claim, apiVars
<1>4. /\ slot'[s].pc = "claimed" /\ slot'[s].dep = d
      /\ \A t \in Slot : t # s => slot'[t] = slot[t]
      /\ slot[s].dep = None
  BY <1>1, <1>3 DEF Idle, IndInv, RunMatchesRow, At, DepOf
<1>5. Held \subseteq Held' \cup {None}
  <2>1. Waiting' = Waiting \ {d}
    BY <1>2, <1>3 DEF Waiting
  <2> QED BY <1>3, <1>4, <2>1 DEF Held
<1>6. d \in Held' /\ \A e \in Dep : e # d => runs'[e] = runs[e]
  BY <1>1, <1>3, <1>4 DEF Held
<1>7. \A t \in Slot : t # s => slot[t].dep # d
  BY <1>2 DEF IndInv, JobOnce, DepOf
<1>8. \A e \in Dep : row'[e].status \in Open /\ e \notin Held' => Excused(e)'
  BY <1>3, <1>5, <1>6, NoneAssumption DEF StrandInv, Excused
<1>9. ASSUME NEW t \in Slot, slot'[t].pc = "done"
      PROVE  row'[slot'[t].dep].status \in Terminal \/ \E e \in Dep : e = slot'[t].dep /\ Excused(e)'
  <2>1. t # s /\ slot'[t] = slot[t]
    BY <1>4, <1>9
  <2>2. PICK e \in Dep : e = slot[t].dep /\ e # d
    BY <1>7, <1>9, <2>1, BusySlot DEF DepOf
  <2>3. row[e].status \in Terminal \/ Excused(e)
    BY <1>9, <2>1, <2>2 DEF StrandInv
  <2> QED BY <1>3, <1>6, <2>1, <2>2, <2>3 DEF Excused
<1> QED BY <1>8, <1>9 DEF StrandInv, Excused

(* Every run that dies leaves its job to the stalled check.                *)
LEMMA StrandCrash == ASSUME IndInv, StrandInv, Crash PROVE StrandInv'
<1>1. /\ UNCHANGED <<row, runs, adding, wait>> /\ stalled' = stalled \cup Active
      /\ \A s \in Slot : slot'[s].pc = "idle"
  BY DEF Crash, apiVars, Idle
<1>2. \A s \in Slot : slot[s].dep = None \/ slot[s].dep \in Active
  BY DEF IndInv, RunMatchesRow, Active, At, DepOf
<1>3. Held \subseteq Held' \cup {None}
  BY <1>1, <1>2 DEF Held, Waiting, Members
<1> QED BY <1>1, <1>3, NoneAssumption DEF StrandInv, Excused

(* A step of a run other than its completion keeps the job in the slot,    *)
(* and ends the run only with an outcome or before the try block.          *)
LEMMA RunGoesOn ==
    ASSUME IndInv, NEW s \in Slot, RunStep(s), ~Complete(s), NEW d, d = slot[s].dep
    PROVE  /\ UNCHANGED <<adding, stalled, wait, runs>>
           /\ d \in Dep /\ slot'[s].dep = d
           /\ \A t \in Slot : t # s => slot'[t] = slot[t]
           /\ \A e \in Dep : e # d => row'[e] = row[e]
           /\ slot'[s].pc = "done" => row'[d].status \in Terminal \/ Excused(d)'
<1>1. slot \in [Slot -> Run] /\ row \in [Dep -> Row]
  BY DEF IndInv, TypeOK
<1>2. slot[s].pc \notin {"idle", "done"}
  BY DEF RunStep, Begin, BeginFails, Clone, Build, List, StopOld, RemoveOld, Create,
         Start, Publish, Record, At
<1>3. d \in Dep /\ runs[d] >= 1 /\ runs[d] \in Nat /\ DepOf(s) = d
  BY <1>2, BusySlot DEF DepOf
<1>4. UNCHANGED <<adding, stalled, wait, runs>>
  BY DEF RunStep, Begin, BeginFails, Clone, Build, List, StopOld, RemoveOld, Create,
         Start, Publish, Record, apiVars, queueVars
<1>5. /\ slot'[s].dep = d /\ \A t \in Slot : t # s => slot'[t] = slot[t]
  BY <1>1, SMTT(30) DEF RunStep, Begin, BeginFails, Clone, Build, List, StopOld, RemoveOld,
         Create, Start, Publish, Record, SetPc, FailsOn, Fail, Run
<1>6. \A e \in Dep : e # d => row'[e] = row[e]
  BY <1>1, <1>3 DEF RunStep, Begin, BeginFails, Clone, Build, List, StopOld, RemoveOld,
         Create, Start, Publish, Record, SetStatus, FailsOn, Fail
<1>7. ASSUME slot'[s].pc = "done" PROVE row'[d].status \in Terminal \/ Excused(d)'
  <2>1. Fail(s) \/ Record(s) \/ BeginFails(s)
    BY <1>1, <1>2, <1>7 DEF RunStep, Begin, Clone, Build, List, StopOld, RemoveOld,
         Create, Start, Publish, SetPc, FailsOn, Run, At
  <2>2. CASE Fail(s)
    BY <1>1, <1>3, <2>2 DEF Fail, Terminal, Row
  <2>3. CASE Record(s)
    BY <1>1, <1>3, <2>3 DEF Record, Terminal, Row
  <2>4. CASE BeginFails(s)
    <3>1. runs[d] = 1 => row[d].status = "queued"
      BY <1>3, <2>4 DEF BeginFails, At, IndInv, RunMatchesRow
    <3>2. "prepare" \in Faults /\ row'[d].status \in {row[d].status, "cloning"}
      BY <1>1, <1>3, <2>4 DEF BeginFails, SetStatus, Row
    <3> QED BY <1>3, <1>4, <3>1, <3>2 DEF Excused
  <2> QED BY <2>1, <2>2, <2>3, <2>4
<1> QED BY <1>3, <1>4, <1>5, <1>6, <1>7

(* A run leaves every other row and job alone.                             *)
LEMMA StrandRunStep ==
    ASSUME IndInv, StrandInv, NEW s \in Slot, RunStep(s)
    PROVE  StrandInv'
<1> DEFINE d == slot[s].dep
<1>1. CASE Complete(s)
  <2>1. /\ UNCHANGED <<row, runs, adding, stalled, wait>> /\ slot[s].pc = "done"
        /\ slot'[s].pc = "idle"
        /\ \A t \in Slot : t # s => slot'[t] = slot[t]
    BY <1>1 DEF Complete, At, Idle, apiVars, queueVars, IndInv, TypeOK
  <2>2. Held \subseteq Held' \cup {d}
    BY <2>1 DEF Held, Waiting, Members
  <2>3. row[d].status \in Terminal \/ Excused(d)
    BY <2>1 DEF StrandInv
  <2>4. \A e \in Dep : row[e].status \in Open /\ e \notin Held' => Excused(e)
    BY <2>2, <2>3 DEF StrandInv, Terminal, Open, InProgress
  <2> QED BY <2>1, <2>4 DEF StrandInv, Excused
<1>2. CASE ~Complete(s)
  <2>1. PICK e : e = d
    OBVIOUS
  <2>2. /\ UNCHANGED <<adding, stalled, wait, runs>>
        /\ e \in Dep /\ slot'[s].dep = e /\ slot[s].dep = e
        /\ \A t \in Slot : t # s => slot'[t] = slot[t]
        /\ \A f \in Dep : f # e => row'[f] = row[f]
        /\ slot'[s].pc = "done" => row'[e].status \in Terminal \/ Excused(e)'
    BY <1>2, <2>1, RunGoesOn
  <2> HIDE DEF d
  <2>3. Held' = Held /\ e \in Held
    BY <2>2 DEF Held, Waiting, Members
  <2>4. \A f \in Dep : row'[f].status \in Open /\ f \notin Held' => Excused(f)'
    BY <2>2, <2>3 DEF StrandInv, Excused
  <2>5. ASSUME NEW t \in Slot, t # s, slot'[t].pc = "done"
        PROVE  \E f \in Dep : f = slot'[t].dep /\ (row'[f].status \in Terminal \/ Excused(f)')
    <3>1. PICK f \in Dep : f = slot[t].dep /\ f # e /\ f # None
      BY <2>2, <2>5, BusySlot DEF IndInv, JobOnce, DepOf
    <3>2. row[f].status \in Terminal \/ Excused(f)
      BY <2>2, <2>5, <3>1 DEF StrandInv
    <3> QED BY <2>2, <2>5, <3>1, <3>2 DEF Excused
  <2> QED BY <2>2, <2>4, <2>5 DEF StrandInv, Excused
<1> QED BY <1>1, <1>2

(* A deployment that is queued or in progress is in the hands of a request *)
(* that will add its job, of the queue, of a run or of the stalled check;  *)
(* the jobs that get lost are those of a failed queue.add, of a run that   *)
(* failed before its try block, and of too many stalls                     *)
(* (domain/deployments.ts:28-40, worker/jobs/deploy.ts:27-34).             *)
THEOREM NoRowStranded == Spec => []NoStrandedRow
<1>1. Init => StrandInv
  BY DEF Init, StrandInv, NoRow, Idle, Open, InProgress
<1>2. IndInv /\ StrandInv /\ [Next]_vars => StrandInv'
  <2> SUFFICES ASSUME IndInv, StrandInv, [Next]_vars PROVE StrandInv'
    OBVIOUS
  <2>1. CASE Request
    BY <2>1, StrandRequest
  <2>2. ASSUME NEW d \in Dep, AddJob(d) \/ AddFails(d) \/ StalledCheck(d) PROVE StrandInv'
    BY <2>2, StrandQueue
  <2>3. ASSUME NEW s \in Slot, Claim(s) \/ RunStep(s) PROVE StrandInv'
    BY <2>3, StrandClaim, StrandRunStep
  <2>4. CASE Crash
    BY <2>4, StrandCrash
  <2>5. CASE UNCHANGED vars
    <3>1. UNCHANGED <<row, runs, adding, stalled, wait, slot>>
      BY <2>5 DEF vars, apiVars, queueVars
    <3>2. Held' = Held
      BY <3>1 DEF Held, Waiting, Members
    <3> QED BY <3>1, <3>2, StrandKept
  <2> QED BY <2>1, <2>2, <2>3, <2>4, <2>5 DEF Next
<1>3. StrandInv => NoStrandedRow
  BY DEF StrandInv, NoStrandedRow, HasJob, Held, Waiting, Members, Open, Excused, DepOf
<1> QED BY <1>1, <1>2, <1>3, InductiveInvariant, PTL DEF Spec

-----------------------------------------------------------------------------
(* What is repeated has been served *)

(* The final update writes the outcome and the container in one statement. *)
ServedInv ==
    /\ \A d \in Dep : row[d].status = "succeeded" => row[d].container # None
    /\ OnlyServedIsRepeated

SameDeploy(d) ==
    /\ row'[d].app = row[d].app /\ row'[d].sha = row[d].sha
    /\ row'[d].trigger = row[d].trigger

(* A row that is there keeps what it deploys, and a container it has named. *)
LEMMA RowKept ==
    ASSUME IndInv, [Next]_vars, NEW d \in Dep, row[d] # NoRow
    PROVE  SameDeploy(d) /\ (row[d].container # None => row'[d].container # None)
<1>1. row \in [Dep -> Row]
  BY DEF IndInv, TypeOK
<1>2. CASE UNCHANGED row
  BY <1>2 DEF SameDeploy
<1>3. CASE Request
  <2>1. UNCHANGED row \/ \E e \in Dep : \E q : row[e] = NoRow /\ row' = [row EXCEPT ![e] = q]
    BY <1>3, RequestCases DEF ReadApp, ResolveFails, SoftDelete, Enqueue
  <2>2. row'[d] = row[d]
    BY <1>1, <2>1
  <2> QED BY <2>2 DEF SameDeploy
<1>4. ASSUME NEW s \in Slot, RunStep(s)
      PROVE  SameDeploy(d) /\ (row[d].container # None => row'[d].container # None)
  <2>1. CASE Record(s)
    <3>1. DepOf(s) \in Dep /\ Mine(s) # None
      BY <2>1, BusySlot, NoneAssumption DEF Record, At, Container
    <3> QED BY <1>1, <2>1, <3>1 DEF Record, SameDeploy, Row
  <2>2. CASE Fail(s) \/ \E st \in Status : SetStatus(s, st)
    BY <1>1, <2>2 DEF Fail, SetStatus, SameDeploy, Row
  <2> QED BY <1>2, <1>4, <2>1, <2>2
          DEF RunStep, Begin, BeginFails, Clone, Build, List, StopOld, RemoveOld, Create,
              Start, Publish, Complete, FailsOn, Status, InProgress
<1> QED BY <1>2, <1>3, <1>4
        DEF Next, AddJob, AddFails, StalledCheck, Claim, Crash, vars

(* A row inserted for a redeploy or a rollback copies a succeeded one.     *)
LEMMA InsertedRow ==
    ASSUME IndInv, [Next]_vars, NEW d \in Dep, row[d] = NoRow,
           row'[d].trigger \in {"redeploy", "rollback"}
    PROVE  \E t \in Dep \ {d} : /\ row[t].status = "succeeded"
                                 /\ row[t].app = row'[d].app /\ row[t].sha = row'[d].sha
<1>1. row \in [Dep -> Row] /\ row[d].status = "none" /\ row[d].trigger = "none"
  BY DEF IndInv, TypeOK, NoRow
<1>2. row'[d] # row[d]
  BY <1>1
<1>3. ASSUME NEW e \in Dep, NEW a, NEW c, NEW t, NEW img, Enqueue(e, a, c, t, img)
      PROVE  row'[d].app = a /\ row'[d].sha = c /\ row'[d].trigger = t
  <2>1. e = d
    BY <1>1, <1>2, <1>3 DEF Enqueue
  <2> QED BY <1>1, <1>3, <2>1 DEF Enqueue, QueuedRow, NoRow
<1>4. ASSUME NEW e \in Dep, NEW a \in App, Redeploy(e, a)
      PROVE  \E t \in Dep \ {d} : /\ row[t].status = "succeeded"
                                   /\ row[t].app = row'[d].app /\ row[t].sha = row'[d].sha
  <2>1. PICK t \in SucceededRows(a) : Enqueue(e, a, row[t].sha, "redeploy", row[t].image)
    BY <1>4 DEF Redeploy
  <2>2. t \in Dep \ {d} /\ row[t].status = "succeeded" /\ row[t].app = a
    BY <1>1 DEF SucceededRows
  <2> QED BY <1>3, <2>1, <2>2
<1>5. ASSUME NEW e \in Dep, NEW t \in Dep, Rollback(e, t)
      PROVE  \E u \in Dep \ {d} : /\ row[u].status = "succeeded"
                                   /\ row[u].app = row'[d].app /\ row[u].sha = row'[d].sha
  BY <1>1, <1>3, <1>5 DEF Rollback
<1>6. ASSUME NEW e \in Dep, NEW a \in App, NEW c \in Sha, Deploy(e, a, c) PROVE FALSE
  <2>1. Enqueue(e, a, c, "fresh", FALSE)
    BY <1>6 DEF Deploy
  <2>2. row'[d].trigger = "fresh"
    BY <1>3, <2>1
  <2> QED BY <2>2
<1>7. ASSUME NEW s \in Slot, RunStep(s) PROVE FALSE
  <2>1. slot[s].pc # "idle"
    BY <1>7 DEF RunStep, Begin, BeginFails, Clone, Build, List, StopOld, RemoveOld,
                Create, Start, Publish, Record, Complete, At
  <2>2. DepOf(s) # d
    BY <1>1, <2>1, BusySlot
  <2>3. CASE Complete(s)
    BY <1>2, <2>3 DEF Complete
  <2>4. CASE ~Complete(s)
    BY <1>2, <1>7, <2>2, <2>4, RunGoesOn DEF DepOf
  <2> QED BY <2>3, <2>4
<1> QED BY <1>2, <1>4, <1>5, <1>6, <1>7
        DEF Next, Request, ReadApp, ResolveFails, SoftDelete, AddJob, AddFails,
            StalledCheck, Claim, Crash, vars

(* What a redeploy or a rollback deploys again is a commit that a          *)
(* deployment of the same application has named its container for, also    *)
(* when a later run of that row has failed or was lost.                    *)
THEOREM RepeatsWereServed == Spec => []OnlyServedIsRepeated
<1>1. Init => ServedInv
  BY DEF Init, ServedInv, OnlyServedIsRepeated, NoRow
<1>2. IndInv /\ ServedInv /\ [Next]_vars => ServedInv'
  <2> SUFFICES ASSUME IndInv, ServedInv, [Next]_vars PROVE ServedInv'
    OBVIOUS
  <2>1. ASSUME NEW d \in Dep, row'[d].status = "succeeded" PROVE row'[d].container # None
    <3>1. CASE row'[d] = row[d]
      BY <2>1, <3>1 DEF ServedInv
    <3>2. CASE RowEdge(d)
      BY <2>1, <3>2 DEF RowEdge
    <3> QED BY <3>1, <3>2, NextEdge DEF OneRow
  <2>2. ASSUME NEW d \in Dep, row'[d].trigger \in {"redeploy", "rollback"}
        PROVE  \E t \in Dep \ {d} : /\ row'[t].app = row'[d].app
                                    /\ row'[t].sha = row'[d].sha
                                    /\ row'[t].container # None
    <3>1. PICK t \in Dep \ {d} : /\ row[t].app = row'[d].app /\ row[t].sha = row'[d].sha
                                 /\ row[t].container # None
      <4>1. CASE row[d] = NoRow
        BY <2>2, <4>1, InsertedRow DEF ServedInv
      <4>2. CASE row[d] # NoRow
        BY <2>2, <4>2, RowKept DEF SameDeploy, ServedInv, OnlyServedIsRepeated
      <4> QED BY <4>1, <4>2
    <3>2. row[t] # NoRow
      BY <3>1 DEF NoRow
    <3>3. SameDeploy(t) /\ row'[t].container # None
      BY <3>1, <3>2, RowKept
    <3> QED BY <3>1, <3>3 DEF SameDeploy
  <2> QED BY <2>1, <2>2 DEF ServedInv, OnlyServedIsRepeated
<1>3. ServedInv => OnlyServedIsRepeated
  BY DEF ServedInv
<1> QED BY <1>1, <1>2, <1>3, InductiveInvariant, PTL DEF Spec

-----------------------------------------------------------------------------
(* Containers left behind *)

(* Containers can be shared out among the slots so that no slot gets two   *)
(* of one application, and a slot that is removing still has its own in    *)
(* its list.  (Whoever creates a container takes it; it had none left.)    *)
Shares(own) ==
    /\ own \in [containers -> Slot]
    /\ \A b, c \in containers : AppOf(b) = AppOf(c) /\ own[b] = own[c] => b = c
    /\ \A c \in containers : slot[own[c]].pc = "remove" /\ AppOfSlot(own[c]) = AppOf(c)
                                 => c \in slot[own[c]].todo

ResidueInv == "remove" \notin Faults => \E own : Shares(own)

(* The application of a container, and of a run, does not change.          *)
LEMMA AppsKept ==
    ASSUME IndInv, [Next]_vars
    PROVE  /\ \A c \in containers : row'[c[1]].app = row[c[1]].app
           /\ \A s \in Slot : slot[s].pc # "idle" => row'[slot[s].dep].app = row[slot[s].dep].app
<1>1. ASSUME NEW d \in Dep, row[d].status # "none" PROVE row'[d].app = row[d].app
  BY <1>1, RowKept DEF SameDeploy, NoRow
<1>2. ASSUME NEW c \in containers PROVE row'[c[1]].app = row[c[1]].app
  <2>1. c[1] \in Dep /\ row[c[1]].status # "none"
    BY DEF IndInv, TypeOK, Container, ContainersAreOld
  <2> QED BY <1>1, <2>1
<1>3. ASSUME NEW s \in Slot, slot[s].pc # "idle"
      PROVE  row'[slot[s].dep].app = row[slot[s].dep].app
  BY <1>1, <1>3, BusySlot DEF DepOf
<1> QED BY <1>2, <1>3

(* A step that creates and removes nothing, and starts no removal.         *)
LEMMA SharesKept ==
    ASSUME IndInv, [Next]_vars, NEW own, Shares(own), containers' = containers,
           \A s \in Slot : slot'[s] = slot[s] \/ slot'[s].pc # "remove"
    PROVE  Shares(own)'
<1>1. \A c \in containers : own[c] \in Slot
  BY DEF Shares
<1>2. own \in [containers' -> Slot]
  BY DEF Shares
<1>3. ASSUME NEW b \in containers, NEW c \in containers,
             row'[b[1]].app = row'[c[1]].app, own[b] = own[c]
      PROVE  b = c
  BY <1>3, AppsKept DEF Shares, AppOf
<1>4. ASSUME NEW c \in containers, slot'[own[c]].pc = "remove",
             row'[slot'[own[c]].dep].app = row'[c[1]].app
      PROVE  c \in slot'[own[c]].todo
  <2>1. slot'[own[c]] = slot[own[c]]
    BY <1>1, <1>4
  <2>2. row[slot[own[c]].dep].app = row[c[1]].app
    BY <1>1, <1>4, <2>1, AppsKept
  <2> QED BY <1>4, <2>1, <2>2 DEF Shares, AppOf, AppOfSlot, DepOf
<1> QED BY <1>2, <1>3, <1>4 DEF Shares, AppOf, AppOfSlot, DepOf

(* Who lists the containers of its application has its own on the list.    *)
LEMMA SharesList ==
    ASSUME IndInv, NEW own, Shares(own), NEW s \in Slot, List(s), ~Fail(s)
    PROVE  Shares(own)'
<1>1. /\ slot' = [slot EXCEPT ![s].pc = "remove",
                              ![s].todo = ContainersOf(AppOfSlot(s))]
      /\ UNCHANGED <<row, containers>>
  BY DEF List, FailsOn
<1>2. slot \in [Slot -> Run]
  BY DEF IndInv, TypeOK
<1>3. /\ slot'[s].dep = slot[s].dep /\ slot'[s].todo = ContainersOf(AppOfSlot(s))
      /\ \A t \in Slot : t # s => slot'[t] = slot[t]
  BY <1>1, <1>2 DEF Run
<1>4. ASSUME NEW c \in containers, slot'[own[c]].pc = "remove",
             row[slot'[own[c]].dep].app = row[c[1]].app
      PROVE  c \in slot'[own[c]].todo
  <2>1. CASE own[c] = s
    BY <1>3, <1>4, <2>1 DEF ContainersOf, AppOf, AppOfSlot, DepOf
  <2>2. CASE own[c] # s
    <3>1. slot'[own[c]] = slot[own[c]]
      BY <1>3, <2>2 DEF Shares
    <3> QED BY <1>4, <3>1 DEF Shares, AppOf, AppOfSlot, DepOf
  <2> QED BY <2>1, <2>2
<1> QED BY <1>1, <1>4 DEF Shares, AppOf, AppOfSlot, DepOf

(* A container goes from the list when it is gone.                         *)
LEMMA SharesRemoveOld ==
    ASSUME IndInv, NEW own, Shares(own), NEW s \in Slot, RemoveOld(s), "remove" \notin Faults
    PROVE  \E new : Shares(new)'
<1>1. PICK c \in slot[s].todo : /\ slot' = [slot EXCEPT ![s].todo = @ \ {c}]
                                /\ containers' = containers \ {c} /\ row' = row
  BY DEF RemoveOld
<1>2. slot \in [Slot -> Run]
  BY DEF IndInv, TypeOK
<1>3. /\ \A t \in Slot : /\ slot'[t].pc = slot[t].pc /\ slot'[t].dep = slot[t].dep
                         /\ slot[t].todo \ {c} \subseteq slot'[t].todo
  BY <1>1, <1>2 DEF Run
<1>4. PICK new : new = [b \in containers \ {c} |-> own[b]]
  OBVIOUS
<1>5. /\ new \in [containers' -> Slot]
      /\ \A b \in containers' : new[b] = own[b] /\ own[b] \in Slot /\ b \in containers /\ b # c
  BY <1>1, <1>4 DEF Shares
<1>6. \A a, b \in containers' : row'[a[1]].app = row'[b[1]].app /\ new[a] = new[b] => a = b
  BY <1>1, <1>5 DEF Shares, AppOf
<1>7. ASSUME NEW b \in containers', slot'[new[b]].pc = "remove",
             row'[slot'[new[b]].dep].app = row'[b[1]].app
      PROVE  b \in slot'[new[b]].todo
  <2>1. b \in slot[own[b]].todo
    BY <1>1, <1>3, <1>5, <1>7 DEF Shares, AppOf, AppOfSlot, DepOf
  <2> QED BY <1>3, <1>5, <2>1
<1>8. Shares(new)'
  BY <1>5, <1>6, <1>7 DEF Shares, AppOf, AppOfSlot, DepOf
<1> QED BY <1>8

(* Who creates a container has removed all of the application it has had.  *)
LEMMA SharesCreate ==
    ASSUME IndInv, NEW own, Shares(own), NEW s \in Slot, Create(s), ~Fail(s)
    PROVE  \E new : Shares(new)'
<1> DEFINE mine == Mine(s)
<1>1. /\ slot[s].pc = "remove" /\ slot[s].todo = {}
      /\ containers' = containers \cup {mine} /\ SetPc(s, "start") /\ row' = row
  BY DEF Create, At
<1>2. PICK k : k = mine
  OBVIOUS
<1>3. /\ k \notin containers /\ row[k[1]].app = row[slot[s].dep].app
  BY <1>1, <1>2 DEF IndInv, ContainersAreOld, BeforeCreate, Mine, DepOf
<1>4. /\ slot'[s].pc = "start" /\ \A t \in Slot : t # s => slot'[t] = slot[t]
  BY <1>1, SetPcSlot DEF IndInv, TypeOK, Pc
<1>5. PICK new : new = [c \in containers \cup {k} |-> IF c = k THEN s ELSE own[c]]
  OBVIOUS
<1>6. containers' = containers \cup {k}
  BY <1>1, <1>2
<1>7. /\ new \in [containers' -> Slot] /\ new[k] = s
      /\ \A c \in containers : new[c] = own[c] /\ own[c] \in Slot
  BY <1>3, <1>5, <1>6 DEF Shares
<1> HIDE DEF mine
<1>8. ASSUME NEW c \in containers, own[c] = s PROVE row[c[1]].app # row[slot[s].dep].app
  BY <1>1, <1>8 DEF Shares, AppOf, AppOfSlot, DepOf
<1>9. ASSUME NEW b \in containers', NEW c \in containers',
             row[b[1]].app = row[c[1]].app, new[b] = new[c]
      PROVE  b = c
  <2>1. CASE b = k \/ c = k
    BY <1>3, <1>6, <1>7, <1>8, <1>9, <2>1
  <2>2. CASE b # k /\ c # k
    BY <1>6, <1>7, <1>9, <2>2 DEF Shares, AppOf
  <2> QED BY <2>1, <2>2
<1>10. ASSUME NEW c \in containers', slot'[new[c]].pc = "remove",
              row[slot'[new[c]].dep].app = row[c[1]].app
       PROVE  c \in slot'[new[c]].todo
  <2>1. c # k /\ c \in containers /\ new[c] = own[c] /\ own[c] \in Slot
    BY <1>4, <1>6, <1>7, <1>10
  <2>2. own[c] # s /\ slot'[own[c]] = slot[own[c]]
    BY <1>4, <1>10, <2>1
  <2> QED BY <1>10, <2>1, <2>2 DEF Shares, AppOf, AppOfSlot, DepOf
<1>11. Shares(new)'
  BY <1>1, <1>7, <1>9, <1>10 DEF Shares, AppOf, AppOfSlot, DepOf
<1> QED BY <1>11

(* However runs overlap, fail and crash, an application is left with no    *)
(* more containers than the worker has slots, as long as Docker removes    *)
(* what it is told to remove (deploy.ts, the swap).                        *)
THEOREM ResidueStaysBounded == Spec => []ResidueBounded
<1>1. Init => ResidueInv
  <2> SUFFICES ASSUME Init PROVE \E own : Shares(own)
    BY DEF ResidueInv
  <2>1. [c \in {} |-> CHOOSE s \in Slot : TRUE] \in [{} -> Slot]
    OBVIOUS
  <2> QED BY <2>1 DEF Init, Shares
<1>2. IndInv /\ ResidueInv /\ [Next]_vars => ResidueInv'
  <2> SUFFICES ASSUME IndInv, [Next]_vars, "remove" \notin Faults,
                      NEW own, Shares(own)
               PROVE  \E new : Shares(new)'
    BY DEF ResidueInv
  <2>1. CASE /\ containers' = containers
             /\ \A s \in Slot : slot'[s] = slot[s] \/ slot'[s].pc # "remove"
    BY <2>1, SharesKept
  <2>2. ASSUME NEW s \in Slot, RunStep(s)
        PROVE  \E new : Shares(new)'
    <3> DEFINE Quiet == /\ containers' = containers
                        /\ \A t \in Slot : slot'[t] = slot[t] \/ slot'[t].pc # "remove"
    <3>1. CASE Fail(s) /\ containers' = containers
      <4>1. Quiet
        BY <3>1 DEF Fail, IndInv, TypeOK, Run
      <4> QED BY <2>1, <4>1
    <3>2. CASE List(s) /\ ~Fail(s)
      BY <3>2, SharesList
    <3>3. CASE RemoveOld(s)
      BY <3>3, SharesRemoveOld
    <3>4. CASE Create(s) /\ ~Fail(s)
      BY <3>4, SharesCreate
    <3>5. CASE containers' = containers /\ (\E p \in Pc \ {"remove"} : SetPc(s, p))
      <4>1. Quiet
        BY <3>5 DEF SetPc, IndInv, TypeOK, Run
      <4> QED BY <2>1, <4>1
    <3>6. CASE StopOld(s) \/ Complete(s)
      <4>1. Quiet
        BY <3>6 DEF StopOld, Complete, dockerVars, Idle, IndInv, TypeOK
      <4> QED BY <2>1, <4>1
    <3> HIDE DEF Quiet
    <3>7. Create(s) /\ Fail(s) => containers' = containers
      BY DEF Create, Fail, SetPc, IndInv, TypeOK, Run, At
    <3> QED BY <2>2, <3>1, <3>2, <3>3, <3>4, <3>5, <3>6, <3>7
            DEF RunStep, Begin, BeginFails, Clone, Build, List, Start, Publish, Record,
                FailsOn, dockerVars, Pc
  <2>3. ASSUME NEW s \in Slot, Claim(s) PROVE \E new : Shares(new)'
    <3>1. containers' = containers
          /\ \A t \in Slot : slot'[t] = slot[t] \/ slot'[t].pc # "remove"
      BY <2>3 DEF Claim, dockerVars, Idle, IndInv, TypeOK
    <3> QED BY <2>1, <3>1
  <2>4. CASE Crash
    <3>1. containers' = containers /\ \A t \in Slot : slot'[t].pc # "remove"
      BY <2>4 DEF Crash, dockerVars, Idle
    <3> QED BY <2>1, <3>1
  <2>5. CASE Request
    <3>1. UNCHANGED <<containers, slot>>
      BY <2>5, RequestCases DEF ReadApp, ResolveFails, SoftDelete, Enqueue, dockerVars
    <3> QED BY <2>1, <3>1
  <2>6. ASSUME NEW d \in Dep, AddJob(d) \/ AddFails(d) \/ StalledCheck(d)
        PROVE  \E new : Shares(new)'
    <3>1. UNCHANGED <<containers, slot>>
      BY <2>6 DEF AddJob, AddFails, StalledCheck, dockerVars
    <3> QED BY <2>1, <3>1
  <2>7. CASE UNCHANGED vars
    BY <2>1, <2>7 DEF vars, dockerVars
  <2> QED BY <2>2, <2>3, <2>4, <2>5, <2>6, <2>7 DEF Next
<1>3. ResidueInv => ResidueBounded
  <2> SUFFICES ASSUME NEW own, Shares(own), NEW a \in App
               PROVE  Cardinality(ContainersOf(a)) <= Cardinality(Slot)
    BY DEF ResidueInv, ResidueBounded
  <2> DEFINE f == [c \in ContainersOf(a) |-> own[c]]
  <2>1. f \in Injection(ContainersOf(a), Slot)
    BY DEF Shares, ContainersOf, Injection, IsInjective
  <2> HIDE DEF f
  <2> QED BY <2>1, SlotAssumption, FS_Injection
<1> QED BY <1>1, <1>2, <1>3, InductiveInvariant, PTL DEF Spec
=============================================================================
