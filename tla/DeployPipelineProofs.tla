------------------------ MODULE DeployPipelineProofs ------------------------
(***************************************************************************)
(* The proof that IndInv is an invariant of the pipeline, and with it the  *)
(* types and LastSwapServes.  One lemma per action; the actions that leave *)
(* Docker alone share FailStep, StatusStep and SameRowStep, the two that   *)
(* take containers away share RemovalStep.                                 *)
(***************************************************************************)
EXTENDS DeployInvariant, TLAPS

(* The three ways the wait list changes keep it free of repetitions. *)
LEMMA TailMembers ==
    ASSUME NEW S, NEW w \in Seq(S), w # <<>>, Distinct(w)
    PROVE  /\ Head(w) \in S /\ Tail(w) \in Seq(S)
           /\ Members(Tail(w)) = Members(w) \ {Head(w)}
           /\ Head(w) \in Members(w)
           /\ Distinct(Tail(w))
<1>1. Len(w) \in Nat /\ Len(w) >= 1 /\ Head(w) = w[1] /\ Tail(w) \in Seq(S)
  OBVIOUS
<1>2. Len(Tail(w)) = Len(w) - 1 /\ \A i \in 1..Len(Tail(w)) : Tail(w)[i] = w[i + 1]
  BY <1>1
<1>3. Members(Tail(w)) \subseteq Members(w) \ {Head(w)}
  BY <1>1, <1>2 DEF Members, Distinct
<1>4. ASSUME NEW x \in Members(w) \ {Head(w)} PROVE x \in Members(Tail(w))
  <2>1. PICK i \in 1..Len(w) : x = w[i] /\ i # 1
    BY <1>1 DEF Members
  <2>2. i - 1 \in 1..Len(Tail(w)) /\ Tail(w)[i - 1] = w[i]
    BY <2>1, <1>1, <1>2
  <2> QED BY <2>1, <2>2 DEF Members
<1>5. Distinct(Tail(w))
  BY <1>1, <1>2 DEF Distinct
<1>6. Head(w) \in S /\ Head(w) \in Members(w)
  BY <1>1 DEF Members
<1>7. Members(Tail(w)) = Members(w) \ {Head(w)}
  BY <1>3, <1>4
<1> QED BY <1>1, <1>5, <1>6, <1>7

(* Appending a job that is not in the list adds it to the members.         *)
LEMMA AppendMembers ==
    ASSUME NEW S, NEW w \in Seq(S), NEW x \in S
    PROVE  /\ Append(w, x) \in Seq(S)
           /\ Members(Append(w, x)) = Members(w) \cup {x}
           /\ Distinct(w) /\ x \notin Members(w) => Distinct(Append(w, x))
<1>1. Len(w) \in Nat /\ Append(w, x) \in Seq(S) /\ Len(Append(w, x)) = Len(w) + 1
  OBVIOUS
<1>2. /\ Append(w, x)[Len(w) + 1] = x
      /\ \A i \in 1..Len(w) : Append(w, x)[i] = w[i]
  BY <1>1
<1>3. Members(Append(w, x)) = Members(w) \cup {x}
  BY <1>1, <1>2 DEF Members
<1>4. Distinct(w) /\ x \notin Members(w) => Distinct(Append(w, x))
  BY <1>1, <1>2 DEF Members, Distinct
<1> QED BY <1>1, <1>3, <1>4

(* Putting a job back at the head adds it to the members.                  *)
LEMMA PrependMembers ==
    ASSUME NEW S, NEW w \in Seq(S), NEW x \in S
    PROVE  /\ <<x>> \o w \in Seq(S)
           /\ Members(<<x>> \o w) = Members(w) \cup {x}
           /\ Distinct(w) /\ x \notin Members(w) => Distinct(<<x>> \o w)
<1> DEFINE v == <<x>> \o w
<1>1. Len(w) \in Nat /\ v \in Seq(S) /\ Len(v) = Len(w) + 1
  OBVIOUS
<1>2. v[1] = x /\ \A i \in 1..Len(w) : v[i + 1] = w[i]
  BY <1>1
<1>3. \A i \in 2..Len(v) : i - 1 \in 1..Len(w) /\ v[i] = w[i - 1]
  BY <1>1, <1>2
<1>4. 1 \in 1..Len(v) /\ \A i \in 1..Len(w) : i + 1 \in 1..Len(v)
  BY <1>1
<1> HIDE DEF v
<1>5. Members(v) \subseteq Members(w) \cup {x}
  BY <1>1, <1>2, <1>3 DEF Members
<1>6. Members(w) \cup {x} \subseteq Members(v)
  BY <1>1, <1>2, <1>4 DEF Members
<1>7. ASSUME Distinct(w), x \notin Members(w),
             NEW i \in 1..Len(v), NEW j \in 1..Len(v), v[i] = v[j]
      PROVE  i = j
  <2>1. \A k \in 2..Len(v) : v[k] # x
    BY <1>1, <1>3, <1>7 DEF Members
  <2>2. CASE i = 1 \/ j = 1
    BY <2>1, <2>2, <1>1, <1>2, <1>7
  <2>3. CASE i # 1 /\ j # 1
    <3>1. i \in 2..Len(v) /\ j \in 2..Len(v)
      BY <2>3, <1>1
    <3>2. w[i - 1] = w[j - 1] /\ i - 1 \in 1..Len(w) /\ j - 1 \in 1..Len(w)
      BY <3>1, <1>3, <1>7
    <3> QED BY <3>1, <3>2, <1>1, <1>7 DEF Distinct
  <2> QED BY <2>2, <2>3
<1> QED BY <1>1, <1>5, <1>6, <1>7 DEF Distinct, v

-----------------------------------------------------------------------------
(* Type correctness *)

(* The empty tables, queues and slots have their types.                    *)
LEMMA TypeInit == Init => TypeOK
BY StallsAssumption DEF Init, TypeOK, Row, NoRow, Status, InProgress, Terminal,
   Run, Idle, Pc, Container

(* A busy slot works on a row of an application. *)
LEMMA BusySlot ==
    ASSUME IndInv, NEW s \in Slot, slot[s].pc # "idle"
    PROVE  /\ DepOf(s) \in Dep /\ DepOf(s) # None
           /\ row[DepOf(s)].status # "none" /\ AppOfSlot(s) \in App
           /\ runs[DepOf(s)] \in Nat /\ runs[DepOf(s)] >= 1
           /\ Mine(s) \in Container
BY DEF IndInv, TypeOK, RunMatchesRow, JobHasRow, At, DepOf, Run, AppOfSlot, Mine,
   Container

(* A run that changes its program counter and nothing else.                *)
LEMMA SetPcSlot ==
    ASSUME slot \in [Slot -> Run], NEW s \in Slot, NEW p \in Pc, SetPc(s, p)
    PROVE  /\ slot' \in [Slot -> Run]
           /\ slot'[s].pc = p /\ slot'[s].dep = slot[s].dep
           /\ slot'[s].todo = slot[s].todo
           /\ \A t \in Slot : t # s => slot'[t] = slot[t]
<1> DEFINE new == [slot[s] EXCEPT !.pc = p]
<1>1. new \in Run /\ new.pc = p /\ new.dep = slot[s].dep /\ new.todo = slot[s].todo
  BY DEF Run
<1>2. slot' = [slot EXCEPT ![s] = new]
  BY DEF SetPc
<1> HIDE DEF new
<1> QED BY <1>1, <1>2

(* A request reads or writes one of pm-api's sets, or inserts a row of an  *)
(* application.                                                            *)
LEMMA RequestCases ==
    ASSUME IndInv, Request
    PROVE  \/ \E a \in App : ReadApp(a) \/ ResolveFails(a) \/ SoftDelete(a)
           \/ \E d \in Dep, a \in App, c \in Sha \cup {None}, img \in BOOLEAN,
                 t \in {"fresh", "redeploy", "rollback"} :
                    Enqueue(d, a, c, t, img) /\ vetted' \subseteq vetted
<1> USE DEF IndInv, TypeOK, JobHasRow
<1>1. ASSUME NEW t \in Dep
      PROVE  row[t].sha \in Sha \cup {None} /\ row[t].image \in BOOLEAN
             /\ (row[t].status = "succeeded" => row[t].app \in App)
  BY DEF Row
<1>2. ASSUME NEW d \in Dep, NEW a \in App, Redeploy(d, a)
      PROVE  \E c \in Sha \cup {None}, img \in BOOLEAN :
                Enqueue(d, a, c, "redeploy", img) /\ vetted' \subseteq vetted
  BY <1>1, <1>2 DEF Redeploy, SucceededRows
<1>3. ASSUME NEW d \in Dep, NEW target \in Dep, Rollback(d, target)
      PROVE  \E a \in App, c \in Sha \cup {None} :
                Enqueue(d, a, c, "rollback", TRUE) /\ vetted' \subseteq vetted
  BY <1>1, <1>3 DEF Rollback
<1>4. ASSUME NEW d \in Dep, NEW a \in App, NEW c \in Sha, Deploy(d, a, c)
      PROVE  Enqueue(d, a, c, "fresh", FALSE) /\ vetted' \subseteq vetted
  BY <1>4 DEF Deploy
<1> DEFINE Inserts ==
        \E d \in Dep, a \in App, c \in Sha \cup {None}, img \in BOOLEAN,
           t \in {"fresh", "redeploy", "rollback"} :
              Enqueue(d, a, c, t, img) /\ vetted' \subseteq vetted
<1>5. CASE \E a \in App : ReadApp(a) \/ ResolveFails(a) \/ SoftDelete(a)
  BY <1>5
<1>6. ASSUME NEW d \in Dep, NEW a \in App, Redeploy(d, a) PROVE Inserts
  <2>1. PICK c \in Sha \cup {None}, img \in BOOLEAN :
            Enqueue(d, a, c, "redeploy", img) /\ vetted' \subseteq vetted
    BY <1>2, <1>6
  <2> QED BY <2>1
<1>7. ASSUME NEW d \in Dep, NEW a \in App, NEW c \in Sha, Deploy(d, a, c)
      PROVE  Inserts
  BY <1>4, <1>7
<1>8. ASSUME NEW d \in Dep, NEW target \in Dep, Rollback(d, target) PROVE Inserts
  <2>1. PICK a \in App, c \in Sha \cup {None} :
            Enqueue(d, a, c, "rollback", TRUE) /\ vetted' \subseteq vetted
    BY <1>3, <1>8
  <2> QED BY <2>1
<1> HIDE DEF Inserts
<1>9. (\E a \in App : ReadApp(a) \/ ResolveFails(a) \/ SoftDelete(a)) \/ Inserts
  BY <1>5, <1>6, <1>7, <1>8 DEF Request
<1> QED BY <1>9 DEF Inserts

(* Reading an application, failing to resolve its branch and deleting it   *)
(* change nothing the invariant speaks of but the sets of applications.    *)
LEMMA ApiStep ==
    ASSUME IndInv, NEW a \in App, ReadApp(a) \/ ResolveFails(a) \/ SoftDelete(a)
    PROVE  IndInv'
<1> USE DEF apiVars, queueVars, dockerVars, ReadApp, ResolveFails, SoftDelete
<1>1. TypeOK'
  BY DEF IndInv, TypeOK
<1>2. UNCHANGED <<row, clock, adding, queueVars, slot, dockerVars>>
  OBVIOUS
<1>3. JobOnce' /\ JobHasRow'
  BY <1>2 DEF IndInv, JobOnce, JobHasRow, Waiting, DepOf
<1>4. RunMatchesRow' /\ ContainersAreOld'
  BY <1>2 DEF IndInv, RunMatchesRow, ContainersAreOld, At, DepOf, Mine
<1>5. ListerIsSafe' /\ LastListerRuns' /\ LastSwapServes'
  BY <1>2 DEF IndInv, ListerIsSafe, LastListerRuns, LastSwapServes, DepOf, Mine,
     AppOfSlot
<1> QED BY <1>1, <1>3, <1>4, <1>5 DEF IndInv

(* enqueueDeploy's insert takes a free row and starts nothing.             *)
LEMMA EnqueueStep ==
    ASSUME IndInv, NEW d \in Dep, NEW a \in App, NEW c \in Sha \cup {None},
           NEW t \in {"fresh", "redeploy", "rollback"}, NEW img \in BOOLEAN,
           Enqueue(d, a, c, t, img), vetted' \subseteq vetted
    PROVE  IndInv'
<1> USE DEF queueVars, dockerVars
<1>1. QueuedRow(a, c, t, img) \in Row
  BY DEF QueuedRow, NoRow, Row, Status, InProgress, Terminal
<1>2. /\ row[d].status = "none" /\ row[d].app \notin App /\ QueuedRow(a, c, t, img).status = "queued"
      /\ QueuedRow(a, c, t, img).app = a
  BY NoneAssumption DEF Enqueue, NoRow, QueuedRow
<1>3. /\ row' = [row EXCEPT ![d] = QueuedRow(a, c, t, img)]
      /\ adding' = adding \cup {d}
      /\ UNCHANGED <<clock, deleted, queueVars, slot, dockerVars>>
  BY DEF Enqueue
<1>4. TypeOK'
  BY <1>1, <1>3 DEF IndInv, TypeOK
<1>5. /\ \A e \in Dep : e # d => row'[e] = row[e]
      /\ row'[d].status = "queued" /\ row'[d].app = a
  BY <1>2, <1>3 DEF IndInv, TypeOK
<1>6. /\ runs[d] = 0 /\ d \notin adding \cup Waiting \cup stalled
      /\ \A s \in Slot : DepOf(s) # d
  BY <1>2, NoneAssumption DEF IndInv, TypeOK, JobHasRow, RunMatchesRow, At, DepOf
<1>7. \A k \in containers : k[1] # d
  BY <1>2 DEF IndInv, ContainersAreOld
<1>8. \A b \in App : lister[b] # None => lister[b][1] # d
  BY <1>2 DEF IndInv, ListerIsSafe, TypeOK
<1>9. JobOnce'
  BY <1>3, <1>6 DEF IndInv, JobOnce, Waiting, DepOf
<1>10. JobHasRow'
  BY <1>3, <1>5, <1>6 DEF IndInv, JobHasRow, Waiting, TypeOK
<1>11. RunMatchesRow' /\ ContainersAreOld'
  BY <1>3, <1>5, <1>6, <1>7 DEF IndInv, RunMatchesRow, ContainersAreOld, At, DepOf,
     Mine, TypeOK, Run, Container
<1>12. ListerIsSafe' /\ LastSwapServes'
  BY <1>3, <1>5, <1>6, <1>8 DEF IndInv, ListerIsSafe, LastSwapServes, DepOf, Mine,
     TypeOK, Container
<1>13. LastListerRuns'
  <2>1. \A s \in Slot : slot'[s] = slot[s] /\ Mine(s)' = Mine(s)
    BY <1>3 DEF Mine, DepOf
  <2>2. \A s \in Slot : slot[s].pc # "idle" => AppOfSlot(s)' = AppOfSlot(s)
    BY <1>3, <1>5, <1>6, BusySlot DEF AppOfSlot, DepOf
  <2> QED BY <1>3, <2>1, <2>2 DEF IndInv, LastListerRuns
<1> QED BY <1>4, <1>9, <1>10, <1>11, <1>12, <1>13 DEF IndInv

-----------------------------------------------------------------------------
(* The queue *)

(* A failing queue.add forgets the job of its row.                         *)
LEMMA AddFailsStep == ASSUME IndInv, NEW d \in Dep, AddFails(d) PROVE IndInv'
<1> USE DEF queueVars, dockerVars
<1>1. /\ adding' \subseteq adding
      /\ UNCHANGED <<row, clock, deleted, vetted, queueVars, slot, dockerVars>>
  BY DEF AddFails
<1>2. TypeOK' /\ JobOnce' /\ JobHasRow'
  BY <1>1 DEF IndInv, TypeOK, JobOnce, JobHasRow, Waiting, DepOf
<1>3. RunMatchesRow' /\ ContainersAreOld'
  BY <1>1 DEF IndInv, RunMatchesRow, ContainersAreOld, At, DepOf, Mine
<1>4. ListerIsSafe' /\ LastListerRuns' /\ LastSwapServes'
  BY <1>1 DEF IndInv, ListerIsSafe, LastListerRuns, LastSwapServes, DepOf, Mine,
     AppOfSlot
<1> QED BY <1>2, <1>3, <1>4 DEF IndInv

(* queue.add moves the job of a row from the request to the wait list.     *)
LEMMA AddJobStep == ASSUME IndInv, NEW d \in Dep, AddJob(d) PROVE IndInv'
<1> USE DEF dockerVars
<1>1. /\ d \in adding /\ adding' = adding \ {d} /\ wait' = Append(wait, d)
      /\ UNCHANGED <<row, clock, deleted, vetted, stalled, runs, crashes, slot,
                     dockerVars>>
  BY DEF AddJob
<1>2. d \notin Waiting /\ wait \in Seq(Dep) /\ Distinct(wait)
  BY <1>1 DEF IndInv, TypeOK, JobOnce
<1>3. wait' \in Seq(Dep) /\ Waiting' = Waiting \cup {d} /\ Distinct(wait')
  BY <1>1, <1>2, AppendMembers DEF Waiting
<1>4. TypeOK'
  BY <1>1, <1>3 DEF IndInv, TypeOK
<1>5. JobOnce'
  BY <1>1, <1>3 DEF IndInv, JobOnce, DepOf
<1>6. JobHasRow'
  BY <1>1, <1>3 DEF IndInv, JobHasRow, TypeOK
<1>7. RunMatchesRow' /\ ContainersAreOld'
  BY <1>1 DEF IndInv, RunMatchesRow, ContainersAreOld, At, DepOf, Mine
<1>8. ListerIsSafe' /\ LastListerRuns' /\ LastSwapServes'
  BY <1>1 DEF IndInv, ListerIsSafe, LastListerRuns, LastSwapServes, DepOf, Mine,
     AppOfSlot
<1> QED BY <1>4, <1>5, <1>6, <1>7, <1>8 DEF IndInv

(* The stalled check moves a job back to the wait list or drops it.        *)
LEMMA StalledStep == ASSUME IndInv, NEW d \in Dep, StalledCheck(d) PROVE IndInv'
<1> USE DEF apiVars, dockerVars
<1>1. /\ d \in stalled /\ stalled' = stalled \ {d}
      /\ wait' = <<d>> \o wait \/ wait' = wait
      /\ UNCHANGED <<row, clock, apiVars, runs, crashes, slot, dockerVars>>
  BY DEF StalledCheck
<1>2. d \notin Waiting /\ wait \in Seq(Dep) /\ Distinct(wait)
  BY <1>1 DEF IndInv, TypeOK, JobOnce
<1>3. /\ wait' \in Seq(Dep) /\ Distinct(wait')
      /\ Waiting' = Waiting \cup {d} \/ Waiting' = Waiting
  <2>1. CASE wait' = <<d>> \o wait
    BY <2>1, <1>2, PrependMembers DEF Waiting
  <2>2. CASE wait' = wait
    BY <2>2, <1>2 DEF Waiting
  <2> QED BY <2>1, <2>2, <1>1
<1>4. TypeOK'
  BY <1>1, <1>3 DEF IndInv, TypeOK
<1>5. JobOnce'
  BY <1>1, <1>3 DEF IndInv, JobOnce, DepOf
<1>7. JobHasRow'
  BY <1>1, <1>3 DEF IndInv, JobHasRow, TypeOK
<1>8. RunMatchesRow' /\ ContainersAreOld'
  BY <1>1 DEF IndInv, RunMatchesRow, ContainersAreOld, At, DepOf, Mine
<1>9. ListerIsSafe' /\ LastListerRuns' /\ LastSwapServes'
  BY <1>1 DEF IndInv, ListerIsSafe, LastListerRuns, LastSwapServes, DepOf, Mine,
     AppOfSlot
<1> QED BY <1>4, <1>5, <1>7, <1>8, <1>9 DEF IndInv

(* A crash moves the jobs of all runs to the stalled ones; the containers  *)
(* stay, and with them what Docker runs.                                   *)
LEMMA CrashStep == ASSUME IndInv, Crash PROVE IndInv'
<1> USE DEF apiVars, dockerVars
<1>1. /\ crashes < MaxCrashes /\ crashes' = crashes + 1
      /\ stalled' = stalled \cup Active /\ slot' = [s \in Slot |-> Idle]
      /\ UNCHANGED <<row, clock, apiVars, wait, runs, dockerVars>>
  BY DEF Crash
<1>2. \A s \in Slot : slot'[s].pc = "idle" /\ slot'[s].dep = None /\ slot'[s].todo = {}
  BY <1>1 DEF Idle
<1>3. \A d \in Active : \E s \in Slot : slot[s].pc # "idle" /\ d = DepOf(s)
  BY DEF Active, At
<1>4. \A d \in Active : /\ d \in Dep /\ runs[d] >= 1 /\ row[d].status # "none"
                        /\ d \notin adding \cup Waiting
  BY <1>3, BusySlot DEF IndInv, JobOnce
<1>5. TypeOK'
  BY <1>1, <1>4 DEF IndInv, TypeOK, Run, Idle, Pc
<1>6. JobOnce'
  BY <1>1, <1>2, <1>4, NoneAssumption DEF IndInv, JobOnce, TypeOK, DepOf, Waiting, Members
<1>7. JobHasRow'
  BY <1>1, <1>4, StallsAssumption DEF IndInv, JobHasRow, TypeOK, Waiting
<1>8. RunMatchesRow' /\ ContainersAreOld'
  BY <1>1, <1>2 DEF IndInv, RunMatchesRow, ContainersAreOld, At, DepOf, Swapping,
     BeforeCreate
<1>9. ListerIsSafe' /\ LastListerRuns' /\ LastSwapServes'
  BY <1>1, <1>2 DEF IndInv, ListerIsSafe, LastListerRuns, LastSwapServes, AfterList
<1> QED BY <1>5, <1>6, <1>7, <1>8, <1>9 DEF IndInv

(* A slot takes the head of the wait list: the job's next run is new.      *)
LEMMA ClaimStep == ASSUME IndInv, NEW s \in Slot, Claim(s) PROVE IndInv'
<1> USE DEF apiVars, dockerVars
<1> DEFINE d == Head(wait)
<1>1. /\ slot[s].pc = "idle" /\ wait # <<>> /\ wait' = Tail(wait)
      /\ slot' = [slot EXCEPT ![s] = [Idle EXCEPT !.pc = "claimed", !.dep = d]]
      /\ runs' = [runs EXCEPT ![d] = @ + 1]
      /\ UNCHANGED <<row, clock, apiVars, stalled, crashes, dockerVars>>
  BY DEF Claim, At
<1>2. /\ d \in Dep /\ d \in Waiting /\ wait' \in Seq(Dep)
      /\ Waiting' = Waiting \ {d} /\ Distinct(wait')
  BY <1>1, TailMembers DEF IndInv, TypeOK, JobOnce, Waiting
<1> HIDE DEF d
<1>3. /\ slot'[s].pc = "claimed" /\ slot'[s].dep = d /\ slot'[s].todo = {}
      /\ \A t \in Slot : t # s => slot'[t] = slot[t]
      /\ slot' \in [Slot -> Run]
  BY <1>1, <1>2 DEF IndInv, TypeOK, Idle, Run, Pc
<1>4. /\ runs' \in [Dep -> Nat] /\ runs'[d] = runs[d] + 1 /\ runs[d] \in Nat
      /\ \A e \in Dep : e # d => runs'[e] = runs[e]
  BY <1>1, <1>2 DEF IndInv, TypeOK
<1>5. /\ d \notin adding \cup stalled /\ runs[d] <= crashes
      /\ row[d].status # "none" /\ (runs[d] = 0 => row[d].status = "queued")
      /\ \A t \in Slot : DepOf(t) # d
  BY <1>2 DEF IndInv, JobOnce, JobHasRow
<1>6. TypeOK'
  BY <1>1, <1>2, <1>3, <1>4 DEF IndInv, TypeOK
<1>7. JobOnce'
  BY <1>1, <1>2, <1>3, <1>5 DEF IndInv, JobOnce, DepOf
<1>8. JobHasRow'
  BY <1>1, <1>2, <1>4, <1>5 DEF IndInv, JobHasRow, TypeOK
<1>9. \A t \in Slot : t # s => /\ slot'[t] = slot[t] /\ Mine(t)' = Mine(t)
                               /\ AppOfSlot(t)' = AppOfSlot(t)
                               /\ slot[t].pc # "idle" => runs'[DepOf(t)] = runs[DepOf(t)]
  <2> SUFFICES ASSUME NEW t \in Slot, t # s
               PROVE  /\ slot'[t] = slot[t] /\ Mine(t)' = Mine(t)
                      /\ AppOfSlot(t)' = AppOfSlot(t)
                      /\ slot[t].pc # "idle" => runs'[DepOf(t)] = runs[DepOf(t)]
    OBVIOUS
  <2> QED BY <1>1, <1>3, <1>5 DEF Mine, AppOfSlot, DepOf, IndInv, TypeOK
<1>10. RunMatchesRow'
  BY <1>1, <1>2, <1>3, <1>4, <1>5, <1>9, NoneAssumption DEF IndInv, RunMatchesRow, At, DepOf,
     Swapping
<1>11. ContainersAreOld'
  BY <1>1, <1>2, <1>3, <1>4, <1>9, SMTT(30) DEF IndInv, ContainersAreOld, BeforeCreate,
     DepOf, Mine, TypeOK, Container, Run
<1>12. ListerIsSafe'
  BY <1>1, <1>2, <1>3, <1>4, <1>9 DEF IndInv, ListerIsSafe, AfterList, DepOf, TypeOK,
     Container
<1>13. LastListerRuns' /\ LastSwapServes'
  BY <1>1, <1>3, <1>9 DEF IndInv, LastListerRuns, LastSwapServes
<1> QED BY <1>6, <1>7, <1>8, <1>10, <1>11, <1>12, <1>13 DEF IndInv

-----------------------------------------------------------------------------
(* runDeploy: the steps that leave Docker alone *)

(* What these steps have in common: the run goes from one program counter  *)
(* to a later one and writes at most its own row.                          *)
OwnRowStep(s, p) ==
    /\ slot' = [slot EXCEPT ![s].pc = p, ![s].todo = {}]
    /\ row' \in [Dep -> Row]
    /\ \A e \in Dep : e # DepOf(s) => row'[e] = row[e]
    /\ row'[DepOf(s)].app = row[DepOf(s)].app
    /\ row'[DepOf(s)].status # "none"
    /\ clock' \in Nat
    /\ UNCHANGED <<apiVars, queueVars, dockerVars>>

(* The later program counters each is followed by. *)
Follows(p, q) ==
    /\ p # "idle" /\ q \in Pc \ {"idle", "claimed", "remove"}
    /\ q \in BeforeCreate => p \in BeforeCreate
    /\ q \in AfterList => p \in AfterList
    /\ q \in {"settle", "record"} => p \in {"settle", "record"}

(* A step of a run that writes its own row and no other, and goes on as the *)
(* row then says.                                                          *)
LEMMA OwnRow ==
    ASSUME IndInv, NEW s \in Slot, NEW p, Follows(slot[s].pc, p), OwnRowStep(s, p),
           p = "clone" => row'[DepOf(s)].status = "cloning",
           p = "build" => row'[DepOf(s)].status = "building",
           p \in Swapping => row'[DepOf(s)].status = "swapping",
           row'[DepOf(s)].status = "succeeded" 
               => slot[s].pc = "record" \/ row' = row
    PROVE  IndInv'
<1> USE DEF apiVars, queueVars, dockerVars
<1> DEFINE d == DepOf(s)
<1>1. /\ d \in Dep /\ d # None /\ row[d].status # "none" /\ AppOfSlot(s) \in App
      /\ runs[d] \in Nat /\ runs[d] >= 1
  BY BusySlot DEF Follows
<1>2. /\ slot'[s].pc = p /\ DepOf(s)' = d /\ slot'[s].todo = {}
      /\ \A t \in Slot : t # s => slot'[t] = slot[t] /\ DepOf(t) # d
      /\ \A t \in Slot : DepOf(t)' = DepOf(t) /\ slot'[t].todo \subseteq slot[t].todo
      /\ slot' \in [Slot -> Run]
  <2>1. slot \in [Slot -> Run] /\ slot' = [slot EXCEPT ![s].pc = p, ![s].todo = {}]
    BY DEF OwnRowStep, IndInv, TypeOK
  <2>2. slot' \in [Slot -> Run]
    BY <2>1 DEF Follows, Run
  <2>3. slot'[s].pc = p /\ slot'[s].dep = slot[s].dep /\ slot'[s].todo = {}
    BY <2>1 DEF Run
  <2>4. \A t \in Slot : t # s => slot'[t] = slot[t] /\ DepOf(t) # d
    BY <2>1, <1>1 DEF IndInv, JobOnce
  <2> QED BY <2>2, <2>3, <2>4 DEF DepOf
<1>3. /\ row' \in [Dep -> Row] /\ row'[d].app = row[d].app
      /\ row'[d].status # "none" /\ \A e \in Dep : e # d => row'[e] = row[e]
      /\ \A e \in Dep : row'[e].app = row[e].app
      /\ UNCHANGED <<apiVars, queueVars, dockerVars>> /\ clock' \in Nat
  BY <1>1 DEF OwnRowStep
<1>4. d \notin adding \cup stalled \cup Waiting
  BY DEF IndInv, JobOnce
<1> HIDE DEF d
<1>5. TypeOK'
  BY <1>2, <1>3 DEF IndInv, TypeOK
<1>6. JobOnce'
  BY <1>2, <1>3 DEF IndInv, JobOnce, Waiting
<1>7. JobHasRow'
  BY <1>1, <1>3, <1>4 DEF IndInv, JobHasRow, Waiting
<1>8. \A t \in Slot : Mine(t)' = Mine(t)
  BY <1>2, <1>3 DEF Mine
<1>9. \A t \in Slot : t # s /\ slot[t].pc # "idle" =>
          DepOf(t) \in Dep /\ row'[DepOf(t)] = row[DepOf(t)]
  BY <1>2, <1>3, BusySlot
<1>10. RunMatchesRow'
  BY <1>1, <1>2, <1>3, <1>9, NoneAssumption DEF IndInv, RunMatchesRow, At, Follows, Swapping, d
<1>11. ContainersAreOld'
  <2>1. \A c \in containers : c[1] \in Dep /\ c[2] <= runs[c[1]] /\ row[c[1]].status # "none"
    BY DEF IndInv, ContainersAreOld, TypeOK, Container
  <2>2. \A c \in containers' : c[2] <= runs'[c[1]] /\ row'[c[1]].status # "none"
    BY <2>1, <1>3
  <2>3. \A t \in Slot : \A c \in slot'[t].todo : c[2] <= runs'[c[1]]
    BY <1>2, <1>3 DEF IndInv, ContainersAreOld
  <2>4. \A t \in Slot : slot'[t].pc \in BeforeCreate => slot[t].pc \in BeforeCreate
    BY <1>2 DEF Follows
  <2>5. \A t \in Slot : slot'[t].pc \in BeforeCreate =>
            /\ Mine(t)' \notin containers'
            /\ \A u \in Slot : Mine(t)' \notin slot'[u].todo
    BY <1>2, <1>3, <1>8, <2>4 DEF IndInv, ContainersAreOld
  <2> QED BY <2>2, <2>3, <2>5 DEF ContainersAreOld
<1>12. ListerIsSafe'
  <2> SUFFICES ASSUME NEW a \in App, lister[a] # None
               PROVE  /\ row'[lister[a][1]].app = a
                      /\ lister[a][2] <= runs[lister[a][1]]
                      /\ \A t \in Slot : lister[a] \notin slot'[t].todo
                      /\ \A t \in Slot : slot'[t].pc \in AfterList /\ DepOf(t)' = lister[a][1]
                             => lister[a] = Mine(t)'
    BY <1>3 DEF ListerIsSafe
  <2>1. lister[a] \in Container /\ row[lister[a][1]].app = a
        /\ lister[a][2] <= runs[lister[a][1]]
    BY DEF IndInv, TypeOK, ListerIsSafe
  <2>2. row'[lister[a][1]].app = a
    BY <2>1, <1>3 DEF Container
  <2>3. \A t \in Slot : lister[a] \notin slot'[t].todo
    BY <1>2 DEF IndInv, ListerIsSafe
  <2>4. \A t \in Slot : slot'[t].pc \in AfterList => slot[t].pc \in AfterList
    BY <1>2 DEF Follows
  <2> QED BY <2>1, <2>2, <2>3, <2>4, <1>2, <1>8 DEF IndInv, ListerIsSafe
<1>13. \A t \in Slot : slot[t].pc # "idle" => AppOfSlot(t)' = AppOfSlot(t)
  BY <1>2, <1>3, BusySlot DEF AppOfSlot
<1>14. LastListerRuns'
  BY <1>2, <1>3, <1>8, <1>13 DEF IndInv, LastListerRuns, Follows
<1>15. LastSwapServes'
  <2> SUFFICES ASSUME NEW a \in App, lister[a] # None, row'[lister[a][1]].status = "succeeded"
               PROVE  lister[a] \in running
    BY <1>3 DEF LastSwapServes
  <2>1. lister[a] \in Container /\ row[lister[a][1]].app = a
    BY DEF IndInv, TypeOK, ListerIsSafe
  <2>2. CASE lister[a][1] # d
    BY <2>1, <2>2, <1>3 DEF IndInv, LastSwapServes, Container
  <2>3. CASE row' = row
    BY <2>3 DEF IndInv, LastSwapServes
  <2>4. CASE lister[a][1] = d /\ row' # row
    <3>1. slot[s].pc = "record" /\ AppOfSlot(s) = a
      BY <2>1, <2>4 DEF d, AppOfSlot
    <3>2. lister[AppOfSlot(s)] = Mine(s)
      BY <3>1, <2>4 DEF IndInv, ListerIsSafe, AfterList, d
    <3> QED BY <3>1, <3>2 DEF IndInv, LastListerRuns
  <2> QED BY <2>2, <2>3, <2>4
<1> QED BY <1>5, <1>6, <1>7, <1>10, <1>11, <1>12, <1>14, <1>15 DEF IndInv

(* The two final updates of a row. *)
LEMMA FinishedRow ==
    ASSUME NEW q \in Row, NEW n \in Nat, NEW c \in Container
    PROVE  /\ [q EXCEPT !.status = "failed", !.finishedAt = n + 1] \in Row
           /\ [q EXCEPT !.status = "succeeded", !.finishedAt = n + 1,
                        !.image = TRUE, !.container = c] \in Row
<1>1. "failed" \in Status /\ "succeeded" \in Status /\ n + 1 \in Nat
  BY DEF Status, Terminal
<1> QED BY <1>1 DEF Row

(* The catch block, at any point of the try block.                         *)
LEMMA FailStep ==
    ASSUME IndInv, NEW s \in Slot, slot[s].pc \notin {"idle", "done"}, Fail(s),
           UNCHANGED <<apiVars, queueVars, dockerVars>>
    PROVE  IndInv'
<1>1. DepOf(s) \in Dep
  BY BusySlot
<1>2. /\ row' \in [Dep -> Row] /\ row'[DepOf(s)].status = "failed"
      /\ row'[DepOf(s)].app = row[DepOf(s)].app /\ clock' \in Nat
      /\ \A e \in Dep : e # DepOf(s) => row'[e] = row[e]
  <2> DEFINE r == [row[DepOf(s)] EXCEPT !.status = "failed", !.finishedAt = clock + 1]
  <2>1. row[DepOf(s)] \in Row /\ row \in [Dep -> Row] /\ clock' = clock + 1 /\ clock \in Nat
    BY <1>1 DEF Fail, IndInv, TypeOK
  <2>2. r \in Row /\ r.status = "failed" /\ r.app = row[DepOf(s)].app
    <3>1. r \in Row
      BY <2>1, <1>1, BusySlot, FinishedRow
    <3> QED BY <3>1, <2>1 DEF Row
  <2>3. row' = [row EXCEPT ![DepOf(s)] = r]
    BY <2>1, <1>1 DEF Fail
  <2> HIDE DEF r
  <2> QED BY <1>1, <2>1, <2>2, <2>3
<1>3. OwnRowStep(s, "done")
  BY <1>2 DEF OwnRowStep, Fail
<1>4. Follows(slot[s].pc, "done")
  BY DEF Follows, Pc, BeforeCreate, AfterList
<1> QED BY <1>2, <1>3, <1>4, OwnRow DEF Swapping

(* A run without a removal list goes to p and gives its row the status st. *)
LEMMA StatusStep ==
    ASSUME IndInv, NEW s \in Slot, slot[s].pc \notin {"idle", "remove"}, NEW p,
           SetPc(s, p), NEW st \in Status \ {"none", "succeeded"}, SetStatus(s, st),
           UNCHANGED <<clock, apiVars, queueVars, dockerVars>>
    PROVE  OwnRowStep(s, p) /\ row'[DepOf(s)].status = st
<1>1. DepOf(s) \in Dep /\ slot[s].todo = {}
  BY BusySlot DEF IndInv, RunMatchesRow, At
<1>2. slot' = [slot EXCEPT ![s].pc = p, ![s].todo = {}]
  BY <1>1 DEF SetPc, IndInv, TypeOK, Run
<1>3. /\ row' \in [Dep -> Row] /\ row'[DepOf(s)].status = st
      /\ row'[DepOf(s)].app = row[DepOf(s)].app /\ clock' \in Nat
      /\ \A e \in Dep : e # DepOf(s) => row'[e] = row[e]
  <2> DEFINE new == [row[DepOf(s)] EXCEPT !.status = st]
  <2>1. row \in [Dep -> Row] /\ row[DepOf(s)] \in Row /\ clock' \in Nat
    BY <1>1 DEF IndInv, TypeOK
  <2>2. new \in Row /\ new.status = st /\ new.app = row[DepOf(s)].app
    BY <2>1 DEF Row
  <2>3. row' = [row EXCEPT ![DepOf(s)] = new]
    BY DEF SetStatus
  <2> HIDE DEF new
  <2> QED BY <1>1, <2>1, <2>2, <2>3
<1> QED BY <1>2, <1>3 DEF OwnRowStep

(* A run that moves on without touching its row, Docker or a list.         *)
LEMMA SameRowStep ==
    ASSUME IndInv, NEW s \in Slot, slot[s].pc \notin {"idle", "remove"}, NEW p,
           SetPc(s, p), UNCHANGED <<row, clock, apiVars, queueVars, dockerVars>>
    PROVE  OwnRowStep(s, p)
<1>1. DepOf(s) \in Dep /\ slot[s].todo = {} /\ row[DepOf(s)].status # "none"
  BY BusySlot DEF IndInv, RunMatchesRow, At
<1>2. slot' = [slot EXCEPT ![s].pc = p, ![s].todo = {}]
  BY <1>1 DEF SetPc, IndInv, TypeOK, Run
<1> QED BY <1>1, <1>2 DEF OwnRowStep, IndInv, TypeOK

(* A run sets its row to cloning.                                          *)
LEMMA BeginStep == ASSUME IndInv, NEW s \in Slot, Begin(s) PROVE IndInv'
<1>1. OwnRowStep(s, "clone") /\ row'[DepOf(s)].status = "cloning"
  BY StatusStep DEF Begin, At, Status, InProgress
<1>2. Follows(slot[s].pc, "clone")
  BY DEF Follows, Begin, At, Pc, BeforeCreate, AfterList
<1> QED BY <1>1, <1>2, OwnRow DEF Swapping

(* A run that fails before its try block leaves its row without outcome.   *)
LEMMA BeginFailsStep == ASSUME IndInv, NEW s \in Slot, BeginFails(s) PROVE IndInv'
<1>1. Follows(slot[s].pc, "done")
  BY DEF Follows, BeginFails, At, Pc, BeforeCreate, AfterList
<1>2. CASE SetStatus(s, "cloning")
  <2>1. OwnRowStep(s, "done") /\ row'[DepOf(s)].status = "cloning"
    BY <1>2, StatusStep DEF BeginFails, At, Status, InProgress
  <2> QED BY <1>1, <2>1, OwnRow DEF Swapping
<1>3. CASE UNCHANGED row
  <2>1. OwnRowStep(s, "done")
    BY <1>3, SameRowStep DEF BeginFails, At
  <2> QED BY <1>1, <1>3, <2>1, OwnRow DEF Swapping
<1> QED BY <1>2, <1>3 DEF BeginFails

(* Cloning goes on to the build or fails.                                  *)
LEMMA CloneStep == ASSUME IndInv, NEW s \in Slot, Clone(s) PROVE IndInv'
<1>1. CASE SetStatus(s, "building") /\ SetPc(s, "build") /\ UNCHANGED clock
  <2>1. OwnRowStep(s, "build") /\ row'[DepOf(s)].status = "building"
    BY <1>1, StatusStep DEF Clone, At, Status, InProgress
  <2>2. Follows(slot[s].pc, "build")
    BY DEF Follows, Clone, At, Pc, BeforeCreate, AfterList
  <2> QED BY <2>1, <2>2, OwnRow DEF Swapping
<1>2. CASE FailsOn(s, "clone")
  BY <1>2, FailStep DEF FailsOn, Clone, At
<1> QED BY <1>1, <1>2 DEF Clone

(* Building goes on to the swap or fails.                                  *)
LEMMA BuildStep == ASSUME IndInv, NEW s \in Slot, Build(s) PROVE IndInv'
<1>1. CASE SetStatus(s, "swapping") /\ SetPc(s, "list") /\ UNCHANGED clock
  <2>1. OwnRowStep(s, "list") /\ row'[DepOf(s)].status = "swapping"
    BY <1>1, StatusStep DEF Build, At, Status, InProgress
  <2>2. Follows(slot[s].pc, "list")
    BY DEF Follows, Build, At, Pc, BeforeCreate, AfterList
  <2> QED BY <2>1, <2>2, OwnRow
<1>2. CASE FailsOn(s, "build")
  BY <1>2, FailStep DEF FailsOn, Build, At
<1> QED BY <1>1, <1>2 DEF Build

(* Writing the nginx sites goes on to the record or fails.                 *)
LEMMA PublishStep == ASSUME IndInv, NEW s \in Slot, Publish(s) PROVE IndInv'
<1>1. CASE SetPc(s, "record") /\ UNCHANGED <<row, clock>>
  <2>1. OwnRowStep(s, "record")
    BY <1>1, SameRowStep DEF Publish, At
  <2>2. Follows(slot[s].pc, "record") /\ row'[DepOf(s)].status = "swapping"
    BY <1>1 DEF Follows, Publish, At, Pc, BeforeCreate, AfterList, IndInv,
       RunMatchesRow, Swapping
  <2> QED BY <1>1, <2>1, <2>2, OwnRow
<1>2. CASE FailsOn(s, "publish")
  BY <1>2, FailStep DEF FailsOn, Publish, At
<1> QED BY <1>1, <1>2 DEF Publish

(* The final update: its run's container runs if no other run has listed   *)
(* since, which is what LastListerRuns is for.                             *)
LEMMA RecordStep == ASSUME IndInv, NEW s \in Slot, Record(s) PROVE IndInv'
<1>1. DepOf(s) \in Dep /\ Mine(s) \in Container /\ slot[s].todo = {}
  BY BusySlot DEF Record, At, IndInv, RunMatchesRow
<1>2. /\ row' \in [Dep -> Row] /\ row'[DepOf(s)].status = "succeeded"
      /\ row'[DepOf(s)].app = row[DepOf(s)].app /\ clock' \in Nat
      /\ \A e \in Dep : e # DepOf(s) => row'[e] = row[e]
  <2> DEFINE r == [row[DepOf(s)] EXCEPT !.status = "succeeded", !.image = TRUE,
                       !.finishedAt = clock + 1, !.container = Mine(s)]
  <2>1. row[DepOf(s)] \in Row /\ row \in [Dep -> Row] /\ clock' = clock + 1 /\ clock \in Nat
    BY <1>1 DEF Record, IndInv, TypeOK
  <2>2. r \in Row /\ r.status = "succeeded" /\ r.app = row[DepOf(s)].app
    <3>1. r \in Row
      BY <2>1, <1>1, FinishedRow
    <3> QED BY <3>1, <2>1 DEF Row
  <2>3. row' = [row EXCEPT ![DepOf(s)] = r]
    BY <2>1, <1>1 DEF Record
  <2> HIDE DEF r
  <2> QED BY <1>1, <2>1, <2>2, <2>3
<1>3. slot' = [slot EXCEPT ![s].pc = "done", ![s].todo = {}]
  BY <1>1 DEF Record, SetPc, IndInv, TypeOK, Run
<1>4. OwnRowStep(s, "done")
  BY <1>2, <1>3 DEF OwnRowStep, Record
<1>5. Follows(slot[s].pc, "done") /\ slot[s].pc = "record"
  BY DEF Follows, Record, At, Pc, BeforeCreate, AfterList
<1> QED BY <1>2, <1>4, <1>5, OwnRow DEF Swapping

(* A finished run frees its slot.                                          *)
LEMMA CompleteStep == ASSUME IndInv, NEW s \in Slot, Complete(s) PROVE IndInv'
<1> USE DEF apiVars, queueVars, dockerVars
<1>1. /\ slot' = [slot EXCEPT ![s] = Idle]
      /\ UNCHANGED <<row, clock, apiVars, queueVars, dockerVars>>
  BY DEF Complete
<1>2. /\ slot'[s].pc = "idle" /\ slot'[s].dep = None /\ slot'[s].todo = {}
      /\ \A t \in Slot : t # s => slot'[t] = slot[t]
      /\ slot' \in [Slot -> Run]
  BY <1>1 DEF IndInv, TypeOK, Idle, Run, Pc
<1>3. TypeOK'
  BY <1>1, <1>2 DEF IndInv, TypeOK
<1>4. JobOnce'
  BY <1>1, <1>2, NoneAssumption DEF IndInv, JobOnce, TypeOK, Waiting, Members, DepOf
<1>5. JobHasRow'
  BY <1>1 DEF IndInv, JobHasRow, Waiting
<1>6. RunMatchesRow' /\ ContainersAreOld'
  BY <1>1, <1>2 DEF IndInv, RunMatchesRow, ContainersAreOld, At, DepOf, Mine,
     Swapping, BeforeCreate
<1>7. ListerIsSafe' /\ LastListerRuns' /\ LastSwapServes'
  BY <1>1, <1>2 DEF IndInv, ListerIsSafe, LastListerRuns, LastSwapServes, AfterList,
     DepOf, Mine, AppOfSlot
<1> QED BY <1>3, <1>4, <1>5, <1>6, <1>7 DEF IndInv

-----------------------------------------------------------------------------
(* runDeploy: the swap *)

(* Listing reads the application's containers; the run's own one does not  *)
(* exist yet, so no list holds the container of the last lister.           *)
LEMMA ListStep == ASSUME IndInv, NEW s \in Slot, List(s) PROVE IndInv'
<1>1. CASE FailsOn(s, "env") /\ UNCHANGED lister
  BY <1>1, FailStep DEF FailsOn, List, At, dockerVars
<1>2. CASE /\ slot' = [slot EXCEPT ![s].pc = "remove",
                                  ![s].todo = ContainersOf(AppOfSlot(s))]
           /\ lister' = [lister EXCEPT ![AppOfSlot(s)] = Mine(s)]
           /\ UNCHANGED <<row, clock>>
  <2> USE DEF apiVars, queueVars
  <2> DEFINE d == DepOf(s)  a == AppOfSlot(s)  m == Mine(s)
  <2>1. /\ d \in Dep /\ d # None /\ row[d].status = "swapping" /\ a \in App
        /\ runs[d] \in Nat /\ m \in Container /\ m = <<d, runs[d]>> /\ a = row[d].app
        /\ slot[s].pc = "list" /\ m # None
    BY BusySlot, NoneAssumption DEF List, At, IndInv, RunMatchesRow, Swapping, Mine, AppOfSlot,
       Container
  <2>2. UNCHANGED <<row, clock, apiVars, queueVars, containers, running>>
    BY <1>2 DEF List
  <2>3. ContainersOf(a) \subseteq containers /\ containers \subseteq Container
    BY DEF ContainersOf, IndInv, TypeOK
  <2>4. /\ slot'[s].pc = "remove" /\ slot'[s].dep = d /\ slot'[s].todo \subseteq containers
        /\ \A t \in Slot : t # s => slot'[t] = slot[t]
        /\ \A t \in Slot : DepOf(t)' = DepOf(t)
        /\ slot' \in [Slot -> Run]
    <3> DEFINE new == [slot[s] EXCEPT !.pc = "remove", !.todo = ContainersOf(a)]
    <3>1. slot \in [Slot -> Run] /\ slot[s] \in Run
      BY DEF IndInv, TypeOK
    <3>2. /\ new \in Run /\ new.pc = "remove" /\ new.dep = slot[s].dep
          /\ new.todo = ContainersOf(a)
      BY <2>3, <3>1 DEF Run, Pc
    <3>3. slot' = [slot EXCEPT ![s] = new]
      BY <1>2
    <3> HIDE DEF new
    <3> QED BY <2>3, <3>1, <3>2, <3>3 DEF DepOf
  <2>5. \A t \in Slot : Mine(t)' = Mine(t)
    BY <2>2, <2>4 DEF Mine
  <2>6. m \notin containers /\ \A t \in Slot : m \notin slot[t].todo
    BY <2>1 DEF IndInv, ContainersAreOld, BeforeCreate
  <2>7. lister'[a] = m /\ \A b \in App : b # a => lister'[b] = lister[b]
    BY <1>2, <2>1 DEF IndInv, TypeOK
  <2>8. \A t \in Slot : t # s => DepOf(t) # d
    BY <2>1 DEF IndInv, JobOnce
  <2> HIDE DEF d, a, m
  <2>9. TypeOK'
    BY <1>2, <2>1, <2>2, <2>4 DEF IndInv, TypeOK, a, m
  <2>10. JobOnce' /\ JobHasRow'
    BY <2>2, <2>4 DEF IndInv, JobOnce, JobHasRow, Waiting
  <2>11. RunMatchesRow'
    BY <2>1, <2>2, <2>4 DEF IndInv, RunMatchesRow, At, Swapping, d, DepOf
  <2>12. ContainersAreOld'
    BY <2>1, <2>2, <2>4, <2>5, <2>6 DEF IndInv, ContainersAreOld, BeforeCreate, DepOf, d, m
  <2>13. ListerIsSafe'
    <3> SUFFICES ASSUME NEW b \in App, lister'[b] # None
                 PROVE  /\ row[lister'[b][1]].app = b
                        /\ lister'[b][2] <= runs[lister'[b][1]]
                        /\ \A t \in Slot : lister'[b] \notin slot'[t].todo
                        /\ \A t \in Slot : slot'[t].pc \in AfterList
                              /\ DepOf(t) = lister'[b][1] => lister'[b] = Mine(t)
      BY <2>2, <2>4, <2>5 DEF ListerIsSafe
    <3>1. CASE b = a
      <4>1. row[lister'[b][1]].app = b /\ lister'[b][2] <= runs[lister'[b][1]]
        BY <3>1, <2>1, <2>7
      <4>2. \A t \in Slot : lister'[b] \notin slot'[t].todo
        BY <3>1, <2>4, <2>6, <2>7
      <4>3. \A t \in Slot : DepOf(t) = lister'[b][1] => t = s
        BY <3>1, <2>1, <2>7, <2>8
      <4> QED BY <3>1, <2>7, <4>1, <4>2, <4>3 DEF m
    <3>2. CASE b # a
      <4>1. lister'[b] = lister[b] /\ lister[b] \in Container
        BY <3>2, <2>7 DEF IndInv, TypeOK
      <4>2. row[lister[b][1]].app = b /\ lister[b][1] # d
        BY <3>2, <4>1, <2>1 DEF IndInv, ListerIsSafe
      <4>3. lister[b] \notin ContainersOf(a)
        BY <3>2, <4>2 DEF ContainersOf, AppOf
      <4>4. slot'[s].todo = ContainersOf(a)
        BY <1>2 DEF IndInv, TypeOK, Run, a
      <4>5. \A t \in Slot : lister[b] \notin slot'[t].todo
        BY <4>1, <4>3, <4>4, <2>4 DEF IndInv, ListerIsSafe
      <4> QED BY <4>1, <4>2, <4>5, <2>1, <2>4 DEF IndInv, ListerIsSafe, d
    <3> QED BY <3>1, <3>2
  <2>14. LastListerRuns'
    <3> SUFFICES ASSUME NEW t \in Slot, slot'[t].pc \in {"settle", "record"},
                        lister'[AppOfSlot(t)'] = Mine(t)
                 PROVE  Mine(t) \in running
      BY <2>2, <2>5 DEF LastListerRuns
    <3>1. t # s /\ slot'[t] = slot[t] /\ AppOfSlot(t)' = AppOfSlot(t)
      BY <2>2, <2>4 DEF AppOfSlot
    <3>2. AppOfSlot(t) \in App /\ Mine(t) # m
      BY <3>1, <2>1, <2>8, BusySlot DEF Mine
    <3>3. lister[AppOfSlot(t)] = Mine(t)
      BY <3>1, <3>2, <2>7
    <3> QED BY <3>1, <3>3 DEF IndInv, LastListerRuns
  <2>15. LastSwapServes'
    BY <2>1, <2>2, <2>7 DEF IndInv, LastSwapServes
  <2> QED BY <2>9, <2>10, <2>11, <2>12, <2>13, <2>14, <2>15 DEF IndInv
<1> QED BY <1>1, <1>2 DEF List

(* A run that takes listed containers away, from Docker or from its list.  *)
LEMMA RemovalStep ==
    ASSUME IndInv, NEW s \in Slot, slot[s].pc = "remove", NEW c \in slot[s].todo,
           slot' = [slot EXCEPT ![s].todo = @ \ {c}] \/ slot' = slot,
           containers \ {c} \subseteq containers', containers' \subseteq containers,
           running \ {c} \subseteq running', running' \subseteq running,
           running' \subseteq containers',
           UNCHANGED <<row, clock, apiVars, queueVars, lister>>
    PROVE  IndInv'
<1> USE DEF apiVars, queueVars
<1>1. /\ slot' \in [Slot -> Run]
      /\ \A t \in Slot : /\ slot'[t].pc = slot[t].pc /\ slot'[t].dep = slot[t].dep
                         /\ slot'[t].todo \subseteq slot[t].todo
  <2>1. CASE slot' = slot
    BY <2>1 DEF IndInv, TypeOK
  <2>2. CASE slot' = [slot EXCEPT ![s].todo = @ \ {c}]
    <3> DEFINE new == [slot[s] EXCEPT !.todo = @ \ {c}]
    <3>1. slot \in [Slot -> Run] /\ slot[s] \in Run
      BY DEF IndInv, TypeOK
    <3>2. /\ new \in Run /\ new.pc = slot[s].pc /\ new.dep = slot[s].dep
          /\ new.todo \subseteq slot[s].todo
      BY <3>1 DEF Run
    <3>3. slot' = [slot EXCEPT ![s] = new]
      BY <2>2
    <3> HIDE DEF new
    <3> QED BY <3>1, <3>2, <3>3
  <2> QED BY <2>1, <2>2
<1>2. \A t \in Slot : DepOf(t)' = DepOf(t) /\ Mine(t)' = Mine(t)
                      /\ AppOfSlot(t)' = AppOfSlot(t)
  BY <1>1 DEF DepOf, Mine, AppOfSlot
<1>3. TypeOK'
  BY <1>1 DEF IndInv, TypeOK
<1>4. JobOnce' /\ JobHasRow'
  BY <1>2 DEF IndInv, JobOnce, JobHasRow, Waiting
<1>5. RunMatchesRow'
  BY <1>1, <1>2 DEF IndInv, RunMatchesRow, At
<1>6. ContainersAreOld'
  BY <1>1, <1>2 DEF IndInv, ContainersAreOld
<1>7. ListerIsSafe'
  BY <1>1, <1>2 DEF IndInv, ListerIsSafe
<1>8. \A t \in Slot : lister[AppOfSlot(t)] = Mine(t) /\ slot[t].pc # "idle" => Mine(t) # c
  BY BusySlot, NoneAssumption DEF IndInv, ListerIsSafe, Container
<1>9. LastListerRuns'
  BY <1>1, <1>2, <1>8 DEF IndInv, LastListerRuns
<1>10. LastSwapServes'
  BY DEF IndInv, LastSwapServes, ListerIsSafe
<1> QED BY <1>3, <1>4, <1>5, <1>6, <1>7, <1>9, <1>10 DEF IndInv

(* Stopping a listed container.                                            *)
LEMMA StopOldStep == ASSUME IndInv, NEW s \in Slot, StopOld(s) PROVE IndInv'
<1>1. PICK c \in slot[s].todo : running' = running \ {c}
  BY DEF StopOld
<1> QED BY <1>1, RemovalStep DEF StopOld, At, IndInv, TypeOK

(* Removing a listed container, or failing to.                             *)
LEMMA RemoveOldStep == ASSUME IndInv, NEW s \in Slot, RemoveOld(s) PROVE IndInv'
<1>1. PICK c \in slot[s].todo :
        /\ slot' = [slot EXCEPT ![s].todo = @ \ {c}]
        /\ \/ containers' = containers \ {c} /\ running' = running \ {c}
           \/ UNCHANGED <<containers, running>>
  BY DEF RemoveOld
<1>2. running \subseteq containers
  BY DEF IndInv, TypeOK
<1> QED BY <1>1, <1>2, RemovalStep DEF RemoveOld, At

(* Creating the container: it is new, and in nobody else's list.           *)
LEMMA CreateStep == ASSUME IndInv, NEW s \in Slot, Create(s) PROVE IndInv'
<1>1. CASE Fail(s) /\ UNCHANGED containers
  BY <1>1, FailStep DEF Create, At, dockerVars
<1>2. CASE containers' = containers \cup {Mine(s)} /\ SetPc(s, "start")
           /\ UNCHANGED <<row, clock>>
  <2> USE DEF apiVars, queueVars
  <2>1. /\ slot[s].pc = "remove" /\ slot[s].todo = {}
        /\ UNCHANGED <<row, clock, apiVars, queueVars, running, lister>>
    BY <1>2 DEF Create, At
  <2>2. /\ DepOf(s) \in Dep /\ row[DepOf(s)].status = "swapping" /\ Mine(s) \in Container
        /\ runs[DepOf(s)] \in Nat /\ Mine(s) = <<DepOf(s), runs[DepOf(s)]>> /\ DepOf(s) # None
    BY <2>1, BusySlot DEF IndInv, RunMatchesRow, Swapping, Mine
  <2>3. /\ slot'[s].pc = "start" /\ slot'[s].dep = slot[s].dep /\ slot'[s].todo = {}
        /\ \A t \in Slot : t # s => slot'[t] = slot[t]
        /\ slot' \in [Slot -> Run]
    BY <1>2, <2>1, SetPcSlot DEF IndInv, TypeOK, Pc
  <2>4. \A t \in Slot : DepOf(t)' = DepOf(t) /\ Mine(t)' = Mine(t)
                        /\ AppOfSlot(t)' = AppOfSlot(t)
    BY <2>1, <2>3 DEF DepOf, Mine, AppOfSlot
  <2>5. \A t \in Slot : t # s /\ slot[t].pc # "idle" => DepOf(t) # DepOf(s)
    BY <2>2 DEF IndInv, JobOnce
  <2>6. TypeOK'
    BY <1>2, <2>1, <2>2, <2>3 DEF IndInv, TypeOK
  <2>7. JobOnce' /\ JobHasRow'
    BY <2>1, <2>4 DEF IndInv, JobOnce, JobHasRow, Waiting
  <2>8. RunMatchesRow'
    BY <2>1, <2>2, <2>3, <2>4 DEF IndInv, RunMatchesRow, At, Swapping
  <2>9. \A t \in Slot : t # s /\ slot[t].pc \in BeforeCreate => Mine(t) # Mine(s)
    BY <2>5 DEF Mine, BeforeCreate
  <2>10. ContainersAreOld'
    BY <1>2, <2>1, <2>2, <2>3, <2>4, <2>9 DEF IndInv, ContainersAreOld, BeforeCreate
  <2>11. ListerIsSafe'
    BY <2>1, <2>3, <2>4 DEF IndInv, ListerIsSafe, AfterList
  <2>12. LastListerRuns' /\ LastSwapServes'
    BY <2>1, <2>3, <2>4 DEF IndInv, LastListerRuns, LastSwapServes
  <2> QED BY <2>6, <2>7, <2>8, <2>10, <2>11, <2>12 DEF IndInv
<1> QED BY <1>1, <1>2 DEF Create

(* Starting the container, or failing with it.                             *)
LEMMA StartStep == ASSUME IndInv, NEW s \in Slot, Start(s) PROVE IndInv'
<1>1. CASE Fail(s) /\ UNCHANGED running
  BY <1>1, FailStep DEF Start, At, dockerVars
<1>2. CASE /\ CanStart(Mine(s)) /\ running' = running \cup {Mine(s)}
           /\ SetPc(s, "settle") /\ UNCHANGED <<row, clock>>
  <2> USE DEF apiVars, queueVars
  <2>1. /\ slot[s].pc = "start" /\ Mine(s) \in containers
        /\ UNCHANGED <<row, clock, apiVars, queueVars, containers, lister>>
    BY <1>2 DEF Start, At, CanStart
  <2>2. DepOf(s) \in Dep /\ row[DepOf(s)].status = "swapping" /\ slot[s].todo = {}
    BY <2>1, BusySlot DEF IndInv, RunMatchesRow, Swapping, At
  <2>3. /\ slot'[s].pc = "settle" /\ slot'[s].dep = slot[s].dep /\ slot'[s].todo = {}
        /\ \A t \in Slot : t # s => slot'[t] = slot[t]
        /\ slot' \in [Slot -> Run]
    BY <1>2, <2>2, SetPcSlot DEF IndInv, TypeOK, Pc
  <2>4. \A t \in Slot : DepOf(t)' = DepOf(t) /\ Mine(t)' = Mine(t)
                        /\ AppOfSlot(t)' = AppOfSlot(t)
    BY <2>1, <2>3 DEF DepOf, Mine, AppOfSlot
  <2>5. TypeOK'
    BY <1>2, <2>1, <2>3 DEF IndInv, TypeOK
  <2>6. JobOnce' /\ JobHasRow'
    BY <2>1, <2>4 DEF IndInv, JobOnce, JobHasRow, Waiting
  <2>7. RunMatchesRow'
    BY <2>1, <2>2, <2>3, <2>4 DEF IndInv, RunMatchesRow, At, Swapping
  <2>8. ContainersAreOld'
    BY <2>1, <2>3, <2>4 DEF IndInv, ContainersAreOld, BeforeCreate
  <2>9. ListerIsSafe'
    BY <2>1, <2>2, <2>3, <2>4 DEF IndInv, ListerIsSafe, AfterList
  <2>10. LastListerRuns' /\ LastSwapServes'
    BY <1>2, <2>1, <2>3, <2>4 DEF IndInv, LastListerRuns, LastSwapServes
  <2> QED BY <2>5, <2>6, <2>7, <2>8, <2>9, <2>10 DEF IndInv
<1> QED BY <1>1, <1>2 DEF Start

-----------------------------------------------------------------------------
(* The theorems *)

(* The invariant holds of the empty system.                                *)
LEMMA InvInit == Init => IndInv
<1> SUFFICES ASSUME Init PROVE IndInv
  OBVIOUS
<1>1. TypeOK
  BY TypeInit
<1>2. \A s \in Slot : slot[s].pc = "idle" /\ slot[s].dep = None /\ slot[s].todo = {}
  BY DEF Init, Idle
<1>3. Waiting = {}
  BY DEF Init, Waiting, Members
<1>4. JobOnce
  BY <1>2, <1>3 DEF Init, JobOnce, Distinct, DepOf
<1>5. JobHasRow
  BY <1>3, StallsAssumption DEF Init, JobHasRow, NoRow
<1>6. RunMatchesRow /\ ContainersAreOld
  BY <1>2 DEF Init, RunMatchesRow, ContainersAreOld, At, DepOf, Swapping, BeforeCreate
<1>7. ListerIsSafe /\ LastListerRuns /\ LastSwapServes
  BY <1>2 DEF Init, ListerIsSafe, LastListerRuns, LastSwapServes
<1> QED BY <1>1, <1>4, <1>5, <1>6, <1>7 DEF IndInv

(* The invariant is about the variables only.                              *)
LEMMA InvStutter == IndInv /\ UNCHANGED vars => IndInv'
<1> SUFFICES ASSUME IndInv, UNCHANGED vars PROVE IndInv'
  OBVIOUS
<1> USE DEF vars, apiVars, queueVars, dockerVars, IndInv
<1>1. TypeOK' /\ JobOnce' /\ JobHasRow'
  BY DEF TypeOK, JobOnce, JobHasRow, Waiting, DepOf
<1>2. RunMatchesRow' /\ ContainersAreOld'
  BY DEF RunMatchesRow, ContainersAreOld, At, DepOf, Mine
<1>3. ListerIsSafe' /\ LastListerRuns' /\ LastSwapServes'
  BY DEF ListerIsSafe, LastListerRuns, LastSwapServes, DepOf, Mine, AppOfSlot
<1> QED BY <1>1, <1>2, <1>3

(* Every step of runDeploy keeps the invariant.                            *)
LEMMA InvRunStep == ASSUME IndInv, NEW s \in Slot, RunStep(s) PROVE IndInv'
BY BeginStep, BeginFailsStep, CloneStep, BuildStep, ListStep, StopOldStep,
   RemoveOldStep, CreateStep, StartStep, PublishStep, RecordStep, CompleteStep
   DEF RunStep

(* Every step of the system keeps the invariant.                           *)
LEMMA InvNext == IndInv /\ [Next]_vars => IndInv'
<1> SUFFICES ASSUME IndInv, [Next]_vars PROVE IndInv'
  OBVIOUS
<1>1. CASE Request
  BY <1>1, RequestCases, ApiStep, EnqueueStep
<1>2. ASSUME NEW d \in Dep, AddJob(d) \/ AddFails(d) \/ StalledCheck(d) PROVE IndInv'
  BY <1>2, AddJobStep, AddFailsStep, StalledStep
<1>3. ASSUME NEW s \in Slot, Claim(s) \/ RunStep(s) PROVE IndInv'
  BY <1>3, ClaimStep, InvRunStep
<1>4. CASE Crash
  BY <1>4, CrashStep
<1>5. CASE UNCHANGED vars
  BY <1>5, InvStutter
<1> QED BY <1>1, <1>2, <1>3, <1>4, <1>5 DEF Next

(* The invariant holds in every reachable state, for any number of         *)
(* applications, deployments, commits and slots, any limit of stalls,      *)
(* any number of crashes and any choice of failing calls.                  *)
THEOREM InductiveInvariant == Spec => []IndInv
BY InvInit, InvNext, PTL DEF Spec

(* Every variable of the pipeline keeps its type.                          *)
THEOREM TypeCorrect == Spec => []TypeOK
<1>1. IndInv => TypeOK
  BY DEF IndInv
<1> QED BY <1>1, InductiveInvariant, PTL

(* The deployment whose run listed the containers of an application last   *)
(* has its container running once its row says succeeded.                  *)
THEOREM LastSwapAlwaysServes == Spec => []LastSwapServes
<1>1. IndInv => LastSwapServes
  BY DEF IndInv
<1> QED BY <1>1, InductiveInvariant, PTL
=============================================================================
