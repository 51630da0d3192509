------------------------ MODULE DeploymentLifecycle ------------------------
(***************************************************************************)
(* What the deployments table promises to its readers, the dashboard, the  *)
(* redeploy and the rollback button: each deployment goes forward along    *)
(* queued, cloning, building, swapping to one outcome, and may start over  *)
(* only when Restarts allows it.  DeployPipeline implements it.            *)
(***************************************************************************)
CONSTANTS
    Dep,      \* deployments
    Restarts  \* whether a deployment that was started may start again

VARIABLES
    status,   \* the status column, "none" before the row is inserted
    served    \* deployments that have recorded a container and an image

vars == <<status, served>>

Forward == {<<"cloning", "building">>, <<"building", "swapping">>}
InProgress == {"cloning", "building", "swapping"}

Init == status = [d \in Dep |-> "none"] /\ served = {}

Move(d, from, to) ==
    /\ status[d] = from
    /\ status' = [status EXCEPT ![d] = to]

Submit(d) == Move(d, "none", "queued") /\ UNCHANGED served

Begin(d) ==
    /\ status[d] = "queued" \/ (Restarts /\ status[d] # "none")
    /\ Move(d, status[d], "cloning")
    /\ UNCHANGED served

Advance(d) ==
    /\ \E edge \in Forward : Move(d, edge[1], edge[2])
    /\ UNCHANGED served

Succeed(d) == Move(d, "swapping", "succeeded") /\ served' = served \cup {d}

Fail(d) ==
    /\ \E from \in InProgress : Move(d, from, "failed")
    /\ UNCHANGED served

Work(d) == Begin(d) \/ Advance(d) \/ Succeed(d) \/ Fail(d)

Next == \E d \in Dep : Submit(d) \/ Work(d)

Spec == Init /\ [][Next]_vars

(* Whatever is submitted is worked on until it has an outcome. *)
FairSpec ==
    Spec /\ \A d \in Dep : WF_vars(Work(d) /\ status[d] \notin {"succeeded", "failed"})
=============================================================================
