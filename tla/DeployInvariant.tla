-------------------------- MODULE DeployInvariant --------------------------
(***************************************************************************)
(* The inductive invariant behind LastSwapServes and OutcomeIsFinal.       *)
(*                                                                         *)
(* Neither is inductive.  What carries them: a job is in one place, so a   *)
(* deployment has one run at a time; the number of the run makes its       *)
(* container new; and a container is created after its run has listed the  *)
(* old ones, so that it can be in the removal list of a later lister only. *)
(***************************************************************************)
EXTENDS DeployPipeline

Members(w) == {w[i] : i \in 1..Len(w)}
Distinct(w) == \A i, j \in 1..Len(w) : w[i] = w[j] => i = j

Waiting == Members(wait)

(* A job is in one place, and once. *)
JobOnce ==
    /\ \A s, t \in Slot : DepOf(s) # None /\ DepOf(s) = DepOf(t) => s = t
    /\ Distinct(wait)
    /\ \A s \in Slot : DepOf(s) \notin adding \cup stalled \cup Waiting
    /\ Waiting \cap (adding \cup stalled) = {}
    /\ adding \cap stalled = {}

(* A row is there before its job is; a repeat follows a crash only, and a  *)
(* job never handed out still has its row queued.                          *)
JobHasRow ==
    /\ crashes <= MaxCrashes
    /\ \A d \in Dep :
        /\ row[d].status = "none" => row[d] = NoRow /\ runs[d] = 0
        /\ row[d].status # "none" => row[d].app \in App
        /\ runs[d] <= crashes + 1
        /\ d \in adding => runs[d] = 0
        /\ d \in Waiting \cup stalled => runs[d] <= crashes
        /\ d \in adding \cup Waiting \cup stalled => row[d].status # "none"
        /\ d \in adding \cup Waiting \cup stalled /\ runs[d] = 0
             => row[d].status = "queued"

Swapping == {"list", "remove", "start", "settle", "record"}

(* The program counter of a run agrees with the status of its row. *)
RunMatchesRow ==
    \A s \in Slot :
        /\ At(s, "idle") <=> DepOf(s) = None
        /\ slot[s].todo # {} => At(s, "remove")
        /\ ~At(s, "idle") => runs[DepOf(s)] >= 1 /\ row[DepOf(s)].status # "none"
        /\ At(s, "claimed") /\ runs[DepOf(s)] = 1 => row[DepOf(s)].status = "queued"
        /\ At(s, "clone") => row[DepOf(s)].status = "cloning"
        /\ At(s, "build") => row[DepOf(s)].status = "building"
        /\ slot[s].pc \in Swapping => row[DepOf(s)].status = "swapping"

BeforeCreate == {"claimed", "clone", "build", "list", "remove"}

(* Containers, existing or listed, come from runs that have been handed    *)
(* out; the container a run is still to create is new.                     *)
ContainersAreOld ==
    /\ \A c \in containers : c[2] <= runs[c[1]] /\ row[c[1]].status # "none"
    /\ \A s \in Slot : \A c \in slot[s].todo : c[2] <= runs[c[1]]
    /\ \A s \in Slot : slot[s].pc \in BeforeCreate =>
        /\ Mine(s) \notin containers
        /\ \A t \in Slot : Mine(s) \notin slot[t].todo

AfterList == {"remove", "start", "settle", "record"}

(* No removal list holds the container of the run that listed last. *)
ListerIsSafe ==
    \A a \in App : lister[a] # None =>
        /\ row[lister[a][1]].app = a
        /\ lister[a][2] <= runs[lister[a][1]]
        /\ \A s \in Slot : lister[a] \notin slot[s].todo
        /\ \A s \in Slot : slot[s].pc \in AfterList /\ DepOf(s) = lister[a][1]
               => lister[a] = Mine(s)

(* A run that has started its container keeps it until another one lists. *)
LastListerRuns ==
    \A s \in Slot : slot[s].pc \in {"settle", "record"}
            /\ lister[AppOfSlot(s)] = Mine(s) => Mine(s) \in running

(* The conjunction is inductive: every variable, every actor. *)
IndInv ==
    /\ TypeOK /\ JobOnce /\ JobHasRow /\ RunMatchesRow /\ ContainersAreOld
    /\ ListerIsSafe /\ LastListerRuns /\ LastSwapServes
=============================================================================
