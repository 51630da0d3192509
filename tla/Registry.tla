------------------------------ MODULE Registry ------------------------------
(***************************************************************************)
(* Applications: their slugs, ports and volumes, and the pushes they       *)
(* follow.                                                                 *)
(*                                                                         *)
(* pm-api serves several requests at once; a step is what a handler does   *)
(* between two awaits, and a handler keeps what it has read in its locals. *)
(* Rows of apps are never taken out of their table: deleting an            *)
(* application sets deleted_at.  autoDeploy and defaultBranch are one      *)
(* field, the branch whose pushes are deployed.                            *)
(***************************************************************************)
EXTENDS Naturals, FiniteSets

CONSTANTS
    App,          \* ids of rows of apps
    Slug,         \* slugs
    Port,         \* the pool portMin .. portMax
    Repo,         \* repositories
    Branch,       \* branches
    Mount,        \* mount paths
    Handler,      \* requests that pm-api serves at once
    None,         \* no branch, no application, no mount path
    MaxAttempts,  \* tries at a port, ten in the code
    MaxVolumes    \* bound on additions of volumes

ASSUME AttemptsAssumption == MaxAttempts \in Nat \ {0}
ASSUME VolumesAssumption == MaxVolumes \in Nat
ASSUME NamesAssumption ==
    None \notin App \cup Slug \cup Port \cup Repo \cup Branch \cup Mount
                    \cup {"slug", "pool", "attempts"}
ASSUME PoolAssumption == IsFiniteSet(App) /\ IsFiniteSet(Port)

VARIABLES
    row,       \* the table apps
    volume,    \* app_volumes: the number in the name, 0 without a row
    handler,   \* the locals of the requests under way
    added,     \* additions of volumes, bounded
    shared,    \* history: applications with a volume removed or two added at once
    missed     \* history: applications a push should have deployed, and the
               \* one it was compared with

vars == <<row, volume, handler, added, shared, missed>>
history == <<shared, missed>>

-----------------------------------------------------------------------------

NoRow == [slug |-> None, port |-> None, repo |-> None, follows |-> None, deleted |-> FALSE]
Row == [slug : Slug, port : Port, repo : Repo, follows : Branch \cup {None},
        deleted : BOOLEAN]

Steps == {"idle", "alloc", "insert", "patch", "delete", "number"}
Refusals == {"slug", "pool", "attempts"}
Locals == [at : Steps, answer : Refusals \cup {None}, slug : Slug \cup {None}, repo : Repo \cup {None},
           port : Port \cup {None}, attempt : 0 .. (MaxAttempts - 1), rivals : Nat, app : App \cup {None},
           mount : Mount \cup {None}, number : Nat]
NoLocals == [at |-> "idle", answer |-> None, slug |-> None, repo |-> None,
             port |-> None, attempt |-> 0, rivals |-> 0, app |-> None,
             mount |-> None, number |-> 0]

Inserted(a) == row[a] # NoRow
Active(a) == Inserted(a) /\ ~row[a].deleted
UsedPorts == {row[a].port : a \in {b \in App : Inserted(b)}}
UsedSlugs == {row[a].slug : a \in {b \in App : Inserted(b)}}
FreePorts == Port \ UsedPorts

Mounted(a) == {p \in Mount : volume[a][p] # 0}
VolumeName(a, p) == <<row[a].slug, volume[a][p]>>

At(h, step) == handler[h].at = step
Answer(h) == handler' = [handler EXCEPT ![h] = NoLocals]
Refuse(h, why) == handler' = [handler EXCEPT ![h] = [NoLocals EXCEPT !.answer = why]]

Init ==
    /\ row = [a \in App |-> NoRow]
    /\ volume = [a \in App |-> [p \in Mount |-> 0]]
    /\ handler = [h \in Handler |-> NoLocals]
    /\ added = 0
    /\ shared = {} /\ missed = {}

-----------------------------------------------------------------------------
(* POST /api/apps *)

(* The second step of the wizard. *)
Create(h, s, r) ==
    /\ At(h, "idle")
    /\ handler' = [handler EXCEPT ![h] = [NoLocals EXCEPT !.at = "alloc", !.slug = s,
                                                          !.repo = r]]
    /\ UNCHANGED <<row, volume, added, history>>

AllocPort(h, p) ==
    /\ At(h, "alloc") /\ p \in FreePorts
    /\ handler' = [handler EXCEPT ![h].at = "insert", ![h].port = p]
    /\ UNCHANGED <<row, volume, added, history>>

PoolEmpty(h) ==
    /\ At(h, "alloc") /\ FreePorts = {}
    /\ Refuse(h, "pool")
    /\ UNCHANGED <<row, volume, added, history>>

(* Every other request that is after a port sees one go. *)
OvertakenBy(h) ==
    [g \in Handler |-> IF g # h /\ handler[g].at \in {"alloc", "insert"}
                       THEN [handler[g] EXCEPT !.rivals = @ + 1] ELSE handler[g]]

Insert(h, a) ==
    LET l == handler[h] IN
    /\ At(h, "insert") /\ l.port \in FreePorts /\ l.slug \notin UsedSlugs
    /\ ~Inserted(a)
    /\ row' = [row EXCEPT ![a] = [slug |-> l.slug, port |-> l.port, repo |-> l.repo,
                                  follows |-> None, deleted |-> FALSE]]
    /\ handler' = [OvertakenBy(h) EXCEPT ![h] = NoLocals]
    /\ UNCHANGED <<volume, added, history>>

(* Mutant: any unique index is taken for that of the slug. *)
AnyClashIsTheSlug(h) ==
    /\ At(h, "insert") /\ handler[h].port \notin FreePorts
    /\ Refuse(h, "slug")
    /\ UNCHANGED <<row, volume, added, history>>

(* Mutant: one try more. *)
OneTryMore(h) ==
    LET n == handler[h].attempt + 1 IN
    /\ At(h, "insert") /\ handler[h].port \notin FreePorts
    /\ IF n > MaxAttempts THEN Refuse(h, "attempts")
       ELSE handler' = [handler EXCEPT ![h].at = "alloc", ![h].port = None,
                                       ![h].attempt = n]
    /\ UNCHANGED <<row, volume, added, history>>

(* 23505 on internal_port: again, with another port, or it was the last try. *)
PortTaken(h) ==
    LET n == handler[h].attempt + 1 IN
    /\ At(h, "insert") /\ handler[h].port \notin FreePorts
    /\ IF n = MaxAttempts THEN handler' =
            [handler EXCEPT ![h] = [NoLocals EXCEPT !.answer = "attempts",
                                                    !.rivals = handler[h].rivals]]
       ELSE handler' = [handler EXCEPT ![h].at = "alloc", ![h].port = None,
                                       ![h].attempt = n]
    /\ UNCHANGED <<row, volume, added, history>>

(* 23505 on slug, which the row of a deleted application holds too. *)
SlugTaken(h) ==
    /\ At(h, "insert") /\ handler[h].slug \in UsedSlugs
    /\ handler' = [handler EXCEPT ![h] = [NoLocals EXCEPT !.answer = "slug",
                                                          !.slug = handler[h].slug]]
    /\ UNCHANGED <<row, volume, added, history>>

-----------------------------------------------------------------------------
(* PATCH and DELETE /api/apps/:id: the row is looked up, then changed by id. *)

(* The settings page sends branch and auto-deploy together, or deletes. *)
Settings(h) == At(h, "idle")

GetApp(h, a, step) ==
    /\ Settings(h) /\ Active(a)
    /\ handler' = [handler EXCEPT ![h] = [NoLocals EXCEPT !.at = step, !.app = a]]
    /\ UNCHANGED <<row, volume, added, history>>

(* Mutant: the update writes the row that was read back, deleted_at too. *)
UpdateRestores(h, b) ==
    /\ At(h, "patch")
    /\ row' = [row EXCEPT ![handler[h].app].follows = b, ![handler[h].app].deleted = FALSE]
    /\ Answer(h)
    /\ UNCHANGED <<volume, added, history>>

Update(h, b) ==
    /\ At(h, "patch")
    /\ row' = [row EXCEPT ![handler[h].app].follows = b]
    /\ Answer(h)
    /\ UNCHANGED <<volume, added, history>>

SoftDelete(h) ==
    /\ At(h, "delete")
    /\ row' = [row EXCEPT ![handler[h].app].deleted = TRUE]
    /\ Answer(h)
    /\ UNCHANGED <<volume, added, history>>

-----------------------------------------------------------------------------
(* POST and DELETE /api/apps/:id/volumes, for deleted applications as well *)

Numbering(a) == {h \in Handler : At(h, "number") /\ handler[h].app = a}

(* Mutant: the number is that of the mount path among the others. *)
NumberWithoutOne(a) == IF Mounted(a) = {} THEN 1 ELSE Cardinality(Mounted(a))
NumberOf(a) == Cardinality(Mounted(a)) + 1

(* The volumes page, which may be open on an application that is deleted. *)
Submits(h, a) == At(h, "idle") /\ Inserted(a)

(* VolumesService.add counts ... *)
CountVolumes(h, a, p) ==
    /\ Submits(h, a) /\ added < MaxVolumes
    /\ handler' = [handler EXCEPT ![h] =
                      [NoLocals EXCEPT !.at = "number", !.app = a, !.mount = p,
                                       !.number = NumberOf(a)]]
    /\ added' = added + 1
    /\ shared' = IF Numbering(a) = {} THEN shared ELSE shared \cup {a}
    /\ UNCHANGED <<row, volume, missed>>

(* ... and inserts. *)
AddVolume(h) ==
    LET l == handler[h] IN
    /\ At(h, "number") /\ l.mount \notin Mounted(l.app)
    /\ volume' = [volume EXCEPT ![l.app][l.mount] = l.number]
    /\ Answer(h)
    /\ UNCHANGED <<row, added, history>>

MountTaken(h) ==
    /\ At(h, "number") /\ handler[h].mount \in Mounted(handler[h].app)
    /\ Answer(h)
    /\ UNCHANGED <<row, volume, added, history>>

RemoveVolume(a, p) ==
    /\ p \in Mounted(a)
    /\ volume' = [volume EXCEPT ![a][p] = 0]
    /\ shared' = shared \cup {a}
    /\ UNCHANGED <<row, handler, added, missed>>

-----------------------------------------------------------------------------
(* POST /api/github/webhook *)

(* A delivery whose signature holds and whose event is a push. *)
Delivered(h) == At(h, "idle")

Wants(a, r, b) == Active(a) /\ row[a].repo = r /\ row[a].follows = b

(* Mutant: the application is taken whether deleted or not. *)
AnyByRepo(r) == {a \in App : Inserted(a) /\ row[a].repo = r}

(* getByRepo reads the active rows of the repository and takes the first; *)
(* if that one follows the branch it is deployed (DeployPipeline).        *)
ByRepo(r) == {a \in App : Active(a) /\ row[a].repo = r}

Push(h, r, b, a) ==
    /\ Delivered(h) /\ a \in ByRepo(r)
    /\ missed' = missed \cup
          {<<c, a, Active(a)>> : c \in {d \in App : Wants(d, r, b) /\ d # a}}
    /\ Answer(h)
    /\ UNCHANGED <<row, volume, added, shared>>

-----------------------------------------------------------------------------

Next ==
    \/ \E h \in Handler :
        \/ \E s \in Slug, r \in Repo : Create(h, s, r)
        \/ \E p \in Port : AllocPort(h, p)
        \/ \E a \in App : Insert(h, a) \/ GetApp(h, a, "patch") \/ GetApp(h, a, "delete")
        \/ PoolEmpty(h) \/ PortTaken(h) \/ SlugTaken(h)
        \/ \E b \in Branch \cup {None} : Update(h, b)
        \/ SoftDelete(h)
        \/ \E a \in App, p \in Mount : CountVolumes(h, a, p)
        \/ AddVolume(h) \/ MountTaken(h)
        \/ \E r \in Repo, b \in Branch, a \in App : Push(h, r, b, a)
    \/ \E a \in App, p \in Mount : RemoveVolume(a, p)

Spec == Init /\ [][Next]_vars

-----------------------------------------------------------------------------
(* Properties *)

(* Rows, volumes and requests have their types; a volume belongs to a row.  *)
TypeOK ==
    /\ row \in [App -> Row \cup {NoRow}]
    /\ volume \in [App -> [Mount -> Nat]]
    /\ handler \in [Handler -> Locals]
    /\ added \in 0 .. MaxVolumes
    /\ shared \subseteq App
    /\ missed \subseteq App \X App \X BOOLEAN
    /\ \A a \in App : Mounted(a) # {} => Inserted(a)

(* A creation is refused for the slug only if a row has it, for the pool    *)
(* only if every port is in a row, and after ten tries only if as many      *)
(* applications were created while it was trying (apps.ts:20-43).          *)
RefusedForGoodReason ==
    \A h \in Handler :
        /\ handler[h].answer = "slug" => handler[h].slug \in UsedSlugs
        /\ handler[h].answer = "pool" => FreePorts = {}
        /\ handler[h].answer = "attempts" => handler[h].rivals >= MaxAttempts

(* What names the container and the site of an application is its own for   *)
(* good: no step gives its slug or its port away or brings it back.         *)
IdentityKept ==
    [][\A a \in App : Inserted(a) =>
          /\ row'[a].slug = row[a].slug /\ row'[a].port = row[a].port
          /\ row'[a].repo = row[a].repo /\ (row[a].deleted => row'[a].deleted)]_vars

(* Two mounts of an application get one Docker volume only after a mount    *)
(* was removed or while two were being added (volumes.ts:15).              *)
VolumesDiffer ==
    \A a \in App \ shared : \A p, q \in Mounted(a) :
        p # q => VolumeName(a, p) # VolumeName(a, q)

(* A push passes an application that follows its branch over only for an    *)
(* active one of the same repository (apps.ts:73, index.api.ts:91).         *)
MissedForATwin == \A m \in missed : m[1] # m[2] /\ m[3] /\ row[m[1]].repo = row[m[2]].repo
=============================================================================
