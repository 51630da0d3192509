---------------------------- MODULE NginxHelper ----------------------------
(***************************************************************************)
(* The root helper and the nginx it configures.                            *)
(*                                                                         *)
(* The helper serves every connection on a goroutine of its own, with no   *)
(* lock: writes of managed sites (a temporary file, synced and renamed)    *)
(* and reloads (nginx -t, then systemctl reload) interleave.  nginx -t and *)
(* the nginx master read the sites one by one; a reload is a signal that   *)
(* the master handles later, keeping what it has if the sites are bad.     *)
(* Certificates are the matter of DomainCerts.                             *)
(***************************************************************************)
EXTENDS Naturals, FiniteSets

CONSTANTS
    Conn,       \* connections served at once
    Site,       \* managed site files, <name>.conf
    MaxWrites,  \* bound on the renames of a site after which none begins
    MaxDeaths,  \* bound on the deaths of the helper and on power losses
    Faults      \* what may fail, a subset of FaultKinds

FaultKinds == {"io", "reload", "timeout", "power"}

ASSUME BoundsAssumption == MaxWrites \in Nat /\ MaxDeaths \in Nat
ASSUME FaultsAssumption == Faults \subseteq FaultKinds
ASSUME SiteAssumption == Site # {}

VARIABLES
    conn,     \* per connection: program counter, request, sites left to test
    temp,     \* per connection: what its temporary file holds
    files,    \* the managed sites, as a reader sees them
    disk,     \* the managed sites, as a power loss may leave them
    renames,  \* per site: renames so far
    deaths,   \* deaths of the helper and power losses so far
    hup,      \* nginx has been asked for a reload it has not begun
    master,   \* the nginx master: sites left to read, versions read
    loaded,   \* per site: the version nginx serves
    owed      \* history: per site, the version of the last reload answered
              \* with success that nginx has not refused

nginxVars == <<hup, master, loaded, owed>>
siteVars == <<files, disk, renames>>
vars == <<conn, temp, siteVars, deaths, nginxVars>>

-----------------------------------------------------------------------------

Content == {"empty", "whole", "synced"}

(* The ver-th file of a site; good if nginx accepts it.  At first: none.   *)
File == [ver : Nat, good : BOOLEAN, content : Content]
NoFile == [ver |-> 0, good |-> TRUE, content |-> "synced"]

Pc == {"idle", "create", "write", "sync", "rename", "cleanup", "test"}
Connection == [pc : Pc, site : Site, good : BOOLEAN, left : SUBSET Site]
Master == [busy : BOOLEAN, left : SUBSET Site, read : [Site -> Nat]]

Nowhere == [s \in Site |-> 0]
Idle == [pc |-> "idle", site |-> CHOOSE s \in Site : TRUE, good |-> TRUE,
         left |-> {}]
Resting == [busy |-> FALSE, left |-> {}, read |-> Nowhere]

Versions(f) == [s \in Site |-> f[s].ver]
Readable(f, s) == f[s].good /\ f[s].content # "empty"

Goto(c, p) == conn' = [conn EXCEPT ![c].pc = p]
Answer(c) == conn' = [conn EXCEPT ![c] = Idle]

Init ==
    /\ conn = [c \in Conn |-> Idle] /\ temp = [c \in Conn |-> "none"]
    /\ files = [s \in Site |-> NoFile] /\ disk = files
    /\ renames = Nowhere /\ deaths = 0
    /\ hup = FALSE /\ master = Resting /\ loaded = Nowhere /\ owed = Nowhere

-----------------------------------------------------------------------------
(* nginx.write_config: WriteAtomic.  Each step may fail; the steps after   *)
(* the first then remove the temporary file.  A file that is not removed   *)
(* is forgotten: its name is never used again and nginx does not read it.  *)

(* Mutant: the name of the request is not validated.                    *)
AcceptAnyName(c) ==
    /\ conn[c].pc = "idle"
    /\ conn' = [conn EXCEPT ![c].pc = "create", ![c].site = "../default"]
    /\ UNCHANGED <<temp, siteVars, deaths, nginxVars>>

AcceptWrite(c) ==
    /\ conn[c].pc = "idle"
    /\ \E s \in Site, good \in BOOLEAN :
        /\ renames[s] < MaxWrites
        /\ conn' = [conn EXCEPT ![c].pc = "create", ![c].site = s, ![c].good = good]
    /\ UNCHANGED <<temp, siteVars, deaths, nginxVars>>

CreateTemp(c) ==
    /\ conn[c].pc = "create"
    /\ \/ temp' = [temp EXCEPT ![c] = "empty"] /\ Goto(c, "write")
       \/ "io" \in Faults /\ Answer(c) /\ UNCHANGED temp
    /\ UNCHANGED <<siteVars, deaths, nginxVars>>

(* Write, Chmod. *)
WriteData(c) ==
    /\ conn[c].pc = "write"
    /\ \/ temp' = [temp EXCEPT ![c] = "whole"] /\ Goto(c, "sync")
       \/ "io" \in Faults /\ Goto(c, "cleanup") /\ UNCHANGED temp
    /\ UNCHANGED <<siteVars, deaths, nginxVars>>

(* Mutant: the temporary file is closed without being synced.           *)
SyncSkipped(c) ==
    /\ conn[c].pc = "sync" /\ Goto(c, "rename")
    /\ UNCHANGED <<temp, siteVars, deaths, nginxVars>>

(* Sync, Close. *)
SyncTemp(c) ==
    /\ conn[c].pc = "sync"
    /\ \/ temp' = [temp EXCEPT ![c] = "synced"] /\ Goto(c, "rename")
       \/ "io" \in Faults /\ Goto(c, "cleanup") /\ UNCHANGED temp
    /\ UNCHANGED <<siteVars, deaths, nginxVars>>

Install(s, good, content) ==
    /\ renames' = [renames EXCEPT ![s] = @ + 1]
    /\ files' = [files EXCEPT ![s] =
           [ver |-> renames[s] + 1, good |-> good, content |-> content]]

Rename(c) ==
    /\ conn[c].pc = "rename"
    /\ Install(conn[c].site, conn[c].good, temp[c])
    /\ temp' = [temp EXCEPT ![c] = "none"] /\ Answer(c)
    /\ UNCHANGED <<disk, deaths, nginxVars>>

(* Mutant: a rename that fails returns without cleanup.                 *)
RenameFailsDirty(c) ==
    /\ conn[c].pc = "rename" /\ "io" \in Faults
    /\ Answer(c) /\ UNCHANGED <<temp, siteVars, deaths, nginxVars>>

RenameFails(c) ==
    /\ conn[c].pc = "rename" /\ "io" \in Faults
    /\ Goto(c, "cleanup") /\ UNCHANGED <<temp, siteVars, deaths, nginxVars>>

Cleanup(c) ==
    /\ conn[c].pc = "cleanup"
    /\ temp' = [temp EXCEPT ![c] = "none"] /\ Answer(c)
    /\ UNCHANGED <<siteVars, deaths, nginxVars>>

-----------------------------------------------------------------------------
(* nginx.reload.  nginx -t reads the sites one by one and fails at a bad   *)
(* one; systemctl reload returns once nginx has been signalled.            *)

AcceptReload(c) ==
    /\ conn[c].pc = "idle"
    /\ conn' = [conn EXCEPT ![c].pc = "test", ![c].left = Site]
    /\ UNCHANGED <<temp, siteVars, deaths, nginxVars>>

TestOne(c) ==
    /\ conn[c].pc = "test"
    /\ \/ \E s \in conn[c].left :
              IF Readable(files, s) THEN conn' = [conn EXCEPT ![c].left = @ \ {s}]
              ELSE Answer(c)
       \/ "timeout" \in Faults /\ Answer(c)
    /\ UNCHANGED <<temp, siteVars, deaths, nginxVars>>

(* Mutant: the exit code of systemctl is not looked at.                 *)
SignalUnchecked(c) ==
    /\ conn[c].pc = "test" /\ conn[c].left = {} /\ Answer(c)
    /\ \/ "reload" \in Faults /\ UNCHANGED hup
       \/ hup' = TRUE
    /\ owed' = Versions(files)
    /\ UNCHANGED <<temp, siteVars, deaths, master, loaded>>

Signal(c) ==
    /\ conn[c].pc = "test" /\ conn[c].left = {} /\ Answer(c)
    /\ hup' = TRUE /\ owed' = Versions(files)
    /\ UNCHANGED <<temp, siteVars, deaths, master, loaded>>

(* systemctl exits with an error and has not signalled; or the ten seconds *)
(* are over, which kills the command, before or after the signal.          *)
SignalFails(c) ==
    /\ conn[c].pc = "test" /\ conn[c].left = {} /\ Answer(c)
    /\ \/ Faults \cap {"reload", "timeout"} # {} /\ UNCHANGED hup
       \/ "timeout" \in Faults /\ hup' = TRUE
    /\ UNCHANGED <<temp, siteVars, deaths, master, loaded, owed>>

-----------------------------------------------------------------------------
(* nginx: a reload reads the sites and replaces what is served only when   *)
(* all of them are good.  Signals that arrive before it begins are one.    *)

NginxBegin ==
    /\ hup /\ ~master.busy
    /\ hup' = FALSE
    /\ master' = [busy |-> TRUE, left |-> Site, read |-> Nowhere]
    /\ UNCHANGED <<conn, temp, siteVars, deaths, loaded, owed>>

NginxRead ==
    /\ \E s \in master.left :
        \/ /\ Readable(files, s) /\ UNCHANGED owed
           /\ master' = [master EXCEPT !.left = @ \ {s}, !.read[s] = files[s].ver]
        \/ /\ ~Readable(files, s)
           /\ master' = Resting /\ owed' = IF hup THEN owed ELSE Nowhere
    /\ UNCHANGED <<conn, temp, siteVars, deaths, hup, loaded>>

NginxApply ==
    /\ master.busy /\ master.left = {}
    /\ loaded' = master.read /\ master' = Resting
    /\ UNCHANGED <<conn, temp, siteVars, deaths, hup, owed>>

-----------------------------------------------------------------------------
(* The helper stops: its connections are gone and no temporary file is     *)
(* removed.  The file system writes a rename back when it likes; a power   *)
(* loss leaves each site as it was then or as it is, whole if it was       *)
(* synced, and nginx starts with what it finds, or not at all.             *)

HelperDies ==
    /\ deaths < MaxDeaths /\ deaths' = deaths + 1
    /\ conn' = [c \in Conn |-> Idle] /\ temp' = [c \in Conn |-> "none"]
    /\ UNCHANGED <<siteVars, nginxVars>>

Flush(s) ==
    /\ "power" \in Faults /\ disk[s] # files[s]
    /\ disk' = [disk EXCEPT ![s] = files[s]]
    /\ UNCHANGED <<conn, temp, files, renames, deaths, nginxVars>>

AfterLoss(f) == IF f.content = "synced" THEN f
                ELSE [f EXCEPT !.content = "empty"]

PowerLoss ==
    /\ "power" \in Faults /\ deaths < MaxDeaths /\ deaths' = deaths + 1
    /\ \E kept \in SUBSET Site :
        files' = [s \in Site |-> AfterLoss(IF s \in kept THEN files[s] ELSE disk[s])]
    /\ disk' = files'
    /\ conn' = [c \in Conn |-> Idle] /\ temp' = [c \in Conn |-> "none"]
    /\ hup' = FALSE /\ master' = Resting /\ owed' = Nowhere
    /\ loaded' = IF \A s \in Site : Readable(files', s) THEN Versions(files')
                 ELSE Nowhere
    /\ UNCHANGED renames

Nginx == NginxBegin \/ NginxRead \/ NginxApply

Next ==
    \/ \E c \in Conn :
        \/ AcceptWrite(c) \/ CreateTemp(c) \/ WriteData(c) \/ SyncTemp(c)
        \/ Rename(c) \/ RenameFails(c) \/ Cleanup(c)
        \/ AcceptReload(c) \/ TestOne(c) \/ Signal(c) \/ SignalFails(c)
    \/ Nginx \/ HelperDies \/ PowerLoss
    \/ \E s \in Site : Flush(s)

Spec == Init /\ [][Next]_vars

(* nginx handles its signals; nothing else need ever happen.               *)
FairSpec == Spec /\ WF_vars(Nginx)

-----------------------------------------------------------------------------

(* Every variable keeps its type.                                          *)
TypeOK ==
    /\ conn \in [Conn -> Connection]
    /\ temp \in [Conn -> Content \cup {"none"}]
    /\ files \in [Site -> File] /\ disk \in [Site -> File]
    /\ renames \in [Site -> Nat] /\ deaths \in 0 .. MaxDeaths
    /\ hup \in BOOLEAN /\ master \in Master /\ loaded \in [Site -> Nat]
    /\ owed \in [Site -> Nat]

(* A reader of the managed sites, nginx -t or nginx itself, never sees a   *)
(* half-written one: not while writes of the same site overlap and fail    *)
(* half way, not when the helper dies, and not after a loss of power.      *)
NeverPartial == \A s \in Site : files[s].content # "empty"

(* A write that has been answered has left no temporary file of its own    *)
(* among the sites, whichever of its steps failed.                         *)
TempsCleaned == \A c \in Conn : conn[c].pc = "idle" => temp[c] = "none"

(* A reload that was answered with success takes effect, although several *)
(* may be one signal: nginx comes to serve each site as it was when the    *)
(* answer was given, or later, unless it refuses a site or power is lost.  *)
ReloadTakesEffect ==
    \A s \in Site, n \in 1 .. MaxWrites + Cardinality(Conn) :
        owed[s] = n ~> (loaded[s] >= n \/ owed[s] < n)

(* Sites change at once and only forward, nginx never goes back to an      *)
(* older version, and when no reload is pending it serves what the last    *)
(* one answered with success promised, unless it has refused it or power   *)
(* is lost: overlapping writes, signals that become one and commands that  *)
(* are killed included (nginx.go:54-70, writer.go:52).                     *)
Store == INSTANCE SiteStore WITH
    site <- Versions(files), served <- loaded, promised <- owed,
    pending <- hup \/ master.busy

ImplementsSiteStore == Store!Spec
=============================================================================
