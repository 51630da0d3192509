------------------------- MODULE NginxHelperProofs -------------------------
(***************************************************************************)
(* What the helper promises of the managed sites, for any number of        *)
(* connections and sites and whatever fails: a reader never sees half a    *)
(* site, and an answered write leaves no temporary file behind.            *)
(*                                                                         *)
(* What a power loss leaves of a site is as whole as it was synced, so the *)
(* invariant says of every site, seen or on disk, that it is synced; and a *)
(* site is only ever installed from a temporary file that is.              *)
(*                                                                         *)
(* That the helper implements SiteStore rests on how far each has got:     *)
(* what is loaded, or read by nginx so far, is no newer than the file and  *)
(* what is read no older than what is loaded; and a promise that no signal *)
(* is left for has been read or will be.                                   *)
(***************************************************************************)
EXTENDS NginxHelper, TLAPS

SyncedSites ==
    \A s \in Site : files[s].content = "synced" /\ disk[s].content = "synced"
RenamesSynced == \A c \in Conn : conn[c].pc = "rename" => temp[c] = "synced"
OnlyWritersHaveTemps ==
    \A c \in Conn : conn[c].pc \in {"idle", "create", "test"} => temp[c] = "none"
HelperInv == TypeOK /\ SyncedSites /\ RenamesSynced /\ OnlyWritersHaveTemps

(* A connection that is answered is idle, of its type, and no other moves. *)
LEMMA IdleType == Idle \in Connection /\ Idle.pc = "idle"
  <1>1. (CHOOSE s \in Site : TRUE) \in Site
    BY SiteAssumption
  <1> QED
    BY <1>1 DEF Idle, Connection, Pc

(* The initial values have their types.                                    *)
LEMMA Types ==
    /\ NoFile \in File /\ NoFile.content = "synced"
    /\ Resting \in Master /\ Nowhere \in [Site -> Nat]
    /\ Resting.busy = FALSE
  BY DEF NoFile, File, Content, Resting, Master, Nowhere

(* A record of a connection with another program counter.                  *)
LEMMA GotoType ==
    ASSUME NEW c \in Conn, NEW p \in Pc, conn \in [Conn -> Connection], Goto(c, p)
    PROVE  /\ conn' \in [Conn -> Connection]
           /\ conn'[c].pc = p
           /\ \A d \in Conn \ {c} : conn'[d] = conn[d]
  BY DEF Goto, Connection, Pc

(* A connection that has answered is idle again.                           *)
LEMMA AnswerType ==
    ASSUME NEW c \in Conn, conn \in [Conn -> Connection], Answer(c)
    PROVE  /\ conn' \in [Conn -> Connection]
           /\ conn'[c].pc = "idle"
           /\ \A d \in Conn \ {c} : conn'[d] = conn[d]
  BY IdleType DEF Answer

(* Sites have versions.                                                    *)
LEMMA VersionsType ==
    ASSUME NEW f \in [Site -> File] PROVE Versions(f) \in [Site -> Nat]
  BY DEF Versions, File

(* The helper begins with no request and the sites of the installation.    *)
LEMMA InitInv == Init => HelperInv
  <1> SUFFICES ASSUME Init PROVE HelperInv
    OBVIOUS
  <1>1. TypeOK
    <2>1. conn \in [Conn -> Connection] /\ temp \in [Conn -> Content \cup {"none"}]
      BY IdleType DEF Init
    <2>2. files \in [Site -> File] /\ disk \in [Site -> File]
      BY Types DEF Init
    <2>3. deaths \in 0 .. MaxDeaths
      BY BoundsAssumption DEF Init
    <2>4. /\ renames \in [Site -> Nat] /\ loaded \in [Site -> Nat]
          /\ owed \in [Site -> Nat] /\ hup \in BOOLEAN /\ master \in Master
      BY Types DEF Init
    <2> QED
      BY <2>1, <2>2, <2>3, <2>4 DEF TypeOK
  <1>2. SyncedSites
    BY Types DEF Init, SyncedSites
  <1>3. RenamesSynced /\ OnlyWritersHaveTemps
    BY IdleType DEF Init, RenamesSynced, OnlyWritersHaveTemps
  <1> QED
    BY <1>1, <1>2, <1>3 DEF HelperInv

(* The steps of one connection.                                            *)
LEMMA ConnStep ==
    ASSUME NEW c \in Conn, HelperInv,
           \/ AcceptWrite(c) \/ CreateTemp(c) \/ WriteData(c) \/ SyncTemp(c)
           \/ Rename(c) \/ RenameFails(c) \/ Cleanup(c)
           \/ AcceptReload(c) \/ TestOne(c) \/ Signal(c) \/ SignalFails(c)
    PROVE  HelperInv'
  <1> USE DEF HelperInv
  <1>0. conn \in [Conn -> Connection] /\ temp \in [Conn -> Content \cup {"none"}]
    BY DEF TypeOK
  <1>1. CASE AcceptWrite(c)
    <2>1. PICK s \in Site, good \in BOOLEAN :
              conn' = [conn EXCEPT ![c].pc = "create", ![c].site = s, ![c].good = good]
      BY <1>1 DEF AcceptWrite
    <2>2. /\ conn' \in [Conn -> Connection] /\ conn'[c].pc = "create"
          /\ \A d \in Conn \ {c} : conn'[d] = conn[d]
      <3>1. conn[c] \in Connection
        BY <1>0
      <3>2. [[[conn[c] EXCEPT !.pc = "create"] EXCEPT !.site = s]
                EXCEPT !.good = good] \in Connection
        BY <3>1 DEF Connection, Pc
      <3>3. conn' = [conn EXCEPT ![c] =
                [[[conn[c] EXCEPT !.pc = "create"] EXCEPT !.site = s]
                    EXCEPT !.good = good]]
        BY <1>0, <2>1 DEF Connection
      <3> QED
        BY <1>0, <3>1, <3>2, <3>3 DEF Connection
    <2>3. conn[c].pc = "idle" /\ UNCHANGED <<temp, siteVars, deaths, nginxVars>>
      BY <1>1 DEF AcceptWrite
    <2> QED
      BY <2>2, <2>3 DEF TypeOK, SyncedSites, RenamesSynced, OnlyWritersHaveTemps,
                        siteVars, nginxVars
  <1>2. CASE CreateTemp(c)
    <2>1. conn[c].pc = "create" /\ UNCHANGED <<siteVars, deaths, nginxVars>>
      BY <1>2 DEF CreateTemp
    <2>2. CASE temp' = [temp EXCEPT ![c] = "empty"] /\ Goto(c, "write")
      BY <1>0, <2>1, <2>2, GotoType DEF Pc, Content, TypeOK, SyncedSites, RenamesSynced,
                        OnlyWritersHaveTemps, siteVars, nginxVars
    <2>3. CASE Answer(c) /\ UNCHANGED temp
      BY <1>0, <2>1, <2>3, AnswerType DEF TypeOK, SyncedSites, RenamesSynced,
                        OnlyWritersHaveTemps, siteVars, nginxVars
    <2> QED
      BY <1>2, <2>2, <2>3 DEF CreateTemp
  <1>3. CASE WriteData(c) \/ SyncTemp(c) \/ RenameFails(c)
    <2>1. /\ UNCHANGED <<siteVars, deaths, nginxVars>>
          /\ \/ temp' = [temp EXCEPT ![c] = "whole"] /\ Goto(c, "sync")
             \/ temp' = [temp EXCEPT ![c] = "synced"] /\ Goto(c, "rename")
             \/ Goto(c, "cleanup") /\ UNCHANGED temp
      BY <1>3 DEF WriteData, SyncTemp, RenameFails
    <2>2. \E p \in {"sync", "rename", "cleanup"} : Goto(c, p)
      BY <2>1
    <2>3. /\ conn' \in [Conn -> Connection]
          /\ conn'[c].pc \in {"sync", "rename", "cleanup"}
          /\ \A d \in Conn \ {c} : conn'[d] = conn[d]
      BY <1>0, <2>2, GotoType DEF Pc
    <2>4. /\ temp' \in [Conn -> Content \cup {"none"}]
          /\ \A d \in Conn \ {c} : temp'[d] = temp[d]
      BY <1>0, <2>1 DEF Content
    <2>5. conn'[c].pc = "rename" => temp'[c] = "synced"
      BY <1>0, <2>1, GotoType DEF Pc
    <2> QED
      BY <2>1, <2>3, <2>4, <2>5 DEF TypeOK, SyncedSites, RenamesSynced,
                        OnlyWritersHaveTemps, siteVars, nginxVars
  <1>4. CASE Rename(c)
    <2>1. /\ conn[c].pc = "rename" /\ temp[c] = "synced" /\ conn[c] \in Connection
          /\ temp' = [temp EXCEPT ![c] = "none"] /\ Answer(c)
          /\ UNCHANGED <<disk, deaths, nginxVars>>
      BY <1>0, <1>4 DEF Rename, RenamesSynced
    <2>2. PICK s \in Site, good \in BOOLEAN : Install(s, good, "synced")
      BY <1>4, <2>1 DEF Rename, Connection
    <2>3. /\ renames' \in [Site -> Nat] /\ files' \in [Site -> File]
          /\ \A t \in Site : files'[t].content = "synced"
      BY <2>2 DEF Install, TypeOK, File, Content, SyncedSites
    <2> QED
      BY <1>0, <2>1, <2>3, AnswerType DEF TypeOK, SyncedSites, RenamesSynced,
                        OnlyWritersHaveTemps, nginxVars
  <1>5. CASE Cleanup(c)
    BY <1>0, <1>5, AnswerType DEF Cleanup, TypeOK, SyncedSites, RenamesSynced,
                        OnlyWritersHaveTemps, siteVars, nginxVars
  <1>6. CASE AcceptReload(c)
    <2>1. /\ conn' \in [Conn -> Connection] /\ conn'[c].pc = "test"
          /\ \A d \in Conn \ {c} : conn'[d] = conn[d]
      <3>1. conn[c] \in Connection
        BY <1>0
      <3>2. [[conn[c] EXCEPT !.pc = "test"] EXCEPT !.left = Site] \in Connection
        BY <3>1 DEF Connection, Pc
      <3>3. conn' = [conn EXCEPT ![c] =
                [[conn[c] EXCEPT !.pc = "test"] EXCEPT !.left = Site]]
        BY <1>0, <1>6 DEF AcceptReload, Connection
      <3> QED
        BY <1>0, <3>1, <3>2, <3>3 DEF Connection
    <2> QED
      BY <1>6, <2>1 DEF AcceptReload, TypeOK, SyncedSites, RenamesSynced,
                        OnlyWritersHaveTemps, siteVars, nginxVars
  <1>7. CASE TestOne(c)
    <2>1. conn[c].pc = "test" /\ UNCHANGED <<temp, siteVars, deaths, nginxVars>>
      BY <1>7 DEF TestOne
    <2>2. /\ conn' \in [Conn -> Connection] /\ conn'[c].pc \in {"test", "idle"}
          /\ \A d \in Conn \ {c} : conn'[d] = conn[d]
      <3>1. CASE Answer(c)
        BY <1>0, <3>1, AnswerType
      <3>2. CASE \E s \in Site : conn' = [conn EXCEPT ![c].left = @ \ {s}]
        BY <1>0, <2>1, <3>2 DEF Connection
      <3> QED
        BY <1>0, <1>7, <3>1, <3>2 DEF TestOne, Connection
    <2> QED
      BY <2>1, <2>2 DEF TypeOK, SyncedSites, RenamesSynced, OnlyWritersHaveTemps,
                        siteVars, nginxVars
  <1>8. CASE Signal(c) \/ SignalFails(c)
    <2>1. /\ conn[c].pc = "test" /\ Answer(c)
          /\ UNCHANGED <<temp, siteVars, deaths, master, loaded>>
          /\ hup' \in BOOLEAN
      BY <1>8 DEF Signal, SignalFails, TypeOK
    <2>2. owed' \in [Site -> Nat]
      BY <1>8, VersionsType DEF Signal, SignalFails, TypeOK
    <2> QED
      BY <1>0, <2>1, <2>2, AnswerType DEF TypeOK, SyncedSites, RenamesSynced,
                        OnlyWritersHaveTemps, siteVars
  <1> QED
    BY <1>1, <1>2, <1>3, <1>4, <1>5, <1>6, <1>7, <1>8

(* The steps of nginx change neither the sites nor the connections.        *)
LEMMA NginxStep == ASSUME HelperInv, Nginx PROVE HelperInv'
  <1> USE DEF HelperInv
  <1>1. UNCHANGED <<conn, temp, siteVars, deaths>>
    BY DEF Nginx, NginxBegin, NginxRead, NginxApply
  <1>2. hup' \in BOOLEAN
    BY DEF Nginx, NginxBegin, NginxRead, NginxApply, TypeOK
  <1>3. master' \in Master
    <2>1. CASE NginxBegin
      BY <2>1, Types DEF NginxBegin, Master
    <2>2. CASE NginxRead
      <3>1. PICK s \in master.left :
                \/ master' = [master EXCEPT !.left = @ \ {s}, !.read[s] = files[s].ver]
                \/ master' = Resting
        BY <2>2 DEF NginxRead
      <3>2. s \in Site /\ files[s].ver \in Nat
        BY DEF TypeOK, Master, File
      <3>3. [[master EXCEPT !.left = @ \ {s}] EXCEPT !.read[s] = files[s].ver]
                \in Master
        BY <3>2 DEF TypeOK, Master
      <3>4. [master EXCEPT !.left = @ \ {s}, !.read[s] = files[s].ver]
                = [[master EXCEPT !.left = @ \ {s}] EXCEPT !.read[s] = files[s].ver]
        BY DEF TypeOK, Master
      <3> QED
        BY <3>1, <3>3, <3>4, Types
    <2>3. CASE NginxApply
      BY <2>3, Types DEF NginxApply
    <2> QED
      BY <2>1, <2>2, <2>3 DEF Nginx
  <1>4. loaded' \in [Site -> Nat]
    BY DEF Nginx, NginxBegin, NginxRead, NginxApply, TypeOK, Master
  <1>5. owed' \in [Site -> Nat]
    BY Types DEF Nginx, NginxBegin, NginxRead, NginxApply, TypeOK
  <1> QED
    BY <1>1, <1>2, <1>3, <1>4, <1>5 DEF TypeOK, SyncedSites, RenamesSynced,
                                       OnlyWritersHaveTemps, siteVars

(* Stops of the helper, write-back and power losses.                       *)
LEMMA WorldStep ==
    ASSUME HelperInv, HelperDies \/ PowerLoss \/ \E s \in Site : Flush(s)
    PROVE  HelperInv'
  <1> USE DEF HelperInv
  <1>1. CASE HelperDies
    <2>1. deaths' \in 0 .. MaxDeaths
      BY <1>1, BoundsAssumption DEF HelperDies, TypeOK
    <2> QED
      BY <1>1, <2>1, IdleType DEF HelperDies, TypeOK, SyncedSites, RenamesSynced,
                        OnlyWritersHaveTemps, siteVars, nginxVars
  <1>2. CASE PowerLoss
    <2>1. deaths' \in 0 .. MaxDeaths
      BY <1>2, BoundsAssumption DEF PowerLoss, TypeOK
    <2>2. PICK kept \in SUBSET Site :
              files' = [s \in Site |->
                            AfterLoss(IF s \in kept THEN files[s] ELSE disk[s])]
      BY <1>2 DEF PowerLoss
    <2>3. files' = [s \in Site |-> IF s \in kept THEN files[s] ELSE disk[s]]
      BY <2>2 DEF AfterLoss, SyncedSites
    <2>4. /\ files' \in [Site -> File]
          /\ \A s \in Site : files'[s].content = "synced"
      BY <2>3 DEF TypeOK, SyncedSites
    <2>5. loaded' \in [Site -> Nat]
      BY <1>2, <2>4, VersionsType, Types DEF PowerLoss
    <2>6. /\ conn' = [c \in Conn |-> Idle] /\ temp' = [c \in Conn |-> "none"]
          /\ disk' = files' /\ hup' = FALSE /\ master' = Resting
          /\ owed' = Nowhere /\ UNCHANGED renames
      BY <1>2 DEF PowerLoss
    <2> QED
      BY <2>1, <2>4, <2>5, <2>6, IdleType, Types
      DEF TypeOK, SyncedSites, RenamesSynced, OnlyWritersHaveTemps
  <1>3. CASE \E s \in Site : Flush(s)
    <2>1. PICK s \in Site : disk' = [disk EXCEPT ![s] = files[s]]
      BY <1>3 DEF Flush
    <2>2. UNCHANGED <<conn, temp, files, renames, deaths, nginxVars>>
      BY <1>3 DEF Flush
    <2> QED
      BY <2>1, <2>2 DEF TypeOK, SyncedSites, RenamesSynced, OnlyWritersHaveTemps,
                        nginxVars
  <1> QED
    BY <1>1, <1>2, <1>3

(* A step that changes nothing.                                            *)
LEMMA StutterStep == ASSUME HelperInv, UNCHANGED vars PROVE HelperInv'
  BY DEF HelperInv, TypeOK, SyncedSites, RenamesSynced, OnlyWritersHaveTemps,
         vars, siteVars, nginxVars

(* The invariant holds throughout.                                         *)
THEOREM HelperInvariant == Spec => []HelperInv
  <1>1. HelperInv /\ [Next]_vars => HelperInv'
    BY ConnStep, NginxStep, WorldStep, StutterStep DEF Next
  <1> QED
    BY InitInv, <1>1, PTL DEF Spec

(* Every variable keeps its type.                                          *)
THEOREM TypeCorrect == Spec => []TypeOK
  BY HelperInvariant, PTL DEF HelperInv

(* No reader ever sees half a site, also after a loss of power.            *)
THEOREM AlwaysWhole == Spec => []NeverPartial
  <1>1. HelperInv => NeverPartial
    BY DEF HelperInv, SyncedSites, NeverPartial
  <1> QED
    BY <1>1, HelperInvariant, PTL

(* An answered write leaves no temporary file.                             *)
THEOREM AlwaysCleaned == Spec => []TempsCleaned
  <1>1. HelperInv => TempsCleaned
    BY DEF HelperInv, OnlyWritersHaveTemps, TempsCleaned
  <1> QED
    BY <1>1, HelperInvariant, PTL

-----------------------------------------------------------------------------
(* Versions *)

(* Nothing that was written out, loaded or promised is newer than the file *)
(* that readers find.                                                      *)
OnlyForward ==
    \A s \in Site : /\ disk[s].ver <= files[s].ver /\ files[s].ver <= renames[s]
                    /\ loaded[s] <= files[s].ver /\ owed[s] <= files[s].ver

(* What nginx has read of a site in this reload is not older than what it  *)
(* serves.                                                                 *)
ReadsForward ==
    /\ ~master.busy => master.left = {}
    /\ master.busy => \A s \in Site \ master.left :
           loaded[s] <= master.read[s] /\ master.read[s] <= files[s].ver

(* With no signal waiting, a promise is already served, or has been read.  *)
PromisesKept ==
    ~hup => \A s \in Site :
        /\ ~master.busy => owed[s] <= loaded[s]
        /\ master.busy /\ s \notin master.left => owed[s] <= master.read[s]

VersionInv == OnlyForward /\ ReadsForward /\ PromisesKept

versionVars == <<files, disk, renames, nginxVars>>

(* The variables that versions depend on, typed.                           *)
VersionType ==
    /\ files \in [Site -> File] /\ disk \in [Site -> File]
    /\ renames \in [Site -> Nat] /\ loaded \in [Site -> Nat] /\ owed \in [Site -> Nat]
    /\ hup \in BOOLEAN /\ master \in Master

(* The types are part of the invariant.                                    *)
LEMMA VersionTypes == HelperInv => VersionType
  BY DEF HelperInv, TypeOK, VersionType

(* The version of a site is the one of its file.                           *)
LEMMA VersionsOf ==
    ASSUME NEW f \in [Site -> File], NEW s \in Site
    PROVE  Versions(f)[s] = f[s].ver /\ f[s].ver \in Nat
  BY DEF Versions, File

(* What a step does to the versions.                                       *)
LEMMA VersionCases ==
    ASSUME [Next]_vars
    PROVE  \/ UNCHANGED versionVars
           \/ \E c \in Conn : Rename(c) \/ Signal(c) \/ SignalFails(c)
           \/ Nginx \/ PowerLoss \/ \E s \in Site : Flush(s)
  <1>1. ASSUME NEW c \in Conn,
               \/ AcceptWrite(c) \/ CreateTemp(c) \/ WriteData(c) \/ SyncTemp(c)
               \/ RenameFails(c) \/ Cleanup(c) \/ AcceptReload(c) \/ TestOne(c)
        PROVE  UNCHANGED versionVars
    BY <1>1 DEF AcceptWrite, CreateTemp, WriteData, SyncTemp, RenameFails, Cleanup,
                AcceptReload, TestOne, siteVars, versionVars
  <1>2. HelperDies => UNCHANGED versionVars
    BY DEF HelperDies, siteVars, versionVars
  <1>3. UNCHANGED vars => UNCHANGED versionVars
    BY DEF vars, siteVars, versionVars
  <1> QED
    BY <1>1, <1>2, <1>3 DEF Next

(* A rename takes one site forward and leaves what nginx has.              *)
LEMMA RenameVersions ==
    ASSUME VersionType, VersionInv, NEW c \in Conn, conn[c].site \in Site, Rename(c)
    PROVE  VersionInv' /\ Store!Write(conn[c].site)
  <1>1. PICK s \in Site : s = conn[c].site
    OBVIOUS
  <1>2. /\ renames' = [renames EXCEPT ![s] = @ + 1]
        /\ files' = [files EXCEPT ![s] = [ver |-> renames[s] + 1, good |-> conn[c].good,
                                          content |-> temp[c]]]
        /\ UNCHANGED <<disk, nginxVars>>
    BY <1>1 DEF Rename, Install
  <1>3. /\ renames'[s] = renames[s] + 1 /\ files'[s].ver = renames[s] + 1
        /\ \A t \in Site \ {s} : renames'[t] = renames[t] /\ files'[t] = files[t]
    BY <1>2 DEF VersionType
  <1>4. \A t \in Site : files[t].ver \in Nat /\ renames[t] \in Nat /\ disk[t].ver \in Nat
    BY DEF VersionType, File
  <1>5. \A t \in Site : files[t].ver <= files'[t].ver /\ files'[t].ver \in Nat
    BY <1>3, <1>4 DEF VersionInv, OnlyForward
  <1>6. OnlyForward'
    BY <1>2, <1>3, <1>4, <1>5 DEF VersionInv, OnlyForward, VersionType, nginxVars
  <1>7. ReadsForward' /\ PromisesKept'
    BY <1>2, <1>4, <1>5 DEF VersionInv, ReadsForward, PromisesKept, VersionType, Master, nginxVars
  <1>8. Store!Write(s)
    <2>1. Versions(files') = [Versions(files) EXCEPT ![s] = files'[s].ver]
      BY <1>3 DEF Versions
    <2>2. Versions(files')[s] = files'[s].ver /\ Versions(files)[s] = files[s].ver
      BY DEF Versions
    <2>3. files'[s].ver > files[s].ver
      BY <1>3, <1>4 DEF VersionInv, OnlyForward
    <2> QED
      BY <1>2, <2>1, <2>2, <2>3 DEF Store!Write, nginxVars
  <1> QED
    BY <1>1, <1>6, <1>7, <1>8 DEF VersionInv

(* The answer to a reload, and a reload that fails.                        *)
LEMMA SignalVersions ==
    ASSUME VersionType, VersionInv, NEW c \in Conn, Signal(c) \/ SignalFails(c)
    PROVE  VersionInv' /\ (Store!Promise \/ Store!Ask \/ UNCHANGED Store!vars)
  <1>1. UNCHANGED <<files, disk, renames, master, loaded>>
    BY DEF Signal, SignalFails, siteVars
  <1>2. CASE Signal(c)
    <2>1. hup' = TRUE /\ owed' = Versions(files)
      BY <1>2 DEF Signal
    <2>2. \A s \in Site : owed'[s] = files[s].ver /\ files[s].ver \in Nat
      BY <2>1, VersionsOf DEF VersionType
    <2>3. VersionInv'
      BY <1>1, <2>1, <2>2 DEF VersionInv, OnlyForward, ReadsForward, PromisesKept
    <2> QED
      BY <1>1, <2>1, <2>3 DEF Store!Promise
  <1>3. CASE SignalFails(c)
    <2>1. (hup' = TRUE \/ hup' = hup) /\ owed' = owed
      BY <1>3 DEF SignalFails
    <2>2. VersionInv'
      BY <1>1, <2>1 DEF VersionInv, OnlyForward, ReadsForward, PromisesKept
    <2> QED
      BY <1>1, <2>1, <2>2 DEF Store!Ask, Store!vars
  <1> QED
    BY <1>2, <1>3

(* nginx begins a reload, reads a site, refuses one, or takes what it read.*)
LEMMA NginxVersions ==
    ASSUME VersionType, VersionInv, Nginx
    PROVE  VersionInv' /\ (Store!Serve \/ Store!Refuse \/ UNCHANGED Store!vars)
  <1>1. UNCHANGED <<files, disk, renames>>
    BY DEF Nginx, NginxBegin, NginxRead, NginxApply, siteVars
  <1>2. \A s \in Site : /\ files[s].ver \in Nat /\ loaded[s] \in Nat /\ owed[s] \in Nat
                        /\ master.read[s] \in Nat
    BY DEF VersionType, File, Master
  <1>3. CASE NginxBegin
    <2>1. /\ hup /\ ~master.busy /\ hup' = FALSE /\ UNCHANGED <<loaded, owed>>
          /\ master' = [busy |-> TRUE, left |-> Site, read |-> Nowhere]
      BY <1>3 DEF NginxBegin
    <2>2. master'.busy = TRUE /\ master'.left = Site
      BY <2>1
    <2>3. VersionInv'
      BY <1>1, <2>1, <2>2 DEF VersionInv, OnlyForward, ReadsForward, PromisesKept
    <2>4. (hup' \/ master'.busy) = (hup \/ master.busy)
      BY <2>1, <2>2
    <2> QED
      BY <1>1, <2>1, <2>3, <2>4 DEF Store!vars
  <1>4. ASSUME NEW s \in master.left, Readable(files, s), UNCHANGED <<owed, hup, loaded>>,
               master' = [master EXCEPT !.left = @ \ {s}, !.read[s] = files[s].ver]
        PROVE  VersionInv' /\ UNCHANGED Store!vars
    <2>1. s \in Site /\ master \in Master
      BY DEF VersionType, Master
    <2>2. master' = [[master EXCEPT !.left = @ \ {s}] EXCEPT !.read[s] = files[s].ver]
      BY <1>4, <2>1 DEF Master
    <2>3. /\ master'.busy = master.busy /\ master'.left = master.left \ {s}
          /\ master'.read[s] = files[s].ver
          /\ \A t \in Site \ {s} : master'.read[t] = master.read[t]
      BY <2>1, <2>2 DEF Master
    <2>4. master.busy
      BY DEF VersionInv, ReadsForward
    <2>5. OnlyForward'
      BY <1>1, <1>4 DEF VersionInv, OnlyForward
    <2>6. ReadsForward' /\ PromisesKept'
      BY <1>1, <1>2, <1>4, <2>1, <2>3, <2>4
      DEF VersionInv, OnlyForward, ReadsForward, PromisesKept
    <2> QED
      BY <1>1, <1>4, <2>3, <2>5, <2>6 DEF VersionInv, Store!vars
  <1>5. ASSUME NEW s \in master.left, UNCHANGED <<hup, loaded>>,
               master' = Resting, owed' = IF hup THEN owed ELSE Nowhere
        PROVE  VersionInv' /\ Store!Refuse
    <2>1. master'.busy = FALSE /\ master'.left = {}
      BY <1>5 DEF Resting
    <2>2. master.busy
      BY DEF VersionInv, ReadsForward
    <2>3. ~hup => \A t \in Site : owed'[t] = 0
      BY <1>5 DEF Nowhere
    <2>4. OnlyForward'
      BY <1>1, <1>2, <1>5, <2>3 DEF VersionInv, OnlyForward
    <2>5. ReadsForward' /\ PromisesKept'
      BY <1>1, <1>2, <1>5, <2>1, <2>3 DEF ReadsForward, PromisesKept
    <2>6. Store!Refuse
      BY <1>1, <1>5, <2>1, <2>2 DEF Store!Refuse, Store!Nothing, Nowhere
    <2> QED
      BY <2>4, <2>5, <2>6 DEF VersionInv
  <1>6. CASE NginxApply
    <2>1. /\ master.busy /\ master.left = {} /\ loaded' = master.read /\ master' = Resting
          /\ UNCHANGED <<hup, owed>>
      BY <1>6 DEF NginxApply
    <2>2. master'.busy = FALSE /\ master'.left = {}
      BY <2>1 DEF Resting
    <2>3. \A s \in Site : /\ loaded[s] <= loaded'[s] /\ loaded'[s] <= files[s].ver
                          /\ ~hup => owed[s] <= loaded'[s]
      BY <2>1 DEF VersionInv, ReadsForward, PromisesKept
    <2>4. VersionInv'
      BY <1>1, <1>2, <2>1, <2>2, <2>3 DEF VersionInv, OnlyForward, ReadsForward, PromisesKept
    <2>5. Store!NoOlder(loaded', loaded) /\ Store!NoOlder(Versions(files), loaded')
      BY <1>2, <2>1, <2>3, VersionsOf DEF Store!NoOlder, VersionType
    <2>6. ~hup => Store!NoOlder(loaded', owed)
      BY <1>2, <2>1, <2>3 DEF Store!NoOlder
    <2>7. Store!Serve
      BY <1>1, <2>1, <2>2, <2>5, <2>6 DEF Store!Serve
    <2> QED
      BY <2>4, <2>7
  <1> QED
    BY <1>3, <1>4, <1>5, <1>6 DEF Nginx, NginxRead

(* A loss of power takes sites back, and nginx with them.                  *)
LEMMA LossVersions ==
    ASSUME VersionType, VersionInv, PowerLoss
    PROVE  VersionInv' /\ Store!PowerLoss
  <1>1. PICK kept \in SUBSET Site :
            files' = [s \in Site |-> AfterLoss(IF s \in kept THEN files[s] ELSE disk[s])]
    BY DEF PowerLoss
  <1>2. \A s \in Site : files'[s].ver = files[s].ver \/ files'[s].ver = disk[s].ver
    BY <1>1 DEF AfterLoss, VersionType, File
  <1>3. \A s \in Site : /\ files[s].ver \in Nat /\ disk[s].ver \in Nat
                        /\ files'[s].ver <= files[s].ver
                        /\ files'[s].ver <= renames[s] /\ files'[s].ver \in Nat
    BY <1>2 DEF VersionInv, OnlyForward, VersionType, File
  <1>4. /\ disk' = files' /\ hup' = FALSE /\ master' = Resting /\ owed' = Nowhere
        /\ UNCHANGED renames /\ loaded' \in {Versions(files'), Nowhere}
    BY DEF PowerLoss
  <1>5. master'.busy = FALSE /\ master'.left = {} /\ \A s \in Site : owed'[s] = 0
    BY <1>4 DEF Resting, Nowhere
  <1>6. \A s \in Site : loaded'[s] \in {files'[s].ver, 0}
    BY <1>4 DEF Versions, Nowhere
  <1>7. VersionInv'
    BY <1>3, <1>4, <1>5, <1>6 DEF VersionInv, OnlyForward, ReadsForward, PromisesKept
  <1>8. Store!NoOlder(Versions(files), Versions(files'))
    BY <1>3 DEF Store!NoOlder, Versions
  <1>9. Store!PowerLoss
    BY <1>4, <1>5, <1>8 DEF Store!PowerLoss, Store!Nothing, Nowhere
  <1> QED
    BY <1>7, <1>9

(* Every step, together.                                                   *)
LEMMA StoreStep ==
    ASSUME HelperInv, VersionInv, [Next]_vars
    PROVE  VersionInv' /\ [Store!Next]_(Store!vars)
  <1>1. VersionType
    BY VersionTypes
  <1>2. CASE UNCHANGED versionVars
    <2>1. UNCHANGED <<files, disk, renames, hup, master, loaded, owed>>
      BY <1>2 DEF versionVars, nginxVars
    <2> QED
      BY <2>1 DEF VersionInv, OnlyForward, ReadsForward, PromisesKept, Store!vars
  <1>3. ASSUME NEW c \in Conn, Rename(c) PROVE VersionInv' /\ Store!Next
    <2>1. conn[c].site \in Site
      BY DEF HelperInv, TypeOK, Connection
    <2> QED
      BY <1>1, <1>3, <2>1, RenameVersions DEF Store!Next
  <1>4. ASSUME NEW s \in Site, Flush(s) PROVE VersionInv' /\ UNCHANGED Store!vars
    <2>1. disk' = [disk EXCEPT ![s] = files[s]] /\ UNCHANGED <<files, renames, nginxVars>>
      BY <1>4 DEF Flush
    <2>2. \A t \in Site : disk'[t].ver <= files[t].ver
      BY <1>1, <2>1 DEF VersionInv, OnlyForward, VersionType, File
    <2> QED
      BY <2>1, <2>2 DEF VersionInv, OnlyForward, ReadsForward, PromisesKept, Store!vars, nginxVars
  <1>5. ASSUME NEW c \in Conn, Signal(c) \/ SignalFails(c)
        PROVE  VersionInv' /\ [Store!Next]_(Store!vars)
    BY <1>1, <1>5, SignalVersions DEF Store!Next
  <1>6. CASE Nginx
    BY <1>1, <1>6, NginxVersions DEF Store!Next
  <1>7. CASE PowerLoss
    BY <1>1, <1>7, LossVersions DEF Store!Next
  <1> QED
    BY <1>2, <1>3, <1>4, <1>5, <1>6, <1>7, VersionCases

(* Whatever overlaps and fails, a reader of the sites and a client of      *)
(* nginx see what SiteStore allows.                                        *)
THEOREM HelperImplementsSiteStore == Spec => ImplementsSiteStore
  <1>1. Init => VersionInv /\ Store!Init
    <2> SUFFICES ASSUME Init PROVE VersionInv /\ Store!Init
      OBVIOUS
    <2>1. \A s \in Site : /\ files[s].ver = 0 /\ disk[s].ver = 0 /\ renames[s] = 0
                          /\ loaded[s] = 0 /\ owed[s] = 0
      BY DEF Init, NoFile, Nowhere
    <2>2. hup = FALSE /\ master.busy = FALSE /\ master.left = {}
      BY DEF Init, Resting
    <2>3. Versions(files) = Nowhere
      BY <2>1 DEF Versions, Nowhere
    <2> QED
      BY <2>1, <2>2, <2>3 DEF VersionInv, OnlyForward, ReadsForward, PromisesKept, Init,
                              Store!Init, Store!Nothing, Nowhere
  <1>2. HelperInv /\ VersionInv /\ [Next]_vars => VersionInv' /\ [Store!Next]_(Store!vars)
    BY StoreStep
  <1> QED
    BY <1>1, <1>2, HelperInvariant, PTL DEF Spec, ImplementsSiteStore, Store!Spec
=============================================================================
