-------------------------- MODULE OperatorProofs --------------------------
(***************************************************************************)
(* Proofs about Operator: the master key opens what the database holds,    *)
(* the passwords agree, and an install or a restore that ends with success *)
(* has done what it says.                                                  *)
(***************************************************************************)
EXTENDS Operator, TLAPS

(* The key and the passwords as the host's files have them.                *)
HasKey(k) == host["key"].st = "whole" /\ host["key"].key = k
Filed(n) == archive.files[n].st = "whole"

(* Which commands go through which steps.                                  *)
StepsOfCommands ==
    /\ op.pc \in {"unpack", "pgup", "psql"} => op.cmd = "restore"
    /\ op.pc \in {"down", "rmopt", "rmetc"} => op.cmd = "uninstall"
    /\ op.pc \in {"key", "env", "compose"} => op.cmd = "install"
    /\ op.pc = "patch" => op.cmd = "update"
    /\ op.pc = "up" => op.cmd \in {"install", "update", "restore"}
    /\ op.pc \in {"pull", "migrate", "version"} => op.cmd \in {"install", "update"}
    /\ op.cmd = "install" => op.want # 0
    /\ bak # 0 => ~Exclusive

(* Nothing runs on a volume that is not there, and an uninstall that has   *)
(* not parted anything removes files only when there is none.              *)
NothingWithoutVolume ==
    /\ ~db.there => ~pg /\ app = NoApp /\ db = NoDatabase
    /\ op.pc \in {"rmopt", "rmetc"} /\ ~parted => ~db.there
    /\ op.pc = "rmetc" => host["compose"].st = "none"
    /\ op.pc = "psql" => db.there

(* The process of pm-api has the key it would read again.                  *)
AppHasKey == ~parted /\ app.key # 0 => app.key = KeyRead

(* With a database, its secrets are on the host; without one, those of the *)
(* next database are there before the compose file that makes it.          *)
SecretsTogether ==
    ~parted =>
        /\ db.there => /\ host["key"].st # "none" /\ host["env"].st # "none"
                       /\ host["compose"].st # "none"
        /\ \A r \in db.rows : HasKey(r.key)
        /\ db.there /\ host["env"].st = "whole" => host["env"].pass = db.pass
        /\ db.there /\ host["compose"].st = "whole" => host["compose"].pass = db.pass
        /\ host["compose"].st = "whole" /\ op.pc # "unpack" =>
              /\ host["key"].st # "none" /\ host["env"].st # "none"
              /\ host["env"].st = "whole" => host["env"].pass = host["compose"].pass
        /\ op.pc \in {"env", "compose"} => host["key"].st # "none"
        /\ op.pc = "compose" => host["env"].st # "none"

(* What has been archived goes together.                                   *)
ArchiveTogether ==
    ~parted =>
        /\ Filed("key") => \A r \in archive.rows : r.key = archive.files["key"].key
        /\ Filed("env") /\ Filed("compose") =>
              archive.files["env"].pass = archive.files["compose"].pass
        /\ bak # 0 =>
              /\ db.there /\ \A r \in archive.rows : HasKey(r.key)
              /\ Filed("env") => archive.files["env"].pass = db.pass
              /\ Filed("compose") => archive.files["compose"].pass = db.pass

(* What a restore has unpacked so far.                                     *)
Unpacked ==
    op.pc = "unpack" /\ ~parted =>
        /\ Filed("key") /\ Filed("compose") /\ Filed("env")
        /\ db.there =>
              /\ archive.files["key"].key = host["key"].key
              /\ archive.files["compose"].pass = db.pass
              /\ archive.files["env"].pass = db.pass
        /\ op.i > 1 => HasKey(archive.files["key"].key)
        /\ op.i > 2 => /\ host["compose"].st = "whole"
                       /\ host["compose"].pass = archive.files["compose"].pass
        /\ op.i > 3 => /\ host["env"].st = "whole"
                       /\ host["env"].pass = archive.files["env"].pass

(* The key of the rows that psql adds is on the host.                      *)
RestoredKey ==
    op.pc \in {"pgup", "psql"} /\ ~parted =>
        Filed("key") /\ HasKey(archive.files["key"].key)

(* A restore that was not forced found no database, and what it loads is   *)
(* the archive.                                                            *)
RestoredData ==
    op.cmd = "restore" /\ ~op.flag /\ ~parted =>
        /\ op.pc \in {"unpack", "pgup"} => ~db.there
        /\ op.pc = "psql" => app = NoApp /\ Empty
        /\ op.pc \in {"up", "ok"} =>
              archive.rows \subseteq db.rows /\ archive.schema = db.schema

(* An install keeps to the release it was asked for.                       *)
InstallKeepsTo ==
    op.cmd = "install" =>
        /\ op.pc = "compose" /\ host["env"].st = "whole" => host["env"].ver = op.want
        /\ op.pc \in {"pull", "up"} /\ Composed => host["compose"].ver = op.want
        /\ op.pc \in {"migrate", "version", "ok"} => app.ver = op.want
        /\ op.pc \in {"version", "ok"} =>
              /\ app.pass = db.pass /\ op.want <= db.schema
              /\ ~parted => app.key # 0
        /\ op.pc = "ok" => host["version"].ver = op.want

OperatorInv ==
    /\ TypeOK /\ StepsOfCommands /\ NothingWithoutVolume /\ AppHasKey
    /\ SecretsTogether /\ ArchiveTogether /\ Unpacked /\ RestoredKey
    /\ RestoredData /\ InstallKeepsTo
-----------------------------------------------------------------------------
(* What the pieces of the actions do, field by field.                      *)

(* The bounds are numbers.                                                 *)
LEMMA Bounds ==
    /\ MaxVersion \in Nat /\ MaxCommands \in Nat /\ MaxBackups \in Nat
    /\ MaxFaults \in Nat /\ MaxRows \in Nat
  BY BoundsAssumption

(* The command goes on to p.                                               *)
OpAt(p) ==
    /\ op' \in Command /\ op'.pc = p /\ op'.cmd = op.cmd /\ op'.want = op.want
    /\ op'.flag = op.flag /\ op'.i = op.i

(* Goto changes the step and nothing else of the command.                  *)
LEMMA GotoEffect == ASSUME TypeOK, NEW p \in Pc, Goto(p) PROVE OpAt(p)
  BY DEF TypeOK, Goto, OpAt, Command

(* A command starts where none runs.                                       *)
LEMMA StartEffect ==
    ASSUME TypeOK, NEW cmd \in {"install", "update", "restore", "uninstall"},
           NEW pc \in Pc, NEW want \in 0 .. MaxVersion, NEW flag \in BOOLEAN,
           Start(cmd, pc, want, flag)
    PROVE  /\ op.pc \in Ended /\ counts' \in Counts /\ op' \in Command
           /\ op'.cmd = cmd /\ op'.pc = pc /\ op'.want = want /\ op'.flag = flag
           /\ op'.i = 1
  <1>1. op.pc \in Ended /\ counts' \in Counts
    <2>1. /\ op.pc \in Ended /\ counts.commands < MaxCommands
          /\ counts' = [counts EXCEPT !.commands = @ + 1]
      BY DEF Start
    <2>2. counts \in Counts /\ counts.commands + 1 \in 0 .. MaxCommands
      BY <2>1, Bounds DEF TypeOK, Counts
    <2> QED
      BY <2>1, <2>2 DEF Counts
  <1>2. op' = [cmd |-> cmd, pc |-> pc, want |-> want, flag |-> flag, i |-> 1]
    BY DEF Start
  <1>3. 1 \in 1 .. Len(Order)
    BY DEF Order
  <1> QED
    BY <1>1, <1>2, <1>3 DEF Command

(* Faults stay within their bound.                                         *)
LEMMA FaultEffect == ASSUME TypeOK, Fault PROVE counts' \in Counts
  BY Bounds, SMTT(30) DEF TypeOK, Fault, Counts

(* One file of the host is replaced.                                       *)
HostBut(n, f) ==
    /\ host' \in [FileName -> File] /\ host'[n] = f
    /\ \A m \in FileName \ {n} : host'[m] = host[m]

(* Replacing a file leaves the others alone.                               *)
LEMMA HostEffect ==
    ASSUME TypeOK, NEW n \in FileName, NEW f \in File, host' = [host EXCEPT ![n] = f]
    PROVE  HostBut(n, f)
  BY DEF TypeOK, HostBut

(* The empty values have their types.                                      *)
LEMMA NoTypes ==
    /\ NoFile \in File /\ NoFile.st = "none" /\ NoFiles \in [FileName -> File]
    /\ NoDatabase \in Database /\ NoDatabase.rows = {} /\ ~NoDatabase.there
    /\ NoDatabase.schema = 0 /\ ~NoDatabase.broken
    /\ NoApp \in App /\ NoApp.key = 0 /\ NoApp.ver = 0
    /\ NoArchive \in Archive
  BY DEF NoFile, File, NoFiles, NoDatabase, Database, NoApp, App, NoArchive, Archive

(* A new key is a whole file.                                              *)
LEMMA NewKeyFile ==
    ASSUME fresh \in Nat, NEW own \in {"root", "projectmng"}
    PROVE  NewKey(own) \in File /\ NewKey(own).st = "whole"
  BY DEF NewKey, File

(* A new .env is a whole file of the release asked for.                    *)
LEMMA NewEnvFile ==
    ASSUME fresh \in Nat, op \in Command
    PROVE  NewEnv \in File /\ NewEnv.st = "whole" /\ NewEnv.ver = op.want
  <1>1. op.want \in Nat
    BY Bounds DEF Command
  <1> QED
    BY <1>1 DEF NewEnv, File

(* Pinning the version leaves the password alone.                          *)
LEMMA PinnedFile ==
    ASSUME NEW f \in File, op \in Command
    PROVE  /\ Pinned(f) \in File /\ Pinned(f).st = f.st /\ Pinned(f).pass = f.pass
           /\ f.st = "whole" => Pinned(f).ver = op.want
  BY Bounds DEF Pinned, File, Command

(* A torn file is a file.                                                  *)
LEMMA TornFile ==
    ASSUME NEW f \in File PROVE Torn(f) \in File /\ Torn(f).st = "torn"
  BY DEF Torn, NoFile, File

(* Writing a file again keeps its content and its owner.                   *)
LEMMA WrittenFile ==
    ASSUME TypeOK, NEW n \in FileName, NEW f \in File
    PROVE  /\ Written(n, f) \in File /\ Written(n, f).st = f.st
           /\ Written(n, f).key = f.key /\ Written(n, f).pass = f.pass
           /\ Written(n, f).ver = f.ver
           /\ host[n].st # "none" => Written(n, f).own = host[n].own
  BY DEF TypeOK, Written, File

(* postgres runs, on the volume there is or on a new one.                  *)
LEMMA StartPostgresEffect ==
    ASSUME TypeOK, StartPostgres
    PROVE  /\ pg' = TRUE /\ db' \in Database /\ db'.there
           /\ db.there => db' = db
           /\ ~db.there => /\ db'.pass = host["compose"].pass /\ db'.rows = {}
                           /\ db'.schema = 0 /\ ~db'.broken
  <1>1. host["compose"] \in File
    BY DEF TypeOK, FileName
  <1> QED
    BY <1>1, NoTypes DEF TypeOK, StartPostgres, Database, File

(* What pm-api reads, if anything, is the whole key of the host.           *)
LEMMA KeyReadType ==
    ASSUME TypeOK
    PROVE  /\ KeyRead \in Nat
           /\ KeyRead # 0 => /\ host["key"].st = "whole" /\ host["key"].own = "projectmng"
                             /\ host["key"].key = KeyRead
  BY DEF TypeOK, KeyRead, FileName, File

(* pm-api is kept, or made of the compose file and the key read then.      *)
LEMMA StartAppEffect ==
    ASSUME TypeOK, StartApp
    PROVE  /\ app' \in App
           /\ app'.ver = host["compose"].ver /\ app'.pass = host["compose"].pass
           /\ app'.key = KeyRead \/ (app.key # 0 /\ app' = app)
  <1>1. host["compose"] \in File /\ KeyRead \in Nat
    BY KeyReadType DEF TypeOK, FileName
  <1> QED
    BY <1>1 DEF TypeOK, StartApp, App, File

(* StartInstall keeps the invariant.                                       *)
LEMMA StartInstallInv == ASSUME OperatorInv, StartInstall PROVE OperatorInv'
  <1>0. TypeOK
    BY DEF OperatorInv
  <1>e1. /\ op.pc \in Ended /\ counts' \in Counts /\ op' \in Command
         /\ op'.cmd = "install" /\ op'.pc = "key" /\ op'.want # 0
    <2>1. PICK v \in Version : Start("install", "key", v, FALSE)
      BY DEF StartInstall
    <2>2. v \in 0 .. MaxVersion /\ v # 0 /\ "key" \in Pc
      BY Bounds DEF Version, Pc
    <2> QED
      BY <1>0, <2>1, <2>2, StartEffect
  <1>e2. UNCHANGED <<host, db, pg, app, archive, bak, fresh, parted>>
    BY DEF StartInstall
  <1>1. TypeOK'
    BY <1>0, <1>e1, <1>e2 DEF TypeOK
  <1>2. StepsOfCommands' /\ NothingWithoutVolume' /\ AppHasKey'
    BY <1>e1, <1>e2 DEF OperatorInv, StepsOfCommands, Exclusive, NothingWithoutVolume,
       AppHasKey, KeyRead
  <1>3. SecretsTogether' /\ ArchiveTogether'
    BY <1>e1, <1>e2 DEF OperatorInv, SecretsTogether, HasKey, Ended, Composed,
       ArchiveTogether, Filed
  <1>4. Unpacked' /\ RestoredKey' /\ RestoredData' /\ InstallKeepsTo'
    BY <1>e1 DEF OperatorInv, Unpacked, RestoredKey, RestoredData, InstallKeepsTo
  <1> QED
    BY <1>1, <1>2, <1>3, <1>4 DEF OperatorInv

(* GenerateKey keeps the invariant.                                        *)
LEMMA GenerateKeyInv == ASSUME OperatorInv, GenerateKey PROVE OperatorInv'
  <1>0. TypeOK
    BY DEF OperatorInv
  <1>e1. op.pc = "key" /\ OpAt("env")
    BY <1>0, GotoEffect DEF GenerateKey, Pc
  <1>e2. \/ /\ host["key"].st = "none" /\ HostBut("key", NewKey("projectmng"))
            /\ NewKey("projectmng").st = "whole" /\ fresh' \in Nat
         \/ host["key"].st # "none" /\ UNCHANGED <<host, fresh>>
    BY <1>0, NewKeyFile, HostEffect DEF GenerateKey, FileName, TypeOK
  <1>e3. UNCHANGED <<db, pg, app, archive, bak, counts, parted>>
    BY DEF GenerateKey
  <1>1. TypeOK'
    BY <1>0, <1>e1, <1>e2, <1>e3 DEF TypeOK, OpAt, HostBut
  <1>2. StepsOfCommands' /\ NothingWithoutVolume'
    BY <1>e1, <1>e3 DEF OperatorInv, StepsOfCommands, Exclusive, OpAt, NothingWithoutVolume
  <1>3. AppHasKey'
    BY <1>e2, <1>e3 DEF OperatorInv, AppHasKey, KeyRead
  <1>4. SecretsTogether'
    BY <1>e1, <1>e2, <1>e3 DEF OperatorInv, SecretsTogether, HasKey, FileName,
       Composed, OpAt, HostBut
  <1>5. ArchiveTogether'
    BY <1>e2, <1>e3 DEF OperatorInv, ArchiveTogether, HasKey, Filed
  <1>6. Unpacked' /\ RestoredKey' /\ RestoredData' /\ InstallKeepsTo'
    BY <1>e1 DEF OperatorInv, Unpacked, OpAt, RestoredKey, RestoredData, InstallKeepsTo
  <1> QED
    BY <1>1, <1>2, <1>3, <1>4, <1>5, <1>6 DEF OperatorInv

(* WriteEnv keeps the invariant.                                           *)
LEMMA WriteEnvInv == ASSUME OperatorInv, WriteEnv PROVE OperatorInv'
  <1>0. TypeOK
    BY DEF OperatorInv
  <1>e1. op.pc = "env" /\ OpAt("compose")
    BY <1>0, GotoEffect DEF WriteEnv, Pc
  <1>e2. host["env"] \in File /\ op \in Command /\ fresh \in Nat
    BY <1>0 DEF TypeOK, FileName
  <1>e3. \/ /\ host["env"].st = "none" /\ fresh' \in Nat /\ HostBut("env", NewEnv)
            /\ NewEnv.st = "whole" /\ NewEnv.ver = op.want
         \/ /\ host["env"].st # "none" /\ fresh' = fresh /\ HostBut("env", Pinned(host["env"]))
    BY <1>0, <1>e2, NewEnvFile, PinnedFile, HostEffect DEF WriteEnv, FileName
  <1>e4. /\ host'["env"].st # "none"
         /\ host'["env"].st = "whole" => host'["env"].ver = op.want
         /\ host["env"].st # "none" =>
               host'["env"].st = host["env"].st /\ host'["env"].pass = host["env"].pass
         /\ \A n \in FileName \ {"env"} : host'[n] = host[n]
    BY <1>e2, <1>e3, PinnedFile DEF HostBut
  <1>e5. UNCHANGED <<db, pg, app, archive, bak, counts, parted>>
    BY DEF WriteEnv
  <1>1. TypeOK'
    BY <1>0, <1>e1, <1>e2, <1>e3, <1>e4, <1>e5 DEF TypeOK, OpAt, HostBut
  <1>2. StepsOfCommands' /\ NothingWithoutVolume'
    BY <1>e1, <1>e5 DEF OperatorInv, StepsOfCommands, Exclusive, OpAt, NothingWithoutVolume
  <1>3. AppHasKey'
    BY <1>e4, <1>e5 DEF OperatorInv, AppHasKey, KeyRead, FileName
  <1>4. SecretsTogether'
    BY <1>e1, <1>e4, <1>e5 DEF OperatorInv, SecretsTogether, HasKey, FileName, Composed
  <1>5. ArchiveTogether'
    BY <1>e4, <1>e5 DEF OperatorInv, ArchiveTogether, HasKey, Filed, FileName
  <1>6. Unpacked' /\ RestoredKey' /\ RestoredData' /\ InstallKeepsTo'
    BY <1>e1, <1>e4 DEF OperatorInv, Unpacked, OpAt, RestoredKey, RestoredData,
       InstallKeepsTo
  <1> QED
    BY <1>1, <1>2, <1>3, <1>4, <1>5, <1>6 DEF OperatorInv

(* RenderCompose keeps the invariant.                                      *)
LEMMA RenderComposeInv == ASSUME OperatorInv, RenderCompose PROVE OperatorInv'
  <1>0. TypeOK
    BY DEF OperatorInv
  <1>e1. op.pc = "compose" /\ OpAt("pull")
    BY <1>0, GotoEffect DEF RenderCompose, Pc
  <1>e2. host["env"] \in File
    BY <1>0 DEF TypeOK, FileName
  <1>e3. [host["env"] EXCEPT !.own = "projectmng"] \in File
    BY <1>e2 DEF File
  <1>e4. HostBut("compose", [host["env"] EXCEPT !.own = "projectmng"])
    BY <1>0, <1>e3, HostEffect DEF RenderCompose, FileName
  <1>e5. /\ host'["compose"].st = host["env"].st /\ host'["compose"].pass = host["env"].pass
         /\ host'["compose"].ver = host["env"].ver
         /\ \A n \in FileName \ {"compose"} : host'[n] = host[n]
    BY <1>e2, <1>e4 DEF HostBut, File
  <1>e6. UNCHANGED <<db, pg, app, archive, bak, fresh, counts, parted>>
    BY DEF RenderCompose
  <1>1. TypeOK'
    BY <1>0, <1>e1, <1>e2, <1>e3, <1>e4, <1>e5, <1>e6 DEF TypeOK, OpAt, HostBut
  <1>2. StepsOfCommands' /\ NothingWithoutVolume'
    BY <1>e1, <1>e6 DEF OperatorInv, StepsOfCommands, Exclusive, OpAt, NothingWithoutVolume
  <1>3. AppHasKey'
    BY <1>e5, <1>e6 DEF OperatorInv, AppHasKey, KeyRead, FileName
  <1>4. SecretsTogether'
    BY <1>e1, <1>e5, <1>e6 DEF OperatorInv, SecretsTogether, HasKey, FileName, Composed
  <1>5. ArchiveTogether'
    BY <1>e5, <1>e6 DEF OperatorInv, ArchiveTogether, HasKey, Filed, FileName
  <1>6. Unpacked' /\ RestoredKey' /\ RestoredData' /\ InstallKeepsTo'
    BY <1>e1, <1>e5 DEF OperatorInv, Unpacked, OpAt, RestoredKey, RestoredData,
       InstallKeepsTo, Composed
  <1> QED
    BY <1>1, <1>2, <1>3, <1>4, <1>5, <1>6 DEF OperatorInv

(* StartUpdate keeps the invariant.                                        *)
LEMMA StartUpdateInv == ASSUME OperatorInv, StartUpdate PROVE OperatorInv'
  <1>0. TypeOK
    BY DEF OperatorInv
  <1>e1. /\ op.pc \in Ended /\ counts' \in Counts /\ op' \in Command
         /\ op'.cmd = "update" /\ op'.pc \in {"pull", "patch"}
    <2>1. PICK v \in 0 .. MaxVersion :
              Start("update", IF v = 0 THEN "pull" ELSE "patch", v, FALSE)
      BY DEF StartUpdate
    <2>2. (IF v = 0 THEN "pull" ELSE "patch") \in Pc
      BY DEF Pc
    <2> QED
      BY <1>0, <2>1, <2>2, StartEffect
  <1>e2. UNCHANGED <<host, db, pg, app, archive, bak, fresh, parted>>
    BY DEF StartUpdate
  <1>1. TypeOK'
    BY <1>0, <1>e1, <1>e2 DEF TypeOK
  <1>2. StepsOfCommands' /\ NothingWithoutVolume' /\ AppHasKey'
    BY <1>e1, <1>e2 DEF OperatorInv, StepsOfCommands, Exclusive, NothingWithoutVolume,
       AppHasKey, KeyRead
  <1>3. SecretsTogether' /\ ArchiveTogether'
    BY <1>e1, <1>e2 DEF OperatorInv, SecretsTogether, HasKey, Ended, Composed,
       ArchiveTogether, Filed
  <1>4. Unpacked' /\ RestoredKey' /\ RestoredData' /\ InstallKeepsTo'
    BY <1>e1 DEF OperatorInv, Unpacked, RestoredKey, RestoredData, InstallKeepsTo
  <1> QED
    BY <1>1, <1>2, <1>3, <1>4 DEF OperatorInv

(* PatchEnv keeps the invariant.                                           *)
LEMMA PatchEnvInv == ASSUME OperatorInv, PatchEnv PROVE OperatorInv'
  <1>0. TypeOK
    BY DEF OperatorInv
  <1>e1. op.pc = "patch"
    BY DEF PatchEnv
  <1>e2. host["env"] \in File /\ op \in Command
    BY <1>0 DEF TypeOK, FileName
  <1>e3. /\ host["env"].st = "none" => OpAt("failed")
         /\ host["env"].st # "none" => OpAt("pull")
    BY <1>0, GotoEffect DEF PatchEnv, Pc, Ended
  <1>e4. HostBut("env", Pinned(host["env"]))
    BY <1>0, <1>e2, PinnedFile, HostEffect DEF PatchEnv, FileName
  <1>e5. /\ host'["env"].st = host["env"].st /\ host'["env"].pass = host["env"].pass
         /\ host["env"].st = "whole" => host'["env"].ver = op.want
         /\ \A n \in FileName \ {"env"} : host'[n] = host[n]
    BY <1>e2, <1>e4, PinnedFile DEF HostBut
  <1>e6. UNCHANGED <<db, pg, app, archive, bak, fresh, counts, parted>>
    BY DEF PatchEnv
  <1>1. TypeOK'
    BY <1>0, <1>e1, <1>e2, <1>e3, <1>e4, <1>e5, <1>e6 DEF TypeOK, OpAt, HostBut
  <1>2. StepsOfCommands'
    BY <1>e1, <1>e3 DEF OperatorInv, StepsOfCommands, Exclusive, OpAt
  <1>3. NothingWithoutVolume'
    BY <1>e3, <1>e6 DEF OperatorInv, NothingWithoutVolume, OpAt
  <1>4. AppHasKey'
    BY <1>e5, <1>e6 DEF OperatorInv, AppHasKey, KeyRead, FileName
  <1>5. SecretsTogether'
    BY <1>e1, <1>e3, <1>e5, <1>e6 DEF OperatorInv, SecretsTogether, HasKey, FileName,
       Composed, OpAt
  <1>6. ArchiveTogether'
    BY <1>e5, <1>e6 DEF OperatorInv, ArchiveTogether, HasKey, Filed, FileName
  <1>7. Unpacked' /\ RestoredKey' /\ RestoredData' /\ InstallKeepsTo'
    BY <1>e1, <1>e3 DEF OperatorInv, Unpacked, OpAt, RestoredKey, RestoredData,
       InstallKeepsTo, StepsOfCommands
  <1> QED
    BY <1>1, <1>2, <1>3, <1>4, <1>5, <1>6, <1>7 DEF OperatorInv

(* Pull keeps the invariant.                                               *)
LEMMA PullInv == ASSUME OperatorInv, Pull PROVE OperatorInv'
  <1>0. TypeOK
    BY DEF OperatorInv
  <1>e1. op.pc = "pull"
    BY DEF Pull
  <1>e2. OpAt("up") \/ OpAt("failed")
    BY <1>0, GotoEffect DEF Pull, Pc, Ended
  <1>e3. UNCHANGED <<host, db, pg, app, archive, bak, fresh, counts, parted>>
    BY DEF Pull
  <1>1. TypeOK'
    BY <1>0, <1>e1, <1>e2, <1>e3 DEF TypeOK, OpAt
  <1>2. StepsOfCommands'
    BY <1>e1, <1>e2 DEF OperatorInv, StepsOfCommands, Exclusive, OpAt
  <1>3. NothingWithoutVolume' /\ AppHasKey'
    BY <1>e2, <1>e3 DEF OperatorInv, NothingWithoutVolume, OpAt, AppHasKey, KeyRead
  <1>4. SecretsTogether'
    BY <1>e1, <1>e2, <1>e3 DEF OperatorInv, SecretsTogether, HasKey, Composed, OpAt
  <1>5. ArchiveTogether' /\ Unpacked' /\ RestoredKey'
    BY <1>e2, <1>e3 DEF OperatorInv, ArchiveTogether, HasKey, Filed, Unpacked, OpAt,
       RestoredKey
  <1>6. RestoredData'
    BY <1>e1, <1>e2 DEF OperatorInv, RestoredData, StepsOfCommands, OpAt
  <1>7. InstallKeepsTo'
    BY <1>e1, <1>e2, <1>e3 DEF OperatorInv, InstallKeepsTo, Composed, OpAt
  <1> QED
    BY <1>1, <1>2, <1>3, <1>4, <1>5, <1>6, <1>7 DEF OperatorInv

(* Up keeps the invariant.                                                 *)
LEMMA UpInv == ASSUME OperatorInv, Up PROVE OperatorInv'
  <1>0. TypeOK
    BY DEF OperatorInv
  <1>e1. op.pc = "up"
    BY DEF Up
  <1>e2. UNCHANGED <<host, archive, bak, fresh, counts, parted>>
    BY DEF Up
  <1>1. CASE Composed
    <2>e1. /\ StartPostgres /\ StartApp
           /\ op.cmd = "restore" => OpAt("ok")
           /\ op.cmd # "restore" => OpAt("migrate")
      BY <1>0, <1>e1, <1>1, GotoEffect DEF Up, Pc, Ended
    <2>e2. /\ pg' = TRUE /\ db' \in Database /\ db'.there
           /\ db.there => db' = db
           /\ ~db.there => /\ db'.pass = host["compose"].pass /\ db'.rows = {}
                           /\ db'.schema = 0 /\ ~db'.broken
      BY <1>0, <2>e1, StartPostgresEffect
    <2>e3. /\ app' \in App
           /\ app'.ver = host["compose"].ver /\ app'.pass = host["compose"].pass
           /\ app'.key = KeyRead \/ (app.key # 0 /\ app' = app)
      BY <1>0, <2>e1, StartAppEffect
    <2>1. TypeOK'
      BY <1>0, <1>e1, <1>e2, <1>1, <2>e1, <2>e2, <2>e3 DEF TypeOK, OpAt
    <2>2. StepsOfCommands'
      BY <1>e1, <1>1, <2>e1 DEF OperatorInv, StepsOfCommands, Exclusive, Ended, OpAt
    <2>3. NothingWithoutVolume'
      BY <1>1, <2>e1, <2>e2 DEF OperatorInv, NothingWithoutVolume, OpAt
    <2>4. AppHasKey'
      BY <1>e2, <1>1, <2>e3 DEF OperatorInv, AppHasKey, KeyRead
    <2>5. SecretsTogether'
      BY <1>e1, <1>e2, <1>1, <2>e2 DEF OperatorInv, SecretsTogether, HasKey, Composed
    <2>6. ArchiveTogether'
      BY <1>e2, <1>1, <2>e2 DEF OperatorInv, ArchiveTogether, HasKey, Filed
    <2>7. Unpacked' /\ RestoredKey'
      BY <1>1, <2>e1 DEF OperatorInv, Unpacked, OpAt, RestoredKey
    <2>8. RestoredData'
      BY <1>e1, <1>e2, <1>1, <2>e1, <2>e2, NoTypes DEF OperatorInv, RestoredData,
         NothingWithoutVolume, OpAt
    <2>9. InstallKeepsTo'
      BY <1>e1, <1>1, <2>e1, <2>e3 DEF OperatorInv, InstallKeepsTo, OpAt
    <2> QED
      BY <2>1, <2>2, <2>3, <2>4, <2>5, <2>6, <2>7, <2>8, <2>9 DEF OperatorInv
  <1>2. CASE ~Composed
    <2>e1. OpAt("failed") /\ UNCHANGED <<db, pg, app>>
      BY <1>0, <1>e1, <1>2, GotoEffect DEF Up, Pc, Ended
    <2>1. TypeOK'
      BY <1>0, <1>e1, <1>e2, <1>2, <2>e1 DEF TypeOK, OpAt
    <2>2. StepsOfCommands' /\ NothingWithoutVolume'
      BY <1>2, <2>e1 DEF OperatorInv, StepsOfCommands, Exclusive, Ended, OpAt,
         NothingWithoutVolume
    <2>3. AppHasKey' /\ SecretsTogether'
      BY <1>2, <1>e2, <2>e1 DEF OperatorInv, AppHasKey, KeyRead, SecretsTogether,
         HasKey, Composed, OpAt
    <2>4. ArchiveTogether'
      BY <1>e2, <1>2, <2>e1 DEF OperatorInv, ArchiveTogether, HasKey, Filed
    <2>5. Unpacked' /\ RestoredKey' /\ RestoredData' /\ InstallKeepsTo'
      BY <1>2, <2>e1 DEF OperatorInv, Unpacked, OpAt, RestoredKey, RestoredData,
         InstallKeepsTo
    <2> QED
      BY <2>1, <2>2, <2>3, <2>4, <2>5 DEF OperatorInv
  <1> QED
    BY <1>1, <1>2, <1>0, <1>e1, <1>e2

(* Migrate keeps the invariant.                                            *)
LEMMA MigrateInv == ASSUME OperatorInv, Migrate PROVE OperatorInv'
  <1>0. TypeOK
    BY DEF OperatorInv
  <1>e1. op.pc = "migrate"
    BY DEF Migrate
  <1>e2. UNCHANGED <<host, pg, app, archive, bak, fresh, counts, parted>>
    BY DEF Migrate
  <1>1. CASE pg /\ app.key # 0 /\ app.pass = db.pass /\ ~db.broken
    <2>e1. /\ op.want = 0 => OpAt("ok")
           /\ op.want # 0 => OpAt("version")
      BY <1>0, <1>e1, <1>1, GotoEffect DEF Migrate, Pc, Ended
    <2>e2. db \in Database /\ app.ver \in Nat
      BY <1>0 DEF TypeOK, App
    <2>e3. db' = [db EXCEPT !.schema = IF @ < app.ver THEN app.ver ELSE @]
      BY <1>1 DEF Migrate
    <2>e4. /\ db' \in Database /\ db'.there = db.there /\ db'.pass = db.pass
           /\ db'.rows = db.rows /\ db'.broken = db.broken /\ app.ver <= db'.schema
      BY <2>e2, <2>e3 DEF Database
    <2>1. TypeOK'
      BY <1>0, <1>e1, <1>e2, <1>1, <2>e1, <2>e2, <2>e3, <2>e4 DEF TypeOK, OpAt
    <2>2. StepsOfCommands'
      BY <1>e1, <1>1, <2>e1 DEF OperatorInv, StepsOfCommands, Exclusive, OpAt
    <2>3. NothingWithoutVolume'
      BY <1>1, <2>e1, <2>e4 DEF OperatorInv, NothingWithoutVolume, OpAt
    <2>4. AppHasKey'
      BY <1>e2, <1>1 DEF OperatorInv, AppHasKey, KeyRead
    <2>5. SecretsTogether'
      BY <1>e1, <1>e2, <1>1, <2>e1, <2>e4 DEF OperatorInv, SecretsTogether, HasKey,
         Composed, OpAt
    <2>6. ArchiveTogether'
      BY <1>e2, <1>1, <2>e4 DEF OperatorInv, ArchiveTogether, HasKey, Filed
    <2>7. Unpacked' /\ RestoredKey'
      BY <1>1, <2>e1 DEF OperatorInv, Unpacked, OpAt, RestoredKey
    <2>8. RestoredData'
      BY <1>e1, <1>1, <2>e1 DEF OperatorInv, RestoredData, StepsOfCommands, OpAt
    <2>9. InstallKeepsTo'
      BY <1>e1, <1>e2, <1>1, <2>e1, <2>e4 DEF OperatorInv, InstallKeepsTo,
         StepsOfCommands, OpAt
    <2> QED
      BY <2>1, <2>2, <2>3, <2>4, <2>5, <2>6, <2>7, <2>8, <2>9 DEF OperatorInv
  <1>2. CASE ~(pg /\ app.key # 0 /\ app.pass = db.pass /\ ~db.broken)
    <2>e1. OpAt("failed") /\ UNCHANGED db
      BY <1>0, <1>e1, <1>2, GotoEffect DEF Migrate, Pc, Ended
    <2>1. TypeOK'
      BY <1>0, <1>e1, <1>e2, <1>2, <2>e1 DEF TypeOK, OpAt
    <2>2. StepsOfCommands'
      BY <1>e1, <1>2, <2>e1 DEF OperatorInv, StepsOfCommands, Exclusive, OpAt
    <2>3. NothingWithoutVolume'
      BY <1>e2, <1>2, <2>e1 DEF OperatorInv, NothingWithoutVolume, OpAt
    <2>4. AppHasKey'
      BY <1>e2, <1>2 DEF OperatorInv, AppHasKey, KeyRead
    <2>5. SecretsTogether'
      BY <1>e1, <1>e2, <1>2, <2>e1 DEF OperatorInv, SecretsTogether, HasKey, Composed, OpAt
    <2>6. ArchiveTogether'
      BY <1>e2, <1>2, <2>e1 DEF OperatorInv, ArchiveTogether, HasKey, Filed
    <2>7. Unpacked' /\ RestoredKey' /\ RestoredData' /\ InstallKeepsTo'
      BY <1>2, <2>e1 DEF OperatorInv, Unpacked, OpAt, RestoredKey, RestoredData,
         InstallKeepsTo
    <2> QED
      BY <2>1, <2>2, <2>3, <2>4, <2>5, <2>6, <2>7 DEF OperatorInv
  <1> QED
    BY <1>1, <1>2, <1>0, <1>e1, <1>e2

(* RecordVersion keeps the invariant.                                      *)
LEMMA RecordVersionInv == ASSUME OperatorInv, RecordVersion PROVE OperatorInv'
  <1>0. TypeOK
    BY DEF OperatorInv
  <1>e1. op.pc = "version" /\ OpAt("ok")
    BY <1>0, GotoEffect DEF RecordVersion, Pc, Ended
  <1>e2. op.want \in Nat /\ NoFile \in File
    BY <1>0, NoTypes, Bounds DEF TypeOK, Command
  <1>e3. /\ [NoFile EXCEPT !.st = "whole", !.ver = op.want] \in File
         /\ [NoFile EXCEPT !.st = "whole", !.ver = op.want].ver = op.want
    BY <1>e2 DEF File
  <1>e4. /\ HostBut("version", Written("version", [NoFile EXCEPT !.st = "whole", !.ver = op.want]))
         /\ host'["version"].ver = op.want
    BY <1>0, <1>e3, WrittenFile, HostEffect DEF RecordVersion, FileName, HostBut
  <1>e5. \A n \in FileName \ {"version"} : host'[n] = host[n]
    BY <1>e4 DEF HostBut
  <1>e6. UNCHANGED <<db, pg, app, archive, bak, fresh, counts, parted>>
    BY DEF RecordVersion
  <1>1. TypeOK'
    BY <1>0, <1>e1, <1>e2, <1>e3, <1>e4, <1>e5, <1>e6 DEF TypeOK, OpAt, HostBut
  <1>2. StepsOfCommands' /\ NothingWithoutVolume'
    BY <1>e1, <1>e6 DEF OperatorInv, StepsOfCommands, Exclusive, OpAt, NothingWithoutVolume
  <1>3. AppHasKey'
    BY <1>e5, <1>e6 DEF OperatorInv, AppHasKey, KeyRead, FileName
  <1>4. SecretsTogether'
    BY <1>e1, <1>e5, <1>e6 DEF OperatorInv, SecretsTogether, HasKey, FileName,
       Composed, OpAt
  <1>5. ArchiveTogether'
    BY <1>e5, <1>e6 DEF OperatorInv, ArchiveTogether, HasKey, Filed, FileName
  <1>6. Unpacked' /\ RestoredKey' /\ RestoredData'
    BY <1>e1 DEF OperatorInv, Unpacked, OpAt, RestoredKey, RestoredData, StepsOfCommands
  <1>7. InstallKeepsTo'
    BY <1>e1, <1>e4, <1>e6 DEF OperatorInv, InstallKeepsTo, OpAt
  <1> QED
    BY <1>1, <1>2, <1>3, <1>4, <1>5, <1>6, <1>7 DEF OperatorInv

(* StoreSecret keeps the invariant.                                        *)
LEMMA StoreSecretInv == ASSUME OperatorInv, StoreSecret PROVE OperatorInv'
  <1>0. TypeOK
    BY DEF OperatorInv
  <1>e1. /\ pg /\ app.key # 0 /\ app.pass = db.pass /\ db.schema # 0
         /\ fresh' = fresh + 1
         /\ db' = [db EXCEPT !.rows = @ \cup {[id |-> fresh + 1, key |-> app.key]}]
    BY DEF StoreSecret
  <1>e2. db \in Database /\ fresh \in Nat /\ app.key \in Nat
    BY <1>0 DEF TypeOK, App
  <1>e3. [id |-> fresh + 1, key |-> app.key] \in Row
    BY <1>e2 DEF Row
  <1>e4. /\ db' \in Database /\ db'.there = db.there /\ db'.pass = db.pass
         /\ db'.schema = db.schema /\ db'.broken = db.broken
         /\ db'.rows = db.rows \cup {[id |-> fresh + 1, key |-> app.key]}
    BY <1>e1, <1>e2, <1>e3 DEF Database
  <1>e5. /\ fresh' \in Nat /\ db.rows \subseteq db'.rows
         /\ \A r \in db'.rows : r \in db.rows \/ r.key = app.key
    BY <1>e1, <1>e2, <1>e4
  <1>e6. UNCHANGED <<host, pg, app, archive, op, bak, counts, parted>>
    BY DEF StoreSecret
  <1>1. TypeOK'
    BY <1>0, <1>e1, <1>e2, <1>e3, <1>e4, <1>e5, <1>e6 DEF TypeOK
  <1>2. StepsOfCommands' /\ NothingWithoutVolume' /\ AppHasKey'
    BY <1>e1, <1>e6 DEF OperatorInv, StepsOfCommands, Exclusive, NothingWithoutVolume,
       AppHasKey, KeyRead
  <1>3. SecretsTogether'
    <2>1. ~parted => \A r \in db'.rows : HasKey(r.key)'
      BY <1>0, <1>e1, <1>e5, <1>e6, KeyReadType DEF OperatorInv, AppHasKey,
         SecretsTogether, HasKey
    <2> QED
      BY <1>0, <1>e1, <1>e2, <1>e3, <1>e4, <1>e5, <1>e6, <2>1 DEF OperatorInv,
         SecretsTogether
  <1>4. ArchiveTogether' /\ Unpacked' /\ RestoredKey'
    BY <1>e4, <1>e6 DEF OperatorInv, ArchiveTogether, HasKey, Filed, Unpacked, RestoredKey
  <1>5. RestoredData'
    BY <1>e1, <1>e6, NoTypes DEF OperatorInv, RestoredData
  <1>6. InstallKeepsTo'
    BY <1>e4, <1>e6 DEF OperatorInv, InstallKeepsTo, Composed
  <1> QED
    BY <1>1, <1>2, <1>3, <1>4, <1>5, <1>6 DEF OperatorInv

(* RestartApp keeps the invariant.                                         *)
LEMMA RestartAppInv == ASSUME OperatorInv, RestartApp PROVE OperatorInv'
  <1>0. TypeOK
    BY DEF OperatorInv
  <1>e1. app.ver # 0 /\ app' = [app EXCEPT !.key = KeyRead]
    BY DEF RestartApp
  <1>e2. KeyRead \in Nat
    BY <1>0, KeyReadType
  <1>e3. /\ app' \in App /\ app'.ver = app.ver /\ app'.pass = app.pass
         /\ app'.key = KeyRead /\ app # NoApp
    BY <1>0, <1>e1, <1>e2, NoTypes DEF TypeOK, App
  <1>e4. UNCHANGED <<host, db, pg, archive, op, bak, fresh, counts, parted>>
    BY DEF RestartApp
  <1>1. TypeOK'
    BY <1>0, <1>e1, <1>e2, <1>e3, <1>e4 DEF TypeOK
  <1>2. StepsOfCommands' /\ NothingWithoutVolume' /\ AppHasKey'
    BY <1>e3, <1>e4 DEF OperatorInv, StepsOfCommands, Exclusive, NothingWithoutVolume,
       AppHasKey, KeyRead
  <1>3. SecretsTogether' /\ ArchiveTogether' /\ Unpacked'
    BY <1>e4 DEF OperatorInv, SecretsTogether, HasKey, Composed, ArchiveTogether,
       Filed, Unpacked
  <1>4. RestoredKey' /\ RestoredData'
    BY <1>e3, <1>e4 DEF OperatorInv, RestoredKey, HasKey, Filed, RestoredData
  <1>5. InstallKeepsTo'
    BY <1>e3, <1>e4 DEF OperatorInv, InstallKeepsTo, AppHasKey, Composed
  <1> QED
    BY <1>1, <1>2, <1>3, <1>4, <1>5 DEF OperatorInv

(* StartBackup keeps the invariant.                                        *)
LEMMA StartBackupInv == ASSUME OperatorInv, StartBackup PROVE OperatorInv'
  <1>0. TypeOK
    BY DEF OperatorInv
  <1>e1. /\ bak = 0 /\ pg /\ ~Exclusive /\ bak' = 1 /\ counts' \in Counts
    BY <1>0, Bounds DEF StartBackup, TypeOK, Counts
  <1>e2. /\ archive' = [NoArchive EXCEPT !.st = "open", !.rows = db.rows, !.schema = db.schema]
    BY DEF StartBackup
  <1>e3. /\ archive' \in Archive /\ archive'.rows = db.rows
         /\ archive'.schema = db.schema /\ archive'.files = NoFiles
    BY <1>0, <1>e2, NoTypes DEF TypeOK, Archive, NoArchive, Database
  <1>e4. \A n \in FileName : archive'.files[n].st = "none"
    BY <1>e3, NoTypes DEF NoFiles
  <1>e5. bak' \in 0 .. Len(Order)
    BY <1>e1 DEF Order
  <1>e6. UNCHANGED <<host, db, pg, app, op, fresh, parted>>
    BY DEF StartBackup
  <1>1. TypeOK'
    BY <1>0, <1>e1, <1>e2, <1>e3, <1>e4, <1>e5, <1>e6 DEF TypeOK
  <1>2. StepsOfCommands' /\ NothingWithoutVolume' /\ AppHasKey'
    BY <1>e1, <1>e6 DEF OperatorInv, StepsOfCommands, Exclusive, NothingWithoutVolume,
       AppHasKey, KeyRead
  <1>3. SecretsTogether'
    BY <1>e6 DEF OperatorInv, SecretsTogether, HasKey, Composed
  <1>4. ArchiveTogether'
    BY <1>e1, <1>e3, <1>e4, <1>e6 DEF OperatorInv, ArchiveTogether,
       NothingWithoutVolume, SecretsTogether, HasKey, Filed, FileName
  <1>5. Unpacked' /\ RestoredKey'
    BY <1>e1, <1>e6 DEF OperatorInv, Unpacked, StepsOfCommands, Exclusive, Ended,
       RestoredKey
  <1>6. RestoredData' /\ InstallKeepsTo'
    BY <1>e3, <1>e6 DEF OperatorInv, RestoredData, Empty, InstallKeepsTo, Composed
  <1> QED
    BY <1>1, <1>2, <1>3, <1>4, <1>5, <1>6 DEF OperatorInv

(* InterruptBackup keeps the invariant.                                    *)
LEMMA InterruptBackupInv == ASSUME OperatorInv, InterruptBackup PROVE OperatorInv'
  <1>0. TypeOK
    BY DEF OperatorInv
  <1>e1. bak # 0 /\ bak' = 0 /\ counts' \in Counts
    BY <1>0, FaultEffect DEF InterruptBackup
  <1>e2. archive' = [archive EXCEPT !.st = "cut"]
    BY DEF InterruptBackup
  <1>e3. /\ archive' \in Archive /\ archive'.rows = archive.rows
         /\ archive'.schema = archive.schema /\ archive'.files = archive.files
    BY <1>0, <1>e2 DEF TypeOK, Archive
  <1>e4. bak' \in 0 .. Len(Order)
    BY <1>e1 DEF Order
  <1>e5. UNCHANGED <<host, db, pg, app, op, fresh, parted>>
    BY DEF InterruptBackup
  <1>1. TypeOK'
    BY <1>0, <1>e1, <1>e2, <1>e3, <1>e4, <1>e5 DEF TypeOK
  <1>2. StepsOfCommands' /\ NothingWithoutVolume' /\ AppHasKey'
    BY <1>e1, <1>e5 DEF OperatorInv, StepsOfCommands, NothingWithoutVolume, AppHasKey,
       KeyRead
  <1>3. SecretsTogether'
    BY <1>e5 DEF OperatorInv, SecretsTogether, HasKey, Composed
  <1>4. ArchiveTogether'
    BY <1>e1, <1>e3, <1>e5 DEF OperatorInv, ArchiveTogether, Filed
  <1>5. Unpacked' /\ RestoredKey' /\ RestoredData'
    BY <1>e3, <1>e5 DEF OperatorInv, Unpacked, HasKey, Filed, RestoredKey,
       RestoredData, Empty
  <1>6. InstallKeepsTo'
    BY <1>e5 DEF OperatorInv, InstallKeepsTo, Composed
  <1> QED
    BY <1>1, <1>2, <1>3, <1>4, <1>5, <1>6 DEF OperatorInv

(* StartUninstall keeps the invariant.                                     *)
LEMMA StartUninstallInv == ASSUME OperatorInv, StartUninstall PROVE OperatorInv'
  <1>0. TypeOK
    BY DEF OperatorInv
  <1>e1. /\ bak = 0 /\ op.pc \in Ended /\ counts' \in Counts /\ op' \in Command
         /\ op'.cmd = "uninstall" /\ op'.pc = "down"
    <2>1. PICK purge \in BOOLEAN : Start("uninstall", "down", 0, purge)
      BY DEF StartUninstall
    <2>2. 0 \in 0 .. MaxVersion /\ "down" \in Pc /\ bak = 0
      BY Bounds DEF Pc, StartUninstall
    <2> QED
      BY <1>0, <2>1, <2>2, StartEffect
  <1>e2. UNCHANGED <<host, db, pg, app, archive, bak, fresh, parted>>
    BY DEF StartUninstall
  <1>1. TypeOK'
    BY <1>0, <1>e1, <1>e2 DEF TypeOK
  <1>2. StepsOfCommands' /\ NothingWithoutVolume' /\ AppHasKey'
    BY <1>e1, <1>e2 DEF OperatorInv, StepsOfCommands, NothingWithoutVolume, AppHasKey,
       KeyRead
  <1>3. SecretsTogether' /\ ArchiveTogether'
    BY <1>e1, <1>e2 DEF OperatorInv, SecretsTogether, HasKey, Ended, Composed,
       ArchiveTogether, Filed
  <1>4. Unpacked' /\ RestoredKey' /\ RestoredData' /\ InstallKeepsTo'
    BY <1>e1 DEF OperatorInv, Unpacked, RestoredKey, RestoredData, InstallKeepsTo
  <1> QED
    BY <1>1, <1>2, <1>3, <1>4 DEF OperatorInv

(* StartRestore keeps the invariant.                                       *)
LEMMA StartRestoreInv == ASSUME OperatorInv, StartRestore PROVE OperatorInv'
  <1>0. TypeOK
    BY DEF OperatorInv
  <1>e1. /\ bak = 0 /\ op.pc \in Ended /\ counts' \in Counts /\ op' \in Command
         /\ op'.cmd = "restore" /\ op'.pc = "unpack" /\ op'.i = 1
         /\ ~op'.flag => host["key"].st = "none"
    <2>1. PICK force \in BOOLEAN : /\ host["key"].st = "none" \/ force
                                  /\ Start("restore", "unpack", 0, force)
      BY DEF StartRestore
    <2>2. 0 \in 0 .. MaxVersion /\ "unpack" \in Pc /\ bak = 0
      BY Bounds DEF Pc, StartRestore
    <2> QED
      BY <1>0, <2>1, <2>2, StartEffect
  <1>e2. /\ parted' \in BOOLEAN
         /\ ~parted' => ~parted /\ ~Foreign
    BY <1>0 DEF StartRestore, TypeOK
  <1>e3. UNCHANGED <<host, db, pg, app, archive, bak, fresh>>
    BY DEF StartRestore
  <1>1. TypeOK'
    BY <1>0, <1>e1, <1>e2, <1>e3 DEF TypeOK
  <1>2. StepsOfCommands' /\ NothingWithoutVolume'
    BY <1>e1, <1>e3 DEF OperatorInv, StepsOfCommands, NothingWithoutVolume
  <1>3. AppHasKey'
    BY <1>e2, <1>e3 DEF OperatorInv, AppHasKey, KeyRead
  <1>4. SecretsTogether' /\ ArchiveTogether'
    BY <1>e1, <1>e2, <1>e3 DEF OperatorInv, SecretsTogether, HasKey, Composed,
       ArchiveTogether, Filed
  <1>5. Unpacked'
    BY <1>e1, <1>e2, <1>e3 DEF OperatorInv, Unpacked, Foreign, Filed, FileName
  <1>6. RestoredKey'
    BY <1>e1 DEF OperatorInv, RestoredKey
  <1>7. RestoredData'
    BY <1>e1, <1>e2, <1>e3 DEF OperatorInv, RestoredData, SecretsTogether
  <1>8. InstallKeepsTo'
    BY <1>e1 DEF OperatorInv, InstallKeepsTo
  <1> QED
    BY <1>1, <1>2, <1>3, <1>4, <1>5, <1>6, <1>7, <1>8 DEF OperatorInv

(* UpPostgres keeps the invariant.                                         *)
LEMMA UpPostgresInv == ASSUME OperatorInv, UpPostgres PROVE OperatorInv'
  <1>0. TypeOK
    BY DEF OperatorInv
  <1>e1. op.pc = "pgup"
    BY DEF UpPostgres
  <1>e2. UNCHANGED <<host, app, archive, bak, fresh, counts, parted>>
    BY DEF UpPostgres
  <1>1. CASE Composed
    <2>e1. StartPostgres /\ OpAt("psql")
      BY <1>0, <1>e1, <1>1, GotoEffect DEF UpPostgres, Pc
    <2>e2. /\ pg' = TRUE /\ db' \in Database /\ db'.there
           /\ db.there => db' = db
           /\ ~db.there => /\ db'.pass = host["compose"].pass /\ db'.rows = {}
                           /\ db'.schema = 0 /\ ~db'.broken
      BY <1>0, <2>e1, StartPostgresEffect
    <2>1. TypeOK'
      BY <1>0, <1>e1, <1>e2, <1>1, <2>e1, <2>e2 DEF TypeOK, OpAt
    <2>2. StepsOfCommands'
      BY <1>e1, <1>e2, <1>1, <2>e1 DEF OperatorInv, StepsOfCommands, Exclusive, Ended, OpAt
    <2>3. NothingWithoutVolume'
      BY <1>1, <2>e1, <2>e2 DEF OperatorInv, NothingWithoutVolume, OpAt
    <2>4. AppHasKey'
      BY <1>e2, <1>1 DEF OperatorInv, AppHasKey, KeyRead
    <2>5. SecretsTogether'
      BY <1>e1, <1>e2, <1>1, <2>e2 DEF OperatorInv, SecretsTogether, HasKey, Composed
    <2>6. ArchiveTogether'
      BY <1>e2, <1>1, <2>e2 DEF OperatorInv, ArchiveTogether, HasKey, Filed
    <2>7. Unpacked'
      BY <1>1, <2>e1 DEF OperatorInv, Unpacked, OpAt
    <2>8. RestoredKey'
      BY <1>e1, <1>e2, <1>1 DEF OperatorInv, RestoredKey, HasKey, Filed
    <2>9. RestoredData'
      BY <1>e1, <1>e2, <1>1, <2>e1, <2>e2 DEF OperatorInv, RestoredData,
         NothingWithoutVolume, Empty, OpAt
    <2>10. InstallKeepsTo'
      BY <1>1, <2>e1 DEF OperatorInv, InstallKeepsTo, OpAt
    <2> QED
      BY <2>1, <2>2, <2>3, <2>4, <2>5, <2>6, <2>7, <2>8, <2>9, <2>10 DEF OperatorInv
  <1>2. CASE ~Composed
    <2>e1. OpAt("failed") /\ UNCHANGED <<db, pg>>
      BY <1>0, <1>e1, <1>2, GotoEffect DEF UpPostgres, Pc, Ended
    <2>1. TypeOK'
      BY <1>0, <1>e1, <1>e2, <1>2, <2>e1 DEF TypeOK, OpAt
    <2>2. StepsOfCommands'
      BY <1>2, <2>e1 DEF OperatorInv, StepsOfCommands, Exclusive, Ended, OpAt
    <2>3. NothingWithoutVolume'
      BY <1>e2, <1>2, <2>e1 DEF OperatorInv, NothingWithoutVolume, OpAt
    <2>4. AppHasKey'
      BY <1>e2, <1>2 DEF OperatorInv, AppHasKey, KeyRead
    <2>5. SecretsTogether' /\ ArchiveTogether'
      BY <1>2, <1>e2, <2>e1 DEF OperatorInv, SecretsTogether, HasKey, Composed, OpAt,
         ArchiveTogether, Filed
    <2>6. Unpacked' /\ RestoredKey' /\ RestoredData' /\ InstallKeepsTo'
      BY <1>2, <2>e1 DEF OperatorInv, Unpacked, OpAt, RestoredKey, RestoredData,
         InstallKeepsTo
    <2> QED
      BY <2>1, <2>2, <2>3, <2>4, <2>5, <2>6 DEF OperatorInv
  <1> QED
    BY <1>1, <1>2, <1>0, <1>e1, <1>e2

(* Psql keeps the invariant.                                               *)
LEMMA PsqlInv == ASSUME OperatorInv, Psql PROVE OperatorInv'
  <1>0. TypeOK
    BY DEF OperatorInv
  <1>e1. op.pc = "psql" /\ OpAt("up")
    BY <1>0, GotoEffect DEF Psql, Pc
  <1>e2. db \in Database /\ archive.rows \in SUBSET Row /\ archive.schema \in Nat
    BY <1>0 DEF TypeOK, Archive
  <1>e3. /\ db' \in Database /\ db'.there = db.there /\ db'.pass = db.pass
         /\ db'.broken = db.broken
         /\ \A r \in db'.rows : r \in db.rows \/ r \in archive.rows
         /\ Empty => db'.rows = archive.rows /\ db'.schema = archive.schema
    <2>1. CASE Empty
      <3>1. db' = [db EXCEPT !.rows = archive.rows, !.schema = archive.schema]
        BY <2>1 DEF Psql
      <3> QED
        BY <1>e2, <2>1, <3>1 DEF Database
    <2>2. CASE ~Empty
      <3>1. PICK s \in SUBSET archive.rows : db' = [db EXCEPT !.rows = @ \cup s]
        BY <2>2 DEF Psql
      <3> QED
        BY <1>e2, <2>2, <3>1 DEF Database
    <2> QED
      BY <2>1, <2>2
  <1>e4. db.there
    BY <1>e1 DEF OperatorInv, NothingWithoutVolume
  <1>e5. UNCHANGED <<host, pg, app, archive, bak, fresh, counts, parted>>
    BY DEF Psql
  <1>1. TypeOK'
    BY <1>0, <1>e1, <1>e2, <1>e3, <1>e4, <1>e5 DEF TypeOK, OpAt
  <1>2. StepsOfCommands'
    BY <1>e1, <1>e5 DEF OperatorInv, StepsOfCommands, Exclusive, Ended, OpAt
  <1>3. NothingWithoutVolume'
    BY <1>e1, <1>e3 DEF OperatorInv, NothingWithoutVolume, OpAt
  <1>4. AppHasKey'
    BY <1>e5 DEF OperatorInv, AppHasKey, KeyRead
  <1>5. SecretsTogether'
    <2>1. ~parted => \A r \in db'.rows : HasKey(r.key)
      BY <1>0, <1>e1, <1>e2, <1>e3, <1>e4, <1>e5 DEF OperatorInv, SecretsTogether,
         ArchiveTogether, RestoredKey, HasKey
    <2> QED
      BY <1>0, <1>e1, <1>e2, <1>e3, <1>e4, <1>e5, <2>1 DEF OperatorInv,
         SecretsTogether, HasKey, OpAt
  <1>6. ArchiveTogether'
    BY <1>e3, <1>e5 DEF OperatorInv, ArchiveTogether, HasKey, Filed
  <1>7. Unpacked' /\ RestoredKey'
    BY <1>e1 DEF OperatorInv, Unpacked, OpAt, RestoredKey
  <1>8. RestoredData'
    BY <1>e1, <1>e3, <1>e5 DEF OperatorInv, RestoredData, OpAt
  <1>9. InstallKeepsTo'
    BY <1>e1 DEF OperatorInv, InstallKeepsTo, StepsOfCommands, OpAt
  <1> QED
    BY <1>1, <1>2, <1>3, <1>4, <1>5, <1>6, <1>7, <1>8, <1>9 DEF OperatorInv

(* PsqlCut keeps the invariant.                                            *)
LEMMA PsqlCutInv == ASSUME OperatorInv, PsqlCut PROVE OperatorInv'
  <1>0. TypeOK
    BY DEF OperatorInv
  <1>e1. /\ op.pc = "psql" /\ OpAt("failed") /\ Empty /\ counts' \in Counts
    BY <1>0, GotoEffect, FaultEffect DEF PsqlCut, Pc, Ended
  <1>e2. db \in Database /\ archive.rows \in SUBSET Row
    BY <1>0 DEF TypeOK, Archive
  <1>e3. /\ db' \in Database /\ db'.there = db.there /\ db'.pass = db.pass
         /\ db'.rows \subseteq archive.rows /\ db'.schema = db.schema
    <2>1. PICK s \in SUBSET archive.rows : db' = [db EXCEPT !.rows = s, !.broken = TRUE]
      BY DEF PsqlCut
    <2> QED
      BY <1>e2, <2>1 DEF Database
  <1>e4. db.there
    BY <1>e1 DEF OperatorInv, NothingWithoutVolume
  <1>e5. UNCHANGED <<host, pg, app, archive, bak, fresh, parted>>
    BY DEF PsqlCut
  <1>1. TypeOK'
    BY <1>0, <1>e1, <1>e2, <1>e3, <1>e4, <1>e5 DEF TypeOK, OpAt
  <1>2. StepsOfCommands' /\ NothingWithoutVolume'
    BY <1>e1, <1>e3 DEF OperatorInv, StepsOfCommands, Exclusive, Ended, OpAt,
       NothingWithoutVolume
  <1>3. AppHasKey'
    BY <1>e5 DEF OperatorInv, AppHasKey, KeyRead
  <1>4. SecretsTogether'
    <2>1. ~parted => \A r \in db'.rows : HasKey(r.key)
      BY <1>0, <1>e1, <1>e2, <1>e3, <1>e4, <1>e5 DEF OperatorInv, SecretsTogether,
         ArchiveTogether, RestoredKey, HasKey
    <2> QED
      BY <1>0, <1>e1, <1>e2, <1>e3, <1>e4, <1>e5, <2>1 DEF OperatorInv,
         SecretsTogether, HasKey, OpAt
  <1>5. ArchiveTogether'
    BY <1>e3, <1>e5 DEF OperatorInv, ArchiveTogether, HasKey, Filed
  <1>6. Unpacked' /\ RestoredKey' /\ RestoredData' /\ InstallKeepsTo'
    BY <1>e1 DEF OperatorInv, Unpacked, OpAt, RestoredKey, RestoredData, InstallKeepsTo
  <1> QED
    BY <1>1, <1>2, <1>3, <1>4, <1>5, <1>6 DEF OperatorInv

(* Down keeps the invariant.                                               *)
LEMMA DownInv == ASSUME OperatorInv, Down PROVE OperatorInv'
  <1>0. TypeOK
    BY DEF OperatorInv
  <1>e1. /\ op.pc = "down" /\ (OpAt("rmopt") \/ OpAt("ok"))
         /\ op.flag \/ OpAt("ok")
    BY <1>0, GotoEffect DEF Down, AfterDown, Pc, Ended
  <1>e2. /\ pg' = FALSE /\ app' = NoApp
         /\ db' = IF op.flag THEN NoDatabase ELSE db
    BY DEF Down
  <1>e3. /\ db' \in Database /\ app' \in App /\ app'.key = 0
         /\ op.flag => ~db'.there /\ db'.rows = {} /\ db' = NoDatabase
         /\ ~op.flag => db' = db
    BY <1>0, <1>e2, NoTypes DEF TypeOK
  <1>e4. UNCHANGED <<host, archive, bak, fresh, counts, parted>>
    BY DEF Down
  <1>1. TypeOK'
    BY <1>0, <1>e1, <1>e2, <1>e3, <1>e4 DEF TypeOK, OpAt
  <1>2. StepsOfCommands'
    BY <1>e1, <1>e4 DEF OperatorInv, StepsOfCommands, Exclusive, Ended, OpAt
  <1>3. NothingWithoutVolume'
    BY <1>e1, <1>e2, <1>e3 DEF OperatorInv, NothingWithoutVolume, OpAt
  <1>4. AppHasKey'
    BY <1>e3 DEF OperatorInv, AppHasKey
  <1>5. SecretsTogether'
    BY <1>e1, <1>e3, <1>e4 DEF OperatorInv, SecretsTogether, HasKey, Composed, OpAt
  <1>6. ArchiveTogether'
    BY <1>e1, <1>e4 DEF OperatorInv, ArchiveTogether, StepsOfCommands, Exclusive,
       Ended, Filed
  <1>7. Unpacked' /\ RestoredKey' /\ RestoredData' /\ InstallKeepsTo'
    BY <1>e1 DEF OperatorInv, Unpacked, OpAt, RestoredKey, RestoredData,
       StepsOfCommands, InstallKeepsTo
  <1> QED
    BY <1>1, <1>2, <1>3, <1>4, <1>5, <1>6, <1>7 DEF OperatorInv

(* DownFails keeps the invariant.                                          *)
LEMMA DownFailsInv == ASSUME OperatorInv, DownFails PROVE OperatorInv'
  <1>0. TypeOK
    BY DEF OperatorInv
  <1>e1. /\ op.pc = "down" /\ (OpAt("rmopt") \/ OpAt("ok"))
         /\ op.flag \/ OpAt("ok")
    BY <1>0, GotoEffect DEF DownFails, AfterDown, Pc, Ended
  <1>e2. counts' \in Counts
    BY <1>0, FaultEffect DEF DownFails, TypeOK
  <1>e3. /\ \/ UNCHANGED <<pg, app>>
            \/ pg' = FALSE /\ app' = NoApp /\ app'.key = 0
         /\ pg' \in BOOLEAN /\ app' \in App
    BY <1>0, NoTypes DEF DownFails, TypeOK
  <1>e4. parted' = (parted \/ (op.flag /\ db.there))
    BY DEF DownFails
  <1>e5. /\ parted' \in BOOLEAN
         /\ ~parted' => ~parted /\ ~(op.flag /\ db.there)
    BY <1>0, <1>e4 DEF TypeOK
  <1>e6. UNCHANGED <<host, db, archive, bak, fresh>>
    BY DEF DownFails
  <1>1. TypeOK'
    BY <1>0, <1>e1, <1>e2, <1>e3, <1>e4, <1>e5, <1>e6 DEF TypeOK, OpAt
  <1>2. StepsOfCommands'
    BY <1>e1, <1>e6 DEF OperatorInv, StepsOfCommands, Exclusive, Ended, OpAt
  <1>3. NothingWithoutVolume'
    BY <1>e1, <1>e3, <1>e5, <1>e6 DEF OperatorInv, NothingWithoutVolume, OpAt
  <1>4. AppHasKey'
    BY <1>e3, <1>e5, <1>e6 DEF OperatorInv, AppHasKey, KeyRead
  <1>5. SecretsTogether'
    BY <1>e1, <1>e5, <1>e6 DEF OperatorInv, SecretsTogether, HasKey, Composed, OpAt
  <1>6. ArchiveTogether'
    BY <1>e5, <1>e6 DEF OperatorInv, ArchiveTogether, HasKey, Filed
  <1>7. Unpacked' /\ RestoredKey' /\ RestoredData' /\ InstallKeepsTo'
    BY <1>e1 DEF OperatorInv, Unpacked, OpAt, RestoredKey, RestoredData,
       StepsOfCommands, InstallKeepsTo
  <1> QED
    BY <1>1, <1>2, <1>3, <1>4, <1>5, <1>6, <1>7 DEF OperatorInv

(* RemoveOpt keeps the invariant.                                          *)
LEMMA RemoveOptInv == ASSUME OperatorInv, RemoveOpt PROVE OperatorInv'
  <1>0. TypeOK
    BY DEF OperatorInv
  <1>e1. op.pc = "rmopt" /\ OpAt("rmetc")
    BY <1>0, GotoEffect DEF RemoveOpt, Pc
  <1>e2. host["key"] \in File /\ "key" \in FileName
    BY <1>0 DEF TypeOK, FileName
  <1>e3. host' = [NoFiles EXCEPT !["key"] = host["key"]]
    BY DEF RemoveOpt
  <1>e4. /\ host' \in [FileName -> File] /\ host'["key"] = host["key"]
         /\ \A n \in FileName \ {"key"} : host'[n].st = "none"
    BY <1>e2, <1>e3, NoTypes DEF NoFiles
  <1>e5. host'["compose"].st = "none" /\ host'["env"].st = "none"
    BY <1>e4 DEF FileName
  <1>e6. UNCHANGED <<db, pg, app, archive, bak, fresh, counts, parted>>
    BY DEF RemoveOpt
  <1>1. TypeOK'
    BY <1>0, <1>e1, <1>e2, <1>e3, <1>e4, <1>e5, <1>e6 DEF TypeOK, OpAt
  <1>2. StepsOfCommands'
    BY <1>e1, <1>e6 DEF OperatorInv, StepsOfCommands, Exclusive, Ended, OpAt
  <1>3. NothingWithoutVolume'
    BY <1>e1, <1>e5, <1>e6 DEF OperatorInv, NothingWithoutVolume, OpAt
  <1>4. AppHasKey'
    BY <1>e4, <1>e6 DEF OperatorInv, AppHasKey, KeyRead
  <1>5. SecretsTogether'
    BY <1>e1, <1>e4, <1>e5, <1>e6 DEF OperatorInv, SecretsTogether,
       NothingWithoutVolume, HasKey, Composed, OpAt
  <1>6. ArchiveTogether'
    BY <1>e4, <1>e6 DEF OperatorInv, ArchiveTogether, HasKey, Filed
  <1>7. Unpacked' /\ RestoredKey' /\ RestoredData' /\ InstallKeepsTo'
    BY <1>e1 DEF OperatorInv, Unpacked, OpAt, RestoredKey, RestoredData, InstallKeepsTo
  <1> QED
    BY <1>1, <1>2, <1>3, <1>4, <1>5, <1>6, <1>7 DEF OperatorInv

(* RemoveEtc keeps the invariant.                                          *)
LEMMA RemoveEtcInv == ASSUME OperatorInv, RemoveEtc PROVE OperatorInv'
  <1>0. TypeOK
    BY DEF OperatorInv
  <1>e1. op.pc = "rmetc" /\ OpAt("ok")
    BY <1>0, GotoEffect DEF RemoveEtc, Pc, Ended
  <1>e2. HostBut("key", NoFile) /\ NoFile.st = "none"
    BY <1>0, NoTypes, HostEffect DEF RemoveEtc, FileName
  <1>e3. host'["compose"].st = "none"
    BY <1>e1, <1>e2 DEF OperatorInv, NothingWithoutVolume, HostBut, FileName
  <1>e4. ~parted => ~db.there /\ db.rows = {}
    BY <1>e1, NoTypes DEF OperatorInv, NothingWithoutVolume
  <1>e5. UNCHANGED <<db, pg, app, archive, bak, fresh, counts, parted>>
    BY DEF RemoveEtc
  <1>1. TypeOK'
    BY <1>0, <1>e1, <1>e2, <1>e3, <1>e4, <1>e5 DEF TypeOK, OpAt, HostBut
  <1>2. StepsOfCommands' /\ NothingWithoutVolume'
    BY <1>e1, <1>e5 DEF OperatorInv, StepsOfCommands, Exclusive, Ended, OpAt,
       NothingWithoutVolume
  <1>3. AppHasKey'
    BY <1>e4, <1>e5 DEF OperatorInv, AppHasKey, NothingWithoutVolume, NoApp
  <1>4. SecretsTogether'
    BY <1>e1, <1>e3, <1>e4, <1>e5 DEF OperatorInv, SecretsTogether, OpAt
  <1>5. ArchiveTogether'
    BY <1>e4, <1>e5 DEF OperatorInv, ArchiveTogether, Filed
  <1>6. Unpacked' /\ RestoredKey' /\ RestoredData' /\ InstallKeepsTo'
    BY <1>e1 DEF OperatorInv, Unpacked, OpAt, RestoredKey, RestoredData,
       StepsOfCommands, InstallKeepsTo
  <1> QED
    BY <1>1, <1>2, <1>3, <1>4, <1>5, <1>6 DEF OperatorInv

(* ReadFile keeps the invariant.                                           *)
LEMMA ReadFileInv == ASSUME OperatorInv, ReadFile PROVE OperatorInv'
  <1>0. TypeOK
    BY DEF OperatorInv
  <1>e1. bak # 0 /\ bak \in 1 .. Len(Order)
    <2>1. bak # 0
      BY DEF ReadFile
    <2>2. Len(Order) = 4 /\ bak \in 0 .. Len(Order)
      BY <1>0 DEF TypeOK, Order
    <2> QED
      BY <2>1, <2>2
  <1>e2. Order[bak] \in FileName
    BY <1>e1 DEF Order, FileName
  <1>e3. UNCHANGED <<host, db, pg, app, op, fresh, counts, parted>>
    BY DEF ReadFile
  <1>e4. archive \in Archive /\ host[Order[bak]] \in File
    BY <1>0, <1>e2 DEF TypeOK
  <1>1. CASE host[Order[bak]].st = "none" /\ Order[bak] # "version"
    <2>e1. bak' = 0 /\ archive' = [archive EXCEPT !.st = "partial"]
      BY <1>1 DEF ReadFile
    <2>e2. /\ archive' \in Archive /\ archive'.rows = archive.rows
           /\ archive'.schema = archive.schema /\ archive'.files = archive.files
           /\ bak' \in 0 .. Len(Order)
      BY <1>e4, <2>e1 DEF Archive, Order
    <2>1. TypeOK'
      BY <1>0, <1>e1, <1>e2, <1>e3, <1>e4, <1>1, <2>e1, <2>e2 DEF TypeOK
    <2>2. StepsOfCommands'
      BY <1>e3, <1>1, <2>e1 DEF OperatorInv, StepsOfCommands
    <2>3. NothingWithoutVolume' /\ AppHasKey' /\ SecretsTogether'
      BY <1>1, <1>e3 DEF OperatorInv, NothingWithoutVolume, AppHasKey, KeyRead,
         SecretsTogether, HasKey, Composed
    <2>4. ArchiveTogether'
      BY <1>e3, <1>1, <2>e1 DEF OperatorInv, ArchiveTogether, Filed
    <2>5. Unpacked' /\ RestoredKey'
      BY <1>1, <1>e1, <1>e3 DEF OperatorInv, Unpacked, StepsOfCommands, Exclusive,
         Ended, RestoredKey
    <2>6. RestoredData'
      BY <1>e3, <1>1, <2>e2 DEF OperatorInv, RestoredData, Empty
    <2>7. InstallKeepsTo'
      BY <1>e3, <1>1 DEF OperatorInv, InstallKeepsTo, Composed
    <2> QED
      BY <2>1, <2>2, <2>3, <2>4, <2>5, <2>6, <2>7 DEF OperatorInv
  <1>2. CASE ~(host[Order[bak]].st = "none" /\ Order[bak] # "version")
    <2>e1. bak' = IF bak = Len(Order) THEN 0 ELSE bak + 1
      BY <1>2 DEF ReadFile
    <2>e2. PICK f \in {host[Order[bak]]} \cup {Torn(host[Order[bak]]) : m \in {Order[bak]} \cap
           {k \in FileName : BeingWritten(k)}} :
              archive' = [archive EXCEPT !.files[Order[bak]] = f,
                              !.st = IF bak = Len(Order) THEN "complete" ELSE @]
      BY <1>2 DEF ReadFile
    <2>e3. f \in File /\ (f = host[Order[bak]] \/ f.st = "torn")
      BY <1>e4, <2>e2, TornFile
    <2>e4. /\ archive' \in Archive /\ archive'.rows = archive.rows
           /\ archive'.schema = archive.schema
           /\ archive'.files[Order[bak]] = f
           /\ \A n \in FileName \ {Order[bak]} : archive'.files[n] = archive.files[n]
      BY <1>e2, <1>e4, <2>e2, <2>e3 DEF Archive
    <2>e5. bak' \in 0 .. Len(Order)
      BY <1>e1, <2>e1 DEF Order
    <2>1. TypeOK'
      BY <1>0, <1>e1, <1>e2, <1>e3, <1>e4, <1>2, <2>e1, <2>e2, <2>e3, <2>e4, <2>e5 DEF
         TypeOK
    <2>2. StepsOfCommands'
      BY <1>e1, <1>e3, <1>2 DEF OperatorInv, StepsOfCommands, Exclusive
    <2>3. NothingWithoutVolume' /\ AppHasKey' /\ SecretsTogether'
      BY <1>2, <1>e3 DEF OperatorInv, NothingWithoutVolume, AppHasKey, KeyRead,
         SecretsTogether, HasKey, Composed
    <2>4. ArchiveTogether'
      BY <1>e1, <1>e3, <1>2, <2>e2, <2>e3 DEF OperatorInv, ArchiveTogether,
         SecretsTogether, HasKey, Filed
    <2>5. Unpacked' /\ RestoredKey'
      BY <1>2, <1>e1, <1>e3 DEF OperatorInv, Unpacked, StepsOfCommands, Exclusive,
         Ended, RestoredKey
    <2>6. RestoredData'
      BY <1>e3, <1>2, <2>e4 DEF OperatorInv, RestoredData, Empty
    <2>7. InstallKeepsTo'
      BY <1>e3, <1>2 DEF OperatorInv, InstallKeepsTo, Composed
    <2> QED
      BY <2>1, <2>2, <2>3, <2>4, <2>5, <2>6, <2>7 DEF OperatorInv
  <1> QED
    BY <1>1, <1>2, <1>0, <1>e1, <1>e2, <1>e3, <1>e4

(* Unpack keeps the invariant.                                             *)
LEMMA UnpackInv == ASSUME OperatorInv, Unpack PROVE OperatorInv'
  <1>0. TypeOK
    BY DEF OperatorInv
  <1>e1. op.pc = "unpack" /\ op.i \in 1 .. Len(Order) /\ op \in Command
    BY <1>0 DEF Unpack, TypeOK, Command
  <1>e2. UNCHANGED <<db, pg, app, archive, bak, fresh, counts, parted>>
    BY DEF Unpack
  <1>e3. Order[op.i] \in FileName
    BY <1>e1 DEF Order, FileName
  <1>e4. archive.files \in [FileName -> File] /\ archive.files[Order[op.i]] \in File
    BY <1>0, <1>e3 DEF TypeOK, Archive
  <1>e5. /\ op' \in Command /\ op'.cmd = op.cmd /\ op'.want = op.want /\ op'.flag = op.flag
         /\ \/ op.i < Len(Order) /\ op'.pc = "unpack" /\ op'.i = op.i + 1
            \/ op.i = Len(Order) /\ op'.pc \in {"failed", "pgup"}
    <2>1. CASE op.i < Len(Order)
      <3>1. op' = [op EXCEPT !.i = @ + 1]
        BY <2>1 DEF Unpack
      <3>2. op.i + 1 \in 1 .. Len(Order)
        BY <1>e1, <2>1 DEF Order
      <3> QED
        BY <1>e1, <2>1, <3>1, <3>2 DEF Command
    <2>2. CASE ~(op.i < Len(Order))
      <3>1. OpAt("failed") \/ OpAt("pgup")
        BY <1>0, <2>2, GotoEffect DEF Unpack, Pc, Ended
      <3>2. op.i = Len(Order)
        BY <1>e1, <2>2 DEF Order
      <3> QED
        BY <3>1, <3>2 DEF OpAt
    <2> QED
      BY <2>1, <2>2
  <1>e6. /\ Len(Order) = 4 /\ Order[1] = "key" /\ Order[2] = "compose" /\ Order[3] = "env"
         /\ Order[4] = "version"
    BY DEF Order
  <1>e7. /\ host' \in [FileName -> File]
         /\ \A n \in FileName \ {Order[op.i]} : host'[n] = host[n]
         /\ archive.files[Order[op.i]].st # "none" =>
               host'[Order[op.i]] = Written(Order[op.i], archive.files[Order[op.i]])
    <2>1. CASE archive.files[Order[op.i]].st = "none"
      BY <1>0, <2>1 DEF Unpack, TypeOK
    <2>2. CASE archive.files[Order[op.i]].st # "none"
      BY <1>0, <1>e3, <1>e4, <2>2, WrittenFile, HostEffect DEF Unpack, HostBut
    <2> QED
      BY <2>1, <2>2
  <1>e8. ASSUME NEW n \in {"key", "compose", "env"}, ~parted
         PROVE  IF n = Order[op.i]
                THEN /\ host'[n].st = "whole" /\ host'[n].key = archive.files[n].key
                     /\ host'[n].pass = archive.files[n].pass
                     /\ host[n].st # "none" => host'[n].own = host[n].own
                ELSE host'[n] = host[n]
    <2>1. n \in FileName /\ archive.files[n] \in File /\ archive.files[n].st = "whole"
      BY <1>e1, <1>e4, <1>e8 DEF OperatorInv, Unpacked, Filed, FileName
    <2> QED
      BY <1>0, <1>e7, <2>1, WrittenFile
  <1>e9. /\ ~parted /\ op.i = 1 =>
               /\ host'["key"].st = "whole" /\ host'["key"].key = archive.files["key"].key
               /\ host["key"].st # "none" => host'["key"].own = host["key"].own
         /\ ~parted /\ op.i # 1 => host'["key"] = host["key"]
    BY <1>e1, <1>e6, <1>e8
  <1>e10. /\ ~parted /\ op.i = 2 =>
                /\ host'["compose"].st = "whole"
                /\ host'["compose"].pass = archive.files["compose"].pass
          /\ ~parted /\ op.i # 2 => host'["compose"] = host["compose"]
    BY <1>e1, <1>e6, <1>e8
  <1>e11. /\ ~parted /\ op.i = 3 =>
                /\ host'["env"].st = "whole" /\ host'["env"].pass = archive.files["env"].pass
          /\ ~parted /\ op.i # 3 => host'["env"] = host["env"]
    BY <1>e1, <1>e6, <1>e8
  <1>e12. ~parted => Filed("key") /\ Filed("compose") /\ Filed("env")
    BY <1>e1 DEF OperatorInv, Unpacked
  <1>1. TypeOK'
    BY <1>0, <1>e1, <1>e2, <1>e3, <1>e4, <1>e5, <1>e6, <1>e7, <1>e8, <1>e9, <1>e10,
       <1>e11, <1>e12 DEF TypeOK, OpAt
  <1>2. StepsOfCommands'
    BY <1>e1, <1>e2, <1>e5 DEF OperatorInv, StepsOfCommands, Exclusive, Ended
  <1>3. NothingWithoutVolume'
    BY <1>e2, <1>e5 DEF OperatorInv, NothingWithoutVolume
  <1>4. AppHasKey'
    BY <1>e1, <1>e2, <1>e9, NoTypes DEF OperatorInv, AppHasKey, NothingWithoutVolume,
       Unpacked, KeyRead
  <1>5. SecretsTogether'
    BY <1>e1, <1>e2, <1>e5, <1>e6, <1>e9, <1>e10, <1>e11, NoTypes DEF OperatorInv,
       SecretsTogether, NothingWithoutVolume, Unpacked, ArchiveTogether, HasKey
  <1>6. ArchiveTogether'
    BY <1>e2, <1>e9, <1>e12 DEF OperatorInv, ArchiveTogether, Exclusive, Ended, HasKey
  <1>7. Unpacked'
    BY <1>e1, <1>e2, <1>e5, <1>e9, <1>e10, <1>e11 DEF OperatorInv, Unpacked, HasKey, Filed
  <1>8. RestoredKey'
    BY <1>e1, <1>e2, <1>e9 DEF OperatorInv, RestoredKey, Unpacked, HasKey, Filed
  <1>9. RestoredData'
    BY <1>e1, <1>e2, <1>e5 DEF OperatorInv, RestoredData
  <1>10. InstallKeepsTo'
    BY <1>e5 DEF OperatorInv, InstallKeepsTo
  <1> QED
    BY <1>1, <1>2, <1>3, <1>4, <1>5, <1>6, <1>7, <1>8, <1>9, <1>10 DEF OperatorInv

(* Interrupt keeps the invariant.                                          *)
LEMMA InterruptInv == ASSUME OperatorInv, Interrupt PROVE OperatorInv'
  <1>0. TypeOK
    BY DEF OperatorInv
  <1>e1. OpAt("failed") /\ counts' \in Counts /\ op.pc \notin Ended
    BY <1>0, GotoEffect, FaultEffect DEF Interrupt, Pc, Ended
  <1>e2. parted' = (parted \/ op.pc = "unpack" \/ Orphaned)
    BY DEF Interrupt
  <1>e3. /\ parted' \in BOOLEAN
         /\ ~parted' => ~parted /\ op.pc # "unpack" /\ ~Orphaned
    BY <1>0, <1>e2 DEF TypeOK, Orphaned
  <1>e4. UNCHANGED <<archive, bak>>
    BY DEF Interrupt
  <1>1. CASE UNCHANGED <<host, db, pg, app, fresh>>
    <2>1. TypeOK'
      BY <1>0, <1>e1, <1>e2, <1>e3, <1>e4, <1>1 DEF TypeOK, OpAt, HostBut
    <2>2. StepsOfCommands'
      BY <1>e1, <1>e4, <1>1 DEF OperatorInv, StepsOfCommands, Exclusive, OpAt
    <2>3. NothingWithoutVolume'
      BY <1>e1, <1>1 DEF OperatorInv, NothingWithoutVolume, OpAt
    <2>4. AppHasKey'
      BY <1>e3, <1>1 DEF OperatorInv, AppHasKey, KeyRead
    <2>5. SecretsTogether'
      BY <1>e1, <1>e3, <1>1 DEF OperatorInv, SecretsTogether, HasKey, Composed, OpAt
    <2>6. ArchiveTogether'
      BY <1>e3, <1>e4, <1>1 DEF OperatorInv, ArchiveTogether, HasKey, Filed
    <2>7. Unpacked' /\ RestoredKey' /\ RestoredData' /\ InstallKeepsTo'
      BY <1>e1 DEF Unpacked, OpAt, RestoredKey, RestoredData, InstallKeepsTo
    <2> QED
      BY <2>1, <2>2, <2>3, <2>4, <2>5, <2>6, <2>7 DEF OperatorInv
  <1>2. CASE /\ \E n \in FileName :
                BeingWritten(n) /\ host' = [host EXCEPT ![n] = Torn(@)]
          /\ UNCHANGED <<db, pg, app, fresh>>
    <2>e1. PICK n \in FileName : BeingWritten(n) /\ host' = [host EXCEPT ![n] = Torn(@)]
      BY <1>2
    <2>e2. host[n] \in File
      BY <1>0 DEF TypeOK
    <2>e3. HostBut(n, Torn(host[n])) /\ Torn(host[n]).st = "torn"
      BY <1>0, <2>e1, <2>e2, TornFile, HostEffect
    <2>e4. ~parted' => \/ n = "key" /\ op.pc = "key" /\ host["key"].st = "none"
                       \/ n = "env" /\ op.pc = "env" /\ host["env"].st = "none"
                       \/ n = "env" /\ op.pc = "patch" /\ host["env"].st # "none"
                       \/ n \in {"compose", "version"} /\ op.pc = n
      BY <1>e3, <2>e1 DEF BeingWritten
    <2>1. TypeOK'
      BY <1>0, <1>e1, <1>e2, <1>e3, <1>e4, <1>2, <2>e1, <2>e2, <2>e3, <2>e4 DEF TypeOK,
         OpAt, HostBut
    <2>2. StepsOfCommands'
      BY <1>e1, <1>e4, <1>2 DEF OperatorInv, StepsOfCommands, Exclusive, OpAt
    <2>3. NothingWithoutVolume'
      BY <1>e1, <1>2 DEF OperatorInv, NothingWithoutVolume, OpAt
    <2>4. AppHasKey'
      BY <1>e3, <1>2, <2>e1, <2>e4 DEF OperatorInv, AppHasKey, KeyRead
    <2>5. SecretsTogether'
      BY <1>e1, <1>e3, <1>2, <2>e1, <2>e3, <2>e4 DEF OperatorInv, SecretsTogether,
         HasKey, Composed, OpAt
    <2>6. ArchiveTogether'
      BY <1>e3, <1>e4, <1>2, <2>e1, <2>e4 DEF OperatorInv, ArchiveTogether, HasKey, Filed
    <2>7. Unpacked' /\ RestoredKey' /\ RestoredData' /\ InstallKeepsTo'
      BY <1>e1 DEF Unpacked, OpAt, RestoredKey, RestoredData, InstallKeepsTo
    <2> QED
      BY <2>1, <2>2, <2>3, <2>4, <2>5, <2>6, <2>7 DEF OperatorInv
  <1>3. CASE /\ op.pc = "key" /\ host["key"].st = "none"
          /\ host' = [host EXCEPT !["key"] = NewKey("root")] /\ fresh' = fresh + 1
          /\ UNCHANGED <<db, pg, app>>
    <2>e1. fresh \in Nat
      BY <1>0 DEF TypeOK
    <2>e2. HostBut("key", NewKey("root")) /\ NewKey("root").st = "whole" /\ fresh' \in Nat
      <3>1. "key" \in FileName /\ "root" \in {"root", "projectmng"}
        BY DEF FileName
      <3>2. NewKey("root") \in File /\ NewKey("root").st = "whole"
        BY <2>e1, <3>1, NewKeyFile
      <3>3. HostBut("key", NewKey("root"))
        BY <1>0, <1>3, <3>1, <3>2, HostEffect
      <3> QED
        BY <1>3, <2>e1, <3>2, <3>3
    <2>1. TypeOK'
      BY <1>0, <1>e1, <1>e2, <1>e3, <1>e4, <1>3, <2>e1, <2>e2 DEF TypeOK, OpAt, HostBut
    <2>2. StepsOfCommands' /\ NothingWithoutVolume'
      BY <1>3, <1>e1 DEF OperatorInv, StepsOfCommands, Exclusive, OpAt, NothingWithoutVolume
    <2>3. AppHasKey'
      BY <1>e3, <1>3 DEF OperatorInv, AppHasKey, KeyRead
    <2>4. SecretsTogether'
      BY <1>e1, <1>e3, <1>3 DEF OperatorInv, SecretsTogether, HasKey, Composed, OpAt
    <2>5. ArchiveTogether'
      BY <1>e3, <1>e4, <1>3 DEF OperatorInv, ArchiveTogether, HasKey, Filed
    <2>6. Unpacked' /\ RestoredKey' /\ RestoredData' /\ InstallKeepsTo'
      BY <1>e1 DEF Unpacked, OpAt, RestoredKey, RestoredData, InstallKeepsTo
    <2> QED
      BY <2>1, <2>2, <2>3, <2>4, <2>5, <2>6 DEF OperatorInv
  <1>4. CASE /\ op.pc = "up" /\ Composed
          /\ StartPostgres /\ app' \in {app, NoApp} /\ UNCHANGED <<host, fresh>>
    <2>e1. /\ pg' = TRUE /\ db' \in Database /\ db'.there
           /\ db.there => db' = db
           /\ ~db.there => /\ db'.pass = host["compose"].pass /\ db'.rows = {}
                           /\ db'.schema = 0 /\ ~db'.broken
      BY <1>0, <1>4, StartPostgresEffect
    <2>e2. app' \in App /\ (app' = app \/ app'.key = 0)
      BY <1>0, <1>4, NoTypes DEF TypeOK
    <2>1. TypeOK'
      BY <1>0, <1>e1, <1>e2, <1>e3, <1>e4, <1>4, <2>e1, <2>e2 DEF TypeOK, OpAt, HostBut
    <2>2. StepsOfCommands'
      BY <1>e1, <1>e4, <1>4 DEF OperatorInv, StepsOfCommands, Exclusive, OpAt
    <2>3. NothingWithoutVolume'
      BY <1>e1, <1>4, <2>e1 DEF OperatorInv, NothingWithoutVolume, OpAt
    <2>4. AppHasKey'
      BY <1>e3, <1>4, <2>e2 DEF OperatorInv, AppHasKey, KeyRead
    <2>5. SecretsTogether'
      BY <1>e3, <1>4, <2>e1 DEF OperatorInv, SecretsTogether, HasKey, Composed
    <2>6. ArchiveTogether'
      BY <1>e3, <1>e4, <1>4, <2>e1 DEF OperatorInv, ArchiveTogether, HasKey, Filed
    <2>7. Unpacked' /\ RestoredKey' /\ RestoredData' /\ InstallKeepsTo'
      BY <1>e1 DEF Unpacked, OpAt, RestoredKey, RestoredData, InstallKeepsTo
    <2> QED
      BY <2>1, <2>2, <2>3, <2>4, <2>5, <2>6, <2>7 DEF OperatorInv
  <1>5. CASE /\ op.pc = "rmopt"
          /\ \E gone \in SUBSET (FileName \ {"key"}) :
                host' = [n \in FileName |-> IF n \in gone THEN NoFile ELSE host[n]]
          /\ UNCHANGED <<db, pg, app, fresh>>
    <2>e1. /\ host' \in [FileName -> File] /\ host'["key"] = host["key"]
           /\ \A n \in FileName : host'[n] = host[n] \/ host'[n].st = "none"
      <3>1. PICK gone \in SUBSET (FileName \ {"key"}) :
                host' = [n \in FileName |-> IF n \in gone THEN NoFile ELSE host[n]]
        BY <1>5
      <3> QED
        BY <1>0, <3>1, NoTypes DEF TypeOK, FileName
    <2>e2. UNCHANGED <<db, pg, app, fresh>> /\ op.pc = "rmopt"
      BY <1>5
    <2>e3. ~parted => ~db.there /\ db.rows = {} /\ app.key = 0
      BY <2>e2, NoTypes DEF OperatorInv, NothingWithoutVolume
    <2>e4. ~parted' => \/ host'["compose"].st # "whole"
                       \/ host'["compose"] = host["compose"] /\ host'["env"] = host["env"]
      BY <1>e3, <2>e1, <2>e2 DEF Orphaned, Composed, FileName
    <2>1. TypeOK'
      BY <1>0, <1>e1, <1>e2, <1>e3, <1>e4, <1>5, <2>e1, <2>e2, <2>e3, <2>e4 DEF TypeOK,
         OpAt, HostBut
    <2>2. StepsOfCommands'
      BY <1>e1, <1>e4, <1>5 DEF OperatorInv, StepsOfCommands, Exclusive, OpAt
    <2>3. NothingWithoutVolume'
      BY <1>e1, <1>5 DEF OperatorInv, NothingWithoutVolume, OpAt
    <2>4. AppHasKey'
      BY <1>e3, <2>e2, <2>e3 DEF AppHasKey
    <2>5. SecretsTogether'
      BY <1>e1, <1>e3, <2>e1, <2>e2, <2>e3, <2>e4 DEF OperatorInv, SecretsTogether, OpAt
    <2>6. ArchiveTogether'
      BY <1>e3, <1>e4, <2>e3 DEF OperatorInv, ArchiveTogether, Filed, Exclusive, Ended
    <2>7. Unpacked' /\ RestoredKey' /\ RestoredData' /\ InstallKeepsTo'
      BY <1>e1 DEF Unpacked, OpAt, RestoredKey, RestoredData, InstallKeepsTo
    <2> QED
      BY <2>1, <2>2, <2>3, <2>4, <2>5, <2>6, <2>7 DEF OperatorInv
  <1> QED
    BY <1>1, <1>2, <1>3, <1>4, <1>5, <1>0, <1>e1, <1>e2, <1>e3, <1>e4 DEF Interrupt

-----------------------------------------------------------------------------
(* The theorems.                                                           *)

(* An empty host satisfies the invariant.                                  *)
LEMMA InitInv == ASSUME Init PROVE OperatorInv
  <1>1. /\ NoCommand \in Command /\ NoCommand.cmd = "none" /\ NoCommand.pc = "ok"
        /\ 0 \in 0 .. Len(Order)
    BY Bounds DEF NoCommand, Command, Pc, Ended, Order
  <1>2. [commands |-> 0, backups |-> 0, faults |-> 0] \in Counts
    BY Bounds DEF Counts
  <1>3. TypeOK
    BY <1>1, <1>2, NoTypes DEF Init, TypeOK
  <1>4. /\ \A n \in FileName : host[n].st = "none" /\ archive.files[n].st = "none"
        /\ archive.rows = {}
    BY DEF Init, NoFiles, NoFile, NoArchive
  <1>5. StepsOfCommands /\ NothingWithoutVolume /\ AppHasKey /\ InstallKeepsTo
    BY <1>1, NoTypes DEF Init, StepsOfCommands, NothingWithoutVolume, AppHasKey,
       InstallKeepsTo
  <1>6. SecretsTogether /\ ArchiveTogether
    BY <1>1, <1>4, NoTypes DEF Init, SecretsTogether, ArchiveTogether, FileName, Filed
  <1>7. Unpacked /\ RestoredKey /\ RestoredData
    BY <1>1 DEF Init, Unpacked, RestoredKey, RestoredData
  <1> QED
    BY <1>3, <1>5, <1>6, <1>7 DEF OperatorInv

(* Every step keeps the invariant.                                         *)
LEMMA NextInv == ASSUME OperatorInv, [Next]_vars PROVE OperatorInv'
  <1>1. CASE UNCHANGED vars
    BY <1>1 DEF vars, OperatorInv, TypeOK, StepsOfCommands, NothingWithoutVolume, AppHasKey,
       SecretsTogether, ArchiveTogether, Unpacked, RestoredKey, RestoredData, InstallKeepsTo,
       HasKey, Filed, KeyRead, Exclusive, Empty, Composed
  <1>2. CASE \/ StartInstall \/ GenerateKey \/ WriteEnv \/ RenderCompose
             \/ StartUpdate \/ PatchEnv \/ Pull \/ Up \/ Migrate \/ RecordVersion
    BY <1>2, StartInstallInv, GenerateKeyInv, WriteEnvInv, RenderComposeInv, StartUpdateInv,
       PatchEnvInv, PullInv, UpInv, MigrateInv, RecordVersionInv
  <1>3. CASE StoreSecret \/ RestartApp \/ StartBackup \/ ReadFile \/ InterruptBackup
    BY <1>3, StoreSecretInv, RestartAppInv, StartBackupInv, ReadFileInv, InterruptBackupInv
  <1>4. CASE StartRestore \/ Unpack \/ UpPostgres \/ Psql \/ PsqlCut
    BY <1>4, StartRestoreInv, UnpackInv, UpPostgresInv, PsqlInv, PsqlCutInv
  <1>5. CASE StartUninstall \/ Down \/ DownFails \/ RemoveOpt \/ RemoveEtc \/ Interrupt
    BY <1>5, StartUninstallInv, DownInv, DownFailsInv, RemoveOptInv, RemoveEtcInv,
       InterruptInv
  <1> QED
    BY <1>1, <1>2, <1>3, <1>4, <1>5 DEF Next

(* The invariant above holds in every state the operator can bring a host  *)
(* to, for every number of releases, commands, backups, faults and rows.   *)
THEOREM OperatorInvariant == Spec => []OperatorInv
  <1> QED
    BY InitInv, NextInv, PTL DEF Spec

(* Type correctness.                                                       *)
THEOREM TypeCorrect == Spec => []TypeOK
  <1>1. OperatorInv => TypeOK
    BY DEF OperatorInv
  <1> QED
    BY <1>1, OperatorInvariant, PTL

(* The master key on the host opens whatever the database holds, unless    *)
(* one of the four events of `parted' separated them.                      *)
THEOREM KeyAlwaysOpens == Spec => []KeyOpensData
  <1>1. OperatorInv => KeyOpensData
    BY DEF OperatorInv, SecretsTogether, HasKey, KeyOpensData
  <1> QED
    BY <1>1, OperatorInvariant, PTL

(* .env and the compose file keep the password postgres was made with.     *)
THEOREM PasswordsAlwaysAgree == Spec => []PasswordsAgree
  <1>1. OperatorInv => PasswordsAgree
    BY DEF OperatorInv, SecretsTogether, PasswordsAgree
  <1> QED
    BY <1>1, OperatorInvariant, PTL

(* An install that exits with 0 has its release running on a database it   *)
(* reaches.                                                                *)
THEOREM InstallsEndRunning == Spec => []InstallEndsRunning
  <1>1. OperatorInv => InstallEndsRunning
    <2>1. SUFFICES ASSUME OperatorInv, op.cmd = "install", op.pc = "ok"
                   PROVE  /\ app.ver = op.want /\ host["version"].ver = op.want
                          /\ app.pass = db.pass /\ db.schema >= op.want
                          /\ ~parted => app.key = host["key"].key
      BY DEF InstallEndsRunning
    <2>2. /\ app.ver = op.want /\ host["version"].ver = op.want
          /\ app.pass = db.pass /\ op.want <= db.schema
          /\ ~parted => app.key # 0
      BY <2>1 DEF OperatorInv, InstallKeepsTo
    <2>3. op.want \in Nat /\ db.schema \in Nat
      BY <2>1, Bounds DEF OperatorInv, TypeOK, Command, Database
    <2>4. ~parted => app.key = host["key"].key
      BY <2>1, <2>2, KeyReadType DEF OperatorInv, AppHasKey
    <2> QED
      BY <2>2, <2>3, <2>4
  <1> QED
    BY <1>1, OperatorInvariant, PTL

(* A restore that was not forced and exits with 0 has brought back every   *)
(* row that was archived.                                                  *)
THEOREM RestoresReproduce == Spec => []RestoreReproduces
  <1>1. OperatorInv => RestoreReproduces
    BY DEF OperatorInv, RestoredData, RestoreReproduces
  <1> QED
    BY <1>1, OperatorInvariant, PTL

=============================================================================
