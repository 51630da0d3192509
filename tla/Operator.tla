------------------------------ MODULE Operator ------------------------------
(***************************************************************************)
(* What an operator does to a host: install.sh and the commands update,    *)
(* backup, restore and uninstall of the projectmng CLI.                    *)
(*                                                                         *)
(* Each is a sequence of steps without a lock or a journal that stops at   *)
(* the first step that fails, or where it is interrupted, and is then run  *)
(* again, or another command is.  One command runs at a time, but a backup *)
(* may be taken, say by cron, while an install or an update runs.          *)
(***************************************************************************)
EXTENDS Naturals, Sequences, FiniteSets

CONSTANTS
    MaxVersion,   \* releases are 1 .. MaxVersion
    MaxCommands,  \* bound on the installs, updates, restores and uninstalls
    MaxBackups,   \* bound on the backups
    MaxFaults,    \* bound on the steps that fail or are interrupted
    MaxRows       \* bound on the secrets the database holds

ASSUME BoundsAssumption ==
    {MaxVersion, MaxCommands, MaxBackups, MaxFaults, MaxRows} \subseteq Nat

VARIABLES
    host,     \* the files of /opt/projectmng and /etc/projectmng
    db,       \* the volume pg_data
    pg,       \* whether postgres runs
    app,      \* the container of pm-api: what it was created with
    archive,  \* the backup
    op,       \* the command that runs, or the last one
    bak,      \* the backup that runs: the next file to read, or 0
    fresh,    \* secrets, passwords and identifiers of rows made so far
    counts,   \* commands, backups and faults so far
    parted    \* history: the data may have been parted from its secrets

vars == <<host, db, pg, app, archive, op, bak, fresh, counts, parted>>

-----------------------------------------------------------------------------

Version == 1 .. MaxVersion

(* The files in the order in which they are archived; github-app.pem goes  *)
(* with the key.                                                           *)
Order == <<"key", "compose", "env", "version">>
FileName == {"key", "compose", "env", "version"}

(* A torn file is one whose writing was cut short.  A file holds what of   *)
(* the key, the password of the database and the version it is made of.    *)
File == [st : {"none", "torn", "whole"}, own : {"root", "projectmng"},
         key : Nat, pass : Nat, ver : Nat]
NoFile == [st |-> "none", own |-> "root", key |-> 0, pass |-> 0, ver |-> 0]
Torn(f) == [NoFile EXCEPT !.st = "torn", !.own = f.own]
NoFiles == [n \in FileName |-> NoFile]

(* A row of the database holds something encrypted under a master key.     *)
Row == [id : Nat, key : Nat]
Database == [there : BOOLEAN, pass : Nat, rows : SUBSET Row, schema : Nat,
             broken : BOOLEAN]
NoDatabase == [there |-> FALSE, pass |-> 0, rows |-> {}, schema |-> 0,
               broken |-> FALSE]

(* key = 0: the process has not come up.                                   *)
App == [ver : Nat, pass : Nat, key : Nat]
NoApp == [ver |-> 0, pass |-> 0, key |-> 0]

Archive == [st : {"none", "open", "cut", "partial", "complete"},
            rows : SUBSET Row, schema : Nat, files : [FileName -> File]]
NoArchive == [st |-> "none", rows |-> {}, schema |-> 0, files |-> NoFiles]

Ended == {"ok", "failed"}
Pc == Ended \cup {"key", "env", "compose", "pull", "up", "migrate", "version",
                  "patch", "unpack", "pgup", "psql", "down", "rmopt", "rmetc"}
Command == [cmd : {"none", "install", "update", "restore", "uninstall"},
            pc : Pc, want : 0 .. MaxVersion, flag : BOOLEAN, i : 1 .. Len(Order)]
NoCommand == [cmd |-> "none", pc |-> "ok", want |-> 0, flag |-> FALSE, i |-> 1]

Counts == [commands : 0 .. MaxCommands, backups : 0 .. MaxBackups,
           faults : 0 .. MaxFaults]

Init ==
    /\ host = NoFiles /\ db = NoDatabase /\ pg = FALSE /\ app = NoApp
    /\ archive = NoArchive /\ op = NoCommand /\ bak = 0 /\ fresh = 0
    /\ counts = [commands |-> 0, backups |-> 0, faults |-> 0]
    /\ parted = FALSE

Start(cmd, pc, want, flag) ==
    /\ op.pc \in Ended /\ counts.commands < MaxCommands
    /\ op' = [cmd |-> cmd, pc |-> pc, want |-> want, flag |-> flag, i |-> 1]
    /\ counts' = [counts EXCEPT !.commands = @ + 1]

Goto(pc) == op' = [op EXCEPT !.pc = pc]

Fault ==
    /\ counts.faults < MaxFaults
    /\ counts' = [counts EXCEPT !.faults = @ + 1]

-----------------------------------------------------------------------------
(* install.sh.  The key and the passwords are made once; what is rendered  *)
(* into the compose file is the version and the password themselves.       *)

StartInstall ==
    /\ \E v \in Version : Start("install", "key", v, FALSE)
    /\ UNCHANGED <<host, db, pg, app, archive, bak, fresh, parted>>

NewKey(own) ==
    [st |-> "whole", own |-> own, key |-> fresh + 1, pass |-> 0, ver |-> 0]

(* Mutant: the key is made on every run.                                *)
GenerateKeyAgain ==
    /\ op.pc = "key" /\ Goto("env")
    /\ host' = [host EXCEPT !["key"] = NewKey("projectmng")]
    /\ fresh' = fresh + 1
    /\ UNCHANGED <<db, pg, app, archive, bak, counts, parted>>

GenerateKey ==
    /\ op.pc = "key" /\ Goto("env")
    /\ IF host["key"].st = "none"
       THEN /\ host' = [host EXCEPT !["key"] = NewKey("projectmng")]
            /\ fresh' = fresh + 1
       ELSE UNCHANGED <<host, fresh>>
    /\ UNCHANGED <<db, pg, app, archive, bak, counts, parted>>

NewEnv ==
    [st |-> "whole", own |-> "projectmng", key |-> 0, pass |-> fresh + 1,
     ver |-> op.want]

(* The line VERSION= of a file .env.                                       *)
Pinned(f) == IF f.st = "whole" THEN [f EXCEPT !.ver = op.want] ELSE f

(* Mutant: the secrets of .env are made on every run.                   *)
WriteEnvAgain ==
    /\ op.pc = "env" /\ Goto("compose")
    /\ host' = [host EXCEPT !["env"] = NewEnv] /\ fresh' = fresh + 1
    /\ UNCHANGED <<db, pg, app, archive, bak, counts, parted>>

WriteEnv ==
    /\ op.pc = "env" /\ Goto("compose")
    /\ IF host["env"].st = "none"
       THEN host' = [host EXCEPT !["env"] = NewEnv] /\ fresh' = fresh + 1
       ELSE host' = [host EXCEPT !["env"] = Pinned(@)] /\ UNCHANGED fresh
    /\ UNCHANGED <<db, pg, app, archive, bak, counts, parted>>

RenderCompose ==
    /\ op.pc = "compose" /\ Goto("pull")
    /\ host' = [host EXCEPT !["compose"] = [host["env"] EXCEPT !.own = "projectmng"]]
    /\ UNCHANGED <<db, pg, app, archive, bak, fresh, counts, parted>>

-----------------------------------------------------------------------------
(* update [--version v]: patchEnvVersion, then what install.sh ends with.  *)

StartUpdate ==
    /\ \E v \in 0 .. MaxVersion :
        Start("update", IF v = 0 THEN "pull" ELSE "patch", v, FALSE)
    /\ UNCHANGED <<host, db, pg, app, archive, bak, fresh, parted>>

PatchEnv ==
    /\ op.pc = "patch"
    /\ host' = [host EXCEPT !["env"] = Pinned(@)]
    /\ Goto(IF host["env"].st = "none" THEN "failed" ELSE "pull")
    /\ UNCHANGED <<db, pg, app, archive, bak, fresh, counts, parted>>

-----------------------------------------------------------------------------
(* docker compose, which reads the compose file alone: all in it is text.  *)

Composed == host["compose"].st = "whole"

Pull ==
    /\ op.pc = "pull" /\ Goto(IF Composed THEN "up" ELSE "failed")
    /\ UNCHANGED <<host, db, pg, app, archive, bak, fresh, counts, parted>>

(* The key as pm-api, which runs as projectmng, reads it when it starts.   *)
KeyRead ==
    IF host["key"].st = "whole" /\ host["key"].own = "projectmng"
    THEN host["key"].key ELSE 0

(* postgres makes its volume, with the password of the file, only once.    *)
StartPostgres ==
    /\ pg' = TRUE
    /\ db' = IF db.there THEN db
             ELSE [NoDatabase EXCEPT !.there = TRUE, !.pass = host["compose"].pass]

(* A container that runs and whose part of the file is the same is kept.   *)
StartApp ==
    LET c == host["compose"]
        kept == app.ver = c.ver /\ app.pass = c.pass /\ app.key # 0
    IN  app' = IF kept THEN app ELSE [ver |-> c.ver, pass |-> c.pass, key |-> KeyRead]

Up ==
    /\ op.pc = "up"
    /\ IF Composed
       THEN StartPostgres /\ StartApp /\ Goto(IF op.cmd = "restore" THEN "ok" ELSE "migrate")
       ELSE Goto("failed") /\ UNCHANGED <<db, pg, app>>
    /\ UNCHANGED <<host, archive, bak, fresh, counts, parted>>

(* Mutant: a migration that fails does not end the command.             *)
MigrateUnchecked ==
    /\ op.pc = "migrate" /\ Goto("version")
    /\ UNCHANGED <<host, db, pg, app, archive, bak, fresh, counts, parted>>

(* The migrations of the release that runs; install.sh waits for pm-api.   *)
Migrate ==
    /\ op.pc = "migrate"
    /\ IF pg /\ app.key # 0 /\ app.pass = db.pass /\ ~db.broken
       THEN /\ db' = [db EXCEPT !.schema = IF @ < app.ver THEN app.ver ELSE @]
            /\ Goto(IF op.want = 0 THEN "ok" ELSE "version")
       ELSE Goto("failed") /\ UNCHANGED db
    /\ UNCHANGED <<host, pg, app, archive, bak, fresh, counts, parted>>

(* The owner of a file is kept when it is written again.                   *)
Written(n, f) ==
    [f EXCEPT !.own = IF host[n].st = "none" THEN "root" ELSE host[n].own]

RecordVersion ==
    /\ op.pc = "version" /\ Goto("ok")
    /\ host' = [host EXCEPT !["version"] =
           Written("version", [NoFile EXCEPT !.st = "whole", !.ver = op.want])]
    /\ UNCHANGED <<db, pg, app, archive, bak, fresh, counts, parted>>

-----------------------------------------------------------------------------
(* What goes on by itself: pm-api stores secrets, and is restarted.        *)

StoreSecret ==
    /\ pg /\ app.key # 0 /\ app.pass = db.pass /\ db.schema # 0
    /\ Cardinality(db.rows) < MaxRows
    /\ fresh' = fresh + 1
    /\ db' = [db EXCEPT !.rows = @ \cup {[id |-> fresh + 1, key |-> app.key]}]
    /\ UNCHANGED <<host, pg, app, archive, op, bak, counts, parted>>

RestartApp ==
    /\ app.ver # 0 /\ app' = [app EXCEPT !.key = KeyRead]
    /\ UNCHANGED <<host, db, pg, archive, op, bak, fresh, counts, parted>>

-----------------------------------------------------------------------------
(* backup: the dump first, then file by file.  The operator takes none     *)
(* while a restore or an uninstall runs.                                   *)

BeingWritten(n) ==
    \/ n = op.pc /\ n \in {"key", "env"} /\ host[n].st = "none"
    \/ n = op.pc /\ n \in {"compose", "version"}
    \/ n = "env" /\ op.pc = "patch" /\ host[n].st # "none"
    \/ n = Order[op.i] /\ op.pc = "unpack" /\ archive.files[n].st # "none"

Exclusive == op.pc \notin Ended /\ op.cmd \in {"restore", "uninstall"}

StartBackup ==
    /\ bak = 0 /\ pg /\ ~Exclusive /\ counts.backups < MaxBackups
    /\ counts' = [counts EXCEPT !.backups = @ + 1]
    /\ archive' = [NoArchive EXCEPT !.st = "open", !.rows = db.rows, !.schema = db.schema]
    /\ bak' = 1
    /\ UNCHANGED <<host, db, pg, app, op, fresh, parted>>

(* A file that is missing, .version apart, ends the backup, and what has   *)
(* been archived so far is left behind as an archive that can be read.     *)
ReadFile ==
    /\ bak # 0
    /\ LET n == Order[bak]
           last == bak = Len(Order)
       IN  IF host[n].st = "none" /\ n # "version"
           THEN bak' = 0 /\ archive' = [archive EXCEPT !.st = "partial"]
           ELSE /\ bak' = IF last THEN 0 ELSE bak + 1
                /\ \E f \in {host[n]} \cup {Torn(host[n]) : m \in {n} \cap
                                              {k \in FileName : BeingWritten(k)}} :
                    archive' = [archive EXCEPT !.files[n] = f,
                                    !.st = IF last THEN "complete" ELSE @]
    /\ UNCHANGED <<host, db, pg, app, op, fresh, counts, parted>>

InterruptBackup ==
    /\ bak # 0 /\ bak' = 0 /\ archive' = [archive EXCEPT !.st = "cut"] /\ Fault
    /\ UNCHANGED <<host, db, pg, app, op, fresh, parted>>

-----------------------------------------------------------------------------
(* restore [--force]: the files one by one, then the database.             *)

(* A file of the archive is missing or torn, or the host has a database    *)
(* with other secrets than the archive's.                                  *)
Foreign ==
    \/ \E n \in FileName \ {"version"} : archive.files[n].st # "whole"
    \/ /\ db.there
       /\ \/ archive.files["key"].key # host["key"].key
          \/ archive.files["compose"].pass # db.pass
          \/ archive.files["env"].pass # db.pass

StartRestore ==
    /\ bak = 0 /\ archive.st # "none"
    /\ \E force \in BOOLEAN :
        /\ host["key"].st = "none" \/ force
        /\ Start("restore", "unpack", 0, force)
    /\ parted' = (parted \/ Foreign)
    /\ UNCHANGED <<host, db, pg, app, archive, bak, fresh>>

(* Mutant: one entry too many.                                          *)
UnpackTooFar ==
    /\ op.pc = "unpack"
    /\ op' = [op EXCEPT !.i = @ + 1]
    /\ UNCHANGED <<host, db, pg, app, archive, bak, fresh, counts, parted>>

Unpack ==
    /\ op.pc = "unpack"
    /\ LET n == Order[op.i]
           f == archive.files[n]
       IN  host' = IF f.st = "none" THEN host ELSE [host EXCEPT ![n] = Written(n, f)]
    /\ IF op.i < Len(Order) THEN op' = [op EXCEPT !.i = @ + 1]
       ELSE Goto(IF archive.st = "cut" THEN "failed" ELSE "pgup")
    /\ UNCHANGED <<db, pg, app, archive, bak, fresh, counts, parted>>

UpPostgres ==
    /\ op.pc = "pgup"
    /\ IF Composed THEN StartPostgres /\ Goto("psql")
       ELSE Goto("failed") /\ UNCHANGED <<db, pg>>
    /\ UNCHANGED <<host, app, archive, bak, fresh, counts, parted>>

Empty == db.rows = {} /\ db.schema = 0 /\ ~db.broken

(* psql ends with success although statements fail, as they do where the   *)
(* tables exist: of those rows, some may be added.                         *)
Psql ==
    /\ op.pc = "psql" /\ Goto("up")
    /\ IF Empty THEN db' = [db EXCEPT !.rows = archive.rows, !.schema = archive.schema]
       ELSE \E s \in SUBSET archive.rows : db' = [db EXCEPT !.rows = @ \cup s]
    /\ UNCHANGED <<host, pg, app, archive, bak, fresh, counts, parted>>

(* Mutant: the exit code of psql is not looked at.                      *)
PsqlCutUnchecked ==
    /\ op.pc = "psql" /\ Empty /\ Goto("up") /\ Fault
    /\ \E s \in SUBSET archive.rows : db' = [db EXCEPT !.rows = s, !.broken = TRUE]
    /\ UNCHANGED <<host, pg, app, archive, bak, fresh, parted>>

(* psql loses its connection: postgres, which has only been started, is    *)
(* still being made and restarts.                                          *)
PsqlCut ==
    /\ op.pc = "psql" /\ Empty /\ Goto("failed") /\ Fault
    /\ \E s \in SUBSET archive.rows : db' = [db EXCEPT !.rows = s, !.broken = TRUE]
    /\ UNCHANGED <<host, pg, app, archive, bak, fresh, parted>>

-----------------------------------------------------------------------------
(* uninstall [--purge-data].                                               *)

StartUninstall ==
    /\ bak = 0
    /\ \E purge \in BOOLEAN : Start("uninstall", "down", 0, purge)
    /\ UNCHANGED <<host, db, pg, app, archive, bak, fresh, parted>>

AfterDown == Goto(IF op.flag THEN "rmopt" ELSE "ok")

Down ==
    /\ op.pc = "down" /\ Composed /\ AfterDown
    /\ pg' = FALSE /\ app' = NoApp
    /\ db' = IF op.flag THEN NoDatabase ELSE db
    /\ UNCHANGED <<host, archive, bak, fresh, counts, parted>>

(* docker compose down fails, before or after it has removed the           *)
(* containers: a warning is printed and the files are removed all the same.*)
DownFails ==
    /\ op.pc = "down" /\ AfterDown
    /\ IF Composed THEN Fault ELSE UNCHANGED counts
    /\ \/ UNCHANGED <<pg, app>>
       \/ Composed /\ pg' = FALSE /\ app' = NoApp
    /\ parted' = (parted \/ (op.flag /\ db.there))
    /\ UNCHANGED <<host, db, archive, bak, fresh>>

RemoveOpt ==
    /\ op.pc = "rmopt" /\ Goto("rmetc")
    /\ host' = [NoFiles EXCEPT !["key"] = host["key"]]
    /\ UNCHANGED <<db, pg, app, archive, bak, fresh, counts, parted>>

RemoveEtc ==
    /\ op.pc = "rmetc" /\ Goto("ok")
    /\ host' = [host EXCEPT !["key"] = NoFile]
    /\ UNCHANGED <<db, pg, app, archive, bak, fresh, counts, parted>>

-----------------------------------------------------------------------------
(* A step fails, or the command is interrupted in it: a file that was      *)
(* being written may be torn, a new key may not have been given to         *)
(* projectmng, postgres may have been started without pm-api, and rm may   *)
(* have removed some files.  Interrupted once its work is done, a step is  *)
(* as good as interrupted at the next.                                     *)

(* rm has removed .env and left the compose file, which still makes a      *)
(* database.                                                               *)
Orphaned == op.pc = "rmopt" /\ Composed' /\ host'["env"].st = "none"

Interrupt ==
    /\ op.pc \notin Ended /\ Goto("failed") /\ Fault
    /\ \/ UNCHANGED <<host, db, pg, app, fresh>>
       \/ /\ \E n \in FileName :
                BeingWritten(n) /\ host' = [host EXCEPT ![n] = Torn(@)]
          /\ UNCHANGED <<db, pg, app, fresh>>
       \/ /\ op.pc = "key" /\ host["key"].st = "none"
          /\ host' = [host EXCEPT !["key"] = NewKey("root")] /\ fresh' = fresh + 1
          /\ UNCHANGED <<db, pg, app>>
       \/ /\ op.pc = "up" /\ Composed
          /\ StartPostgres /\ app' \in {app, NoApp} /\ UNCHANGED <<host, fresh>>
       \/ /\ op.pc = "rmopt"
          /\ \E gone \in SUBSET (FileName \ {"key"}) :
                host' = [n \in FileName |-> IF n \in gone THEN NoFile ELSE host[n]]
          /\ UNCHANGED <<db, pg, app, fresh>>
    /\ parted' = (parted \/ op.pc = "unpack" \/ Orphaned)
    /\ UNCHANGED <<archive, bak>>

Next ==
    \/ StartInstall \/ GenerateKey \/ WriteEnv \/ RenderCompose
    \/ StartUpdate \/ PatchEnv
    \/ Pull \/ Up \/ Migrate \/ RecordVersion
    \/ StoreSecret \/ RestartApp
    \/ StartBackup \/ ReadFile \/ InterruptBackup
    \/ StartRestore \/ Unpack \/ UpPostgres \/ Psql \/ PsqlCut
    \/ StartUninstall \/ Down \/ DownFails \/ RemoveOpt \/ RemoveEtc
    \/ Interrupt

Spec == Init /\ [][Next]_vars

-----------------------------------------------------------------------------

(* Every variable keeps its type.                                          *)
TypeOK ==
    /\ host \in [FileName -> File] /\ db \in Database /\ pg \in BOOLEAN
    /\ app \in App /\ archive \in Archive /\ op \in Command
    /\ bak \in 0 .. Len(Order) /\ fresh \in Nat /\ counts \in Counts
    /\ parted \in BOOLEAN

(* The master key is never lost while there is a database, and it opens    *)
(* all the database holds: not after any sequence of installs, updates and *)
(* restores that fail and are run again, unless they parted the two.       *)
KeyOpensData ==
    db.there /\ ~parted =>
        \A r \in db.rows : host["key"].st = "whole" /\ r.key = host["key"].key

(* The password of the database survives in .env and in the compose file:  *)
(* whichever can be read has the one postgres was made with.               *)
PasswordsAgree ==
    db.there /\ ~parted =>
        \A n \in {"env", "compose"} :
            host[n].st # "none" /\ (host[n].st = "whole" => host[n].pass = db.pass)

(* An install that ends with success has brought the release it was asked  *)
(* for up, on a database it reaches, of its schema, whatever was tried on  *)
(* this host before.                                                       *)
InstallEndsRunning ==
    op.cmd = "install" /\ op.pc = "ok" =>
        /\ app.ver = op.want /\ host["version"].ver = op.want
        /\ app.pass = db.pass /\ db.schema >= op.want
        /\ ~parted => app.key = host["key"].key

(* A restore onto a host without an install that ends with success has     *)
(* brought back every row that was archived.                               *)
RestoreReproduces ==
    op.cmd = "restore" /\ op.pc = "ok" /\ ~op.flag /\ ~parted =>
        archive.rows \subseteq db.rows /\ archive.schema = db.schema

(* An update to a version that ends with success runs that version, as     *)
(* update.go and the README of the installer say.                          *)
UpdateRunsVersion ==
    op.cmd = "update" /\ op.pc = "ok" /\ op.want # 0 => app.ver = op.want

=============================================================================
