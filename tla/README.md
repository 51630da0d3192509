# A TLA+ model of projectMng

projectMng is a self-hosted deployment platform: an operator connects a GitHub
repository, and the platform builds it, runs it as a Docker container on one
host and routes domains to it through nginx. This directory models the parts of
it in which several actors share state, checks the models with TLC and proves
the most important statements with TLAPS. Paths are relative to the repository.

## Inventory

| Component | State it keeps | Operations | Talks to |
|---|---|---|---|
| Deployment pipeline (`apps/api/src/domain/deployments.ts`, `worker/`) | table `deployments`, BullMQ queue `pm-deploy`, Docker containers | deploy, redeploy, rollback, webhook push; the worker's clone, build, swap, record | Postgres, Redis, Docker, GitHub, helper |
| Application registry (`domain/apps.ts`) | table `apps`: slug, host port, `deleted_at` | create (with port allocation), update, soft delete | Postgres |
| Domains and certificates (`domain/domains.ts`, `worker/jobs/cert-*.ts`) | table `domains`, queue `pm-cert-issue`, nginx sites, certificates | add, check DNS, issue, renew, remove | Postgres, Redis, DNS, helper |
| Root helper (`apps/helper`) | nginx configuration directory, running nginx, Let's Encrypt directory | write site, test and reload, issue, renew | nginx, certbot, systemd |
| Enrollment and users (`domain/invites.ts`, `http/routes/auth.ts`, `bootstrap.ts`, `users.ts`) | tables `invites`, `users`, `webauthn_credentials` | bootstrap, invite, enroll, log in, delete | Postgres |
| Sessions, rate limit (`auth/`) | table `sessions`, Redis counters | create, look up, touch, revoke; count | Postgres, Redis |
| Volumes, environment (`domain/volumes.ts`, `env-vars.ts`) | tables `app_volumes`, `app_env_vars` | add, list, remove, upsert | Postgres |
| Log streaming, shell (`ws-logs.ts`, `ws-shell.ts`) | table `deployment_logs`, Redis channels | append and publish, fetch, subscribe | Postgres, Redis, Docker |
| Audit log (`auth/audit.ts`) | table `audit_log`, append-only | write, list | Postgres |
| Web dashboard (`apps/web`) | what the browser shows, optimistic entries | server actions | pm-api |
| Operator CLI, installer (`cli`, `installer`) | `.env`, version file, compose project, backups | install, update, backup, restore, uninstall | Docker, file system |

What is hard in it:

- **Two worker slots share Docker.** `makeWorkers` runs two deploys at a time
  and nothing keeps two deploys of one application apart. A run finds the
  containers to replace by label, once, and works on that list while another
  run replaces what is on it.
- **Rows and jobs are two stores.** A deployment is a row in Postgres and a job
  in Redis, written one after the other; each can be lost without the other.
- **Failure in the middle of a swap.** The old containers are removed before
  the new one is created; create, start and the nginx reload can fail after it.
- **Worker crashes.** BullMQ hands a stalled job out again once, from the start,
  and drops it the second time without telling the row.
- **Certificates** are issued by jobs that may be queued twice and by a helper
  call that may be given up before it ends.
- **The helper** serves each connection on its own goroutine, without a lock
  around test-and-reload.
- **Invites** are read, checked and consumed in a transaction that locks nothing,
  and an enrollment is three writes: the user, the credential, the session.
- **Deleting a user** meets foreign keys of two kinds, some that go along and
  some that refuse, while that user's own requests are between two awaits.
- **A free port** is one that no row has at the moment of the query; the unique
  index decides later, and says only which constraint it was.
- **A page** shows what it read once and what a socket or a late answer adds.
- **The operator's commands** keep no journal. The master key, the password in
  `.env`, the one in the compose file and the database volume belong together,
  and each is written by its own step.

`PROJECT.json` lists every component with its status, and every hazard at its
line with the property that covers it.

## Modules

| Part | Modules | Composed with |
|---|---|---|
| Deployment pipeline | `DeploymentLifecycle`, `DeployPipeline`, `DeployInvariant`, `DeployPipelineProofs`, `DeployRefinementProofs` | pm-api, BullMQ, worker and Docker in one module, which refines the lifecycle |
| Domains and certificates | `DomainLifecycle`, `DomainCerts`, `DomainCertsProofs` | takes deploys as a list of rows to publish, the helper as certbot and a reload; refines the lifecycle |
| Root helper | `SiteStore`, `NginxHelper`, `NginxHelperProofs` | nginx, the file system and the power as its environment; refines the store |
| Users | `Accounts`, `AccountsProofs` | installer, browsers, pm-api and the tables of users, invites, sessions |
| Applications, volumes | `Registry`, `RegistryProofs` | a push ends where `DeployPipeline`'s fresh deploys begin |
| Pages | `Console`, `ConsoleProofs` | the build's output, two websocket handlers, one tab |
| Operator's commands | `Operator`, `OperatorProofs` | installer, CLI, compose file, database volume |

An `MC` module per part holds the symmetry or the sequences of TLC's instance.
Three modules are abstract: `DeploymentLifecycle`, `DomainLifecycle` and
`SiteStore` say what the tables of deployments and domains and the managed sites
promise to those who read them, and each is implemented by the module that
models the code, which TLC checks on an instance and TLAPS for all of them.

What is left to do, in this order: a module that composes the pipeline, the
certificates and the helper into what nginx sends a hostname to, from the three
abstract ones; the same kind of abstract specification for accounts and for the
operator's host; the rate limit.

## What is proved, as a whole

Every invariant and every action property that a run checks is a theorem, for
any value of the constants, and so are the three refinements. No theorem assumes
more of the constants than the `ASSUME`s of the modules, which TLC evaluates in
every run. The proofs follow one pattern: an inductive invariant as a
conjunction of named parts, a lemma per action, and the theorems from the
invariant; where a property needs more than its neighbours do, it has a
strengthening of its own on top of the invariant (`StrandInv`, `RowsInv`,
`Shares`). What is left to TLC alone is liveness, which needs fairness and
`ENABLED`: `DeploymentsEnd`, `ImplementsFairLifecycle`, `PendingEnds` and
`ReloadTakesEffect`.

## Runs

| Run | Distinct states | Expected |
|---|---|---|
| `DeployOverlap`, `DeployCrash`, `DeployEnds` | 120 thousand, 2.3 million, 216 thousand | pass |
| `CertsEnd` | 849 thousand | pass |
| `HelperReload` | 119 thousand | pass |
| `AccountsTeam` | 897 thousand | pass |
| `RegistryRace` | 750 thousand | pass |
| `ConsolePages` | 2.8 million | pass |
| `OperatorHost` | 3.3 million | pass |
| `DocKeepOld`, `DocDeleted`, `DocUpdateVersion` | stop at the first counterexample | violation |

## The deployment pipeline

| Module | What it is |
|---|---|
| `DeploymentLifecycle` | What the table promises its readers: queued, cloning, building, swapping, one outcome; starting over only where restarts are allowed. |
| `DeployPipeline` | pm-api, BullMQ, the worker, Docker. Refines `DeploymentLifecycle`. |
| `DeployInvariant` | The inductive invariant, as a conjunction of named parts. |
| `MCDeployPipeline` | The instance TLC runs, with the symmetry of its constants. |
| `DeployPipelineProofs` | TLAPS: the invariant, the types, `LastSwapServes`. |
| `DeployRefinementProofs` | TLAPS: outcomes are final, the pipeline implements the lifecycle; `NoStrandedRow`, `OnlyServedIsRepeated`, `ResidueBounded`. |

### State and code

`row` is the table `deployments`, with the columns somebody reads back (the
image tag is a function of application and commit, so `image` only says whether
it is set; `finishedAt` is a counter, which is what `ORDER BY finished_at` sees).
`adding` holds the rows between `enqueueDeploy`'s insert and its `queue.add`;
`wait`, `stalled` and `runs` are BullMQ's wait list, the jobs a dead worker has
left active, and how often each was handed out. `slot` is the worker: per slot
the `await` its run is at, its row and the rest of its list of old containers.
`containers` and `running` are Docker. A container is named by the deployment
and the number of the run that created it; its label, its name
(`<slug>_<sha>`) and its host port follow from the row. `lister` is a history
variable: it records which run listed an application's containers last, and no
guard reads it.

Each action is one atomic step of one actor: `ReadApp`, `Deploy`, `Redeploy`,
`Rollback`, `SoftDelete` are pm-api's handlers, `AddJob`/`AddFails` the second
half of `enqueueDeploy`. `Begin` to `Complete` are `runDeploy` from one `await`
with an effect to the next. `Fail` is its catch block. `BeginFails` is an
exception before the `try`. `Claim`, `Crash` and `StalledCheck` are BullMQ and
the process. The old containers are taken in any order, where the code takes
them in the order Docker lists them; every property checked holds of more
behaviours than the code has.

`Faults` says which calls may fail in an instance, so that a run can ask one
question at a time: `clone` (which includes the installation token), `build`,
`env` (a variable that does not decrypt), `stop` and `remove` (which the code
ignores), `create`, `start`, `publish` (domains, write, reload), `enqueue`,
`prepare` (before the `try`), `github`. A `create` that meets a taken name and
a `start` that meets a taken port or a missing container fail without being in
`Faults`.

### What the runs show

| Run | Bounds | Shows |
|---|---|---|
| `DeployOverlap` | 1 application, 3 deployments, 3 commits, 2 slots, every kind of failure but a refused removal | types; `LastSwapServes`; never more containers of an application than slots; a redeploy or rollback repeats what was served |
| `DeployCrash` | 2 applications, 2 deployments, 1 commit, 2 crashes; creating a container, adding a job and the steps before the `try` may fail | no row is stranded but by a lost job or a failure before the `try`; `OutcomeIsFinal` and the refinement, with jobs handed out up to twice and dropped after, and another application's run around it |
| `DeployEnds` | 1 application, 2 deployments of one commit, 1 crash, failing builds, removals and creates | every deployment whose job is not lost reaches an outcome; the refinement with the lifecycle's fairness |
| `DocKeepOld` | 1 application | a violation, see below |

Two slots are the code's own number. Three deployments are one more than the
slots, so that a run meets the residue of a finished one while another overlaps
it; two crashes are one more than `maxStalledCount`, so that a job is run again
and dropped. Equal and different commits both occur, for the name clash.
`LastSwapServes` is the pipeline's safety statement: with two slots unlocked it
is *not* true that the newest deployment serves, nor that a row that says
succeeded has a container; what is true is that the run that listed last cannot
be disturbed by any other. Nothing forbids a run of the older commit from being
that run. `DeployOverlap` has one application and no crash; that neither another
application nor a job run again disturbs the last lister is what the proof of
`LastSwapServes` adds.

`DocKeepOld` ends in a violation of `FailureKeepsOld`: the design document
(`docs/superpowers/specs/2026-05-27-projectmng-design.md`, 6.3) has a failed
deploy leave the old container serving, and the code removes it before it
creates the new one. The model shows the code differ from that document in four
more places, which are of the same kind and have no run of their own: a swap
has a moment without any container (zero downtime, line 17); a failure after
the start does not kill the new container (160); a rollback builds again (164);
deleting an application leaves its container (178). The comment above the
removal loop (`deploy.ts:56`) says a name is free once the loop is done; a run
of the same commit on the other slot may take it in between.

Deadlock checking is off in these runs: deployments are bounded by `Dep`, and
a system nobody asks anything of may stop.

### Fairness

`FairSpec` assumes weak fairness of `AddJob` (pm-api goes on with a request), of
`Claim` and each slot's `RunStep` (Node goes on with a pending await; Docker,
git and the builders return), and of `StalledCheck` (BullMQ's timer). The code
sets no time limit on git or the builders: a build that hangs keeps its slot,
and the fairness of `RunStep` assumes it away. Requests and crashes are not
fair. `RunStep` is fair as a whole: a run whose every call fails still ends.

### What is proved

`DeployPipelineProofs` proves `Spec => []IndInv` for all values of the constants
under `StallsAssumption`, `FaultsAssumption` and `NoneAssumption`: any
applications, deployments, commits, slots (not only two), crashes, faults.
`SlotAssumption`, that the slots are finitely many, is for `ResidueBounded` only.
`LastSwapServes` is not inductive. What carries it is that a job is in one place
(`JobOnce`), so a deployment has one run at a time; that a run's number is new
when it is handed out, so its container is new (`ContainersAreOld`); that a
container is created after its run has listed, so only a later lister can hold
it (`ListerIsSafe`); and that a started container of the last lister therefore
stays (`LastListerRuns`). The proof has a lemma per action.

`DeployRefinementProofs` derives from the invariant the edges along which a step
can move a row (`NextEdge`), and from these `OutcomeIsFinal` and
`ImplementsLifecycle`. Liveness and fairness are checked by TLC only.

`DeployRefinementProofs` also proves the other three invariants, each with a
strengthening of its own on top of `IndInv`. For `NoStrandedRow`: a run that is
about to complete leaves an outcome or one of the three excuses, because the job
leaves the slot only in the next step. For `OnlyServedIsRepeated`: the status
succeeded and the container are written in one update, and a row never changes
its application and commit. For `ResidueBounded`: the containers can be shared
out among the slots, at most one of an application each, so that a slot that
removes still has its own in its list (`Shares`); who creates a container has an
empty list and therefore none left. A crash keeps the shares: what a dead run
left is on the list of the next run in its slot.

### What the model leaves out

- `DeploymentsService.cancel`: no route calls it.
- A job can also stall while its worker lives (a lost lock renewal); then two
  runs of one job overlap. The model's stalls come from crashes, and `JobOnce`
  rests on it.
- Redeploy and rollback read their target and insert in one step; the target's
  columns do not change between, except by a rerun after a crash.
- Failures of Postgres inside `runDeploy`'s try block other than those named,
  and of its catch block. Docker's restart policy and containers that exit by
  themselves. Children of a crashed worker.
- What a build contains, logs, memory and CPU limits, networks.

## Domains and certificates

| Module | What it is |
|---|---|
| `DomainCerts` | pm-api's domain routes, the worker's `runCertIssue`, the helper's certbot and nginx calls, the publication of sites at the end of a deploy. |
| `DomainLifecycle` | What the table promises its readers: past pending_dns only by a row's own DNS check, certificates only for hostnames that got there, active only with a certificate. |
| `MCDomainCerts` | The instance TLC runs. |
| `DomainCertsProofs` | TLAPS: types, `TlsHasCert`, `ChallengeIsRouted`, `VerifiedFirst`, `NoStrandedDomain`, the refinement. |

### State and code

`domain` has a row per hostname, as the unique column has it; a row's `id`
counts the rows the hostname has had, so that a request or a job that carries
the id of a removed row is told from one of the row added after it. `check` is
`POST /check-dns` between its awaits: the row read, the DNS answer, the job
added. `worker` is the single run of `runCertIssue`; `certbot` and `certs` are
the helper's child process and what it has put on disk. `pub` is, per deploy
slot, the list of rows that `runDeploy` has read and not yet written. `files`
and `loaded` are the managed sites on disk and in nginx, per file name: the one
certbot's challenge uses (`acme-<host>`) and one per application and hostname.

The helper answers on a connection that `HelperClient` destroys after 30 s,
while certbot has 120 s: `TimeOut` ends the wait, `CertbotEnds` ends certbot,
and the two are independent. A second certbot finds the first one's lock.
`ReloadAcme` and `PublishReload` test all sites and load them in one step; the
gap between the helper's test and its reload is the matter of `NginxHelper`.

### What the runs show

| Run | Bounds | Shows |
|---|---|---|
| `CertsEnd` | 1 hostname, 2 rows one after the other, 1 application, 1 check at a time, 2 jobs, 1 crash, every kind of failure | the four invariants and the refinement of `DomainLifecycle`, where a row is removed and added again under a running check, job or deploy; every pending certificate whose job is not lost comes to an end |

Two rows per hostname are what a stale id needs; two waiting jobs let a job run
again for a row that is active or gone. Two checks at once, several hostnames
and several applications are left to the proofs, which bound none of them. `TlsHasCert` is what keeps
nginx alive: one TLS site without a certificate makes `nginx -t` fail for every
site of the host. `dropped` records the rows for which adding a job has failed:
those, and rows whose job BullMQ dropped, are what `NoStrandedDomain` exempts.

`ImplementsDomainLifecycle` has the table, the certificates and what was seen of
DNS change as `DomainLifecycle` lets them. What the code adds to the straight
way from pending_dns to active is in its actions: DNS is checked again for a
domain that is past it (`Verify`), the row is gone when the answer comes
(`VerifyGone`), certbot ends for a hostname whose row is gone or new
(`Certify`), a job run again revises an outcome (`Finish`). That the outcome of
a job for a removed row does not reach the row added after it, which
`VerifiedFirst` says of a state, is a consequence.

`PendingEnds` exempts the rows whose job could not be added or was dropped, and
nothing else: a certificate that is issued late, a hostname that is certified
twice, a database that fails while the outcome is recorded all end.

Two differences from the documents have no run. A late DNS answer takes an
active domain back to pending_cert, which the platform plan's state machine has
no arrow for (`docs/superpowers/plans`, the platform core, line 2987). The design
(6.5, step 4, line 171) rewrites the site once the certificate is there, and the
code leaves that to the next deploy.

`FairSpec` assumes that a request goes on after an await, that the worker takes
jobs and goes on with them, that certbot ends (the helper kills it after 120 s)
and that BullMQ looks for stalled jobs. Requests, removals and crashes are not
fair. `Resolved` and `NotResolved` are one fair choice: nothing assumes that DNS
ever matches.

### What is proved

`DomainCertsProofs` proves `Spec => []IndInv`, for any hostnames, applications,
requests, slots, crashes and faults. `TlsHasCert` alone is not inductive: it
needs that a deploy's unwritten rows read as active have their certificate, that
a run that waits for certbot waits for its own hostname's, and that certificates
only grow. `ChallengeIsRouted` needs that sites are never taken away, so that a
reload loads at least what was loaded. `VerifiedFirst` needs that every waiting,
stalled or running job carries a verified id. `NoStrandedDomain` has a
strengthening of its own, `StrandInv`: a waiting or stalled job has run at most
as often as the worker has crashed, so a job that BullMQ gives up on for too many
runs means more than `MaxStalls` crashes. The run, with one crash and
`MaxStalls` = 1, never gets there; the theorem does.

The refinement needs `RowsInv`: what is verified, asked for or listed is a row
that exists or has existed, so that a row added again is a new one
(`RowsInv`'s first three parts), a row in pending_dns has not been verified, so
that no job's outcome can reach it, and certbot is at work for a hostname of
which some row was verified. A lemma per group of actions shows the step of
`DomainLifecycle` it takes or that it takes none. `PendingEnds` is model-checked
only.

### What the model leaves out

- Renewal: `cert-renew.ts` is registered, and no code adds to its queue.
- Rows lost to the deletion of an application (`ON DELETE CASCADE`; applications
  are only soft-deleted), and two hostnames whose site names coincide because
  dots become dashes.
- Failures of Postgres in the catch block and in the DNS check's update.

## The root helper

| Module | What it is |
|---|---|
| `NginxHelper` | The helper's connections, the steps of `WriteAtomic`, test and reload, nginx reading what it is signalled to read, stops and power losses. |
| `SiteStore` | What deploys and certificates rely on: sites change at once and forward, nginx serves what a reload answered with success promised. |
| `MCNginxHelper` | The instance TLC runs. |
| `NginxHelperProofs` | TLAPS: types, `NeverPartial`, `TempsCleaned`, the refinement. |

### State and code

`conn` is a goroutine of `Server.Serve` per connection: the step it is at, the
site and whether nginx would accept its content (the helper does not look), and
for a reload the sites `nginx -t` has still to read. `temp` is what the
connection's temporary file holds. `files` are the managed sites as any reader
sees them and `disk` the same directory as a loss of power may leave it: a
rename reaches the disk later (`Flush`), because `WriteAtomic` syncs the file
and not the directory. A site's `ver` numbers its renames. `hup`, `master` and
`loaded` are nginx: a signal that waits, the reload in hand, what is served.
`owed` is a history variable that no guard reads.

The actions follow `writer.go` call by call (`CreateTemp`, `WriteData`,
`SyncTemp`, `Rename`, each of which may fail, and `Cleanup`) and `nginx.go`
(`TestOne`, `Signal`, `SignalFails`). nginx, the file system and the power are
external: nginx keeps its configuration when it meets a bad site, and signals
that come before a reload begins are one.

### What the runs show

| Run | Bounds | Shows |
|---|---|---|
| `HelperReload` | 1 site, 2 connections, no write begins after 2 renames, 1 stop or power loss, every kind of failure | no reader sees half a site, also after a power loss; an answered write leaves no temporary file; a reload answered with success takes effect unless nginx refuses it; the refinement of `SiteStore` |

Two connections give every overlap of two writes and of a write with a reload;
one site is where they meet, and two renames are what a lost or stale version
needs. `ReloadTakesEffect` is about coalesced signals: a reload answered while
nginx is busy with an earlier one must not be lost. `FairSpec` assumes only that
nginx goes on with its signals.

`ImplementsSiteStore` maps the four steps of a write to none but the rename, the
reading of the sites one by one to none but the moment nginx goes over to what
it has read, and a signal, whether it was answered with success or killed, to
`Promise` or `Ask`. In `SiteStore` a promise is broken only by a refusal with no
other reload pending, or by a loss of power. It says of safety what
`ReloadTakesEffect` says of liveness: as long as a reload is pending nginx may
serve something older, and when none is it does not.

The comment at `nginx.go:51` has the test keep a broken configuration from nginx.
That holds of one connection: a second one may rename a bad site into place
after `nginx -t` has read it. nginx then refuses the reload, so nothing is served
wrong, but the caller was told it had been reloaded.

### What is proved

`NginxHelperProofs` proves `Spec => []HelperInv` for any connections, sites,
bounds and faults: every site, seen or on disk, is synced, because only a
synced temporary file is ever renamed; and only a writer has a temporary file.
`NeverPartial`, `TempsCleaned` and the types follow. Without the sync the first
part is lost at the rename, and `NeverPartial` at the next power loss.

The refinement needs `VersionInv`: nothing that was written out, loaded or
promised is newer than the file readers find (`OnlyForward`); what the master
process has read of a site in the reload at hand is not older than what it
serves (`ReadsForward`); and with no signal waiting, what was promised is served
or has been read (`PromisesKept`), because a promise made after a site was read
has left a signal of its own. `ReloadTakesEffect` is checked only.

### What the model leaves out

Framing, validation of names and JSON, permissions; a removal of a temporary
file that itself fails; `certbot.renew`, which no code calls; `certbot.issue`,
which is in `DomainCerts`.

## Users, invites and sessions

| Module | What it is |
|---|---|
| `Accounts` | The installer's bootstrap, browsers with their pages and cookies, pm-api's handlers, the tables. |
| `MCAccounts` | The instance TLC runs. |
| `AccountsProofs` | TLAPS: the invariant, the types and the four safety properties. |

### State and code

`email`, `password` and `passkey` are the rows of `users` and
`webauthn_credentials`; `invite`, `session` and `audited` the tables `invites`
and `sessions` and the users that `audit_log` names. `browser` is one record per
browser: the step its request is at, its cookie, and the locals of the handler
that serves it (`user`, `sess`, `token`). A request is split where the handler
awaits: `ReadInvite` and `Consume` are the two halves of the transaction in
`InviteService.consume`, `StorePassword` and `StorePasskey` the credential,
`NewSession` and `WriteAudit` what every login and enrollment ends with.
`Authenticate` is `requireAuth`, after which a handler goes on with the user it
has found, whether or not that user is deleted meanwhile (`Refused`).

`Cascade` is what `DELETE /api/users/:id` takes along by `ON DELETE CASCADE`:
passkeys, sessions, the invites the user has made. `Deletable` is what has no
`ON DELETE`: an invite the user has consumed, an entry of the audit log. Both are
read off `schema.ts`. `Abort` cuts a request off between two awaits. `born`,
`raced`, `lost` and `gaveUp` are history variables that only properties read.

### What the run shows

| Run | Bounds | Shows |
|---|---|---|
| `AccountsTeam` | 3 rows of users, 3 addresses, 2 invites, 2 browsers, 1 session id, 1 request cut off | the five invariants below |
| `DocDeleted` | the same | a violation, see below |

Two browsers give a raced invite and a deletion under an enrollment; two invites
the one from bootstrap and one from a user; three users the sentinel, an admin
and a third. One session id means that two browsers are never signed in as two
users: two admins who delete each other are only covered by the proof, which
bounds neither sessions nor browsers. (The run with two ids and no abort passes
as well, with 1.5 million states.)

- `OneUserPerInvite`: README.md:18 and the design (124, 273) call invites
  single-use. They are, unless two enrollments have both read the invite before
  either writes: `consume` locks nothing and updates by hash alone.
- `EveryUserHasWayIn`: the invite is used up before the credential is verified,
  so users without one exist; these are all the ways they come about.
- `AdminsStay`: whoever has acted once stays and can log in, unless they removed
  their own last passkey. Nothing in the code says so: it follows from the
  foreign key of the audit log, since every handler ends with an entry.
- `WayToBegin`: bootstrap refuses as soon as its sentinel is there
  (`bootstrap.ts:21`), so the first invite is the only way in. It can be lost by
  a crash, by expiry or by a failed enrollment, and by nothing else;
  `install.sh:393` tells the operator to run the installer again, which then
  bootstrap refuses.

`DocDeleted` ends in a violation of `ToldIsDeleted`. The list of users wraps
`deleteUserAction` in `fromThrowing`, which is for actions that throw
(`action-result.ts:19`); this one returns `{ error }`. A deletion the database
refuses, as it does for everyone who ever acted, is reported as "User deleted".

Three further differences have no run: `account-panel.tsx:50` sends the address
"self", which the route does not accept, so a signed-in user cannot add a
passkey; the cookie's age is set at login only, where the design (123) has it
slide for seven days; and `RemovePasskey` may remove the last way in.

### What is proved

`AccountsProofs` proves `Spec => []AccountsInv` for any users, addresses,
invites, sessions, browsers and aborts, and from it the five invariants. None of
them is inductive. What a request holds must be tied to tables that go on
changing: a user of a handler was inserted before, is gone or has a way in
(`ClientInv`); every session's user has one; of the browsers that have read an
unraced invite one is left, and nobody has used it (`InviteInv`). `WayToBegin`
needs that nobody has a cookie before the first entry of the audit log, hence
that nobody is deleted before it. The group lemmas (`ClientsStep`, `WaysInStep`
and so on) say what a step has to leave alone; `LocalStep`, `CredentialStep` and
`SideStep` put them together for the three kinds of steps most actions are.

### What the model leaves out

More than one passkey of a user; a registration without an invite, which no page
sends with an address the route accepts; codes, challenges and their cookies;
the rate limit; the list of who is invited.

## Applications and volumes

| Module | What it is |
|---|---|
| `Registry` | pm-api's requests on `apps` and `app_volumes`, and the choice of the application a push is for. |
| `MCRegistry` | The instance TLC runs. |
| `RegistryProofs` | TLAPS: the invariant, the types and the four properties. |

### State and code

`row` and `volume` are the two tables; `handler` is a request with its locals:
the port it has been given and how often it has tried, the row it has read, the
number it has computed. `AllocPort` and `Insert` are the two awaits of
`AppsService.create`, `PortTaken` and `SlugTaken` what its catch block makes of
the unique index; `GetApp` and `Update` or `SoftDelete` the two of a route that
looks the row up first; `CountVolumes` and `AddVolume` the two of
`VolumesService.add`. `Push` compares a push with the row `getByRepo` returns,
which may be any of those that match. Rows stay in `apps`: deletion sets
`deleted_at`, so a slug and a port are never free again.

### What the run shows

`RegistryRace` has 2 applications, 2 slugs, 2 ports, 2 repositories, 1 branch, 2
mount paths, 2 requests at a time, 2 tries and 2 additions of volumes. Two
requests meet on a port, a slug or a volume number; with two tries (ten in the
code) a creation does run out of them.

- `RefusedForGoodReason`: `create` looks at the message of a unique violation to
  tell a port from a slug and gives up after ten tries. A refusal never blames
  the wrong cause, and running out of tries takes as many rivals.
- `VolumesDiffer`: the design (152) has a Docker volume per application and mount
  path; its name ends in `COUNT + 1`. Two volumes of one application share a
  name, and so their data, after a removal or when two were added at once - and
  only then.
- `IdentityKept`: no step changes slug, port or repository of a row or brings a
  deleted one back. `DeployPipeline` lets a deleted application be deployed
  again; this is why no other application is then in its place.
- `MissedForATwin`: `settings-panel.tsx:61` says that every push to the branch
  triggers a deploy. It does unless another active application follows the same
  repository: `getByRepo` returns one row.

Two differences have no run: `settings-panel.tsx:77` has a deleted application's
volumes reattached to "a fresh app with the same slug later", and no application
can have that slug again; the design (98) gives an application its port for its
lifetime, and a deleted one keeps it.

### What is proved

`RegistryProofs` proves `Spec => []RegistryInv` for finitely many applications
and ports and any other constants, and from it the five properties. A request
that is to insert a taken port has been overtaken once more than it has tried
(`Prepared`): that is what turns ten tries into ten rivals. The numbers of an
application that is not in `shared` are at most its count, and one request at
most is numbering (`Numbered`).

### What the model leaves out

The build context, Dockerfile and limits of an application, which are stored as
given; the text of the slug and of the mount path and their validation;
`autoDeploy` and the branch are one field.

## Pages that stay open

| Module | What it is |
|---|---|
| `Console` | A build's output on its way to a page, shells and their entries in the audit log, the wizard's lists, one environment variable and its table. |
| `MCConsole` | The instance TLC runs: two chunks of output, of two lines and of one. |
| `ConsoleProofs` | TLAPS: the invariant, the types and the four properties. |

### State and code

`chunk` counts, per chunk of a child's output, the lines inserted and published;
`stream` in `deploy.ts` starts an asynchronous loop per chunk and does not wait
for it, not at the exit of the child either. `logs` is `deployment_logs` by
time. `conn` are the handlers of `ws-logs.ts` and `ws-shell.ts`, which outlive
the tab: looking things up, having taken a subscription or an exec, listening,
cleaning up. A socket that closes before the handler listens is not noticed.
`tab` is the page with what it has read and the socket it holds; the wizard's
page keeps the installation, the list that came last, and the lists it has asked
for; `env` is a row of `app_env_vars`, of which only `is_secret` matters.

### What the run shows

`ConsolePages` has 2 handlers, 2 installations, 1 shell, 1 tab. Two chunks are
what can interleave; two lines in one are what can be out of order. The second
handler is the one a page left behind.

- `PagesInOrder`: a page reads the table, then subscribes. Lines may be missing,
  but of one chunk none is out of order, and at most one comes twice.
- `ShellsAudited`: every `shell.open` has one `shell.close`, whoever ends the
  shell, or a close that could not be written.
- `RepoOfItsInstallation`: the wizard submits a repository of its installation,
  unless a second list was asked for before the first had come.
- `ShownWasPlain`: a value that was last said to be secret is not shown.

Four differences have no run. Lines between the page's read and its
subscription, and lines published after the status is terminal, never reach the
page (design, 159 and 174). A shell whose socket closes early, or whose first
entry cannot be written, leaves its exec running and, in the first case, without
a closing entry (design, 176; `shell/page.tsx:17`). The wizard shows a late list
under an installation picked since (`new-app-wizard.tsx:35`). No fairness is
assumed.

### What is proved

`ConsoleProofs` proves `Spec => []IndInv` for any handlers, installations,
shells, chunks and lines in them, and from it the types and the four properties.
`PagesInOrder` rests on how a chunk is streamed: the loop publishes a line
before it inserts the next, so at most one line of a chunk is in the table and
not yet published (`OneUnpublished`). That line is the one a page may read and
then hear; when a page that has read it hears it, no other can come twice
(`OnceAgain`). The table itself has every line once and in order
(`TableInOrder`), and a page has nothing that is not in the table (`Inserted`).
`ShellsAudited` is inductive once the open shells are known to be finitely many,
which makes their number one that goes up and down with the handlers.
`RepoOfItsInstallation` needs that every list still on its way was asked for the
installation that is picked, unless the wizard has crossed two (`WizardInv`).

### What the model leaves out

What is typed and printed in a shell; several deployments, variables and tabs at
once; a list of installations that cannot be had.

## The operator's commands

| Module | What it is |
|---|---|
| `Operator` | `install.sh` and the CLI's `update`, `backup`, `restore` and `uninstall`, on the files, the volume and the container they work on. |
| `MCOperator` | The instance TLC runs. |
| `OperatorProofs` | TLAPS: the invariant, the types and the four safety properties. |

### State and code

`host` are the files of `/opt/projectmng` and `/etc/projectmng`: whether each is
there, whole or torn, who owns it, and what of the master key, the database
password and the version it holds. `db` is the volume `pg_data`: the password
postgres was made with, the rows, each with the key it was encrypted under, the
schema, and whether a load was cut off in it. `app` is the container of pm-api
with what it was created with. `archive` is the backup file. `op` is the command
that runs and its step; `bak` the backup, which alone may run beside an install
or an update. `parted` is a history variable that no guard reads.

Each step of a command is an action: `GenerateKey`, `WriteEnv`, `RenderCompose`
for the installer, `PatchEnv`, `Pull`, `Up`, `Migrate`, `RecordVersion` for what
`Update` and the installer share, `ReadFile` and `Unpack` for one entry of an
archive, `UpPostgres` and `Psql` for the rest of `Restore`, `Down`, `RemoveOpt`
and `RemoveEtc` for `Uninstall`. `Interrupt` ends any of them in its middle:
`RealFS.WriteFile` truncates before it writes, so the file may be torn; the key
belongs to root until `chown` has run; `docker compose up` may have started
postgres alone; `rm -rf` may have removed any of the files. `Pull` and
`RenderCompose` read what is text in the compose file, as docker compose does:
`install.sh:290` has substituted the version and the password into it.

### What the runs show

| Run | Bounds | Shows |
|---|---|---|
| `OperatorHost` | 2 releases, 4 commands and 1 backup, 2 faults, 1 row | the key opens the data and the passwords agree unless something parted them; an install or a restore that ends with success has done what it says |
| `DocUpdateVersion` | the same with fewer commands | a violation, see below |

Four commands are an install, a purge, a restore and a command to meet what they
left; two faults are one in the backup or the restore and one in what follows.
With eight commands, four faults and three rows, simulation finds no violation
either.

`KeyOpensData` and `PasswordsAgree` are false without `parted`, which lists the
events that really separate a database from its secrets: a restore of an archive
with a missing or torn file; a restore onto a database made with other secrets;
a restore interrupted while it unpacks; a purge after a `docker compose down`
that failed, which is only a warning (`uninstall.go:43`) and leaves the volume
without its key; a purge interrupted after it removed `.env` and before the
compose file. Each of them is needed: without it TLC finds a violation. Nothing
else does: no install, however often it is interrupted and repeated, makes a
second key or password for a database that exists.

`InstallEndsRunning` says nothing of *whether* an install can end. Interrupted
before the new key has been given to projectmng, or while it writes `.env`, the
installer keeps the file it then finds (`install.sh:154`, `211`), and every later
run fails; the operator has to remove it by hand.

`DocUpdateVersion` ends in a violation of `UpdateRunsVersion`: `update --version`
pins the version in `.env`, where docker compose does not look for it, pulls and
starts the old images again and writes the new version to `.version`. Four
further differences have no run of their own. The installer's README and the
design say that a restore brings everything back (design, line 282), and
`restore.go:81` leaves `master.key` root's own with mode 0400, which pm-api's
user cannot read. A restore that is forced after its psql was cut off ends with
success on a database that lacks rows. Migrations run after `up -d`, not when
the API starts (design, 236). `update` pulls images but no new compose file
(design, 280).

Deadlock checking is off: commands are bounded. No fairness is assumed; nothing
here is claimed to happen.

### What is proved

`OperatorProofs` proves `Spec => []OperatorInv` for any number of releases,
commands, backups, faults and rows, and from it all five invariants of the run, the types among them.
The properties speak of the host and the database. What is missing in them is
where the secrets are in between: in the compose file before there is a volume
(`SecretsTogether`), in an archive that is still being written
(`ArchiveTogether`), in the part of it that is already unpacked (`Unpacked`,
`RestoredKey`), and that a volume is gone before its files are
(`NothingWithoutVolume`). `InstallKeepsTo` follows one install through its steps,
`RestoredData` one restore. The proof has a lemma per action and in it a step per
part of the invariant.

### What the model leaves out

- The GitHub App's private key goes with the master key; redis, the worker and
  the dashboard start with pm-api. nginx, certificates, the helper's binary and
  its unit, which neither secrets nor data depend on.
- The content of a torn file, which no one reads as whole; a torn `.env` that
  still has the line with the password.
- Two commands other than a backup at a time: an operator types them one after
  the other.

## Not modelled

`PROJECT.json` gives the reason for each component. As a whole: cryptography
(pure functions; a verification is a choice, a key a value), the rate limit (one
atomic counter in Redis), rendering and styling of the dashboard
(`components/ui`), `doctor`, `logs` and `version` of the CLI, which change
nothing, and the installer's steps outside `/opt/projectmng`,
`/etc/projectmng` and the database. Liveness under fairness and the refinement's
fairness are checked by TLC only: `DeploymentsEnd`, `ImplementsFairLifecycle`,
`PendingEnds`, `ReloadTakesEffect`.
