---------------------------- MODULE DomainCerts ----------------------------
(***************************************************************************)
(* Domains, their certificates and their nginx sites.                      *)
(*                                                                         *)
(* pm-api adds and removes rows of "domains" and checks their DNS on       *)
(* request; a check that finds the row ready adds a job to pm-cert-issue.  *)
(* pm-worker runs these jobs one at a time: write an HTTP site for the     *)
(* challenge, reload nginx, have certbot issue, record the outcome.        *)
(* Deploys, two at a time, rewrite the sites of an application's domains   *)
(* from the status they have read.  Nothing removes a site.                *)
(*                                                                         *)
(* certbot runs under the helper, not under the worker: it goes on when    *)
(* the call to the helper has timed out or the worker has crashed.         *)
(***************************************************************************)
EXTENDS Naturals, Sequences

CONSTANTS
    Host,        \* hostnames
    App,         \* applications
    Req,         \* concurrent check-dns requests
    Slot,        \* the worker's slots for deploys
    Acme,        \* owner of the sites written for the challenge
    None,        \* no application, no job, no certbot
    MaxAdds,     \* bound on the rows inserted per hostname
    MaxQueue,    \* bound on the jobs waiting at once
    MaxStalls,   \* BullMQ's maxStalledCount
    MaxCrashes,  \* bound on worker crashes
    Faults       \* the calls that may fail, a subset of FaultKinds

FaultKinds == {"dns", "enqueue", "helper", "timeout", "certbot", "record"}

ASSUME BoundsAssumption ==
    /\ MaxAdds \in Nat /\ MaxQueue \in Nat /\ MaxStalls \in Nat
    /\ MaxCrashes \in Nat
ASSUME FaultsAssumption == Faults \subseteq FaultKinds
ASSUME NamesAssumption == Acme \notin App /\ None \notin App \cup Host

VARIABLES
    domain,    \* the row of each hostname; id counts the rows it has had
    check,     \* check-dns requests: program counter and the row read
    queue,     \* pm-cert-issue, head first
    stalled,   \* jobs whose worker is gone
    crashes,   \* worker crashes so far
    worker,    \* the run of a job: program counter and job
    certbot,   \* the hostname certbot is at work for
    certs,     \* hostnames with a certificate on disk
    pub,       \* per deploy slot: the application and the rows to publish
    files,     \* the managed sites on disk
    loaded,    \* the sites nginx has loaded
    verified,  \* history: rows whose DNS has been seen to match
    dropped    \* history: rows for which adding a job has failed

requestVars == <<check, queue, dropped>>
workerVars == <<stalled, crashes, worker>>
certbotVars == <<certbot, certs>>
siteVars == <<files, loaded>>
vars == <<domain, requestVars, workerVars, certbotVars, pub, siteVars, verified>>

-----------------------------------------------------------------------------

Status == {"none", "pending_dns", "pending_cert", "active", "failed"}

(* A row is known by its hostname, which is unique, and its id. *)
Id == Host \X Nat
Job == [id : Id, runs : Nat]

Row == [id : Nat, app : App \cup {None}, status : Status]
Request == [pc : {"idle", "resolve", "add"}, id : Id \cup {None}]
Run == [pc : {"idle", "write", "reload", "issue", "issuing", "active", "fail"},
        job : Job \cup {None}]
Publication == [pc : {"idle", "write"}, app : App \cup {None},
                todo : SUBSET (Host \X Status)]

(* A site is known by its file name: acme-<host> or <slug>-<host>. *)
Site == (App \cup {Acme}) \X Host
Kind == {"none", "http", "tls"}

NoRow == [id |-> 0, app |-> None, status |-> "none"]
NoCheck == [pc |-> "idle", id |-> None]
NoJob == [pc |-> "idle", job |-> None]
NoPub == [pc |-> "idle", app |-> None, todo |-> {}]

RowId(h) == <<h, domain[h].id>>
Present(id) == domain[id[1]].id = id[2] /\ domain[id[1]].status # "none"

(* UPDATE domains SET cert_status = st WHERE id = id: no row, no effect. *)
SetStatus(id, st) ==
    domain' = IF Present(id) THEN [domain EXCEPT ![id[1]].status = st] ELSE domain

JobHost == worker.job.id[1]
Goto(p) == worker' = [worker EXCEPT !.pc = p]
FailsOn(kind) == kind \in Faults /\ Goto("fail")

(* nginx -t: a TLS site names the certificate of its hostname. *)
Valid(sites) == \A n \in Site : sites[n] = "tls" => n[2] \in certs

(* Every template answers the challenge of its hostname. *)
Routed(h) == \E owner \in App \cup {Acme} : loaded[<<owner, h>>] # "none"

Init ==
    /\ domain = [h \in Host |-> NoRow]
    /\ check = [r \in Req |-> NoCheck]
    /\ queue = <<>> /\ stalled = <<>> /\ crashes = 0
    /\ worker = NoJob
    /\ certbot = None /\ certs = {}
    /\ pub = [s \in Slot |-> NoPub]
    /\ files = [n \in Site |-> "none"] /\ loaded = files
    /\ verified = {} /\ dropped = {}

-----------------------------------------------------------------------------
(* pm-api *)

Add(h, a) ==
    /\ domain[h].status = "none" /\ domain[h].id < MaxAdds
    /\ domain' = [domain EXCEPT
           ![h] = [id |-> @.id + 1, app |-> a, status |-> "pending_dns"]]
    /\ UNCHANGED <<requestVars, workerVars, certbotVars, pub, siteVars, verified>>

(* Mutant: the row stays, with a status the schema does not list. *)
RemoveSoftly(h) ==
    /\ domain[h].status # "none"
    /\ domain' = [domain EXCEPT ![h].status = "removed"]
    /\ UNCHANGED <<requestVars, workerVars, certbotVars, pub, siteVars, verified>>

(* The row goes; its job, its sites and its certificate stay. *)
Remove(h) ==
    /\ domain[h].status # "none"
    /\ domain' = [domain EXCEPT ![h] = [@ EXCEPT !.status = "none", !.app = None]]
    /\ UNCHANGED <<requestVars, workerVars, certbotVars, pub, siteVars, verified>>

(* checkDns reads the row; for pending_cert the route goes on to the queue, *)
(* for active and failed it ends.                                           *)
CheckRead(r, h) ==
    /\ check[r].pc = "idle"
    /\ \/ /\ domain[h].status = "pending_dns"
          /\ check' = [check EXCEPT ![r] = [pc |-> "resolve", id |-> RowId(h)]]
       \/ /\ domain[h].status = "pending_cert"
          /\ check' = [check EXCEPT ![r] = [pc |-> "add", id |-> RowId(h)]]
    /\ UNCHANGED <<domain, queue, dropped, workerVars, certbotVars, pub, siteVars, verified>>

(* The resolver's answer holds the host's address: the row is updated, in  *)
(* whatever status it is by now.                                           *)
Resolved(r) ==
    /\ check[r].pc = "resolve"
    /\ SetStatus(check[r].id, "pending_cert")
    /\ verified' = verified \cup {check[r].id}
    /\ check' = [check EXCEPT ![r].pc = "add"]
    /\ UNCHANGED <<queue, dropped, workerVars, certbotVars, pub, siteVars>>

NotResolved(r) ==
    /\ "dns" \in Faults
    /\ check[r].pc = "resolve"
    /\ check' = [check EXCEPT ![r] = NoCheck]
    /\ UNCHANGED <<domain, queue, dropped, workerVars, certbotVars, pub, siteVars, verified>>

AddJob(r) ==
    /\ check[r].pc = "add"
    /\ \/ /\ Len(queue) < MaxQueue
          /\ queue' = Append(queue, [id |-> check[r].id, runs |-> 0])
          /\ UNCHANGED dropped
       \/ /\ "enqueue" \in Faults
          /\ dropped' = dropped \cup {check[r].id}
          /\ UNCHANGED queue
    /\ check' = [check EXCEPT ![r] = NoCheck]
    /\ UNCHANGED <<domain, workerVars, certbotVars, pub, siteVars, verified>>

-----------------------------------------------------------------------------
(* pm-worker: runCertIssue *)

(* A job whose row is gone ends at once. *)
Claim ==
    /\ worker.pc = "idle" /\ queue # <<>>
    /\ queue' = Tail(queue)
    /\ LET job == [Head(queue) EXCEPT !.runs = @ + 1] IN
       \/ Present(job.id) /\ worker' = [pc |-> "write", job |-> job]
       \/ ~Present(job.id) /\ UNCHANGED worker
    /\ UNCHANGED <<domain, check, dropped, stalled, crashes, certbotVars, pub, siteVars,
                   verified>>

WriteAcme ==
    /\ worker.pc = "write"
    /\ \/ files' = [files EXCEPT ![<<Acme, JobHost>>] = "http"] /\ Goto("reload")
       \/ FailsOn("helper") /\ UNCHANGED files
    /\ UNCHANGED <<domain, requestVars, stalled, crashes, certbotVars, pub, loaded,
                   verified>>

(* Mutant: the challenge site is written and not loaded. *)
ReloadForgotten ==
    /\ worker.pc = "reload"
    /\ Goto("issue")
    /\ UNCHANGED <<domain, requestVars, stalled, crashes, certbotVars, pub,
                   siteVars, verified>>

ReloadAcme ==
    /\ worker.pc = "reload"
    /\ \/ Valid(files) /\ loaded' = files /\ Goto("issue")
       \/ ~Valid(files) /\ Goto("fail") /\ UNCHANGED loaded
       \/ FailsOn("helper") /\ UNCHANGED loaded
    /\ UNCHANGED <<domain, requestVars, stalled, crashes, certbotVars, pub, files,
                   verified>>

(* A second certbot finds the first one's lock and exits. *)
StartCertbot ==
    /\ worker.pc = "issue"
    /\ \/ certbot = None /\ certbot' = JobHost /\ Goto("issuing")
       \/ certbot # None /\ Goto("fail") /\ UNCHANGED certbot
    /\ UNCHANGED <<domain, requestVars, stalled, crashes, certs, pub, siteVars,
                   verified>>

Answer(p) == IF worker.pc = "issuing" THEN Goto(p) ELSE UNCHANGED worker

(* certbot ends, whether or not anybody still waits for it. *)
CertbotEnds ==
    /\ certbot # None
    /\ certbot' = None
    /\ \/ Routed(certbot) /\ certs' = certs \cup {certbot} /\ Answer("active")
       \/ /\ "certbot" \in Faults \/ ~Routed(certbot)
          /\ UNCHANGED certs /\ Answer("fail")
    /\ UNCHANGED <<domain, requestVars, stalled, crashes, pub, siteVars, verified>>

(* HelperClient gives up after 30 s, certbot after 120 s. *)
TimeOut ==
    /\ worker.pc = "issuing"
    /\ FailsOn("timeout")
    /\ UNCHANGED <<domain, requestVars, stalled, crashes, certbotVars, pub,
                   siteVars, verified>>

(* Mutant: the update goes by hostname. *)
MarkActiveByHost ==
    /\ worker.pc = "active"
    /\ domain' = [domain EXCEPT ![JobHost].status =
                      IF @ = "none" THEN @ ELSE "active"]
    /\ worker' = NoJob
    /\ UNCHANGED <<requestVars, stalled, crashes, certbotVars, pub, siteVars, verified>>

MarkActive ==
    /\ worker.pc = "active"
    /\ \/ SetStatus(worker.job.id, "active") /\ worker' = NoJob
       \/ FailsOn("record") /\ UNCHANGED domain
    /\ UNCHANGED <<requestVars, stalled, crashes, certbotVars, pub, siteVars, verified>>

(* Mutant: the catch block throws before it has updated the row. *)
MarkFailedForgotten ==
    /\ worker.pc = "fail"
    /\ worker' = NoJob
    /\ UNCHANGED <<domain, requestVars, stalled, crashes, certbotVars, pub,
                   siteVars, verified>>

MarkFailed ==
    /\ worker.pc = "fail"
    /\ SetStatus(worker.job.id, "failed")
    /\ worker' = NoJob
    /\ UNCHANGED <<requestVars, stalled, crashes, certbotVars, pub, siteVars, verified>>

(* The worker process dies, with its deploys; certbot does not. *)
Crash ==
    /\ crashes < MaxCrashes
    /\ worker.pc # "idle" \/ \E s \in Slot : pub[s].pc # "idle"
    /\ crashes' = crashes + 1
    /\ stalled' = IF worker.pc = "idle" THEN stalled ELSE Append(stalled, worker.job)
    /\ worker' = NoJob
    /\ pub' = [s \in Slot |-> NoPub]
    /\ UNCHANGED <<domain, requestVars, certbotVars, siteVars, verified>>

(* BullMQ's stalled check: back to the head of the queue, or given up. *)
StalledCheck ==
    /\ stalled # <<>>
    /\ stalled' = Tail(stalled)
    /\ queue' = IF Head(stalled).runs <= MaxStalls
                THEN <<Head(stalled)>> \o queue ELSE queue
    /\ UNCHANGED <<domain, check, dropped, crashes, worker, certbotVars, pub, siteVars,
                   verified>>

-----------------------------------------------------------------------------
(* pm-worker: the end of runDeploy, for an application with domains *)

PublishRead(s, a) ==
    /\ pub[s].pc = "idle"
    /\ \E h \in Host : domain[h].app = a
    /\ pub' = [pub EXCEPT ![s] =
           [pc |-> "write", app |-> a,
            todo |-> {<<h, domain[h].status>> : h \in {g \in Host : domain[g].app = a}}]]
    /\ UNCHANGED <<domain, requestVars, workerVars, certbotVars, siteVars, verified>>

(* Mutant: the site of a domain whose certificate is pending uses TLS. *)
PublishTlsEarly(s) ==
    /\ pub[s].pc = "write"
    /\ \E row \in pub[s].todo :
        /\ files' = [files EXCEPT ![<<pub[s].app, row[1]>>] =
               IF row[2] \in {"pending_cert", "active"} THEN "tls" ELSE "http"]
        /\ pub' = [pub EXCEPT ![s].todo = @ \ {row}]
    /\ UNCHANGED <<domain, requestVars, workerVars, certbotVars, loaded, verified>>

PublishWrite(s) ==
    /\ pub[s].pc = "write"
    /\ \E row \in pub[s].todo :
        /\ files' = [files EXCEPT ![<<pub[s].app, row[1]>>] =
               IF row[2] = "active" THEN "tls" ELSE "http"]
        /\ pub' = [pub EXCEPT ![s].todo = @ \ {row}]
    /\ UNCHANGED <<domain, requestVars, workerVars, certbotVars, loaded, verified>>

PublishReload(s) ==
    /\ pub[s].pc = "write" /\ pub[s].todo = {}
    /\ loaded' = IF Valid(files) THEN files ELSE loaded
    /\ pub' = [pub EXCEPT ![s] = NoPub]
    /\ UNCHANGED <<domain, requestVars, workerVars, certbotVars, files, verified>>

(* A call to the helper fails, and with it the deploy. *)
PublishFails(s) ==
    /\ "helper" \in Faults
    /\ pub[s].pc = "write"
    /\ pub' = [pub EXCEPT ![s] = NoPub]
    /\ UNCHANGED <<domain, requestVars, workerVars, certbotVars, siteVars, verified>>

-----------------------------------------------------------------------------

RunStep ==
    \/ WriteAcme \/ ReloadAcme \/ StartCertbot \/ TimeOut
    \/ MarkActive \/ MarkFailed

CheckStep(r) == Resolved(r) \/ NotResolved(r) \/ AddJob(r)

PublishStep(s) == PublishWrite(s) \/ PublishReload(s) \/ PublishFails(s)

Next ==
    \/ \E h \in Host : \/ Remove(h)
                       \/ \E a \in App : Add(h, a)
                       \/ \E r \in Req : CheckRead(r, h)
    \/ \E r \in Req : CheckStep(r)
    \/ \E s \in Slot : PublishStep(s) \/ \E a \in App : PublishRead(s, a)
    \/ Claim \/ RunStep \/ CertbotEnds \/ Crash \/ StalledCheck

Spec == Init /\ [][Next]_vars

(* Requests begun go on, the worker goes on with a job and takes the next, *)
(* BullMQ looks for stalled jobs, and the helper ends certbot after 120 s. *)
FairSpec ==
    /\ Spec
    /\ \A r \in Req : WF_vars(CheckStep(r))
    /\ WF_vars(Claim) /\ WF_vars(RunStep)
    /\ WF_vars(CertbotEnds) /\ WF_vars(StalledCheck)

-----------------------------------------------------------------------------
(* Properties *)

(* The columns, requests, jobs, slots and sites have their types.          *)
TypeOK ==
    /\ domain \in [Host -> Row]
    /\ check \in [Req -> Request]
    /\ queue \in Seq(Job) /\ stalled \in Seq(Job) /\ crashes \in Nat
    /\ worker \in Run
    /\ certbot \in Host \cup {None} /\ certs \subseteq Host
    /\ pub \in [Slot -> Publication]
    /\ files \in [Site -> Kind] /\ loaded \in [Site -> Kind]
    /\ verified \subseteq Id /\ dropped \subseteq Id

(* A domain shown as active has its certificate on disk, and so has every  *)
(* TLS site a deploy has written from a status read earlier: nginx -t does *)
(* not fail over a certificate, whatever timed out, crashed or ran twice.  *)
TlsHasCert ==
    /\ \A h \in Host : domain[h].status = "active" => h \in certs
    /\ Valid(files) /\ Valid(loaded)

(* Whenever certbot is at work for a hostname, nginx has loaded a site     *)
(* that answers the challenge (runCertIssue writes and reloads before).    *)
ChallengeIsRouted == certbot # None => Routed(certbot)

(* A row gets beyond pending_dns only after DNS was seen to match for that *)
(* row: checks and jobs of a row that was removed do not carry the one     *)
(* added after it under the same hostname (design 6.5 step 2: "Won't       *)
(* proceed otherwise").                                                    *)
VerifiedFirst ==
    \A h \in Host : domain[h].status \in {"pending_cert", "active", "failed"}
                        => RowId(h) \in verified

HasWork(id) ==
    \/ \E r \in Req : check[r].pc = "add" /\ check[r].id = id
    \/ \E i \in 1..Len(queue) : queue[i].id = id
    \/ \E i \in 1..Len(stalled) : stalled[i].id = id
    \/ worker.pc # "idle" /\ worker.job.id = id

(* A domain that waits for its certificate has a job or is about to get    *)
(* one, unless adding one failed or BullMQ gave up on a job that stalled    *)
(* more than MaxStalls times.                                              *)
NoStrandedDomain ==
    \A h \in Host : domain[h].status = "pending_cert" /\ ~HasWork(RowId(h))
        => RowId(h) \in dropped \/ crashes > MaxStalls

(* A request for a certificate comes to an end or its job was lost: with    *)
(* requests repeated, domains removed and added again, calls that fail or   *)
(* time out, and a worker that crashes once (cert-issue.ts:14-35).         *)
PendingEnds ==
    \A h \in Host : domain[h].status = "pending_cert" ~>
        domain[h].status # "pending_cert" \/ RowId(h) \in dropped

(* The table of domains, the certificates and what was seen of DNS change   *)
(* as DomainLifecycle allows, whatever checks, jobs, removals and certbots  *)
(* overlap, time out or are repeated.                                       *)
Lifecycle == INSTANCE DomainLifecycle WITH
    status <- [h \in Host |-> domain[h].status],
    row <- [h \in Host |-> domain[h].id],
    certified <- certs

ImplementsDomainLifecycle == Lifecycle!Spec
=============================================================================
