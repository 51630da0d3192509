------------------------- MODULE DomainCertsProofs -------------------------
(***************************************************************************)
(* Proofs about DomainCerts: TLS sites have their certificates, certbot's  *)
(* challenges are routed, no row gets a certificate unverified, no domain  *)
(* is stranded, and the table is one of DomainLifecycle's.                 *)
(***************************************************************************)
EXTENDS DomainCerts, TLAPS

(* What is promised to whoever acts on a status or an answer later.        *)
CertInv ==
    /\ TlsHasCert
    /\ worker.pc = "active" => JobHost \in certs
    /\ worker.pc = "issuing" => certbot = JobHost
    /\ \A s \in Slot : \A row \in pub[s].todo : row[2] = "active" => row[1] \in certs

(* Sites do not go away, and a job loads its challenge before it asks.     *)
RouteInv ==
    /\ ChallengeIsRouted
    /\ \A n \in Site : loaded[n] # "none" => files[n] # "none"
    /\ worker.pc = "reload" => files[<<Acme, JobHost>>] # "none"
    /\ worker.pc = "issue" => loaded[<<Acme, JobHost>>] # "none"

Ids(q) == {q[i].id : i \in 1..Len(q)}

(* Every request and every job past its DNS check is for a verified row.   *)
VerifiedInv ==
    /\ VerifiedFirst
    /\ \A r \in Req : check[r].pc = "add" => check[r].id \in verified
    /\ Ids(queue) \subseteq verified /\ Ids(stalled) \subseteq verified
    /\ worker.pc # "idle" => worker.job.id \in verified

(* The parts of runs and requests that a type alone does not tell.         *)
BusyHasJob ==
    /\ worker.pc # "idle" => worker.job \in Job
    /\ \A r \in Req : check[r].pc # "idle" => check[r].id \in Id
    /\ \A s \in Slot : pub[s].pc # "idle" => pub[s].app \in App

IndInv == TypeOK /\ BusyHasJob /\ CertInv /\ RouteInv /\ VerifiedInv

-----------------------------------------------------------------------------
(* Queues of jobs *)

(* Taking the head of a queue leaves jobs that were in it.                 *)
LEMMA TailIds ==
    ASSUME NEW q \in Seq(Job), q # <<>>
    PROVE  /\ Head(q) \in Job /\ Tail(q) \in Seq(Job)
           /\ Head(q).id \in Ids(q) /\ Ids(Tail(q)) \subseteq Ids(q)
<1>1. /\ Len(q) \in Nat /\ Len(q) >= 1 /\ Head(q) = q[1]
      /\ Tail(q) \in Seq(Job) /\ Head(q) \in Job
  OBVIOUS
<1>2. Len(Tail(q)) = Len(q) - 1 /\ \A i \in 1..Len(Tail(q)) : Tail(q)[i] = q[i + 1]
  BY <1>1
<1>3. Ids(Tail(q)) \subseteq Ids(q)
  BY <1>1, <1>2 DEF Ids
<1> QED BY <1>1, <1>3 DEF Ids

(* A job added at either end adds its own id.                              *)
LEMMA AddedIds ==
    ASSUME NEW q \in Seq(Job), NEW j \in Job
    PROVE  /\ Append(q, j) \in Seq(Job) /\ Ids(Append(q, j)) = Ids(q) \cup {j.id}
           /\ <<j>> \o q \in Seq(Job) /\ Ids(<<j>> \o q) = Ids(q) \cup {j.id}
<1>1. Len(q) \in Nat
  OBVIOUS
<1>2. DEFINE a == Append(q, j)
             p == <<j>> \o q
<1>3. /\ a \in Seq(Job) /\ Len(a) = Len(q) + 1 /\ a[Len(q) + 1] = j
      /\ \A i \in 1..Len(q) : a[i] = q[i]
  BY <1>1
<1>4. /\ p \in Seq(Job) /\ Len(p) = Len(q) + 1 /\ p[1] = j
      /\ \A i \in 1..Len(q) : p[i + 1] = q[i]
  BY <1>1
<1>5. \A i \in 2..Len(p) : i - 1 \in 1..Len(q) /\ p[i] = q[i - 1]
  BY <1>1, <1>4
<1>6. Ids(a) = Ids(q) \cup {j.id}
  BY <1>1, <1>3 DEF Ids
<1>7. Ids(p) = Ids(q) \cup {j.id}
  <2>1. ASSUME NEW x \in Ids(p) PROVE x \in Ids(q) \cup {j.id}
    <3>1. PICK i \in 1..Len(p) : x = p[i].id
      BY DEF Ids
    <3>2. i = 1 \/ i \in 2..Len(p)
      BY <1>1, <1>4
    <3> QED BY <1>4, <1>5, <3>1, <3>2 DEF Ids
  <2>2. ASSUME NEW x \in Ids(q) PROVE x \in Ids(p)
    <3>1. PICK i \in 1..Len(q) : x = q[i].id
      BY DEF Ids
    <3>2. i + 1 \in 1..Len(p) /\ p[i + 1].id = x
      BY <1>1, <1>4, <3>1
    <3> QED BY <3>2 DEF Ids
  <2>3. j.id \in Ids(p)
    BY <1>1, <1>4 DEF Ids
  <2> QED BY <2>1, <2>2, <2>3
<1> QED BY <1>3, <1>4, <1>6, <1>7

-----------------------------------------------------------------------------
(* pm-api *)

(* No row has been added, no site written.                                 *)
LEMMA InvInit == Init => IndInv
<1> SUFFICES ASSUME Init PROVE IndInv
  OBVIOUS
<1>1. TypeOK
  BY DEF Init, TypeOK, Row, Request, Run, Publication, NoRow, NoCheck, NoJob, NoPub,
         Status, Kind
<1>2. BusyHasJob /\ CertInv /\ RouteInv
  BY DEF Init, BusyHasJob, CertInv, RouteInv, TlsHasCert, Valid, ChallengeIsRouted,
         NoRow, NoCheck, NoJob, NoPub
<1>3. VerifiedInv
  BY DEF Init, VerifiedInv, VerifiedFirst, Ids, NoRow, NoCheck, NoJob
<1> QED BY <1>1, <1>2, <1>3 DEF IndInv

(* A new row is pending_dns.                                               *)
LEMMA AddStep ==
    ASSUME IndInv, NEW h \in Host, NEW a \in App, Add(h, a)
    PROVE  IndInv'
<1> USE DEF Add, requestVars, workerVars, certbotVars, siteVars
<1>1. domain \in [Host -> Row] /\ domain' \in [Host -> Row]
  BY DEF IndInv, TypeOK, Row, Status
<1>2. \A g \in Host : g # h => domain'[g] = domain[g]
  BY <1>1
<1>3. domain'[h].status = "pending_dns"
  BY <1>1 DEF Row
<1>11. TypeOK'
  BY <1>1 DEF IndInv, TypeOK
<1>12. BusyHasJob'
  BY DEF IndInv, BusyHasJob
<1>13. CertInv'
  BY <1>2, <1>3 DEF IndInv, CertInv, TlsHasCert, Valid, JobHost
<1>14. RouteInv'
  BY DEF IndInv, RouteInv, ChallengeIsRouted, Routed, JobHost
<1>15. VerifiedInv'
  BY <1>2, <1>3 DEF IndInv, VerifiedInv, VerifiedFirst, RowId, Ids
<1> QED BY <1>11, <1>12, <1>13, <1>14, <1>15 DEF IndInv

(* A removed row has no status to answer for.                              *)
LEMMA RemoveStep ==
    ASSUME IndInv, NEW h \in Host, Remove(h)
    PROVE  IndInv'
<1> USE DEF Remove, requestVars, workerVars, certbotVars, siteVars
<1>1. domain \in [Host -> Row] /\ domain' \in [Host -> Row]
  BY DEF IndInv, TypeOK, Row, Status
<1>2. \A g \in Host : g # h => domain'[g] = domain[g]
  BY <1>1
<1>3. domain'[h].status = "none"
  BY <1>1 DEF Row
<1>11. TypeOK'
  BY <1>1 DEF IndInv, TypeOK
<1>12. BusyHasJob'
  BY DEF IndInv, BusyHasJob
<1>13. CertInv'
  BY <1>2, <1>3 DEF IndInv, CertInv, TlsHasCert, Valid, JobHost
<1>14. RouteInv'
  BY DEF IndInv, RouteInv, ChallengeIsRouted, Routed, JobHost
<1>15. VerifiedInv'
  BY <1>2, <1>3 DEF IndInv, VerifiedInv, VerifiedFirst, RowId, Ids
<1> QED BY <1>11, <1>12, <1>13, <1>14, <1>15 DEF IndInv

(* A row that is pending_cert has been verified already.                   *)
LEMMA CheckReadStep ==
    ASSUME IndInv, NEW r \in Req, NEW h \in Host, CheckRead(r, h)
    PROVE  IndInv'
<1> USE DEF CheckRead, requestVars, workerVars, certbotVars, siteVars
<1>1. RowId(h) \in Id
  BY DEF IndInv, TypeOK, Row, RowId, Id
<1>2. /\ check' \in [Req -> Request]
      /\ check'[r].id = RowId(h)
      /\ check'[r].pc = "resolve" \/ (check'[r].pc = "add" /\ RowId(h) \in verified)
      /\ \A q \in Req : q # r => check'[q] = check[q]
  BY <1>1 DEF IndInv, TypeOK, Request, VerifiedInv, VerifiedFirst
<1>11. TypeOK'
  BY <1>2 DEF IndInv, TypeOK
<1>12. BusyHasJob'
  BY <1>1, <1>2 DEF IndInv, BusyHasJob
<1>13. CertInv'
  BY DEF IndInv, CertInv, TlsHasCert, Valid, JobHost
<1>14. RouteInv'
  BY DEF IndInv, RouteInv, ChallengeIsRouted, Routed, JobHost
<1>15. VerifiedInv'
  BY <1>2 DEF IndInv, VerifiedInv, VerifiedFirst, RowId, Ids
<1> QED BY <1>11, <1>12, <1>13, <1>14, <1>15 DEF IndInv

(* An update by id hits the row of that id or none: it takes over what is  *)
(* known of the id.                                                        *)
LEMMA SetStatusRow ==
    ASSUME TypeOK, NEW id \in Id, NEW st \in Status \ {"none"}, SetStatus(id, st)
    PROVE  /\ domain' \in [Host -> Row]
           /\ \A h \in Host : /\ domain'[h].id = domain[h].id
                              /\ \/ domain'[h].status = domain[h].status
                                 \/ domain'[h].status = st /\ id = RowId(h)
<1>1. /\ id[1] \in Host /\ id = <<id[1], id[2]>>
      /\ domain \in [Host -> Row] /\ domain[id[1]] \in Row
  BY DEF Id, TypeOK
<1>2. CASE Present(id)
  <2> DEFINE new == [domain[id[1]] EXCEPT !.status = st]
  <2>1. new \in Row /\ new.id = id[2] /\ new.status = st
    BY <1>1, <1>2 DEF Row, Present
  <2>2. domain' = [domain EXCEPT ![id[1]] = new]
    BY <1>2 DEF SetStatus
  <2>3. /\ domain' \in [Host -> Row] /\ domain'[id[1]] = new
        /\ \A h \in Host : h # id[1] => domain'[h] = domain[h]
    BY <1>1, <2>1, <2>2
  <2>4. id = RowId(id[1]) /\ domain[id[1]].id = id[2]
    BY <1>1, <1>2 DEF Present, RowId
  <2> QED BY <2>1, <2>3, <2>4
<1>3. CASE ~Present(id)
  BY <1>1, <1>3 DEF SetStatus
<1> QED BY <1>2, <1>3

(* The check that found DNS to match records it with its row.              *)
LEMMA ResolvedStep ==
    ASSUME IndInv, NEW r \in Req, Resolved(r)
    PROVE  IndInv'
<1> USE DEF Resolved, requestVars, workerVars, certbotVars, siteVars
<1>1. check[r].id \in Id
  BY DEF IndInv, BusyHasJob
<1>2. /\ domain' \in [Host -> Row]
      /\ \A h \in Host : /\ domain'[h].id = domain[h].id
                         /\ \/ domain'[h].status = domain[h].status
                            \/ domain'[h].status = "pending_cert" /\ check[r].id = RowId(h)
  BY <1>1, SetStatusRow DEF Status, IndInv
<1>3. /\ check' \in [Req -> Request] /\ check'[r].id = check[r].id
      /\ \A q \in Req : q # r => check'[q] = check[q]
  BY DEF IndInv, TypeOK, Request
<1>11. TypeOK'
  BY <1>1, <1>2, <1>3 DEF IndInv, TypeOK
<1>12. BusyHasJob'
  BY <1>1, <1>3 DEF IndInv, BusyHasJob
<1>13. CertInv'
  BY <1>2 DEF IndInv, CertInv, TlsHasCert, Valid, JobHost
<1>14. RouteInv'
  BY DEF IndInv, RouteInv, ChallengeIsRouted, Routed, JobHost
<1>15. VerifiedInv'
  BY <1>1, <1>2, <1>3 DEF IndInv, VerifiedInv, VerifiedFirst, RowId, Ids
<1> QED BY <1>11, <1>12, <1>13, <1>14, <1>15 DEF IndInv

(* A check that ends without a match changes nothing else.                 *)
LEMMA NotResolvedStep ==
    ASSUME IndInv, NEW r \in Req, NotResolved(r)
    PROVE  IndInv'
<1> USE DEF NotResolved, requestVars, workerVars, certbotVars, siteVars
<1>1. /\ check' \in [Req -> Request] /\ check'[r].pc = "idle"
      /\ \A q \in Req : q # r => check'[q] = check[q]
  BY DEF IndInv, TypeOK, Request, NoCheck
<1>11. TypeOK'
  BY <1>1 DEF IndInv, TypeOK
<1>12. BusyHasJob'
  BY <1>1 DEF IndInv, BusyHasJob
<1>13. CertInv'
  BY DEF IndInv, CertInv, TlsHasCert, Valid, JobHost
<1>14. RouteInv'
  BY DEF IndInv, RouteInv, ChallengeIsRouted, Routed, JobHost
<1>15. VerifiedInv'
  BY <1>1 DEF IndInv, VerifiedInv, VerifiedFirst, RowId, Ids
<1> QED BY <1>11, <1>12, <1>13, <1>14, <1>15 DEF IndInv

(* The job added is for a verified row.                                    *)
LEMMA AddJobStep ==
    ASSUME IndInv, NEW r \in Req, AddJob(r)
    PROVE  IndInv'
<1> USE DEF AddJob, requestVars, workerVars, certbotVars, siteVars
<1>1. /\ check' \in [Req -> Request] /\ check'[r].pc = "idle"
      /\ \A q \in Req : q # r => check'[q] = check[q]
  BY DEF IndInv, TypeOK, Request, NoCheck
<1>2. check[r].id \in Id /\ check[r].id \in verified
  BY DEF IndInv, BusyHasJob, VerifiedInv
<1> DEFINE j == [id |-> check[r].id, runs |-> 0]
<1>3. j \in Job /\ j.id = check[r].id /\ queue \in Seq(Job)
  BY <1>2 DEF Job, IndInv, TypeOK
<1>4. queue' = Append(queue, j) \/ queue' = queue
  OBVIOUS
<1>5. queue' \in Seq(Job) /\ Ids(queue)' \subseteq Ids(queue) \cup {check[r].id}
  <2> HIDE DEF j
  <2>1. CASE queue' = Append(queue, j)
    BY <1>3, <2>1, AddedIds DEF Ids
  <2>2. CASE queue' = queue
    BY <1>3, <2>2 DEF Ids
  <2> QED BY <1>4, <2>1, <2>2
<1>6. Ids(queue)' \subseteq verified /\ Ids(stalled)' \subseteq verified
  BY <1>2, <1>5 DEF IndInv, VerifiedInv, Ids
<1>11. TypeOK'
  BY <1>1, <1>2, <1>5 DEF IndInv, TypeOK
<1>12. BusyHasJob'
  BY <1>1 DEF IndInv, BusyHasJob
<1>13. CertInv'
  BY DEF IndInv, CertInv, TlsHasCert, Valid, JobHost
<1>14. RouteInv'
  BY DEF IndInv, RouteInv, ChallengeIsRouted, Routed, JobHost
<1>15. VerifiedInv'
  BY <1>1, <1>6 DEF IndInv, VerifiedInv, VerifiedFirst, RowId
<1> QED BY <1>11, <1>12, <1>13, <1>14, <1>15 DEF IndInv

-----------------------------------------------------------------------------
(* pm-worker *)

(* A run goes on with its job.                                             *)
LEMMA GotoKeepsJob ==
    ASSUME worker \in Run, NEW p, Goto(p),
           p \in {"idle", "write", "reload", "issue", "issuing", "active", "fail"}
    PROVE  worker' \in Run /\ worker'.pc = p /\ worker'.job = worker.job
BY DEF Run, Goto

(* A run that is not idle has a job, and the job a hostname.               *)
LEMMA BusyHost ==
    ASSUME IndInv, worker.pc # "idle"
    PROVE  worker.job \in Job /\ worker.job.id \in Id /\ JobHost \in Host
<1>1. worker.job \in Job
  BY DEF IndInv, BusyHasJob
<1> QED BY <1>1 DEF Job, Id, JobHost

(* A run that is over has no job.                                          *)
LEMMA NoJobIsRun == NoJob \in Run /\ NoJob.pc = "idle"
BY DEF NoJob, Run

(* A reload of valid sites, or none, takes no site away from nginx.        *)
LEMMA ReloadKeepsRoutes ==
    ASSUME IndInv, loaded' = loaded \/ loaded' = files, files' = files, certbot' = certbot
    PROVE  /\ ChallengeIsRouted'
           /\ \A n \in Site : loaded'[n] # "none" => files'[n] # "none"
           /\ \A n \in Site : loaded[n] # "none" => loaded'[n] # "none"
<1>1. \A n \in Site : loaded[n] # "none" => files[n] # "none"
  BY DEF IndInv, RouteInv
<1>2. \A n \in Site : loaded[n] # "none" => loaded'[n] # "none"
  BY <1>1
<1>3. ASSUME certbot' # None PROVE Routed(certbot)'
  <2>1. certbot \in Host /\ Routed(certbot)
    BY <1>3 DEF IndInv, TypeOK, RouteInv, ChallengeIsRouted
  <2>2. PICK owner \in App \cup {Acme} : loaded[<<owner, certbot>>] # "none"
    BY <2>1 DEF Routed
  <2>3. <<owner, certbot>> \in Site
    BY <2>1 DEF Site
  <2> QED BY <1>2, <2>2, <2>3 DEF Routed
<1> QED BY <1>1, <1>2, <1>3 DEF ChallengeIsRouted

(* A job that was waiting becomes the run, or ends.                        *)
LEMMA ClaimStep ==
    ASSUME IndInv, Claim
    PROVE  IndInv'
<1> USE DEF Claim, requestVars, workerVars, certbotVars, siteVars
<1> DEFINE q == queue
           job == [Head(q) EXCEPT !.runs = @ + 1]
<1>1. q \in Seq(Job) /\ q # <<>> /\ worker.pc = "idle"
  BY DEF IndInv, TypeOK
<1>2. /\ Head(q) \in Job /\ Tail(q) \in Seq(Job)
      /\ Head(q).id \in Ids(q) /\ Ids(Tail(q)) \subseteq Ids(q)
  BY <1>1, TailIds
<1>3. job \in Job /\ job.id = Head(q).id
  <2>1. Head(q).id \in Id /\ Head(q).runs \in Nat
    BY <1>2 DEF Job
  <2>2. Head(q) = [id |-> Head(q).id, runs |-> Head(q).runs]
    BY <1>2 DEF Job
  <2> QED BY <2>1, <2>2 DEF Job
<1>4. queue' = Tail(q)
  OBVIOUS
<1>5. \/ /\ worker' = [pc |-> "write", job |-> job]
         /\ worker' \in Run /\ worker'.pc = "write" /\ worker'.job = job
      \/ worker' = worker
  BY <1>3 DEF Run
<1> HIDE DEF q, job
<1>6. Ids(q) \subseteq verified /\ job.id \in verified /\ Ids(queue)' \subseteq verified
  BY <1>2, <1>3, <1>4 DEF IndInv, VerifiedInv, Ids, q
<1>11. TypeOK'
  BY <1>2, <1>4, <1>5 DEF IndInv, TypeOK
<1>12. BusyHasJob'
  BY <1>1, <1>3, <1>5 DEF IndInv, BusyHasJob
<1>13. CertInv'
  BY <1>1, <1>5 DEF IndInv, CertInv, TlsHasCert, Valid, JobHost
<1>14. RouteInv'
  BY <1>1, <1>5 DEF IndInv, RouteInv, ChallengeIsRouted, Routed, JobHost
<1>15. VerifiedInv'
  BY <1>1, <1>5, <1>6 DEF IndInv, VerifiedInv, VerifiedFirst, RowId, Ids
<1> QED BY <1>11, <1>12, <1>13, <1>14, <1>15 DEF IndInv

(* The site for the challenge is HTTP: it needs no certificate.             *)
LEMMA WriteAcmeStep ==
    ASSUME IndInv, WriteAcme
    PROVE  IndInv'
<1> USE DEF WriteAcme, requestVars, workerVars, certbotVars, siteVars
<1>1. worker \in Run /\ worker.pc # "idle"
  BY DEF IndInv, TypeOK
<1>2. worker.job \in Job /\ JobHost \in Host
  BY <1>1, BusyHost
<1>3. <<Acme, JobHost>> \in Site /\ files \in [Site -> Kind]
  BY <1>2 DEF Site, IndInv, TypeOK
<1>4. /\ files' \in [Site -> Kind]
      /\ \A n \in Site : files'[n] = files[n] \/ files'[n] = "http"
      /\ worker'.pc = "reload" => files'[<<Acme, JobHost>>] = "http"
      /\ worker' \in Run /\ worker'.pc \in {"reload", "fail"} /\ worker'.job = worker.job
  BY <1>1, <1>3, GotoKeepsJob DEF FailsOn, Kind
<1>11. TypeOK'
  BY <1>4 DEF IndInv, TypeOK
<1>12. BusyHasJob'
  BY <1>2, <1>4 DEF IndInv, BusyHasJob
<1>13. CertInv'
  BY <1>4 DEF IndInv, CertInv, TlsHasCert, Valid, JobHost
<1>14. RouteInv'
  BY <1>4 DEF IndInv, RouteInv, ChallengeIsRouted, Routed, JobHost
<1>15. VerifiedInv'
  BY <1>1, <1>4 DEF IndInv, VerifiedInv, VerifiedFirst, RowId, Ids
<1> QED BY <1>11, <1>12, <1>13, <1>14, <1>15 DEF IndInv

(* What has been loaded is what is on disk, if that is valid.              *)
LEMMA ReloadAcmeStep ==
    ASSUME IndInv, ReloadAcme
    PROVE  IndInv'
<1> USE DEF ReloadAcme, requestVars, workerVars, certbotVars, siteVars
<1>1. worker \in Run /\ worker.pc # "idle"
  BY DEF IndInv, TypeOK
<1>2. worker.job \in Job /\ JobHost \in Host
  BY <1>1, BusyHost
<1>3. /\ worker' \in Run /\ worker'.pc \in {"issue", "fail"} /\ worker'.job = worker.job
      /\ worker'.pc = "issue" => loaded' = files
      /\ loaded' = loaded \/ loaded' = files
  BY <1>1, GotoKeepsJob DEF FailsOn
<1>4. <<Acme, JobHost>> \in Site /\ JobHost' = JobHost
  BY <1>2, <1>3 DEF JobHost, Site
<1>5. /\ ChallengeIsRouted'
      /\ \A n \in Site : loaded'[n] # "none" => files'[n] # "none"
  BY <1>3, ReloadKeepsRoutes
<1>11. TypeOK'
  BY <1>3 DEF IndInv, TypeOK
<1>12. BusyHasJob'
  BY <1>2, <1>3 DEF IndInv, BusyHasJob
<1>13. CertInv'
  BY <1>3 DEF IndInv, CertInv, TlsHasCert, Valid, JobHost
<1>14. RouteInv'
  BY <1>1, <1>3, <1>4, <1>5 DEF IndInv, RouteInv
<1>15. VerifiedInv'
  BY <1>1, <1>3 DEF IndInv, VerifiedInv, VerifiedFirst, RowId, Ids
<1> QED BY <1>11, <1>12, <1>13, <1>14, <1>15 DEF IndInv

(* certbot starts for a hostname whose challenge is routed.                *)
LEMMA StartCertbotStep ==
    ASSUME IndInv, StartCertbot
    PROVE  IndInv'
<1> USE DEF StartCertbot, requestVars, workerVars, certbotVars, siteVars
<1>1. worker \in Run /\ worker.pc # "idle"
  BY DEF IndInv, TypeOK
<1>2. worker.job \in Job /\ JobHost \in Host
  BY <1>1, BusyHost
<1>3. /\ worker' \in Run /\ worker'.job = worker.job
      /\ \/ worker'.pc = "issuing" /\ certbot' = JobHost
         \/ worker'.pc = "fail" /\ certbot' = certbot
  BY <1>1, GotoKeepsJob
<1>4. JobHost' = JobHost /\ loaded[<<Acme, JobHost>>] # "none"
  BY <1>3 DEF JobHost, IndInv, RouteInv
<1>11. TypeOK'
  BY <1>2, <1>3 DEF IndInv, TypeOK
<1>12. BusyHasJob'
  BY <1>2, <1>3 DEF IndInv, BusyHasJob
<1>13. CertInv'
  BY <1>3, <1>4 DEF IndInv, CertInv, TlsHasCert, Valid, JobHost
<1>14. RouteInv'
  BY <1>3, <1>4 DEF IndInv, RouteInv, ChallengeIsRouted, Routed, JobHost
<1>15. VerifiedInv'
  BY <1>1, <1>3 DEF IndInv, VerifiedInv, VerifiedFirst, RowId, Ids
<1> QED BY <1>11, <1>12, <1>13, <1>14, <1>15 DEF IndInv

(* The hostname that certbot has ended for with success has a certificate. *)
LEMMA CertbotEndsStep ==
    ASSUME IndInv, CertbotEnds
    PROVE  IndInv'
<1> USE DEF CertbotEnds, requestVars, workerVars, certbotVars, siteVars
<1>1. worker \in Run /\ certbot \in Host /\ certs \subseteq Host
  BY DEF IndInv, TypeOK
<1>2. certs \subseteq certs' /\ certs' \subseteq Host /\ certbot' = None
  BY <1>1
<1>3. /\ worker' \in Run /\ worker'.job = worker.job
      /\ \/ worker' = worker /\ worker.pc # "issuing"
         \/ /\ worker.pc = "issuing" /\ worker'.pc \in {"active", "fail"}
            /\ worker'.pc = "active" => certbot \in certs'
  BY <1>1, GotoKeepsJob DEF Answer
<1>4. JobHost' = JobHost
  BY <1>3 DEF JobHost
<1>11. TypeOK'
  BY <1>2, <1>3 DEF IndInv, TypeOK
<1>12. BusyHasJob'
  BY <1>3 DEF IndInv, BusyHasJob
<1>13. CertInv'
  BY <1>2, <1>3, <1>4 DEF IndInv, CertInv, TlsHasCert, Valid, JobHost
<1>14. RouteInv'
  BY <1>2, <1>3, <1>4 DEF IndInv, RouteInv, ChallengeIsRouted, Routed, JobHost
<1>15. VerifiedInv'
  BY <1>3 DEF IndInv, VerifiedInv, VerifiedFirst, RowId, Ids
<1> QED BY <1>11, <1>12, <1>13, <1>14, <1>15 DEF IndInv

(* The call that timed out has not been answered.                          *)
LEMMA TimeOutStep ==
    ASSUME IndInv, TimeOut
    PROVE  IndInv'
<1> USE DEF TimeOut, requestVars, workerVars, certbotVars, siteVars
<1>1. worker \in Run /\ worker.pc # "idle"
  BY DEF IndInv, TypeOK
<1>2. worker.job \in Job
  BY <1>1, BusyHost
<1>3. worker' \in Run /\ worker'.pc = "fail" /\ worker'.job = worker.job
  BY <1>1, GotoKeepsJob DEF FailsOn
<1>11. TypeOK'
  BY <1>3 DEF IndInv, TypeOK
<1>12. BusyHasJob'
  BY <1>2, <1>3 DEF IndInv, BusyHasJob
<1>13. CertInv'
  BY <1>3 DEF IndInv, CertInv, TlsHasCert, Valid, JobHost
<1>14. RouteInv'
  BY <1>3 DEF IndInv, RouteInv, ChallengeIsRouted, Routed, JobHost
<1>15. VerifiedInv'
  BY <1>1, <1>3 DEF IndInv, VerifiedInv, VerifiedFirst, RowId, Ids
<1> QED BY <1>11, <1>12, <1>13, <1>14, <1>15 DEF IndInv

(* The row that becomes active is the one of the job, if it is still there.*)
LEMMA MarkActiveStep ==
    ASSUME IndInv, MarkActive
    PROVE  IndInv'
<1> USE DEF MarkActive, requestVars, workerVars, certbotVars, siteVars
<1>1. worker \in Run /\ worker.pc # "idle"
  BY DEF IndInv, TypeOK
<1>2. worker.job \in Job /\ JobHost \in Host
  BY <1>1, BusyHost
<1>3. /\ worker' \in Run /\ worker'.pc \in {"idle", "fail"}
      /\ worker'.pc = "fail" => worker'.job = worker.job
  BY <1>1, GotoKeepsJob, NoJobIsRun DEF FailsOn
<1>4. worker.job.id \in Id /\ worker.job.id \in verified /\ JobHost \in certs
  BY <1>1, BusyHost DEF IndInv, VerifiedInv, CertInv
<1>5. /\ domain' \in [Host -> Row]
      /\ \A h \in Host : /\ domain'[h].id = domain[h].id
                         /\ \/ domain'[h].status = domain[h].status
                            \/ domain'[h].status = "active" /\ worker.job.id = RowId(h)
  <2>1. CASE SetStatus(worker.job.id, "active")
    BY <1>4, <2>1, SetStatusRow DEF Status, IndInv
  <2>2. CASE UNCHANGED domain
    BY <2>2 DEF IndInv, TypeOK
  <2> QED BY <2>1, <2>2
<1>6. \A h \in Host : worker.job.id = RowId(h) => h = JobHost
  BY DEF RowId, JobHost
<1>11. TypeOK'
  BY <1>3, <1>5 DEF IndInv, TypeOK
<1>12. BusyHasJob'
  BY <1>2, <1>3 DEF IndInv, BusyHasJob
<1>13. CertInv'
  BY <1>3, <1>4, <1>5, <1>6 DEF IndInv, CertInv, TlsHasCert, Valid, JobHost
<1>14. RouteInv'
  BY <1>3 DEF IndInv, RouteInv, ChallengeIsRouted, Routed, JobHost
<1>15. VerifiedInv'
  BY <1>3, <1>4, <1>5 DEF IndInv, VerifiedInv, VerifiedFirst, RowId, Ids
<1> QED BY <1>11, <1>12, <1>13, <1>14, <1>15 DEF IndInv

(* A failed row is one whose job was verified.                             *)
LEMMA MarkFailedStep ==
    ASSUME IndInv, MarkFailed
    PROVE  IndInv'
<1> USE DEF MarkFailed, requestVars, workerVars, certbotVars, siteVars
<1>1. worker \in Run /\ worker.pc # "idle"
  BY DEF IndInv, TypeOK
<1>2. worker.job \in Job /\ JobHost \in Host
  BY <1>1, BusyHost
<1>3. worker' \in Run /\ worker'.pc = "idle"
  BY NoJobIsRun
<1>4. worker.job.id \in Id /\ worker.job.id \in verified
  BY <1>1, BusyHost DEF IndInv, VerifiedInv
<1>5. /\ domain' \in [Host -> Row]
      /\ \A h \in Host : /\ domain'[h].id = domain[h].id
                         /\ \/ domain'[h].status = domain[h].status
                            \/ domain'[h].status = "failed" /\ worker.job.id = RowId(h)
  BY <1>4, SetStatusRow DEF Status, IndInv
<1>11. TypeOK'
  BY <1>3, <1>5 DEF IndInv, TypeOK
<1>12. BusyHasJob'
  BY <1>3 DEF IndInv, BusyHasJob
<1>13. CertInv'
  BY <1>3, <1>5 DEF IndInv, CertInv, TlsHasCert, Valid, JobHost
<1>14. RouteInv'
  BY <1>3 DEF IndInv, RouteInv, ChallengeIsRouted, Routed, JobHost
<1>15. VerifiedInv'
  BY <1>3, <1>4, <1>5 DEF IndInv, VerifiedInv, VerifiedFirst, RowId, Ids
<1> QED BY <1>11, <1>12, <1>13, <1>14, <1>15 DEF IndInv

(* The job of a run that crashed stalls; certbot and the sites stay.       *)
LEMMA CrashStep ==
    ASSUME IndInv, Crash
    PROVE  IndInv'
<1> USE DEF Crash, requestVars, workerVars, certbotVars, siteVars
<1>1. worker \in Run /\ stalled \in Seq(Job) /\ crashes' \in Nat
  BY DEF IndInv, TypeOK
<1>2. worker' \in Run /\ worker'.pc = "idle"
  BY NoJobIsRun
<1>3. /\ pub' \in [Slot -> Publication]
      /\ \A s \in Slot : pub'[s].pc = "idle" /\ pub'[s].todo = {}
  BY DEF Publication, NoPub
<1>4. /\ stalled' \in Seq(Job)
      /\ Ids(stalled)' \subseteq verified
  <2>1. CASE worker.pc = "idle"
    BY <1>1, <2>1 DEF IndInv, VerifiedInv, Ids
  <2>2. CASE worker.pc # "idle"
    <3>1. worker.job \in Job /\ worker.job.id \in verified
      BY <2>2, BusyHost DEF IndInv, VerifiedInv
    <3>2. stalled' = Append(stalled, worker.job)
      BY <2>2
    <3> QED BY <1>1, <3>1, <3>2, AddedIds DEF IndInv, VerifiedInv, Ids
  <2> QED BY <2>1, <2>2
<1>11. TypeOK'
  BY <1>1, <1>2, <1>3, <1>4 DEF IndInv, TypeOK
<1>12. BusyHasJob'
  BY <1>2, <1>3 DEF IndInv, BusyHasJob
<1>13. CertInv'
  BY <1>2, <1>3 DEF IndInv, CertInv, TlsHasCert, Valid, JobHost
<1>14. RouteInv'
  BY <1>2 DEF IndInv, RouteInv, ChallengeIsRouted, Routed, JobHost
<1>15. VerifiedInv'
  BY <1>2, <1>4 DEF IndInv, VerifiedInv, VerifiedFirst, RowId, Ids
<1> QED BY <1>11, <1>12, <1>13, <1>14, <1>15 DEF IndInv

(* A stalled job comes back as it was, or is given up.                     *)
LEMMA StalledCheckStep ==
    ASSUME IndInv, StalledCheck
    PROVE  IndInv'
<1> USE DEF StalledCheck, requestVars, workerVars, certbotVars, siteVars
<1>1. stalled \in Seq(Job) /\ queue \in Seq(Job) /\ stalled # <<>>
  BY DEF IndInv, TypeOK
<1>2. /\ Head(stalled) \in Job /\ Tail(stalled) \in Seq(Job)
      /\ Head(stalled).id \in Ids(stalled) /\ Ids(Tail(stalled)) \subseteq Ids(stalled)
  BY <1>1, TailIds
<1>3. /\ <<Head(stalled)>> \o queue \in Seq(Job)
      /\ Ids(<<Head(stalled)>> \o queue) = Ids(queue) \cup {Head(stalled).id}
  BY <1>1, <1>2, AddedIds
<1>4. /\ stalled' = Tail(stalled)
      /\ queue' = <<Head(stalled)>> \o queue \/ queue' = queue
  OBVIOUS
<1>5. /\ stalled' \in Seq(Job) /\ queue' \in Seq(Job)
      /\ Ids(stalled)' \subseteq verified /\ Ids(queue)' \subseteq verified
  BY <1>1, <1>2, <1>3, <1>4 DEF IndInv, VerifiedInv, Ids
<1>11. TypeOK'
  BY <1>5 DEF IndInv, TypeOK
<1>12. BusyHasJob'
  BY DEF IndInv, BusyHasJob
<1>13. CertInv'
  BY DEF IndInv, CertInv, TlsHasCert, Valid, JobHost
<1>14. RouteInv'
  BY DEF IndInv, RouteInv, ChallengeIsRouted, Routed, JobHost
<1>15. VerifiedInv'
  BY <1>5 DEF IndInv, VerifiedInv, VerifiedFirst, RowId, Ids
<1> QED BY <1>11, <1>12, <1>13, <1>14, <1>15 DEF IndInv

-----------------------------------------------------------------------------
(* The publication of sites by a deploy *)

(* A row read as active has its certificate.                               *)
LEMMA PublishReadStep ==
    ASSUME IndInv, NEW s \in Slot, NEW a \in App, PublishRead(s, a)
    PROVE  IndInv'
<1> USE DEF PublishRead, requestVars, workerVars, certbotVars, siteVars
<1> DEFINE rows == {<<h, domain[h].status>> : h \in {g \in Host : domain[g].app = a}}
<1>1. rows \in SUBSET (Host \X Status)
  BY DEF IndInv, TypeOK, Row
<1>2. \A row \in rows : row[2] = "active" => row[1] \in certs
  BY DEF IndInv, CertInv, TlsHasCert
<1>3. pub' = [pub EXCEPT ![s] = [pc |-> "write", app |-> a, todo |-> rows]]
  OBVIOUS
<1> HIDE DEF rows
<1>4. /\ pub' \in [Slot -> Publication]
      /\ pub'[s].app = a /\ pub'[s].todo = rows
      /\ \A t \in Slot : t # s => pub'[t] = pub[t]
  BY <1>1, <1>3 DEF IndInv, TypeOK, Publication
<1>11. TypeOK'
  BY <1>4 DEF IndInv, TypeOK
<1>12. BusyHasJob'
  BY <1>4 DEF IndInv, BusyHasJob
<1>13. CertInv'
  BY <1>2, <1>4 DEF IndInv, CertInv, TlsHasCert, Valid, JobHost
<1>14. RouteInv'
  BY DEF IndInv, RouteInv, ChallengeIsRouted, Routed, JobHost
<1>15. VerifiedInv'
  BY DEF IndInv, VerifiedInv, VerifiedFirst, RowId, Ids
<1> QED BY <1>11, <1>12, <1>13, <1>14, <1>15 DEF IndInv

(* A TLS site is written from a row that was read as active.               *)
LEMMA PublishWriteStep ==
    ASSUME IndInv, NEW s \in Slot, PublishWrite(s)
    PROVE  IndInv'
<1> USE DEF PublishWrite, requestVars, workerVars, certbotVars, siteVars
<1>1. PICK row \in pub[s].todo :
          /\ files' = [files EXCEPT ![<<pub[s].app, row[1]>>] =
                 IF row[2] = "active" THEN "tls" ELSE "http"]
          /\ pub' = [pub EXCEPT ![s].todo = @ \ {row}]
  OBVIOUS
<1>2. pub[s] \in Publication /\ pub[s].app \in App /\ row[1] \in Host
  BY <1>1 DEF IndInv, TypeOK, BusyHasJob, Publication
<1> DEFINE site == <<pub[s].app, row[1]>>
<1>3. site \in Site /\ site[2] = row[1] /\ files \in [Site -> Kind]
  BY <1>2 DEF Site, IndInv, TypeOK
<1> HIDE DEF site
<1>4. /\ files' \in [Site -> Kind]
      /\ files'[site] = IF row[2] = "active" THEN "tls" ELSE "http"
      /\ \A n \in Site : n # site => files'[n] = files[n]
  BY <1>1, <1>3 DEF Kind, site
<1>5. /\ pub' \in [Slot -> Publication]
      /\ pub'[s].app = pub[s].app /\ pub'[s].todo \subseteq pub[s].todo
      /\ \A t \in Slot : t # s => pub'[t] = pub[t]
  BY <1>1, <1>2 DEF IndInv, TypeOK, Publication
<1>6. row[2] = "active" => row[1] \in certs
  BY <1>1 DEF IndInv, CertInv
<1>11. TypeOK'
  BY <1>4, <1>5 DEF IndInv, TypeOK
<1>12. BusyHasJob'
  BY <1>2, <1>5 DEF IndInv, BusyHasJob
<1>13. CertInv'
  BY <1>3, <1>4, <1>5, <1>6 DEF IndInv, CertInv, TlsHasCert, Valid, JobHost
<1>14. RouteInv'
  BY <1>3, <1>4 DEF IndInv, RouteInv, ChallengeIsRouted, Routed, JobHost
<1>15. VerifiedInv'
  BY DEF IndInv, VerifiedInv, VerifiedFirst, RowId, Ids
<1> QED BY <1>11, <1>12, <1>13, <1>14, <1>15 DEF IndInv

(* nginx loads what is on disk or keeps what it has.                       *)
LEMMA PublishReloadStep ==
    ASSUME IndInv, NEW s \in Slot, PublishReload(s)
    PROVE  IndInv'
<1> USE DEF PublishReload, requestVars, workerVars, certbotVars, siteVars
<1>1. loaded' = loaded \/ loaded' = files
  OBVIOUS
<1>2. /\ pub' \in [Slot -> Publication]
      /\ pub'[s].pc = "idle" /\ pub'[s].todo = {}
      /\ \A t \in Slot : t # s => pub'[t] = pub[t]
  BY DEF IndInv, TypeOK, Publication, NoPub
<1>3. /\ ChallengeIsRouted'
      /\ \A n \in Site : loaded'[n] # "none" => files'[n] # "none"
      /\ \A n \in Site : loaded[n] # "none" => loaded'[n] # "none"
  BY <1>1, ReloadKeepsRoutes
<1>4. worker.pc = "issue" => JobHost \in Host
  BY BusyHost
<1>5. worker.pc = "issue" => loaded'[<<Acme, JobHost>>] # "none"
  BY <1>3, <1>4 DEF Site, IndInv, RouteInv
<1>11. TypeOK'
  BY <1>1, <1>2 DEF IndInv, TypeOK
<1>12. BusyHasJob'
  BY <1>2 DEF IndInv, BusyHasJob
<1>13. CertInv'
  BY <1>1, <1>2 DEF IndInv, CertInv, TlsHasCert, Valid, JobHost
<1>14. RouteInv'
  BY <1>3, <1>5 DEF IndInv, RouteInv, JobHost
<1>15. VerifiedInv'
  BY DEF IndInv, VerifiedInv, VerifiedFirst, RowId, Ids
<1> QED BY <1>11, <1>12, <1>13, <1>14, <1>15 DEF IndInv

(* A deploy that has failed leaves its sites as they are.                  *)
LEMMA PublishFailsStep ==
    ASSUME IndInv, NEW s \in Slot, PublishFails(s)
    PROVE  IndInv'
<1> USE DEF PublishFails, requestVars, workerVars, certbotVars, siteVars
<1>1. /\ pub' \in [Slot -> Publication]
      /\ pub'[s].pc = "idle" /\ pub'[s].todo = {}
      /\ \A t \in Slot : t # s => pub'[t] = pub[t]
  BY DEF IndInv, TypeOK, Publication, NoPub
<1>11. TypeOK'
  BY <1>1 DEF IndInv, TypeOK
<1>12. BusyHasJob'
  BY <1>1 DEF IndInv, BusyHasJob
<1>13. CertInv'
  BY <1>1 DEF IndInv, CertInv, TlsHasCert, Valid, JobHost
<1>14. RouteInv'
  BY DEF IndInv, RouteInv, ChallengeIsRouted, Routed, JobHost
<1>15. VerifiedInv'
  BY DEF IndInv, VerifiedInv, VerifiedFirst, RowId, Ids
<1> QED BY <1>11, <1>12, <1>13, <1>14, <1>15 DEF IndInv

-----------------------------------------------------------------------------
(* Every step *)

(* IndInv is inductive.                                                    *)
LEMMA InvNext == IndInv /\ [Next]_vars => IndInv'
<1> SUFFICES ASSUME IndInv, [Next]_vars PROVE IndInv'
  OBVIOUS
<1>1. CASE UNCHANGED vars
  <2> USE <1>1 DEF vars, requestVars, workerVars, certbotVars, siteVars
  <2>1. TypeOK' /\ BusyHasJob'
    BY DEF IndInv, TypeOK, BusyHasJob
  <2>2. CertInv'
    BY DEF IndInv, CertInv, TlsHasCert, Valid, JobHost
  <2>3. RouteInv'
    BY DEF IndInv, RouteInv, ChallengeIsRouted, Routed, JobHost
  <2>4. VerifiedInv'
    BY DEF IndInv, VerifiedInv, VerifiedFirst, RowId, Ids
  <2> QED BY <2>1, <2>2, <2>3, <2>4 DEF IndInv
<1>2. ASSUME NEW h \in Host,
             Remove(h) \/ (\E a \in App : Add(h, a)) \/ \E r \in Req : CheckRead(r, h)
      PROVE  IndInv'
  BY <1>2, RemoveStep, AddStep, CheckReadStep
<1>3. ASSUME NEW r \in Req, CheckStep(r) PROVE IndInv'
  BY <1>3, ResolvedStep, NotResolvedStep, AddJobStep DEF CheckStep
<1>4. ASSUME NEW s \in Slot, PublishStep(s) \/ \E a \in App : PublishRead(s, a)
      PROVE  IndInv'
  BY <1>4, PublishReadStep, PublishWriteStep, PublishReloadStep, PublishFailsStep
     DEF PublishStep
<1>5. CASE RunStep
  BY <1>5, WriteAcmeStep, ReloadAcmeStep, StartCertbotStep, TimeOutStep,
     MarkActiveStep, MarkFailedStep DEF RunStep
<1>6. CASE Claim \/ CertbotEnds \/ Crash \/ StalledCheck
  BY <1>6, ClaimStep, CertbotEndsStep, CrashStep, StalledCheckStep
<1> QED BY <1>1, <1>2, <1>3, <1>4, <1>5, <1>6 DEF Next

(* IndInv holds in every state of every behaviour.                         *)
LEMMA Invariance == Spec => []IndInv
BY InvInit, InvNext, PTL DEF Spec

(* Rows, requests, jobs, slots and sites have their types.                 *)
THEOREM TypeCorrect == Spec => []TypeOK
<1>1. IndInv => TypeOK
  BY DEF IndInv
<1> QED BY <1>1, Invariance, PTL

(* An active domain has its certificate, and so has every TLS site written *)
(* by a deploy or loaded by nginx: cert-issue marks a domain active only   *)
(* after certbot's answer, and nothing deletes a certificate.              *)
THEOREM TlsAlwaysHasCert == Spec => []TlsHasCert
<1>1. IndInv => TlsHasCert
  BY DEF IndInv, CertInv
<1> QED BY <1>1, Invariance, PTL

(* certbot never asks for a challenge that nginx would not answer: the site *)
(* is written and loaded before, and nothing takes a site away.            *)
THEOREM ChallengeAlwaysRouted == Spec => []ChallengeIsRouted
<1>1. IndInv => ChallengeIsRouted
  BY DEF IndInv, RouteInv
<1> QED BY <1>1, Invariance, PTL

(* No row gets beyond pending_dns on the DNS check of an earlier row: every *)
(* update goes by the id that was checked.                                 *)
THEOREM AlwaysVerifiedFirst == Spec => []VerifiedFirst
<1>1. IndInv => VerifiedFirst
  BY DEF IndInv, VerifiedInv
<1> QED BY <1>1, Invariance, PTL
-----------------------------------------------------------------------------
(* No domain is stranded *)

Asked == {check[r].id : r \in {q \in Req : check[q].pc = "add"}}
Served == IF worker.pc = "idle" THEN {} ELSE {worker.job.id}
Working == Asked \cup Ids(queue) \cup Ids(stalled) \cup Served

RunsUpTo(q, n) == \A i \in 1..Len(q) : q[i].runs <= n

(* Who waits for a certificate is being worked for.  A job has run once     *)
(* more than the worker has crashed at most, so that BullMQ gives up on a   *)
(* job only when there were more crashes than it lets a job stall.         *)
StrandInv ==
    /\ \A h \in Host : domain[h].status = "pending_cert"
           => RowId(h) \in Working \cup dropped \/ crashes > MaxStalls
    /\ RunsUpTo(queue, crashes) /\ RunsUpTo(stalled, crashes)
    /\ worker.pc # "idle" => worker.job.runs <= crashes + 1

(* The head of a queue and the rest hold what the queue holds.             *)
LEMMA TailKeeps ==
    ASSUME NEW q \in Seq(Job), q # <<>>, NEW n \in Nat, RunsUpTo(q, n)
    PROVE  /\ Ids(q) \subseteq Ids(Tail(q)) \cup {Head(q).id}
           /\ RunsUpTo(Tail(q), n) /\ Head(q).runs <= n
<1>1. /\ Len(q) \in Nat /\ Len(q) >= 1 /\ Head(q) = q[1]
      /\ Len(Tail(q)) = Len(q) - 1 /\ \A i \in 1..Len(Tail(q)) : Tail(q)[i] = q[i + 1]
  OBVIOUS
<1>2. ASSUME NEW x \in Ids(q) PROVE x \in Ids(Tail(q)) \cup {Head(q).id}
  <2>1. PICK i \in 1..Len(q) : x = q[i].id
    BY DEF Ids
  <2>2. CASE i = 1
    BY <1>1, <2>1, <2>2
  <2>3. CASE i # 1
    <3>1. i - 1 \in 1..Len(Tail(q)) /\ Tail(q)[i - 1] = q[i]
      BY <1>1, <2>3
    <3> QED BY <2>1, <3>1 DEF Ids
  <2> QED BY <2>2, <2>3
<1>3. RunsUpTo(Tail(q), n) /\ Head(q).runs <= n
  BY <1>1 DEF RunsUpTo
<1> QED BY <1>2, <1>3

(* A job added at either end keeps the bound that it meets itself.         *)
LEMMA AddedRuns ==
    ASSUME NEW q \in Seq(Job), NEW j \in Job, NEW n \in Nat, RunsUpTo(q, n), j.runs <= n
    PROVE  RunsUpTo(Append(q, j), n) /\ RunsUpTo(<<j>> \o q, n)
<1>1. Len(q) \in Nat
  OBVIOUS
<1>2. /\ Len(Append(q, j)) = Len(q) + 1 /\ Append(q, j)[Len(q) + 1] = j
      /\ \A i \in 1..Len(q) : Append(q, j)[i] = q[i]
  BY <1>1
<1>3. /\ Len(<<j>> \o q) = Len(q) + 1 /\ (<<j>> \o q)[1] = j
      /\ \A i \in 2..(Len(q) + 1) : i - 1 \in 1..Len(q) /\ (<<j>> \o q)[i] = q[i - 1]
  BY <1>1
<1>4. RunsUpTo(Append(q, j), n)
  BY <1>1, <1>2 DEF RunsUpTo
<1>5. ASSUME NEW i \in 1..Len(<<j>> \o q) PROVE (<<j>> \o q)[i].runs <= n
  <2>1. i = 1 \/ i \in 2..(Len(q) + 1)
    BY <1>1, <1>3
  <2> QED BY <1>3, <2>1 DEF RunsUpTo
<1> QED BY <1>4, <1>5 DEF RunsUpTo

(* A bound that grows still bounds.                                        *)
LEMMA RunsGrow ==
    ASSUME NEW q \in Seq(Job), NEW n \in Nat, RunsUpTo(q, n)
    PROVE  RunsUpTo(q, n + 1)
<1>1. \A i \in 1..Len(q) : q[i] \in Job
  OBVIOUS
<1>2. \A j \in Job : j.runs \in Nat
  BY DEF Job
<1>3. ASSUME NEW i \in 1..Len(q) PROVE q[i].runs <= n + 1
  <2>1. q[i].runs \in Nat /\ q[i].runs <= n
    BY <1>1, <1>2 DEF RunsUpTo
  <2> QED BY <2>1
<1> QED BY <1>3 DEF RunsUpTo

(* Only a request past its DNS check makes a row pending_cert, and it goes *)
(* on to add the job.                                                      *)
LEMMA StrandApi ==
    ASSUME IndInv, StrandInv,
           \/ \E h \in Host : \/ Remove(h) \/ \E a \in App : Add(h, a)
                              \/ \E r \in Req : CheckRead(r, h)
           \/ \E r \in Req : Resolved(r) \/ NotResolved(r)
    PROVE  StrandInv'
<1> USE DEF requestVars, workerVars, certbotVars, siteVars
<1>1. domain \in [Host -> Row] /\ check \in [Req -> Request]
  BY DEF IndInv, TypeOK
<1>2. UNCHANGED <<queue, stalled, crashes, worker, dropped>>
  BY DEF Remove, Add, CheckRead, Resolved, NotResolved
<1>3. UNCHANGED <<Ids(queue), Ids(stalled), Served>>
  BY <1>2 DEF Ids, Served
<1>4. Asked \subseteq Asked'
  <2>1. \A q \in Req : check[q].pc = "add" => check'[q] = check[q]
    BY <1>1 DEF Remove, Add, CheckRead, Resolved, NotResolved
  <2> QED BY <2>1 DEF Asked
<1>5. ASSUME NEW g \in Host, domain'[g].status = "pending_cert"
      PROVE  \/ domain[g].status = "pending_cert" /\ RowId(g)' = RowId(g)
             \/ RowId(g)' \in Asked'
  <2>1. CASE (\E h \in Host, r \in Req : CheckRead(r, h)) \/ \E r \in Req : NotResolved(r)
    BY <1>5, <2>1 DEF CheckRead, NotResolved, RowId
  <2>2. ASSUME NEW h \in Host, Remove(h) \/ \E a \in App : Add(h, a)
        PROVE  domain[g].status = "pending_cert" /\ RowId(g)' = RowId(g)
    <3>1. \A f \in Host : f # h => domain'[f] = domain[f]
      BY <1>1, <2>2 DEF Remove, Add
    <3>2. CASE Remove(h)
      BY <1>1, <1>5, <3>1, <3>2 DEF Remove, Row, RowId
    <3>3. CASE \E a \in App : Add(h, a)
      <4>1. domain'[h].status = "pending_dns"
        BY <1>1, <3>3 DEF Add
      <4> QED BY <1>5, <3>1, <4>1 DEF RowId
    <3> QED BY <2>2, <3>2, <3>3
  <2>3. ASSUME NEW r \in Req, Resolved(r)
        PROVE  \/ domain[g].status = "pending_cert" /\ RowId(g)' = RowId(g)
               \/ RowId(g)' \in Asked'
    <3>1. check[r].id \in Id /\ check'[r].pc = "add" /\ check'[r].id = check[r].id
      BY <1>1, <2>3 DEF Resolved, IndInv, BusyHasJob, Request
    <3>2. /\ domain'[g].id = domain[g].id
          /\ \/ domain'[g].status = domain[g].status
             \/ check[r].id = RowId(g)
      BY <2>3, <3>1, SetStatusRow DEF Resolved, Status, IndInv
    <3>3. check[r].id \in Asked'
      BY <3>1 DEF Asked
    <3> QED BY <1>5, <3>2, <3>3 DEF RowId
  <2> QED BY <2>1, <2>2, <2>3
<1>6. RunsUpTo(queue, crashes)' /\ RunsUpTo(stalled, crashes)'
  BY <1>2 DEF StrandInv, RunsUpTo
<1>7. Working \subseteq Working' /\ Asked' \subseteq Working'
  BY <1>3, <1>4 DEF Working
<1> QED BY <1>2, <1>5, <1>6, <1>7 DEF StrandInv

(* The request ends with the job in the queue, or in dropped.              *)
LEMMA StrandAddJob ==
    ASSUME IndInv, StrandInv, NEW r \in Req, AddJob(r)
    PROVE  StrandInv'
<1> USE DEF AddJob, requestVars, workerVars, certbotVars, siteVars
<1> DEFINE j == [id |-> check[r].id, runs |-> 0]
<1>1. check \in [Req -> Request] /\ queue \in Seq(Job) /\ crashes \in Nat
  BY DEF IndInv, TypeOK
<1>2. j \in Job /\ j.id = check[r].id /\ j.runs <= crashes
  <2>1. check[r].id \in Id
    BY DEF IndInv, BusyHasJob
  <2> QED BY <1>1, <2>1 DEF Job
<1>3. UNCHANGED <<domain, stalled, crashes, worker>>
  OBVIOUS
<1>4. UNCHANGED <<Ids(stalled), Served>>
  BY <1>3 DEF Ids, Served
<1>5. \A q \in Req : q # r => check'[q] = check[q]
  BY <1>1
<1>6. Asked \subseteq Asked' \cup {check[r].id}
  BY <1>5 DEF Asked
<1>7. /\ dropped \subseteq dropped' /\ Ids(queue) \subseteq Ids(queue)'
      /\ check[r].id \in Ids(queue)' \cup dropped'
      /\ RunsUpTo(queue', crashes)
  <2>1. \/ queue' = Append(queue, j) /\ dropped' = dropped
        \/ queue' = queue /\ dropped' = dropped \cup {check[r].id}
    OBVIOUS
  <2> HIDE DEF AddJob, j
  <2>2. CASE queue' = Append(queue, j) /\ dropped' = dropped
    <3>1. Ids(queue)' = Ids(queue) \cup {j.id}
      BY <1>1, <1>2, <2>2, AddedIds DEF Ids
    <3>2. RunsUpTo(queue', crashes)
      BY <1>1, <1>2, <2>2, AddedRuns DEF StrandInv
    <3> QED BY <1>2, <2>2, <3>1, <3>2
  <2>3. CASE queue' = queue /\ dropped' = dropped \cup {check[r].id}
    BY <2>3 DEF Ids, StrandInv
  <2> QED BY <2>1, <2>2, <2>3
<1>8. RunsUpTo(queue, crashes)' /\ RunsUpTo(stalled, crashes)'
  BY <1>3, <1>7 DEF StrandInv, RunsUpTo
<1>9. Working \cup dropped \subseteq Working' \cup dropped'
  BY <1>4, <1>6, <1>7 DEF Working
<1>10. \A h \in Host : RowId(h)' = RowId(h)
  BY <1>3 DEF RowId
<1> HIDE DEF AddJob
<1> QED BY <1>3, <1>8, <1>9, <1>10 DEF StrandInv

(* A job handed out is being run, unless its row is gone.                  *)
LEMMA StrandClaim ==
    ASSUME IndInv, StrandInv, Claim
    PROVE  StrandInv'
<1> USE DEF Claim, requestVars, workerVars, certbotVars, siteVars
<1> DEFINE q == queue
           job == [Head(q) EXCEPT !.runs = @ + 1]
<1>1. q \in Seq(Job) /\ q # <<>> /\ worker.pc = "idle" /\ crashes \in Nat
  BY DEF IndInv, TypeOK
<1>2. Head(q) \in Job
  BY <1>1
<1>3. /\ Ids(q) \subseteq Ids(Tail(q)) \cup {Head(q).id}
      /\ RunsUpTo(Tail(q), crashes) /\ Head(q).runs <= crashes
  BY <1>1, TailKeeps DEF StrandInv
<1>4. job.id = Head(q).id /\ job.runs <= crashes + 1
  BY <1>1, <1>2, <1>3 DEF Job
<1>5. queue' = Tail(q) /\ UNCHANGED <<domain, check, dropped, stalled, crashes>>
  OBVIOUS
<1>6. \/ worker' = [pc |-> "write", job |-> job]
      \/ ~Present(job.id) /\ worker' = worker
  OBVIOUS
<1> HIDE DEF q, job, Claim
<1>7. /\ UNCHANGED <<Asked, Ids(stalled)>>
      /\ Ids(queue)' = Ids(Tail(q)) /\ Ids(queue) = Ids(q)
  BY <1>5 DEF Asked, Ids, q
<1>8. /\ Served = {}
      /\ worker'.pc # "idle" => worker'.job = job
      /\ job.id \in Served' \/ ~Present(job.id)
  BY <1>1, <1>6 DEF Served
<1>9. ASSUME NEW h \in Host, domain[h].status = "pending_cert"
      PROVE  /\ RowId(h)' = RowId(h)
             /\ RowId(h) \in Working => RowId(h) \in Working'
  <2>1. RowId(h)' = RowId(h) /\ Present(RowId(h))
    BY <1>5, <1>9 DEF RowId, Present
  <2>2. RowId(h) = job.id => RowId(h) \in Served'
    BY <1>8, <2>1
  <2> QED BY <1>3, <1>4, <1>7, <1>8, <2>1, <2>2 DEF Working
<1>10. RunsUpTo(queue, crashes)' /\ RunsUpTo(stalled, crashes)'
  BY <1>3, <1>5 DEF StrandInv, RunsUpTo
<1> QED BY <1>4, <1>5, <1>8, <1>9, <1>10 DEF StrandInv

(* A run that goes on keeps its job; one that ends has recorded an outcome. *)
LEMMA StrandRun ==
    ASSUME IndInv, StrandInv, RunStep \/ CertbotEnds
    PROVE  StrandInv'
<1> USE DEF requestVars, workerVars, certbotVars, siteVars
<1>1. UNCHANGED <<check, queue, dropped, stalled, crashes>>
  BY DEF RunStep, WriteAcme, ReloadAcme, StartCertbot, TimeOut, MarkActive, MarkFailed,
         CertbotEnds
<1>2. UNCHANGED <<Asked, Ids(queue), Ids(stalled)>>
  BY <1>1 DEF Asked, Ids
<1>3. worker \in Run /\ domain \in [Host -> Row]
  BY DEF IndInv, TypeOK
<1>4. \/ /\ worker'.job = worker.job /\ domain' = domain
         /\ worker.pc = "idle" <=> worker'.pc = "idle"
      \/ /\ worker.pc # "idle" /\ worker' = NoJob
         /\ \E st \in {"active", "failed"} : SetStatus(worker.job.id, st)
  BY <1>3, GotoKeepsJob
     DEF RunStep, WriteAcme, ReloadAcme, StartCertbot, TimeOut, MarkActive, MarkFailed,
         CertbotEnds, Answer, FailsOn
<1>5. RunsUpTo(queue, crashes)' /\ RunsUpTo(stalled, crashes)'
  BY <1>1 DEF StrandInv, RunsUpTo
<1>6. CASE /\ worker'.job = worker.job /\ domain' = domain
           /\ worker.pc = "idle" <=> worker'.pc = "idle"
  <2>1. Served' = Served
    BY <1>6 DEF Served
  <2>2. Working' = Working
    BY <1>2, <2>1 DEF Working
  <2>3. \A h \in Host : RowId(h)' = RowId(h)
    BY <1>6 DEF RowId
  <2> QED BY <1>1, <1>5, <1>6, <2>2, <2>3 DEF StrandInv
<1>7. CASE /\ worker.pc # "idle" /\ worker' = NoJob
           /\ \E st \in {"active", "failed"} : SetStatus(worker.job.id, st)
  <2>1. worker.job \in Job /\ worker.job.id \in Id
    BY <1>7, BusyHost
  <2>2. PICK st \in {"active", "failed"} : SetStatus(worker.job.id, st)
    BY <1>7
  <2>3. ASSUME NEW h \in Host, domain'[h].status = "pending_cert"
        PROVE  /\ domain[h].status = "pending_cert" /\ RowId(h)' = RowId(h)
               /\ RowId(h) # worker.job.id
    <3>1. st \in Status \ {"none"} /\ st # "pending_cert"
      BY DEF Status
    <3>2. /\ domain'[h].id = domain[h].id
          /\ \/ domain'[h].status = domain[h].status
             \/ domain'[h].status = st /\ worker.job.id = RowId(h)
      BY <2>1, <2>2, <3>1, SetStatusRow DEF IndInv
    <3>3. domain[h].status = "pending_cert"
      BY <2>3, <3>1, <3>2
    <3>4. ASSUME RowId(h) = worker.job.id PROVE FALSE
      <4>1. Present(worker.job.id) /\ worker.job.id[1] = h
        BY <3>3, <3>4 DEF RowId, Present
      <4>2. domain' = [domain EXCEPT ![h].status = st]
        BY <2>2, <4>1 DEF SetStatus
      <4>3. domain'[h].status = st
        BY <1>3, <4>2 DEF Row
      <4> QED BY <2>3, <3>1, <4>3
    <3> QED BY <3>2, <3>3, <3>4 DEF RowId
  <2>4. Served = {worker.job.id}
    BY <1>7 DEF Served
  <2>5. Working \subseteq Working' \cup {worker.job.id}
    BY <1>2, <2>4 DEF Working
  <2>6. worker'.pc = "idle"
    BY <1>7, NoJobIsRun
  <2> QED BY <1>1, <1>5, <2>3, <2>5, <2>6 DEF StrandInv
<1> QED BY <1>4, <1>6, <1>7

(* The job of a run that dies is stalled; one more crash, one more run.    *)
LEMMA StrandCrash ==
    ASSUME IndInv, StrandInv, Crash
    PROVE  StrandInv'
<1> USE DEF Crash, requestVars, workerVars, certbotVars, siteVars
<1>1. /\ UNCHANGED <<domain, check, queue, dropped>>
      /\ crashes' = crashes + 1 /\ crashes \in Nat /\ MaxStalls \in Nat
      /\ worker' = NoJob /\ queue \in Seq(Job) /\ stalled \in Seq(Job)
  BY BoundsAssumption DEF IndInv, TypeOK
<1>2. UNCHANGED <<Asked, Ids(queue)>> /\ Served' = {}
  BY <1>1, NoJobIsRun DEF Asked, Ids, Served
<1>3. RunsUpTo(queue, crashes + 1) /\ RunsUpTo(stalled, crashes + 1)
  BY <1>1, RunsGrow DEF StrandInv
<1>4. Ids(stalled) \cup Served \subseteq Ids(stalled)' /\ RunsUpTo(stalled', crashes + 1)
  <2>1. CASE worker.pc = "idle"
    BY <1>3, <2>1 DEF Ids, Served
  <2>2. CASE worker.pc # "idle"
    <3>1. worker.job \in Job /\ worker.job.runs <= crashes + 1
      BY <2>2, BusyHost DEF StrandInv
    <3>2. stalled' = Append(stalled, worker.job)
      BY <2>2
    <3>3. Ids(Append(stalled, worker.job)) = Ids(stalled) \cup {worker.job.id}
      BY <1>1, <3>1, AddedIds
    <3>4. RunsUpTo(Append(stalled, worker.job), crashes + 1)
      <4>1. crashes + 1 \in Nat
        BY <1>1
      <4> QED BY <1>1, <1>3, <3>1, <4>1, AddedRuns
    <3> QED BY <2>2, <3>2, <3>3, <3>4 DEF Served, Ids
  <2> QED BY <2>1, <2>2
<1> HIDE DEF Crash
<1>5. Working \subseteq Working'
  BY <1>2, <1>4 DEF Working
<1>6. \A h \in Host : RowId(h)' = RowId(h)
  BY <1>1 DEF RowId
<1>7. RunsUpTo(queue, crashes)' /\ RunsUpTo(stalled, crashes)'
  BY <1>1, <1>3, <1>4 DEF RunsUpTo
<1>8. worker'.pc = "idle"
  BY <1>1, NoJobIsRun
<1> QED BY <1>1, <1>5, <1>6, <1>7, <1>8 DEF StrandInv

(* A job is given up only after more than MaxStalls crashes.               *)
LEMMA StrandStalledCheck ==
    ASSUME IndInv, StrandInv, StalledCheck
    PROVE  StrandInv'
<1> USE DEF StalledCheck, requestVars, workerVars, certbotVars, siteVars
<1>1. /\ UNCHANGED <<domain, check, dropped, crashes, worker>>
      /\ crashes \in Nat /\ MaxStalls \in Nat
      /\ queue \in Seq(Job) /\ stalled \in Seq(Job) /\ stalled # <<>>
  BY BoundsAssumption DEF IndInv, TypeOK
<1>2. UNCHANGED <<Asked, Served>>
  BY <1>1 DEF Asked, Served
<1> DEFINE q == stalled
           j == Head(q)
<1>3. j \in Job /\ j.runs \in Nat
  <2>1. q \in Seq(Job) /\ q # <<>>
    BY <1>1
  <2> HIDE DEF q
  <2>2. j \in Job
    BY <2>1, TailIds
  <2> QED BY <2>2 DEF Job
<1>4. /\ Ids(q) \subseteq Ids(Tail(q)) \cup {j.id}
      /\ RunsUpTo(Tail(q), crashes) /\ j.runs <= crashes
  BY <1>1, TailKeeps DEF StrandInv
<1>5. /\ stalled' = Tail(q)
      /\ queue' = IF j.runs <= MaxStalls THEN <<j>> \o queue ELSE queue
  OBVIOUS
<1> HIDE DEF StalledCheck, q, j
<1>6. Ids(stalled)' = Ids(Tail(q)) /\ Ids(stalled) = Ids(q)
  BY <1>5 DEF Ids, q
<1>7. /\ Ids(queue) \subseteq Ids(queue)' /\ RunsUpTo(queue', crashes)
      /\ j.id \in Ids(queue)' \/ crashes > MaxStalls
  <2>1. CASE j.runs <= MaxStalls
    <3>1. queue' = <<j>> \o queue
      BY <1>5, <2>1
    <3>2. Ids(<<j>> \o queue) = Ids(queue) \cup {j.id}
      BY <1>1, <1>3, AddedIds
    <3>3. RunsUpTo(<<j>> \o queue, crashes)
      BY <1>1, <1>3, <1>4, AddedRuns DEF StrandInv
    <3> QED BY <3>1, <3>2, <3>3 DEF Ids
  <2>2. CASE ~(j.runs <= MaxStalls)
    <3>1. queue' = queue /\ crashes > MaxStalls
      BY <1>1, <1>3, <1>4, <1>5, <2>2
    <3> QED BY <3>1 DEF Ids, StrandInv
  <2> QED BY <2>1, <2>2
<1>8. Working \subseteq Working' \/ crashes > MaxStalls
  BY <1>2, <1>4, <1>6, <1>7 DEF Working
<1>9. \A h \in Host : RowId(h)' = RowId(h)
  BY <1>1 DEF RowId
<1>10. RunsUpTo(queue, crashes)' /\ RunsUpTo(stalled, crashes)'
  BY <1>1, <1>4, <1>5, <1>7 DEF RunsUpTo
<1> QED BY <1>1, <1>8, <1>9, <1>10 DEF StrandInv

(* Deploys touch neither rows nor jobs.                                    *)
LEMMA StrandElse ==
    ASSUME StrandInv,
           UNCHANGED vars \/ \E s \in Slot : PublishStep(s) \/ \E a \in App : PublishRead(s, a)
    PROVE  StrandInv'
<1>1. UNCHANGED <<domain, check, queue, dropped, stalled, crashes, worker>>
  BY DEF vars, requestVars, workerVars, PublishStep, PublishRead, PublishWrite,
         PublishReload, PublishFails
<1>2. Working' = Working
  BY <1>1 DEF Working, Asked, Served, Ids
<1>3. RunsUpTo(queue, crashes)' /\ RunsUpTo(stalled, crashes)'
  BY <1>1 DEF StrandInv, RunsUpTo
<1> QED BY <1>1, <1>2, <1>3 DEF StrandInv, RowId

(* A domain is never left waiting for its certificate with nobody at work  *)
(* for it, but for the job that was never added (dropped) and the job      *)
(* that stalled too often: whatever requests, removals and additions of    *)
(* rows, time-outs and crashes go on around it.                            *)
THEOREM NoDomainStranded == Spec => []NoStrandedDomain
<1>1. Init => StrandInv
  BY DEF Init, StrandInv, NoRow, NoJob, RunsUpTo
<1>2. IndInv /\ StrandInv /\ [Next]_vars => StrandInv'
  <2> SUFFICES ASSUME IndInv, StrandInv, [Next]_vars PROVE StrandInv'
    OBVIOUS
  <2>1. CASE \E h \in Host : \/ Remove(h) \/ \E a \in App : Add(h, a)
                            \/ \E r \in Req : CheckRead(r, h)
    BY <2>1, StrandApi
  <2>2. ASSUME NEW r \in Req, CheckStep(r) PROVE StrandInv'
    BY <2>2, StrandApi, StrandAddJob DEF CheckStep
  <2>3. CASE RunStep \/ CertbotEnds
    BY <2>3, StrandRun
  <2>4. CASE Claim \/ Crash \/ StalledCheck
    BY <2>4, StrandClaim, StrandCrash, StrandStalledCheck
  <2>5. CASE UNCHANGED vars \/ \E s \in Slot : PublishStep(s) \/ \E a \in App : PublishRead(s, a)
    BY <2>5, StrandElse
  <2> QED BY <2>1, <2>2, <2>3, <2>4, <2>5 DEF Next
<1>3. StrandInv => NoStrandedDomain
  BY DEF StrandInv, NoStrandedDomain, HasWork, Working, Asked, Served, Ids
<1> QED BY <1>1, <1>2, <1>3, Invariance, PTL DEF Spec
-----------------------------------------------------------------------------
(* DomainCerts implements DomainLifecycle *)

Statuses(d) == [h \in Host |-> d[h].status]
Rows(d) == [h \in Host |-> d[h].id]

(* The rows there have been: what is verified, asked for or under way is    *)
(* one of them, and a row that waits for its DNS has not been verified.    *)
Existed(id) == id[2] \in 1 .. domain[id[1]].id

RowsInv ==
    /\ \A id \in verified : Existed(id)
    /\ \A r \in Req : check[r].pc # "idle" => Existed(check[r].id)
    /\ \A h \in Host : domain[h].status # "none" => Existed(RowId(h))
    /\ \A h \in Host : domain[h].status = "pending_dns" => RowId(h) \notin verified
    /\ certbot # None => \E id \in verified : id[1] = certbot

(* What existed exists for good: rows are counted up.                      *)
LEMMA ExistedStays ==
    ASSUME TypeOK, \A g \in Host : domain'[g].id \in Nat /\ domain'[g].id >= domain[g].id,
           NEW id \in Id, Existed(id)
    PROVE  Existed(id)'
<1>1. id[1] \in Host /\ id[2] \in Nat /\ domain[id[1]].id \in Nat
  BY DEF Id, TypeOK, Row
<1> QED BY <1>1 DEF Existed

(* Nothing that matters here changes.                                      *)
LEMMA RowsElse ==
    ASSUME RowsInv, UNCHANGED <<domain, check, verified, certbot, certs>>
    PROVE  RowsInv' /\ UNCHANGED Lifecycle!vars
<1>1. RowsInv'
  BY DEF RowsInv, Existed, RowId
<1> QED BY <1>1 DEF Lifecycle!vars

(* A row that is added is the next of its hostname, and not yet verified.  *)
LEMMA RowsAdd ==
    ASSUME IndInv, RowsInv, NEW h \in Host, NEW a \in App, Add(h, a)
    PROVE  RowsInv' /\ Lifecycle!Add(h)
<1> USE DEF Add, requestVars, workerVars, certbotVars, siteVars
<1>1. /\ domain \in [Host -> Row] /\ verified \subseteq Id /\ domain[h].id \in Nat
      /\ \A r \in Req : check[r].pc # "idle" => check[r].id \in Id
      /\ UNCHANGED <<check, verified, certbot, certs>> /\ domain[h].status = "none"
  BY DEF IndInv, TypeOK, BusyHasJob, Row
<1> DEFINE new == [id |-> domain[h].id + 1, app |-> a, status |-> "pending_dns"]
<1>2. /\ domain' = [domain EXCEPT ![h] = new]
      /\ new.id = domain[h].id + 1 /\ new.status = "pending_dns"
  OBVIOUS
<1> HIDE DEF new, Add
<1>3. domain'[h] = new /\ \A g \in Host : g # h => domain'[g] = domain[g]
  BY <1>1, <1>2
<1>4. \A g \in Host : domain'[g].id \in Nat /\ domain'[g].id >= domain[g].id
  BY <1>1, <1>2, <1>3 DEF Row
<1>5. \A id \in Id : Existed(id) => Existed(id)'
  BY <1>4, ExistedStays DEF IndInv
<1>6. RowId(h)' \notin verified
  BY <1>1, <1>2, <1>3 DEF RowsInv, RowId, Existed
<1>7. Existed(RowId(h))'
  BY <1>1, <1>2, <1>3 DEF RowId, Existed
<1>8. \A g \in Host : g # h => RowId(g)' = RowId(g) /\ RowId(g) \in Id
  BY <1>1, <1>3 DEF RowId, Id, Row
<1>9. RowsInv'
  <2>1. \A id \in verified' : Existed(id)'
    BY <1>1, <1>5 DEF RowsInv
  <2>2. \A r \in Req : check'[r].pc # "idle" => Existed(check[r].id)'
    BY <1>1, <1>5 DEF RowsInv
  <2>3. \A g \in Host : domain'[g].status # "none" => Existed(RowId(g))'
    <3>1. ASSUME NEW g \in Host, g # h, domain'[g].status # "none" PROVE Existed(RowId(g))'
      BY <1>3, <1>8, <3>1 DEF RowsInv, Existed, RowId
    <3> QED BY <1>7, <3>1
  <2>4. \A g \in Host : domain'[g].status = "pending_dns" => RowId(g)' \notin verified'
    BY <1>1, <1>3, <1>6, <1>8 DEF RowsInv
  <2> QED BY <1>1, <2>1, <2>2, <2>3, <2>4 DEF RowsInv
<1>10. /\ Statuses(domain') = [Statuses(domain) EXCEPT ![h] = "pending_dns"]
       /\ Rows(domain') = [Rows(domain) EXCEPT ![h] = domain[h].id + 1]
  <2>1. /\ Statuses(domain') = [Statuses(domain) EXCEPT ![h] = domain'[h].status]
        /\ Rows(domain') = [Rows(domain) EXCEPT ![h] = domain'[h].id]
    BY <1>3 DEF Statuses, Rows
  <2> QED BY <1>2, <1>3, <2>1
<1>11. Statuses(domain)[h] = "none" /\ Rows(domain)[h] = domain[h].id
  BY <1>1 DEF Statuses, Rows
<1> QED BY <1>1, <1>9, <1>10, <1>11 DEF Lifecycle!Add, Statuses, Rows

(* As long as no row is added, the same rows exist.                        *)
LEMMA SameRows ==
    ASSUME TypeOK, \A g \in Host : domain'[g].id = domain[g].id
    PROVE  /\ \A id \in Id : Existed(id)' <=> Existed(id)
           /\ \A g \in Host : RowId(g)' = RowId(g) /\ RowId(g) \in Id
BY DEF Id, Existed, RowId, TypeOK, Row

(* A row that is removed counts for good.                                  *)
LEMMA RowsRemove ==
    ASSUME IndInv, RowsInv, NEW h \in Host, Remove(h)
    PROVE  RowsInv' /\ Lifecycle!Remove(h)
<1> USE DEF Remove, requestVars, workerVars, certbotVars, siteVars
<1>1. /\ domain \in [Host -> Row] /\ verified \subseteq Id
      /\ \A r \in Req : check[r].pc # "idle" => check[r].id \in Id
      /\ UNCHANGED <<check, verified, certbot, certs>>
  BY DEF IndInv, TypeOK, BusyHasJob
<1>2. /\ domain'[h].status = "none" /\ domain'[h].id = domain[h].id
      /\ \A g \in Host : g # h => domain'[g] = domain[g]
  BY <1>1 DEF Row
<1> HIDE DEF Remove
<1>3. /\ \A id \in Id : Existed(id)' <=> Existed(id)
      /\ \A g \in Host : RowId(g)' = RowId(g)
  BY <1>2, SameRows DEF IndInv
<1>4. RowsInv'
  <2>1. \A id \in verified' : Existed(id)'
    BY <1>1, <1>3 DEF RowsInv
  <2>2. \A r \in Req : check'[r].pc # "idle" => Existed(check[r].id)'
    BY <1>1, <1>3 DEF RowsInv
  <2>3. \A g \in Host : domain'[g].status # "none" => Existed(RowId(g))'
    BY <1>2, <1>3 DEF RowsInv, Existed, RowId
  <2>4. \A g \in Host : domain'[g].status = "pending_dns" => RowId(g)' \notin verified'
    BY <1>1, <1>2, <1>3 DEF RowsInv
  <2> QED BY <1>1, <2>1, <2>2, <2>3, <2>4 DEF RowsInv
<1>5. /\ Statuses(domain') = [Statuses(domain) EXCEPT ![h] = domain'[h].status]
      /\ Rows(domain') = Rows(domain)
  <2>1. \A g \in Host : g # h => domain'[g] = domain[g]
    BY <1>2
  <2>2. /\ Statuses(domain') = [Statuses(domain) EXCEPT ![h] = domain'[h].status]
        /\ Rows(domain') = [Rows(domain) EXCEPT ![h] = domain'[h].id]
    BY <2>1 DEF Statuses, Rows
  <2> QED BY <1>2, <2>2 DEF Rows
<1> QED BY <1>1, <1>2, <1>4, <1>5 DEF Lifecycle!Remove, Statuses, Rows

(* A request is for a row that exists as it is read.                       *)
LEMMA RowsCheckRead ==
    ASSUME IndInv, RowsInv, NEW r \in Req, NEW h \in Host, CheckRead(r, h)
    PROVE  RowsInv' /\ UNCHANGED Lifecycle!vars
<1> USE DEF CheckRead, requestVars, workerVars, certbotVars, siteVars
<1>1. /\ UNCHANGED <<domain, verified, certbot, certs>> /\ domain[h].status # "none"
      /\ check'[r].id = RowId(h) /\ \A q \in Req : q # r => check'[q] = check[q]
  BY DEF IndInv, TypeOK
<1> HIDE DEF CheckRead
<1>2. Existed(RowId(h))
  BY <1>1 DEF RowsInv
<1>3. \A q \in Req : check'[q].pc # "idle" => Existed(check[q].id)'
  BY <1>1, <1>2 DEF RowsInv, Existed
<1>4. RowsInv'
  BY <1>1, <1>3 DEF RowsInv, Existed, RowId
<1> QED BY <1>1, <1>4 DEF Lifecycle!vars

(* Other steps of a request leave the rows alone.                          *)
LEMMA RowsRequest ==
    ASSUME IndInv, RowsInv, NEW r \in Req, NotResolved(r) \/ AddJob(r)
    PROVE  RowsInv' /\ UNCHANGED Lifecycle!vars
<1> USE DEF NotResolved, AddJob, requestVars, workerVars, certbotVars, siteVars
<1>1. /\ UNCHANGED <<domain, verified, certbot, certs>>
      /\ check'[r].pc = "idle" /\ \A q \in Req : q # r => check'[q] = check[q]
  BY DEF IndInv, TypeOK, NoCheck
<1> HIDE DEF NotResolved, AddJob
<1>2. \A q \in Req : check'[q].pc # "idle" => Existed(check[q].id)'
  BY <1>1 DEF RowsInv, Existed
<1>3. RowsInv'
  BY <1>1, <1>2 DEF RowsInv, Existed, RowId
<1> QED BY <1>1, <1>3 DEF Lifecycle!vars

(* An update by id writes one entry of the status column, or nothing.      *)
LEMMA SetStatusColumns ==
    ASSUME TypeOK, NEW id \in Id, NEW st \in Status \ {"none"}, SetStatus(id, st)
    PROVE  /\ Rows(domain') = Rows(domain)
           /\ Statuses(domain') = IF Present(id)
                                  THEN [Statuses(domain) EXCEPT ![id[1]] = st]
                                  ELSE Statuses(domain)
<1>1. Rows(domain') = Rows(domain)
  BY SetStatusRow DEF Rows
<1>2. CASE Present(id)
  <2>1. id[1] \in Host /\ domain \in [Host -> Row]
    BY DEF Id, TypeOK
  <2>2. domain' = [domain EXCEPT ![id[1]].status = st]
    BY <1>2 DEF SetStatus
  <2>3. domain'[id[1]].status = st
    BY <2>1, <2>2 DEF Row
  <2>4. \A g \in Host : g # id[1] => domain'[g] = domain[g]
    BY <2>1, <2>2
  <2>5. /\ Statuses(domain') = [Statuses(domain) EXCEPT ![id[1]] = domain'[id[1]].status]
        /\ Rows(domain') = [Rows(domain) EXCEPT ![id[1]] = domain'[id[1]].id]
    BY <2>1, <2>4 DEF Statuses, Rows
  <2> QED BY <1>1, <1>2, <2>3, <2>5
<1>3. CASE ~Present(id)
  BY <1>1, <1>3 DEF SetStatus
<1> QED BY <1>2, <1>3

(* DNS was seen to match for the row, or for one that has gone since.      *)
LEMMA RowsResolved ==
    ASSUME IndInv, RowsInv, NEW r \in Req, Resolved(r)
    PROVE  RowsInv' /\ \E h \in Host : Lifecycle!Verify(h) \/ Lifecycle!VerifyGone(h)
<1> USE DEF Resolved, requestVars, workerVars, certbotVars, siteVars
<1> DEFINE id == check[r].id
<1>1. /\ id \in Id /\ id[1] \in Host /\ id = <<id[1], id[2]>> /\ Existed(id)
      /\ domain \in [Host -> Row] /\ verified \subseteq Id
      /\ \A q \in Req : check[q].pc # "idle" => check[q].id \in Id
  BY DEF IndInv, BusyHasJob, TypeOK, RowsInv, Id
<1>2. /\ \A q \in Req : check'[q].id = check[q].id /\ (check'[q].pc # "idle" => check[q].pc # "idle")
      /\ UNCHANGED <<certbot, certs>> /\ verified' = verified \cup {id}
      /\ SetStatus(id, "pending_cert")
  BY DEF IndInv, TypeOK, Request
<1>3. "pending_cert" \in Status \ {"none"} /\ TypeOK
  BY DEF Status, IndInv
<1> HIDE DEF id, Resolved
<1>4. \A g \in Host : /\ domain'[g].id = domain[g].id
                      /\ \/ domain'[g].status = domain[g].status
                         \/ domain'[g].status = "pending_cert" /\ id = RowId(g)
  BY <1>1, <1>2, <1>3, SetStatusRow
<1>5. /\ \A n \in Id : Existed(n)' <=> Existed(n)
      /\ \A g \in Host : RowId(g)' = RowId(g)
  BY <1>3, <1>4, SameRows
<1>6. RowsInv'
  <2>1. \A n \in verified' : Existed(n)'
    BY <1>1, <1>2, <1>5 DEF RowsInv
  <2>2. ASSUME NEW q \in Req, check'[q].pc # "idle" PROVE Existed(check[q].id)'
    <3>1. check[q].id \in Id /\ Existed(check[q].id) /\ check'[q].id = check[q].id
      BY <1>1, <1>2, <2>2 DEF RowsInv
    <3>2. check[q].id[1] \in Host
      BY <3>1 DEF Id
    <3> QED BY <1>4, <3>1, <3>2 DEF Existed
  <2>3. \A g \in Host : domain'[g].status # "none" => Existed(RowId(g))'
    <3>1. ASSUME NEW g \in Host, domain'[g].status # "none" PROVE Existed(RowId(g))
      <4>1. domain[g].status # "none" \/ id = RowId(g)
        BY <1>4, <3>1
      <4> QED BY <1>1, <4>1 DEF RowsInv
    <3> QED BY <1>4, <1>5, <3>1 DEF Existed, RowId
  <2>4. ASSUME NEW g \in Host, domain'[g].status = "pending_dns"
        PROVE  RowId(g)' \notin verified'
    <3>1. domain[g].status = "pending_dns" /\ RowId(g) \notin verified
      BY <1>4, <2>4 DEF RowsInv
    <3>2. id # RowId(g)
      <4>1. ASSUME id = RowId(g) PROVE FALSE
        <5>1. Present(id) /\ id[1] = g
          BY <1>1, <3>1, <4>1 DEF Present, RowId
        <5>2. domain' = [domain EXCEPT ![g].status = "pending_cert"]
          BY <1>2, <5>1 DEF SetStatus
        <5> QED BY <1>1, <2>4, <5>2 DEF Row
      <4> QED BY <4>1
    <3> QED BY <1>2, <1>5, <3>1, <3>2
  <2>5. certbot' # None => \E n \in verified' : n[1] = certbot'
    BY <1>2 DEF RowsInv
  <2> QED BY <2>1, <2>2, <2>3, <2>4, <2>5 DEF RowsInv
<1>7. /\ Rows(domain') = Rows(domain) /\ Rows(domain)[id[1]] = domain[id[1]].id
      /\ Statuses(domain') = IF Present(id)
                             THEN [Statuses(domain) EXCEPT ![id[1]] = "pending_cert"]
                             ELSE Statuses(domain)
      /\ Statuses(domain)[id[1]] = domain[id[1]].status
  BY <1>1, <1>2, <1>3, SetStatusColumns DEF Statuses, Rows
<1>8. CASE Present(id)
  <2>1. id = <<id[1], Rows(domain)[id[1]]>> /\ Statuses(domain)[id[1]] # "none"
    BY <1>1, <1>7, <1>8 DEF Present
  <2>2. PICK h \in Host : h = id[1]
    BY <1>1
  <2>3. Lifecycle!Verify(h)
    BY <1>2, <1>7, <1>8, <2>1, <2>2 DEF Lifecycle!Verify, Statuses, Rows
  <2> QED BY <1>6, <2>3
<1>9. CASE ~Present(id)
  <2>1. /\ id[2] \in 1 .. Rows(domain)[id[1]]
        /\ id[2] < Rows(domain)[id[1]] \/ Statuses(domain)[id[1]] = "none"
    <3>1. domain[id[1]].id \in Nat
      BY <1>1 DEF Row
    <3> QED BY <1>1, <1>7, <1>9, <3>1 DEF Existed, Present
  <2>2. Lifecycle!VerifyGone(id[1])
    BY <1>1, <1>2, <1>7, <1>9, <2>1 DEF Lifecycle!VerifyGone, Statuses, Rows
  <2> QED BY <1>1, <1>6, <2>2
<1> QED BY <1>8, <1>9

(* certbot is asked for the hostname of a verified row.                    *)
LEMMA RowsStartCertbot ==
    ASSUME IndInv, RowsInv, StartCertbot
    PROVE  RowsInv' /\ UNCHANGED Lifecycle!vars
<1> USE DEF StartCertbot, requestVars, workerVars, certbotVars, siteVars
<1>1. UNCHANGED <<domain, check, verified, certs>> /\ (certbot' = certbot \/ certbot' = JobHost)
  OBVIOUS
<1>2. worker.job.id \in verified
  BY DEF IndInv, VerifiedInv
<1> HIDE DEF StartCertbot
<1>3. certbot' # None => \E id \in verified' : id[1] = certbot'
  BY <1>1, <1>2 DEF RowsInv, JobHost
<1>4. RowsInv'
  BY <1>1, <1>3 DEF RowsInv, Existed, RowId
<1> QED BY <1>1, <1>4 DEF Lifecycle!vars

(* A certificate is issued for a hostname that was verified.               *)
LEMMA RowsCertbotEnds ==
    ASSUME IndInv, RowsInv, CertbotEnds
    PROVE  RowsInv' /\ (UNCHANGED Lifecycle!vars \/ \E h \in Host : Lifecycle!Certify(h))
<1> USE DEF CertbotEnds, requestVars, workerVars, certbotVars, siteVars
<1>1. /\ UNCHANGED <<domain, check, verified>> /\ certbot # None /\ certbot' = None
      /\ certs' = certs \/ certs' = certs \cup {certbot}
      /\ certbot \in Host
  BY DEF IndInv, TypeOK
<1> HIDE DEF CertbotEnds
<1>2. RowsInv'
  BY <1>1 DEF RowsInv, Existed, RowId
<1>3. \E id \in verified : id[1] = certbot
  BY <1>1 DEF RowsInv
<1>4. CASE certs' = certs
  BY <1>1, <1>2, <1>4 DEF Lifecycle!vars
<1>5. CASE certs' = certs \cup {certbot}
  BY <1>1, <1>2, <1>3, <1>5 DEF Lifecycle!Certify, Lifecycle!WasVerified
<1> QED BY <1>1, <1>4, <1>5

(* The outcome of a job goes to the row that was verified, if it is there; *)
(* "active" waits for certbot's answer.                                    *)
LEMMA RowsOutcome ==
    ASSUME IndInv, RowsInv, MarkActive \/ MarkFailed
    PROVE  RowsInv' /\ (UNCHANGED Lifecycle!vars \/ \E h \in Host : Lifecycle!Finish(h))
<1> USE DEF MarkActive, MarkFailed, requestVars, workerVars, certbotVars, siteVars
<1> DEFINE id == worker.job.id
<1>1. CASE UNCHANGED domain
  <2>1. UNCHANGED <<domain, check, verified, certbot, certs>>
    BY <1>1
  <2> QED BY <2>1, RowsElse
<1>2. CASE ~UNCHANGED domain
  <2>1. PICK st \in {"active", "failed"} :
            SetStatus(id, st) /\ (st = "active" => worker.pc = "active") /\ worker.pc # "idle"
    BY <1>2
  <2>2. /\ id \in Id /\ id[1] \in Host /\ id = <<id[1], id[2]>> /\ id \in verified
        /\ st = "active" => id[1] \in certs
    <3>1. id \in Id /\ JobHost = id[1]
      BY <2>1, BusyHost DEF JobHost
    <3> QED BY <2>1, <3>1 DEF Id, IndInv, VerifiedInv, CertInv
  <2>3. /\ UNCHANGED <<check, verified, certbot, certs>>
        /\ domain \in [Host -> Row] /\ verified \subseteq Id /\ TypeOK
        /\ \A q \in Req : check[q].pc # "idle" => check[q].id \in Id
    BY DEF IndInv, BusyHasJob, TypeOK
  <2>4. Present(id) /\ st \in Status \ {"none"}
    BY <1>2, <2>1 DEF SetStatus, Status
  <2> HIDE DEF id, MarkActive, MarkFailed
  <2>5. \A g \in Host : /\ domain'[g].id = domain[g].id
                        /\ \/ domain'[g].status = domain[g].status
                           \/ domain'[g].status = st /\ id = RowId(g)
    BY <2>1, <2>2, <2>3, <2>4, SetStatusRow
  <2>6. /\ \A n \in Id : Existed(n)' <=> Existed(n)
        /\ \A g \in Host : RowId(g)' = RowId(g)
    BY <2>3, <2>5, SameRows
  <2>7. id = RowId(id[1]) /\ domain[id[1]].status \notin {"none", "pending_dns"}
    BY <2>2, <2>4 DEF Present, RowId, RowsInv
  <2>8. RowsInv'
    <3>1. \A n \in verified' : Existed(n)'
      BY <2>3, <2>6 DEF RowsInv
    <3>2. ASSUME NEW q \in Req, check'[q].pc # "idle" PROVE Existed(check[q].id)'
      <4>1. check[q].id \in Id /\ Existed(check[q].id) /\ check'[q].id = check[q].id
        BY <2>3, <3>2 DEF RowsInv
      <4>2. check[q].id[1] \in Host
        BY <4>1 DEF Id
      <4> QED BY <2>5, <4>1, <4>2 DEF Existed
    <3>3. ASSUME NEW g \in Host, domain'[g].status # "none" PROVE Existed(RowId(g))'
      <4>1. Existed(RowId(g))
        <5>1. domain[g].status # "none" \/ id = RowId(g)
          BY <2>5, <3>3
        <5>2. Existed(id)
          BY <2>2 DEF RowsInv
        <5> QED BY <5>1, <5>2 DEF RowsInv
      <4> QED BY <2>5, <2>6, <4>1 DEF Existed, RowId
    <3>4. \A g \in Host : domain'[g].status = "pending_dns" => RowId(g)' \notin verified'
      BY <2>3, <2>5, <2>6 DEF RowsInv
    <3> QED BY <2>3, <3>1, <3>2, <3>3, <3>4 DEF RowsInv
  <2>9. /\ Rows(domain') = Rows(domain) /\ Rows(domain)[id[1]] = id[2]
        /\ Statuses(domain') = [Statuses(domain) EXCEPT ![id[1]] = st]
        /\ Statuses(domain)[id[1]] \in {"pending_cert", "active", "failed"}
    <3>1. /\ Rows(domain') = Rows(domain)
          /\ Statuses(domain') = [Statuses(domain) EXCEPT ![id[1]] = st]
      BY <2>1, <2>2, <2>3, <2>4, SetStatusColumns
    <3>2. domain[id[1]].status \in Status /\ domain[id[1]].id = id[2]
      BY <2>2, <2>3, <2>4 DEF Row, Present
    <3> QED BY <2>2, <2>7, <3>1, <3>2 DEF Statuses, Rows, Status
  <2>10. <<id[1], Rows(domain)[id[1]]>> \in verified
    BY <2>2, <2>9
  <2>11. PICK h \in Host : h = id[1]
    BY <2>2
  <2>12. Lifecycle!Finish(h)
    BY <2>2, <2>3, <2>9, <2>10, <2>11
       DEF Lifecycle!Finish, Lifecycle!Outcome, Lifecycle!Verified, Statuses, Rows
  <2> QED BY <2>8, <2>12
<1> QED BY <1>1, <1>2

(* The table of domains is one of DomainLifecycle's: a row leaves           *)
(* pending_dns only for its own DNS check, certificates are issued for      *)
(* hostnames that were verified, and only their rows are given an outcome,  *)
(* "active" not without a certificate.                                     *)
THEOREM CertsImplementDomainLifecycle == Spec => ImplementsDomainLifecycle
<1>1. Init => RowsInv
  BY DEF Init, RowsInv, NoRow, NoCheck
<1>2. Init => Lifecycle!Init
  BY DEF Init, Lifecycle!Init, NoRow
<1>3. IndInv /\ RowsInv /\ [Next]_vars => RowsInv' /\ [Lifecycle!Next]_(Lifecycle!vars)
  <2> SUFFICES ASSUME IndInv, RowsInv, [Next]_vars
               PROVE  RowsInv' /\ (Lifecycle!Next \/ UNCHANGED Lifecycle!vars)
    OBVIOUS
  <2>1. ASSUME NEW h \in Host, Remove(h) \/ (\E a \in App : Add(h, a))
        PROVE  RowsInv' /\ (Lifecycle!Next \/ UNCHANGED Lifecycle!vars)
    BY <2>1, RowsRemove, RowsAdd DEF Lifecycle!Next
  <2>2. ASSUME NEW h \in Host, NEW r \in Req, CheckRead(r, h)
        PROVE  RowsInv' /\ (Lifecycle!Next \/ UNCHANGED Lifecycle!vars)
    BY <2>2, RowsCheckRead
  <2>3. ASSUME NEW r \in Req, CheckStep(r)
        PROVE  RowsInv' /\ (Lifecycle!Next \/ UNCHANGED Lifecycle!vars)
    BY <2>3, RowsResolved, RowsRequest DEF CheckStep, Lifecycle!Next
  <2>4. CASE CertbotEnds
    BY <2>4, RowsCertbotEnds DEF Lifecycle!Next
  <2>5. CASE StartCertbot
    BY <2>5, RowsStartCertbot
  <2>6. CASE MarkActive \/ MarkFailed
    BY <2>6, RowsOutcome DEF Lifecycle!Next
  <2>7. CASE WriteAcme \/ ReloadAcme \/ TimeOut \/ Claim \/ Crash \/ StalledCheck
    <3>1. UNCHANGED <<domain, check, verified, certbot, certs>>
      BY <2>7 DEF WriteAcme, ReloadAcme, TimeOut, Claim, Crash, StalledCheck,
                  requestVars, certbotVars
    <3> QED BY <3>1, RowsElse
  <2>8. CASE UNCHANGED vars \/ \E s \in Slot : PublishStep(s) \/ \E a \in App : PublishRead(s, a)
    <3>1. UNCHANGED <<domain, check, verified, certbot, certs>>
      BY <2>8 DEF vars, PublishStep, PublishRead, PublishWrite, PublishReload,
                  PublishFails, requestVars, certbotVars
    <3> QED BY <3>1, RowsElse
  <2> QED BY <2>1, <2>2, <2>3, <2>4, <2>5, <2>6, <2>7, <2>8 DEF Next, RunStep
<1> QED BY <1>1, <1>2, <1>3, Invariance, PTL DEF Spec, ImplementsDomainLifecycle, Lifecycle!Spec
=============================================================================
