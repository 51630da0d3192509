-------------------------- MODULE DomainLifecycle --------------------------
(***************************************************************************)
(* What the domains table promises to its readers, the dashboard and the   *)
(* deploys: a domain leaves pending_dns only when its DNS was seen to      *)
(* match, a certificate is issued only for a hostname that got so far, and *)
(* a domain is active only with a certificate.  A hostname that is added   *)
(* again begins again.  DomainCerts implements it.                         *)
(***************************************************************************)
EXTENDS Naturals

CONSTANT Host  \* hostnames

VARIABLES
    status,    \* per hostname: the cert_status column, "none" without a row
    row,       \* per hostname: the rows it has had
    verified,  \* rows whose DNS was seen to match
    certified  \* hostnames with a certificate

vars == <<status, row, verified, certified>>

Outcome == {"active", "failed"}
Verified(h) == <<h, row[h]>> \in verified
WasVerified(h) == \E id \in verified : id[1] = h

Init ==
    /\ status = [h \in Host |-> "none"] /\ row = [h \in Host |-> 0]
    /\ verified = {} /\ certified = {}

Add(h) ==
    /\ status[h] = "none"
    /\ status' = [status EXCEPT ![h] = "pending_dns"]
    /\ row' = [row EXCEPT ![h] = @ + 1]
    /\ UNCHANGED <<verified, certified>>

Remove(h) ==
    /\ status' = [status EXCEPT ![h] = "none"]
    /\ UNCHANGED <<row, verified, certified>>

(* DNS may be checked again for a domain that is past it. *)
Verify(h) ==
    /\ status[h] # "none"
    /\ status' = [status EXCEPT ![h] = "pending_cert"]
    /\ verified' = verified \cup {<<h, row[h]>>}
    /\ UNCHANGED <<row, certified>>

(* A row that is gone was still there when its DNS was looked up. *)
VerifyGone(h) ==
    /\ \E n \in 1 .. row[h] :
        /\ n < row[h] \/ status[h] = "none"
        /\ verified' = verified \cup {<<h, n>>}
    /\ UNCHANGED <<status, row, certified>>

Certify(h) ==
    /\ WasVerified(h)
    /\ certified' = certified \cup {h}
    /\ UNCHANGED <<status, row, verified>>

(* A repeated job may revise an outcome. *)
Finish(h) ==
    /\ status[h] \in {"pending_cert"} \cup Outcome /\ Verified(h)
    /\ \E st \in Outcome :
        /\ st = "active" => h \in certified
        /\ status' = [status EXCEPT ![h] = st]
    /\ UNCHANGED <<row, verified, certified>>

Next ==
    \E h \in Host :
        Add(h) \/ Remove(h) \/ Verify(h) \/ VerifyGone(h) \/ Certify(h) \/ Finish(h)

Spec == Init /\ [][Next]_vars
=============================================================================
