----------------------------- MODULE SiteStore -----------------------------
(***************************************************************************)
(* What the root helper and nginx promise to those who change sites, which *)
(* is what deploys and certificates rely on.  A site is changed at once,   *)
(* from one version to a later one.  nginx takes versions that are there,  *)
(* never an older one than it serves.  A reload that is answered with      *)
(* success promises the sites as they are then; when no reload is pending, *)
(* nginx serves what was promised, unless it has refused the sites.  Only  *)
(* a loss of power takes anything back.  NginxHelper implements it.        *)
(***************************************************************************)
EXTENDS Naturals

CONSTANT Site

VARIABLES
    site,      \* per site: the version a reader finds
    served,    \* per site: the version nginx serves
    promised,  \* per site: the version that was promised last
    pending    \* nginx has still to handle a reload

vars == <<site, served, promised, pending>>

Nothing == [s \in Site |-> 0]

(* Every site of g is as new in f, or newer.                               *)
NoOlder(f, g) == \A s \in Site : f[s] >= g[s]

Init == site = Nothing /\ served = Nothing /\ promised = Nothing /\ pending = FALSE

Write(s) ==
    /\ site' = [site EXCEPT ![s] = site'[s]] /\ site'[s] > site[s]
    /\ UNCHANGED <<served, promised, pending>>

Promise ==
    /\ promised' = site /\ pending' = TRUE
    /\ UNCHANGED <<site, served>>

(* A reload that was answered with an error may be under way all the same. *)
Ask ==
    /\ pending' = TRUE
    /\ UNCHANGED <<site, served, promised>>

Serve ==
    /\ pending
    /\ NoOlder(served', served) /\ NoOlder(site, served')
    /\ pending' \/ NoOlder(served', promised)
    /\ UNCHANGED <<site, promised>>

Refuse ==
    /\ pending
    /\ promised' = IF pending' THEN promised ELSE Nothing
    /\ UNCHANGED <<site, served>>

PowerLoss ==
    /\ NoOlder(site, site')
    /\ served' \in {site', Nothing} /\ promised' = Nothing /\ pending' = FALSE

Next == (\E s \in Site : Write(s)) \/ Promise \/ Ask \/ Serve \/ Refuse \/ PowerLoss

Spec == Init /\ [][Next]_vars
=============================================================================
