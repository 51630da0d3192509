--------------------------- MODULE RegistryProofs ---------------------------
(***************************************************************************)
(* What the tables of applications and volumes keep, for any number of     *)
(* applications, ports, requests and tries.                                *)
(*                                                                         *)
(* The invariant says of a request what its locals promise: one that holds *)
(* a port that has been taken in the meantime was overtaken once more than *)
(* it has tried, and the number it holds for a volume is one above all     *)
(* the numbers of an application that is not shared.                       *)
(***************************************************************************)
EXTENDS Registry, FiniteSetTheorems, TLAPS

(* What the locals of a request say, and what its refusal does. *)
Prepared(l) ==
    /\ l.at \in {"alloc", "insert"} =>
          l.slug \in Slug /\ l.repo \in Repo /\ l.rivals >= l.attempt
    /\ l.at = "insert" => l.port \in Port /\ (l.port \in UsedPorts => l.rivals > l.attempt)
    /\ l.at \in {"patch", "delete", "number"} => l.app \in App /\ Inserted(l.app)
    /\ l.at = "number" => l.mount \in Mount /\ l.number > 0

GoodReason(l) ==
    /\ l.answer = "slug" => l.slug \in UsedSlugs
    /\ l.answer = "pool" => FreePorts = {}
    /\ l.answer = "attempts" => l.rivals >= MaxAttempts

(* The numbers of an application's volumes, while it is not shared. *)
Count(a) == Cardinality(Mounted(a))
Distinct(a) == \A p, q \in Mounted(a) : volume[a][p] = volume[a][q] => p = q
Numbered(a) ==
    /\ \A p \in Mounted(a) : volume[a][p] <= Count(a)
    /\ Distinct(a)
    /\ \A h \in Numbering(a) : handler[h].number = Count(a) + 1
    /\ \A g, h \in Numbering(a) : g = h

MissedRows == \A m \in missed : Inserted(m[1]) /\ Inserted(m[2])

RegistryInv ==
    /\ TypeOK
    /\ \A h \in Handler : Prepared(handler[h]) /\ GoodReason(handler[h])
    /\ \A a \in App : IsFiniteSet(Mounted(a))
    /\ \A a \in App \ shared : Numbered(a)
    /\ MissedForATwin /\ MissedRows

-----------------------------------------------------------------------------
(* Lemmas *)

(* Only the row that is none has no slug. *)
LEMMA RowsAreRows ==
    ASSUME TypeOK, NEW a \in App, Inserted(a)
    PROVE  row[a] \in Row /\ row[a].slug \in Slug /\ row[a].port \in Port
  BY NamesAssumption DEF TypeOK, Inserted, Row, NoRow

(* No row is the absent one.                                               *)
LEMMA RowNotNone == ASSUME NEW r \in Row PROVE r # NoRow
  BY NamesAssumption DEF Row, NoRow

(* A request that has not begun promises nothing.                          *)
LEMMA NoLocalsType ==
    /\ NoLocals \in Locals /\ Prepared(NoLocals) /\ GoodReason(NoLocals)
    /\ NoLocals.at = "idle" /\ NoLocals.answer = None
  <1>1. NoLocals \in Locals
    BY AttemptsAssumption DEF NoLocals, Locals, Steps
  <1>2. None \notin Refusals
    BY NamesAssumption DEF Refusals
  <1> QED
    BY <1>1, <1>2 DEF NoLocals, Prepared, GoodReason, Refusals

(* Numbers stay apart as long as no request begins to number. *)
LEMMA NumbersKept ==
    ASSUME RegistryInv, UNCHANGED <<volume, shared>>,
           \A h \in Handler : At(h, "number")' => handler'[h] = handler[h]
    PROVE  /\ \A a \in App : IsFiniteSet(Mounted(a))'
           /\ \A a \in App \ shared' : Numbered(a)'
  <1>1. \A a \in App : Mounted(a)' = Mounted(a)
    BY DEF Mounted
  <1>2. ASSUME NEW a \in App \ shared' PROVE Numbered(a)'
    <2>1. Numbered(a)
      BY DEF RegistryInv
    <2>2. \A g \in Numbering(a)' : g \in Numbering(a) /\ handler'[g] = handler[g]
      BY DEF Numbering, At
    <2> QED
      BY <1>1, <2>1, <2>2 DEF Numbered, Count, Distinct
  <1> QED
    BY <1>1, <1>2 DEF RegistryInv

(* Rows stay, with their slugs, ports and repositories. *)
LEMMA RowsKept ==
    ASSUME RegistryInv, missed' = missed, NEW a \in App, NEW r \in Row,
           row' = [row EXCEPT ![a] = r],
           Inserted(a) => r.slug = row[a].slug /\ r.port = row[a].port /\ r.repo = row[a].repo
    PROVE  /\ row' \in [App -> Row \cup {NoRow}]
           /\ \A b \in App : Inserted(b) => Inserted(b)'
           /\ UsedSlugs \subseteq UsedSlugs'
           /\ UsedPorts' = UsedPorts \cup {r.port}
           /\ MissedForATwin' /\ MissedRows'
  <1>1. row \in [App -> Row \cup {NoRow}] /\ r # NoRow
    BY RowNotNone DEF RegistryInv, TypeOK
  <1>2. row' \in [App -> Row \cup {NoRow}] /\ \A b \in App : Inserted(b) => Inserted(b)'
    BY <1>1 DEF Inserted
  <1>3. \A b \in App : Inserted(b) => row'[b].slug = row[b].slug /\ row'[b].port = row[b].port
                                    /\ row'[b].repo = row[b].repo
    BY <1>1
  <1>4. Inserted(a)' /\ row'[a] = r /\ \A b \in App \ {a} : row'[b] = row[b]
    BY <1>1 DEF Inserted
  <1>5. UsedSlugs \subseteq UsedSlugs'
    BY <1>2, <1>3 DEF UsedSlugs
  <1>6. UsedPorts' = UsedPorts \cup {r.port}
    BY <1>2, <1>3, <1>4 DEF UsedPorts, Inserted
  <1>7. \A m \in missed : m[1] \in App /\ m[2] \in App
    BY DEF RegistryInv, TypeOK
  <1>8. MissedForATwin' /\ MissedRows'
    BY <1>2, <1>3, <1>7 DEF RegistryInv, MissedForATwin, MissedRows
  <1> QED
    BY <1>2, <1>5, <1>6, <1>8

(* A step of one request that leaves the tables alone. *)
LEMMA LocalStep ==
    ASSUME RegistryInv, NEW h \in Handler, NEW l \in Locals,
           handler' = [handler EXCEPT ![h] = l], l.at # "number",
           Prepared(l), GoodReason(l), added' \in 0 .. MaxVolumes,
           UNCHANGED <<row, volume, history>>
    PROVE  RegistryInv'
  <1>1. /\ row' = row /\ volume' = volume /\ shared' = shared /\ missed' = missed
        /\ handler \in [Handler -> Locals]
    BY DEF history, RegistryInv, TypeOK
  <1>2. /\ handler' \in [Handler -> Locals] /\ handler'[h] = l
        /\ \A g \in Handler \ {h} : handler'[g] = handler[g]
    BY <1>1
  <1>3. TypeOK'
    BY <1>1, <1>2 DEF RegistryInv, TypeOK, Mounted, Inserted
  <1>4. \A g \in Handler : Prepared(handler[g])' /\ GoodReason(handler[g])'
    <2> TAKE g \in Handler
    <2>1. Prepared(handler'[g]) /\ GoodReason(handler'[g])
      BY <1>2 DEF RegistryInv
    <2> QED
      BY <1>1, <2>1 DEF Prepared, GoodReason, UsedPorts, UsedSlugs, FreePorts, Inserted
  <1>5. /\ \A a \in App : IsFiniteSet(Mounted(a))'
        /\ \A a \in App \ shared' : Numbered(a)'
    BY <1>1, <1>2, NumbersKept DEF At
  <1>6. MissedForATwin' /\ MissedRows'
    BY <1>1 DEF RegistryInv, MissedForATwin, MissedRows, Inserted
  <1> QED
    BY <1>3, <1>4, <1>5, <1>6 DEF RegistryInv

(* An answer changes no table.                                             *)
LEMMA AnswerStep ==
    ASSUME RegistryInv, NEW h \in Handler, Answer(h), UNCHANGED <<row, volume, added, history>>
    PROVE  RegistryInv'
  <1>1. added' \in 0 .. MaxVolumes
    BY DEF RegistryInv, TypeOK
  <1> QED
    BY <1>1, NoLocalsType, LocalStep DEF Answer

-----------------------------------------------------------------------------
(* Creating an application                                                 *)

(* A creation begins with no rivals and no tries.                          *)
LEMMA CreateInv ==
    ASSUME RegistryInv, NEW h \in Handler, NEW s \in Slug, NEW r \in Repo, Create(h, s, r)
    PROVE  RegistryInv'
  <1> DEFINE l == [NoLocals EXCEPT !.at = "alloc", !.slug = s, !.repo = r]
  <1>0. l \in Locals
    BY NoLocalsType DEF Locals, Steps
  <1>1. l \in Locals /\ l.at = "alloc" /\ l.slug = s /\ l.repo = r /\ l.answer = None
        /\ l.rivals = 0 /\ l.attempt = 0
    BY <1>0 DEF NoLocals
  <1>2. Prepared(l) /\ GoodReason(l)
    BY <1>1, NamesAssumption DEF Prepared, GoodReason
  <1>3. /\ handler' = [handler EXCEPT ![h] = l] /\ UNCHANGED <<row, volume, history>>
        /\ added' \in 0 .. MaxVolumes
    BY DEF Create, RegistryInv, TypeOK
  <1> QED
    BY <1>1, <1>2, <1>3, LocalStep

(* A port that was free when asked for may be taken at once.               *)
LEMMA AllocPortInv ==
    ASSUME RegistryInv, NEW h \in Handler, NEW p \in Port, AllocPort(h, p)
    PROVE  RegistryInv'
  <1> DEFINE l == [handler[h] EXCEPT !.at = "insert", !.port = p]
  <1>1. handler \in [Handler -> Locals] /\ handler[h] \in Locals
    BY DEF RegistryInv, TypeOK
  <1>2. /\ l \in Locals /\ l.at = "insert" /\ l.port = p /\ l.slug = handler[h].slug
        /\ l.repo = handler[h].repo /\ l.answer = handler[h].answer
        /\ l.rivals = handler[h].rivals /\ l.attempt = handler[h].attempt
    BY <1>1 DEF Locals, Steps
  <1>3. Prepared(handler[h]) /\ GoodReason(handler[h]) /\ handler[h].at = "alloc"
        /\ p \notin UsedPorts
    BY DEF RegistryInv, AllocPort, At, FreePorts
  <1>4. Prepared(l) /\ GoodReason(l)
    BY <1>2, <1>3 DEF Prepared, GoodReason
  <1>5. handler' = [handler EXCEPT ![h] = l]
    BY <1>1 DEF AllocPort, Locals
  <1>6. /\ UNCHANGED <<row, volume, history>>
        /\ added' \in 0 .. MaxVolumes
    BY DEF AllocPort, RegistryInv, TypeOK
  <1> QED
    BY <1>2, <1>4, <1>5, <1>6, LocalStep

(* The pool is said to be empty only when it is.                           *)
LEMMA PoolEmptyInv ==
    ASSUME RegistryInv, NEW h \in Handler, PoolEmpty(h) PROVE RegistryInv'
  <1> DEFINE l == [NoLocals EXCEPT !.answer = "pool"]
  <1>1. l \in Locals /\ l.at = "idle" /\ l.answer = "pool"
    BY NoLocalsType DEF NoLocals, Locals, Refusals
  <1>2. Prepared(l) /\ GoodReason(l)
    BY <1>1 DEF Prepared, GoodReason, PoolEmpty
  <1>3. /\ handler' = [handler EXCEPT ![h] = l] /\ UNCHANGED <<row, volume, history>>
        /\ added' \in 0 .. MaxVolumes
    BY DEF PoolEmpty, Refuse, RegistryInv, TypeOK
  <1> QED
    BY <1>1, <1>2, <1>3, LocalStep

(* The other requests that are after a port were overtaken once more; a     *)
(* request that held the port that is gone has a try to spare.              *)
LEMMA PortTakenInv ==
    ASSUME RegistryInv, NEW h \in Handler, PortTaken(h) PROVE RegistryInv'
  <1> DEFINE n == handler[h].attempt + 1
             l == [NoLocals EXCEPT !.answer = "attempts", !.rivals = handler[h].rivals]
             k == [handler[h] EXCEPT !.at = "alloc", !.port = None, !.attempt = n]
  <1>1. handler \in [Handler -> Locals] /\ handler[h] \in Locals
    BY DEF RegistryInv, TypeOK
  <1>2. Prepared(handler[h]) /\ GoodReason(handler[h]) /\ handler[h].at = "insert"
        /\ handler[h].port \notin FreePorts
    BY DEF RegistryInv, PortTaken, At
  <1>3. /\ UNCHANGED <<row, volume, history>>
        /\ added' \in 0 .. MaxVolumes
    BY DEF PortTaken, RegistryInv, TypeOK
  <1>4. handler[h].rivals \in Nat /\ handler[h].attempt \in 0 .. (MaxAttempts - 1)
    BY <1>1 DEF Locals
  <1>5. handler[h].rivals > handler[h].attempt
    BY <1>2 DEF Prepared, FreePorts
  <1>6. CASE n = MaxAttempts
    <2>1. l \in Locals /\ l.at = "idle" /\ l.answer = "attempts"
          /\ l.rivals = handler[h].rivals
      BY <1>4, NoLocalsType DEF NoLocals, Locals, Refusals
    <2>2. Prepared(l) /\ GoodReason(l)
      BY <1>4, <1>5, <1>6, <2>1, AttemptsAssumption DEF Prepared, GoodReason
    <2>3. handler' = [handler EXCEPT ![h] = l]
      BY <1>6 DEF PortTaken
    <2> QED
      BY <1>3, <2>1, <2>2, <2>3, LocalStep
  <1>7. CASE n # MaxAttempts
    <2>1. n \in 0 .. (MaxAttempts - 1)
      BY <1>4, <1>7, AttemptsAssumption
    <2>2. /\ k \in Locals /\ k.at = "alloc" /\ k.slug = handler[h].slug
          /\ k.repo = handler[h].repo /\ k.answer = handler[h].answer
          /\ k.rivals = handler[h].rivals /\ k.attempt = n
      BY <1>1, <2>1 DEF Locals, Steps
    <2>3. Prepared(k) /\ GoodReason(k)
      BY <1>2, <1>4, <1>5, <2>2 DEF Prepared, GoodReason
    <2>4. handler' = [handler EXCEPT ![h] = k]
      BY <1>1, <1>7 DEF PortTaken, Locals
    <2> QED
      BY <1>3, <2>2, <2>3, <2>4, LocalStep
  <1> QED
    BY <1>6, <1>7

(* A slug is said to be taken only when it is.                             *)
LEMMA SlugTakenInv ==
    ASSUME RegistryInv, NEW h \in Handler, SlugTaken(h) PROVE RegistryInv'
  <1> DEFINE l == [NoLocals EXCEPT !.answer = "slug", !.slug = handler[h].slug]
  <1>1. handler[h].slug \in Slug \cup {None} /\ handler[h].slug \in UsedSlugs
    BY DEF SlugTaken, RegistryInv, TypeOK, Locals
  <1>2. l \in Locals /\ l.at = "idle" /\ l.answer = "slug" /\ l.slug \in UsedSlugs
    BY <1>1, NoLocalsType DEF NoLocals, Locals, Refusals
  <1>3. Prepared(l) /\ GoodReason(l)
    BY <1>2 DEF Prepared, GoodReason
  <1>4. /\ handler' = [handler EXCEPT ![h] = l] /\ UNCHANGED <<row, volume, history>>
        /\ added' \in 0 .. MaxVolumes
    BY DEF SlugTaken, RegistryInv, TypeOK
  <1> QED
    BY <1>2, <1>3, <1>4, LocalStep

(* A request that has found its row goes on with one that was inserted.    *)
LEMMA GetAppInv ==
    ASSUME RegistryInv, NEW h \in Handler, NEW a \in App,
           NEW step \in {"patch", "delete"}, GetApp(h, a, step)
    PROVE  RegistryInv'
  <1> DEFINE l == [NoLocals EXCEPT !.at = step, !.app = a]
  <1>1. l \in Locals /\ l.at = step /\ l.app = a /\ l.answer = None
    BY NoLocalsType DEF NoLocals, Locals, Steps
  <1>2. Prepared(l) /\ GoodReason(l)
    BY <1>1, NamesAssumption DEF Prepared, GoodReason, GetApp, Active
  <1>3. /\ handler' = [handler EXCEPT ![h] = l] /\ UNCHANGED <<row, volume, history>>
        /\ added' \in 0 .. MaxVolumes
    BY DEF GetApp, RegistryInv, TypeOK
  <1> QED
    BY <1>1, <1>2, <1>3, LocalStep

(* A row that is inserted overtakes every request that holds its port:     *)
(* each of them has one rival more.                                        *)
LEMMA InsertInv ==
    ASSUME RegistryInv, NEW h \in Handler, NEW a \in App, Insert(h, a) PROVE RegistryInv'
  <1> DEFINE l == handler[h]
             r == [slug |-> l.slug, port |-> l.port, repo |-> l.repo,
                   follows |-> None, deleted |-> FALSE]
  <1>1. handler \in [Handler -> Locals] /\ l \in Locals /\ Prepared(l) /\ l.at = "insert"
        /\ l.port \in Port \ UsedPorts /\ l.slug \notin UsedSlugs /\ ~Inserted(a)
    BY DEF RegistryInv, TypeOK, Insert, At, FreePorts
  <1>2. l.slug \in Slug /\ l.repo \in Repo
    BY <1>1 DEF Prepared
  <1>3. r \in Row
    BY <1>1, <1>2 DEF Row
  <1>4. /\ row' = [row EXCEPT ![a] = r]
        /\ UNCHANGED <<volume, shared, missed, added>>
    BY DEF Insert, history
  <1>5. /\ row' \in [App -> Row \cup {NoRow}]
        /\ \A b \in App : Inserted(b) => Inserted(b)'
        /\ UsedSlugs \subseteq UsedSlugs'
        /\ UsedPorts' = UsedPorts \cup {l.port}
        /\ MissedForATwin' /\ MissedRows'
    BY <1>1, <1>3, <1>4, RowsKept
  <1>6. handler'[h] = NoLocals /\ handler' \in [Handler -> Locals]
        /\ \A g \in Handler \ {h} :
              handler'[g] = IF handler[g].at \in {"alloc", "insert"}
                            THEN [handler[g] EXCEPT !.rivals = @ + 1] ELSE handler[g]
    <2>1. \A g \in Handler : [handler[g] EXCEPT !.rivals = @ + 1] \in Locals
      BY <1>1 DEF Locals
    <2> QED
      BY <1>1, <2>1, NoLocalsType DEF Insert, OvertakenBy
  <1>7. \A g \in Handler : Prepared(handler[g])' /\ GoodReason(handler[g])'
    <2> TAKE g \in Handler
    <2>1. FreePorts' \subseteq FreePorts
      BY <1>5 DEF FreePorts
    <2>2. Prepared(handler[g]) /\ GoodReason(handler[g]) /\ handler[g] \in Locals
      BY <1>1 DEF RegistryInv
    <2>3. CASE g = h
      BY <1>6, <2>3, NoLocalsType, NamesAssumption DEF Prepared, GoodReason
    <2>4. CASE g # h /\ handler[g].at \in {"alloc", "insert"}
      <3> DEFINE k == [handler[g] EXCEPT !.rivals = @ + 1]
      <3>1. /\ k.at = handler[g].at /\ k.slug = handler[g].slug /\ k.repo = handler[g].repo
            /\ k.attempt = handler[g].attempt /\ k.rivals = handler[g].rivals + 1
            /\ k.port = handler[g].port /\ k.answer = handler[g].answer
            /\ handler'[g] = k /\ k.rivals \in Nat /\ handler[g].attempt \in Nat
            /\ handler[g].rivals \in Nat
        BY <1>6, <2>2, <2>4, AttemptsAssumption DEF Locals
      <3>2. Prepared(handler[g])'
        BY <2>2, <2>4, <3>1 DEF Prepared
      <3>3. GoodReason(handler[g])'
        BY <1>5, <2>1, <2>2, <3>1, AttemptsAssumption DEF GoodReason
      <3> QED
        BY <3>2, <3>3
    <2>5. CASE g # h /\ handler[g].at \notin {"alloc", "insert"}
      <3>1. handler'[g] = handler[g]
        BY <1>6, <2>5
      <3> QED
        BY <1>5, <2>1, <2>2, <2>5, <3>1 DEF Prepared, GoodReason, Inserted
    <2> QED
      BY <2>3, <2>4, <2>5
  <1>8. /\ \A b \in App : IsFiniteSet(Mounted(b))'
        /\ \A b \in App \ shared' : Numbered(b)'
    <2>1. \A g \in Handler : At(g, "number")' => handler'[g] = handler[g]
      BY <1>1, <1>6, NoLocalsType DEF At, Locals
    <2> QED
      BY <1>4, <2>1, NumbersKept
  <1>9. TypeOK'
    BY <1>4, <1>5, <1>6 DEF RegistryInv, TypeOK, Mounted
  <1> QED
    BY <1>5, <1>7, <1>8, <1>9 DEF RegistryInv

-----------------------------------------------------------------------------
(* Settings and deletion                                                   *)

(* Whatever changes in a row but its slug, its port and its repository. *)
LEMMA RowStep ==
    ASSUME RegistryInv, NEW h \in Handler, NEW r \in Row, handler[h].at \in {"patch", "delete"},
           row' = [row EXCEPT ![handler[h].app] = r], Answer(h),
           r.slug = row[handler[h].app].slug, r.port = row[handler[h].app].port,
           r.repo = row[handler[h].app].repo, UNCHANGED <<volume, added, history>>
    PROVE  RegistryInv'
  <1> DEFINE a == handler[h].app
  <1>1. handler \in [Handler -> Locals] /\ handler[h] \in Locals /\ Prepared(handler[h])
    BY DEF RegistryInv, TypeOK
  <1>2. a \in App /\ Inserted(a)
    BY <1>1 DEF Prepared
  <1>3. UNCHANGED <<volume, shared, missed, added>>
    BY DEF history
  <1>4. /\ row' \in [App -> Row \cup {NoRow}]
        /\ \A b \in App : Inserted(b) => Inserted(b)'
        /\ UsedSlugs \subseteq UsedSlugs'
        /\ UsedPorts' = UsedPorts \cup {r.port}
        /\ MissedForATwin' /\ MissedRows'
    BY <1>2, <1>3, RowsKept
  <1>5. UsedPorts' = UsedPorts
    BY <1>2, <1>4 DEF UsedPorts
  <1>6. /\ handler' \in [Handler -> Locals] /\ handler'[h] = NoLocals
        /\ \A g \in Handler \ {h} : handler'[g] = handler[g]
    BY <1>1, NoLocalsType DEF Answer
  <1>7. \A g \in Handler : Prepared(handler[g])' /\ GoodReason(handler[g])'
    <2> TAKE g \in Handler
    <2>1. Prepared(handler'[g]) /\ GoodReason(handler'[g])
      BY <1>6, NoLocalsType DEF RegistryInv
    <2> QED
      BY <1>4, <1>5, <2>1 DEF Prepared, GoodReason, FreePorts
  <1>8. /\ \A b \in App : IsFiniteSet(Mounted(b))'
        /\ \A b \in App \ shared' : Numbered(b)'
    BY <1>3, <1>6, NoLocalsType, NumbersKept DEF At
  <1>9. TypeOK'
    BY <1>3, <1>4, <1>6 DEF RegistryInv, TypeOK, Mounted
  <1> QED
    BY <1>4, <1>7, <1>8, <1>9 DEF RegistryInv

(* Settings change the branch alone.                                       *)
LEMMA UpdateInv ==
    ASSUME RegistryInv, NEW h \in Handler, NEW b \in Branch \cup {None}, Update(h, b)
    PROVE  RegistryInv'
  <1> DEFINE a == handler[h].app
             r == [row[a] EXCEPT !.follows = b]
  <1>1. Prepared(handler[h]) /\ handler[h].at = "patch" /\ row \in [App -> Row \cup {NoRow}]
    BY DEF RegistryInv, TypeOK, Update, At
  <1>2. a \in App /\ row[a] \in Row
    BY <1>1, RowsAreRows DEF Prepared, RegistryInv
  <1>3. r \in Row /\ r.slug = row[a].slug /\ r.port = row[a].port /\ r.repo = row[a].repo
    BY <1>2 DEF Row
  <1>4. row' = [row EXCEPT ![a] = r] /\ Answer(h) /\ UNCHANGED <<volume, added, history>>
    BY DEF Update
  <1> QED
    BY <1>1, <1>3, <1>4, RowStep

(* A deletion leaves slug and port where they are.                         *)
LEMMA SoftDeleteInv ==
    ASSUME RegistryInv, NEW h \in Handler, SoftDelete(h) PROVE RegistryInv'
  <1> DEFINE a == handler[h].app
             r == [row[a] EXCEPT !.deleted = TRUE]
  <1>1. Prepared(handler[h]) /\ handler[h].at = "delete" /\ row \in [App -> Row \cup {NoRow}]
    BY DEF RegistryInv, TypeOK, SoftDelete, At
  <1>2. a \in App /\ row[a] \in Row
    BY <1>1, RowsAreRows DEF Prepared, RegistryInv
  <1>3. r \in Row /\ r.slug = row[a].slug /\ r.port = row[a].port /\ r.repo = row[a].repo
    BY <1>2 DEF Row
  <1>4. row' = [row EXCEPT ![a] = r] /\ Answer(h) /\ UNCHANGED <<volume, added, history>>
    BY DEF SoftDelete
  <1> QED
    BY <1>1, <1>3, <1>4, RowStep

-----------------------------------------------------------------------------
(* Volumes                                                                 *)

(* A request that has counted holds one more than there are; if another is  *)
(* numbering already, the application is shared.                            *)
LEMMA CountVolumesInv ==
    ASSUME RegistryInv, NEW h \in Handler, NEW a \in App, NEW p \in Mount,
           CountVolumes(h, a, p)
    PROVE  RegistryInv'
  <1> DEFINE l == [NoLocals EXCEPT !.at = "number", !.app = a, !.mount = p,
                                   !.number = NumberOf(a)]
  <1>1. Count(a) \in Nat /\ NumberOf(a) = Count(a) + 1
    BY FS_CardinalityType DEF RegistryInv, Count, NumberOf
  <1>2. l \in Locals /\ l.at = "number" /\ l.app = a /\ l.mount = p
        /\ l.number = Count(a) + 1 /\ l.answer = None
    <2>1. NumberOf(a) \in Nat
      BY <1>1
    <2>2. [[[NoLocals EXCEPT !.at = "number"] EXCEPT !.app = a] EXCEPT !.mount = p] \in Locals
      BY NoLocalsType, ZenonT(30) DEF Locals, Steps
    <2>3. l \in Locals
      BY <2>1, <2>2 DEF Locals
    <2> QED
      BY <1>1, <2>3 DEF NoLocals
  <1>3. /\ handler' = [handler EXCEPT ![h] = l] /\ handler \in [Handler -> Locals]
        /\ handler[h].at = "idle" /\ Inserted(a)
        /\ row' = row /\ volume' = volume /\ missed' = missed
    BY DEF CountVolumes, Submits, At, RegistryInv, TypeOK
  <1>4. /\ handler' \in [Handler -> Locals] /\ handler'[h] = l
        /\ \A g \in Handler \ {h} : handler'[g] = handler[g]
    BY <1>2, <1>3
  <1>5. \A b \in App : Mounted(b)' = Mounted(b)
    BY <1>3 DEF Mounted
  <1>6. TypeOK'
    <2>1. added' \in 0 .. MaxVolumes
      BY VolumesAssumption DEF CountVolumes, RegistryInv, TypeOK
    <2>2. shared' \subseteq App
      BY DEF CountVolumes, RegistryInv, TypeOK
    <2> QED
      BY <1>3, <1>4, <2>1, <2>2 DEF RegistryInv, TypeOK, Mounted, Inserted
  <1>7. \A g \in Handler : Prepared(handler[g])' /\ GoodReason(handler[g])'
    <2> TAKE g \in Handler
    <2>1. CASE g = h
      BY <1>1, <1>2, <1>3, <1>4, <2>1, NamesAssumption DEF Prepared, GoodReason, Inserted
    <2>2. CASE g # h
      <3>1. Prepared(handler'[g]) /\ GoodReason(handler'[g])
        BY <1>4, <2>2 DEF RegistryInv
      <3> QED
        BY <1>3, <3>1 DEF Prepared, GoodReason, UsedPorts, UsedSlugs, FreePorts, Inserted
    <2> QED
      BY <2>1, <2>2
  <1>8. ASSUME NEW b \in App \ shared' PROVE Numbered(b)'
    <2>1. b \notin shared /\ Numbered(b) /\ (b = a => Numbering(a) = {})
      BY DEF CountVolumes, RegistryInv
    <2>2. \A g \in Numbering(b)' : \/ g = h /\ b = a
                                   \/ g \in Numbering(b) /\ handler'[g] = handler[g]
      BY <1>2, <1>4 DEF Numbering, At
    <2>3. \A g \in Numbering(b)' : handler'[g].number = Count(b) + 1
      BY <1>2, <1>4, <2>1, <2>2 DEF Numbered
    <2>4. \A f, g \in Numbering(b)' : f = g
      BY <2>1, <2>2 DEF Numbered
    <2> QED
      BY <1>3, <1>5, <2>1, <2>3, <2>4 DEF Numbered, Count, Distinct
  <1>9. MissedForATwin' /\ MissedRows' /\ \A b \in App : IsFiniteSet(Mounted(b))'
    BY <1>3, <1>5 DEF RegistryInv, MissedForATwin, MissedRows, Inserted
  <1> QED
    BY <1>6, <1>7, <1>8, <1>9 DEF RegistryInv

(* A row added under the number counted: it is above all the others. *)
LEMMA AddVolumeInv ==
    ASSUME RegistryInv, NEW h \in Handler, AddVolume(h),
           NEW a, NEW p, NEW n, a = handler[h].app, p = handler[h].mount, n = handler[h].number
    PROVE  RegistryInv'
  <1>1. handler \in [Handler -> Locals] /\ Prepared(handler[h]) /\ handler[h].at = "number"
    BY DEF RegistryInv, TypeOK, AddVolume, At
  <1>2. a \in App /\ Inserted(a) /\ p \in Mount /\ n \in Nat /\ n > 0 /\ p \notin Mounted(a)
    BY <1>1 DEF Prepared, Locals, AddVolume
  <1>3. /\ volume \in [App -> [Mount -> Nat]]
        /\ volume' = [volume EXCEPT ![a][p] = n]
        /\ row' = row /\ added' = added /\ shared' = shared /\ missed' = missed
    BY DEF RegistryInv, TypeOK, AddVolume, history
  <1>4. /\ volume' \in [App -> [Mount -> Nat]] /\ volume'[a][p] = n
        /\ \A q \in Mount \ {p} : volume'[a][q] = volume[a][q]
        /\ \A b \in App \ {a} : volume'[b] = volume[b]
    BY <1>2, <1>3
  <1>5. /\ handler' \in [Handler -> Locals] /\ handler'[h] = NoLocals
        /\ \A g \in Handler \ {h} : handler'[g] = handler[g]
    BY <1>1, NoLocalsType DEF AddVolume, Answer
  <1>6. Mounted(a)' = Mounted(a) \cup {p} /\ \A b \in App \ {a} : Mounted(b)' = Mounted(b)
    <2>1. volume'[a][p] # 0
      BY <1>2, <1>4
    <2>2. Mounted(a)' = Mounted(a) \cup {p}
      BY <1>2, <1>4, <2>1 DEF Mounted
    <2>3. \A b \in App \ {a} : Mounted(b)' = Mounted(b)
      BY <1>4 DEF Mounted
    <2> QED
      BY <2>2, <2>3
  <1>7. TypeOK'
    BY <1>2, <1>3, <1>4, <1>5, <1>6, ZenonT(30) DEF RegistryInv, TypeOK, Inserted
  <1>8. \A g \in Handler : Prepared(handler[g])' /\ GoodReason(handler[g])'
    <2> TAKE g \in Handler
    <2>1. Prepared(handler'[g]) /\ GoodReason(handler'[g])
      BY <1>5, NoLocalsType DEF RegistryInv
    <2> QED
      BY <1>3, <2>1 DEF Prepared, GoodReason, UsedPorts, UsedSlugs, FreePorts, Inserted
  <1>9. /\ \A b \in App : IsFiniteSet(Mounted(b))'
        /\ Count(a) \in Nat /\ Count(a)' = Count(a) + 1
    <2>1. IsFiniteSet(Mounted(a)) /\ Count(a) \in Nat
      BY <1>2, FS_CardinalityType DEF RegistryInv, Count
    <2>2. /\ IsFiniteSet(Mounted(a) \cup {p})
          /\ Cardinality(Mounted(a) \cup {p}) = Count(a) + 1
      BY <1>2, <2>1, FS_AddElement DEF Count
    <2>3. IsFiniteSet(Mounted(a))' /\ Count(a)' = Count(a) + 1
      BY <1>6, <2>2 DEF Count
    <2>4. \A b \in App \ {a} : IsFiniteSet(Mounted(b))'
      BY <1>6 DEF RegistryInv
    <2> QED
      BY <2>1, <2>3, <2>4
  <1>10. \A b \in App : Numbering(b)' \subseteq Numbering(b) \ {h}
    BY <1>5, NoLocalsType DEF Numbering, At
  <1>11. ASSUME NEW b \in App \ shared' PROVE Numbered(b)'
    <2>1. Numbered(b)
      BY <1>3 DEF RegistryInv
    <2>2. \A g \in Numbering(b)' : g \in Numbering(b) /\ handler'[g] = handler[g]
      BY <1>5, <1>10 DEF Numbering
    <2>3. CASE b # a
      BY <1>4, <1>6, <2>1, <2>2, <2>3 DEF Numbered, Count, Distinct
    <2>4. CASE b = a
      <3>0. h \in Numbering(a)
        BY <1>1 DEF Numbering, At
      <3>1. n = Count(a) + 1 /\ Numbering(a)' = {}
        BY <1>2, <1>10, <2>1, <2>4, <3>0 DEF Numbered
      <3>2. \A q \in Mounted(a) : volume'[a][q] = volume[a][q] /\ volume[a][q] <= Count(a)
                                  /\ volume[a][q] \in Nat
        BY <1>2, <1>3, <1>4, <2>1, <2>4 DEF Numbered, Mounted
      <3>3. \A q \in Mounted(a)' : volume'[a][q] <= Count(a)'
        BY <1>4, <1>6, <1>9, <3>1, <3>2
      <3>4. \A q \in Mounted(a) : volume'[a][q] # volume'[a][p]
        BY <1>4, <1>9, <3>1, <3>2
      <3>5. Distinct(a)'
        <4>1. Distinct(a)
          BY <2>1, <2>4 DEF Numbered
        <4>2. ASSUME NEW x \in Mounted(a)', NEW y \in Mounted(a)',
                     volume'[a][x] = volume'[a][y]
              PROVE  x = y
          BY <1>6, <3>2, <3>4, <4>1, <4>2 DEF Distinct
        <4> QED
          BY <4>2 DEF Distinct
      <3> QED
        BY <2>4, <3>1, <3>3, <3>5 DEF Numbered
    <2> QED
      BY <2>3, <2>4
  <1>12. MissedForATwin' /\ MissedRows'
    BY <1>3 DEF RegistryInv, MissedForATwin, MissedRows, Inserted
  <1> QED
    BY <1>7, <1>8, <1>9, <1>11, <1>12 DEF RegistryInv

(* An application that a volume is taken from is shared from then on. *)
LEMMA RemoveVolumeInv ==
    ASSUME RegistryInv, NEW a \in App, NEW p \in Mount, RemoveVolume(a, p)
    PROVE  RegistryInv'
  <1>1. /\ volume \in [App -> [Mount -> Nat]] /\ volume' = [volume EXCEPT ![a][p] = 0]
        /\ row' = row /\ handler' = handler /\ added' = added /\ missed' = missed
        /\ shared' = shared \cup {a}
    BY DEF RegistryInv, TypeOK, RemoveVolume
  <1>2. /\ volume' \in [App -> [Mount -> Nat]]
        /\ \A b \in App \ {a} : volume'[b] = volume[b]
        /\ Mounted(a)' \subseteq Mounted(a)
    BY <1>1 DEF Mounted
  <1>3. \A b \in App \ {a} : Mounted(b)' = Mounted(b)
    BY <1>2 DEF Mounted
  <1>4. TypeOK'
    BY <1>1, <1>2, <1>3 DEF RegistryInv, TypeOK, Inserted
  <1>5. \A g \in Handler : Prepared(handler[g])' /\ GoodReason(handler[g])'
    BY <1>1 DEF RegistryInv, Prepared, GoodReason, UsedPorts, UsedSlugs, FreePorts, Inserted
  <1>6. \A b \in App : IsFiniteSet(Mounted(b))'
    BY <1>2, <1>3, FS_Subset DEF RegistryInv
  <1>7. \A b \in App : Numbering(b)' = Numbering(b)
    BY <1>1 DEF Numbering, At
  <1>8. \A b \in App \ shared' : Numbered(b)'
    BY <1>1, <1>2, <1>3, <1>7 DEF RegistryInv, Numbered, Count, Distinct
  <1>9. MissedForATwin' /\ MissedRows'
    BY <1>1 DEF RegistryInv, MissedForATwin, MissedRows, Inserted
  <1> QED
    BY <1>4, <1>5, <1>6, <1>8, <1>9 DEF RegistryInv

-----------------------------------------------------------------------------
(* Pushes                                                                  *)

(* A push that finds a row of another branch missed one for its twin.      *)
LEMMA PushInv ==
    ASSUME RegistryInv, NEW h \in Handler, NEW r \in Repo, NEW b \in Branch, NEW a \in App,
           Push(h, r, b, a)
    PROVE  RegistryInv'
  <1> DEFINE passed == {<<c, a, Active(a)>> : c \in {d \in App : Wants(d, r, b) /\ d # a}}
  <1>1. handler \in [Handler -> Locals] /\ handler' = [handler EXCEPT ![h] = NoLocals]
        /\ row' = row /\ volume' = volume /\ added' = added /\ shared' = shared
        /\ missed' = missed \cup passed
    BY DEF RegistryInv, TypeOK, Push, Answer
  <1>2. Active(a) /\ row[a].repo = r
    BY DEF Push, ByRepo
  <1>3. \A m \in passed : /\ m \in App \X App \X BOOLEAN /\ m[1] # m[2] /\ m[3]
                          /\ Inserted(m[1]) /\ Inserted(m[2])
                          /\ row[m[1]].repo = row[m[2]].repo
    <2> TAKE m \in passed
    <2>1. PICK c \in App : m = <<c, a, Active(a)>> /\ Wants(c, r, b) /\ c # a
      OBVIOUS
    <2>2. Active(a) = TRUE
      BY <1>2 DEF Active
    <2>3. m = <<c, a, TRUE>>
      BY <2>1, <2>2
    <2>4. Inserted(a) /\ Inserted(c) /\ row[c].repo = r
      BY <1>2, <2>1 DEF Wants, Active
    <2>5. m \in App \X App \X BOOLEAN /\ m[1] = c /\ m[2] = a /\ m[3] = TRUE
      BY <2>3
    <2> QED
      BY <1>2, <2>1, <2>4, <2>5
  <1>4. /\ handler' \in [Handler -> Locals] /\ handler'[h] = NoLocals
        /\ \A g \in Handler \ {h} : handler'[g] = handler[g]
    BY <1>1, NoLocalsType
  <1>5. TypeOK'
    BY <1>1, <1>3, <1>4 DEF RegistryInv, TypeOK, Mounted, Inserted
  <1>6. \A g \in Handler : Prepared(handler[g])' /\ GoodReason(handler[g])'
    <2> TAKE g \in Handler
    <2>1. Prepared(handler'[g]) /\ GoodReason(handler'[g])
      BY <1>4, NoLocalsType DEF RegistryInv
    <2> QED
      BY <1>1, <2>1 DEF Prepared, GoodReason, UsedPorts, UsedSlugs, FreePorts, Inserted
  <1>7. /\ \A c \in App : IsFiniteSet(Mounted(c))'
        /\ \A c \in App \ shared' : Numbered(c)'
    BY <1>1, <1>4, NoLocalsType, NumbersKept DEF At
  <1>8. MissedForATwin' /\ MissedRows'
    BY <1>1, <1>3 DEF RegistryInv, MissedForATwin, MissedRows, Inserted
  <1> QED
    BY <1>5, <1>6, <1>7, <1>8 DEF RegistryInv

-----------------------------------------------------------------------------
(* The theorems                                                            *)

(* The invariant holds of the empty tables.                                *)
LEMMA InitInv == Init => RegistryInv
  <1> SUFFICES ASSUME Init PROVE RegistryInv
    OBVIOUS
  <1>1. \A a \in App : Mounted(a) = {}
    BY DEF Init, Mounted
  <1>2. \A h \in Handler : handler[h] = NoLocals
    BY DEF Init
  <1>3. TypeOK
    BY <1>1, NoLocalsType, VolumesAssumption DEF Init, TypeOK
  <1>4. \A h \in Handler : Prepared(handler[h]) /\ GoodReason(handler[h])
    BY <1>2, NoLocalsType
  <1>5. \A a \in App : IsFiniteSet(Mounted(a))
    BY <1>1, FS_EmptySet
  <1>6. \A a \in App : Numbered(a)
    BY <1>1, <1>2, NoLocalsType DEF Numbered, Distinct, Numbering, At
  <1>7. MissedForATwin /\ MissedRows
    BY DEF Init, MissedForATwin, MissedRows
  <1> QED
    BY <1>3, <1>4, <1>5, <1>6, <1>7 DEF RegistryInv

(* Every step keeps the invariant.                                         *)
LEMMA NextInv == RegistryInv /\ [Next]_vars => RegistryInv'
  <1> SUFFICES ASSUME RegistryInv, [Next]_vars PROVE RegistryInv'
    OBVIOUS
  <1>1. CASE UNCHANGED vars
    BY <1>1 DEF vars, history, RegistryInv, TypeOK, Prepared, GoodReason, Numbered, Count, Distinct,
        Numbering, At, Mounted, Inserted, UsedPorts, UsedSlugs, FreePorts, MissedForATwin, MissedRows
  <1>2. ASSUME NEW h \in Handler, MountTaken(h) PROVE RegistryInv'
    BY <1>2, AnswerStep DEF MountTaken
  <1> QED
    BY <1>1, <1>2, CreateInv, AllocPortInv, InsertInv, GetAppInv, PoolEmptyInv, PortTakenInv,
       SlugTakenInv, UpdateInv, SoftDeleteInv, CountVolumesInv, AddVolumeInv, PushInv,
       RemoveVolumeInv DEF Next

(* What the locals of requests promise, the numbering of volumes and the   *)
(* missed pushes are as RegistryInv says, in every behaviour of pm-api.    *)
THEOREM RegistryInvariant == Spec => []RegistryInv
  BY InitInv, NextInv, PTL DEF Spec

(* Every variable keeps its type, and a volume its row. *)
THEOREM TypeCorrect == Spec => []TypeOK
  <1>1. RegistryInv => TypeOK
    BY DEF RegistryInv
  <1> QED
    BY <1>1, RegistryInvariant, PTL

(* For any pool and any number of requests that race for it, a creation is  *)
(* refused only when the slug is in a row, the pool is used up, or it was   *)
(* overtaken at each of its tries.                                         *)
THEOREM RefusalsAreGood == Spec => []RefusedForGoodReason
  <1>1. RegistryInv => RefusedForGoodReason
    BY DEF RegistryInv, GoodReason, RefusedForGoodReason
  <1> QED
    BY <1>1, RegistryInvariant, PTL

(* For any number of mounts: as long as none was removed and no two were    *)
(* added at once, they get volumes of their own.                           *)
THEOREM VolumesAlwaysDiffer == Spec => []VolumesDiffer
  <1>1. RegistryInv => VolumesDiffer
    BY DEF RegistryInv, Numbered, Distinct, VolumesDiffer, VolumeName
  <1> QED
    BY <1>1, RegistryInvariant, PTL

(* An application's slug, port and repository are its own from its creation *)
(* on, and a deleted one stays deleted, whatever requests are under way.    *)
THEOREM IdentityAlwaysKept == Spec => IdentityKept
  <1>1. RegistryInv /\ [Next]_vars =>
          [\A a \in App : Inserted(a) =>
              /\ row'[a].slug = row[a].slug /\ row'[a].port = row[a].port
              /\ row'[a].repo = row[a].repo /\ (row[a].deleted => row'[a].deleted)]_vars
    <2> SUFFICES ASSUME RegistryInv, Next, NEW a \in App, Inserted(a)
                 PROVE  /\ row'[a].slug = row[a].slug /\ row'[a].port = row[a].port
                        /\ row'[a].repo = row[a].repo /\ (row[a].deleted => row'[a].deleted)
      OBVIOUS
    <2>1. /\ row[a] \in Row /\ row \in [App -> Row \cup {NoRow}]
          /\ \A h \in Handler : Prepared(handler[h])
      BY RowsAreRows DEF RegistryInv, TypeOK
    <2>2. ASSUME NEW h \in Handler, NEW b \in App, Insert(h, b) PROVE row'[a] = row[a]
      BY <2>1, <2>2 DEF Insert
    <2>3. ASSUME NEW h \in Handler, NEW b \in Branch \cup {None}, Update(h, b)
          PROVE  row'[a] = row[a] \/ row'[a] = [row[a] EXCEPT !.follows = b]
      BY <2>1, <2>3 DEF Update
    <2>4. ASSUME NEW h \in Handler, SoftDelete(h)
          PROVE  row'[a] = row[a] \/ row'[a] = [row[a] EXCEPT !.deleted = TRUE]
      BY <2>1, <2>4 DEF SoftDelete
    <2>5. \/ row' = row
          \/ \E h \in Handler : \/ \E b \in App : Insert(h, b)
                               \/ \E b \in Branch \cup {None} : Update(h, b)
                               \/ SoftDelete(h)
      BY DEF Next, Create, AllocPort, GetApp, PoolEmpty, PortTaken, SlugTaken, CountVolumes,
             AddVolume, MountTaken, Push, RemoveVolume
    <2>6. row'[a] = row[a] \/ row'[a] = [row[a] EXCEPT !.deleted = TRUE]
            \/ \E b \in Branch \cup {None} : row'[a] = [row[a] EXCEPT !.follows = b]
      BY <2>2, <2>3, <2>4, <2>5
    <2> QED
      BY <2>1, <2>6 DEF Row
  <1> QED
    BY <1>1, RegistryInvariant, PTL DEF Spec, IdentityKept

(* A push is never lost to an application that is deleted or that belongs  *)
(* to another repository.                                                  *)
THEOREM MissedOnlyForTwins == Spec => []MissedForATwin
  <1>1. RegistryInv => MissedForATwin
    BY DEF RegistryInv
  <1> QED
    BY <1>1, RegistryInvariant, PTL

====
