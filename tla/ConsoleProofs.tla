--------------------------- MODULE ConsoleProofs ---------------------------
(***************************************************************************)
(* Proofs about Console, for any number of handlers and installations and  *)
(* any output: pages show lines in their order, shells are audited, the    *)
(* wizard keeps to its installation, what is shown was said to be plain.   *)
(*                                                                         *)
(* A page reads the table and then hears what is published, so the line    *)
(* that lies between, inserted and not yet published, may come twice.      *)
(* Only one line of a chunk is ever there, which is why no second one does.*)
(***************************************************************************)
EXTENDS Console, TLAPS, FiniteSetTheorems

(* Sequences of lines: of each chunk in order, strictly or not, with those *)
(* that came before, and none beyond what was inserted.                    *)
InOrder(l) ==
    \A i, j \in 1 .. Len(l) : i < j /\ l[i][1] = l[j][1] => l[i][2] <= l[j][2]
Increasing(l) ==
    \A i, j \in 1 .. Len(l) : i < j /\ l[i][1] = l[j][1] => l[i][2] < l[j][2]
Again(l) == {i \in 2 .. Len(l) : \E j \in 1 .. (i - 1) : l[j] = l[i]}
OnceAgain(l) == \A i, j \in Again(l) : l[i][1] = l[j][1] => i = j
Inserted(l, ch) == \A i \in 1 .. Len(l) : l[i][2] <= ch[l[i][1]].inserted

(* A chunk whose unpublished line is on the page has had none twice.       *)
NoneYet(l, ch) ==
    \A i \in 1 .. Len(l) : \A j \in Again(l) :
        /\ l[i][1] = l[j][1]
        /\ ch[l[i][1]].published < ch[l[i][1]].inserted
        => l[i][2] < ch[l[i][1]].inserted

OneUnpublished == \A c \in 1 .. Chunks : chunk[c].inserted <= chunk[c].published + 1
TableInOrder == Increasing(logs) /\ Inserted(logs, chunk)
PageInOrder ==
    On("logs") => /\ InOrder(tab.lines) /\ OnceAgain(tab.lines)
                  /\ Inserted(tab.lines, chunk) /\ NoneYet(tab.lines, chunk)
LinesInv == OneUnpublished /\ TableInOrder /\ PageInOrder

(* The shells that have been opened and not yet closed are finitely many.  *)
Shells == {k \in Conn : conn[k].for = "shell" /\ conn[k].at \in {"on", "closing"}}
ShellsInv == IsFiniteSet(Shells) /\ ShellsAudited

(* Whose lists the wizard has asked for, unless two were on their way.     *)
WizardInv ==
    /\ On("wizard") /\ ~tab.crossed =>
           /\ \A n \in 1 .. Len(tab.asked) : tab.asked[n] = tab.inst
           /\ tab.repos \in {None, tab.inst} /\ tab.repo \in {None, tab.inst}
    /\ RepoOfItsInstallation

EnvInv == (env.set => env.secret = env.said) /\ ShownWasPlain

IndInv == TypeOK /\ LinesInv /\ ShellsInv /\ WizardInv /\ EnvInv

-----------------------------------------------------------------------------
(* Records *)

Tabs == {Nowhere} \cup LogsPage \cup ShellPage \cup WizardPage \cup CreatedPage \cup EnvPage

(* The page a tab is on tells the record it is.                            *)
LEMMA PageType ==
    ASSUME NEW t \in Tabs
    PROVE  /\ t.page = "none" => t = Nowhere
           /\ t.page = "logs" => t \in LogsPage
           /\ t.page = "shell" => t \in ShellPage
           /\ t.page = "wizard" => t \in WizardPage
           /\ t.page = "created" => t \in CreatedPage
           /\ t.page = "env" => t \in EnvPage
           /\ t.page \in {"none", "logs", "shell", "wizard", "created", "env"}
  BY DEF Tabs, Nowhere, LogsPage, ShellPage, WizardPage, CreatedPage, EnvPage

(* The fields that are not the type of a page but what a page needs.       *)
LEMMA SocketType ==
    ASSUME NEW t \in Tabs, t.page \in {"logs", "shell"}
    PROVE  t.conn \in Conn \cup {None}
  BY PageType DEF LogsPage, ShellPage

(* A line is a chunk and a number.                                         *)
LEMMA LineType ==
    ASSUME NEW x
    PROVE  x \in Line <=> \E c \in 1 .. Chunks : \E n \in 1 .. Size[c] : x = <<c, n>>
  BY DEF Line, Chunks

(* A line is its chunk and its place in it.                                *)
LEMMA LineParts ==
    ASSUME NEW x \in Line
    PROVE  /\ x[1] \in 1 .. Chunks /\ x[2] \in Nat /\ x = <<x[1], x[2]>>
  <1>1. PICK c \in 1 .. Chunks : \E n \in 1 .. Size[c] : x = <<c, n>>
    BY LineType
  <1>2. PICK n \in 1 .. Size[c] : x = <<c, n>>
    BY <1>1
  <1>3. Size[c] \in Nat
    BY BoundsAssumption DEF Chunks
  <1> QED
    BY <1>2, <1>3

(* Chunks have a number of lines.                                          *)
LEMMA SizesType == Chunks \in Nat /\ \A c \in 1 .. Chunks : Size[c] \in Nat
  BY BoundsAssumption DEF Chunks

-----------------------------------------------------------------------------
(* Sequences of lines *)

(* A line no smaller than those of its chunk keeps a page in order.        *)
LEMMA AppendedInOrder ==
    ASSUME NEW l \in Seq(Line), NEW x \in Line,
           \A i \in 1 .. Len(l) : l[i][1] = x[1] => l[i][2] <= x[2]
    PROVE  /\ Append(l, x) \in Seq(Line)
           /\ InOrder(l) => InOrder(Append(l, x))
           /\ (\A i \in 1 .. Len(l) : l[i][1] = x[1] => l[i][2] < x[2])
                  => (Increasing(l) => Increasing(Append(l, x)))
  <1>1. /\ Len(Append(l, x)) = Len(l) + 1 /\ Append(l, x)[Len(l) + 1] = x
        /\ \A i \in 1 .. Len(l) : Append(l, x)[i] = l[i]
        /\ Append(l, x) \in Seq(Line) /\ Len(l) \in Nat
    OBVIOUS
  <1>2. \A i, j \in 1 .. Len(Append(l, x)) :
            i < j => /\ i \in 1 .. Len(l)
                     /\ j \in 1 .. Len(l) \/ j = Len(l) + 1
    BY <1>1
  <1>3. InOrder(l) => InOrder(Append(l, x))
    BY <1>1, <1>2 DEF InOrder
  <1>4. (\A i \in 1 .. Len(l) : l[i][1] = x[1] => l[i][2] < x[2])
            => (Increasing(l) => Increasing(Append(l, x)))
    BY <1>1, <1>2 DEF Increasing
  <1> QED
    BY <1>1, <1>3, <1>4

(* Only the appended line can be one more that came before.                *)
LEMMA AppendedAgain ==
    ASSUME NEW l \in Seq(Line), NEW x \in Line
    PROVE  /\ Again(Append(l, x)) \subseteq Again(l) \cup {Len(l) + 1}
           /\ Len(l) + 1 \in Again(Append(l, x)) => \E i \in 1 .. Len(l) : l[i] = x
           /\ Again(l) \subseteq 1 .. Len(l)
  <1>1. /\ Len(Append(l, x)) = Len(l) + 1 /\ Append(l, x)[Len(l) + 1] = x
        /\ \A i \in 1 .. Len(l) : Append(l, x)[i] = l[i]
        /\ Len(l) \in Nat
    OBVIOUS
  <1>2. ASSUME NEW i \in Again(Append(l, x)), i # Len(l) + 1 PROVE i \in Again(l)
    <2>1. i \in 2 .. Len(l)
      BY <1>1, <1>2 DEF Again
    <2>2. PICK j \in 1 .. (i - 1) : Append(l, x)[j] = Append(l, x)[i]
      BY <1>2 DEF Again
    <2>3. j \in 1 .. Len(l) /\ i \in 1 .. Len(l)
      BY <1>1, <2>1
    <2>4. l[j] = l[i]
      BY <1>1, <2>2, <2>3
    <2> QED
      BY <2>1, <2>4 DEF Again
  <1>3. ASSUME Len(l) + 1 \in Again(Append(l, x)) PROVE \E i \in 1 .. Len(l) : l[i] = x
    <2>1. PICK j \in 1 .. (Len(l) + 1 - 1) :
              Append(l, x)[j] = Append(l, x)[Len(l) + 1]
      BY <1>3 DEF Again
    <2>2. j \in 1 .. Len(l)
      BY <1>1
    <2> QED
      BY <1>1, <2>1, <2>2
  <1> QED
    BY <1>1, <1>2, <1>3 DEF Again

(* A table in strict order holds no line twice.                            *)
LEMMA IncreasingOnce ==
    ASSUME NEW l \in Seq(Line), Increasing(l)
    PROVE  InOrder(l) /\ Again(l) = {}
  <1>1. \A i \in 1 .. Len(l) : l[i][2] \in Nat
    BY LineParts
  <1>2. InOrder(l)
    BY <1>1 DEF Increasing, InOrder
  <1>3. ASSUME NEW i \in Again(l) PROVE FALSE
    <2>1. PICK j \in 1 .. (i - 1) : l[j] = l[i]
      BY DEF Again
    <2>2. i \in 1 .. Len(l) /\ j \in 1 .. Len(l) /\ j < i
      BY DEF Again
    <2>3. l[j][2] < l[i][2]
      BY <2>1, <2>2 DEF Increasing
    <2> QED
      BY <1>1, <2>1, <2>2, <2>3
  <1> QED
    BY <1>2, <1>3
-----------------------------------------------------------------------------
(* Types, part by part *)

BuildType ==
    /\ building \in BOOLEAN /\ arrived \in 0 .. Chunks
    /\ chunk \in [1 .. Chunks -> [inserted : Nat, published : Nat]]
    /\ logs \in Seq(Line)
    /\ \A c \in 1 .. Chunks :
           chunk[c].published <= chunk[c].inserted /\ chunk[c].inserted <= Size[c]
ConnType ==
    /\ conn \in [Conn -> Handler \cup {NoConn}]
    /\ \A k \in Conn : At(k, "closing") => ~conn[k].open
AuditType == audit \in [opened : Nat, closed : Nat, lost : Nat]
EnvType == env \in [set : BOOLEAN, secret : BOOLEAN, said : BOOLEAN]

(* The types, split by what the actors change.                             *)
LEMMA TypeParts ==
    TypeOK <=> BuildType /\ ConnType /\ AuditType /\ EnvType /\ tab \in Tabs
  BY DEF TypeOK, BuildType, ConnType, AuditType, EnvType, Tabs

BuildStep ==
    \/ ChunkArrives \/ Exit
    \/ \E c \in 1 .. Chunks, done \in BOOLEAN : InsertLine(c, done) \/ PublishLine(c, done)
HandlerStep ==
    \E k \in Conn :
        \/ Refused(k) \/ Take(k) \/ Listen(k) \/ NotAudited(k) \/ Drop(k) \/ ShellEnds(k)
        \/ \E written \in BOOLEAN : Cleanup(k, written)
OpenStep == GetDeployment \/ GetLogs \/ OpenShell \/ \E k \in Conn : Connect(k)
WizardStep ==
    \/ \E i \in Inst : NewApp(i) \/ PickInstallation(i)
    \/ \E ok \in BOOLEAN : ReposArrive(ok)
    \/ PickRepo \/ Submit
VarStep == SubmitVar \/ DeleteVar \/ ListVars

(* The steps by who takes them.                                            *)
LEMMA StepCases ==
    Next <=> BuildStep \/ HandlerStep \/ OpenStep \/ WizardStep \/ VarStep \/ Leave
  BY DEF Next, BuildStep, HandlerStep, OpenStep, WizardStep, VarStep

(* What each leaves alone.                                                 *)
LEMMA Frame ==
    /\ BuildStep => UNCHANGED <<conn, audit, env>>
    /\ HandlerStep => UNCHANGED <<build, env, tab>>
    /\ OpenStep => UNCHANGED <<build, audit, env>>
    /\ WizardStep => UNCHANGED <<build, conn, audit, env>>
    /\ VarStep => UNCHANGED <<build, conn, audit>>
    /\ Leave => UNCHANGED <<build, audit, env>>
  <1>1. BuildStep => UNCHANGED <<conn, audit, env>>
    BY DEF BuildStep, ChunkArrives, Exit, InsertLine, PublishLine
  <1>2. HandlerStep => UNCHANGED <<build, env, tab>>
    BY DEF HandlerStep, Refused, Take, Listen, NotAudited, Drop, ShellEnds, Cleanup
  <1>3. OpenStep => UNCHANGED <<build, audit, env>>
    BY DEF OpenStep, GetDeployment, GetLogs, OpenShell, Connect
  <1>4. WizardStep => UNCHANGED <<build, conn, audit, env>>
    BY DEF WizardStep, NewApp, PickInstallation, ReposArrive, PickRepo, Submit
  <1>5. VarStep => UNCHANGED <<build, conn, audit>>
    BY DEF VarStep, SubmitVar, Upsert, DeleteVar, ListVars
  <1> QED
    BY <1>1, <1>2, <1>3, <1>4, <1>5 DEF Leave

(* The output: a line at a time, and no further than the chunk goes.       *)
LEMMA BuildTypeStep == ASSUME BuildType, BuildStep PROVE BuildType'
  <1>1. CASE ChunkArrives \/ Exit
    <2>1. arrived' \in 0 .. Chunks
      <3>1. Chunks \in Nat /\ arrived \in 0 .. Chunks
        BY SizesType DEF BuildType
      <3>2. arrived' = arrived \/ (arrived < Chunks /\ arrived' = arrived + 1)
        BY <1>1 DEF ChunkArrives, Exit
      <3> QED
        BY <3>1, <3>2
    <2> QED
      BY <1>1, <2>1 DEF ChunkArrives, Exit, BuildType
  <1>2. ASSUME NEW c \in 1 .. Chunks, NEW done \in BOOLEAN, InsertLine(c, done)
        PROVE  BuildType'
    <2>1. /\ chunk[c].inserted = chunk[c].published /\ chunk[c].inserted < Size[c]
          /\ chunk' = [chunk EXCEPT ![c].inserted = @ + 1]
          /\ UNCHANGED <<building, arrived>>
      BY <1>2 DEF InsertLine, NextLine
    <2>2. chunk[c].inserted + 1 \in 1 .. Size[c]
      BY <2>1, SizesType DEF BuildType
    <2>3. <<c, chunk[c].inserted + 1>> \in Line
      BY <2>2, LineType
    <2>4. logs' \in Seq(Line)
      <3>1. logs \in Seq(Line)
        BY DEF BuildType
      <3>2. logs' = logs \/ logs' = Append(logs, <<c, chunk[c].inserted + 1>>)
        BY <1>2 DEF InsertLine
      <3> QED
        BY <2>3, <3>1, <3>2
    <2>5. chunk' \in [1 .. Chunks -> [inserted : Nat, published : Nat]]
      BY <2>1 DEF BuildType
    <2>6. /\ chunk'[c].inserted = chunk[c].inserted + 1
          /\ chunk'[c].published = chunk[c].published
          /\ \A d \in 1 .. Chunks \ {c} : chunk'[d] = chunk[d]
      BY <2>1 DEF BuildType
    <2>7. chunk[c].inserted \in Nat /\ Size[c] \in Nat
      BY SizesType DEF BuildType
    <2>8. chunk'[c].published <= chunk'[c].inserted /\ chunk'[c].inserted <= Size[c]
      BY <2>1, <2>2, <2>6, <2>7
    <2> QED
      BY <2>1, <2>4, <2>5, <2>6, <2>8 DEF BuildType
  <1>3. ASSUME NEW c \in 1 .. Chunks, NEW done \in BOOLEAN, PublishLine(c, done)
        PROVE  BuildType'
    <2>1. /\ chunk[c].published < chunk[c].inserted
          /\ chunk' = [chunk EXCEPT ![c].published = @ + 1]
          /\ UNCHANGED <<building, arrived, logs>>
      BY <1>3 DEF PublishLine
    <2>2. chunk' \in [1 .. Chunks -> [inserted : Nat, published : Nat]]
      BY <2>1 DEF BuildType
    <2>3. /\ chunk'[c].published = chunk[c].published + 1
          /\ chunk'[c].inserted = chunk[c].inserted
          /\ \A d \in 1 .. Chunks \ {c} : chunk'[d] = chunk[d]
      BY <2>1 DEF BuildType
    <2>4. chunk[c].published \in Nat /\ chunk[c].inserted \in Nat
      BY DEF BuildType
    <2>5. chunk'[c].published <= chunk'[c].inserted
      BY <2>1, <2>3, <2>4
    <2> QED
      BY <2>1, <2>2, <2>3, <2>5 DEF BuildType
  <1> QED
    BY <1>1, <1>2, <1>3 DEF BuildStep

(* A handler that is not there has no socket to lose.                      *)
LEMMA NoConnKept ==
    [NoConn EXCEPT !.open = FALSE] = NoConn /\ [NoConn EXCEPT !.at = "none"] = NoConn
  <1>1. NoConn \in [for : {"none"}, at : {"none"}, open : BOOLEAN] /\ NoConn.open = FALSE
    BY DEF NoConn
  <1>2. ASSUME NEW h \in [for : {"none"}, at : {"none"}, open : BOOLEAN], h.open = FALSE
        PROVE  [h EXCEPT !.open = FALSE] = h /\ [h EXCEPT !.at = "none"] = h
    BY <1>2
  <1> QED
    BY <1>1, <1>2

(* A socket that goes leaves a handler, and no other moves.                *)
LEMMA ClosedConn ==
    ASSUME ConnType, NEW k \in Conn
    PROVE  /\ Closed(k) \in [Conn -> Handler \cup {NoConn}]
           /\ Closed(k)[k].for = conn[k].for /\ ~Closed(k)[k].open
           /\ \/ Closed(k)[k].at = conn[k].at
              \/ conn[k].at = "on" /\ conn[k].open /\ Closed(k)[k].at = "closing"
           /\ \A j \in Conn \ {k} : Closed(k)[j] = conn[j]
  <1>1. PICK at : at = IF conn[k].at = "on" /\ conn[k].open THEN "closing" ELSE conn[k].at
    OBVIOUS
  <1>2. PICK h : h = [[conn[k] EXCEPT !.open = FALSE] EXCEPT !.at = at]
    OBVIOUS
  <1>3. Closed(k) = [conn EXCEPT ![k] = h]
    <2>1. conn[k] \in Handler \cup {NoConn}
      BY DEF ConnType
    <2>2. [conn[k] EXCEPT !.open = FALSE].at = conn[k].at
      BY <2>1 DEF Handler, NoConn
    <2> QED
      BY <1>1, <1>2, <2>2 DEF Closed, ConnType
  <1>4. CASE conn[k] \in Handler
    <2>1. /\ h \in Handler /\ h.for = conn[k].for /\ h.open = FALSE /\ h.at = at
      BY <1>1, <1>2, <1>4 DEF Handler
    <2> QED
      BY <1>1, <1>3, <2>1 DEF ConnType
  <1>5. CASE conn[k] = NoConn
    <2>1. at = "none"
      BY <1>1, <1>5 DEF NoConn
    <2>2. [NoConn EXCEPT !.open = FALSE] = NoConn /\ [NoConn EXCEPT !.at = "none"] = NoConn
      BY NoConnKept
    <2>3. h = NoConn
      BY <1>2, <1>5, <2>1, <2>2
    <2> QED
      BY <1>3, <1>5, <2>3 DEF ConnType, NoConn
  <1> QED
    BY <1>4, <1>5 DEF ConnType

(* A handler that closes has lost its socket.                              *)
LEMMA ClosedType ==
    ASSUME ConnType, NEW k \in Conn, conn' = Closed(k)
    PROVE  ConnType'
  <1>1. \A j \in Conn : conn'[j].at = "closing" => ~conn'[j].open
    BY ClosedConn DEF ConnType, At
  <1> QED
    BY <1>1, ClosedConn DEF ConnType, At

(* The handlers and the audit log they write.                              *)
LEMMA HandlerTypeStep ==
    ASSUME ConnType, AuditType, HandlerStep
    PROVE  ConnType' /\ AuditType'
  <1>1. AuditType'
    BY DEF HandlerStep, Refused, Take, Listen, NotAudited, Drop, ShellEnds, Cleanup, AuditType
  <1>2. ASSUME NEW k \in Conn, Drop(k) \/ ShellEnds(k) PROVE ConnType'
    BY <1>2, ClosedType DEF Drop, ShellEnds
  <1>3. ASSUME NEW k \in Conn, NEW p \in {"taken", "on"}, conn' = [conn EXCEPT ![k].at = p],
               conn[k].at \in {"lookup", "taken"}
        PROVE  ConnType'
    BY <1>3 DEF ConnType, Handler, NoConn, At
  <1>4. ASSUME NEW k \in Conn, conn' = [conn EXCEPT ![k] = NoConn] PROVE ConnType'
    BY <1>4 DEF ConnType, NoConn, At
  <1>5. ASSUME NEW k \in Conn, NotAudited(k) PROVE ConnType'
    <2>1. conn[k] \in Handler
      BY <1>5 DEF NotAudited, At, ConnType, NoConn
    <2>2. PICK h : h = [[conn[k] EXCEPT !.at = "stuck"] EXCEPT !.open = FALSE]
      OBVIOUS
    <2>3. conn' = [conn EXCEPT ![k] = h]
      BY <1>5, <2>1, <2>2 DEF NotAudited, ConnType, Handler
    <2>4. h \in Handler /\ h.open = FALSE
      BY <2>1, <2>2 DEF Handler
    <2> QED
      BY <2>3, <2>4 DEF ConnType, At
  <1> QED
    BY <1>1, <1>2, <1>3, <1>4, <1>5 DEF HandlerStep, Refused, Take, Listen, Cleanup, At
(* The pages.                                                              *)
LEMMA OpenTypeStep ==
    ASSUME BuildType, ConnType, tab \in Tabs, OpenStep
    PROVE  ConnType' /\ tab' \in Tabs
  <1>1. CASE GetDeployment
    BY <1>1 DEF GetDeployment, ConnType, At, BuildType, Tabs, LogsPage
  <1>2. CASE GetLogs
    <2>1. tab \in LogsPage /\ logs \in Seq(Line)
      BY <1>2, PageType DEF GetLogs, On, BuildType
    <2>2. tab' = [[tab EXCEPT !.read = TRUE] EXCEPT !.lines = logs]
      BY <1>2, <2>1 DEF GetLogs, LogsPage
    <2>3. tab' \in LogsPage
      BY <2>1, <2>2 DEF LogsPage
    <2> QED
      BY <1>2, <2>3 DEF GetLogs, ConnType, At, Tabs
  <1>3. CASE OpenShell
    BY <1>3 DEF OpenShell, ConnType, At, Tabs, ShellPage
  <1>4. ASSUME NEW k \in Conn, Connect(k) PROVE ConnType' /\ tab' \in Tabs
    <2>1. /\ tab.page \in {"logs", "shell"}
          /\ conn' = [conn EXCEPT ![k] = [for |-> tab.page, at |-> "lookup", open |-> TRUE]]
          /\ tab' = [tab EXCEPT !.conn = k]
      BY <1>4 DEF Connect, On
    <2>2. tab' \in Tabs
      BY <2>1, PageType DEF Tabs, LogsPage, ShellPage
    <2>3. [for |-> tab.page, at |-> "lookup", open |-> TRUE] \in Handler
      BY <2>1 DEF Handler
    <2> QED
      BY <2>1, <2>2, <2>3 DEF ConnType, At
  <1> QED
    BY <1>1, <1>2, <1>3, <1>4 DEF OpenStep

(* A page with one line more, of a chunk being published.                  *)
LEMMA PublishedLine ==
    ASSUME BuildType, NEW c \in 1 .. Chunks, chunk[c].published < chunk[c].inserted
    PROVE  <<c, chunk[c].published + 1>> \in Line
  <1>1. chunk[c].published + 1 \in 1 .. Size[c]
    BY SizesType DEF BuildType
  <1> QED
    BY <1>1, LineType

(* A page of a build stays one while lines arrive.                         *)
LEMMA BuildTabStep ==
    ASSUME BuildType, tab \in Tabs, BuildStep
    PROVE  tab' \in Tabs
  <1>1. ASSUME NEW c \in 1 .. Chunks, NEW done \in BOOLEAN, PublishLine(c, done), Hears
        PROVE  tab' \in Tabs
    <2>1. tab \in LogsPage /\ <<c, chunk[c].published + 1>> \in Line
      BY <1>1, PageType, PublishedLine DEF Hears, On, PublishLine
    <2>2. \/ tab' = tab
          \/ tab' = [tab EXCEPT !.lines = Append(tab.lines, <<c, chunk[c].published + 1>>)]
      BY <1>1, <2>1 DEF PublishLine, LogsPage
    <2>3. Append(tab.lines, <<c, chunk[c].published + 1>>) \in Seq(Line)
      BY <2>1 DEF LogsPage
    <2> QED
      BY <2>1, <2>2, <2>3 DEF Tabs, LogsPage
  <1> QED
    BY <1>1 DEF BuildStep, ChunkArrives, Exit, InsertLine, PublishLine

(* The wizard.                                                             *)
LEMMA WizardType ==
    ASSUME NEW i \in Inst
    PROVE  Wizard(i) \in WizardPage /\ Wizard(i).page = "wizard"
  BY DEF Wizard, WizardPage

(* The page of a wizard that has picked an installation.                   *)
LEMMA PickedType ==
    ASSUME NEW i \in Inst, NEW a \in Seq(Inst), NEW x \in BOOLEAN
    PROVE  LET w == [Wizard(i) EXCEPT !.asked = a, !.crossed = x] IN
           /\ w \in WizardPage /\ w.inst = i /\ w.repos = None /\ w.repo = None
           /\ w.asked = a /\ w.crossed = x
  <1>1. PICK v : v = Wizard(i)
    OBVIOUS
  <1>2. v \in WizardPage /\ v.inst = i /\ v.repos = None /\ v.repo = None
    BY <1>1 DEF Wizard, WizardPage
  <1>3. PICK w : w = [[v EXCEPT !.asked = a] EXCEPT !.crossed = x]
    OBVIOUS
  <1>4. [Wizard(i) EXCEPT !.asked = a, !.crossed = x] = w
    BY <1>1, <1>2, <1>3 DEF WizardPage
  <1>5. /\ w \in WizardPage /\ w.inst = i /\ w.repos = None /\ w.repo = None
        /\ w.asked = a /\ w.crossed = x
    BY <1>2, <1>3 DEF WizardPage
  <1> QED
    BY <1>4, <1>5

(* The wizard's steps lead from a page of it to another, or to the end.    *)
LEMMA WizardTabStep ==
    ASSUME tab \in Tabs, WizardStep
    PROVE  tab' \in Tabs
  <1>1. ASSUME NEW i \in Inst, NewApp(i) PROVE tab' \in Tabs
    BY <1>1, WizardType DEF NewApp, Tabs
  <1>2. ASSUME NEW i \in Inst, PickInstallation(i) PROVE tab' \in Tabs
    <2>1. tab \in WizardPage
      BY <1>2, PageType DEF On, PickInstallation
    <2>2. Append(tab.asked, i) \in Seq(Inst) /\ (tab.asked # <<>>) \in BOOLEAN
      BY <2>1 DEF WizardPage
    <2>3. PICK a \in Seq(Inst), x \in BOOLEAN :
              tab' = [Wizard(i) EXCEPT !.asked = a, !.crossed = x]
      BY <1>2, <2>2 DEF PickInstallation
    <2> QED
      BY <2>3, PickedType DEF Tabs
  <1>3. ASSUME NEW ok \in BOOLEAN, ReposArrive(ok) PROVE tab' \in Tabs
    <2>1. tab \in WizardPage /\ tab.asked # <<>>
      BY <1>3, PageType DEF On, ReposArrive
    <2>2. Tail(tab.asked) \in Seq(Inst) /\ Head(tab.asked) \in Inst
      BY <2>1 DEF WizardPage
    <2>3. PICK a \in Seq(Inst), r \in Inst \cup {None} :
              tab' = [tab EXCEPT !.asked = a, !.loading = FALSE, !.repos = r]
      BY <1>3, <2>1, <2>2 DEF ReposArrive, WizardPage
    <2>4. tab' = [[[tab EXCEPT !.asked = a] EXCEPT !.loading = FALSE] EXCEPT !.repos = r]
      BY <2>1, <2>3 DEF WizardPage
    <2> QED
      BY <2>1, <2>4 DEF WizardPage, Tabs
  <1>4. CASE PickRepo
    <2>1. tab \in WizardPage /\ tab' = [tab EXCEPT !.repo = tab.repos]
      BY <1>4, PageType DEF On, PickRepo
    <2> QED
      BY <2>1 DEF WizardPage, Tabs
  <1>5. CASE Submit
    <2>1. /\ tab \in WizardPage /\ tab.repo # None
          /\ tab' = [page |-> "created", inst |-> tab.inst, repo |-> tab.repo,
                     crossed |-> tab.crossed]
      BY <1>5, PageType DEF On, Submit
    <2> QED
      BY <2>1 DEF WizardPage, CreatedPage, Tabs
  <1> QED
    BY <1>1, <1>2, <1>3, <1>4, <1>5 DEF WizardStep

(* One variable and its page.                                              *)
LEMMA VarTypeStep ==
    ASSUME EnvType, tab \in Tabs, VarStep
    PROVE  EnvType' /\ tab' \in Tabs
  <1>1. CASE SubmitVar \/ DeleteVar
    <2>1. UNCHANGED tab
      BY <1>1 DEF SubmitVar, Upsert, DeleteVar
    <2>2. \E set, secret, said \in BOOLEAN : env' = [set |-> set, secret |-> secret, said |-> said]
      BY <1>1 DEF SubmitVar, Upsert, DeleteVar, NoVar
    <2>3. EnvType'
      BY <2>2 DEF EnvType
    <2> QED
      BY <2>1, <2>3
  <1>2. CASE ListVars
    <2>1. Shown \in BOOLEAN /\ env.said \in BOOLEAN /\ EnvType'
      BY <1>2 DEF Shown, ListVars, EnvType
    <2>2. PICK x \in BOOLEAN, y \in BOOLEAN : tab' = [page |-> "env", shown |-> x, said |-> y]
      BY <1>2, <2>1 DEF ListVars
    <2> QED
      BY <2>1, <2>2 DEF EnvPage, Tabs
  <1>3. UNCHANGED tab \/ ListVars
    BY DEF VarStep, SubmitVar, Upsert, DeleteVar
  <1>4. EnvType'
    BY <1>1, <1>2 DEF VarStep, ListVars
  <1> QED
    BY <1>2, <1>3, <1>4

(* A tab that goes elsewhere.                                              *)
LEMMA LeaveTypeStep ==
    ASSUME ConnType, tab \in Tabs, Leave
    PROVE  ConnType' /\ tab' \in Tabs
  <1>1. UNCHANGED conn \/ \E k \in Conn : conn' = Closed(k)
    BY SocketType DEF Leave, On
  <1>2. UNCHANGED conn => ConnType'
    BY DEF ConnType, At
  <1> QED
    BY <1>1, <1>2, ClosedType DEF Leave, Tabs

(* At first all have their types.                                          *)
LEMMA TypeInit == Init => TypeOK
  <1> SUFFICES ASSUME Init PROVE TypeOK
    OBVIOUS
  <1>1. BuildType
    BY SizesType DEF Init, BuildType
  <1>2. ConnType /\ AuditType /\ EnvType /\ tab \in Tabs
    BY DEF Init, ConnType, AuditType, EnvType, NoConn, NoVar, Tabs, At
  <1> QED
    BY <1>1, <1>2, TypeParts

(* Every step keeps the types.                                             *)
LEMMA TypeStep == ASSUME TypeOK, [Next]_vars PROVE TypeOK'
  <1>1. BuildType /\ ConnType /\ AuditType /\ EnvType /\ tab \in Tabs
    BY TypeParts
  <1>2. /\ UNCHANGED build => BuildType'
        /\ UNCHANGED conn => ConnType'
        /\ UNCHANGED audit => AuditType'
        /\ UNCHANGED env => EnvType'
        /\ UNCHANGED tab => tab' \in Tabs
    BY <1>1 DEF build, BuildType, ConnType, AuditType, EnvType, At
  <1>3. BuildType'
    BY <1>1, <1>2, Frame, StepCases, BuildTypeStep DEF vars, build
  <1>4. ConnType'
    BY <1>1, <1>2, Frame, StepCases, HandlerTypeStep, OpenTypeStep, LeaveTypeStep DEF vars
  <1>5. AuditType'
    BY <1>1, <1>2, Frame, StepCases, HandlerTypeStep DEF vars
  <1>6. EnvType'
    BY <1>1, <1>2, Frame, StepCases, VarTypeStep DEF vars
  <1>7. tab' \in Tabs
    BY <1>1, <1>2, Frame, StepCases, BuildTabStep, OpenTypeStep, WizardTabStep, VarTypeStep,
       LeaveTypeStep DEF vars
  <1> QED
    BY <1>3, <1>4, <1>5, <1>6, <1>7, TypeParts DEF Tabs, BuildType, ConnType, AuditType, EnvType,
       TypeOK
-----------------------------------------------------------------------------
(* The page a step leaves the tab on.                                      *)
LEMMA NextPage ==
    ASSUME TypeOK
    PROVE  /\ BuildStep => tab' = tab \/ tab'.page = "logs"
           /\ HandlerStep => tab' = tab
           /\ OpenStep => tab'.page \in {"logs", "shell"}
           /\ WizardStep => tab'.page \in {"wizard", "created"}
           /\ VarStep => tab' = tab \/ tab'.page = "env"
           /\ Leave => tab'.page = "none"
  <1>1. ASSUME BuildStep PROVE tab' = tab \/ tab'.page = "logs"
    <2>1. ASSUME NEW c \in 1 .. Chunks, NEW done \in BOOLEAN, PublishLine(c, done), Hears
          PROVE  tab' = tab \/ tab'.page = "logs"
      <3>1. tab \in LogsPage
        BY <2>1, PageType DEF Hears, On, TypeOK, Tabs
      <3> QED
        BY <2>1, <3>1 DEF PublishLine, LogsPage
    <2> QED
      BY <1>1, <2>1 DEF BuildStep, ChunkArrives, Exit, InsertLine, PublishLine
  <1>2. ASSUME OpenStep PROVE tab'.page \in {"logs", "shell"}
    <2>1. CASE GetLogs \/ \E k \in Conn : Connect(k)
      <3>1. tab \in LogsPage \/ tab \in ShellPage
        BY <2>1, PageType DEF GetLogs, Connect, On, TypeOK, Tabs
      <3>2. tab'.page = tab.page
        BY <2>1, <3>1 DEF GetLogs, Connect, LogsPage, ShellPage
      <3> QED
        BY <3>1, <3>2 DEF LogsPage, ShellPage
    <2>2. CASE GetDeployment \/ OpenShell
      BY <2>2 DEF GetDeployment, OpenShell
    <2> QED
      BY <1>2, <2>1, <2>2 DEF OpenStep
  <1>3. ASSUME WizardStep PROVE tab'.page \in {"wizard", "created"}
    <2>1. ASSUME NEW i \in Inst, NewApp(i) PROVE tab'.page = "wizard"
      BY <2>1, WizardType DEF NewApp
    <2>2. ASSUME NEW i \in Inst, PickInstallation(i) PROVE tab'.page = "wizard"
      BY <2>2 DEF PickInstallation, Wizard
    <2>3. ASSUME NEW ok \in BOOLEAN, ReposArrive(ok) PROVE tab'.page = "wizard"
      BY <2>3, PageType DEF ReposArrive, On, TypeOK, Tabs, WizardPage
    <2>4. CASE PickRepo
      BY <2>4, PageType DEF PickRepo, On, TypeOK, Tabs, WizardPage
    <2>5. CASE Submit
      BY <2>5 DEF Submit
    <2> QED
      BY <1>3, <2>1, <2>2, <2>3, <2>4, <2>5 DEF WizardStep
  <1>4. ASSUME VarStep PROVE tab' = tab \/ tab'.page = "env"
    BY <1>4 DEF VarStep, SubmitVar, Upsert, DeleteVar, ListVars
  <1>5. Leave => tab'.page = "none"
    BY DEF Leave, Nowhere
  <1> QED
    BY <1>1, <1>2, <1>3, <1>4, <1>5, Frame

-----------------------------------------------------------------------------
(* Lines: the table and the page *)

(* A chunk that grows leaves what was within it within it.                 *)
LEMMA StillInserted ==
    ASSUME NEW l \in Seq(Line), NEW f, NEW g, Inserted(l, f),
           f \in [1 .. Chunks -> [inserted : Nat, published : Nat]],
           g \in [1 .. Chunks -> [inserted : Nat, published : Nat]],
           \A c \in 1 .. Chunks : f[c].inserted <= g[c].inserted
    PROVE  Inserted(l, g)
  <1>1. ASSUME NEW i \in 1 .. Len(l) PROVE l[i][2] <= g[l[i][1]].inserted
    <2>1. l[i] \in Line
      OBVIOUS
    <2>2. l[i][1] \in 1 .. Chunks /\ l[i][2] \in Nat
      BY <2>1, LineParts
    <2>3. l[i][2] <= f[l[i][1]].inserted
      BY DEF Inserted
    <2> QED
      BY <2>2, <2>3
  <1> QED
    BY <1>1 DEF Inserted

(* The lines of a page while nothing of the output changes.                *)
LEMMA LinesKept ==
    ASSUME LinesInv, UNCHANGED build, tab' = tab \/ tab'.page # "logs"
    PROVE  LinesInv'
  <1>1. OneUnpublished' /\ TableInOrder'
    BY DEF LinesInv, OneUnpublished, TableInOrder, build
  <1>2. PageInOrder'
    BY DEF LinesInv, PageInOrder, On, build
  <1> QED
    BY <1>1, <1>2 DEF LinesInv

(* A line is inserted when all before it are published: it is new to the   *)
(* table, and to the page.                                                 *)
LEMMA InsertedInv ==
    ASSUME TypeOK, LinesInv, NEW c \in 1 .. Chunks, NEW done \in BOOLEAN, InsertLine(c, done)
    PROVE  LinesInv'
  <1> DEFINE x == <<c, chunk[c].inserted + 1>>
  <1>1. /\ chunk \in [1 .. Chunks -> [inserted : Nat, published : Nat]]
        /\ chunk[c].inserted = chunk[c].published /\ chunk[c].inserted < Size[c]
        /\ chunk' = [chunk EXCEPT ![c].inserted = @ + 1] /\ UNCHANGED tab
    BY DEF InsertLine, NextLine, TypeOK
  <1>2. /\ chunk' \in [1 .. Chunks -> [inserted : Nat, published : Nat]]
        /\ chunk'[c].inserted = chunk[c].inserted + 1
        /\ \A d \in 1 .. Chunks : chunk[d].inserted <= chunk'[d].inserted
        /\ \A d \in 1 .. Chunks \ {c} : chunk'[d] = chunk[d]
    BY <1>1
  <1>3. OneUnpublished'
    BY <1>1, <1>2 DEF LinesInv, OneUnpublished
  <1>4. TableInOrder'
    <2>1. logs \in Seq(Line) /\ Increasing(logs) /\ Inserted(logs, chunk)
      BY DEF TypeOK, LinesInv, TableInOrder
    <2>2. Inserted(logs, chunk')
      BY <1>1, <1>2, <2>1, StillInserted
    <2>3. x \in Line
      BY <1>1, LineType, SizesType
    <2>4. ASSUME NEW i \in 1 .. Len(logs), logs[i][1] = c
          PROVE  logs[i][2] < chunk[c].inserted + 1
      <3>1. logs[i] \in Line
        BY <2>1
      <3>2. logs[i][2] \in Nat
        BY <3>1, LineParts
      <3>3. logs[i][2] <= chunk[c].inserted
        BY <2>1, <2>4 DEF Inserted
      <3>4. chunk[c].inserted \in Nat
        BY <1>1
      <3> QED
        BY <3>2, <3>3, <3>4
    <2>5. \A i \in 1 .. Len(logs) : logs[i][2] \in Nat
      BY <2>1, LineParts
    <2>6. Increasing(Append(logs, x))
      <3>1. x[1] = c /\ x[2] = chunk[c].inserted + 1
        OBVIOUS
      <3>2. chunk[c].inserted \in Nat
        BY <1>1
      <3> HIDE DEF x
      <3>3. /\ \A i \in 1 .. Len(logs) : logs[i][1] = x[1] => logs[i][2] < x[2]
            /\ \A i \in 1 .. Len(logs) : logs[i][1] = x[1] => logs[i][2] <= x[2]
        BY <2>4, <2>5, <3>1, <3>2
      <3> QED
        BY <2>1, <2>3, <3>3, AppendedInOrder
    <2>7. Inserted(Append(logs, x), chunk')
      BY <1>1, <1>2, <2>1, <2>2, <2>3 DEF Inserted
    <2>8. logs' = logs \/ logs' = Append(logs, x)
      BY DEF InsertLine
    <2> QED
      BY <2>1, <2>2, <2>6, <2>7, <2>8 DEF TableInOrder
  <1>5. PageInOrder'
    <2> SUFFICES ASSUME On("logs") PROVE PageInOrder'
      BY <1>1 DEF PageInOrder, On
    <2>1. PICK l : l = tab.lines
      OBVIOUS
    <2>2. /\ l \in Seq(Line) /\ InOrder(l) /\ OnceAgain(l)
          /\ Inserted(l, chunk) /\ NoneYet(l, chunk)
      BY <2>1, PageType DEF TypeOK, Tabs, On, LogsPage, LinesInv, PageInOrder
    <2>3. Inserted(l, chunk')
      BY <1>1, <1>2, <2>2, StillInserted
    <2>4. ASSUME NEW i \in 1 .. Len(l), NEW j \in Again(l), l[i][1] = l[j][1],
                 chunk'[l[i][1]].published < chunk'[l[i][1]].inserted
          PROVE  l[i][2] < chunk'[l[i][1]].inserted
      <3>1. l[i] \in Line
        BY <2>2
      <3>2. l[i][1] \in 1 .. Chunks /\ l[i][2] \in Nat
        BY <3>1, LineParts
      <3>3. l[i][2] <= chunk[l[i][1]].inserted
        BY <2>2 DEF Inserted
      <3>4. CASE l[i][1] = c
        BY <1>1, <1>2, <3>2, <3>3, <3>4
      <3>5. CASE l[i][1] # c
        <4>1. chunk'[l[i][1]] = chunk[l[i][1]]
          BY <1>2, <3>2, <3>5
        <4> QED
          BY <2>2, <2>4, <4>1 DEF NoneYet
      <3> QED
        BY <3>4, <3>5
    <2>5. NoneYet(l, chunk')
      BY <2>4 DEF NoneYet
    <2> QED
      BY <1>1, <2>1, <2>2, <2>3, <2>5 DEF PageInOrder, On
  <1> QED
    BY <1>3, <1>4, <1>5 DEF LinesInv

(* A line is published, and heard on a page that listens: of its chunk it  *)
(* is the last that was inserted, and the page may have it from the table. *)
LEMMA HeardLine ==
    ASSUME NEW f \in [1 .. Chunks -> [inserted : Nat, published : Nat]],
           NEW g \in [1 .. Chunks -> [inserted : Nat, published : Nat]],
           NEW c \in 1 .. Chunks, f[c].published < f[c].inserted,
           g[c].published = g[c].inserted, g[c].inserted = f[c].inserted,
           \A d \in 1 .. Chunks : d # c => g[d] = f[d],
           NEW l \in Seq(Line), InOrder(l), OnceAgain(l), Inserted(l, f), NoneYet(l, f),
           NEW x \in Line, x[1] = c, x[2] = f[c].inserted
    PROVE  /\ InOrder(Append(l, x)) /\ OnceAgain(Append(l, x))
           /\ Inserted(Append(l, x), g) /\ NoneYet(Append(l, x), g)
           /\ NoneYet(l, g)
  <1>1. PICK m : m = Append(l, x)
    OBVIOUS
  <1>2. /\ m \in Seq(Line) /\ Len(m) = Len(l) + 1 /\ m[Len(l) + 1] = x
        /\ \A i \in 1 .. Len(l) : m[i] = l[i]
        /\ Len(l) \in Nat
    BY <1>1
  <1>3. \A i \in 1 .. Len(l) : /\ l[i][1] \in 1 .. Chunks /\ l[i][2] \in Nat
                               /\ l[i][1] = c => l[i][2] <= x[2]
    <2> TAKE i \in 1 .. Len(l)
    <2>1. l[i] \in Line
      OBVIOUS
    <2> QED
      BY <2>1, LineParts DEF Inserted
  <1>4. InOrder(m)
    <2>1. \A i \in 1 .. Len(l) : l[i][1] = x[1] => l[i][2] <= x[2]
      BY <1>3
    <2>2. InOrder(Append(l, x))
      BY <2>1, AppendedInOrder
    <2> QED
      BY <1>1, <2>2
  <1>5. Inserted(m, g)
    <2> SUFFICES ASSUME NEW i \in 1 .. Len(m) PROVE m[i][2] <= g[m[i][1]].inserted
      BY DEF Inserted
    <2>1. CASE i \in 1 .. Len(l)
      <3>1. m[i] = l[i] /\ l[i][1] \in 1 .. Chunks /\ l[i][2] <= f[l[i][1]].inserted
        BY <1>2, <1>3, <2>1 DEF Inserted
      <3>2. g[l[i][1]].inserted = f[l[i][1]].inserted
        BY <3>1
      <3> QED
        BY <3>1, <3>2
    <2>2. CASE i = Len(l) + 1
      BY <1>2, <2>2
    <2> QED
      BY <1>2, <2>1, <2>2
  <1>6. /\ Again(m) \subseteq Again(l) \cup {Len(l) + 1}
        /\ Len(l) + 1 \in Again(m) => \E i \in 1 .. Len(l) : l[i] = x
        /\ Again(l) \subseteq 1 .. Len(l)
    BY <1>1, AppendedAgain
  <1>7. ASSUME Len(l) + 1 \in Again(m), NEW j \in Again(l) PROVE l[j][1] # c
    <2>1. PICK i \in 1 .. Len(l) : l[i] = x
      BY <1>6, <1>7
    <2>2. l[i][1] = c /\ l[i][2] = f[c].inserted
      BY <2>1
    <2> QED
      BY <2>2 DEF NoneYet
  <1>8. OnceAgain(m)
    <2> SUFFICES ASSUME NEW i \in Again(m), NEW j \in Again(m), m[i][1] = m[j][1]
                 PROVE  i = j
      BY DEF OnceAgain
    <2>1. CASE i \in Again(l) /\ j \in Again(l)
      BY <1>2, <1>6, <2>1 DEF OnceAgain
    <2>2. CASE i = Len(l) + 1 /\ j \in Again(l)
      BY <1>2, <1>6, <1>7, <2>2
    <2>3. CASE j = Len(l) + 1 /\ i \in Again(l)
      BY <1>2, <1>6, <1>7, <2>3
    <2> QED
      BY <1>6, <2>1, <2>2, <2>3
  <1>9. NoneYet(m, g)
    <2> SUFFICES ASSUME NEW i \in 1 .. Len(m), NEW j \in Again(m), m[i][1] = m[j][1],
                        g[m[i][1]].published < g[m[i][1]].inserted
                 PROVE  m[i][2] < g[m[i][1]].inserted
      BY DEF NoneYet
    <2>1. m[i][1] # c /\ m[j][1] # c
      OBVIOUS
    <2>2. i \in 1 .. Len(l) /\ j \in Again(l) /\ j \in 1 .. Len(l)
      BY <1>2, <1>6, <2>1
    <2>3. g[m[i][1]] = f[m[i][1]] /\ m[i] = l[i] /\ m[j] = l[j]
      BY <1>2, <1>3, <2>1, <2>2
    <2> QED
      BY <2>2, <2>3 DEF NoneYet
  <1>10. NoneYet(l, g)
    <2> SUFFICES ASSUME NEW i \in 1 .. Len(l), NEW j \in Again(l), l[i][1] = l[j][1],
                        g[l[i][1]].published < g[l[i][1]].inserted
                 PROVE  l[i][2] < g[l[i][1]].inserted
      BY DEF NoneYet
    <2>1. l[i][1] # c
      OBVIOUS
    <2>2. g[l[i][1]] = f[l[i][1]]
      BY <1>3, <2>1
    <2> QED
      BY <2>2 DEF NoneYet
  <1> QED
    BY <1>1, <1>4, <1>5, <1>8, <1>9, <1>10

(* A line that is published is the last one inserted: a page that has read *)
(* it before hears it once more, and no other after it.                    *)
LEMMA PublishedInv ==
    ASSUME TypeOK, LinesInv, NEW c \in 1 .. Chunks, NEW done \in BOOLEAN, PublishLine(c, done)
    PROVE  LinesInv'
  <1>1. /\ chunk[c].published < chunk[c].inserted
        /\ chunk' = [chunk EXCEPT ![c].published = @ + 1]
        /\ UNCHANGED logs
        /\ chunk \in [1 .. Chunks -> [inserted : Nat, published : Nat]]
        /\ chunk[c].inserted = chunk[c].published + 1
    BY DEF PublishLine, TypeOK, LinesInv, OneUnpublished
  <1>2. /\ chunk' \in [1 .. Chunks -> [inserted : Nat, published : Nat]]
        /\ \A d \in 1 .. Chunks : chunk'[d].inserted = chunk[d].inserted
        /\ \A d \in 1 .. Chunks : chunk[d].published <= chunk'[d].published
    BY <1>1
  <1>3. OneUnpublished'
    BY <1>1, <1>2 DEF LinesInv, OneUnpublished
  <1>4. TableInOrder'
    <2>1. Inserted(logs, chunk')
      <3>1. logs \in Seq(Line) /\ Inserted(logs, chunk)
        BY DEF TypeOK, LinesInv, TableInOrder
      <3>2. \A d \in 1 .. Chunks : chunk[d].inserted <= chunk'[d].inserted
        BY <1>1, <1>2
      <3> QED
        BY <1>1, <1>2, <3>1, <3>2, StillInserted
    <2> QED
      BY <1>1, <2>1 DEF LinesInv, TableInOrder
  <1>5. PageInOrder'
    <2> SUFFICES ASSUME On("logs") PROVE PageInOrder'
      BY DEF PageInOrder, On, PublishLine, Hears
    <2>1. PICK l : l = tab.lines
      OBVIOUS
    <2>2. /\ l \in Seq(Line) /\ InOrder(l) /\ OnceAgain(l) /\ tab \in LogsPage
          /\ Inserted(l, chunk) /\ NoneYet(l, chunk)
      BY <2>1, PageType DEF TypeOK, Tabs, On, LogsPage, LinesInv, PageInOrder
    <2>3. PICK x : x = <<c, chunk[c].published + 1>>
      OBVIOUS
    <2>4. x \in Line /\ x[1] = c /\ x[2] = chunk[c].inserted
      <3>1. x \in Line
        BY <1>1, <2>3, PublishedLine DEF TypeOK, BuildType
      <3> QED
        BY <1>1, <2>3, <3>1
    <2>5. /\ chunk \in [1 .. Chunks -> [inserted : Nat, published : Nat]]
          /\ chunk' \in [1 .. Chunks -> [inserted : Nat, published : Nat]]
          /\ chunk[c].published < chunk[c].inserted
          /\ chunk'[c].published = chunk'[c].inserted
          /\ chunk'[c].inserted = chunk[c].inserted
          /\ \A d \in 1 .. Chunks : d # c => chunk'[d] = chunk[d]
      BY <1>1, <1>2
    <2>6. /\ InOrder(Append(l, x)) /\ OnceAgain(Append(l, x))
          /\ Inserted(Append(l, x), chunk') /\ NoneYet(Append(l, x), chunk')
          /\ NoneYet(l, chunk')
      BY <2>2, <2>4, <2>5, HeardLine
    <2>7. Inserted(l, chunk')
      <3>1. \A d \in 1 .. Chunks : chunk[d].inserted <= chunk'[d].inserted
        BY <1>1, <1>2
      <3> QED
        BY <1>1, <1>2, <2>2, <3>1, StillInserted
    <2>8. \/ tab' = tab
          \/ tab' = [tab EXCEPT !.lines = Append(l, x)]
      BY <2>1, <2>2, <2>3 DEF PublishLine, LogsPage
    <2>9. tab'.lines = l \/ tab'.lines = Append(l, x)
      BY <2>1, <2>2, <2>8 DEF LogsPage
    <2> QED
      BY <2>2, <2>6, <2>7, <2>9 DEF PageInOrder
  <1> QED
    BY <1>3, <1>4, <1>5 DEF LinesInv
(* The page reads the table, which holds no line twice.                    *)
LEMMA ReadInv ==
    ASSUME TypeOK, LinesInv, GetLogs
    PROVE  LinesInv'
  <1>1. logs \in Seq(Line) /\ Increasing(logs) /\ Inserted(logs, chunk)
    BY DEF TypeOK, LinesInv, TableInOrder
  <1>2. InOrder(logs) /\ Again(logs) = {}
    BY <1>1, IncreasingOnce
  <1>3. OnceAgain(logs) /\ NoneYet(logs, chunk)
    BY <1>2 DEF OnceAgain, NoneYet
  <1>4. tab'.lines = logs /\ UNCHANGED build
    BY PageType DEF GetLogs, TypeOK, Tabs, On, LogsPage
  <1>5. PageInOrder'
    BY <1>1, <1>2, <1>3, <1>4 DEF PageInOrder, build
  <1> QED
    BY <1>4, <1>5 DEF LinesInv, OneUnpublished, TableInOrder, build

(* A page begins without lines, and a socket brings none by itself.        *)
LEMMA OpenedInv ==
    ASSUME TypeOK, LinesInv, GetDeployment \/ OpenShell \/ \E k \in Conn : Connect(k)
    PROVE  LinesInv'
  <1>1. UNCHANGED build /\ OneUnpublished' /\ TableInOrder'
    BY DEF GetDeployment, OpenShell, Connect, LinesInv, OneUnpublished, TableInOrder, build
  <1>2. CASE GetDeployment
    <2>1. tab'.lines = <<>>
      BY <1>2 DEF GetDeployment
    <2>2. PICK l : l = tab'.lines
      OBVIOUS
    <2>3. l = <<>> /\ Len(l) = 0
      BY <2>1, <2>2
    <2>4. InOrder(l) /\ OnceAgain(l) /\ Inserted(l, chunk') /\ NoneYet(l, chunk')
      BY <2>3 DEF InOrder, OnceAgain, Again, Inserted, NoneYet
    <2> QED
      BY <1>1, <2>2, <2>4 DEF LinesInv, PageInOrder
  <1>3. CASE OpenShell
    BY <1>1, <1>3 DEF OpenShell, LinesInv, PageInOrder, On
  <1>4. ASSUME NEW k \in Conn, Connect(k) PROVE LinesInv'
    <2>1. /\ tab \in LogsPage \/ tab \in ShellPage
          /\ tab' = [tab EXCEPT !.conn = k]
      BY <1>4, PageType DEF Connect, On, TypeOK, Tabs
    <2>2. tab'.page = tab.page /\ (tab.page = "logs" => tab'.lines = tab.lines)
      BY <2>1 DEF LogsPage, ShellPage
    <2> QED
      BY <1>1, <2>2 DEF LinesInv, PageInOrder, On, build
  <1> QED
    BY <1>2, <1>3, <1>4

(* At first there are no lines.                                            *)
LEMMA LinesInit == Init => LinesInv
  <1> SUFFICES ASSUME Init PROVE LinesInv
    OBVIOUS
  <1>1. \A c \in 1 .. Chunks : chunk[c].inserted = 0 /\ chunk[c].published = 0
    BY DEF Init
  <1>2. Len(logs) = 0 /\ tab.page = "none"
    BY DEF Init, Nowhere
  <1> QED
    BY <1>1, <1>2 DEF LinesInv, OneUnpublished, TableInOrder, PageInOrder, Increasing, Inserted, On

(* Every step keeps the lines in order.                                    *)
LEMMA LinesStep == ASSUME TypeOK, LinesInv, [Next]_vars PROVE LinesInv'
  <1>1. CASE BuildStep
    <2>1. CASE ChunkArrives \/ Exit
      BY <2>1 DEF ChunkArrives, Exit, LinesInv, OneUnpublished, TableInOrder, PageInOrder, On
    <2> QED
      BY <1>1, <2>1, InsertedInv, PublishedInv DEF BuildStep
  <1>2. CASE OpenStep
    BY <1>2, ReadInv, OpenedInv DEF OpenStep
  <1>3. CASE WizardStep \/ VarStep \/ Leave
    <2>1. tab' = tab \/ tab'.page # "logs"
      BY <1>3, NextPage
    <2> QED
      BY <1>3, <2>1, Frame, LinesKept
  <1>4. CASE HandlerStep \/ UNCHANGED vars
    BY <1>4, Frame, LinesKept DEF vars, build
  <1> QED
    BY <1>1, <1>2, <1>3, <1>4, StepCases
-----------------------------------------------------------------------------
(* Shells and their entries *)

(* Handlers that stay out of the shells, or in them, change nothing.       *)
LEMMA ShellsKept ==
    ASSUME ShellsInv, UNCHANGED audit, Shells' = Shells
    PROVE  ShellsInv'
  BY DEF ShellsInv, ShellsAudited, Shells

(* A handler that has left its shell, or had none, is not among the open.  *)
LEMMA ClosedShells ==
    ASSUME ConnType, NEW k \in Conn, conn' = Closed(k)
    PROVE  Shells' = Shells
  BY ClosedConn DEF Shells

(* One shell more, when its entry is written.                              *)
LEMMA ListenShells ==
    ASSUME TypeOK, ShellsInv, NEW k \in Conn, Listen(k)
    PROVE  ShellsInv'
  <1>1. /\ conn[k] \in Handler /\ conn[k].at = "taken"
        /\ conn' = [conn EXCEPT ![k].at = "on"]
    BY DEF Listen, At, TypeOK, NoConn
  <1>2. conn \in [Conn -> Handler \cup {NoConn}]
    BY DEF TypeOK
  <1>3. conn'[k].at = "on" /\ conn'[k].for = conn[k].for
    BY <1>1, <1>2 DEF Handler
  <1>4. \A j \in Conn \ {k} : conn'[j] = conn[j]
    BY <1>1, <1>2
  <1>5. CASE conn[k].for = "shell"
    <2>1. Shells' = Shells \cup {k} /\ k \notin Shells
      BY <1>1, <1>3, <1>4, <1>5 DEF Shells
    <2>2. /\ IsFiniteSet(Shells) /\ IsFiniteSet(Shells \cup {k})
          /\ Cardinality(Shells \cup {k}) = Cardinality(Shells) + 1
          /\ Cardinality(Shells) \in Nat
      BY <2>1, FS_AddElement, FS_CardinalityType DEF ShellsInv
    <2>3. audit' = [audit EXCEPT !.opened = @ + 1]
      BY <1>5 DEF Listen
    <2>4. audit.opened = audit.closed + audit.lost + Cardinality(Shells)
      BY DEF ShellsInv, ShellsAudited, Shells
    <2>5. audit'.opened = audit'.closed + audit'.lost + Cardinality(Shells')
      BY <2>1, <2>2, <2>3, <2>4 DEF TypeOK
    <2> QED
      BY <2>1, <2>2, <2>5 DEF ShellsInv, ShellsAudited, Shells
  <1>6. CASE conn[k].for # "shell"
    <2>1. Shells' = Shells
      BY <1>3, <1>4, <1>6 DEF Shells
    <2> QED
      BY <1>6, <2>1, ShellsKept DEF Listen
  <1> QED
    BY <1>5, <1>6

(* One less, when its handler has run to its end.                          *)
LEMMA CleanupShells ==
    ASSUME TypeOK, ShellsInv, NEW k \in Conn, NEW written \in BOOLEAN, Cleanup(k, written)
    PROVE  ShellsInv'
  <1>1. conn[k] \in Handler /\ conn[k].at = "closing" /\ conn' = [conn EXCEPT ![k] = NoConn]
    BY DEF Cleanup, At, TypeOK, NoConn
  <1>2. conn'[k].for = "none" /\ \A j \in Conn \ {k} : conn'[j] = conn[j]
    BY <1>1 DEF TypeOK, NoConn
  <1>3. CASE conn[k].for = "shell"
    <2>1. Shells' = Shells \ {k} /\ k \in Shells
      BY <1>1, <1>2, <1>3 DEF Shells
    <2>2. /\ IsFiniteSet(Shells) /\ IsFiniteSet(Shells \ {k})
          /\ Cardinality(Shells \ {k}) = Cardinality(Shells) - 1
          /\ Cardinality(Shells) \in Nat
      BY <2>1, FS_RemoveElement, FS_CardinalityType DEF ShellsInv
    <2>3. \/ audit' = [audit EXCEPT !.closed = @ + 1]
          \/ audit' = [audit EXCEPT !.lost = @ + 1]
      BY <1>3 DEF Cleanup
    <2>4. audit.opened = audit.closed + audit.lost + Cardinality(Shells)
      BY DEF ShellsInv, ShellsAudited, Shells
    <2>5. audit'.opened = audit'.closed + audit'.lost + Cardinality(Shells')
      <3>1. PICK n \in Nat : n = Cardinality(Shells)
        BY <2>2
      <3>2. Cardinality(Shells') = n - 1
        BY <2>1, <2>2, <3>1
      <3>3. audit \in [opened : Nat, closed : Nat, lost : Nat]
        BY DEF TypeOK
      <3>4. audit'.opened = audit.opened /\ audit'.closed + audit'.lost = audit.closed + audit.lost + 1
        BY <2>3, <3>3
      <3>5. audit.closed \in Nat /\ audit.lost \in Nat /\ audit.opened = audit.closed + audit.lost + n
        BY <2>4, <3>1, <3>3
      <3> QED
        BY <3>2, <3>4, <3>5
    <2> QED
      BY <2>1, <2>2, <2>5 DEF ShellsInv, ShellsAudited, Shells
  <1>4. CASE conn[k].for = "logs"
    <2>1. Shells' = Shells
      BY <1>2, <1>4 DEF Shells
    <2> QED
      BY <1>4, <2>1, ShellsKept DEF Cleanup
  <1> QED
    BY <1>1, <1>3, <1>4 DEF Handler

(* A handler on its way to listening, or stuck, is not a shell.            *)
LEMMA OtherShells ==
    ASSUME TypeOK, NEW k \in Conn,
           Connect(k) \/ Refused(k) \/ Take(k) \/ NotAudited(k)
    PROVE  Shells' = Shells /\ UNCHANGED audit
  <1>1. conn \in [Conn -> Handler \cup {NoConn}] /\ UNCHANGED audit
    BY DEF TypeOK, Connect, Refused, Take, NotAudited
  <1>2. k \notin Shells
    BY DEF Connect, Refused, Take, NotAudited, At, Shells, NoConn
  <1>3. conn'[k].at \in {"lookup", "none", "taken", "stuck"}
    <2>1. CASE Connect(k) \/ Refused(k)
      BY <1>1, <2>1 DEF Connect, Refused, NoConn
    <2>2. CASE Take(k) \/ NotAudited(k)
      <3>1. conn[k] \in Handler
        BY <1>1, <2>2 DEF Take, NotAudited, At, NoConn
      <3> QED
        BY <1>1, <2>2, <3>1 DEF Take, NotAudited, Handler
    <2> QED
      BY <2>1, <2>2
  <1>4. \A j \in Conn \ {k} : conn'[j] = conn[j]
    BY <1>1 DEF Connect, Refused, Take, NotAudited
  <1> QED
    BY <1>1, <1>2, <1>3, <1>4 DEF Shells

(* At first there are no shells.                                           *)
LEMMA ShellsInit == Init => ShellsInv
  <1> SUFFICES ASSUME Init PROVE ShellsInv
    OBVIOUS
  <1>1. Shells = {}
    BY DEF Init, NoConn, Shells
  <1>2. IsFiniteSet({}) /\ Cardinality({}) = 0
    BY FS_EmptySet
  <1>3. audit.opened = audit.closed + audit.lost + Cardinality(Shells)
    BY <1>1, <1>2 DEF Init
  <1> QED
    BY <1>1, <1>2, <1>3 DEF ShellsInv, ShellsAudited, Shells

(* Every step keeps the count of shells and entries.                       *)
LEMMA ShellsStep == ASSUME TypeOK, ShellsInv, [Next]_vars PROVE ShellsInv'
  <1>1. ConnType
    BY TypeParts
  <1>2. UNCHANGED conn => Shells' = Shells
    BY DEF Shells
  <1>3. CASE HandlerStep
    <2>1. ASSUME NEW k \in Conn, Drop(k) \/ ShellEnds(k) PROVE ShellsInv'
      BY <1>1, <2>1, ClosedShells, ShellsKept DEF Drop, ShellEnds
    <2>2. ASSUME NEW k \in Conn, Refused(k) \/ Take(k) \/ NotAudited(k) PROVE ShellsInv'
      BY <2>2, OtherShells, ShellsKept
    <2> QED
      BY <1>3, <2>1, <2>2, ListenShells, CleanupShells DEF HandlerStep
  <1>4. CASE OpenStep
    <2>1. ASSUME NEW k \in Conn, Connect(k) PROVE ShellsInv'
      BY <2>1, OtherShells, ShellsKept
    <2>2. CASE GetDeployment \/ GetLogs \/ OpenShell
      BY <1>2, <2>2, ShellsKept DEF GetDeployment, GetLogs, OpenShell
    <2> QED
      BY <1>4, <2>1, <2>2 DEF OpenStep
  <1>5. CASE Leave
    <2>1. UNCHANGED conn \/ \E k \in Conn : conn' = Closed(k)
      BY <1>5, SocketType DEF Leave, On, TypeOK, Tabs
    <2> QED
      BY <1>1, <1>2, <1>5, <2>1, Frame, ClosedShells, ShellsKept
  <1>6. CASE BuildStep \/ WizardStep \/ VarStep \/ UNCHANGED vars
    BY <1>2, <1>6, Frame, ShellsKept DEF vars
  <1> QED
    BY <1>3, <1>4, <1>5, <1>6, StepCases
-----------------------------------------------------------------------------
(* The wizard and the variable *)

(* Steps that leave the wizard, or a page it has made, as it is.           *)
LEMMA WizardKept ==
    ASSUME WizardInv, tab' = tab \/ tab'.page \notin {"wizard", "created"}
    PROVE  WizardInv'
  BY DEF WizardInv, RepoOfItsInstallation, On

(* The wizard opens, loads, is clicked through and submits.                *)
LEMMA WizardInvStep ==
    ASSUME TypeOK, WizardInv, WizardStep
    PROVE  WizardInv'
  <1>1. ASSUME NEW i \in Inst, NewApp(i) PROVE WizardInv'
    <2>1. tab' = Wizard(i)
      BY <1>1 DEF NewApp
    <2>2. PICK w : w = Wizard(i)
      OBVIOUS
    <2>3. /\ w.asked = <<i>> /\ w.inst = i /\ w.repos = None /\ w.repo = None
          /\ w.page = "wizard"
      BY <2>2 DEF Wizard
    <2>4. \A n \in 1 .. Len(w.asked) : w.asked[n] = w.inst
      <3>1. Len(<<i>>) = 1 /\ <<i>>[1] = i
        OBVIOUS
      <3> QED
        BY <2>3, <3>1
    <2> QED
      BY <2>1, <2>2, <2>3, <2>4 DEF WizardInv, RepoOfItsInstallation, On
  <1>2. ASSUME NEW i \in Inst, PickInstallation(i) PROVE WizardInv'
    <2>1. tab \in WizardPage
      BY <1>2, PageType DEF On, PickInstallation, TypeOK, Tabs
    <2>2. PICK a \in Seq(Inst), x \in BOOLEAN :
              /\ a = Append(tab.asked, i) /\ x = (tab.asked # <<>>)
              /\ tab' = [Wizard(i) EXCEPT !.asked = a, !.crossed = x]
      <3>1. Append(tab.asked, i) \in Seq(Inst) /\ (tab.asked # <<>>) \in BOOLEAN
        BY <2>1 DEF WizardPage
      <3> QED
        BY <1>2, <3>1 DEF PickInstallation
    <2>3. PICK w : w = [Wizard(i) EXCEPT !.asked = a, !.crossed = x]
      OBVIOUS
    <2>4. /\ w \in WizardPage /\ w.inst = i /\ w.repos = None /\ w.repo = None
          /\ w.asked = a /\ w.crossed = x /\ w.page = "wizard"
      BY <2>3, PickedType DEF WizardPage
    <2>5. ~x => \A n \in 1 .. Len(a) : a[n] = i
      <3> SUFFICES ASSUME ~x PROVE \A n \in 1 .. Len(a) : a[n] = i
        OBVIOUS
      <3>1. tab.asked = <<>>
        BY <2>2
      <3>2. a = <<i>>
        BY <2>2, <3>1
      <3> QED
        BY <3>2
    <2> QED
      BY <2>2, <2>3, <2>4, <2>5 DEF WizardInv, RepoOfItsInstallation, On
  <1>3. ASSUME NEW ok \in BOOLEAN, ReposArrive(ok) PROVE WizardInv'
    <2>1. tab \in WizardPage /\ tab.asked # <<>> /\ On("wizard")
      BY <1>3, PageType DEF On, ReposArrive, TypeOK, Tabs
    <2>2. PICK q \in Seq(Inst) : q = tab.asked /\ q # <<>>
      BY <2>1 DEF WizardPage
    <2>3. /\ Len(q) \in Nat /\ Len(q) >= 1 /\ Head(q) = q[1] /\ Tail(q) \in Seq(Inst)
          /\ Len(Tail(q)) = Len(q) - 1 /\ \A n \in 1 .. Len(Tail(q)) : Tail(q)[n] = q[n + 1]
      BY <2>2
    <2>4. \A n \in 1 .. Len(Tail(q)) : n + 1 \in 1 .. Len(q)
      BY <2>3
    <2>5. PICK r \in Inst \cup {None} : r = IF ok THEN q[1] ELSE tab.repos
      BY <2>1, <2>2, <2>3 DEF WizardPage
    <2>6. /\ tab'.asked = Tail(q) /\ tab'.repos = r /\ tab'.inst = tab.inst
          /\ tab'.repo = tab.repo /\ tab'.crossed = tab.crossed /\ tab'.page = "wizard"
      <3>1. tab' = [tab EXCEPT !.asked = Tail(q), !.loading = FALSE, !.repos = r]
        BY <1>3, <2>1, <2>2, <2>3, <2>5 DEF ReposArrive, WizardPage
      <3> QED
        BY <2>1, <3>1 DEF WizardPage
    <2>7. CASE tab.crossed
      BY <2>6, <2>7 DEF WizardInv, RepoOfItsInstallation, On
    <2>8. CASE ~tab.crossed
      <3>1. /\ \A n \in 1 .. Len(q) : q[n] = tab.inst
            /\ tab.repos \in {None, tab.inst} /\ tab.repo \in {None, tab.inst}
        BY <2>1, <2>2, <2>8 DEF WizardInv
      <3>2. \A n \in 1 .. Len(Tail(q)) : Tail(q)[n] = tab.inst
        BY <2>3, <2>4, <3>1
      <3>3. r \in {None, tab.inst}
        BY <2>3, <2>5, <3>1
      <3> QED
        BY <2>6, <3>1, <3>2, <3>3 DEF WizardInv, RepoOfItsInstallation, On
    <2> QED
      BY <2>7, <2>8
  <1>4. CASE PickRepo
    <2>1. tab \in WizardPage /\ On("wizard") /\ tab' = [tab EXCEPT !.repo = tab.repos]
      BY <1>4, PageType DEF On, PickRepo, TypeOK, Tabs
    <2>2. /\ tab'.asked = tab.asked /\ tab'.repos = tab.repos /\ tab'.inst = tab.inst
          /\ tab'.repo = tab.repos /\ tab'.crossed = tab.crossed /\ tab'.page = "wizard"
      BY <2>1 DEF WizardPage
    <2> QED
      BY <2>1, <2>2 DEF WizardInv, RepoOfItsInstallation, On
  <1>5. CASE Submit
    <2>1. /\ tab \in WizardPage /\ On("wizard") /\ tab.repo # None
          /\ tab' = [page |-> "created", inst |-> tab.inst, repo |-> tab.repo,
                     crossed |-> tab.crossed]
      BY <1>5, PageType DEF On, Submit, TypeOK, Tabs
    <2> QED
      BY <2>1 DEF WizardInv, RepoOfItsInstallation, On
  <1> QED
    BY <1>1, <1>2, <1>3, <1>4, <1>5 DEF WizardStep

(* Every step keeps the wizard to its installation.                        *)
LEMMA WizardNext == ASSUME TypeOK, WizardInv, [Next]_vars PROVE WizardInv'
  <1>1. CASE WizardStep
    BY <1>1, WizardInvStep
  <1>2. CASE BuildStep \/ HandlerStep \/ OpenStep \/ VarStep \/ Leave \/ UNCHANGED vars
    <2>1. tab' = tab \/ tab'.page \notin {"wizard", "created"}
      BY <1>2, NextPage DEF vars
    <2> QED
      BY <2>1, WizardKept
  <1> QED
    BY <1>1, <1>2, StepCases

(* The flag of the row is what was said when it was set last, and a list   *)
(* shows what it showed then.                                              *)
LEMMA EnvNext == ASSUME TypeOK, EnvInv, [Next]_vars PROVE EnvInv'
  <1>1. CASE VarStep
    <2>1. ASSUME NEW secret \in BOOLEAN, Upsert(secret) PROVE EnvInv'
      BY <2>1 DEF Upsert, EnvInv, ShownWasPlain, On
    <2>2. CASE DeleteVar
      BY <2>2 DEF DeleteVar, NoVar, EnvInv, ShownWasPlain, On
    <2>3. CASE ListVars
      BY <2>3 DEF ListVars, Shown, EnvInv, ShownWasPlain, On
    <2> QED
      BY <1>1, <2>1, <2>2, <2>3 DEF VarStep, SubmitVar
  <1>2. CASE BuildStep \/ HandlerStep \/ OpenStep \/ WizardStep \/ Leave \/ UNCHANGED vars
    <2>1. (tab' = tab \/ tab'.page # "env") /\ UNCHANGED env
      BY <1>2, NextPage, Frame DEF vars
    <2> QED
      BY <2>1 DEF EnvInv, ShownWasPlain, On
  <1> QED
    BY <1>1, <1>2, StepCases

-----------------------------------------------------------------------------
(* Theorems *)

(* The invariant holds throughout.                                         *)
THEOREM ConsoleInvariant == Spec => []IndInv
  <1>1. Init => IndInv
    <2> SUFFICES ASSUME Init PROVE IndInv
      OBVIOUS
    <2>1. WizardInv /\ EnvInv
      BY DEF Init, Nowhere, NoVar, WizardInv, EnvInv, RepoOfItsInstallation, ShownWasPlain, On
    <2> QED
      BY <2>1, TypeInit, LinesInit, ShellsInit DEF IndInv
  <1>2. IndInv /\ [Next]_vars => IndInv'
    BY TypeStep, LinesStep, ShellsStep, WizardNext, EnvNext DEF IndInv
  <1> QED
    BY <1>1, <1>2, PTL DEF Spec

(* Every variable keeps its type, no chunk is ahead of itself, and a       *)
(* handler that cleans up has lost its socket.                             *)
THEOREM TypeCorrect == Spec => []TypeOK
  BY ConsoleInvariant, PTL DEF IndInv

(* However the table, the publishing and the socket of a page overlap, it  *)
(* shows each chunk in order and at most one line of it twice.             *)
THEOREM PagesAlwaysInOrder == Spec => []PagesInOrder
  <1>1. IndInv => PagesInOrder
    <2> SUFFICES ASSUME IndInv, On("logs") PROVE PagesInOrder
      BY DEF PagesInOrder
    <2>1. InOrder(tab.lines) /\ OnceAgain(tab.lines)
      BY DEF IndInv, LinesInv, PageInOrder
    <2> QED
      BY <2>1 DEF PagesInOrder, InOrder, OnceAgain, Again
  <1> QED
    BY <1>1, ConsoleInvariant, PTL

(* The audit log accounts for every shell, whoever ends it and however     *)
(* many sockets are cut at once.                                           *)
THEOREM ShellsAlwaysAudited == Spec => []ShellsAudited
  <1>1. IndInv => ShellsAudited
    BY DEF IndInv, ShellsInv
  <1> QED
    BY <1>1, ConsoleInvariant, PTL

(* An application is created with a repository of its installation unless  *)
(* two lists were asked for at once.                                       *)
THEOREM RepoAlwaysOfItsInstallation == Spec => []RepoOfItsInstallation
  <1>1. IndInv => RepoOfItsInstallation
    BY DEF IndInv, WizardInv
  <1> QED
    BY <1>1, ConsoleInvariant, PTL

(* What is shown was said to be plain when it was last set.                *)
THEOREM ShownAlwaysPlain == Spec => []ShownWasPlain
  <1>1. IndInv => ShownWasPlain
    BY DEF IndInv, EnvInv
  <1> QED
    BY <1>1, ConsoleInvariant, PTL
=============================================================================
