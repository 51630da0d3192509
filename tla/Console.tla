------------------------------ MODULE Console ------------------------------
(***************************************************************************)
(* Pages of the dashboard that stay open while something changes behind    *)
(* them: the output of a deployment, the shell of an application, the      *)
(* wizard that creates one, and the environment variables.                 *)
(*                                                                         *)
(* One browser tab, the websockets pm-api serves to it (a handler goes on  *)
(* when the tab is gone), and one build that writes its output.  A step is *)
(* what a handler or a page does between two awaits.                       *)
(***************************************************************************)
EXTENDS Naturals, Sequences, FiniteSets

CONSTANTS
    Conn,       \* websocket handlers of pm-api
    Inst,       \* installations of the GitHub App; a repository is named
                \* by the one it belongs to
    None,       \* no handler, no installation
    Size,       \* bound: the lines of each chunk of output
    MaxShells   \* bound on shells opened

ASSUME BoundsAssumption == Size \in Seq(Nat) /\ MaxShells \in Nat
ASSUME NoneAssumption == None \notin Conn \cup Inst

VARIABLES
    building,   \* the status of the deployment is not terminal
    arrived,    \* chunks of output that have arrived, in this order
    chunk,      \* how many lines of each were inserted and published
    logs,       \* deployment_logs of the deployment, by ts
    conn,       \* the handlers under way
    audit,      \* audit_log: shells opened, closed, and closings not written
    env,        \* the row of one variable; said is what was asked last
    tab         \* the page the tab is on

vars == <<building, arrived, chunk, logs, conn, audit, env, tab>>
build == <<building, arrived, chunk, logs>>

-----------------------------------------------------------------------------

Chunks == Len(Size)
Line == UNION {{c} \X (1 .. Size[c]) : c \in 1 .. Chunks}

Handler == [for : {"logs", "shell"}, open : BOOLEAN,
            at : {"lookup", "taken", "on", "closing", "stuck"}]
NoConn == [for |-> "none", at |-> "none", open |-> FALSE]

NoVar == [set |-> FALSE, secret |-> FALSE, said |-> FALSE]

Nowhere == [page |-> "none"]
LogsPage == [page : {"logs"}, read : BOOLEAN, final : BOOLEAN, lines : Seq(Line),
             conn : Conn \cup {None}]
ShellPage == [page : {"shell"}, conn : Conn \cup {None}]
WizardPage == [page : {"wizard"}, inst : Inst, repos : Inst \cup {None}, repo : Inst \cup {None},
               asked : Seq(Inst), loading : BOOLEAN, crossed : BOOLEAN]
CreatedPage == [page : {"created"}, inst : Inst, repo : Inst, crossed : BOOLEAN]
EnvPage == [page : {"env"}, shown : BOOLEAN, said : BOOLEAN]

On(p) == tab.page = p
At(k, step) == conn[k].at = step

Init ==
    /\ building = TRUE
    /\ arrived = 0
    /\ chunk = [c \in 1 .. Chunks |-> [inserted |-> 0, published |-> 0]]
    /\ logs = <<>>
    /\ conn = [k \in Conn |-> NoConn]
    /\ audit = [opened |-> 0, closed |-> 0, lost |-> 0]
    /\ env = NoVar
    /\ tab = Nowhere

-----------------------------------------------------------------------------
(* A child of the deploy job and its output                                *)

ChunkArrives ==
    /\ building /\ arrived < Chunks
    /\ arrived' = arrived + 1
    /\ UNCHANGED <<building, chunk, logs, conn, audit, env, tab>>

(* Mutant: one line more than the chunk has. *)
OneLineMore(c) == chunk[c].inserted = chunk[c].published /\ chunk[c].inserted <= Size[c]
(* Mutant: a line is inserted while the one before is still being published. *)
InsertNotWaiting(c) == chunk[c].inserted < Size[c]

(* The handler of a chunk awaits the insert and the publish of a line. *)
NextLine(c) == chunk[c].inserted = chunk[c].published /\ chunk[c].inserted < Size[c]

(* The handlers of two chunks run side by side; failures are swallowed. *)
InsertLine(c, done) ==
    /\ c <= arrived /\ NextLine(c)
    /\ chunk' = [chunk EXCEPT ![c].inserted = @ + 1]
    /\ logs' = IF done THEN Append(logs, <<c, chunk[c].inserted + 1>>) ELSE logs
    /\ UNCHANGED <<building, arrived, conn, audit, env, tab>>

(* The handler of the page's socket passes the message on. *)
Hears == On("logs") /\ tab.conn # None /\ At(tab.conn, "on") /\ conn[tab.conn].open

PublishLine(c, done) ==
    /\ chunk[c].published < chunk[c].inserted
    /\ chunk' = [chunk EXCEPT ![c].published = @ + 1]
    /\ tab' = IF done /\ Hears
              THEN [tab EXCEPT !.lines = Append(@, <<c, chunk[c].published + 1>>)] ELSE tab
    /\ UNCHANGED <<building, arrived, logs, conn, audit, env>>

(* "exit" does not wait for the handlers of the chunks. *)
Exit ==
    /\ building
    /\ building' = FALSE
    /\ UNCHANGED <<arrived, chunk, logs, conn, audit, env, tab>>

-----------------------------------------------------------------------------
(* The page of a deployment, rendered with its status and its lines        *)

GetDeployment ==
    /\ On("none")
    /\ tab' = [page |-> "logs", read |-> FALSE, final |-> ~building, lines |-> <<>>,
               conn |-> None]
    /\ UNCHANGED <<build, conn, audit, env>>

GetLogs ==
    /\ On("logs") /\ ~tab.read
    /\ tab' = [tab EXCEPT !.read = TRUE, !.lines = logs]
    /\ UNCHANGED <<build, conn, audit, env>>

OpenShell ==
    /\ On("none") /\ audit.opened < MaxShells
    /\ tab' = [page |-> "shell", conn |-> None]
    /\ UNCHANGED <<build, conn, audit, env>>

(* A page opens its socket once: a deployment's unless it has ended. *)
Connect(k) ==
    /\ conn[k] = NoConn
    /\ \/ On("shell")
       \/ On("logs") /\ tab.read /\ ~tab.final
    /\ tab.conn = None
    /\ conn' = [conn EXCEPT ![k] = [for |-> tab.page, at |-> "lookup", open |-> TRUE]]
    /\ tab' = [tab EXCEPT !.conn = k]
    /\ UNCHANGED <<build, audit, env>>

-----------------------------------------------------------------------------
(* A websocket handler: looks things up, takes what it needs (a Redis      *)
(* connection that subscribes, an exec that starts), then listens.         *)

(* No session, no application, no container, or the exec fails. *)
Refused(k) ==
    /\ At(k, "lookup")
    /\ conn' = [conn EXCEPT ![k] = NoConn]
    /\ UNCHANGED <<build, audit, env, tab>>

Take(k) ==
    /\ At(k, "lookup")
    /\ conn' = [conn EXCEPT ![k].at = "taken"]
    /\ UNCHANGED <<build, audit, env, tab>>

(* From here on "close" is heard: one that came before is not. *)
Listen(k) ==
    /\ At(k, "taken")
    /\ conn' = [conn EXCEPT ![k].at = "on"]
    /\ audit' = IF conn[k].for = "shell" THEN [audit EXCEPT !.opened = @ + 1] ELSE audit
    /\ UNCHANGED <<build, env, tab>>

(* shell.open cannot be written: the handler throws, its exec goes on. *)
NotAudited(k) ==
    /\ At(k, "taken") /\ conn[k].for = "shell"
    /\ conn' = [conn EXCEPT ![k].at = "stuck", ![k].open = FALSE]
    /\ UNCHANGED <<build, audit, env, tab>>

Closed(k) == [conn EXCEPT ![k].open = FALSE,
                          ![k].at = IF @ = "on" /\ conn[k].open THEN "closing" ELSE @]

(* The connection is cut; the page stays and does not open another. *)
Drop(k) ==
    /\ conn[k].open
    /\ conn' = Closed(k)
    /\ UNCHANGED <<build, audit, env, tab>>

(* Mutant: the end of the shell writes the entry, and so does the close. *)
EndWritesToo(k) ==
    /\ At(k, "on") /\ conn[k].for = "shell" /\ conn[k].open
    /\ conn' = Closed(k)
    /\ audit' = [audit EXCEPT !.closed = @ + 1]
    /\ UNCHANGED <<build, env, tab>>

(* The shell exits: its stream ends, and the socket is closed. *)
ShellEnds(k) ==
    /\ At(k, "on") /\ conn[k].for = "shell" /\ conn[k].open
    /\ conn' = Closed(k)
    /\ UNCHANGED <<build, audit, env, tab>>

Cleanup(k, written) ==
    /\ At(k, "closing")
    /\ conn' = [conn EXCEPT ![k] = NoConn]
    /\ audit' = IF conn[k].for = "logs" THEN audit
                ELSE IF written THEN [audit EXCEPT !.closed = @ + 1]
                ELSE [audit EXCEPT !.lost = @ + 1]
    /\ UNCHANGED <<build, env, tab>>

-----------------------------------------------------------------------------
(* The wizard: an installation, one of its repositories, an application    *)

Wizard(i) == [page |-> "wizard", inst |-> i, repos |-> None, repo |-> None, asked |-> <<i>>,
              loading |-> TRUE, crossed |-> FALSE]

(* It opens on the first installation and loads its repositories. *)
NewApp(i) ==
    /\ On("none")
    /\ tab' = Wizard(i)
    /\ UNCHANGED <<build, conn, audit, env>>

(* Mutant: the repository of the installation before stays selected. *)
PickKeepsRepo(i) ==
    /\ On("wizard") /\ Len(tab.asked) < 2
    /\ tab' = [Wizard(i) EXCEPT !.asked = Append(tab.asked, i), !.crossed = tab.asked # <<>>,
                                !.repo = tab.repo]
    /\ UNCHANGED <<build, conn, audit, env>>

(* Bound: two lists are asked for at once. *)
PickInstallation(i) ==
    /\ On("wizard") /\ Len(tab.asked) < 2
    /\ tab' = [Wizard(i) EXCEPT !.asked = Append(tab.asked, i), !.crossed = tab.asked # <<>>]
    /\ UNCHANGED <<build, conn, audit, env>>

(* Answers come in the order they were asked for, as server actions of a   *)
(* page run; whichever comes is shown, or leaves the list as it was.       *)
ReposArrive(ok) ==
    /\ On("wizard") /\ tab.asked # <<>>
    /\ tab' = [tab EXCEPT !.asked = Tail(@), !.loading = FALSE,
                          !.repos = IF ok THEN Head(tab.asked) ELSE @]
    /\ UNCHANGED <<build, conn, audit, env>>

PickRepo ==
    /\ On("wizard") /\ ~tab.loading /\ tab.repos # None
    /\ tab' = [tab EXCEPT !.repo = tab.repos]
    /\ UNCHANGED <<build, conn, audit, env>>

(* The installation and the repository go to POST /api/apps as they are. *)
Submit ==
    /\ On("wizard") /\ tab.repo # None
    /\ tab' = [page |-> "created", inst |-> tab.inst, repo |-> tab.repo,
               crossed |-> tab.crossed]
    /\ UNCHANGED <<build, conn, audit, env>>

-----------------------------------------------------------------------------
(* One environment variable, set and deleted by any operator, and its page *)

(* Mutant: the update of a row that is there leaves is_secret alone. *)
UpsertKeepsFlag(secret) ==
    /\ env' = [set |-> TRUE, secret |-> IF env.set THEN env.secret ELSE secret,
               said |-> secret]
    /\ UNCHANGED <<build, conn, audit, tab>>

Upsert(secret) ==
    /\ env' = [set |-> TRUE, secret |-> secret, said |-> secret]
    /\ UNCHANGED <<build, conn, audit, tab>>

DeleteVar ==
    /\ env' = NoVar
    /\ UNCHANGED <<build, conn, audit, tab>>

(* The form and its switch: plain or secret. *)
SubmitVar == \E secret \in BOOLEAN : Upsert(secret)

(* listForUi decrypts what is not secret, and the table shows it. *)
Shown == env.set /\ ~env.secret

(* Rendered again after each submission of the tab's own. *)
ListVars ==
    /\ On("none") \/ On("env")
    /\ tab' = [page |-> "env", shown |-> Shown, said |-> env.said]
    /\ UNCHANGED <<build, conn, audit, env>>

-----------------------------------------------------------------------------

(* The tab goes elsewhere: the socket of its page is closed. *)
Leave ==
    /\ ~On("none")
    /\ tab' = Nowhere
    /\ conn' = IF (On("logs") \/ On("shell")) /\ tab.conn # None THEN Closed(tab.conn)
               ELSE conn
    /\ UNCHANGED <<build, audit, env>>

Next ==
    \/ ChunkArrives \/ Exit
    \/ \E c \in 1 .. Chunks, done \in BOOLEAN : InsertLine(c, done) \/ PublishLine(c, done)
    \/ GetDeployment \/ GetLogs \/ OpenShell
    \/ \E k \in Conn :
        \/ Connect(k) \/ Refused(k) \/ Take(k) \/ Listen(k) \/ NotAudited(k)
        \/ Drop(k) \/ ShellEnds(k)
        \/ \E written \in BOOLEAN : Cleanup(k, written)
    \/ \E i \in Inst : NewApp(i) \/ PickInstallation(i)
    \/ \E ok \in BOOLEAN : ReposArrive(ok)
    \/ PickRepo \/ Submit
    \/ SubmitVar \/ DeleteVar \/ ListVars
    \/ Leave

Spec == Init /\ [][Next]_vars

-----------------------------------------------------------------------------
(* Properties *)

(* Types; a chunk is never ahead of itself, and a handler that is about to  *)
(* clean up has lost its socket.                                           *)
TypeOK ==
    /\ building \in BOOLEAN /\ arrived \in 0 .. Chunks
    /\ chunk \in [1 .. Chunks -> [inserted : Nat, published : Nat]]
    /\ logs \in Seq(Line)
    /\ conn \in [Conn -> Handler \cup {NoConn}]
    /\ audit \in [opened : Nat, closed : Nat, lost : Nat]
    /\ env \in [set : BOOLEAN, secret : BOOLEAN, said : BOOLEAN]
    /\ tab \in {Nowhere} \cup LogsPage \cup ShellPage \cup WizardPage \cup CreatedPage
                 \cup EnvPage
    /\ \A c \in 1 .. Chunks : chunk[c].published <= chunk[c].inserted /\ chunk[c].inserted <= Size[c]
    /\ \A k \in Conn : At(k, "closing") => ~conn[k].open

(* Of one chunk the page shows the lines in their order, though the table   *)
(* and the socket overlap, and at most one of them twice: the one that was  *)
(* read and not yet published (deploy.ts:125, ws-logs.ts:19).              *)
PagesInOrder ==
    On("logs") =>
        LET l == tab.lines
            again == {i \in 2 .. Len(l) : \E j \in 1 .. (i - 1) : l[j] = l[i]} IN
        /\ \A i, j \in 1 .. Len(l) : i < j /\ l[i][1] = l[j][1] => l[i][2] <= l[j][2]
        /\ \A i, j \in again : l[i][1] = l[j][1] => i = j

(* Every shell that was opened has been closed in the audit log, is         *)
(* listening, or its closing could not be written; never is one closed      *)
(* twice, whoever ends it (ws-shell.ts:70).                                *)
ShellsAudited ==
    audit.opened = audit.closed + audit.lost
        + Cardinality({k \in Conn : conn[k].for = "shell" /\ conn[k].at \in {"on", "closing"}})

(* The wizard creates an application with a repository of its installation, *)
(* except when two lists were asked for at once (new-app-wizard.tsx:40).    *)
RepoOfItsInstallation == On("created") /\ ~tab.crossed => tab.repo = tab.inst

(* A value is shown only if, when it was last set, it was said not to be    *)
(* secret (env-vars.ts:16, :24).                                           *)
ShownWasPlain == On("env") /\ tab.shown => ~tab.said
=============================================================================
