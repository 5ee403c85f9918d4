---------------------------- MODULE WorkflowEditor ----------------------------
(* The versions of one workflow, written by the members of its workspace:     *)
(* the API's createVersion and restoreVersion (api/src/modules/workflows) and *)
(* the detail page of one user's browser (web/src/features/workflows,         *)
(* web/src/features/workflow-canvas), with the version it has fetched, the    *)
(* draft it edits and the requests it has under way.  Other users write       *)
(* through the API.                                                           *)
EXTENDS WebSession, WorkflowDefinition

CONSTANTS Editor,       \* the user at the browser
          FirstVersions \* definitions the workflow may have been created with

ASSUME EditorAssumption == Editor \in Users /\ FirstVersions \subseteq ValidDefinitions

VARIABLES history,  \* the stored versions: definition, and who stored it
          write,    \* per user: its version request under way
          page      \* the browser's page

vars == <<members, budget, sessionVars, history, write, page>>

Versions == [def : Definitions, by : Users]

NoWrite == [pc |-> "idle", op |-> "none", def |-> [nodes |-> {}, edges |-> {}],
            from |-> 0, seen |-> 0, got |-> 0]

Writes == [pc : {"idle", "read", "insert", "answered"}, op : {"none", "create", "restore"},
           def : Definitions, from : Nat, seen : Nat, got : Nat]

\* The page right after it has loaded version `v'.
Loaded(v, role) == [pc |-> "idle", editing |-> FALSE, fetched |-> v, base |-> v,
                    draft |-> history[v].def, role |-> role]

\* WorkflowsService.create stores version 1.
Init ==
  /\ MembersInit /\ SessionInit
  /\ \E d \in FirstVersions : history = <<[def |-> d, by |-> Owner]>>
  /\ write = [u \in Users |-> NoWrite]
  /\ page = Loaded(1, member[Editor].role)

--------------------------------------------------------------------------------
(* The API *)

\* A request for a new version passes the guard and the validation pipe, or is
\* answered with an error: 0 stands for every answer that is not a version.
post(u, op, d, from) ==
  /\ write[u].pc = "idle"
  /\ Spend("writes")
  /\ write' = [write EXCEPT ![u] =
       IF canActivate(u, WriteRoutes) /\ (op = "create" => workflowDefinitionSchema(d))
       THEN [NoWrite EXCEPT !.pc = "read", !.op = op, !.def = d, !.from = from]
       ELSE [NoWrite EXCEPT !.pc = "answered"]]
  /\ UNCHANGED <<members, history>>

\* The workflow with its latest version, and the version to restore, are read.
findCurrent(u) ==
  /\ write[u].pc = "read"
  /\ write' = [write EXCEPT ![u].pc = "insert", ![u].seen = Len(history),
                 ![u].def = IF write[u].op = "restore"
                            THEN history[write[u].from].def ELSE @]
  /\ UNCHANGED <<members, budget, history, page>>

\* Mutant: the new version is upserted under its number.
insertVersion_Upserts(u) ==
  LET n == write[u].seen + 1  v == [def |-> write[u].def, by |-> u]
  IN  /\ write[u].pc = "insert"
      /\ history' = IF n \in DOMAIN history THEN [history EXCEPT ![n] = v]
                    ELSE Append(history, v)
      /\ write' = [write EXCEPT ![u].pc = "answered", ![u].got = n]
      /\ UNCHANGED <<members, budget, page>>

\* The version after the one read is inserted; its number is unique per
\* workflow, so the later of two writers gets an error.
insertVersion(u) ==
  LET n == write[u].seen + 1
  IN  /\ write[u].pc = "insert"
      /\ \/ /\ n \notin DOMAIN history
            /\ history' = Append(history, [def |-> write[u].def, by |-> u])
            /\ write' = [write EXCEPT ![u].pc = "answered", ![u].got = n]
         \/ /\ n \in DOMAIN history
            /\ history' = history
            /\ write' = [write EXCEPT ![u].pc = "answered"]
      /\ UNCHANGED <<members, budget, page>>

\* A user without a page takes its answer.
answer(u) ==
  /\ u # Editor
  /\ write[u].pc = "answered"
  /\ write' = [write EXCEPT ![u] = NoWrite]
  /\ UNCHANGED <<members, budget, history, page>>

--------------------------------------------------------------------------------
(* The page *)

activeDefinition == IF page.editing THEN page.draft ELSE history[page.fetched].def

hasDraftChanges == page.editing /\ page.draft # history[page.fetched].def

\* The page runs: it is not stuck in its layout, and it has its workflow.
Usable == page.pc # "lost" /\ ~ Hangs(activeDefinition)

\* The user's own role as it was when the page was loaded.
canEditWorkflow == page.role \in WriteRoutes

Unchanged == UNCHANGED <<members, history>>

\* setIsEditing and openNodeEditor.
startEditing ==
  /\ Usable /\ ~ page.editing /\ canEditWorkflow
  /\ page' = [page EXCEPT !.editing = TRUE]
  /\ UNCHANGED <<budget, write>> /\ Unchanged

Draft(d) ==
  /\ Usable /\ page.editing
  /\ d # page.draft
  /\ Spend("edits")
  /\ page' = [page EXCEPT !.draft = d]
  /\ UNCHANGED write /\ Unchanged

addNode ==
  \E n \in NodeIds \ page.draft.nodes :
    Draft([page.draft EXCEPT !.nodes = @ \cup {n}])

WithoutNodes(ns) ==
  [nodes |-> page.draft.nodes \ ns,
   edges |-> {e \in page.draft.edges : {e[1], e[2]} \cap ns = {}}]

deleteNode == \E n \in page.draft.nodes : Draft(WithoutNodes({n}))

\* The canvas removes what is selected: nodes, or edges.
handleNodesChange == \E ns \in SUBSET page.draft.nodes : Draft(WithoutNodes(ns))

handleEdgesChange ==
  \E es \in SUBSET page.draft.edges : Draft([page.draft EXCEPT !.edges = @ \ es])

\* Drawing a connection checks nothing but its ends; a trigger shows no
\* handle to connect to.
handleConnect ==
  \E n \in page.draft.nodes, m \in page.draft.nodes \ Triggers :
    n # m /\ Draft([page.draft EXCEPT !.edges = @ \cup {<<n, m>>}])

deleteEdge ==
  \E e \in page.draft.edges : Draft([page.draft EXCEPT !.edges = @ \ {e}])

validateEdgeDraft(d, n, m, ignored) ==
  /\ n # m
  /\ n \in d.nodes /\ m \in d.nodes \ Triggers
  /\ <<n, m>> \notin d.edges \ {ignored}
  /\ workflowDefinitionSchema([d EXCEPT !.edges = (@ \ {ignored}) \cup {<<n, m>>}])

updateSelectedEdge ==
  \E e \in page.draft.edges, n, m \in page.draft.nodes :
    /\ validateEdgeDraft(page.draft, n, m, e)
    /\ Draft([page.draft EXCEPT !.edges = (@ \ {e}) \cup {<<n, m>>}])

\* Mutant: the pending mutation does not disable the button.
saveDefinition_NotPending ==
  /\ Usable /\ hasDraftChanges /\ page.pc = "idle"
  /\ workflowDefinitionSchema(page.draft)
  /\ post(Editor, "create", page.draft, 0)
  /\ UNCHANGED page

\* The draft is validated, then sent; an invalid one only shows its issues.
saveDefinition ==
  /\ Usable /\ hasDraftChanges /\ page.pc = "idle"
  /\ workflowDefinitionSchema(page.draft)
  /\ post(Editor, "create", page.draft, 0)
  /\ page' = [page EXCEPT !.pc = "sent"]

\* The preview of an older version offers to restore it, editing or not.
restoreVersion ==
  \E v \in 1 .. page.fetched - 1 :
    /\ Usable /\ page.pc = "idle"
    /\ post(Editor, "restore", NoWrite.def, v)
    /\ page' = [page EXCEPT !.pc = "sent"]

\* The error is shown and the draft kept.
saveFails ==
  /\ Usable /\ page.pc = "sent"
  /\ write[Editor].pc = "answered" /\ write[Editor].got = 0
  /\ page' = [page EXCEPT !.pc = "idle"]
  /\ write' = [write EXCEPT ![Editor] = NoWrite]
  /\ UNCHANGED budget /\ Unchanged

\* Mutant: the effect that resets the draft is not run when the version changes.
Fetched_KeepsDraft(p) == [p EXCEPT !.fetched = Len(history)]

\* A refetch of the workflow is answered: when the version has changed, an
\* effect replaces the draft, whatever was in it.
Fetched(p) ==
  IF Len(history) = p.fetched THEN p
  ELSE [p EXCEPT !.fetched = Len(history), !.base = Len(history),
                 !.draft = history[Len(history)].def]

Saved == /\ Usable /\ page.pc = "sent"
         /\ write[Editor].pc = "answered" /\ write[Editor].got # 0

\* onSuccess invalidates the queries and waits for them: the workflow is
\* fetched again, and the page is lost to a user who has been removed.
refetch ==
  /\ Saved
  /\ page' = IF canActivate(Editor, ReadRoutes)
             THEN [Fetched(page) EXCEPT !.pc = "settle"]
             ELSE [page EXCEPT !.pc = "lost"]
  /\ UNCHANGED <<budget, write>> /\ Unchanged

\* ... and once the other queries are back too, it puts the definition of
\* the answer into the draft and leaves the editor.
onSuccess ==
  LET got == write[Editor].got
  IN  /\ page.pc = "settle" /\ Usable
      /\ page' = [page EXCEPT !.pc = "idle", !.editing = FALSE,
                              !.base = got, !.draft = history[got].def]
      /\ write' = [write EXCEPT ![Editor] = NoWrite]
      /\ UNCHANGED budget /\ Unchanged

\* When the workflow is the last query to come back, the effect of the same
\* render has the last word.
onSuccessThenEffect ==
  /\ Saved /\ canActivate(Editor, ReadRoutes)
  /\ page' = [Fetched(page) EXCEPT !.pc = "idle", !.editing = FALSE]
  /\ write' = [write EXCEPT ![Editor] = NoWrite]
  /\ UNCHANGED budget /\ Unchanged

discardDraft ==
  /\ Usable /\ page.editing
  /\ page' = [page EXCEPT !.editing = FALSE, !.base = page.fetched,
                          !.draft = history[page.fetched].def]
  /\ UNCHANGED <<budget, write>> /\ Unchanged

\* Name, slug, description or status (which are not modelled) is stored, by a
\* writer.
updateMetadata(u) == canActivate(u, WriteRoutes) /\ UNCHANGED history

\* The metadata is saved and the workflow fetched again.
saveMetadata ==
  /\ Usable /\ page.editing
  /\ Spend("writes")
  /\ updateMetadata(Editor)
  /\ page' = Fetched(page)
  /\ UNCHANGED write /\ Unchanged

\* The run button leaves the page, and its draft; the page opens again later
\* with the version it had cached or a fresh one.
runWorkflow ==
  /\ Usable /\ page.pc = "idle" /\ canEditWorkflow
  /\ Spend("writes")
  /\ canActivate(Editor, WriteRoutes)
  /\ page' \in {Loaded(v, page.role) : v \in {page.fetched, Len(history)}}
  /\ UNCHANGED write /\ Unchanged

--------------------------------------------------------------------------------
ApiNext ==
  \E u \in Users :
    \/ /\ u # Editor
       /\ \/ \E d \in ValidDefinitions : post(u, "create", d, 0)
          \/ \E v \in 1 .. Len(history) : post(u, "restore", NoWrite.def, v)
       /\ UNCHANGED page
    \/ findCurrent(u)
    \/ insertVersion(u)
    \/ answer(u)

PageNext ==
  \/ startEditing \/ addNode \/ deleteNode \/ handleNodesChange \/ handleEdgesChange
  \/ handleConnect \/ deleteEdge
  \/ updateSelectedEdge \/ saveDefinition \/ restoreVersion \/ saveFails
  \/ refetch \/ onSuccess \/ onSuccessThenEffect \/ discardDraft
  \/ saveMetadata \/ runWorkflow

Next ==
  \/ MembersNext /\ UNCHANGED <<sessionVars, history, write, page>>
  \/ SessionNext /\ UNCHANGED <<history, write, page>>
  \/ (ApiNext \/ PageNext) /\ UNCHANGED sessionVars

Spec == Init /\ [][Next]_vars

--------------------------------------------------------------------------------
TypeOK ==
  /\ MembersTypeOK /\ SessionTypeOK
  /\ history \in Seq(Versions) /\ history # <<>>
  /\ write \in [Users -> Writes]
  /\ page \in [pc : {"idle", "sent", "settle", "lost"}, editing : BOOLEAN,
               fetched : DOMAIN history, base : DOMAIN history, draft : Definitions,
               role : WorkspaceRole \cup {NoRole}]
  /\ page.pc = "idle" => write[Editor] = NoWrite

\* Every version the API has stored can be executed and shown: the worker's
\* orderWorkflowNodes finds an order of all its nodes in which each comes after
\* its inputs, and the canvas's getNodeLevels ends.  Both rely on what the
\* schema of the contracts package checked at the time, and a restored version
\* is not checked again.
StoredVersionsRun ==
  \A v \in DOMAIN history :
    LET d == history[v].def
    IN  InOrder(d, orderWorkflowNodes(d)) /\ ~ Hangs(d)

\* Versions are immutable ("saved as a new immutable version",
\* workflows.controller.ts): however the writers overlap, a stored version
\* keeps its definition, and an execution pinned to it the graph it started
\* with.
VersionsKept ==
  [][/\ Len(history) <= Len(history')
     /\ \A v \in DOMAIN history : history'[v] = history[v]]_vars

\* The draft was taken from the version the page shows, so what the page calls
\* unsaved changes are the user's own.  It lags behind only when another user
\* stored a version while the page's own save was being answered: onSuccess
\* then puts the answer's definition over the newer one (and the next edit
\* starts from it).
DraftBelongsToShown ==
  page.base # page.fetched =>
    /\ page.base < page.fetched
    /\ history[page.base].by = Editor
    /\ \E v \in page.base + 1 .. page.fetched : history[v].by # Editor
================================================================================
