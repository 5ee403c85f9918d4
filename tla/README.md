# A TLA+ verification of vigil-summit-agent

vigil-summit-agent registers leads for a security event, enriches and qualifies
them, and mails them along a pre-event and a post-event cadence that is drafted
by an agent and held in check by a deterministic policy. It grew out of a
workflow engine, which it still contains: workflows are edited in the browser,
versioned by the API and executed by a worker that talks to an AI orchestrator.
This directory models the parts of it that are hard to test, checks them with
TLC and proves their main results with TLAPS.

* [Inventory](#inventory)
* [Modules and how they correspond to the code](#modules-and-how-they-correspond-to-the-code)
* [Runs](#runs)
* [Proofs](#proofs)
* [What the checks found](#what-the-checks-found)
* [Not modelled](#not-modelled)
* [Plan](#plan)

## Inventory

Paths are relative to the repository's root. `PROJECT.json` lists the same
components with their status, and the hazards with the lines where they bite.

| Component | State | Operations | What is hard | What makes it correct |
|---|---|---|---|---|
| Scheduled-action dispatcher (`apps/execution-worker/src/engagement/scheduled-action-dispatcher.ts`, `email-provider.ts`) | `ScheduledAction`, `Message`, `PublicActionToken`, `Conversation` rows; the local variables of the passes | a pass every five seconds and per replica: fetch a batch, claim, decide, draft, send, record, retry | passes overlap; leases run out; the worker stops between two writes; the provider's answer is lost; rows are settled by id alone | exclusive claims, one message per step, every action ends |
| Communication policy (`communication-policy.ts`) | none | one pure function | its input is read in several queries at several moments | nobody who opted out is mailed; limits and quiet hours hold |
| Engagement API (`apps/api/src/modules/engagement/engagement.service.ts`, `cadence-schedule.ts`) | `Registration.status`, `ConsentRecord`, `Suppression`, `Meeting`, `CadenceEnrollment`, and all the rows above | operators, leads (replies, links) and the mail provider (webhooks) change them | most operations read first and commit later, without a lock, while passes are under way | opt-outs and deletions are final, a stopped cadence stays stopped |
| Event registration (`apps/api/src/modules/events/`) | `Event`, `Registration`, `Lead`, `ConsentRecord` | register in a serializable transaction with three attempts; publish, transition and edit the event; change a registration's status | the last seat; serialization conflicts; writers that are not serializable | capacity is kept, one registration per lead, refusals only under contention |
| Lead enrichment (`apps/execution-worker/src/enrichment/`) | `EnrichmentSnapshot`, `LeadQualification`, enrolment, retry queues, dead letters | a consumer of commands with retries | redelivered and concurrent commands; withdrawal and deletion while a delivery is processed | the command is not lost, results stay, consent and deletion are respected |
| Lead qualification (`qualification/qualification-policy.ts`) | none | a pure scoring rule | branches that hide one another's points | a better lead never scores lower |
| Workflow execution (`apps/execution-worker/src/index.ts`) | `WorkflowExecution`, node executions, AI traces | deliveries, node runs, retries, failure, dead letters | redelivery in the middle of a run, concurrent deliveries, one of several writes fails | started once, ended once, every request ends |
| Outbox (same file) | `OutboxMessage` | persist with the state change, publish at once, poll, give up, flush before the end | a crash between publish and mark, overlapping publishers, stale copies of a row | published at least once or visibly failed |
| Workflow nodes and AI orchestrator (`ai-orchestrator-client.ts`, `nodes/`, `apps/ai-orchestrator/`) | none | run a node; select a provider; fetch a credential; classify errors | an error crosses three processes and is classified in each | what cannot succeed is not retried |
| Workflow definitions (`packages/contracts/src/workflow-definition.ts`) | none | validate, order the nodes, lay them out | cycles, unreachable nodes; three pieces of code that must agree | what is accepted can be executed and shown |
| Workflow API (`apps/api/src/modules/workflows/`) | `Workflow`, `WorkflowVersion`, `WorkflowExecution` | create and restore versions, request executions, summaries | concurrent versions; a request without an outbox row; a summary of two reads | versions are immutable; an execution that is shown as ended has ended |
| Messaging (`apps/api/src/modules/messaging/`), workflow service (`apps/workflow-service`) | exchanges, queues; the timeline | declare, route, publish; store an event once | publishes that are lost, events that come twice | an execution's end reaches the timeline |
| Workspaces (`apps/api/src/modules/workspaces/`, `auth/guards/`) | `WorkspaceMember` | add, change, remove members behind a roles guard | four round trips, nothing that orders them with another request's | one owner; admins are managed by the owner |
| Accounts and browser session (`apps/api/src/modules/auth/`, `apps/web/src/features/auth/`, `shared/api/http.ts`) | `User`; the stored token, the tab's token, the query cache | register, log in, sign out, expire | late answers of an earlier session; several tabs; two registrations of one invitation | nobody is shown another user's data; passwords are kept |
| Workflow editor (`apps/web/src/features/workflows/`, `workflow-canvas/`) | the page's draft and query | edit the graph, save, restore, refetch | the draft against a query that is refetched and writers elsewhere | what is called unsaved is the user's own |
| Execution page (`apps/web/src/features/executions/`) | what is shown | poll until the end | when it stops asking | what it shows then is final |
| Registration protection, credentials, leads, observability service, other pages | rows or none | CRUD, reads, logging | little | see [Not modelled](#not-modelled) |

The components meet in PostgreSQL and in RabbitMQ. A public registration writes
rows and an enrichment command into the outbox; the enrichment worker enrols the
registration in its cadence, which is a set of `ScheduledAction` rows; the
dispatcher turns a due row into a drafted message with a second row that sends
it; replies, clicks on the links in the mail, webhooks and operators change the
same rows through the API. A workflow execution is a row and a command; the
worker runs its nodes and announces every change through the outbox; the
workflow service keeps the timeline; the browser polls. Nothing but row-level
writes orders these actors: apart from registrations, transactions run at
PostgreSQL's default READ COMMITTED, and the code takes no locks.

## Modules and how they correspond to the code

    CommunicationPolicy, RegistrationStatus
      EngagementTables         the shared rows, and helpers run in transactions
        EngagementApi          operations of EngagementService
        ActionDispatcher       passes of dispatchDueScheduledActions
          Engagement           the composition, its fairness and its properties
            MCEngagement       lease, optout, replies, settle, limit, duplicate, overshoot
            DispatchProofs     types, claims, leases, drafts, settled rows
              OptOutProofs     opt-outs, deletion, stopped cadences, the limit

    RegistrationStatus
      EventRegistration        the seats of an event
        MCRegistration         registration
        RegistrationProofs

    QualificationPolicy, Outbox
      LeadEnrichment           the enrichment of a registration
        MCEnrichment           enrichment
        EnrichmentProofs

    Outbox, NodeRunner, Messaging
      WorkflowExecution        API, workers, outbox dispatcher, workflow service
        (ExecutionLifecycle)   what it implements
        ExecutionPage          with the page of the web client
          MCExecution          execution, stuck
        ExecutionProofs
          PageProofs           (with ExecutionPage) runs and the page

    WorkspaceMembers
      WebSession               accounts and a browser tab
        WorkflowEditor         (with WorkflowDefinition) versions and the editor
          MCWorkspace          workspace
          WorkspaceProofs      (with DefinitionProofs)

    WorkflowDefinition
      DefinitionProofs         every accepted graph has an order and a layout

A transaction, or a single query, is one step. What an operation reads before
the transaction that uses it is a step of its own, after which the actor carries
the value in its local state; so is every call to another system. `PROJECT.json`
names the lines behind every definition. A definition whose name ends in
`_Something` and whose comment says *Mutant* is a plausible bug; nothing uses it
but the mutation runs that show that the properties notice it.

### The cadence

**CommunicationPolicy.** `evaluateCommunicationPolicy` with its early returns in
order. The code's numbers are constants. One tick of time is one local hour; a
day has `DayHours` of them. Daylight-saving changes are left out.

**EngagementTables.** One variable per table, for *one* registration: consent and
suppressions by purpose, `ScheduledAction` rows by cadence step or message,
messages, links. `origin[m]` says for which cadence step message `m` was drafted
(the code stores it in the decision's payload and nowhere else); `mailed` is the
mail provider's own record. `stopCadence`, `schedulePostEvent` and
`suppressLead` are the helpers of the service. The initial states are those a
public registration leaves behind. A lead who is already suppressed by another
event is not among them.

**EngagementApi.** `updateRegistrationStatus`, `recordInbound`,
`consumePublicAction` and `processEmailWebhook` are a read and a commit; the
client's request keeps what was read (`seen`, `target`). `bookMeeting`,
`withdrawConsent` and `deleteLeadData` use nothing they read before and are one
step. A reply is the set of intents its text matches. Requests that are refused
(unknown ids, an expired or consumed link, a duplicate reply) change nothing and
have no action.

**ActionDispatcher.** A pass is a record with a program counter:

| label | next step in the code |
|---|---|
| `idle` | `findMany` of due and expired rows (`fetchCandidates`) |
| `claim` | `updateMany` that claims the next candidate (`claim`, `claimLost`) |
| `decide`, `load` | reading the enrollment or the message |
| `check` | the four queries of `Promise.all` and the policy |
| `defer`, `reject` | the writes for quiet hours and refusals |
| `mint` | `createPublicActionTokens` |
| `commit` | `draftMessage`, then the transaction of `processAgentDecision` |
| `send`, `record` | `emailProvider.send`, then the transaction that records it |
| `done` | completing an action whose message is already out |
| `fail` | the `catch` block |

From every label inside the `try` block the step may fail instead
(`attemptFails`, `sendFails`), and a pass may be lost at any label (`crash`).
A pass keeps the `now` it started with for all its comparisons and writes, and
the `attempts` its batch query returned, as the code does. `overrun` is a
history variable: the actions that some pass kept beyond the lease it had taken.

Abstractions: the four queries of `Promise.all` are one step; so are the three
inserts of `createPublicActionTokens`, whose rows are named after the message
that will carry them; a crash takes one pass, not all passes of a process (a
process crash is several); `dueAt` of a settled row is forgotten; `attempts`
stop at the budget; a lease that has been cleared is 0. `nextActionAt`, `phase`,
`currentStep`, decisions and audit events are written by the code and read by
nothing modelled, and are left out.

**Engagement.** `Next` is the enrichment worker's enrolment, a request's step, a
pass's step, a crash, or a tick.

### Registration and enrichment

**EventRegistration.** One event and several leads. A registration request is in
its transaction from its snapshot to its commit (`begin`, `commit`); a
registration that commits in between marks it as in conflict, which is what
PostgreSQL's serializable transactions report to one another, and the request
takes its next attempt or is refused. Of the READ COMMITTED writers
(`updateRegistrationStatus`, `transition`, `update`, `publish`) it is not told:
they read, check and update by id, and are two steps. `peak` and `reclaimed` are
history variables: the largest capacity the event has had, and the seats a
status change has handed out.

**QualificationPolicy.** The scoring rule over the attributes its regular
expressions and comparisons test for.

**LeadEnrichment.** One registration's command from its outbox row to its end. A
consumer is at one of the queries of `processLeadEnrichment`: `findUnique`, the
check of the snapshot, its upsert, the provider, the transaction that stores the
result (its first write, which locks the snapshot's row, and its commit), or the
`catch` blocks that mark the snapshot as failed and route the command to a retry
queue or the dead letters. Calls may throw, publications may fail and consumers
may be lost at any of them; the outbox may publish the row twice. Meanwhile the
lead withdraws consent and an operator deletes the lead or runs retention.
`raced` is a history variable that records a withdrawal or deletion that met a
delivery under way.

### Workflow executions

**Outbox.** A row and what publishing does to it, for a publisher that has read
a copy of it earlier. **Messaging.** The bindings of exchanges and queues, where
a key and the expired retry of a command are delivered, and which envelopes a
consumer takes; `workflow.created` reaches the queue of the workflow service and
is dropped there. **NodeRunner.** What a node can return or throw: the
choice of a provider, the credential, the provider's answer, the orchestrator's
status code and the worker's reading of it, each as the code classifies it.

**WorkflowExecution.** The API creates an execution (`CreateExecution`) and
publishes its command (`PublishRequest`), which may be lost. A worker is at a
label:

| label | next step in the code |
|---|---|
| `idle` | a delivery |
| `find`, `claim` | reading the execution; `updateMany` that makes it RUNNING |
| `prepare` | the definition, its order and the checks before the nodes |
| `nodes`, `run`, `failNode` | starting a node, running it, recording its failure |
| `dispatch`, `mark` | publishing an outbox row at once, marking it |
| `flush` | publishing what is still pending of an execution that has ended |
| `error`, `deadletter` | the `catch` block: retry, or fail and dead-letter |
| `ack`, `nack` | acknowledging or requeueing the delivery |

The periodic dispatcher uses `dispatch` and `mark` too. A database error, a
failed publication or a crash may happen at any of them (`Fault`); a crash gives
the delivery back to the queue. The workflow service stores lifecycle events
(`PersistEvent`).

**ExecutionLifecycle** is the abstract specification: an execution is requested,
starts once and ends once; each change is recorded with the event that announces
it; only recorded events are announced. `WorkflowExecution` implements it with
`facts` as the lifecycle events that have an outbox row (`Recorded`) and
`announced` as those handed to the exchange (`Announced`); workers, retries,
nodes, queues and the states of outbox rows are hidden.

**ExecutionPage** adds the page of one execution. It asks for the summary, shows
it and asks again until the status it shows has ended (`open`, `findExecution`,
`findExecutionSummary`, `refetch`), or asks for the diagnostics, once
(`findExecutionDiagnostics`). The API answers both with a read of the execution
and, later, reads of what belongs to it. The cards are functions of what was
found. The end of the execution may be missing from the timeline of a page that
has stopped asking, since the event is stored later than the status; and the
retries the diagnostics report are the publish attempts of the failure event, not
those of the command.

### Workspaces, sessions and the editor

**WorkspaceMembers.** A request goes through the roles guard, the service's read
of the caller's membership, the read of the member it is about, and the write.
Requests of different users overlap. A scenario gives roles, accounts and
the number of calls, edits, writes and session steps a behaviour may start
(`budget`).

**WebSession.** Registration in two round trips, login, and a tab: the stored
token, the tab's copy, the cache, the requests under way with the tokens they
were sent with. `foreign` is a history variable: another tab has signed in or
out.

**WorkflowDefinition.** The schema's rules, `orderWorkflowNodes` of the worker
and `getNodeLevels` of the canvas, all on the same graphs.

**WorkflowEditor.** `createVersion` and `restoreVersion` as read, insert and
answer, with the unique version number deciding who loses; the page with the
version it fetched, the draft and the version it was taken from, its own
requests, its refetches and each gesture of the canvas that changes the graph.

## Runs

`tlc -config <run>.cfg <module>` for each of:

| Run | Module | Instance | Checks |
|---|---|---|---|
| `lease` | `MCEngagement` | 2 passes, 1 step, 2 messages, lease 1, 2 attempts, 1 crash, times 0..3 | `TypeOK`, `LeaseExclusion`, `OneMessagePerStep`, `SettledStays` |
| `optout` | `MCEngagement` | 2 passes, 1 step, 1 message, withdrawal, meeting, deletion, times 0..2 | `OptOutFinal`, `DeletionFinal` |
| `replies` | `MCEngagement` | 1 pass with batches of 2, a pre- and a post-event step, 1 client with status changes, two kinds of reply, links, webhooks, deletion | `OptOutFinal`, `StopHolds` |
| `settle` | `MCEngagement` | 2 passes, 1 step, 1 crash, times 0..1, with fairness | `ActionsSettle` |
| `limit` | `MCEngagement` | 1 pass with batches of 2, 2 steps, limit 1, 1 crash, a client with webhooks, times 0..5 | `SendLimitBounded` |
| `registration` | `MCRegistration` | 3 leads, 3 requests, 2 operators, capacities 1 and 2, 2 attempts | `TypeOK`, `SeatsBounded`, `CreatedOnce`, `RefusedOnlyUnderContention` |
| `enrichment` | `MCEnrichment` | 2 consumers, a profile that qualifies and one that does not, 1 retry, 2 faults, 2 publish attempts, with fairness | `TypeOK`, `CommandAccountedFor`, `EnrolledWithoutConsentOnlyByRace`, `DeletedDataOnlyByRace`, `QualificationMonotone`, `ResultStays`, `EnrichmentSettles` |
| `execution` | `MCExecution` | 1 execution of 1 node, 2 workers, 1 dispatcher, 1 retry, 1 fault, 2 publish attempts, a page, with fairness | `TypeOK`, `NeverStranded`, `CompletedHasHistory`, `DeadLetterMeansEnded`, `NoRerunWithoutRedelivery`, `MisconfiguredNotRetried`, `ShownEndIsFinal`, `ImplementsLifecycle`, `Settles`, `EndReachesTimeline` |
| `workspace` | `MCWorkspace` | 3 users; five scenarios with up to 2 member requests, 2 edits, 2 version requests, 6 session steps | `TypeOK`, `OneOwner`, `AdminsManagedByOwner`, `PasswordKept`, `CacheBelongsToUser`, `SessionEndsByExpiry`, `StoredVersionsRun`, `VersionsKept`, `DraftBelongsToShown` |
| `duplicate` | `MCEngagement` | 2 passes, no crash; a violation is expected | `IdempotentStep` |
| `overshoot` | `MCEngagement` | 2 passes, 2 steps, limit 1; a violation is expected | `SendLimit` |
| `stuck` | `MCExecution` | as `execution` with 1 worker; a violation is expected | `CreatedSettles` |

*Bounds of the cadence.* Two passes, two messages and a lease of one tick are
what it takes for a pass to outlive its lease, for another to reclaim the action
and for both to finish; a third pass adds no new pair. Two attempts give one
retry and one final failure. A day of four hours with its window in `lease`,
`optout` and `limit` at hours 1 to 3 starts in quiet hours, so that deferral
happens before anything else. In `replies` the window is always open, because
one message and one tick leave no room for it. `Msgs` bounds the drafts: a pass
that finds no free message id waits at `mint`, so no run draws a conclusion from
a third draft. Times saturate at `MaxTime`. The lease and the backoff are ticks
like the hours, which the code keeps far apart (60 s, 10 s to 300 s, hours); the
properties compare times only with each other, never with a number of ticks.

*Bounds of the others.* Three requests for two seats and two operators let a
seat be taken, given up and handed out while a third request is between snapshot
and commit; two attempts let a request lose twice. `enrichment` has a fault to
duplicate the command and one to break what follows. `execution` has the first
attempt, one retry and the failure that follows it, with one fault at any step;
its single node is at once the first and the last. Its page is opened only in
behaviours without faults, for one execution: with a crash `ShownEndIsFinal` is
false, see below. In `workspace` the budgets of a scenario keep the parts that do
not touch one another apart: member requests against each other, one of them
against an edit and a save, two saves with two edits, and sessions with and
without a member being added.

*Symmetry* is used in the runs without fairness: over messages and passes, over
leads, requests and operators, over the actions of a graph and the passwords.

*Deadlock* is not checked: a system in which everything is settled and no
request arrives has nothing to do.

*Fairness.* In `settle`, weak fairness of every pass's steps: the timer fires
for as long as a worker runs, and each awaited call returns or throws (the AI
client has a timeout, the driver reports lost connections). Weak fairness of the
clock. Nothing is assumed of operators, leads, webhooks or the enrichment
worker. Crashes are finitely many (`MaxCrashes`). `MaxTime` lies in an open
window, since time stops there; a real clock reaches one every day. In
`execution` and `stuck`, weak fairness of each worker, of each cycle of the
outbox dispatcher (both a timer and awaited calls), of the API call that has
created an execution, and of the workflow service; in `enrichment` of the
dispatcher and of each consumer. Faults are never assumed to happen or not to,
and are at most `MaxFaults`. Users, operators, leads and the page are not fair.

### What the properties say

* `LeaseExclusion`: two passes work on one action only after one of them has
  outlived its lease on it.
* `OneMessagePerStep`: unless that happened, a cadence step has one message.
* `SettledStays`: a completed, cancelled or failed action that no pass has in
  hand never changes again, in spite of batches fetched earlier and of upserts.
* `OptOutFinal`: when consent for a purpose is withdrawn or deleted, the lead
  suppressed or anonymized, or a meeting booked, and the provider calls that had
  passed the check are over, nothing is mailed for that purpose again and the
  bar is never lifted. Deleting a lead clears the suppressions, so this needs
  the consent records to go at the same time.
* `DeletionFinal`: after a deletion and the drafts under way, no message and no
  link is written.
* `StopHolds`: a stopped cadence with nothing under way restarts only with the
  post-event schedule or a late enrichment.
* `SendLimitBounded`: the deliveries exceed the limit by at most one per
  additional pass; with one pass, never. It is conditional because the count is
  of rows: a pass that outlived its lease on a message may be refused and write
  SUPPRESSED over the SENT of the pass that took over, the next check then counts
  one too few, and a webhook that restores the status shows two deliveries. The
  bound holds as long as no lease on a message was outlived, or no webhook was
  processed.
* `ActionsSettle`: every scheduled action ends.
* `SeatsBounded`: registrations never oversell; more leads than the largest
  capacity the event had hold a seat only as far as status changes, which do not
  look at the capacity, handed seats out.
* `CreatedOnce`: no two requests for one lead are both told "created".
* `RefusedOnlyUnderContention`: a request that ran out of attempts has lost to as
  many other registrations.
* `CommandAccountedFor`: until there is a qualification or the lead is deleted,
  the enrichment command is in the outbox, a queue, a consumer or the dead
  letters.
* `EnrolledWithoutConsentOnlyByRace`, `DeletedDataOnlyByRace`: the only ways in
  which a cadence runs without consent, or data of a deleted lead reappears, are
  a withdrawal while the enrolling transaction is open and a deletion after a
  delivery has read the lead.
* `ResultStays`: a result that is stored while no delivery is in progress stays
  until the lead is deleted, however many copies of the command follow.
* `EnrichmentSettles`: every copy is acknowledged or dead-lettered in the end.
* `QualificationMonotone`: nothing that makes a lead better lowers its score.
* `NeverStranded`: an execution whose command was published and that has not
  ended has a copy of the command in a queue or at a worker.
* `CompletedHasHistory`: when an execution has succeeded, the events of all its
  nodes have been published.
* `DeadLetterMeansEnded`: a command is dead-lettered after its execution's end.
* `NoRerunWithoutRedelivery`: without a crash, nobody touches the nodes of an
  execution that has succeeded. After one, a redelivered command may: a second
  worker that found the execution RUNNING resets and fails nodes while the first
  completes it. `ImplementsLifecycle` holds nonetheless, since the end is guarded.
* `MisconfiguredNotRetried`: what the orchestrator refuses as misconfigured is
  not retried and not paid for twice.
* `ShownEndIsFinal`: what the page shows when it stops asking stays true: status,
  nodes and model calls are as stored, and after a success all nodes are counted
  as successful. A diagnosis may come too early, but when it reports a failure or
  a published end, the execution has ended that way.
* `ImplementsLifecycle`: the refinement described above.
* `Settles`, `EndReachesTimeline`: a published command's execution ends, and its
  end reaches the timeline or its row is visibly FAILED.
* `OneOwner`, `AdminsManagedByOwner`: the workspace keeps its one owner, and the
  owner alone makes and unmakes admins, but for two races: the caller lost the
  role of admin between guard and service, or the member became an admin after
  it was read.
* `PasswordKept`: registering takes an account from nobody who has registered
  it, except when both registrations found it as an invitation.
* `CacheBelongsToUser`: a tab shows what was returned to its user, as long as no
  other tab signs in or out.
* `SessionEndsByExpiry`: a session that ends by itself ends with a token that is
  no longer valid. It may be the token of an *earlier* session whose answer is
  late, because `http.ts` does not compare it with the one that is stored.
* `StoredVersionsRun`: every stored version has an order in which the worker can
  execute it, and a layout.
* `VersionsKept`: stored versions never change.
* `DraftBelongsToShown`: the draft was taken from the version that is shown, or
  lags behind it because another user stored one while the page's own save was
  being answered.

## Proofs

`tlapm <module>.tla` for the eight modules whose names end in `Proofs`. The
theorems hold for all constants that satisfy the named assumptions: any number
of steps, messages, passes, leads, requests, workers, nodes, retries, faults and
users. The assumptions say that numbers are naturals, that different kinds of
things have different names (steps and messages, workers and dispatchers), that
leads, requests, messages, passes and nodes are finitely many, that there is a pass, and
that a workspace starts with its owner.

*Types of the cadence.* `TypeOK` is not inductive: a pass at `send` must have a
message in hand, one at `commit` a step and a fresh message id, or the rows they
write would have no type. `TypeInv` adds `PassShape`, which says so.
`TypeCorrect` follows.

*Claims and drafts.* `DispatchInv` adds four facts.

* `NowPast`: a pass's `now` is not ahead of the clock, so that a lease taken
  from it ends no later than one taken now.
* `FreshIds`: an id that no committed draft uses has no row and no pass; the
  passes that draft have different ones.
* `OneHolder`: for an action outside `overrun`, whoever works on it is alone, its
  lease has not run out, and the row shows that very lease or was cancelled. It
  is why a claim with an earlier or equal `now` cannot succeed meanwhile.
* `DraftedOnce`: a step outside `overrun` that has a message is completed and in
  nobody's hands.

The history variable `overrun` is needed because the exclusion is conditional:
the code does not renew leases, and without the condition `duplicate` refutes
it. `LeaseExclusionHolds`, `OneMessagePerStepHolds` and `SettledStaysHolds` rest
on this invariant. The steps are first reduced to a few shapes (`PassStepShape`,
`StepShape`), so that each conjunct is proved once per shape and not once per
action.

*Opt-outs.* `OptOutInv` adds `AnonymizedNoConsent` (a deleted lead has no
consent) and `MailedOrigin` (what was mailed had been drafted). The first is what
makes a policy check refuse a lead who was deleted after the pass had read it;
the second, with `FreshIds`, says that the purpose of a message never changes
once somebody works on it. `OptOutFinalHolds` and `DeletionFinalHolds` follow
from two lemmas: no step lifts a bar (`BarHolds`), and a pass comes to the call
of the provider only through a check that allowed its purpose (`SendChecked`).
`StopHoldsHolds` needs `TypeInv` alone.

*The limit.* The invariant counts the passes between a check that allowed a
purpose and its record (`Offering`). `Within(purpose, counted)` says that what is
counted and what is on offer are together at most the limit plus the passes minus
one. A check that allows a mail has counted less than the limit, and the offering
passes are never more than the passes; a record moves one from the offering to
the counted (`WithinStep`, which does the arithmetic of cardinalities once).
`LimitInv` claims this for two ways to count, since each is wrong in its own
case: by provider number (`Numbered`), which after an outlived lease may include a
message whose status the check does not count, and by status (`Delivered`), which
a webhook may raise without a send. For the first it also needs `NumberedFinal`,
that a message with a number is completed for good and its status counts or
shows a bounce, in which case its purpose is barred and no check allows it;
`ReportsNumbered`, that webhooks are about such messages; and `RowsDrafted`, that
what counts has a number. `SendLimitBoundedHolds` follows because the first count
is the larger.

*Registration.* Three independent invariants over `TypeOK`. For the seats:
a transaction at its commit that was told of no conflict and will give a seat
still has one to give (`SeatLeft`). A step that takes a seat is a registration,
which puts every open transaction in conflict, or a status change, which counts
in `reclaimed`; that is why the bound needs the history variables. For
creations: such a transaction finds its lead without a row (`LeadFree`), and
rows are never deleted (`CreatedIsThere`, `ChangedIsThere`). For refusals: an
attempt number never exceeds the registrations made by others by more than one
(`AttemptsPaid`).

*Enrichment.* `EnrichInv` adds to the properties what a consumer relies on:
a result and its qualification come and go together (`SucceededQualified`, why
a duplicate that finds the result may be acknowledged), and whoever carries a
consent or a lead that is no longer so has met the race (`ConsentRead`,
`LeadRead`). `ResultStaysHolds` shows that `Settled` (the result is there and no
consumer is past its look at the snapshot) is kept by every step.
`QualificationMonotoneHolds` is a case split over the rule.

*Executions.* `ExecInv` says of each process what it relies on at its label
(`ProcOK`): the row in its hands exists, a copy that says PUBLISHED is right, a
worker in its nodes has announced all earlier ones (`HistoryUpTo`), one that
dead-letters has seen the end. All of it speaks of rows that exist, events that
were announced and executions that have ended, and these only grow; so a step
of one process keeps what the others rely on (`ProcStable`), and only its own
label is to be checked. `RowsOK` ties the lifecycle rows to the status, which
is what excludes two ends; `PublishedOK` ties rows to what the broker was given.
`NeverStrandedHolds` adds an account of the copies of a command (`Kept`).
`ImplementsLifecycleHolds` maps each kind of step: a guarded status change with
its row is an abstract change, a publication of a recorded row an announcement,
everything else a stutter.

*Runs and the page.* `RunInv` extends `ExecInv` to what one run does. Until a
process crashes there is one copy of a command, in one queue or with one worker
(`SoleCopy`), and none before it was sent (`SentOnly`); so a worker inside a run
knows that its execution has not ended and that its earlier nodes have succeeded
(`SafeRuns`), and a success finds all of them so (`SuccessesDone`).
`NoRerunWithoutRedeliveryHolds` is this. Without any fault a worker with a
misconfigured workflow is on its first attempt, is not told to retry and does not
get past the node (`OnceRuns`, `SeenOnce`); the lemma `FatalOutcome` follows the
error from the registry of providers through the orchestrator's 422 to the
worker's verdict, for every provider and credential, and
`MisconfiguredNotRetriedHolds` follows. The page never reads ahead of the system
(`PageInv`): the status it has read is the execution's if that has ended, and
since a run in progress excludes an end (`SafeRuns`), nobody touches nodes or
traces from that read on, so that the second round of reads agrees with the
first. That every success has its trace (`Traced`) and that only recorded events
are told (`Told`) give the cards. `ShownEndIsFinalHolds` is a theorem of
`PageSpec`.

*Workspace.* One invariant per part. `CallInv`: a request past the guard has a
caller who passed it, and one about to write has passed the service's checks on
what it read. `SignupInv`: a registration about to write found no password.
`SessionInv`: as long as no other tab interferes, the stored token is the tab's,
whatever is still expected was asked for with it, and all other requests are
older. `EditorInv`: a write that was answered with a version is its user's last,
and the version the page settles on is not newer than what it has fetched.

`TypeOKHolds` collects the types from these invariants, with the tokens in
circulation (`TokensType`). `StoredInv` says that every stored version, and every
definition a request is about to store, has passed the schema: the API checks
bodies on their way in, and a restore copies a version that is stored.
`StoredVersionsRunHolds` follows with the theorem about the pure functions.

*Definitions.* `OrderingSoundHolds` says that every definition the schema accepts
is ordered by `orderWorkflowNodes`, each node once and after those it takes its
input from, and that `getNodeLevels` ends on it. The functions are recursive, and
the induction theorems of the library take an operator that the provers cannot
instantiate. `DefinitionProofs` uses two facts that take none: a set of numbers
has a least element (`Least`, from the well-foundedness of the naturals), so that
an induction is a least counterexample; and a step that maps a set to itself can
be iterated (`Iterated`), so that a function with the recursive equations exists
and the one that `CHOOSE` picks satisfies them. On top of these: the waves of a
work list are the ends of paths (`PathReaches`, `WavePath`); in a graph without
cycles no path has more nodes than there are, by the pigeonhole principle
(`NoLongPath`), so every set of nodes has one without an edge from that set
(`FirstOf`). `Ordering` is the invariant of the worker's loop: the queue holds
exactly the nodes that are not ordered and whose predecessors all are, the counts
are the edges that are left, and whatever is ordered comes after its
predecessors. That the triggers are the only nodes without incoming edges, which
starts it, is where the schema's reachability is needed; that an empty queue
means that all nodes are ordered is where the absence of cycles is (`FirstOf`).

*Only model-checked:* `ActionsSettle`, `EnrichmentSettles`, `Settles` and
`EndReachesTimeline`, because liveness under fairness is beyond this prover.
Every invariant, every action property and the refinement that the passing runs
check are stated by a theorem.

## What the checks found

* `duplicate`: the lease is counted from the moment the batch was fetched. A
  batch has up to 25 actions and each may wait for the AI orchestrator, so a
  late candidate is claimed with a lease that has already expired, and the next
  timer pass takes it over. Both passes draft and mail. `docs/DECISIONS.md:23`
  calls each action "a persisted, idempotent unit with a lease and retry budget".
* `overshoot`: the limit is checked before the send and counted after it, so
  passes working on different messages of one lead exceed it together.
  `README.md:11` promises "send limits", `docs/DECISIONS.md:18` that frequency
  rules cannot be bypassed.
* `stuck`: `requestExecution` commits the row and then publishes the command
  without an outbox row and without confirms. A command that is lost there is
  published by nobody again and the execution stays PENDING.
  `docs/ARCHITECTURE.md:53` says "Business state never depends on RabbitMQ
  retaining a message."

Races the properties had to make room for, about which no document says
otherwise:

* An action that `stopCadence` cancels while a pass works on it is completed or,
  if the pass fails, made pending again (`where: { id }` in the `catch` block of
  the dispatcher), and the policy does not look at the enrollment, so a lead
  handed off to a human may get one more mail (`SettledStays`, `StopHolds`).
* A status change from the waiting list, or one that overwrites a status that
  was changed meanwhile, may exceed the capacity (`SeatsBounded`).
* A consent withdrawn while the enrolling transaction is open leaves an active
  cadence, and a deletion during a delivery leaves enrichment data behind
  (`EnrolledWithoutConsentOnlyByRace`, `DeletedDataOnlyByRace`). The policy still
  refuses to mail either lead.
* The two races of `AdminsManagedByOwner`, the one of `PasswordKept`, the late
  answer of `SessionEndsByExpiry`, the lagging draft of `DraftBelongsToShown` and
  the nodes that change after a crash (`NoRerunWithoutRedelivery`).

Met while proving: a pass that has outlived its lease marks a message SUPPRESSED
that another has sent (`scheduled-action-dispatcher.ts:120`). The proof of the
limit failed on it, TLC gave the behaviour with a webhook that follows, and
`SendLimitBounded` says now when it holds.

Also met while modelling, without a property: two clicks on one link may both apply it
(`engagement.service.ts:164`); and `docs/AI_ORCHESTRATOR.md:36`
says "Provider configuration errors fail without retry.", while an error of the
credential lookup becomes a 500 of the orchestrator, which the worker retries
(`MisconfiguredNotRetried` is about the errors that become a 422).

## Not modelled

* Contents: drafts and prompts, payloads of events, AI trace rows beyond their
  existence and the `ai.trace.created` event, node configurations and positions,
  ids of edges, audit events, dashboards, exports.
* Conversions and cryptography: webhook signatures, hashing, JWT, encryption of
  credentials. A credential is what the worker finds when it asks.
* Malformed deliveries and payloads, which are dead-lettered or refused at once.
* The rate limit and the hidden form field in front of public registrations: one
  upsert of a counter row per request, which nothing else reads.
* `recordInterest`, `exportLead`, `dashboard`, the lists of leads, executions and
  versions: reads, or writes nothing modelled reads.
* The meeting slots of several leads: `bookMeeting` checks the slot outside its
  transaction, and two leads may book the same one. `EngagementTables` has one
  lead; the hazard is listed without a property.
* Creating and deleting credentials (single writes), the observability service
  (it logs that it has started), the other pages of the web client (a request
  and its rendering; the query cache is in `WebSession`).
* In the editor, several mutations of one page in flight; its session is not
  the tab's of `WebSession` (a signed-out page has no draft left to speak of).
  On the execution page, filters, dialogs, times and costs, and the requests of
  summary and diagnostics side by side (they share nothing).

## Plan

Done: the cadence, event registration, lead enrichment with qualification,
workflow execution with outbox and timeline, its abstract specification and the
refinement, definitions, workspaces, sessions, editor; theorems as above.

Left, most important first:

1. Meetings: two leads and one slot.
2. Single use of public links, with the messages they came with; refinement of
   an abstract work queue by `ActionDispatcher`.
