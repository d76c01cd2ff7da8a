# Verification of the Notion operating system

TLA+ models, TLC checks and TLAPS proofs for the repository's control logic:
the commands that read a Notion workspace, decide, and write to Notion, GitHub,
Vercel, a local spool, a local release store or the bridge database.  Paths
below are relative to the repository root.

## 1. The system and its parts

Everything is a short-lived command-line process (one long-lived exception, the
webhook receiver).  No command holds a lock in Notion: a command reads whole
data sources, computes, and writes pages back one HTTP call at a time.  What is
hard about the code is therefore always the same question: what is true of the
stores when processes overlap, die between two calls, or hear of a write's
failure although it took effect.

| Component | State it keeps | Operations | Hard behaviour | Correct when |
|-----------|----------------|------------|----------------|--------------|
| Governed action lane: `src/notion/action-runner.ts`, `action-dry-run.ts`, `action-request-sync.ts`, `local-portfolio-actuation*.ts` | Action Requests and External Action Executions rows; GitHub issues; a Vercel project | dry run (preview), rehearse, live run, expiry sync; operators approve, sign, edit | stale snapshots, crashes around the provider call, catch blocks that write, overlapping runners | no provider write without a passed dry run of that request; the ledger never lies about an effect |
| Webhook receiver, drain, reconcile: `webhook-shadow-server.ts`, `webhook-shadow-drain.ts`, `webhook-reconcile.ts` | spool files; Deliveries, Receipts, Events pages; Reconcile Status of executions | receive, drain, list | at-least-once drains, pages created in two calls, half-written files, concurrent drains | nothing is processed that is not recorded; one described delivery and event per id |
| Runtime generations: `scripts/notion-runtime-generation.mjs` | releases, current pointer, custody, lock file | stage, select, deactivate, reactivate, readback | crash under the lock, restore after a failed rename | the pointer names a staged release or nothing |
| Runtime generation consumers: `runtime-generation.ts`, `portfolio-generation-reader.ts`, `export-project-snapshot.ts` | the project snapshot file | export | selections that move while a run reads, rotten files, power failure at the rename | a complete snapshot of one generation by a selected runtime |
| Irreversible actions: `internal/notion-maintenance/irreversible-action.ts` and the four surfaces that use it | claims, provider-operation claims, receipts | claim, apply, read back, file a receipt | crash or power loss between claim, effect and receipt | one effect per provider key; receipts are true |
| Hygiene: `support-database-hygiene-pass.ts`, `notion-hygiene-pass.ts` | support, project, intake and source pages | plan, merge, archive, repair | people link pages meanwhile; repeated passes | every link is carried over; passes come to rest |
| Bridge sync: `bridge-db-sync.ts`, `bridge-db-mcp-client.ts` | dispositions in bridge-db; Build Log pages with a Sync Key | look up, create, confirm | crash between create and confirm, overlapping runs | a synced row has its one page |
| Signals: `external-signal-sync.ts`, `signal-watermarks.ts` | cursor file, Sync Runs and Events pages, briefs | read, dedupe, write, advance | cursor moved past unwritten events | no event is passed over unwritten |
| Derived fields: `local-portfolio-intelligence*.ts`, `local-portfolio-external-signals*.ts`, `execution-sync.ts`, `intelligence-sync.ts`, `link-suggestions-sync.ts` | fields and relations of project pages, recommendation briefs, suggestions | recompute and upsert, accept, apply | outdated readings, overlaps | fields settle; people's decisions stand |
| Pages: `managed-markdown-*.ts`, `http.ts`, `direct-notion-client.ts`, `src/publishing/*` | page markdown | replace a section, read back, publish, verify | repeated requests, edits between read and patch | what others wrote survives |
| Weekly refresh: `weekly-refresh.ts`, `weekly-refresh-contract.ts`, `command-center-replacement.ts` | config, command-center page, weekly record | dry pass, recheck, live children, record | children that fail, time out or land late | live only when vouched for; a healthy record is earned |
| Control-tower config: `control-tower/config.ts`, `*-schema.ts`, `phase-closeout.ts` | one JSON file that some ten commands rewrite | load, ensure, save | whole-file saves from old readings | what was written can be loaded and forgets nothing |
| Follow-through: `orphan-classification.ts`, `coordination-snapshot-ingest.ts`, `packet-follow-through.ts`, `operational-rollout.ts`, `cohort-rollout.ts` | packets, tasks, approvals, events, decisions | classify, request, create, ingest, roll out | half-made pages, repeated creates, decisions overtaken | one of each, nothing before its approval |
| Project rows: `github-notion-catch-up.ts`, `create-local-project-rows-from-truth.ts`, `publish-notion.ts`, `fill-empty-local-project-fields.ts` | project, source and workbook rows, seeds | match, create, update, fill | one listing at the start, listings that end at 100 rows | one row each; people's values stay |
| CLI, logging, reports, views | none that the others depend on | parse, print | none concurrent | - |

They meet in few places: the drain writes `Reconcile Status` on the lane's
execution rows; the weekly refresh runs the commands of the lower half as child
processes from a generation that the runtime selection names; every Notion write
goes through the HTTP client; hygiene and schema migrations mutate the same
workspace under their own approval envelopes; many commands save the one config
file.  Each meeting is modelled on one side: `WebhookSpool` has the lane's rows
as far as the drain sees them, `WeeklyRefresh` its children as abstract steps over
the config and the rows, `SnapshotExport` the runtime pointer it is launched from,
`ControlTowerConfig` all savers of the file.

## 2. Plan and state of the work

The order follows how much rests on a component and how hard its behaviour is to
test.  Everything below is modelled and checked; proofs exist where the last
column says so.

| Modules | Component | Main properties | Section | Proved |
|---------|-----------|-----------------|---------|--------|
| `ActionReadiness`, `GovernedActions` | action lane | rehearsed effects, truthful ledger | 3 | yes |
| `WebhookRecords`, `WebhookSpool` | webhook loop | nothing processed unrecorded, one page per id | 4 | yes |
| `RuntimeGenerations`, `SelectorRegister` | generations | mutual exclusion, staged selector, atomic register | 5 | yes, and the refinement |
| `IrreversibleActions` | irreversible actions | keys spent once, true receipts, nothing blind | 6 | yes |
| `SnapshotExport` | generation consumers | authorised, complete, of one truth | 7 | yes |
| `SupportHygiene`, `PortfolioHygiene` | hygiene | links carried, passes settle | 8 | - |
| `BuildLog`, `BridgeSync`, `SignalRecords`, `SignalSync` | bridge, signals | one page per row, nothing skipped, all arrives | 9 | yes |
| `LinkSuggestions`, `Recommendations`, `ProjectSignals` | derived fields | decisions remembered, fields settle | 10 | yes |
| `Markdown`, `ManagedPage`, `Publishing` | pages | what others wrote is kept | 11 | - |
| `WeeklyState`, `WeeklyRefresh`, `ControlTowerSchema`, `ControlTowerConfig` | weekly refresh, config | earned record, nothing forgotten | 12 | yes |
| `KickoffPackets`, `CoordinationIngest`, `PacketFollowThrough`, `Rollouts` | follow-through | approved first, one of each | 13 | - |
| `ProjectRows`, `WorkbookImport`, `FieldFill` | project rows | one row each, theirs stand | 14 | - |

Left, in this order: theorems about the follow-through (`KickoffPackets`,
`CoordinationIngest`) and the pages (`ManagedPage`), whose properties hold within a part
of a run only and have to move to modules of their stores first, as those of the signals
did; then targeted weekly runs and the profile commands.

### How the runs are put together

Components that share no state are checked side by side in one run: `MCStores`,
`MCDesk`, `MCSafeguards` and `MCArrivals` each instantiate several modules and
have a variable `part` that a behaviour never changes.  An instance moves only in
its own part, and in the others its variables are 0 (or as they begin).  The
state space is the sum of the instances, not their product.  Where two instances
name a variable alike the module renames one (`INSTANCE ... WITH`).

A property that is proved is checked under the very definition the proof uses: the
run's module extends the component (`MCStores` the generations, `MCDesk` the
irreversible actions, the link suggestions and the derived fields, `MCSafeguards` the export, `MCArrivals`
the webhook loop and the config) or the small module that says what the component keeps
and what must be true of it (`WebhookRecords`, `BuildLog`, `SignalRecords`, `WeeklyState`),
which the component extends too.  These properties hold of a store as it begins, so that
they need no guard; every other property is guarded by its part.

| Run | Module, cfg | Parts and bounds | Fairness |
|-----|-------------|------------------|----------|
| `faults` | `MCGovernedActions`, `_faults` | 1 append request, edits and signatures, 1 process, 3 execution rows, every failure | - |
| `batch` | `MCGovernedActions`, `_batch` | an additive request and a redeploy in one batch, provider failures, changes from outside, expiry | a started command proceeds |
| `stores` | `MCStores` | generations: 2 commits, 2 processes, 4 runs, crashes, failing operations, drift, recovery; mail: 2 requests of one delivery, 2 overlapping drains that may die, torn files, 2 executions | - |
| `desk` | `MCDesk` | irreversible actions: 2 approvals with one key, 2 processes, 2 runs, an edit, crashes, power losses, provider failures; links: 2 projects, 2 pages, 2 turns of people; generations under power losses and tampering, 3 runs; signals: 3 project contents, 2 days, an edit; sections: 2 lanes and the tower, 2 runs, 3 faults; publisher: 16 destinations, 2 faults, an addition | - |
| `safeguards` | `MCSafeguards` | fourteen instances, each with two runs (portfolio: three passes), of which one may die, and one or two things that people do | - |
| `arrivals` | `MCArrivals` | bridge: 4 rows, 2 syncs, a fault; signals: 2 lines, 2 stages, a fault; weekly: 3 lanes, 2 attempts, 2 pages, a fault; webhook: 2 overlapping drains; config: 4 phases, 2 commands, a crash | see below |
| `failed`, `redeploy`, `replay` | `MCGovernedActions` | smaller instances | - |
| `webhook_listing` | `MCArrivals`, `WebhookSpool_listing` | as `arrivals` | - |
| `acceptances` | `MCDesk`, `_acceptances` | as `desk` | - |
| `read_back` | `MCDesk`, `_readback` | as `desk` | - |

The last four rows expect a violation, see Findings.  Two of everything is
enough for the hazards of `PROJECT.json`: each involves at most two overlapping
processes, or one run, its death and a repetition; a third row, page or run is
there where the code counts (limits, listings, piling prefixes).  Symmetry is used
only for model values that no definition tells apart, and in no run with a
liveness property.  `CHECK_DEADLOCK FALSE`: when the runs a bound allows are used
up, the system is done.

Fairness in `arrivals` is weak fairness of three things.  A process that was
started is scheduled, which the operating system sees to.  The syncs and the
weekly refresh are started again and again: the repository leaves the schedule to
whoever operates it (`docs/weekly-refresh-phase-2-handoff.md`), so this is an
assumption, the weakest under which a cursor or a retry can promise anything.
People do what the runbooks ask (`SupportCleaned`, `Restored`).  Faults are never
fair.  Actions of different parts share one formula, since a behaviour is of one
part: `WF(A \/ B)` is then `WF(A)` in the part of `A`.

## 3. The governed action lane

### Modules

- `ActionReadiness.tla` holds the pure part: request and execution rows, the
  provider preflight (`Preflights`), the idempotency key (`KeyOf`), the readiness
  evaluation (`Blocked`, from `evaluateActionRequestReadiness`) and what a dry run
  does to the request (`PostDryRun`, from `computePostDryRunReadiness`).
- `GovernedActions.tla` is the state machine.  `request` and `rows` are the two
  Notion data sources, `world` the Vercel project, `issue` the payload a GitHub
  issue carries, `proc` the running commands with the snapshot each read at its
  start.  `passed`, `effects` and `spent` are history: dry runs recorded as
  succeeded, provider writes accepted, and effects since the last approval.
- `MCGovernedActions.tla` fixes kinds, approval rules and expiry for TLC.
- `GovernedActionsProofs.tla` holds the proofs.

### State and actions against the code

A command is one process with a program counter; one step is one await of the
code.  `Start` (options), `ReadRequests`/`ReadRows` (the two reads of
`Promise.all`, in either order), `Select` (filter and slice), then per request
`PassOver` (every "Skipped" exit of `evaluateActionRunnerDecision` and of the
readiness check) or `TakeUp` (target, payload and preflight resolved), `Draft`
(create the row), `Open` (describe it as Started), `Call` or `SkipCall` (the
provider write, or the additive action that finds its target already so),
`Verify` (the read-back of a rollback or redeploy), `Close` (record the result),
`Settle` (write the request), `Packet` (the command center).  A throw inside the
`try` goes through `UndoRow`, `UndoRequest` and the packet (the catch block);
outside it ends the command.  `Expire` is the expiry pass of the sync.

Failures: `NotionFails` (a Notion write reported as failed, with or without
effect), `CallFails` (the same for the provider, and failing verification reads),
`Crash` (the process ends between two awaits).  People: `Decide`, `Sign`, `Edit`,
`Deploy`, `IssueMoves`, and the date (`Tick`).

### Abstractions and assumptions

- The nine action keys are four kinds (append, additive, redeploy, rollback).
- The linked policy exists and is supported, credentials are present, and the
  gates of `config/local-portfolio-control-tower.json` are open; limits and the
  freshness window are CONSTANTS (the configuration has 1 live, 5 dry runs, 24 h).
- All Vercel requests of an instance share one project; the target resolves.
- "Canceled" stands for Rejected, Canceled and Shadow Logged, "Pending Approval"
  for Draft: the lane never tells them apart.
- Operators leave the properties the lane owns alone (intent, relation, outcome,
  and the pin except through the lane).
- The poll of at most six verification reads is one `Verify` step.
- Bounds: `RowIds` bounds the execution rows of a behaviour (`RowsLeft` lets a
  command start only while unused ids cover all that run), `MaxDay` the date.

### Runs

| Run | Instance | What it shows |
|-----|----------|---------------|
| `faults` | 1 append request, edits and signatures, 1 process, 3 rows, all failures | type, ready-is-backed, rehearsed effects, truthful ledger, executed-happened, one success per key, rows keep identity, under a failure at every step |
| `safeguards`, part rollback | 1 rollback, 2 overlapping processes, 2 deployments | the pin protocol holds while production and the candidate move and snapshots age (`EffectWasRehearsed`) |
| `batch` | an additive request and a redeploy, provider failures, outside changes of the issue, expiry | also when the target is already satisfied, every command ends and every Started row gets a result |
| `failed` (violated) | as `faults`, smaller | Failed does not mean "no effect", as the incident runbook says |
| `redeploy` (violated) | 1 redeploy | the live redeploy may take another deployment than the dry run showed |
| `replay` (violated) | 1 rollback | one approval can be executed twice after Compensation Needed |

Two limits of the design are in the model but are no property of it, since the code
makes no attempt to prevent them: two live runners that overlap write twice under
one idempotency key (hence `Serial` in `OneSuccessPerKey`), and the expiry pass
writes Expired over a newer decision, because it writes from its snapshot.

Three execution rows are what the cases need: a dry run, a live run that fails
or is lost, and a second live run; two processes are enough for every pairwise
overlap.  `CHECK_DEADLOCK FALSE` in runs whose row budget ends with no failure
event enabled: there the commands may simply be finished.

Fairness (`FairSpec`) is weak fairness of `Advance(p)` only: a process that was
started is scheduled by the operating system until it ends.  Starting commands,
people and failures are never fair.

### Proofs

TLAPS proves, for every set of requests, processes, rows, payloads and
deployments and with any number of failures and unserialised commands:
`TypeCorrect`, `ReadyAlwaysBacked`, `EffectsAlwaysRehearsed`,
`LedgerAlwaysTruthful`, `ExecutedAlwaysHappened` and `IdentityKept`, all from
`Invariance` (`Spec => []IInv`).  `OneSuccessForEachKey` proves `OneSuccessPerKey` where
`Serial` holds, as it does in every run: operators start no live command while one runs.

`ReadyIsBacked` alone is not inductive, because intent, relation and pin are
written from snapshots.  `IInv` is the types, the store invariants
(`Stored`), that no two commands hold one row (`Owners`), and what every command
carries (`Sound`): the requests of its snapshot are backed (`Informed`: they were
when read, and history only grows), the row it holds is its own and described as
it works (`Works`, `Describing`), a live command past its readiness check works
on a rehearsed target (`Judged`), and where it stands in the provider call agrees
with `effects` and with the status it is about to record (`Called`).  The proof has one step per action and
under it one per conjunct the action can disturb; the first part of the module
carries the types through the same case split.

`OneSuccessPerKey` needs more, `SInv`: there is at most one live command (`Alone`), and
from its reading of the rows on it watches (`Watches`): every live success there is was
in the rows it read, or is its own result, of a request that is off its list; and
from the draft to the close the request it works on is off the list and was no duplicate
of what it read.  TLC checked it with two processes on 6.1
million states.  Without `Serial` two live commands that overlap break it, as said above.

Only model-checked: the two liveness properties, and the three violated properties.

## 4. The webhook loop

`WebhookSpool.tla` models the receiver, the spool directory and the drain
(`webhook-shadow-server.ts`, `webhook-shadow-drain.ts`) and the filter of the
reconcile command (`webhook-reconcile.ts`); `WebhookRecords.tla`, which it extends, has
the stores these programs write and what must be true of them.

State: `spool` (a file is not sent yet, half-written, pending or moved), the three
data sources as sequences (`deliveries`, `events`, `receipts`; a page's id is its
index), `exec` (status and reconcile status of the lane's rows) and `drain`, the
drain processes with the snapshot they read (`map`, `keys`, `waiting`), their
listing (`todo`) and where they are.  One step is one await: `Start` (readdir),
`ReadDeliveries`, `ReadEvents`, `ReadExecutions` (issued together, answered in any
order), then per file `Take`, `CreateDelivery` and `DescribeDelivery` or
`RepeatDelivery`, `CreateEvent` and `KeyEvent` or `KeepEvent`, `CreateReceipt` and
`FileReceipt`, `Link`, `Reconcile`, `Rename`.  `PassOver` is the file another drain
moved, `Choke` a file the drain cannot read or parse, which ends the run.  Nothing
in the drain catches an error of Notion, so a call that fails ends the process:
`Dies`, possible between any two steps.  A create whose answer is lost is repeated
by the HTTP client (`http.ts`): `Created` leaves up to `MaxCreations` pages.

Abstractions: endpoints, sources and the normalisation of payloads are constants
(`Signals` are the files that become an event of a known source, `Matches` and
`Exact` the executions that fit by issue and by comment); the schema set-up at the
start of a drain is idempotent and left out.  Of several candidates the code takes
the first in Notion's order, the model any.

| Run | Instance | What it shows |
|-----|----------|---------------|
| `safeguards`, part mail | 3 files (two requests of one delivery, one whose body is not JSON and whose signature is invalid), 1 drain at a time, 2 runs, torn files, repeated creates | `MailIsFiledOnce`: one described delivery and one keyed event per id although runs die; the receipt count never falls behind |
| `stores`, part mail | 2 files, 2 overlapping drains that may die, 2 matching executions, a lane that records results | `MailIsHonest`: what leaves pending is recorded; a Processed delivery names its event; confirmation needs evidence |
| `arrivals`, part webhook | 2 overlapping drains that do not die | `DrainsEnd`: every listed file ends in processed/ and the drain ends |
| `webhook_listing` (violated) | a redelivery | the reconcile command never lists it |

Uniqueness of pages is checked for one drain at a time only: two drains that
overlap both miss the page in their snapshots and create it twice.  An execution
that a dead run left Started is never confirmed, since the drain matches
succeeded executions alone.

Two runs are enough for "dies at any step, is repeated and completes"; two files
of one delivery are enough for every use of the snapshot maps, which are keyed by
delivery.  `CHECK_DEADLOCK FALSE`: when all runs are used up the system is done.
Fairness is weak fairness of `Advance(p)`: a started drain is scheduled.

`WebhookSpoolProofs.tla` proves for any files, deliveries, keys, matches and events and
any number of drains and runs:

- `MailStaysHonest`: `MailIsHonest`, with drains that overlap and die and creates that
  are repeated.  `Honest` adds to the types what a drain carries from one call to the next (`Knows`):
  the deliveries and keys it remembers are on pages, the page it created is bare until
  it describes it, past the event and past the receipt these are there, and the
  executions it waits to confirm are not Started.  Two drains never describe one
  page (`Apart`).  It is kept because pages only gain content (`Grows`, of every step).
- `MailStaysFiledOnce`: `MailIsFiledOnce`, from `Serial`, as its run has it.  `Once` adds
  that one drain is busy at a time, and that it remembers from its listings on every
  described delivery with its count and every event key (`Aware`), so that it creates none
  of them anew; between raising a count and filing the receipt (`Counting`) the count
  is ahead of the receipts.  That the
  drain takes the first of its files is an argument by the least element: the order of
  numbers is well-founded (`NatLessThanWellFounded` of the library), which needs no
  induction theorem.

## 5. Runtime generations

`RuntimeGenerations.tla` models `scripts/notion-runtime-generation.mjs`: `stage`,
`select`, `deactivate`, `reactivate` under the generation lock and `readback`
without it.  `fs` is the managed root (lock file, `current.json`, custody
directory, releases), `op` the processes, one step per file operation that others
can see: `Lock`/`LockHeld`, `Build` and `Publish` (stage), `Check`, `Move` (the
rename that commits), `Sync`, `Verify`, `Restore` and `Resync` (after a fault behind
the rename), `Unlock`, `Finish` (fsync behind the unlock), `CleanUp` (stage), and
`First`, `Stat`, `Second`, `Last`, `Report` of a readback.

Around it: `Crash` (a process dies and leaves its lock), `PowerLoss` (the file
system comes back with any image since the last fsync, `past`; this assumes a
journalling file system, which keeps renames in order), `io` (renames and fsyncs
that fail), `Drift` (a release file changes), `Tamper` (a custody file is
replaced), `Recover` (a person removes the lock of a dead run).  `told` is history:
what the receipts and errors say of the selector.

`SelectorRegister.tla` is the abstract specification, an atomic register with
compare-and-set; `ImplementsRegister` is checked under the mapping
`selector <- fs.pointer`, `shelf <- ` the files in custody.

| Run | Instance | What it shows |
|-----|----------|---------------|
| `stores`, part generations | 2 processes, 4 runs, 2 commits, crashes, failing operations, drift, recovery | mutual exclusion, restoration or an honest error, refinement of the register |
| `desk`, part generations | 2 processes, 3 runs, crashes, failing operations, power losses, replaced custody files | `PointerIsGenuine`: a replaced selector is active only under the lock; a verified readback saw one file throughout |

Any commits may have been staged before the first run, so four runs reach a
selection over a selection, its deactivation and a concurrent fourth run.
`CHECK_DEADLOCK FALSE`: when the runs are used up the system is done.  There is
no fairness: the script has no loop and no retry, and a stale lock is meant to
block.  `select` alone has no restoration: when its fsync or its last validation
fails behind the rename, the error reads like one before it; in the model its
operator no longer knows (`Tells`).

`RuntimeGenerationsProofs.tla` proves for every set of commits and processes, any
number of runs and, but where a hypothesis says otherwise, any subset of the events:

- `TypeCorrect`: `TypeOK`.
- `LockKeepsApart`: `OneMutator`.  It is not inductive alone: `Numbered` (a run's
  number is its own) and `Holding` (whoever is in the critical section is named in
  the lock file) are added.  `Recover` keeps it because it asks for a dead run, and
  `PowerLoss` because every process dies with it.
- `SelectorIsStaged`: `SelectedWasStaged`.  `AllSound` adds that pointers in
  custody, in the hands of a run and in every image a power loss may bring back
  name staged releases, each image against its own releases.
- `ReadbackSawOneFile`: `ReadbackIsStable`.  No two moves of `current.json` share a change
  time, so a readback that sees the same time twice saw one file.
- `NoForgeryStays`: `ForgedOnlyUnderLock`, and with it `PointersAreGenuine`
  (`PointerIsGenuine`), without "recover": if a reactivation dies behind its rename and
  a person removes its lock, the replaced file stays selected.
- `ReceiptsHold`: `OperatorsKnow`, for every combination of the events; `told` is Unknown
  after a power loss or an error that asks for recovery.
- `SelectorIsARegister`: `Spec => Register!Spec`, without "power" and "tamper", as
  in the run that checks it: a power loss brings an older selector back, and an edited
  custody file is not what was put on the shelf, which is no step of a register.  The
  mapping is `selector <- fs.pointer` and `shelf <-` the custody files; only `Move` and
  `Restore` are steps of the register, every other action is a stutter.  `Registered` says
  of every run what the selector and its custody file hold at the point where it stands
  (`Keeps`), so that each rename finds what the register's step expects.

`IInv` is the conjunction of what these rest on; TLC checked it first.  The assumptions
are the four `ASSUME`s of the module: `None` is neither a commit nor a pointer, `MaxRuns`
is a number, the events are known ones.

## 6. Irreversible actions

`IrreversibleActions.tla` models `internal/notion-maintenance/irreversible-action.ts`
and its four surfaces (portfolio hygiene, support hygiene, schema migration and
its probe).  `page` is the workspace, `late` the writes whose request was reported as
failed and may still land, `envelope` what approvers signed, `files` the claims,
provider-operation claims and receipts with what of them is durable, `proc` the
runs.  A run goes through `Begin` (the plan is rendered again and compared with the
signed one), `Recheck`, `Claim` and `KeepClaim` (exclusive create, then fsync),
`ClaimOperation` and `KeepOperation` (the same for the provider key), then per
effect `Check` (its prestate), `Send` and, where the surface does, `Prove`, and at
last `OpenReceipt`, `SignReceipt`, `KeepReceipt`.  `WriteFails`, `ReadFails` and `Fails`
lead to the failure receipt.  Around it: `Approve`, `Plan` and `Edit` by people, `Land` of a late
write, `Dies`, `PowerLoss` (what was not flushed may be gone).

Abstracted: digests, bounds and principals of an envelope are the plan it was
rendered from; the four surfaces differ in `Changes` and `Split` (which effects are
compared first and which are read back).

The part `actions` of `desk` has two approvals that share a provider key and two
runs of two processes, with an edit, crashes, power losses and failing calls.
`SpentOnce`: no two runs send under one key.  `ReceiptsTellTheTruth`: a receipt that
says succeeded has all its effects applied, one that says it failed before its effect
has sent none.  `NothingBlind`: a compared effect
replaces only what the approver saw.  `ReceiptFollows`: a run that sent something and
did not die files a receipt.  `OnlyHindrancesFail`: a fresh plan, undisturbed, does
not fail by its own earlier effects.

`IrreversibleActionsProofs.tla` proves all five for any number of approvals, processes,
runs, edits and failures and plans of any length; none is inductive alone.

- `KeysAreSpentOnce` and `ReceiptsAreTrue`.  `IInv` adds that a run from its
  provider-operation claim on (`Holding`) has its key claimed, and from its first effect
  on (`Working`) has it flushed; that no two runs hold one key (`Apart`); that whatever
  was sent or filed has a key that is claimed and flushed, so that no power loss frees it
  (`Secured`); and that a run which has not failed has applied every effect before the
  one it is at.
- `EveryRunIsAccountedFor` (`ReceiptFollows`).  `RInv`: a run that
  sent something is still at work, or its receipt is filed, or it died (`Followed`).
- `NothingIsReplacedBlindly` (`NothingBlind`).  `PInv`: plans follow the
  changes of their surface, and what a run has compared is still there when it sends,
  unless somebody raced it (`Compared`).
- `OnlyHindrancesDo` (`OnlyHindrancesFail`), where `PlansCohere`.  `UInv`: while nobody
  edited, one run began and nothing hindered it, the page is the one the plan was
  rendered from with the effects so far applied (`OnPlan`); TLC checked it on 450,098
  states.  It needs `LInv`, that late writes aim at the workspace.  `PlansCohere`: no two
  repairs of one hygiene plan concern one page, and a migration deletes a property once,
  creates one once, and with an identity that was not there before.  The builders see to
  it; the plans of `desk` satisfy it.  The corner it excludes is a source row that is the canonical one of
  one repository and a paused duplicate of another, which gets two effects (section 8).

They rest on the module's `ASSUME`s.

What the code does not do, and the model has: the action claim is taken before the
operation claim, so a refused operation leaves an action that can neither run
nor be receipted again; a torn receipt cannot be replaced.

## 7. Generation consumers

`SnapshotExport.tla` models `export-project-snapshot.ts` with `runtime-generation.ts`
and `portfolio-generation-reader.ts`.  A run is `Start`, `Manifest`, `IsCurrent`,
`Pointer`, `Release` (the checks that it runs from the selected, intact release),
`Config` (the pinned digest), `Fetch`, `TruthPointer` and `Artifacts` (or `NoTruth`),
`Snapshot`, `Sync`, `Rename`, `SyncDirectory`.  Meanwhile operators select (`Selects`),
the auditor publishes and prunes (`Publishes`), releases and artifacts rot (`Rots`,
`ArtifactRots`), commands save the config (`Saves`), runs die, the machine loses power
(`PowerLoss` brings back any image in `past`).

`SnapshotsStand` (part snapshot of `safeguards`, two overlapping runs): the file was
exported by a runtime that was selected during its run, with its pinned config,
or from the checkout by somebody's opt-in (`ExportedBySelected`), from one portfolio generation throughout (`OneTruth`), is
complete also after a power loss (`SnapshotIsWhole`), and a run that reported success
is still in place or was replaced by a later rename (`ReportedStays`).

`SnapshotExportProofs.tla` proves all four (`ExportsAreAuthorised`, `SnapshotsAreTrue`,
`ExportsAreWhole`, `ReportsLast`) and together `SnapshotsAlwaysStand`, for any runtimes,
generations, pages and runs.  `IInv`: a running run has noted the selection of the
moment as one it saw; past the pointer check its release is among them; past the
config check it has a pin; and the file and every image in `past` are authorised and
complete, because the rename follows the fsync of the temporary file.  `TInv`: the
generation a run names was the auditor's while it ran and the states it holds are that
generation's (`Learned`), and so are those of the file and of every image (`TrueKept`).
`LInv`: a run that renamed is followed by whatever the path holds (`Later`), and once it
reported by every image in `past` too, since its fsync of the directory emptied `past`.  The hypotheses: `None` is no number (a config's
content is a number and "no pin" is not) and no snapshot (`NoneIsNoSnapshot`: "no file"
is told from a file), and the auditor files no empty classification (`StatesAreNamed`;
`export-project-snapshot.ts:263` takes strings alone).

Limits: a release or generation is whole or not; pages are fetched in
several requests, so a snapshot is of no single moment; of two overlapping exports
the later rename wins even with the older data; a failing directory fsync is
reported as a failure though the new file is in place; a killed run leaves its
temporary file.

## 8. Hygiene

`SupportHygiene.tla` (`support-database-hygiene-pass.ts`): `Render` computes the plan
(groups of one title, configured merges, sandbox pages) with the operators `Groups`,
`GroupMerge`, `ForcedMerges`, `EffectsOf`; `Apply`, `Verify` and `Archive` carry it out
effect by effect; `Link` is a person who links a page to a project meanwhile.
`HygieneSafe`: every project link of a removed page ends on its canonical page
(`LinksCarried`), the run does not fail by its own writes (`OwnPlanSucceeds`), and a
finished run leaves no duplicate (`LeavesNothing`).  Two things are excused by name:
two merges into one page, of which the later overwrites the relations of the
earlier (`Disjoint`), and a page that one rule keeps and another removes
(`Untangled`), where the plan stops half-way.  Relations are one-way in the model.

`PortfolioHygiene.tla` (`notion-hygiene-pass.ts`): one `Pass` chooses the canonical
project and source row of a repository from scores over titles, identifiers and
contents, archives twins, pauses and repairs.  Up to three passes over every
starting workspace of the instance: they come to rest (`Settles`), one active source
owns the repository (`OneOwner`), and only twins are archived (`TwinsOnly`).  The
archived intake row takes 20 points with it and can tip the choice once, which
`Settles` allows.  One repository is modelled; a source row that two repositories
match gets two effects, of which the second fails its check.

## 9. Bridge and signals

`BridgeSync.tla` (`bridge-db-sync.ts`, `bridge-db-mcp-client.ts`): per row `Lookup` by Sync
Key, `Create` (or `CreateRepeated`, by the HTTP client), `Confirm`; `CallFails` and `Ends`
at any step.  Shipped rows keep a disposition, personal-ops rows are read from a
window (`ReadOps`).  `BridgeSafe`: one page per row unless two runs were between lookup
and create at once or the create was repeated (`OnePagePerRow`), and a confirmed row
names its own page (`ConfirmedByItsPage`); both are in `BuildLog.tla`, the state the
commands share.  `RecordsArrive`: every shipped row with a target is confirmed in
the end.  Rows without a target are never processed and may fill the limit; the
instance stays below it.

`WorkspaceProofs.tla` proves `BridgeStaysSafe` (`BridgeSafe`) for any rows, dispositions,
limit, commands and faults.  The invariant adds that a run at its create is either
the only one there with its row, or no page has that row's key, or the row is excused;
and that a run at its confirm holds a page with its row's key.  Pages are only ever
appended, so what a lookup found stays found.

`SignalSync.tla` (`external-signal-sync.ts`, `signal-watermarks.ts`), over the rows,
briefs and cursor of `SignalRecords.tla`: the hub's log
(`Logs`, `Rotates`), the deployment (`Deploys`), and a run that reads, dedupes by event key,
creates a page in two calls (`Create`, `Describe`), updates, writes the cursor (`Mark`)
and the brief (`Evaluate`, `Compose`, `Hash`, `Body`).  `SignalsKept`: the cursor
passes no line whose row is missing (`NothingSkipped`), one row per signal although
runs overlap, except for keys two runs were creating at once (`OneRowPerSignal`), and a
brief holds what its hash says unless the run died between the two
(`BriefsAreWhole`).  `RecordsArrive`: every line of a project gets its row and every
stage of a deployment is shown.  Left out: GitHub and the repository auditor.  The
cursor is loaded, merged and written without a lock, a line of an earlier day than
its predecessors is not looked for (`Late`), and a bare page that a crash left is
not matched again.

`SignalSyncProofs.tla` proves `SignalsStayKept` (`SignalsKept`) for any log, projects in
it, limit of events (`MaxEvents` is a natural number; a limit below 1 takes one event,
as 1 does), scopes and processes that overlap and die.  None of the three parts is
inductive alone, because a run works from what it read.  The invariant says what a run
in its pass carries:

- a line up to the one it will move the cursor to has its row or is still to be written
  (`Owed`), which needs that it took its lines from the front of the log
  (`TakenFromFront`) and that those dropped as covered are behind the mark (`Fresh`);
- a key still to be written has no row, unless two runs were creating it at once
  (`Awaited`), and the deployment's row it found is still the deployment's (`Kept`);
- the page it describes is bare (`InHand`) and no other run's (`Apart`);
- the brief it writes is there, and between the hash and the body, or before the hash of
  a new page, the other half is the run's own unless the page is torn (`Briefed`).

A step changes the rows in one of two ways (`RowsStep`): not at all as far as keys go, or
by giving the key in hand its page.  One lemma shows that either leaves what the other
runs carry as it is; the same holds for the briefs (`BriefsStep`).

## 10. Derived fields

`LinkSuggestions.tla` (`link-suggestions-sync.ts` and the accepted links of
`intelligence-sync.ts`): `StartPropose`, `Propose`, `StartApply`, `ApplyToProject`,
`ApplyToTarget`, with people who `Decide`, `Relink` and `MoveLane`.  `LinksSafe`: a
rejection that a run had read is not put back to Proposed; an accepted link is
written on both sides and none that was there is lost while nobody else writes, unless
two accepted ones write the same relation, where the later may drop the earlier.
The order of candidates with equal confidence is left open, titles are distinct.

`WorkspaceProofs.tla` also holds `LinksStaySafe` (`LinksSafe`), for any projects, library,
kinds, texts and turns that people take, from `LinksAssumption`: every page of the library
has a kind, and relations hold pages of the library.  `LinksInv` adds to the shapes
what the two runs carry: of the suggestions a run has chosen those it read as decided are
accepted (`ReadAccepted`: a rejected one is not eligible, and one that is decided anew is
not as it was read); and an undisturbed run has lost no link, and each accepted suggestion
it is done with is linked on its project, then on its target, by itself or by a later one
of the same relation (`AppliedSoFar`).

`Recommendations.tla` holds the rules of `local-portfolio-intelligence*.ts` and
`local-portfolio-external-signals*.ts` as operators; `ProjectSignals.tla` the three
commands that write their results (`PatchDerived`, `RecommendPage`, `RecommendBrief`,
`PatchSignals`).  `FieldsSettle`: after one undisturbed pass in the order of the weekly
refresh every derived field is what its page says, a second pass patches nothing, and
who is to be rescued is urgent.  `BlockersNeverHelp`: more blockers never speak for
going on, nor does evidence that ages.  A brief gets its hash
before its body, so one whose run died in between passes as current (`torn`).
Scores are integers in the model, fractions in the code.

`WorkspaceProofs.tla` proves both for any projects, contents, edits, days and failures.
`DerivedFieldsSettle` (`FieldsSettle`) rests on `FieldsInv`: a run that has its turn brings
about what its command derives, be it in the page already or in the patch it still holds
(`TowerAhead`, `BriefsAhead`, `SignalsAhead`); a run without its turn has nothing settled
from its own place on, and none with its turn there (`TurnsTaken`); and only a torn brief
has a hash that is not its body's (`HashesKnown`).  A recommendation rests on the facts and
on queue and freshness alone (`SameRecommendation`), so what the later commands write does
not disturb the earlier.  That rescues are urgent needs `WindowsAssumption`: active projects
are to be reviewed before their evidence is stale, as both config files have it (7 and 45
days); the code does not enforce it.  TLC checked `FieldsInv` over the `desk` instance
before it was proved.  `BlockersStayHindrances` (`BlockersNeverHelp`) goes through every
factor, its clamps and the roundings, for any facts of the right types (`BlockersHinder`,
`AgeHinders`).

## 11. Pages

`Markdown.tla`: bodies as sequences of text, sections and child pages.
`ManagedPage.tla` (`managed-markdown-*.ts`, `http.ts`, `direct-notion-client.ts`): `Begin`
reads the page and prepares a replacement of one anchor; `Answered` and `Lost` are the
request with and without its answer, repeated by the HTTP client; `ReadBack` and
`Fallback` are what follows an ambiguous answer; `Add` is a person.  `PagesSafe`,
`PagesKeep`: what a running command found on the page and does not own is kept, a
sync that reports success has shown its section, no patch removes a child page.
Commands run one after the other; a write that lands after its time-out is left out.
A blocked update falls back to an insertion and may leave two sections.

`Publishing.tla` (`src/publishing/*`): `Begin`, `Locate`, `Guard`, `Answered`/`Lost` per
write, `Wait` (templates fill late, `TemplateFills`), `ReadBack`, `Verify`, for 16
destinations of all modes.  A dry run writes nothing and a live one what its
destination names (`WritesWhatItNames`); a template does not replace the text
afterwards (`TextStays`).  A guard that refuses updates does so after the
properties were written; an append whose answer was lost is applied twice and still
verifies; a repeated create leaves two pages.

## 12. Weekly refresh and config

`WeeklyRefresh.tla` (`weekly-refresh.ts`, `weekly-refresh-contract.ts`,
`command-center-replacement.ts`): `Run` is the parent (dry pass, `Decide`, `Recheck` of
support, live children in order, `Record`, `Fresh`), `Child` the sync it waits for
(`Begin`, `Rows`, `Center`, `Archive`, `Save`).  `Dies` is a child that is killed, its
patch in flight landed; `Crash` the parent.  `WeeklySafe`: the config names a
command-center page that is not archived (`CenterIsLive`), forgets no lane's sync
(`SyncsKept`), a run recorded as healthy brought every lane up to date
(`RecordIsEarned`), and no live child ran without a recheck that found support clean
(`LiveIsVouched`); they are in `WeeklyState.tla` with the state they speak of.
`RecordsArrive`: what a lane's sources say reaches its rows and its section
(`Refreshes`).  The full run only: `--only`, `--skip`, `--fast`, the signal lane's batches
and catch-up days are left out.  A failed full run still sets
`weeklyRefreshLastRunAt`; the batches of the intelligence and execution lanes index
a list that shrinks between live batches.

`WeeklyRefreshProofs.tla` proves `WeeklyStaysSafe` (`WeeklySafe`) for any lanes in any
order, any versions, pages, attempts and faults, from `LanesAreListed` (there is a lane,
as in `WEEKLY_STEP_KEYS`; the run's instance satisfies it).  `RecordIsEarned` is what takes
an invariant: `Ran` (where parent and child stand agrees, and no child runs unvouched),
`Held` (what a child has read is still so, and the page it took from the config is live), `Fresher` (every lane that this run passed without trouble is current
in its rows, on the page the config names and on the page a running child will name
instead) and `Earned` (what the last healthy record claimed stays so: versions only
grow and a replacing page takes over all sections).  TLC checked these four on 2.4
million states.

`ControlTowerSchema.tla` says path by path what the loader of `control-tower/config.ts`
accepts and hands on; `ControlTowerConfig.tla` has the commands that save the file
(`StartCommand`, `CreateDatabase`, `Complete`, `SaveSchema`, `PublishCommandCenter`,
`LogCloseout`, `SaveRecord`, `EndUnsaved`, `Killed`), each working from the reading it
began with and saving it whole (`SaveWhole`).  `ConfigKept`: nothing that commands one
after another wrote is forgotten (`NothingForgotten`), every created database is named
(`DatabasesNamed`), and the closed phases agree with the Build Log (`LadderHolds`).
`ConfigLoads`: what was written whole can be loaded.  Excused by name: overlapping savers
(whole-file saves lose each other's fields), a run that died between create and save, an
ensure that saves nothing, and metrics over an empty project list, which no command can
load again.  A file that people wrote by hand with another version, contradicting URLs or
empty objects is left out.

`WeeklyRefreshProofs.tla` also holds `ConfigIsKept` (`ConfigKept`), for any first files,
commands, phases and runners, from `ConfigAssumption`: a first config names no database
that a command created and no closed phase, and only known commands are asked for.
`TowerInv` adds what a run carries: where it stands goes with its name
(`CommandsOnTheirWay`); a created database has the path it was created for
(`DatabasesHavePaths`); every reference to one, in the file and in a run's reading, is at
that path, and phases are numbers (`ConfigsTrue`); the fields kept are known ones
(`KeptKnown`); a run that is alone has read the file as it stands, apart from what it added
(`AloneIsCurrent`); and a run holds what it created (`DatabasesHeld`).  A run that is not
alone saves over others, and `kept` and `lost` are what it does to them.  TLC checked the
invariant with two commands (56,754 states) before it was proved.  `ConfigLoads` is only
model-checked: it goes through the schema field by field.

## 13. Follow-through

`KickoffPackets.tla` (`orphan-classification.ts`): `Classify`, then `Request` and
`FillRequest` per orphan, or `ReadApprovals`, `Create` and `FillPacket`.
`CoordinationIngest.tla` (`coordination-snapshot-ingest.ts`): `Accepted`, `Severity`,
`Display` and the live writes `Look`, `Update`, `Create`, `Verify`, `ReadBack`.
`PacketFollowThrough.tla` (`packet-follow-through.ts`, the prioritizer and the execution
metrics): `FollowUpExisting`, `FollowUpAnew`, `Fill`, `Publish` and the scores.
`PacketsFollowed`: no packet is Ready before somebody approved its project or asked
for it, none twice, none reset while somebody works on it; each packet at risk has one
open task after a run; an ingested snapshot leaves one page per row and is said
written only if it is there.  A packet in trouble (blocked, overdue, or with such a task)
is always an item, and of the packets that are neither kickoffs nor repairs only one at
work with a higher priority may stand before it: in progress on Now scores up to 63, merely
overdue 51.  Kickoffs (70), repairs (80) and stale support rows (90) may stand before both.  Distinct project titles are
assumed; a request that a run died on while bare is never matched again; a
re-request overwrites a decision; older snapshots overwrite newer ones; a finished
follow-up is put back to Ready by the next run.

`Rollouts.tla` (`operational-rollout.ts`, `cohort-rollout.ts`): `Move`, `Decide`, `Source`,
`Align`, `AskAgain`/`Ask`, `Fill`, `Finish` of two overlapping kinds of run, and the children
a run starts: `Rehearse` (the dry run) and, with `--run-pilot-live` or `--run-live`,
`TakeUp` (the live child reads request and ledger) and `Issue`.  `Endings` is how a live
child may end: recorded; dead or failing before the issue is sent, after it, or after
its row; the answer lost, which the catch block files as Failed; or Failed over a
request already filed as Executed.  It may outlive its run.
`RolloutsSettle`: prefixes do not pile, a second rollout over an unchanged portfolio
changes no text, what is filed as approved somebody approved, the pilot is a project
at work, and `RecordedOnce`: no payload with a Succeeded row is issued again, and a
request that was filed as Executed stays so and is not issued again, unless a run wrote
over a status that had changed since it read it (`overtaken`).

It does not say that a request is carried out once: the code does not see to that.  An
issue whose answer was lost, or whose child died before its row said Succeeded, leaves the
request Approved; the next rollout keeps it so, and once it is rehearsed it is issued
again (`unsure`), as the runs `failed` and `replay` show for the action runner.
Children of two runs that hold a request at once both issue it (`raced`).  The payload
of a cohort's request has the prefixes of the runs before in it, and an empty next move
gets another default text once it was written: then the duplicate check sees a new
payload, which may have a Succeeded row of its own.  Under the shipped configuration
(`requireApproval`, Single Approval) a rollout's own approval is never enough to issue:
requester and approver are both the default owner, so a request passes its dry run only
if somebody else is added between the rollout's write and its child (`Sign`).

Only the operational prefixes are meant: a cohort run does not strip its own, so texts
grow when the two kinds alternate; decisions of an earlier classification stay committed.
The baseline commands, the syncs between a run's steps (and the expiry of requests they
bring) and dry-run reports are left out; a dry run without a live one is one that is
skipped or passes.  The writes of a live child are one step here; `GovernedActions` takes
them apart.

## 14. Project rows

`ProjectRows.tla` (`github-notion-catch-up.ts`, `create-local-project-rows-from-truth.ts`):
`ReadsForCatchUp` lists both databases once, then per repository `Source`, `LookUp`,
`Create` and `Describe`, or `Rewrite` and `Body`, and at the end `SaveSeeds`; `ReadsTitles` and
`CreateRow` are the other command.  People rename pages.  `WorkbookImport.tla`
(`publish-notion.ts`): `ImportFresh`, or `ListExisting`, `UpdateProperties`,
`UpdateBody`, `CreatePage`.  `FieldFill.tla` (`fill-empty-local-project-fields.ts`): `Start`
reads every page and plans a value for each empty field (`buildFieldPlan`), `Write` and
`Refused` are the updates one by one, `Finish` ends the run.

`RowsComplete`: serial catch-ups give each repository one project, one source and one
seed, also after one that died; an import leaves one row per title and an update rows
that follow the workbook; the backfill replaces nothing people gave, comes to rest and
is not stopped by a refused page.  Limits that are in the code: two repositories with one
display name share a source row; a run that dies between create and describe
leaves a bare page that is not matched again, and loses the seeds of that run;
`listExistingPages` sees 100 rows, so that updates beyond duplicate (`Limit` is 3 here,
excused as `Listable`); a page with only a Summary never gets its pitch.  All fields of
`LiveProjectSnapshot` are there; a value is the set of words it says, so that a text put
together of others says what they say.  The reads of one listing are one moment.

## Findings

Six runs expect a violation; `findings` in `PROJECT.json` quotes the lines.

| Run | What the code does | What is said of it |
|-----|--------------------|--------------------|
| `failed` | files Failed also for an exception behind the provider's write | the incident runbook: no partial state change |
| `redeploy` | reads the latest deployment again when live | the runbook: the dry run shows the exact id |
| `replay` | leaves Approved after Compensation Needed | one approval, one execution |
| `webhook_listing` | marks duplicates in a property the listing does not read | the test expects them listed |
| `acceptances` | proposes anew what was accepted and not yet linked | the roadmap: acceptance and rejection memory |
| `read_back` | retries with the text computed before the read-back | the test's name: recomputes from it |

## Not modelled

- Command lines, configuration of profiles, logging, printed reports, Notion views
  and their schema set-up (`src/cli`, `src/logging`): no state that another component
  depends on.
- Pure derivation and parsing without a control flow of its own:
  `portfolio-audit/project-intelligence.ts`, `github-knowledge-audit.ts`,
  `repo-mapping-audit`, the rest of the property parsing in
  `local-portfolio-actuation.ts`, the wording of all pages.
- `vercel-rollout-readiness`, the profile commands, `snapshot-history`: each reads once
  and writes one file or one report.
- Targeted weekly runs and the batches of the signal lane; the GitHub and auditor
  sources of the signal sync; the baseline commands of the rollouts.
- Two hazards have no property: the expiry pass that writes over a newer decision
  (`action-request-sync.ts:207`), and the drain that without a comment id confirms the
  first candidate (`webhook-shadow-drain.ts:782`).  The code makes no attempt to
  prevent either, so there is nothing to hold it to; both steps are in the models.

Only model-checked: all liveness, which is out of the prover's reach; what recursive
definitions compute (rendered plans, page bodies), since the library's induction
theorems take an operator that no installed prover can instantiate; and every module
without a "yes" in the plan table.  Two things that are proved are
looked at by other means in the runs: `EffectWasRehearsed` of the rollback part is the
same definition through an instance, and `PointerIsGenuine` is checked by `desk` through
its instance of the generations under power losses and replaced files.
