# A TLA+ model of the campaign engine

Anchor changes prices on Shopify in bulk: a *campaign* names variants and a rule, is *applied*
(the sale goes live), and later *reverted* (the prices from before come back).  The program is a
web process and a worker over one Postgres database and one Redis queue.  What must not happen is
two writers on one variant, a price nobody recorded, a sale that outlives its campaign, or a
campaign that says it is finished when it is not.  This project models the parts of the code those
promises rest on.

Lines are quoted as `path:line`, with `path` below the repository's root; a bare file name is in
`app/services/` or `app/services/campaigns/`.

## 1. Inventory

| Part | Where | State it keeps | Operations | What is hard | What makes it correct |
|---|---|---|---|---|---|
| Runs and claims | `app/services/campaigns/{run,lifecycle,queued-run,reaper,schedule-control,variant-action}.server.ts`, `app/worker/handlers.server.ts` | `Campaign.status`, `CampaignRun.status`, queue jobs | apply, revert, hand over, claim, release, reap, hold, cancel | presses, ticks, jobs and scoped actions interleave; processes die; statements of the recovery fail | one writer per campaign; no claim outlives its call; rows end and stay ended |
| Ledger and price writing | `execute.server.ts`, `mirror.server.ts`, `app/lib/execution/*` | `VariantChange` rows, `BulkOperationRecord`, the mirror (`variant_index`) | plan, write rows, send, read back, record, settle the mirror, resume, settle a dead run's bulk operation | crash between a write and its record; a bulk operation that outlives its run; a read-back that fails | a run that says it finished put every price live; the mirror holds no price nobody checked |
| Overlapping campaigns | `model.server.ts`, `candidates.server.ts`, `handover.server.ts`, `drift.server.ts` (whom to ask), `app/lib/planning/{plan,handover}.ts`, `app/lib/pricing/resolver.ts` | scopes, ledger rows of several campaigns on one variant, the variant's open question | plan over everybody, hand a variant over, take back what another's revert wrote | who priced a variant is worked out anew from today's scopes and questions | the price up is the winner's; no price outlives its campaign; an edit is asked of the campaign it replaced |
| Pricing and planning | `app/lib/pricing/*`, `app/lib/money/*`, `variant-revert.server.ts`, breach policy | terms, baselines, the store's floors, `excludedVariantGids` | rule, rounding, floors, compare-at; start, end, let a variant out, take it back | boundaries of rounding against floors; a policy that is kept beside floors that are not | a planned price is allowed and keeps its direction; what is shown is what resolves |
| Baselines and recapture | `baselines.server.ts`, `recapture*.server.ts`, `recaptured.server.ts`, `flow/flow-capture.server.ts` | the current baseline, `baseline_recaptures` | capture, import, keep, recapture from page, worker and Flow | a look at the running campaigns and minutes until the record; a process taken for dead | a baseline is never an unagreed sale price; the page says what happened |
| Mirror versions | `mirror-version.server.ts`, `products-webhook.server.ts`, `catalog-*` | `variant_index.price / remoteUpdatedAt / syncedAt`, `price_surface_entries` | delivery, sync page, settle, audit | late, repeated and reordered reads; second-granular stamps | an older read never replaces a newer price |
| Drift | `drift.server.ts`, `drift-queue.server.ts`, `reassert.server.ts` | drift events, write intents | detect, hold, put back, adopt, keep, release | our own echo after the intent's lifetime; an answer beside the webhook | a merchant's edit holds the campaign, an echo never does; an answer stands |
| Webhook queue | `webhook-queue.server.ts`, `app/worker/{queues,queue-runtime}` | `webhook_events`, one job per shop | persist, ring, drain, set aside | death of a drain, lost jobs, redelivery | a product's newest delivery is the last one handled; none is stranded |
| Scheduler | `scheduler.server.ts`, `app/lib/scheduling/*`, `start-*.server.ts`, `app/worker/leader-lock.ts` | the campaign's window, the refused start, occurrence keys, the leader key in Redis | tick, claim for schedule, refuse, retry, new dates, confirm | a tick longer than the lock; a list older than the campaign | a start completes once; attempts are bounded; dates stand |
| Enrolment | `auto-enroll.server.ts`, the tick's drain in `scheduler.server.ts` | the campaign's mark and its variants | mark, claim, run | mark cleared before the run; a revert between the drain's look and its run | a product that joins is priced; nothing goes on sale after a revert |
| Sync jobs | `sync-job`, `catalog-sync`, `catalog-bulk-sync` | a claim with a heartbeat | claim, heartbeat, release | takeover of a slow process | one sync at a time |
| Markets, tags, approvals, billing, notifications, pages | the rest of `app/` | their own rows | | | left out, see section 8 |

How they meet.  A page or a Flow action calls `runCampaign`; the scheduler's tick claims and then
calls it; a press that is too large for a request claims and enqueues a job, and the worker calls it
with the claim.  `runCampaign` wraps `executeCampaignRun`, which claims (unless the claim is
there), resolves the plan over every campaign that is pricing, from the mirror and the baselines,
creates the run row, writes ledger rows, sends prices, records what
came back, corrects the mirror, finishes the run row and moves the campaign on.  Shopify answers
each write with a webhook, which the route persists and the queue's drain hands to the mirror, the
drift detector and the enrolment, in that order; drift holds the
campaign, enrolment marks it for the tick.  The reaper, in the tick, ends the rows of processes that
went silent.

`PROJECT.json` lists every component, and under `hazards` what each one could get wrong at which
line, with the property that watches it or the reason none does yet.

## 2. Plan

The order is that of the damage a fault would do: first who may write, then what is written and
recorded, then what the mirror learns from outside, then who starts runs and when.

| Step | Module | Abstract specification | Run | Proved |
|---|---|---|---|---|
| 1 | `CampaignRuns` | `RunRows`: a row opens once, ends, stays ended | `claim`, `two` | types, one writer, exclusion, claims given back, legal moves, the safety half of `RunRows` |
| 2 | `Ledger` | `CleanReport`: what COMPLETED promises | `thrice`, `gaps` | types, its two invariants of operations, the mirror's honesty, `CleanReport`, that settled rows stay |
| 3 | `MirrorVersions` | | `late` | types, its invariant and its action property |
| 4 | `DriftHold` | | `asked` | types, its three invariants and its two action properties |
| 5 | `WebhookQueue` | | `queue` | types, its invariants and its action property |
| 6 | `Schedule` | | `tick` | types, its invariant and its action property |
| 7 | `Enrollment` | | `enrol` | types, its invariant and its action property |
| 8 | `Baselines` | | `capture` | types, its invariants and its action property |
| 9 | `Overlap` | | `overlap` | types, its invariants and its action property |
| 10 | `Pricing`, `LivePrices` | the resolver over the campaigns that run | `prices` | types, its four invariants |

Left: the claim and heartbeat of a catalogue sync, approvals, and the markets' second surface.

Each module takes one of the interfaces above apart and keeps the rest whole; what one module does
in a step, the module named in its header takes apart.  They are not composed into one specification:
its states could not be enumerated, and each interface is small (a status, a price, an open question),
so that the neighbours are represented by every step they can take on it.

## 3. Modules

Where the code leaves a gap that breaks its promises, the module has the step that goes through it
and a constant that opens it: `Weak`, the set of gaps that are open, or a Boolean (`FalseReclaim`,
`Faults`, `Overtaken`, `Overlaps`).  With a gap open the model is the code as it is; with it closed the
step waits for the moment at which it does no harm.  Every gap that refutes a promise has an entry in
section 6.  So a property that holds with the gaps closed says that these gaps are the *only* ways
to break it.

### CampaignRuns

One campaign and the calls of `runCampaign` for it.  `Full` and `Scoped` are
sets of calls; each goes once through the stages of `pc`.  A stage ends wherever the code awaits
something another process could change before the call acts on it.

| State | In the code |
|---|---|
| `status` | `Campaign.status` |
| `run[p]` | `CampaignRun.status` of the row call `p` created; the partial unique index `campaign_runs_one_live_run` is the guard of `CreateRun` |
| `seen[p]`, `before[p]`, `handed[p]` | what a transition or release read; `stateBefore`, `claimedFrom` or `started.releaseTo`; the state `queueRun` puts into the job |
| `jobs` | execution jobs in Redis |
| `reap[p]` | how far the reaper is with row `p` |
| `mover` | what the merchant or the drift detector is about to do, having looked at the status |
| `holding` | history: which full calls' claim has stood since they took it |

`transitionCampaign` and `releaseClaim` read and then update on condition of what was read, so each
use of them is two steps (`Claim`/`ClaimWrite`, `Final`/`FinalWrite`, `Stop`/`StopWrite`,
`Release`/`ReleaseWrite`, `ReapRead`/`ReapWrite`) with every other actor in between.  `MoverLooks`
looks at the status, and `Hold`, `ReleaseHold`, `CancelScheduled` and `Unschedule` move later, by what
`transitionCampaign` then finds; that one such move is in flight at a time is a bound.  `Throw` is any
exception, `Crash` the death of a process,
`JobDropped` a job that the worker takes and drops (shop uninstalled, no session).
`FalseReclaim`, `Faults` and `Movers` switch on, in turn: the reaper taking a live but silent run
for dead; failures inside the recovery code (the tick's query before the call, the catch, the
reaper); the merchant and the drift detector.

**`RunRows`** is what a reader of `campaign_runs` is promised, with `rows <- run`.

### Ledger

What one campaign's whole-campaign runs do with prices.  `CampaignRuns` shows that
they follow one another, so here there is one process at work, `pc`, and a number per run.

| State | In the code |
|---|---|
| `live`, `ver`, `op` | Shopify: the price shown, its `updatedAt`, and its progress through a bulk operation |
| `mirror`, `mver` | `variant_index.price` with its `price_surface_entries` row, and `remoteUpdatedAt` |
| `row[r][v]` | `VariantChange.status`; VERIFIED stands for CLAMPED too (`LANDED`, `landed.ts`) |
| `state`, `kind`, `rec` | `CampaignRun.status`, `.kind`, and whether it has a `BulkOperationRecord` |
| `got` | the executor's rows (`ExecutedRow`) before `recordResults` |
| `found` | `settledRunId` between `settleSubmittedBulk` and `settleMirror` |
| `campaign`, `before`, `reap` | as in `CampaignRuns` |

A call asks how the last bulk operation ended (`Ask`, `SettleBulk`, `SettleBulkMirror`), plans from
the mirror and writes its rows (`Start`), sends (`Send` and `AllSent`, or `Submit`, `Submitting` and
`ReadFile`), reads back (`ReadBack`, `EndRead`), records row by row (`Record`), settles the mirror
(`SettleOwn`), ends its row (`FinishRow`) and moves the campaign (`Final`).  `Throw`, `FailRow`,
`FailMirror` and `FailCampaign` are the catch; `ReapRow`, `ReapMirror` and `ReapCampaign` the reaper;
`ShopifyApplies` works whether or not anybody waits.  Planning with its claim, row and ledger rows
is one step: `CampaignRuns` is about what can come between those.  Settling the mirror is one step
though the code has four retried statements, because they are set-based, idempotent, and guarded so
that a webhook between two of them is left alone by both; planning between them is a case of the gap
"reaper", and the order of the two that say a price is unknown is `MirrorVersions`'.

Five gaps: "answer" (Shopify accepts an operation and the run does not get to record it), "look" (a
call has asked about bulk operations, and another run comes and goes before it goes on), "mirror"
(settling after a failure fails), "reaper" (a later run comes between two statements of the reaper), "status" (a later run begins
before the reaper has moved the campaign, which then reads PARTIAL over that run's claim).
With "reaper" open a later run stores an uncertain price, settles the
mirror to unknown, and the reaper then puts the older run's price back over it, for the next run to
take as already correct.

**`CleanReport`** is the promise to the merchant, over `live` and the last report alone.

### MirrorVersions

One variant's price in the mirror while everything that writes it is late: webhooks in any order and
handled twice, a catalogue page written after it was read, a run's settling, the nightly audit.  Time is
ticks, `PerSecond` to the second; Shopify's stamps are the tick its second began.

| State | In the code |
|---|---|
| `live`, `updated`, `sent`, `deletion` | the price and the product's `updatedAt` at Shopify, its `products/update` and `products/delete` deliveries |
| `index`, `surface` | `variant_index.price`, `price_surface_entries.livePrice` |
| `version`, `syncedAt`, `deleted` | `remoteUpdatedAt`, `syncedAt` and `deletedAt` of the index row |
| `intents`, `ledger` | write intents not expired; landed rows with the price replaced and the stamp |
| `run`, `hand`, `sync`, `heal` | the stage of a run's settling, of the delivery being handled, of a sync and of the audit |

**`MirrorTables`** is what a reader of the mirror is promised, over the two tables, the storefront and
whoever still has something to write; `MirrorVersions` extends it with who writes what.
`HeldIsNewer` is `mirror-version.server.ts`'s rule, and every writer of the mirror but the audit goes
through it.  Gaps: "check" (something writes the mirror between a webhook's version check and its two
updates), "heal" (the audit, which carries no version, writes beside a read still out), "echo" (a hand
edit to a price with an intent), "second" (an edit in the second of an earlier change, or a write
there whose answer is lost or that does not know what it replaced), "unknown" (a writer between the
two statements that say a price is unknown).  Another variant's change, or a write that is recorded,
may follow an edit within its second with no gap open.

### DriftHold

A price edited under a running campaign: the webhook that finds it (`Take`, `Find`, `Update` or
`Create`, `HoldLook`, `Hold`, `Mirror`), the answers one by one (`AnswerBegin` to `AnswerRelease`) and
many at once (`BatchBegin`, `BatchClaim`), the runs that put it back or write over it, and who lets go
of the hold.

| State | In the code |
|---|---|
| `status`, `ending`, `heldFrom` | `Campaign.status`; its latest whole run is a revert; the state in the audit log |
| `live`, `change`, `sent` | Shopify's price, how often it has changed, deliveries waiting |
| `surface`, `seen` | the mirror's price and the change it is from |
| `intents`, `baseline` | write intents, the current baseline |
| `events`, `made` | `drift_events` in the order created |
| `hook`, `answer[a]`, `run` | the delivery, each decision and the run in hand |
| `excused` | history: edits of which nobody had to be asked |
| `again` | history: variants with a delivery put back after its event was recorded |

A run's claim, row, plan and intents are one step, and whole runs begin from ACTIVE, PARTIAL and HELD
only.  One campaign, whose price is "sale" for every variant; batches of put-backs and a run's own
death are left out (the latter is `CampaignRuns`' and `Ledger`'s).  The ten gaps are explained at
`Gaps`; most are a decision, a webhook and a run with the same event in hand between two statements.

### WebhookQueue

One shop's deliveries, from the route that persists and rings (`Persist`, `Ring`) to the drain that
takes a turn of rows, reads a product's together, handles what `Coalesced` leaves and settles all it
read.

| State | In the code |
|---|---|
| `rows`, `unrung` | `webhook_events`; rows whose job has not been asked for yet |
| `job` | the shop's BullMQ job: waiting or active, its worker, its attempts, the successor stored while it works |
| `drain[w]` | a worker's drain: the products of its turn (`todo`), whether the turn was full, what it `read` and what is `left` to handle |
| `handled`, `beside`, `lost` | history |

A drain may throw at a row (`SetBack`, and `SetAside`, `SetAsideRest` at the last try), lose the
database (`DatabaseAway`), die or be taken for dead (`Dies`); a ring and the job may be lost.  Gaps:
"between" (it stops between setting aside the failed delivery and those read with it), "reopened" (a
set-aside delivery is sent again), "stalled" (a job is taken for lost while its drain goes on),
"sibling" (a delivery without a stamp, or one of several newest, fails for good).

### Schedule

One campaign's window and the workers' ticks.  A tick lists (`List`), picks an attempt (`Pick`), claims
(`Claim`), is refused, gives the claim back or runs (`Refuse`, `Release`, `Begin`, `Finish`), and looks
whether the end has come meanwhile (`After`); dates change, presses and confirmations come between.

| State | In the code |
|---|---|
| `now`, `status` | the clock; `Campaign.status` |
| `blob`, `dates` | `Campaign.schedule` with the refused start; the columns `startAt`, `endAt` |
| `rows`, `done` | runs by occurrence (`occurrenceKey`); those that completed, history |
| `run`, `tick[w]`, `confirm` | the live run; a tick's frozen list and what it has in hand; the blob a confirmation read |

**`ScheduleRows`** is what a reader of the window and of its scheduled runs is promised; `Schedule` extends it.

The leader lock is not a variable: it is renewed between ticks only, a long tick outlasts it, so any
ticks overlap.  `Overlaps` lets a change come between a confirmation's read and its write of the whole
blob.  `MaxAttempts` is 3 in the code and 2 in the run.  `Unschedule`, the presses, `Finish` with its
status and a run's writing are one step each; open-ended windows, a death between the claim and the
row (`CampaignRuns`), and the notice of a missed end are left out.

### Enrollment

A product that joins a running sale: its webhook mirrors it, decides and marks (`Deliver`, `Decide`,
`Mark`); a tick looks, fetches a client, takes the mark and runs over the marked variants (`List`,
`Check`, `Client`, `ClaimEnrollment`, `BeginScoped`, `LookForHolder`, `WriteScoped`) beside whole runs.

| State | In the code |
|---|---|
| `shop`, `scope`, `mail`, `hook[v]` | the filter's variants at Shopify and in the mirror; a delivery on its way; how far it is handled |
| `marks` | `enrollPendingVariantGids` |
| `status`, `latest`, `whole` | the campaign, the kind of its latest whole run, the whole run in hand |
| `rows`, `onSale` | variants with a ledger row since the last revert, and at their sale price |
| `drain[w]` | a tick pricing what is marked |
| `missed` | history: variants the code lets go of |

`Overtaken` lets a revert begin between a drain's look and its run's own.  HELD and the filter for our
own echoes are left out: every price a revert puts back comes round as an edit.

### Baselines

The reference price, the sale computed from it, and recaptures from the page, the worker and Flow.

| State | In the code |
|---|---|
| `live`, `mirror`, `base` | Shopify's price, the mirror's, the current baseline with its generation |
| `status`, `run` | the campaign and the run in hand |
| `stint` | what the ledger has of its writes since it last reverted: the price before the first, and all it wrote |
| `at[r]`, `over[r]`, `took[r]`, `row[r]` | a recapture: its stage, whether the phrase was typed, the price it read, its row in `baseline_recaptures` |
| `wrote`, `merchant`, `sold` | history |

Gaps: "looked" (a campaign goes live after the look), "unrecorded" (a sale is recaptured whose write the
ledger does not have, or what was read of one sale is recorded while the next is being written), "putback" (an edit is put back in a recaptured sale), "died" (a death between the
transaction and the row's update), "silent" (a process that works is taken for dead).  One variant,
one campaign, one price; HELD is in Running.

### Overlap

Several campaigns on one variant.  A plan resolves over everybody whose prices are up, an apply writes
the winner's price, a revert the winner's without its own campaign, and so may write another's price
under its own row; what is a campaign's to take back (`TakesBack`: what it wrote, or what another's
revert handed it) and whom an edit is asked of (`AskedOf`) is worked out from the ledger and the planner.

| State | In the code |
|---|---|
| `live`, `mirror` | the price at Shopify and in the mirror, named by whose it is |
| `scope` | the campaigns whose scope covers the variant now |
| `status`, `before`, `work[c]` | `Campaign.status`, the state a claim was taken from, the run under way |
| `ledger` | whole runs, oldest first, with the row each has of this variant |
| `event` | the campaign of the variant's open drift event |

A run is a claim, a plan with its row, and a write with all that follows.  Left out: single-variant
take-outs, put-backs, adopting, guardrail blocks, markets; a campaign enters a scope only before it runs
(`Enrollment` is about the rest), and an answer leaves the edit as it is.  Gaps: "beside" (two
campaigns' runs at once), "givenback" (a revert fails before its first price), "unlanded" (a stored but
unrecorded price is edited or leaves its scope), "forother" (an apply writes another's price),
"collapse" (an edit comes upon another's question), "during" (an edit, answer or change of scope while
a run is at work).  `StaysPriced` states prd E5; no run checks it, every instance violates it.

### Pricing and LivePrices

`Pricing` is the resolver's arithmetic as operators, in whole minor units: rules and their half-up
rounding, the roundings' names in a currency, floors and what a breach does, directions kept,
compare-at.  `LivePrices` is what a storefront shows while campaigns start, run again and end, single
variants are let out and taken back, and settings and costs change.

| State | In the code |
|---|---|
| `terms`, `base`, `store` | the campaigns' rules, the baselines, the shop's settings |
| `policy[c]` | the breach policy a campaign keeps from its start, or that it has ended |
| `excluded`, `landed` | `excludedVariantGids`; variants with a landed row |
| `live` | price and compare-at shown |
| `hand` | a `reinstateVariant` between its read and its write |
| `out`, `stale` | history: the merchant's last word; variants no run has planned since a change |

A run is one step that writes all it planned.  Gaps: "list" and "ended", what comes between the two
halves of a variant being taken back.

### MC modules

Each `MC...` module extends its module, names the sets the .cfg files assign, and defines symmetry and
views.  A view drops values no later step can read (a returned call's locals, which of two settled rows
is older); what it keeps is described at its definition.

## 4. Runs

| Run | Instance | Question | States |
|---|---|---|---|
| `claim` | `CampaignRuns`: 1 full and 1 scoped call, movers, 1 death, fairness | Do they exclude one another, does every call that returns leave its row over and its claim given back, does the campaign move legally, do rows end? | 304k |
| `two` | `CampaignRuns`: 2 full calls, faults in the recovery, movers, 1 death | Can two whole runs write at once? | 2.36M |
| `thrice` | `Ledger`: 1 variant, 3 runs, 1 edit, 1 death | Is the mirror honest, is PENDING unsent, does anything write beside a running operation, is COMPLETED true? | 728k |
| `gaps` | `Ledger`: 1 variant, 2 runs, 2 deaths, all five gaps open | What holds of the ledger whatever is lost? | 183k |
| `late` | `MirrorVersions`: 2 ticks to a second, 3 ticks, 2 runs, 2 edits | Does the mirror end at the price once everything is delivered, and does no older read undo a newer? | 1.76M |
| `asked` | `DriftHold`: 1 variant, 2 edits, 2 answerers, 1 run, 1 death | Is every edit asked about, no echo, is a hold a question, and does an answer stand? | 1.7M |
| `queue` | `WebhookQueue`: 2 products, 3 deliveries, 2 stamps, turns of 2, 2 troubles | Is no delivery forgotten, settled unseen, or handled after a newer one; is each settled in the end? | 818k |
| `tick` | `Schedule`: 2 workers, 2 windows, 2 attempts, 4 hours, 2 troubles | Do dates stand, does a start complete once, does a sale run and end by itself? | 346k |
| `enrol` | `Enrollment`: 2 variants, 2 workers, 2 edits, 3 presses, 1 trouble | Is a product that joins priced, and nothing after a revert? | 555k |
| `capture` | `Baselines`: 2 recaptures beside a sync, 1 edit, 2 runs, 1 trouble | Is a baseline the merchant's price, is no sale left up, does the page say what happened, is a sale price discounted only when asked? | 1.75M |
| `overlap` | `Overlap`: 2 campaigns, 5 runs, 2 edits, 1 change of scope, 1 trouble | Is the winner's price up, does none outlive its campaign, is an edit asked of the campaign it replaced? | 322k |
| `prices` | `LivePrices`: 2 campaigns, 2 variants, 1 change of settings or cost | Are planned prices allowed and of the right direction and ending, is what is shown what resolves? | 192k |

All pass; no gap is open in them but in `gaps`.  The properties are defined at the end of each module
with the code they are about.

Why the bounds are enough.  Where section 7 has a theorem, the bound is no part of the argument: the
theorem is for every number.  For the rest, and for the shape of each model:

- *Calls*: exclusion is between pairs; the third actor each argument needs (a tick that defers, a
  merchant who cancels, a reaper) is there in addition.
- *Deaths*: every death leaves the same row for the reaper; two in `gaps`, so that the recovery can die.
- *Runs*: an interrupted run, the one that finds what it left, and one more that trusts what that
  one wrote; in `Overlap` five, which is two campaigns on, one off, and two that find the rest.
- *Variants*: rows do not influence one another except through "every row of the run".  Two variants
  with two runs, one edit and one death hold too, 21 million states, for the inductive invariants of
  section 7 as well; four runs with three deaths and no edit hold for `ReportSpec`, 3.6 million.
  `DriftHold` with two variants and one edit holds `HoldIsAQuestion`, 1.6 million.
- *Edits*: one that nobody has seen and, where a question may be open already, one more.
- *Deliveries and stamps*: an older, a newer and an equal one, of a product and of another, in turns
  of two so that a turn splits them.
- *Time*: one window that has come and one that has not; two ticks of one second and one of the next.
- *Campaigns*: outranking and handing over are between two; three campaigns (5 runs, 1 edit, 1.38
  million states) and two with six runs, two changes of scope (1.22 million) hold too.

Deadlock is not looked for: bounds end every behaviour, and what must go on is stated as liveness.

## 5. Fairness

- `CampaignRuns` (`FairSpec`): weak fairness for each call's own next step, the reaper and the worker.
  A process that has not died goes on: every await in a run has a timeout or a bounded number of
  retries, so it ends or throws, which is a step as well.  The worker polls its queue, and the tick runs
  the reaper every thirty seconds (`scripts/worker.ts`, `scheduler.server.ts`).
- `WebhookQueue`: the route goes on to its ring, the tick rings for stranded deliveries
  (`RingStranded`), the worker takes a waiting job and a drain goes on.
- `Schedule`: each worker's tick comes round and goes on, the reaper runs in it, a run by hand ends.
- `Enrollment`: Shopify delivers, a delivery is decided and marked, a whole run goes on, each worker's
  ticks come round.

Presses, edits, ticks' moments, holds, deaths, lost jobs and throws are not fair: nothing says they
ever happen.  `Ledger`, `MirrorVersions`, `DriftHold`, `Baselines`, `Overlap` and `LivePrices` have
safety properties only.  Whether Shopify ever finishes an operation, or a merchant ever answers, is not
this code's to promise.

## 6. What the code does that its words do not say

Each has an entry under `findings` in `PROJECT.json` with the lines and the words.  None has a run of
its own; each entry names the instance in which TLC finds it, so opening that gap in the module's
.cfg reproduces it.

- `CampaignRuns` (no gap; two calls beside a third): a scoped call that throws gives back a full run's
  claim, and another scoped call writes beside it (one full, two scoped); a cancel between a claim's
  read and its write cancels a run that goes on (one full, movers); a tick that defers to a press leaves
  the press a claim it cannot give back (two full).
- `Ledger`: an operation Shopify accepted and no record knows ("answer"); a look that is old when the
  row is made ("look"); a catch whose settling fails and whose claim is given back ("mirror"); a reaper that
  settles the mirror after a later run did ("reaper"), or that says PARTIAL over a later run's claim
  ("status").  The last one was found by a proof: `ReportInv` was not inductive over `ReapCampaign`.
  And two of comments alone: no sweep returns to a run that is PARTIAL, and `maxAttempts` counts the
  attempts of one run.
- `MirrorVersions`: the surface is said to be unknown before the version is ("unknown"); a version is
  asked and the mirror written later ("check"); the audit and the check before a revert write without
  a version ("heal"); a hand edit to an intended price is taken for an echo ("echo"); one second ("second").
- `DriftHold`: two answers to one event ("twice"); holds and releases that cross ("answer", "release",
  "close"); a put-back planned between the event and the mirror ("answer"); a run that closes an edit
  made after it wrote ("close"); a sync that sees an edit first ("sync").
- `WebhookQueue`: setting aside in two statements ("between"); a drain taken for dead ("stalled"); equal and
  unstamped siblings given up together ("sibling"); a set-aside delivery sent again ("reopened").
- `Schedule`: a start claimed from a list that is older than its dates; a confirmation that writes
  the whole blob over new dates (`Overlaps`); attempts used up by starts that are refused, or that completed.
- `Enrollment`: marks dropped before their run, or put after it; products that join while nobody may
  mark; a tail that clears what it never priced; a drain overtaken by a revert (`Overtaken`); and a
  sync, of which a comment says that it recovers a missed enrolment.
- `Baselines`: a campaign that goes live after the look ("looked"), a sale whose ledger has no row
  ("unrecorded"), a put-back that is never asked ("putback"), a page that says nothing was recaptured
  ("died", "silent").
- `Overlap`: two campaigns' runs at once ("beside"), a revert that failed before its first price
  ("givenback"), prices stored and not recorded ("unlanded") or written for another ("forother"),
  questions that meet ("collapse") and runs under them ("during"); `StaysPriced`, with no gap open.
- `LivePrices`: a handover that is skipped leaves the ended campaign's price, or its compare-at;
  `excludedVariantGids` is read and written back whole ("list"); a variant is taken back into a
  campaign that has ended ("ended").
- Sync jobs, which are not modelled: a release frees whichever claim is there.

## 7. Proofs

Every theorem is for any sets of calls, variants, campaigns, workers and prices and any bounds; the
only assumptions on constants are the modules' own (switches are Booleans, bounds are numbers, ranks
are different), and, where a theorem says so, that gaps are closed.  The gaps closed are among
those of section 6, and for `DriftHold` among the ten explained at `Gaps`.

| Property | Theorem | Gaps to be closed |
|---|---|---|
| `OneFullWriter`, `ClaimExcludesScoped`, `ReturnedRunsAreOver`, `StatusMoves` | `CampaignRuns_proofs` | none |
| the safety half of `RowsSpec` | `RowsImplemented` | `FalseReclaim` |
| `NoClaimLeftBehind` | `NoClaimLeftBehindHolds` | `Faults`; for one full call and any scoped ones (two full calls can leave one, section 6) |
| `StartedOnce`, and `OneClaim` | `CampaignRuns_proofs`, as instance `S` | none |
| `DatesStand` | | `Overlaps` |
| `LedgerMoves` | `LedgerMovesHolds` | none |
| `NothingWritesMeanwhile`, `PendingIsUnsent` | `...Holds` | answer, look |
| `MirrorHonest` | `MirrorHonestHolds` | answer, look, reaper |
| `ReportSpec` | `ReportSpecHolds` | all |
| `AnswersStand`, `KeptWasShown` | `DriftHold_proofs` | answer, twice, shown |
| `NoFalseAlarm` | `NoFalseAlarmHolds` | late |
| `EveryEditIsAsked` | `EveryEditIsAskedHolds` | all but late, release |
| `HoldIsAQuestion` | `HoldIsAQuestionHolds` | all but late |
| `NothingForgotten` (queue) | `WebhookQueue_proofs` | none |
| `EveryDeliveryCounts` | | reopened, sibling |
| `OlderNeverFollows` | | between, reopened, stalled |
| `NothingIsUndone` | `WebhookQueue_proofs`, as instance `M` | check |
| `MirrorFollows` | | all |
| `NothingForgotten` (enrolment) | `Enrollment_proofs` | none |
| `NoSaleAfterRevert` | | `Overtaken` |
| `BaselineIsTheMerchants`, `NoSaleLeftUp` | `Baselines_proofs` | looked |
| `SaidTruly` | | died, silent |
| `AsksBeforeCompounding` | | unrecorded, putback |
| `NothingOutranked`, `SaleIsOn`, `HoldHasItsQuestion`, `EditsAttributed` | `Overlap_proofs` | all |
| `PlansAreValid`, `DirectionKept`, `EndingsKept` | `LivePrices_proofs` | none |
| `ShownIsResolved` | | all |

`TypeOK` is a theorem for each of the ten modules (in `Overlap` with its gaps closed), and so no run
checks it.  The proofs about `MirrorVersions` follow those about the queue that hands it its
deliveries, and those about `Schedule` the ones about the runs it starts: each is there as an instance
with constants and variables of its own (renamed where the neighbour has the name already), its
promise is read from `MirrorTables` or `ScheduleRows`, and `Given`, the module's own assumptions on
constants, is a hypothesis of its theorems.

**CampaignRuns.**  None of its invariants is inductive alone.  `IInv` adds what makes them so:
`RowFollowsStage` (a call has a row exactly from `CreateRun` on, and a row is live only while its call
is at a stage from which somebody will end it); `OneLiveFull` (the unique index, and why two calls
cannot both be writing); `HoldingIsClaimed` (while a full call's claim has stood, the campaign reads as
claimed); `LookedAndAlone` (once a full call whose claim stands has looked for scoped rows, no
scoped call is writing: a scoped call looks for a claim after its row exists, a full call for rows after
its claim, and whichever look came second saw the other, which is the argument of
`run.server.ts:745-748`); and `ReadsAllowWrites` (what a transition has read allows the edge it is
about to write).  `StatusMovesHolds` and `RowsImplemented` follow without another induction.

`NoClaimLeftBehindHolds` adds `GivesBack`: a campaign that a lone whole call has claimed reads as that
call's kind of claim, the call is at a stage from which every path ends the claim (`Keeping`), what
its conditional update read is still there, and whatever anybody would give back is not itself a claim.

**Ledger**, in four inductive invariants, each on top of the last.

1. `IInv`: no version is later than the last run's stamp and the edits so far; a run at work is the
   latest and reads EXECUTING; a run that has not begun has no rows.
2. `BulkInv`, the life of an operation: while Shopify has a row queued, the row is WRITING under a
   record, or its call has just submitted it (`OpsKnown`); a call that sends one by one holds nothing in
   bulk, and one that records has seen its operation end (`SentOrRead`); at most one run's rows are with
   Shopify (`OneHeld`), none when a call has asked and its own once it is at work (`HeldByWhom`).
   `OneHeld` is what allows `settleSubmittedBulk` to look at the newest record only.
3. `MirrorInv`, who may still change a price.  `Ordered`: versions only grow, and an edit the mirror has
   not seen has a later one.  `Told`: whatever the process, the ledger or Shopify says of the latest run
   is so of the storefront (a verified row shows the run's price or a later edit, a queued one has not been
   stored).  `LastHeld`, `LastWorks`, `Unsettled`, `SweepsLast`, `FoundLast`: rows with Shopify, the run at
   work, the one the reaper has in hand and the one about to be settled are the latest, and its mirror is
   not settled before it says so.  `HonestBefore`: a run that has not sent a variant has not made the
   mirror worse about it.  So a settle always speaks for the run that wrote last, whose stamp is the
   newest: this is why the guard on stamps in `settleMirror` lets through what it should.
4. `ReportInv`, what a run may leave alone.  Where the mirror is wrong, either no run of any kind
   would take the variant for done (`Harmless`), or the campaign is claimed and the claim's kind is one
   that writes it (`Claimed`): `Explained`.  `Claims`, `LeftAlone`, `AllSettled`, `HeldUnknown`, `Answered`
   carry it through a run: the claim stands while a run is at work, what its plan left out shows the right
   price, and once the run is settled every variant is explained without the claim.  A
   `FinishRow` that says COMPLETED is then a `Say` of `CleanReport`.  `Explained` is what fails when
   the reaper says PARTIAL over a later run's claim.

**DriftHold.**  `Hands` says that whoever has an event in hand has it as it is: one open event a
variant, and of a decision, a put-back and the webhook about to update it, at most one; what a keep
looked at the mirror still shows.  Nine clauses, one per kind of holder.  The invariants of the other
three properties are layers on top of it, each preserved with those below:

1. `Heard`, for `NoFalseAlarm`: every delivery of a run's own price, waiting or in hand, has its
   intent, so the look that finds drift finds one of an edit.
2. `Delivered`: the newest change of a price waits, is in hand, or was handled last, and nothing the
   mirror, a run or a history says is of a later one.
3. `Redoing`: what the webhook has looked at is newer than the mirror, and its event stays open, and
   about that price, in its hand; a delivery put back after its event was recorded stays alone of its
   variant and looks the same again (`again`).
4. `Asking`, for `EveryEditIsAsked`: a price the mirror shows, or is about to, is the campaign's,
   excused, kept, or asked about (`Good`, `Asked`), and what a run is about to overwrite or mark is
   what the event's answer says.
5. `Questions`, for `HoldIsAQuestion`: while a campaign is held with nothing open, somebody is
   counting (`Counted`); until a whole run moves it, each open event holds it or is about to (`Due`),
   also while somebody is releasing it (`DueAfter`).

The theorems close more gaps than TLC needs.  Opened alone in `asked`, each gap breaks something:
`HoldIsAQuestion` fails with answer, release, close, check, again, sync or died, `EveryEditIsAsked` with
answer, close, twice or sync, `NoFalseAlarm` with late only, `AnswersStand` with answer or twice,
`KeptWasShown` with answer or shown.

Layer 3 was not inductive over the model as it first stood, in which a delivery put back was
recognised by its price alone: the proof is why `again` says so itself.

**WebhookQueue.**  `Kept` is the argument that nothing is stranded: every delivery that waits is
about to be rung for, has its job waiting, is in the turn of the job at work, or has its successor
stored; `Busy` and `Blank` tie the job to its drain.  That none is settled unseen is `Vouched` (each
one read has one still to be handled, or handled, that tells as much), `Processed`, `FailedOne`,
`GivenUp`.  Order is `OneDrain`, `InHand`, and `Joined`, which says of deliveries ever read together
that one which still waits is read again with the other; so a newer settled one leaves no older one
waiting but in the hands of the drain about to set it aside (`Followed`).

**MirrorVersions.**  `Order` is enough for `NothingIsUndone`: nothing that is out carries a stamp later
than the product's, nor has the mirror a version later than that before a deletion's; a webhook that has
checked is not behind the mirror, which is what the gap "check" breaks.  `MirrorFollows` is two layers
more.  `Works` is what each actor has in hand: half a delivery written is the index (`Handed`), a price
other than the run's came after it (`Moved`), an older price of the latest second is one that a run
replaced and the ledger tells of (`Traced`, the reason for the second clause of `heldIsNewer`), and while
the price is the run's nothing else is out from after it (`Standing`).  `CaughtUp` is the argument: of a
product that is there, either its latest delivery is out and will be let in (`Chased`), or a run is about
to say what it wrote or that nobody knows (`Pending`), or the mirror is right and nothing that is still
out can make it wrong (`Right`, whose second half `Shut` goes through every reader).  At rest only
`Right` is left.

The proof did without two guards that the gap "second" had put on a variant's neighbour moving, and
on a write that is recorded, within an edit's second: they are gone, with the variable they read,
and the run has the steps they kept out.

**Schedule.**  `Once`: a tick that has a claim is the only one, the campaign reads as that claim, and
the run that is live is its own (`Claimed`, which `OneClaimHolds` states: the lock that may expire under a
long tick lets no second one in); once a start is done the campaign is not SCHEDULED and no tick has a
claim for a start (`Started`); no occurrence has more rows than attempts (`Counted`).
`StartedOnceHolds` follows without another induction, and also where a confirmation overlaps.
`Stand` adds that a tick about to note a refusal writes the whole blob back with the window that is there,
as a claim keeps dates still; nothing does so for a confirmation, which is the switch.
One guard of `DueTransition` had to be made explicit: two of its cases overlapped for a campaign without
dates.

**Enrollment.**  `Steady`: one whole run, one tick per worker, a drain writes only rows it has taken and
not beside a whole run that has looked.  `Remembered` adds to `NothingForgotten` that a variant in
scope is priced, in a run's rows, in `missed`, or in somebody's hand.  `NoSaleAfterRevertHolds` needs
`NotEnded`: a drain at work is of a sale that nobody has begun to revert.

**Baselines.**  `Trusted` proves two invariants together, for each needs the other: while no sale may
be up, storefront and mirror show the merchant's prices, so a recapture records one; and a revert
puts back a baseline, so no sale is left up.  `Honest` is, recapture by recapture, which row its stage
allows and what the page says of it.  `Telling` is what a sale
recaptured at its own price is known by: its baseline is later than the stint's first row, and the
stint has that price as landed.  It was not inductive at first: a recapture that reads one sale and
records during the next leaves a baseline no row tells of, which four runs reach and `capture` has
two; the gap "unrecorded" now covers it.

**Overlap.**  `IInv` has the ledger's meaning: which of a campaign's rows landed (`OwnPrices`,
`Standing`), that what is up was written by the newest landed row (`Mirrored`, `Attributed`), what a
running campaign is about to write and whose question it closes (`Wants`), that a price which is up is of
a campaign that runs and will take it back (`Runs`, `TakenBack`), and that no campaign which covers the
variant outranks it, nor what is about to be written (`Outranks`, `Outranking`).

**LivePrices.**  First the operators of `Pricing`: the floors meet (`LowestMeetsAll`), what is offered
is sound (`OffersAreSound`), a compare-at shows a saving (`CompareAtSaves`).  From these any price
planned is allowed and keeps its direction.  `EndingsKeptHolds` is about each rounding in turn.
`StepsAbout` and `EndingsAbout` say where an amount is among the multiples, or the endings, around it
and which of them each direction takes; `StepsSettle` and `EndingsSettle` that one that goes the rule's way has no
nearer neighbour but what is negative or beyond the baseline (`Settled`); `RoundingsSettle` collects
the names and currencies, and `OffersAreRounded` that a price without a floor is one of these.
`ShownIsResolvedHolds` needs `Listed`: the list of who is let out is the merchant's last word, and one
being changed is of a campaign that runs.

Only model-checked: liveness (`RowsSpec`'s fairness, `EventuallySettled`, `EventuallyPriced`,
`RunsByItself`), as the prover has neither liveness nor ENABLED.  Every other property of every run is
stated by a theorem.

## 8. What is not modelled

- **Claims nobody gives back.**  A death between the claim and the run row, between the end of the row
  and the last transition, or inside the reaper; a dropped job; a throw between a tick's claim and its
  call: each leaves a campaign in a claim with no row for the reaper to find.  The scheduler's query
  leaves claims out (`scheduler.server.ts:109`) and the page offers no Apply in one
  (`app.campaigns.$id.tsx:308`).  The steps are in `CampaignRuns`, and no property is claimed there.
- **Archiving and deleting a campaign, duplicates, practice campaigns.**  They start from states in
  which no run is at work, or never write.
- **Reasons, notices, emails, activity entries.**  No state or price depends on them.
- **In `Ledger`**: markets and price lists, tags, compare-at prices and product status, which follow
  the base prices and make a run PARTIAL at worst (`FinishRow` may always end PARTIAL); scoped runs,
  whose rows are their own; variants another campaign holds (`Overlap`); clamped prices as a price of
  their own; and a live run taken for dead, which `CampaignRuns` has under `FalseReclaim`.  A webhook
  there shows the price at the time it is handled; late and repeated ones are `MirrorVersions`.
- **The session, the API client and its rate limits, JSONL**: what they can answer is a choice in
  `Send`, `ShopifyApplies` and `ReadFile`.
- **Markets as a second surface, tags and product status**: plans of their own, written after the base
  prices by the same run, without a claim or a mirror of their own that another process shares.
- **A catalogue sync's claim and heartbeat; approvals**: two known weaknesses, listed as hazards
  without a property; the next modules of the plan.
- **Billing, onboarding, notifications, reports, settings, pages**: reads, forms and text.  Most of the
  repository's lines are of these and of tests, so the share of lines that the map names stays small.
