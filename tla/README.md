# BetterTrack in TLA+

BetterTrack is a portfolio tracker: a TypeScript API (`apps/api`, Express, Postgres
through Drizzle, Redis, BullMQ jobs), a web front end and shared packages. Most of it is
request-and-response over rows. This directory specifies the parts that are protocols:
state that several processes read, change and recover, with things that may fail between
two of their steps. The largest of them is **MIRRORCHAIN**, group portfolios
(`apps/api/src/services/mirror`, design in `docs/mirrorchain-design.md`): a distributed
ledger in all but name. The others are the token families of the OAuth provider, standing
orders, price alerts and webhook deliveries.

Paths below are relative to `src/`; *MS* is `apps/api/src/services/mirror/mirrorService.ts`,
*R* is `apps/api/src/data/repositories/mirrorchainRepository.ts`. For the other components
the file names are given; services are under `apps/api/src/services`, repositories under
`apps/api/src/data/repositories`.

## 1. Inventory

### MIRRORCHAIN

A group portfolio is a *chain*. Each member owns a *copy*, an ordinary portfolio. A write
of a member is applied to their own copy and appended to the chain's *op log*; a job
replays the log on every other copy.

| part | state | operations |
|---|---|---|
| op log (R 351-434) | `mirror_chain_ops`: dense `seq` per chain, kind, `mirror_id`, full-state payload, actor | `appendOpsChecked`: lock the chain row, check membership and `baseSeq`, assign seqs, insert |
| copies | the member's local rows; `mirror_rows`: link (kind, mirror id, portfolio) -> local id; `applied_seq`, the *watermark* | `applyLedgerOp`, one case per op kind; `applyOpsToMember`, op by op, the watermark last |
| chain lock (MS 728-774) | one Redis key per chain, token-fenced, TTL renewed on a timer | `withChainLock`: poll until free or `MIRROR_BUSY`, run, compare-and-delete |
| submit path (MS 2231, 3946-4590) | in-flight request | lock, read the membership, catch the own copy up, guard, apply to the own copy, append, bump the watermark, enqueue replication, unlock |
| `mirror.replicate` (MS 2806, `jobs/definitions/mirrorJobs.ts`) | BullMQ job, three attempts | for each lagging copy: lock, read membership and ops afresh, replay; throw after the sweep if a copy failed; enqueue again if one lags |
| membership (MS 2905-3855) | chain status, membership rows with role and `joined_at`, invites | create, invite, accept, decline, revoke, set role, kick, leave, transfer, dissolve, account deletion, daily consistency sweep |

How they interact: everything that writes takes the chain lock; membership operations
append ops and change the roster in separate statements; the submit path and the job call
the same `applyLedgerOp`; account deletion hands groups over, then deletes the user's row,
and the cascade takes the copy.

What is hard: every submit, replay and membership operation is a *sequence of
transactions*, so an exception or a crash can fall between any two of them; jobs are
delivered at least once; the lock may expire under its holder; membership may change
while an operation waits for the lock; nothing undoes a local commit whose append failed.

What makes it correct: no lost update and no edit of a deleted row; writes only by
users who are members; every copy takes the ops in order, and copies at the same point are the same; a
lagging copy lags and does not diverge; severed copies are frozen; every write is
delivered in the end; one owner, and always an owner in the end; authority and the cap
hold when an invite is redeemed.

### The other components that are modelled

| component | state | operations | what is hard, what makes it correct |
|---|---|---|---|
| OAuth provider (`services/oauth`) | grants, token families, access and refresh tokens; a consumed refresh token keeps its successor, sealed | sign-in, refresh with rotation, the grace replay, first-use stamp, logout, revocation, sign-out-everywhere, sweep of old envelopes | two refreshes of one token, lost answers, restored devices, revocation beside rotation: a chain never forks, an honest retry is served, reuse ends the chain and only it, a revoked chain never mints |
| standing orders (`services/standingOrders`) | orders, the ledger of claimed periods, a display watermark | the daily scan lists, reports, quotes, claims and books under the portfolio lock; pause, resume, archive, restore, edit, remove | a scan acts on an old snapshot, dies between claim and watermark, overlaps a restore: at most one booking per period, only in force, none from a suspension |
| price alerts (`services/alerts`) | alert rows, a lock per minute in Redis | a run each minute loads, locks, claims, queues the notice, or gives the claim back; the owner arms and edits | runs overlap and stall past the lock's TTL: one notice per firing, none lost silently |
| webhooks (`services/webhooks`) | subscriptions with a failure streak, one log row per delivery | the bridge queues, the job attempts, records, counts, switches off; the owner's changes | the same delivery is queued and run again: the streak counts it once, a success is final |

They share the worker: BullMQ delivers a job at least once, with bounded attempts, and
runs of one job may overlap. They do not share rows, except that archiving and restoring a
portfolio acts on its standing orders, which is in `StandingOrders`.

### Other components

| component | state and operations | what is hard, what makes it correct |
|---|---|---|
| announcements (`services/announcements`) | publication stamp; walk-then-claim, one bounded retry | everyone gets one notice; one run records the publication |
| vaults and paranoid mode (`services/account`) | encrypted documents with versions, retirement fences, privacy mode, transitions in stages | compare-and-swap, and no cleartext row written across a transition |
| notifications, digests (`services/notifications`) | inbox rows with event keys, per-channel queues | one inbox row per event and user |
| data export (`services/export`) | one job row per request, archive on disk | build, deferral and expiry agree on the row and the file |
| sign-in, sessions, two-factor (`services/auth`, `services/sessions`) | sessions, throttle counters, challenges | mostly single-row checks |
| realtime gateway, live mode (`realtime`, `services/liveMode`) | sockets, rooms, leases, ring buffers | a revoked viewer leaves its rooms |
| market data providers (`providers`) | circuit breaker, cache, cache lock, request queue | one upstream call per key, recovery after an outage |
| portfolio ledger, cash, expenses, imports, tax | rows and arithmetic | numeric and data-heavy; little protocol |
| social, chat, ideas, API keys, idempotency, admin, flags, observability, AI, search, analytics, backtests | rows | request and response |
| web, landing, end-to-end tests, factories, infrastructure | none of interest | user interface, tooling |

`PROJECT.json` lists every component with its status, and the hazards of the code at the
line where each bites.

## 2. Plan

1. *(done)* `MirrorLog`, `ChainLog`, `MirrorReplication`: the log, the promise, and the
   replication that should keep it. Type correctness, the safety properties about the log,
   severed members and the lock, convergence, and the refinement proved.
2. *(done)* `MirrorMembership`: the life of a group; its safety proved.
3. *(done)* `OAuthRefresh`: families, rotation, grace replay, revocation; its safety
   proved.
4. *(done)* `StandingOrders`: claim, book, defer, close over a few periods; crash
   anywhere. Its safety proved; two properties only for restores that nothing runs beside,
   since a concurrent one breaks them.
5. *(done)* `WebhookDelivery` and `PriceAlert`: claim-first against record-first,
   at-least-once jobs. Their safety proved.
6. Left: announcements; `MirrorConversion` (conversion beside a plain write, before the
   lock exists, and privacy modes in the replicate job); the vault transitions and the
   export, which shares their lock.
7. Left to prove: nothing of what the passing runs check, but liveness, which stays with
   TLC; the theorems about the modules of item 6, once they are written.

## 3. Modules

| module | what it is |
|---|---|
| `MirrorLog` | ops, and the questions the code asks of the log (latest op on a row, stale-edit guard, state at a seq) |
| `ChainLog` | abstract specification: a log, a watermark per copy, a roster |
| `MirrorReplication` | copies, links, lock, job queue, processes, faults |
| `MirrorMembership` | roster, roles, invites, accounts, multi-statement operations |
| `OAuthRefresh` | the token families of one grant |
| `StandingOrders` | one order, its ledger, its scans and its owner |
| `PriceAlert` | one alert, the runs of the evaluator and its owner |
| `WebhookDelivery` | one subscription, its jobs and its log |
| `MirrorRefinementProofs`, `MirrorConvergenceProofs` | built on `MirrorReplicationProofs`: replication implements `ChainLog`; copies converge |
| `MirrorReplicationProofs`, `MirrorMembershipProofs`, `OAuthRefreshProofs`, `StandingOrdersProofs`, `PriceAlertProofs`, `WebhookDeliveryProofs` | theorems about them |
| `MCReplication`, `MCMembership`, `MCOAuth`, `MCStanding`, `MCAlert`, `MCWebhook` | instances for TLC: symmetry, initial pairs, bounds on what is explored |

### MirrorReplication against the code

One action is one database transaction. `work[p]` is the program counter of process `p`:
the request or job it serves, the copy it works on, the ops in hand.

| state | code |
|---|---|
| `oplog` | `mirror_chain_ops`; the index is `seq` |
| `status` | the membership row of a copy: absent, active, ended. A user who rejoins gets a new portfolio, so a copy never returns; whose it is says the constant `UserOf` |
| `applied` | `applied_seq` |
| `linked`, `book` | `mirror_rows` links of the copy, and the local row a link points to (`None`: it points to nothing) |
| `strays` | number of local rows without a link |
| `minted` | mirror ids handed out; an origin's local id *is* the mirror id, hence unique |
| `holder` | holder of the Redis key |
| `queue` | deliveries left to the waiting replicate job; jobs of a chain are interchangeable, so several waiting ones are one with the most attempts left |

| actions | code |
|---|---|
| `SubmitStart`, `ApplyNext` ... `Bump`, `CaughtUp` | lock, membership, catch-up (MS 2231-2249, 1498-1519) |
| `ChooseCreate`, `ChooseEdit`, `ChooseRefused` | the submit functions and `checkEntityGuard` |
| `Act`, `Link`, `Recreate`, `Repoint`, `Unlink` | `applyLedgerOp` on the own copy (creates in a batch: one service transaction, then a link each) |
| `AppendOps`, `Ack`, `Finish` | `appendOpsChecked`, watermark, enqueue, unlock |
| `Membership` | `findActiveMembership`, by user: what a replay, the end of a catch-up and the append ask |
| `JobPick`, `Visit`, `ApplyNext` ... `Bump`, `VisitDone`, `JobDone` | `replicateChain`, `replayMemberIfAllowed`, the job's retry and re-enqueue |
| `Join`, `Depart` | `attachMemberCopyUnderLock`; kick and leave |
| `Error`, `Busy`, `Crash`, `Lapse` | a failed statement; a timed-out wait for the lock; a dead process; an expired lock |

`Apply` keeps all the branches of `applyLedgerOp` that differ in what they do to links and
rows: skips (already applied, row gone), throws (unknown source, movement gone, no create
op to rebuild from), the in-place update, the correction path (delete, create, re-point)
of a linked transaction, the healing create after a correction that was cut off, the
create-then-link and the delete-then-unlink.

Copies and memberships are not the same thing. A submit begins with one membership and the
portfolio of the request; its replay, the read after catch-up and the check of the append
look the *user* up again, and if the lock has expired meanwhile the user may have been removed
and let in again, with another copy. `work[p].copy` is the copy worked on and `member` the
one whose membership the submit has read last. `appendOpsChecked` accepts the op of the copy
that was severed then (`Accepted`), the watermark that jumps is the new membership's (`Ack`),
and an edit goes to the one copy or the other as its submit function has it (`Places`).
While the lock is kept the two are always the same.

Abstractions. A value in `Values` stands for the whole state of a row, as payloads carry
full state. A dividend or a deposit is a movement; the incoming leg of a transfer travels
with the outgoing one and is not a row of its own. Which branch an update of a transaction
takes depends on tax and cash links of the local row, which the model leaves free.
The services' own validation is free too: it may refuse (`ChooseRefused`). Chain ops that
change no roster (role, rename, transfer) are appended and skipped exactly like the op of
`Join` and have no action of their own. A dissolution is several `Depart`s. A crash
releases the lock at once: in the code it does when the TTL has run out, and what runs in
between can only wait. Audit rows, events and read models are left out.

### MirrorMembership against the code

All operations hold the chain lock, so the module has one `task` at a time; the module
about replication shows what the lock is worth. One action is one statement that changes
the roster, invites or chain; statements that only append an op are folded into it, except
the announcement of a dissolution, which decides what members were told. `Crash` drops
the rest of a task. Roles, authority and the order of the checks follow `roleCan` and each
operation; `rank` is `joined_at`, which orders succession. `account` follows the deletion
service: the hand-off, then `closing`, then the row's delete, which waits for requests
that hold the principal guards. `LateAccepts` says whether a request authenticated before
the sessions were destroyed may still run. Friendship and the passing of thirty days are
external and may change at any time.

### OAuthRefresh against the code

A token stands for a pair: a refresh token and the access token minted with it.

| state | code |
|---|---|
| `granted`, `suspended` | `oauth_grants.revoked_at`; a suspension has set it and its last statement is outstanding, or was cut off |
| `family`, `instance` | `oauth_token_families`: live or revoked, and whose `instance_id` |
| `token` | the rows of both token tables: `fam` (`None`: the NULL family of the previous release), `next` (`consumed_at` and `successor_id`, which are set together), `sealed` (`successor_envelope`), `used` (`first_used_at`), `age` |
| `request` | a refresh, logout or sign-out under way, with what it has read |
| `holds` | the newest pair an app has received |

| actions | code (`oauthService.ts`, `oauthRepository.ts`) |
|---|---|
| `Lookup` | `exchangeRefreshToken` up to its decision, with the read that drops an old envelope |
| `Rotate`, `RotateRefused`, `Replayed` | `rotateRefreshToken`, one transaction: locks, claim, mint, seal; or refused; or the loser's second look |
| `Check` | the second read of `replayWithinGrace`, which decides the answer |
| `RevokeTokenFamily`, `Logout` | `revokeTokenFamily` after reuse, a logout, the revocation endpoint |
| `RevokeGrant` | Settings, a password change or reset, an emptied scope ceiling: one transaction |
| `Suspend`, `ClearEnvelopes` | `revokeAllForUser`, which is no transaction: the grants are revoked, and in a later statement the envelopes dropped |
| `SignOutStart`, `EndSiblingInstalls` | sign-out-everywhere: authenticate, then one transaction |
| `Use` | `authenticateToken`, which stamps the first use |
| `SignIn` | the code exchange: retire the families of the same instance, start one |
| `Sweep` | `clearExpiredSuccessorEnvelopes` |
| `Receive`, `Gone`, `Restore`, `Tick` | the app, the network, a backup, the clock |

`Init` lets the installs begin with families of their own, or with what migration 0119
made of an existing grant (one shared family), or with rows the previous release wrote
beside it (no family). `Legacy` marks the chains of the latter two, for which the code
promises less: their family is the grant. Nothing obliges `ClearEnvelopes` to happen, so that a
suspension that dies after its first statement is in the model, and so is one that is
repaired later. The account's status, which a suspension sets before and which refuses the
user's requests too, is left out, so that requests may do more than in the code. Codes, PKCE, clients, secrets and scopes are left
out; the 90 days of a refresh token never pass.

### StandingOrders against the code

The cadence is a set of days, so that a period is its day and `dueOccurrence`,
`skippedPeriods` and `newestElapsedOccurrence` are operators on it. `List`, `Inspect`,
`Report`, `Quote` and the booking are the steps of `processDueOrders` between its awaits.
`Book`, `Entomb` and `Declined` are the outcomes of `withActivePortfolioLock`, one
transaction: the claim commits with the money row, or alone when the row fails under its
savepoint, or not at all. `CloseElapsed` is `claimSkippedPeriod`; `Open`, `OpenFails`,
`OthersRestore` and `Rollback` are `restorePortfolio` and its compensation. Removing an
order takes its ledger with it (cascade). A request ends on the day it began; a scan may
be held up for `MaxStall` days. Amounts, prices and the vault lock are left out; whether the
cash suffices is free.

### PriceAlert and WebhookDelivery against the code

`PriceAlert` counts time in ticks, `Minute` to an evaluation window. A run remembers the
row it loaded; `Lock`, `Claim`, `Emit`, `EmitFails` and `Release` are the awaits of
`runAlertsEvaluation` in order, `Dies` and a stall may come between any two. The condition
on the price is free (`Skip`). `told` is the history of queued notices; `lost` of claims whose
run died or was overtaken before it could give them back.

`WebhookDelivery` names a delivery by its event, as `webhookBridge.ts` derives the id.
`Bridge` may queue the same delivery again, because the event's own job may be run again.
`Send` with `Accepted`, `Refused` and `Failed` stands for everything between the
subscription's read and the answer: guard, name, secret, request. `RecordDelivered` and
`RecordSuccess`, and `RecordFailed`, `Count` and `Disable`, are the statements of the two
endings, with `Crash` between any of them.

## 4. Properties and runs

Runs that pass (deadlock is not checked: when all bounds are used up and the queue is
empty the system rightly stops):

| run | instance | shows |
|---|---|---|
| `crash` | two copies, one process that is client and worker, Main and one transaction, five ops, two faults | `Converged`, `LagsNeverDiverges`, `ImplementsChainLog`, `TypeOK` through errors and crashes between any two transactions |
| `sources` | two cash sources, two transactions, a movement, batches of two, one fault | `Converged`, `LagsNeverDiverges` for ops that depend on other rows, and for batches |
| `lapse` | three copies, of which one is the founder's after a return, two clients, one of them a worker, five ops, one expiry of the lock | `NoLostUpdate`, `Monotone` without the lock, `OneApplier` and `ForksAreFrozen` while it is kept; `SeveredStaysOut`: who is no member writes nothing, with the lock or without, and with it nothing is written from a copy that was left |
| `live` | a client and a worker, one fault | `Delivered` |
| `life` | three users, three joins, room for two, two crashes, deletions | all properties of `MirrorMembership` |
| `oauth` | two installs, four pairs, three families, two requests at once | all of `OAuthRefresh` but the last |
| `standing` | three days with two anchors, two scans, two requests, one failed restore | all of `StandingOrders` |
| `alerts` | two runs at once over three minutes of two ticks, a cooldown of three, one edit | `NoDoubleFire`, `StampIsTold` |
| `webhooks` | two deliveries, three jobs, two attempts, a threshold of two, one crash | `StreakIsDistinct`, `FailureIsCounted`, `DeliveredStaysDelivered` |

`Converged` and `LagsNeverDiverges` are about *sound* copies: a copy on which a submit
committed and then failed to append has diverged by design (design, section 2), and
`tainted` remembers it. They are also about rows that were *born*: a row that was linked
on its origin without its create reaching the log can be edited there, and no other copy
will ever hold it. Both exceptions are narrow: other rows and other copies stay covered.

What properties say of the code:

| property | says |
|---|---|
| `OneEnd` | however many requests present a token and whatever is lost, one pair of a chain can be refreshed |
| `HonestIsServed` | an app that presents the newest pair it has received, within the window, is never refused unless it was revoked |
| `SeveredStaysOut` | an op enters the log only while its user is a member; while the lock is kept, only from the copy of that membership |
| `RevokedStaysRevoked` | a revoked chain stays dead, and no request under way mints into it, not even a pair that is dead at once |
| `OnlyUnusedIsServedLate` | past the strict window a pair is given out again only if it was never used |
| `ReuseEndsTheChain` | when an older token of a chain was presented, the whole chain is dead by the time of the answer |
| `EnvelopesAreCurrent` | a sealed answer does not outlive its pair or its family, nor its grant once the clean-up of a suspension has run |
| `SignOutIsExact` | sign-out-everywhere leaves the caller's chain as it was and no other alive |
| `AtMostOnce`, `BookedInForce` | one money row per period, and only for an order in force when it is written |
| `NoBackfill` | what elapsed in a suspension is never booked after it |
| `WatermarkIsClaimed`, `DroppedIsNotBooked` | the watermark and the notices agree with the ledger |
| `NoDoubleFire`, `StampIsTold` | one notice per firing and cooldown; a stamp without a notice only if its run died or was overtaken |
| `StreakIsDistinct`, `FailureIsCounted` | the streak counts each failed delivery once, and misses one only if its worker died |
| `DeliveredStaysDelivered` | a late failure never overwrites a success |

Runs that show where a statement of the repository is not what the code does:

| run | statement | what happens |
|---|---|---|
| `exactly_once` | "a crash between service commit and watermark bump re-applies harmlessly" (design 166-168) | a crash between the service's commit and the link makes the retry create a second row |
| `phone` | "a lost answer retried hours later ... never signs the phone out" (`oauthService.ts` 534-536); "a concurrent loser never revokes" (542) | two retries of one lost refresh, hours later: one is served and used between the other's read and its check (1009), which takes the use for reuse and revokes the family |
| `backfill` | "so remove only the tombstones this request created" (`portfolioService.ts` 1694); the claim precedes the order's return "so the scan's most-recent-only rule can never reach back into the suspension" (`standingOrderService.ts` 66) | a restore that fails removes its claim after another restore has relied on it; a scan then books a period that elapsed in the archive |

Known divergences that no run carries. Reading the code for the models showed more places
where a statement of the repository is not what the code does. The models contain the
behaviour, and where a property above would be violated by it, an exemption says so:

- *Renamed Main.* "all copies that reach watermark W hold byte-identical chain-scoped
  content" (design 267). `attachMemberCopyUnderLock` pre-links a new copy's Main (MS 2298),
  so that the create op that carries the founder's name for it is skipped there
  (`MainOnArrival`). `CopiesHoldTheLog` (section 5) says that nothing else differs.
- *Source before movement.* "Strict seq order guarantees the source.create op preceded"
  (MS 810). A source that was linked and not appended is booked on; every other copy stalls
  at that op. `LagsNeverDiverges` holds: they lag.
- *Severed writers.* "a severed member can never race a write past their removal"
  (`mirrorchainRepository.ts` 354-356). The lock expires under a submit that is committed on
  its copy; its user is removed, invited again and joins with a new copy;
  `appendOpsChecked` (380) finds that membership and takes the severed copy's op.
  `SeveredStaysOut` therefore asks of a lapsed lock only that the writer's user is a member.
- *Suspensions.* The envelopes go in "one statement, run in the revoking transaction by every
  revoke path" (`oauthRepository.ts` 543-544). `revokeAllForUser` (1149) revokes in one
  statement and drops the envelopes in another: in between, and after a crash there, a
  revoked grant keeps them, which `EnvelopesAreCurrent` allows while `suspended` says so.
- *Residuals.* "an origin-only, mirror-linked row with no op) - detectable by the repair
  sweep below" (design 150-152). An edit that was committed and not appended leaves a row
  that has an op, which neither query of the sweep lists (`tainted`).
- *Invites.* "Idempotent: already a member (a prior accept whose invite update lost a
  crash race)" (MS 3306). The invite that stayed pending readmits the member after a kick.
- *Deleted accounts.* The hand-off comes first "so the subsequent row delete only cascades
  this member's own copy away" (`accountDeletionService.ts` 210). An accept in flight leaves
  an active membership of nobody (`LateAccepts`).
- *Edited alerts.* A repeating alert turned into a one-shot one during a run stays active
  after its firing, since the run decides on the setting it read (`alertEvaluator.ts` 287):
  it may fire once more. `NoDoubleFire` is about alerts the owner leaves alone.
- *Switch-off after success.* `disable` follows the bump of the streak as a statement of
  its own and asks nothing (`webhookDispatcher.ts` 247): a success or the owner's
  switching on in between is overridden. Nothing in the repository says otherwise.
- *End dates.* Extending an order's end date after a resume lets the scan book a period that
  elapsed in the suspension, against the no-back-fill rule; `Promised` counts as closed
  what the request itself closed.
- *Rows of the previous release.* A rotation that read no family still mints after a
  sign-out-everywhere, and `endSiblingInstalls` does not ask whether the caller's family is
  still live. Both need chains older than migration 0119 (`Legacy`).

Bounds. Two copies suffice for an origin and a replica, and a second join makes a lagging
newcomer; the founder may leave and the newcomer write. Five ops are genesis, Main, a join,
and two writes: a create and its edit or delete, or two edits in conflict. Two faults let
a recovery fail again. In `live` four ops leave one write, or two without a
join, which is what two processes need to collide. In `lapse` the founder leaves and
comes back under a second copy while a third keeps the group alive: genesis, Main, that
third's join, the departure and the return are five ops; without some of them there is room
for two or three writes in conflict. The bound is asked when an operation
begins, so that a write which is under way all the time is still appended. Three users are an owner, an heir and
another candidate for the one place the cap leaves; three joins allow leaving and
rejoining. Symmetry: transactions are interchangeable, in every definition; so are the users
except the founder; so are requests, scans, runs, jobs and deliveries. No run that checks
liveness uses symmetry.

In `oauth`, four pairs are the two that the installs begin with and two more: two rotations
of one chain, which is what a replay and a reuse need, or a rotation and a new sign-in. The
windows are 0, 1 and 2 ticks, and a pair ages until no window depends on it. Three families
are two and a sign-in's, or one and the two that a sign-out-everywhere may need. Installs with
families of their own meet only in sign-out-everywhere, so that one of them acts, and
suspensions, which ask nothing of a family, are tried there; installs that share a family or
have none are alike, so that one of them signs out everywhere (`OneActs`; that both do is left
to the proof). Once the grant is gone only requests under way and the rest of a suspension are
followed (`WhileGranted`), and the view leaves out what nothing can read any more. In
`standing`, two anchors give a period to drop and one to book; `RestoresAlone` keeps other
requests away from a restore, since their interplay is what `backfill` is about, and
`UnderWay` bounds how many scans and requests overlap. In `alerts`, six ticks are three
windows: the lock's TTL runs out in the next one, and a cooldown ends within the bound. In
`webhooks`, three jobs allow a delivery to be queued twice beside another one, and the
threshold is reached by two.

Fairness. `FairSpec` of `MirrorReplication` is weak fairness of a begun operation's next
step (the process runs), and strong fairness of picking up a job and of getting the lock
for a copy: the lock is free again and again and is polled every `LOCK_POLL_MS`; a wait
that does time out is the fault `Busy`. Clients owe nothing: no fairness on new writes.
`Delivered` starts from a waiting job, since an enqueue that is lost is made up for only by the
next write. `FairSpec` of `MirrorMembership` is weak fairness of a begun operation and of
the daily sweep; the sweep is enabled as long as the group has no owner and nobody holds
the lock. The four new modules state safety only: what they promise to happen in the end
(a booking, a notice, a delivery) is given up on a bounded number of attempts.

Every property of a passing run has a mutant in `PROJECT.json`: a plausible bug in a
definition that models code, under which TLC finds the property violated. The mutant
operators stand beside the definitions they would replace (`LockFreeUnchecked`,
`RaisedBlindly`, `SkipsLostRow`, `OwnedUnread`, `ClaimsBlindly`, ...) and are used by nothing else.

## 5. Proofs

All theorems are for any values of the constants that satisfy the named assumptions: any
sets of copies, users, processes, scans, runs and jobs, any bounds, and with faults at any
step.

`MirrorReplicationProofs`, lock expiries included:

| theorem | says |
|---|---|
| `TypeCorrect` | `Spec => []TypeOK` |
| `NoUpdateIsLost` | `Spec => []NoLostUpdate` |
| `SeveredMembersStayOut` | `Spec => SeveredStaysOut` |
| `LogAndWatermarksGrow` | `Spec => Monotone` |
| `OneApplierAtATime` | `Spec => []OneApplier` |
| `ForksStayFrozen` | `Spec => ForksAreFrozen` |

Types alone are not inductive:
`oplog[w.at + 1]` is an op only if the replay loop never passes the log, and a local row
may be written only for an op that has a row. The inductive invariant is therefore
`IInv == TypeOK /\ LogOK /\ WorkOK`: `LogOK` says that watermarks stay within the log and
that each guarded op in it was appended against the latest op on its row; `WorkOK` says of
each process that what it holds fits its program counter (`Fits`: the loop's bounds, and
the copy it works on; `Handles`: what sort of ops it has in hand). Neither mentions the
lock, which is why these theorems survive its loss: the safety of the log rests on the
append's transaction alone. `SeveredStaysOut` says of a lapsed lock what the code keeps then,
that a user without a membership writes nothing; that the *copy* which writes is the active one is
true of a kept lock only (section 4, *Severed writers*). The theorems about a
kept lock add `LockKept`: whoever is past
the lock is its holder, as long as it has not lapsed.

There is one lemma per action for the invariant, under it one step per part the action can
disturb; lemmas on `LatestAmong` and on appending to the log are stated once.

`MirrorRefinementProofs`: `GroupIsAChainLog` says `Spec /\ [](lapses = 0) =>
ImplementsChainLog`. Every step, of a failure or a retry too, must be a step of the abstract
log or change nothing of it. Most are stutters; the others are `AppendOps` (a member writes),
`Bump` and `Ack` (a copy takes over what it lacks, or its own ops), `Join` and `Depart`. Two
invariants stand behind this. `Shape`, true without the lock too, says what the ops in the
log and in hand look like and for whom a process works. `Locked` says what the one process
inside the lock may rely on: a row's create comes before its other ops (`CreatesFirst`), and
what it has read of the log is still the end of the log (`AtWork`). The hypothesis that no
lock has lapsed is needed: after a lapse a submit's watermark jumps over ops that another
process appended meanwhile (MS 1589), which `ChainLog` does not allow.

`MirrorConvergenceProofs`:

| theorem | says |
|---|---|
| `CopiesHoldTheLog` | `Spec => [](lapses = 0 => ConvergedButForMain)` |
| `CopiesConverge` | `Spec => [](lapses = 0 /\ MainIsDefault => Converged)` |
| `LaggingCopiesOnlyLag` | `Spec => [](lapses = 0 /\ MainIsDefault => LagsNeverDiverges)` |

`ConvergedButForMain` is `Converged` except for the name of a joined copy's Main, which is
the default one until an op renames it. `MainIsDefault` excludes that exception (the founder
of the group had left Main its default name), and under it the theorems state the properties
that the runs check. The invariant is `Faithful`. `RowsOK` says of every row of every
untainted copy that it is in the state the log gives it at the copy's watermark (`Holds`), or
beyond it by exactly one op on that row, which is the next op of the log or the copy's own,
or has lost the row to a correction that was cut off (`Begun`), or in the hands of a submit that has not appended yet (`InFlight`). Neither a
crash nor a repeated op leads out of these three, which is the argument why the code may
retry at any step. `ReachesOK` says how far the process at work has come with the op it
applies. It was checked with TLC, with crashes, sources and lapses, before it was proved. A copy is
tainted once a submit's change was committed there and its append failed; such copies are exempt, as
in the properties.

`MirrorMembershipProofs`: `TypeCorrect`, `NeverTwoOwners` (`OneOwner`),
`OwnedBetweenOperations` (`OwnedAtRest`), `DissolvedForGood` (`DissolvedIsEmpty`),
`CapHolds` (`WithinCap`), `JoinsAreAuthorized` (`AuthorizedJoins`). In the middle of an
operation a group may have no owner, more places promised than left, or members in a group
that is being dissolved. The invariant therefore adds to the properties what each begun
task may rely on at its next statement: `InsertOK` (who joins is not a member, the group
lives, and there is room), `HeirOK` (who is crowned is a member and nobody owns the group),
`EndOK` (whom a dissolution still has to end), and `OwnedOK` (why a group has no owner, if
it has none). The `life` run was used to check the conjuncts before they were proved.

`StandingOrdersProofs`: `TypeCorrect`, `BooksAtMostOnce` (`AtMostOnce`), `BooksOnlyInForce`
(`BookedInForce`), `DroppedHasNoMoney` (`DroppedIsNotBooked`), these with any number of
concurrent restores. What has to be shown is that a rollback never takes back a claim that
money stands on: `BookedIsClaimed` (money has its claim, unless the order was removed) and
`OwnClaims` (a claim that a request may take back is its own, nobody else's, and has no
money).

`WatermarkStandsOnClaim` (`WatermarkIsClaimed`) and `NothingIsBackfilled` (`NoBackfill`)
assume `[]Apart`: while a restore is under way, no other request of the owner is. Scans are
not restricted. The run `backfill` shows that the hypothesis cannot be dropped, and
`RestoresAlone` is the same restriction in the run `standing`. The invariant is `Orderly`:
what was closed lies behind the watermark (`ClosedIsPast`), and a request that may put the
watermark back puts it on a claimed period that still has everything closed behind it
(`Rewinds`). The book of a period is always of one beyond the watermark, so that nothing
closed is booked.

`PriceAlertProofs`: `TypeCorrect`, `StampsAreTold` (`StampIsTold`), `FiresOnce`
(`NoDoubleFire`), the last for any lock TTL: the lock is a damper, the claim the
guarantee, as the comment at `alertEvaluator.ts` 270 says. Claims may be given back, so that
the stamp on the row falls; the invariants say that no stamp is older than a firing
(`Topmost`), also if the claim on top of it is given back (`Layered`), and that every claim
was made on a stamp that had rested (`Rested`, `Stamped`).

`WebhookDeliveryProofs`: `TypeCorrect`, `StreakCountsOnce` (`StreakIsDistinct`),
`FailuresAreCounted` (`FailureIsCounted`), `DeliveredForGood` (`DeliveredStaysDelivered`).
`Booked` says that a delivery that was counted or is being counted has its row, and that one
job counts it: nobody else's insert succeeds, which is what makes the count unique.

`OAuthRefreshProofs`: `TypeCorrect`, `OneEndPerChain` (`OneEnd`), `EnvelopesCurrent`
(`EnvelopesAreCurrent`), `RevokedForGood` (`RevokedStaysRevoked`), `LateAnswerIsUnused`
(`OnlyUnusedIsServedLate`), `ReuseIsFinal` (`ReuseEndsTheChain`), `HonestServed`
(`HonestIsServed`), `SignOutEverywhere` (`SignOutIsExact`). The code revokes families, the properties speak of chains. `KinOK` ties
the two: a chain that began with a sign-in is exactly a family, and what a request has read
of its family is still so when it acts on it. The death of a family is then the death of a
chain, and a dead chain stays dead, and does not grow (`ChainGrows`), because a rotation
rereads its row under the lock. `EnvelopesAreCurrent` allows for a suspension that is not
finished; that nothing was sealed late follows from the same reread (`SealedUnderGrant`).
`HonestIsServed` needs three more facts: nobody has used or refreshed what an app has not
received (`AheadOK`), a request that lost the race for a pair lost it just now, because time
passes only between requests (`PromptOK`), and the answer that may still be given is kept
(`KeptOK`). The three shapes of a step (a rotation, a sign-in, families that are moved) each
have one lemma on what they leave behind, from which every part of the invariant follows.
`SignOutIsExact` is about installs that share a family, as those of before migration 0119
may, or have none. Its invariant, `Sharing`, says that every chain has an end (`EndsOK`) and that
a chain in a family it shares is in it as a whole (`SharedOK`). Without that, a used pair
of another install could stay alive in the family the caller keeps, while the end of
its chain, which is what `endSiblingInstalls` looks for to move the caller out, was elsewhere.

There is one lemma per action, or per kind of step that several actions share.

Only model-checked: liveness (`Delivered`, `OwnerlessIsRepaired`), which needs fairness
and `ENABLED`, out of this prover's reach. Every other property of a passing run is stated
by a theorem, under the hypotheses named above. Nothing that needs induction over data is claimed.

## 6. Not modelled, and why

Inside MIRRORCHAIN: conversion as a process (it is the initial state), the skips of the
job while a member is in paranoid mode, the payloads' arithmetic, taxes, the residual
report (read only; what it can find is a property), expiry of invites by the clock. With a lapsed
lock a copy may skip an op: a submit's watermark jumps past what the other process has
appended meanwhile (MS 1589). Neither convergence nor the refinement is claimed there.

In `OAuthRefresh`: codes and PKCE, clients, scopes, the status of an account, the expiry of refresh tokens, the cache
that tells other processes of a revocation. In `StandingOrders`: amounts and quotes, the
calendar, mirrored and vaulted portfolios. In `PriceAlert`: the predicate on the price and
the followers' notices. In `WebhookDelivery`: the request itself, the test delivery, the
pruning of old log rows (a delivery run again after its row is pruned would count again).

Outside: announcements, conversion, the vault transitions and the export (section 2, item
6), and the components of section 1 without a protocol of their own: queries, arithmetic,
single-row reads and writes, and user interface, which make up most of the repository.
