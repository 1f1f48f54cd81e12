# Verification of tappa

tappa records working time. An employee holds a phone to a plaque on a wall (an
NTAG 424 DNA chip, or the QR code printed beside it), confirms on a page, and the
server writes one row to an append-only ledger with a verdict (`ok`, `flag`,
`reject`, `ignored`) and a direction (`in`, `out`). This directory holds TLA+
models of the parts of that system where order, concurrency and failure matter,
the TLC runs that check them, and theorems about them checked by TLAPS.

## 1. Inventory

| Component | Code | State it keeps | Operations | Hard behaviour | What makes it correct | Module |
|---|---|---|---|---|---|---|
| Tap recording | `internal/domain/checkin` | ledger rows, chip counters, the person's advisory lock | `Record` (`advance`, `gatherWith`, `Decide`, `write`) | concurrent requests of one person and of one chip read; a clock read before a lock wait; a counter spent in another transaction; timeouts and crashes at every step | a chip read is accepted once; two counted taps are a debounce window apart; directions alternate; a plaque out of service never counts | `Checkin` |
| Tap decision | `internal/domain/tap` | none (pure) | `Decide`, `PredictDirection`, `ClassifyCheckout` | two boundaries (longest shift, business day) drawn in two functions | the writer's direction and the reader's classification agree | `TapDecide` |
| Policy engine | `internal/policy` | none (pure) | `Evaluate`, `Guardrails`, `Baseline` | order of documents, scope against severity | one ruling statement, whatever the order; documents of a wide scope only tighten | `Policy` |
| SUN | `internal/sun` | `tags.last_ctr` | `PreviewWithoutReplayProtection`, `AdvanceCounter` | preview and advance are minutes apart | the counter moves only up, only for a verified read | `Checkin` |
| Manual records | `internal/domain/manual` | ledger rows | `Record`, `Within` | a tap that began before the record and commits after it | no checkout is classified against a record it did not see | `Claims`, `Checkin` |
| Punch claims | `internal/domain/claim` | claims, anchored records | `Offer`, `Submit`, `Decide` | a person and a manager on one claim; chain, clock and cutoff move meanwhile | what is submitted can be approved; an approval adds its interval and disturbs none | `Claims` |
| Ledger, reports | `internal/domain/ledger` | none (reads) | pairing, anomalies, group reports | late and out-of-order records | the report and the claim card agree on what is missing | `Claims` (pairing), `TapDecide` |
| Punch feed | migrations 00048-00050, 00067, `tenant/punchfeed.go` | events, the company's counter | projection on insert, backfill, cursor, history walk | two statements per page, two companies per transaction, a backfill beside live writers | each punch once, no reader misses one, no ring of writers | `PunchFeed` |
| Review | `internal/domain/review` | reviews | `Record` | two managers at once, after a holding has ended | one decision per record, with its event | `PunchFeed` |
| Webhook delivery | `internal/webhook` | delivery rows, the worker's set of tenants | `Notice`, `RunFor`, `claim`, `deliver`, `Resend` | leases that expire while a post is in flight; wake-ups during a sweep; shutdown | at least once, in bounded attempts, never two live claims; no wake-up lost | `Worker`, `WorkQueue`, `Delivery` |
| Plaque encoding | `internal/encode`, the relay app | sessions, chip keys, `tags` | `Begin`, `Step`, `Abort`, sweep, `Close` | a chip swapped or torn away between any two commands; answers lost or repeated | a chip never carries keys its row lacks | `Encode` |
| API writes | `internal/apikey/writes.go`, `handler/api` | `api_idempotency`, employees, the audit trail | `Run`, `DeactivateEmployee`, `createAPIEmployee` | retries while the first request runs; sweeps of old rows; a budget under concurrency | applied once, answered right, within the budget, no deadlock | `ApiWrites` |
| Operator authentication | `internal/operatorauth`, `cmd/opadmin` | in-memory limits, the operator's row, links, the audit log | first factor, second factor, enrolment, reset scripts | limits in memory against rows in the database; failing writes; scripts applied by hand in any order | no challenge without its trail, no session past the lock, no code or link used twice | `SignIn` |
| Sessions, invites | `internal/session`, `internal/invite` | codes, sessions | redeem, revoke, queue | one code on two phones | a code is redeemed once | - |
| Manager authentication | `internal/adminauth` | tokens, lockouts | login, reset | parallel guesses | a token is used once | - |
| Mail | `internal/mail` | breaker, recipient counters | `Send` | goroutines around a half-open breaker | one probe at a time | - |
| HTTP shield | `internal/httpx` | rate buckets | limiter, timeout | eviction under load | a bound that holds | timeout in `Checkin` |
| Administration, sandbox, signup, billing, legal, pages, commands | see `PROJECT.json` | single rows | edits, reads | little | - | in part |

Components call each other directly in one process and meet in PostgreSQL: taps,
manual records and claims through the ledger and the person's advisory lock; taps
and administration through `tags` and `employees`; the ledger and the webhooks
through the punch feed and `Worker.Notice`; the encoding and the taps through the
keys in `tags`.

## 2. Modules

| Module | Models | Composes | Checked by |
|---|---|---|---|
| `Policy` | guardrails, baseline, `Evaluate` | - | `MCTapDecide`, `DirectionProofs` |
| `TapDecide` | `tap.Decide`, `PredictDirection`, `ClassifyCheckout` | extends `Policy` | `MCTapDecide`, `DirectionProofs` |
| `Checkin` | `checkin.Service.Record` by concurrent requests, with its environment | extends `TapDecide` | `MCCheckin`, `CheckinProofs` |
| `Claims` | the chain of one person's records: taps, claims, managers, the report | instantiates `TapDecide` under each cutoff | `MCClaims`, `DirectionProofs` |
| `PunchFeed` | the feed's triggers, its backfill, reviews, cursor and walk | - | `MCPunchFeed`, `PunchFeedProofs` |
| `WorkQueue` | what the webhook worker promises: a queue, first come, first served | - | as a property of `MCWorker`; its safety half in `WorkerProofs` |
| `Worker` | the webhook worker's set, loop, timers and drain | implements `WorkQueue` | `MCWorker`, `WorkerProofs` |
| `Delivery` | the deliveries of one business: feed, job, results, resend, retention | - | `MCDelivery`, `DeliveryProofs` |
| `Encode` | encoding sessions, the relay, the chips and their rows | - | `MCEncode`, `EncodeProofs` |
| `ApiWrites` | writes of one API key under Idempotency-Keys | - | `MCApiWrites`, `ApiWritesProofs` |
| `SignIn` | one operator's sign-in, enrolment and reset | - | `MCSignIn`, `SignInProofs` |

A module `MCx` only gives values to the constants of `x` (`MCTapDecide` also
holds the one-step behaviour and the properties of the pure decision). A comment
that starts with "Mutant:" marks a wrong form of the operator below it: the
property named with it in `PROJECT.json` fails when the wrong form takes its place,
which shows that the property depends on that piece of code.

### Checkin: one tap from the press to its row

`Record` runs in the goroutine of a request; its state is the record `req[r]`
whose `pc` says how far it is. Steps are cut where another request can act in
between, that is at every transaction and every lock wait:

| Action | Code | Another request sees |
|---|---|---|
| `OpenPage` | the tap page: `PreviewWithoutReplayProtection`, signed into the context | nothing |
| `Press` | `Record`'s start: `now` is read, the plaque resolved | nothing |
| `Advance` | `advance`, `advanceAtAPeer`, `AdvanceTagCounter`: its own transaction | `tags[t].lastCtr` |
| `Begin` | the policy set is loaded, the record's transaction starts | nothing (`txStart` becomes `created_at`) |
| `LockEmployeeForTap` | the advisory lock on the person, or the wait for it | `lock[e]` |
| `GatherAndDecide` | `gatherWith`, `tap.Decide`: reads the ledger under the lock | nothing |
| `Write` | the site gate, the insert, the commit, the lock's release | `ledger` |
| `After`, `AlertLost` | the security alert in a transaction of its own | `alerts` |
| `Fail`, `Timeout` | a disconnect, a database error, a crash, `middleware.Timeout` | the lock is free; a spent counter stays spent |

The environment changes what a tap can see: the clock, a plaque's status, a
person's deactivation, a holding membership that ends, a manager's record under
the same lock. The AES-CMAC is the boolean `genuine` of an input; a time zone is a
set of day-start instants (`Cutoffs`).

### TapDecide and Policy: the decision

`Decide` is translated whole: the facts and the context it builds, the guardrails,
the evaluation of the documents, the verdict, the direction and its source. Only
the conditions the shipped documents use are modelled.

### Claims: a chain and everybody who writes to it

A section under the person's lock is one step, because all that it reads is written
under that lock; what a request reads before the lock is a step of its own. So a tap
is `PressTap` (its instant) and `RecordTap`; a claim is `Offer` (the card of the
result screen), `SendClaim` (`Submit`'s clock) and `Submit`; a manager's transaction is
`Begin` (its `created_at` is decided here), `BeginAgain` (`manual.Within` after a tap
overtook it) and `Record`, `Approve` or `Reject`. `accumulate` is the report's walk and
`Missing` the claim's search; the two are checked against each other. Time is counted in
hours at the instants that matter (`Instants`); `created_at` is the rank of the start of
its transaction, since code only ever compares it.

### PunchFeed: numbers, pages and the backfill

A statement of a transaction is a step (READ COMMITTED: each sees what was committed
before it). The insert fires the triggers, which raise the counter of each company in
the order of the ids and hold its row lock to the commit. The backfill (`back`) works in
windows, one transaction each, and can be cut short between them and started again.
`feed` is a client of `PunchPage`: the head in one statement, the list in the next, an answer
that can be lost. `walk` is a client of `HistoryPage` within a snapshot position.

### Encode: a round against whatever chip is there

`sess[r]` is the session at the server and the phone of the round: which step is due,
which answer is on its way, which chip the phone is held to. An action is one request of
the relay (or the step it starts, and the step's end: the session's mutex is not held
while the database is written), the sweeper, an abort, `Close`, a restart. The chip's answer
is `Answered`, external. `Accepts` says what a step accepts: some commands answer with a
bare acknowledgement, so an answer delivered twice fits them unless the MAC's counter, the
order of the commands or the repeat check tells.

### ApiWrites: a write and its retry

One request of `Writes.Run` is cut at every statement that takes a lock: the sweep of old
rows in a transaction of its own, `Begin`, the delete of the own expired row (`FreeKey`),
the insert that waits for another's (`Claim`) or finds it committed (`Replay`), the work, the
commit. `Blockers` names whom a statement waits for. `now()` is the start of a transaction,
as in PostgreSQL, not the instant of the statement. `trail` keeps the key and the end of each
transaction for the properties only.

### SignIn: memory against rows

`cap` and `budget` are the windows of the process's memory, lost at `Restart`; `acct`,
`scripts` and `log` are the database. The password step charges the cap, writes its row and
makes a challenge in three steps, of which the write can fail or lose its answer; the code
step reads the account, decides the code and calls `op_open_session`, which looks at lock and
code again under the row lock. `Reset` applies a generated script, any of them, any number of
times.

### Worker: the set and the loop

A call under `w.mu` is one step. What happens outside the mutex is a step of its
own: the non-blocking send on `wake` (`Send`, `SelfSend`), the instant a timer is
computed for (`JobAnswersLater`, before `noticeAfter` gets the mutex), a timer's
function between leaving the map and calling `Notice` (`Fire`, `FiredNotice`), a
`Stop` that comes too late (`noticeAfter`'s second disjunct) and the cancelling of
the context (`DrainCancels`). Instants are relative to the present.

### Delivery: at least once

A transaction is one step; the request to the receiver is `Post` and `Answer`,
with no transaction open. `row[d]` is the row of a delivery, `leaseOf` stands for
the value of `lease_until` that a worker matches when it records its result. Every
process runs its own worker (`noticed`, `timer`: what `Worker` promises) and
commits work of the business (`unnoticed`: committed, not yet noticed). The API
gate, the endpoint's switch, its address and its key are one flag, `open`: the job
treats all four alike. Faults are explicit: a transaction that fails (`RunFails`),
one that commits although its caller hears an error (`CommitUnknown`), the end of a
process (`Restart`), a process that stands still past its lease (`Stall`).

## 3. Runs

| Run | Question it answers | Distinct states |
|---|---|---|
| `taps` | Two taps of one person, live or declared for another time, overlap with each other and with a manager's record: do the debounce and the alternation hold, and is the lock held where it must be and nowhere else? | 1.5 M |
| `holding` | A host's employee and a guest of the holding hold one read of one plaque while the plaque, the employee and the membership change: is a read accepted twice, whose counter moves, does a plaque out of service count, is a spent read refused? | 2.4 M |
| `decide` | Is the verdict independent of the order of documents, can a wide rule loosen it, and do the writer of a direction and its reader agree? | 56 k |
| `worker` | Is a wake-up lost, a later answer forgotten, anything left after `Drain`, in any interleaving? | 3.9 M |
| `worker_live` | Is the worker a first-come-first-served queue that is served while it runs, and is what is due later run again? | 0.3 M |
| `delivery` | One delivery, two processes, a resend, one fault and one stall anywhere: two requests at once, tries beyond the limit, a try counted twice or for nothing, a pending delivery on nobody's mind? | 1.4 M |
| `delivery_live` | Do two deliveries of one process settle once the gates stay open? | 52 k |
| `claims` | Taps, one claim, a manager's records and a moving cutoff: can what was submitted be approved, does an approval add exactly its interval, do card and report agree, does a correction orphan a checkout? | 0.7 M |
| `feed` | Taps and approvals of two companies at each other's places, the backfill and a reader: is a position or a punch missing or doubled, does a page or a walk skip one, can writers wait in a ring? | 1.1 M |
| `encode` | Two rounds, two chips, a phone that swaps them, answers lost or repeated, deadlines, a close and a restart: does a chip ever carry a key its row lacks, is "encoded" true, do the counters follow the sessions? | 0.9 M |
| `api` | Three requests of one key with two Idempotency-Keys, old rows, lost answers and rollbacks: applied once, answered right, within the budget, no ring of waits? | 1.1 M |
| `signin` | Password, code and enrolment requests side by side, failing writes, a restart, scripts applied again: a challenge without its row, a session past the lock, a code or a link used twice? | 0.3 M |

All of them pass: what they ask about holds in the model of the code as it is.

### Bounds, and why they are enough

- **`Checkin`, people, plaques, requests.** The properties relate two rows (a replay, two
  counted taps, a checkout and its check-in), so two requests can violate each; the manager's
  row in `taps` is the third that can lie between them. Two plaques are not needed in `taps`:
  the lock and the debounce are the person's. `holding` has one person and one plaque of each business.
- **Clock.** A tick before and after each deadline. `RequestTimeout = 1` is less than
  `DebounceWindow = 2` and `Grace = 2`, which is what `TimeoutAssumption` asks and
  section 5 explains.
- **`MaxCtr`**: one read, used by both people and both requests; the theorem on replay
  covers every value of the counter.
- **`RowIds`, `MaxManual`**: one row per request and per manual record.
- **`Worker`.** Two tenants are what fairness between tenants needs, two jobs what
  a shared timer needs, the delays 0, 1 and 2 give "at once", an earlier and a
  later answer. `MaxCallers` bounds callers between the mutex and the
  channel; the channel holds one token, and the loop's own send is a second.
  `MaxLate` bounds how long the loop may wait for the mutex.
- **`Delivery`.** `MaxAttempts = 2` has a first, a last and, with a resend, one
  more try; `Lease = 2`, `Hold = 1` is the shortest lease that is longer than the time a
  claim is held; one fault, one stall, one resend in any place. The theorems of
  section 5 lift these bounds for what they state.
- **`Claims`.** Three directed records (`MaxRows`): a pair and the one that disturbs it;
  four starts of transactions (`MaxStarts`), so that a tap can overtake a manager whose retry is
  then used up (`Retries = 1`; the code has 3, which only makes it rarer). The four `Instants`
  lie before a cutoff, after it, beyond the longest shift and in the next day; one change of the
  cutoff (`MaxMoves`) at any point. One manager: two are serialised by the same lock.
- **`PunchFeed`.** Two writers in two companies are what a ring of two counters takes; two old
  records and windows of one (`Chunk`) let writers and a restart fall between the windows. A page
  reads two positions and hands out one event (`Window`, `Limit`), so both limits are met.
  `Runs = 2` starts of the backfill.
- **`Encode`.** Two rounds and two chips, so that the phone of one round can meet the chip of
  the other; the limit per manager is two, so a third session, the restart of a round, meets it.
- **`ApiWrites`.** Three requests make a ring of two with a third that holds what both need, and
  two more requests than the budget. `Batch = 1` lets a sweep take one of two old rows. The clock goes
  past the budget's hour and the row's day.
- **`SignIn`.** Limits of one and two are each met and passed; `Crowds` lists which requests
  come together; the clock goes past a window, a lock, a challenge and a link.
- Symmetry is used for requests, tenants, processes, chips, rounds and attempts, in runs
  without liveness.
- `CHECK_DEADLOCK FALSE` everywhere: the counters, the clock and the sequence of
  requests are bounded, so the bounded system does come to an end. That work and
  deliveries do not get stuck is what the liveness runs check; that transactions do not
  wait in a ring, `NoCircularWait` in `feed` and `api`; that a tap's lock is let go of,
  `LockHeldInTransaction`.

## 4. Fairness

Only the models with a liveness property state fairness; the others check safety.

- **`Worker`**: weak fairness of the loop (a run ends: its budget is ten seconds and each
  post has a timeout), of callers past the mutex, of the clock and of a timer that is
  due. `FiredNotice` has strong fairness: it is switched off now and then only by the
  bound `MaxCallers`, while the code's mutex starves nobody. None on notices, `Start`
  and the shutdown.
- **`WorkQueue`** promises service under weak fairness, which `Worker` is checked to
  deliver (`FirstComeFirstServed` includes the fairness of the abstract queue).
- **`Delivery`**: weak fairness of a process's run, its timer and the handler that has
  committed, and of the clock. None on the business, the owner, the operator, faults
  and stalls. `EverythingSettles` assumes no fault: after one, a delivery may wait
  until its business is next active, which the code accepts (there is no scan across
  businesses).

## 5. Theorems

Each holds for every value of the constants that satisfies the named assumptions of
its module, for the specification without fairness. The second column names the property
of a run that the theorem states; the third, the inductive invariant and why the property
alone is not inductive.

| Theorem | Property | Inductive invariant |
|---|---|---|
| `CheckinProofs` | | |
| `TypeCorrect` | `TypeOK` | `TypeInv`: `TypeOK`, and a request that is `decided` has a verdict of the ledger. Without the second part `Write` could store the "none" of an idle request. |
| `ReplayProtection` | `ReplaySafe` | `ReplayInv`: `SpentInv` (a SUN-valid request has spent its counter value and no other request has the same read); `LedgerInv` (a SUN-valid row belongs to the one request that wrote it). The property speaks of rows, while the counter is spent by requests that may never write one. |
| `LockIsHeld` | `LockHeldInTransaction` | itself, over `TypeInv` |
| `CounterIsItsReaders` | `CounterMovesOnlyForItsReaders` (an action property) | `TypeInv`: `Advance` looks at the peers and the counter it replaces |
| `SpentIsLetThrough` | `SpentCounterNeverGated` | `ClockInv` (a request that runs is younger than its time limit) and `PeerInv` (who spent a peer's counter was a peer at the press or later); with `RequestTimeout < Grace` the gate then still knows the peer |
| `InactiveNeverCounts` | `InactiveTagNeverCounts` | `CInv`, below, of which `ServiceInv`: who holds "active" for a plaque pressed before it left service |
| `DebounceIsKept` | `DebounceHolds` | `CInv`, of which `DecidedInv`: a decision that counts saw a debounce window without a counted tap, and the lock keeps the person's rows as it saw them until it has written |
| `TapsAlternate` | `LiveTapsAlternate` | `CInv`, of which `DecidedInv`: a checkout of the engine has an open check-in. A tap that was overtaken carries an older instant than the row before it; it cannot count, since its request is over (`ClockInv`) before the debounce window of the other is (`RequestTimeout < DebounceWindow`). |
| `DirectionProofs` | | |
| `DocumentsDecide` | - | None: a fact about `Evaluate`, for documents of any length. The applicable statement that rules all others decides, by scope, then severity, then order; by default, when none applies. |
| `TheRulingStatementIsPicked` | `ScanPicksTheRulingStatement` | `DecideInv`: the input is of its type, and what is decided is `Decide` of it |
| `BaselineStands` | `OnlyAVenueRuleLoosens` | `DecideInv` and `DocumentsDecide`: a review statement of the baseline that applies rules any that does not name the venue |
| `WriterAndReaderAgree` | `PredictionAgreesWithClassification` | `DecideInv` |
| `ChoicesAreExplained` | `ChosenDirectionIsExplained` | `DecideInv` |
| `ClaimsInvariant` | - | `ClaimsInv`: records differ in place and in transaction, and a record of the engine is not later than the clock (`RowsInv`); a rank of a transaction under way is its own and not yet written, and a waiting tap is later than every tap recorded (`TapInv`, `WorkInv`); what a card, a claim and a decision are about is written (`CardInv`, `ClaimInv`, `WorkInv`); `OrphanInv` |
| `NoOrphanTheorem` | `CorrectionIsNoOrphan` | `OrphanInv`, of `ClaimsInv`: a checkout the engine predicted has a check-in of its day before it, and every checkout between them is of a younger transaction, or some correction was written blind. The property speaks of the report, which sees neighbours only; a later tap or correction may come between them, and a correction that is not blind is younger than all that is written. |
| `AgreeTheorem` | `ClaimsAndReportAgree` | `RowsInv`, and `MissingIsListed`, below: a fact about any set of records |
| `SubmittedTheorem` | `SubmittedIsApprovable` (an action property) | `ClaimsInv`, and `AdmittedCloses`: a moment before the end of the anchor's day, drawn from the frozen day, is in the day that today's cutoff gives the anchor, unless that cuts the day short, which Submit refuses |
| `ApprovalTheorem` | `ApprovalAddsItsPair` (an action property) | `ClaimsInv`, with the report told as the rows that follow one another (`PairsAre`): the new record comes right beside its anchor, which had no interval, so it parts no two rows that had one |
| `WorkerProofs` | | |
| `TypeCorrect` | `TypeOK` | `TypeInv`: `TypeOK`, and the job's place is one of a job wherever the loop is inside one |
| `WakeupsKept` | `NoLostWakeup` | itself, over `TypeInv` |
| `SetAndOrderAgree` | - | `SetIsOrder`, over `TypeInv` |
| `DrainIsQuiet` | `QuietAfterDrain` | with "a caller of `Drain` that has left the mutex has closed the worker" |
| `LaterWorkIsKept` | `LaterIsKept` | `LaterInv`: `SetIsOrder`; `TurnInv` (a turn has a tenant once and is over before the next is taken); `AskInv` (the instant about to be armed is no later than the work is due, or the work is already taken care of: of two answers in one run the earlier may have come first) |
| `WorkerIsAQueue` | the safety half of `FirstComeFirstServed` | `LaterInv`: the queue is what is left of the turn, then the order. Each action of the worker is one of `WorkQueue` or a stutter, which needs that a tenant is in turn and order once each. |
| `DeliveryProofs` | | |
| `TypeCorrect` | `TypeOK` | itself |
| `LeaseKeepsApart` | `OneRequestAtATime` | `LeaseInv`: until a process stalls, a held claim is `Covered`: its row is pending under its own lease, and lease and age of the claim sum to `Lease`. So its lease is live, and no claim, resend, sweep or result of another touches its row. |
| `TriesAreBounded` | `TriesBounded` | `TriesInv`: a pending row has a try left, and a claim whose row is still its own knows the row's tries. Holds with stalls too, where a result comes late. |
| `LogStands` | `LogIsKept` (an action property) | `TypeOK`: the result's statement, the resend and the sweep each look at the state they replace |
| `NothingForgotten` | `NeverForgotten` | itself, over `TypeOK`: every run that leaves a delivery pending has asked for its turn, and every write of a pending row is noticed |
| `RequestsAreAccounted` | `EveryRequestAccounted` | `AccountInv`: the equation, and that the processes with a request on the wire are finitely many, without which their number would mean nothing |
| `PunchFeedProofs` | | |
| `TypeCorrect` | `TypeOK` | `IInv`: `WriterInv` (the counters a transaction holds are the smallest of its targets and nobody else's; one that is ready has the next position of each); `RecordInv` (who reviews a record found it committed, an old record is no holding's); `BackInv` (a punch whose event the backfill owes is ahead of it or in its window) |
| `PositionsCounted` | `EventsAreCounted` | `IInv`: positions are handed out under the counter's row lock |
| `PunchesFed` | `EachPunchOnce` | `IInv`: the backfill and the triggers never owe the same event |
| `NoRingOfWriters` | `NoCircularWait` | `IInv`: whoever holds what a writer waits for waits, if at all, for a greater company |
| `CursorGivesAll` | `CursorSkipsNothing` | `CursorInv`, over `IInv`: the cursor and the page's last position are at most the counter, so every later commit lies beyond both. The property speaks of what was given; that a page adds to it exactly what lies between needs that the list is cut at a position (`FirstIs`) and that one sorted set followed by another is sorted (`Joined`). |
| `WalkGivesAll` | `WalkIsWhole` | `WalkInv`, over `IInv`: the snapshot is at most the counter, the window ends beyond where the walk stands, and when it is the last nothing of the snapshot lies beyond it |
| `EncodeProofs` | | |
| `TypeCorrect` | `TypeOK` | `IInv`, below |
| `KeysAreRecorded` | `ChipKeysAreRecorded` | `IInv`: an answer to GetCardUID was given while no chip but its own was authenticated by the round, and none has been since (`AnswerInv`); from the end of the version step the round's row holds its keys, and past GetCardUID only that row's chip is authenticated by the round (`RowInv`); a chip's key is its row's (`KeysInv`). The property alone does not say why a key command reaches the right chip. |
| `StampedIsComplete` | `EncodedIsComplete` | `EInv`: `IInv`; `FlowOf` (the answer taken up last is not one to the step that is due, so a repeated acknowledgement is not taken for the next command's); `GotInv` (an answer that fits the due step means that the chip did it) |
| `LimitsCount` | `SessionsAreCounted` | `EInv`, of which `CountInv`: the sessions counted are the live ones, a plaque is held by a live session that got that far, and after `Close` only what is running lives |
| `ApiWritesProofs` | | |
| `TypeCorrect` | `TypeOK` | `IInv`: what a request's place says of what it holds (`Shape`) and of the committed rows (`Grounds`); two requests never hold one key's row or the budget (`Apart`); a change under a key is covered by the key's row or is a day old (`Covered`) |
| `WritesOnce` | `OncePerKey` | `IInv`: who claims a key saw no row, or freed an expired one |
| `AnswersAreTheirs` | `AnswerIsOfTheRequest` | `IInv`, of which `LedgerInv`: a row's answer is of the reference the row was written for |
| `BudgetKept` | `BudgetHolds` | `IInv`: who holds the budget's lock has counted less than the budget within its hour |
| `NoDeadlock` | `NoCircularWait` | `IInv`: who is waited for waits, if at all, for the budget or a reference, whose holders go on without waiting |
| `SignInProofs` | | |
| `TypeCorrect` | `TypeOK` | `IInv`, the conjunction of the next three rows' parts |
| `ChallengesAreWritten` | `TrailBeforeChallenge` | `CapInv` (a request's window is one that was written down), `RowsInv` (every row counted, and every one about to be, is there) |
| `LockKept` | `LockHolds` | `LockInv`: the failures since the last session or reset were counted, and the limit's lock runs from the last of them |
| `NothingSpentTwice` | `SpentOnce` | `StepInv` (a session no reset followed left its step in the account); `LinkInv` (a link that is or was in place is older than the account's last reset, so its script applies no more) |

`Evaluate`'s scan of the documents is a recursive function on the numbers. That it exists,
and what it has found after n statements, is proved by the least n for which it would
fail (`WFMin` of `WellFoundedInduction`), and so for documents of every length.

What the theorems on `Claims` say of the chain and of the report holds for chains of every
length. `ChainOf` picks the i-th row as the one with i - 1 rows before it: that a strict
total order of a finite set numbers it (`RanksCount`) makes the chain a list of the rows
(`ChainIs`). The report is a recursive function over the list. `WalkAt` says what the walk
holds after k rows: the slot is the k-th row if that is a check-in, `lastIn` the instant of
the latest check-in, and each list holds the rows below k that the claim's search, which
looks at the neighbours in the chain, puts there. One row keeps that (`WalkStep`), all rows
do by the least k for which it would fail (`WalkHas`), and at the end of the chain it is
the agreement of the two (`MissingIsListed`).

### Assumptions

The named assumptions say what kind of value each constant has; TLC evaluates them in
every run. Those that say more:

- `Checkin!TimeoutAssumption`: `RequestTimeout < DebounceWindow` and `RequestTimeout <
  Grace`. The server gives a request 30 s, counted from before `Record` reads `now`, so less
  than 30 s are left; the shortest debounce a business can choose is 30 s
  (`DebounceMinSeconds`), and the site gate's grace is 60 s. `TapsAlternate` and
  `SpentIsLetThrough` rest on it: a longer request timeout, or a shorter debounce, would
  break them.
- `Delivery!DeliveryAssumption`: a claim is held for less than its lease, as the code's
  budgets are.
- `ApiWrites!RefAssumption`, `SignIn!LoginAssumption`: references and attempts are finitely
  many, so that what is counted is a number. `PunchFeed!RowAssumption` and
  `OutcomeAssumption` say what the old records look like and that a review's outcome is
  not the word for a tap; `ReaderAssumption`, that the feed that is read is a company's.
- `Claims!ClaimsAssumption`: managers and instants are finitely many; the code's 26 hours past
  a day's start (`PastTheDay`) are less than two days; the clock starts after the first
  cutoff. With 48 hours or more, the end of a day could be the end of the next, and a moment
  `Submit` admits would not close its anchor (`SameDay`).
- `Policy!ParamsAssumption`, `TapDecide!DirectionAssumption`, `MCTapDecide!BoundAssumption`:
  windows, skews and instants are numbers.

### Only model-checked

Liveness only (`DueIsRun`, `EverythingSettles`, and the liveness half of
`FirstComeFirstServed`): the prover handles neither fairness nor `ENABLED`.

## 6. What the models leave out

In general: wording, logging, parsing, rendering and cryptography. Transactions are
single steps where a row lock or the person's advisory lock makes them so, and steps per
statement where it does not (`PunchFeed`, `ApiWrites`).

- **`Checkin`, `TapDecide`**: the audit of unknown plaques, branding, lateness against a
  shift; `CIDR`, time-of-day and string conditions of policy documents, which no shipped
  document uses.
- **`Claims`**: who may decide (a check of one row), the confirmation step and the deactivated
  person, which only refuse. One tap at a time; its instant never ties with another row's;
  the clock moves at most once while a request runs. The report covers one period, and the chain
  is read whole. That a card is shown at most twice is modelled (`Shown`, `SecondShowing`) but
  stated by no property.
- **`PunchFeed`**: the content of an event, the webhook deliveries written beside it
  (`Delivery` starts from due ones) and `site_punches`; the guard against a second
  event-writing row in a transaction (TF001); a restore of the database (`ErrCursorAhead`). The
  lock of the last counter and its raise are one step; one client at a time; transactions are
  numbered in the order of their beginning; the unique key of a review is held by one undecided
  transaction at a time. The backfill is started over only where it waits or holds its lock.
- **`Encode`**: the three frames of GetVersion and the two of the authentication are one
  exchange each; what is delivered twice is the last answer; the limits per tenant and of all
  sessions have the same shape as the one per manager.
- **`ApiWrites`**: the suspension's checkpoint (`Gate`), the fields of a PUT beyond the reference
  (its `active: false` runs the same deactivation as DELETE), the queue of invitations. The
  row of the ledger that records an answer is written with the commit; the alert's lock, count and
  insert are one step. `OldKeys` are yesterday's rows.
- **`SignIn`**: one operator; wrong passwords and unknown addresses, which only fill the audit's cap
  that nobody else reads; the budgets of work and flood; disabling an operator; the use and the end of a
  session. A challenge names an account. The process's clock and the database's are one.
- **`Delivery`**: ping, creation, rotation and address of an endpoint, signatures, egress.

### Not modelled

Sessions and invites, manager authentication, mail, the rate limiter and the rotation of
the key-encryption key are candidates (section 7). The sandbox drives the same services
with generated taps; signup, billing and legal are sequential edits of single rows; egress is a
pure check of addresses that the repository tests exhaustively; `internal/store` and the page
templates are generated, and with the handlers that fill them they are most of the repository's
lines.

An observation that is not a disagreement: `ResendWebhookDelivery` is commented "one
bucket slot is one request". A shutdown while a revived delivery's request is out
leaves the try uncounted, and the delivery is sent again from the same slot.
`EveryRequestAccounted` counts such requests in `lost`.

## 7. Plan

Every invariant and action property that a run checks is stated by a theorem of section 5.
Still to prove: `Worker` inside `Delivery`, that is the queue's promise, which
`WorkerIsAQueue` gives, in place of what `Delivery` assumes.

Modules still worth writing: codes and sessions (`Invite`: one code on two phones), the reset
tokens of managers, the mail breaker and recipient cap, the rate limiter, the rotation of the
key-encryption key, and `Worker` inside `Delivery` in place of what `Delivery` assumes of it.
