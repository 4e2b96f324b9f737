# VNXcommerce ERP: verified core

TLA+ models, TLC runs and TLAPS proofs for the parts of the ERP that decide, under concurrency and failure, *whether a piece of
work is carried out, how often, and on whose word*: the second-person approval gate, the workflow engine's ledger of runs and its
event cursor, the outbox of chat messages, the queue of technical tasks, the shell of the background jobs with the outbox of
wholesale e-mail inside it, and the money customers pay to the platform. All are made of the same material: short SQL statements
of several server processes on one PostgreSQL database, with calls to the outside world between them and nothing that survives a
restart except the rows. What goes wrong there goes wrong between two statements, where the test-suite (which runs one caller at a
time on PGlite) does not look.

Paths below are relative to `src/`. Times are kept in ticks; what a tick stands for is said where it matters.

## 1. Inventory

| component | state it keeps | operations | what makes it correct |
|---|---|---|---|
| **Approval gate** `lib/approvals/{service,execution,reservation-sweep}.ts` | `approval_requests` (status, decided/executed times, execution error), `domain_events`, audit log, setting `approval.enforce.v2` | guard, ask, decide, expire, consume, confirm, release, record a failure, sweep stuck reservations | one approval never runs two calls; nothing is done twice without a warning; only what a second person approved is done; the event ledger is true; nothing stays reserved |
| **Workflow runs** `lib/workflow/{engine,actions,stale,rules}.ts` | `workflow_runs` (status, attempt, lease, steps), the machine's rows of `approval_requests` | process a rule, sweep waiting runs, claim, execute step by step, finish, recover, settle | one holder at a time; the step ledger is true; an ended run stays ended; a refused run does nothing; stuck runs end |
| **Event cursor** `lib/workflow/{engine,cursor,rules}.ts`, `lib/events/emit.ts` | `domain_events`, `workflow_cursors`, active rules | emit, read a batch, match rules, advance the cursor, switch rules on and off | nothing readable is skipped; the cursor does not go back; rule loops end; every event is passed one day |
| **Message ledger** `lib/messaging/{service,providers}.ts` | `messaging_deliveries` (status, attempts, next retry) | deliver under a deduplication key, retry job | one sender per message; a second copy only after a doubtful answer; SENT is final |
| **Technical task queue** `lib/tech/{worker-service,service,watchdog}.ts` | `tech_tasks` (status, lease and its generation, attempts), `tech_agent_runs` | claim, give back, heartbeat, start, complete, reap, set status by people | a result is taken once and from the holder of the newest generation; it is on record; attempts are bounded; a call that starts after a person put the task aside leaves it; no expired lease stays |
| **Sync runner** `lib/sync/runner.ts` | lock map in memory, `sync_runs` | run a job once, watchdog, close orphans | runs overlap only when one is late; the row goes on telling how the run ended |
| **E-mail outbox** `lib/wholesale/email-*.ts` | `wholesale_email_outbox`, settings with the stops, events of a lead | edit, approve, queue, cancel, reopen, pause, unsubscribe, tick | one send per approval; only the approved text; a silenced lead gets nothing |
| **Prepaid AI balance** `lib/billing/{ai-balance,ai-usage-charge}.ts`, `lib/pricing/{ai-gate,ai-customer}.ts` | ledger entries, usage events, top-up intents | gate, meter, charge, reverse, top up, adjust, refund | debt, charges and refunds exceed what is owed by no more than the races allow |
| **Subscriptions and invoices** `lib/billing/{service,rules,addons}.ts` | invoices, paid-through date, add-on units, `platform_billing_payments` | quote, open, void, match bank rows, confirm, dismiss, mark paid, resolve | what is recorded of a bank row is what became of it; quota is what was paid for; nothing settled is changed |
| Tenants, kill switches `lib/platform/*` | organizations, flags | provision, suspend, offboard | one organization per request |
| Sessions and permissions `lib/auth/*` | sessions, roles | login, revoke, check | tables of permissions |
| Webhooks and integrations `app/api/webhooks`, `lib/integrations`, `lib/carriers`, `lib/channels` | upserts by natural key | receive, poll | idempotent upserts |
| Orders, stock, returns `lib/records`, `lib/inventory`, `lib/returns`, `lib/reorder` | orders, stock movements | one transaction per operation | the books balance |
| Payroll `lib/payroll` | periods, payslips | compute, sign off | numeric |
| Care, sales chatbot `lib/care`, `lib/cs`, `lib/inbox`, `lib/sales-chatbot`, `chatbot/` | conversations | answer, hand over | steered by a language model |
| Agents, metadata, pages, outreach, creative, push, realtime, UI, scripts | see `PROJECT.json` | | |

How they meet. A server action asks the gate and runs inside `withApprovalExecution` or in a transaction of its own. The rule
engine asks the same table in its own name (`proposeMachineApproval`, `settleMachineApproval`); its actions emit events
(`emitDomainEvent`) which its own next pass reads, and send messages through `deliverMessage` under a key derived from run and
step, so that a recovered run does not send twice. The tick of the e-mail outbox is one of the jobs `runSyncJob` runs. A bank row
pays an invoice or, if it carries no code of one, a top-up of the AI balance, which the gate before each answer of the sales AI asks.
Schedulers (`scripts/`) start passes of the engine, the reservation sweep, the retry job, the reaper and the sync jobs; several server
processes may do so at once and each may be stopped at any point.

The hazards this code has are listed, line by line, in `PROJECT.json` under `hazards`; those no property covers say why.

## 2. Modules

| module | models | checked by |
|---|---|---|
| `OneTimePermit` | abstract: the life of one approval, without rows, clocks or callers | the refinement of `ApprovalGate` |
| `ApprovalGate` | the gate for people: rows, calls, settlement paths, sweep | `gate_one_approval`, `gate_several_works` |
| `ApprovalGateProofs`, `WorkflowRunsProofs`, `EventCursorProofs`, `MessageLedgerProofs`, `TechQueueProofs`, `EmailOutboxProofs` (with the runner), `BillingPaymentsProofs`, `AiBalanceProofs` | theorems about the module they are named after | TLAPS |
| `OrderedJob` | abstract: a job that is consented to, claimed, carried out in order and ended, without leases, passes or rules | the refinement of `WorkflowRuns` |
| `WorkflowRuns` | the ledger of runs and the machine's approval | `runs_ledger`, `runs_recovery` |
| `EventCursor` | batches, cursor, rules of the moment, causation depth | `cursor` |
| `MessageLedger` | the outbox of messages and its retry job | `messages_race` |
| `FencedWork` | abstract: work given out under tokens, results accepted in their order | the refinement of `TechQueue` |
| `TechQueue` | tasks, leases, late and repeated requests of workers, the reaper, people | `tech` |
| `SyncRunner` | the shell of a background job; has no `Next`, a job composes it | `email` |
| `EmailOutbox` | people, the lead, and the tick, composed with `SyncRunner` | `email`, `email_stop` |
| `BillingPayments` | bank rows, invoices, top-ups, and the sweeps and operators who match them | `billing`, `billing_twice` |
| `AiBalance` | the prepaid balance between gate, meter, charge and operators | `ai` |
| `*MC` | constants and symmetry for TLC | |

Each action is one SQL statement, one transaction, or one request to the outside; between two actions of a caller anything else may
happen. A definition marked "Mutant" stands beside the definition it mutates and belongs to no specification: it is what a
plausible bug of that code would make of it, and the property it is paired with in `PROJECT.json` fails under it. `TypeOK` is an
invariant of its own in the gate; in the other modules it is the first conjunct of the main state invariant (`LedgerIsTrue`, `PassedIsHandled`,
`OneSender`, `NoEndlessRetry`, `OneSendPerApproval`, `RecordsAreTrue`, `DebtIsBounded`) and is proved with it.

### ApprovalGate

One approval group. A row is `status, key, decidedBy, decidedAt, executedAt, executionError`; a key stands for the requester and the
fingerprint the gate matches on. A call goes `expire` (expireStaleApprovals), `select` (candidates of consumeApprovedRequest), `flip`
(the conditional UPDATE, tried candidate after candidate), and then by the settlement of its call site: DEFERRED runs `audit`, `body`,
then `confirm` or `release`; IMMEDIATE is settled at once and may `record` a failure; IN_TRANSACTION consumes, writes and settles in
one step, since its statements commit together (`lib/inventory/receipt-create.ts`), with the expiry inside the same transaction.
`Crash` ends a call anywhere. The sweep `ReleaseStuckReservations` hands back DEFERRED reservations whose log row exists and that are
older than the time limit. `trace` is a history variable: what the business tables show ("clean", "written", or "doubtful" when the work
may be there though its call failed or was given up).

Abstracted: policies and amounts (`Exempt` says which keys are let through), texts, notifications, list queries. Assumed, as
`reservation-sweep.ts:30-37` does: no guarded call outlives the reservation limit (`ActionMax < ReservationTimeout`).

### WorkflowRuns

A worker is one pass of `runWorkflows`; it looks at rows one by one, and what it read of a row (`held`, `todo`, `ok`, `fresh`) may be old
when it acts. A run is `status, attempt, lease, done`; `effect` is a history of the actions whose business effect is there. An action that
has had its effect but whose step is not recorded is the pass being in `mark`; crashing there makes the next holder repeat it. Leases and
approval validity are counted down, so that time needs no horizon. `verdict` is what `ruleVerdict` would answer at this moment; "stop" may
turn to "hold" for archived rules too, which the code rules out: the model allows a little more there. The two `FAILED` outcomes of
`sweepWaiting` (`engine.ts:357-360`, `371-374`: the request is gone, or has a status that the request of a waiting run cannot have) arise from no caller there is and are left out. `MaxRuns` bounds the runs that are opened; one gated *or* one ungated run is enough
because passes treat rows separately.

For `OrderedJob` a run that waits is waiting, a PENDING one is open, and one that failed, was skipped or rejected is void before its first claim and broken after it; an approval that has
lapsed still counts as given. What the abstract job leaves to anybody is what a pass can do that has lost its run: repeat an action, or carry out the one it was at, even after the end. It never
gets more than one action ahead of the record, and it records nothing.

### EventCursor

Events are numbered by their place in `(recorded_at, id)`. The place is taken when the transaction starts, the event is readable once it
commits (`BeginEvent`, `CommitEvent`); a transaction may stay open for ever. A pass goes `ensure`, (`latest`, `insert`), `read`, `rules`, then
per event and rule through the loop, then `advance`, a compare-and-set. It may run out of its budget or its deadline before any
event and may die anywhere. An administrator who switches a rule on walks through the same cursor creation; one who dies there is one who
stays for ever. Of a run of a rule only NONE, OPEN or ENDED is kept; its inside is `WorkflowRuns`, which may end an OPEN run at any time
(`EndRunLater`). Every rule has one action. The event a run's action emits begins and commits in one step.

### MessageLedger

A row is `status, attempts, age, retryIn`. A call is `deliverMessage`, from the business or from the retry job: insert, read, decide (SENT or in
flight: leave it; PENDING long ago: UNKNOWN; FAILED: reclaim), `send`, record. The provider is external: it accepts, refuses, is out of reach
(nothing left the machine, quick retries included), or cuts the answer short with or without the message having arrived.

### TechQueue

A task is the columns of `tech_tasks` that matter to its lease (`status, attempts, gen, holder, expires`) and three histories (who moved it
last, how often people did, which generations' results were taken). A slot of `Calls` serves one request, statement by statement: the
reaper and the head of a claim select expired rows and release them one by one with the values they selected; a claim takes a task, reads it
again, may find the budget spent and gives it back, and inserts its run; heartbeats, starts and results are fenced by generation *and* worker and
check again in their own UPDATE. `setTechTaskStatus` reads in one statement and writes unconditionally in another (`ReadStatus`, `WriteStatus`), for
machines and people alike. A worker may send any request about any run it was ever given, late and twice. `Crash` stops a call that is half done.

Left out: statuses after REVIEW (QA, deployment), priorities, capabilities, delays between attempts, the enabled switch, run logs, pull
requests; of budgets only the refund of the attempt is kept.

### SyncRunner and EmailOutbox

`lock` is the map `runningJobs` of the process, `rows` the rows of `sync_runs`, `exec` the executions; time is reduced to what has become late (an
execution past its thirty minutes, a row thirty minutes old). `Restart` empties the memory. The tick is at work while its execution is: it reads the
settings (`ReadStops`) and, in a second query, the mails that are due (`ReadDue`), judges each mail as it was read, claims it by a conditional UPDATE, hands it to the provider and writes
down the answer. When the outcome of an execution cannot be written, `runSyncJob` tries FAILED instead: `Outcomes`. The provider is external; an error that may pass says nothing of whether the mail went out, and an error of the write that follows
a success is caught with the provider's. `doubts` counts how often a mail went out and an error was seen.

Left out: drafts, quotas, consent, addresses, duplicates, follow-up threads, back-off, events and the history of the lead; progress
and counters of the runner; the bodies of the other jobs.

### BillingPayments

One customer. A bank row carries codes of invoices and of top-ups (0 is a code nobody was given), is enough or not, and is trusted, unconfirmed or on another
account. Sweeps, confirmations, dismissals, manual payments and resolutions read and judge first (`Judge`, `JudgeTopUp`, `ConfirmRow`, `DismissRow`, `MarkPaid`, `ResolveRow`) and write in one
transaction later (`Match`, `Credit`, `Confirm`, `Dismiss`, `Mark`, `Resolve`), with anything in between.

A line of `platform_billing_payments` is `outcome, doc, note`. `note` stands for `resolved_at` and `resolved_note`, which three operators' paths write and which do not mean the same: confirming an
underpaid row accepts the money ("SHORT", `[NHẬN THIẾU]` in the code) and pays the invoice in the same transaction; dismissing a row, and `resolveBillingPayment` of any line that is not MATCHED, only say that somebody has dealt with it
("REASON"), while the invoice stays as it is. So `Pays` reads the kind of note, not that there is one. A reference typed by an operator may be in the spelling of the bank ledger or, for the rows in
`Misspelt`, in another one; `normalizeBankRef` takes the second to the first, and what is not in the ledger is stored as it was typed.

`applyInvoicePaid` reads and writes the add-on units without a
lock; that is safe only because the unique index `platform_invoices_one_open` leaves one open invoice at most (`db/schema.ts:5360`), which `OpenOf` models.

Left out: changes of terms by operators (`setOrgBilling`, `setOrgAddons`, `initWorkspaceBilling`), receivers and prices (`setBillingReceiver`, `setPlanPrice`, `setPlanAddonPrices`), upgrades with credits, dates inside a month, what
customers and operators write about VAT (`setInvoiceInfo`, `markVatIssued`), price versions, the creation of intents, the lookback window of the sweep.

### AiBalance

One month of one organization. `ledger` is the set of lines, told apart by their key and a copy number so that a double write would show; a line has the type and the class of money the code gives it. A conversation goes gate (the balance is
read), answer, meter (the usage event, then the count of the month, read after it), charge (the balance is read, the line written); operators correct, reverse and refund.
A form that seemed to fail keeps its key, whatever the operator changes in it before sending it again (`components/platform/ai-balance-forms.tsx` renews `requestKey` only on success), so that two forms may have one key:
the first that is written is the one that counts.
The balance is enabled throughout and the plan stays the same; alerts, aliases of a customer's key and prepaid plans are left out.

## 3. Runs

| run | bounds | shows |
|---|---|---|
| `gate_one_approval` | 1 request, 2 calls, clock to 4, reservation limit 2, validity 3 | two calls race for one approval and die anywhere: `ExclusiveRun`, `WriteOnce`, `RedoIsFlagged`, `SettledIsFinal`, and under fairness `ReservationResolves` |
| `gate_several_works` | 2 requests, 1 call, 2 requesters, 3 works on the three settlement paths | `TypeOK`, `SecondPerson`, `TruthfulEvent`, and that the gate implements `OneTimePermit` |
| `runs_ledger` | 1 run, gated or not, 2 passes, 2 actions, 3 attempts, 3 crashes | `OneHolder`, `LedgerIsTrue`, `SettledAsItEnded`, `RefusedDoesNothing`, and that the ledger implements `OrderedJob` |
| `runs_recovery` | 1 gated run, 2 passes, 1 action, 2 attempts, 2 crashes | `PendingResolves`, `DoneIsSettled` |
| `cursor` | 2 passes and an administrator, 2 rules (one emits its own kind, one is gated), 1 old event, 2 of people, 5 in all, batch, budget and depth 1, 1 crash, deadlines | `PassedIsHandled`, `LoopsEnd`, `NoHistory`, `CursorOnlyAdvances`, `EventsAreConsumed` |
| `messages_race` | 1 message, 3 calls, 3 attempts, 2 scheduled retries | `OneSender`, `CopiesAreDoubted`, `SentIsFinal` |
| `tech` | 1 task, 1 worker with up to three generations, 2 calls, 2 attempts, lease and clock of 1, 1 decision of a person, 1 crash | `NoEndlessRetry`, `AcceptedIsRecorded`, `LaterCallsObeyPeople`, `ExpiredIsReleased`, and that the queue implements `FencedWork` |
| `email` | 2 executions, 2 rows, 1 mail with 2 texts, 2 attempts, 2 approvals, 1 person, 1 stop changed once | `OneSendPerApproval`, `OnlyApprovedText`, `OnlyLateOverlap`, `OutcomeStands`, `SilenceHolds` |
| `billing` | 2 bank rows of nine kinds, 2 invoices, 1 top-up, 2 requests at a time | `RecordsAreTrue`, `UnitsArePaidFor`, `SettledIsFinal` |
| `ai` | 4 customers of whom 2 are included, price 2, 2 conversations and 2 operators at a time, 5 forms of which two share a key, 1 unreadable gate | `DebtIsBounded`, `OverchargeIsBounded`, `RefundsAreOfCash` |
| `billing_twice` | as `billing`, references of both rows in two spellings | violation of `MoneyPaysOnce` (section 4) |
| `email_stop` | as `email` | violation of `PolicySeesStops` (section 4) |

Why the bounds are enough. Every race in this code is between the statements of two callers over one row, so two callers and one row are the least that shows it; three
calls are used for messages because the retry job is a third kind of caller, and with the reaper at the head of each claim two calls of `TechQueue` are up to three kinds.
One worker with several generations meets its own earlier runs, which is what the fence has to tell apart; another worker is told apart more easily, by its name.
Two requests, rows or invoices appear where a call may choose among them, four customers because two must be beyond the plan while two conversations race. Crashes are bounded
by one more than the number of chances the code gives a run, or by one where a half-done call is what matters. Validity, lease and limits are the smallest numbers that keep their order
(a lease shorter than a validity, a call shorter than a reservation). In `cursor` the deadline may end a pass before any event, which is more than a budget could; with a batch of one
the budget decides only whether an event is begun; the chain of events stops one short of `MaxEvents`, so that it is the depth that ends it. What the theorems of section 5
state they state without these bounds.

Fairness.
* `gate_one_approval`: the clock and the scheduled sweep keep going, and a call either goes on or dies.
* `runs_recovery`: passes are started again and again, a pass that has begun goes on or dies, and each of the three parts of the recovery gets to a run that needs it again and again
  (strong fairness; the batches of the sweeps are assumed not to be filled for ever by other rows).
* `cursor`: collective. Some pass goes on (single ones may stall for ever, not all), and since the deadline of a pass is counted from its own start, passes that stand before an event have time left for it again
  and again. Nothing is assumed of administrators, of people or of open transactions.
* `tech`: a call that is being served goes on (or dies), and the scheduled reaper is started again and again, whatever calls are under way. Nothing is assumed of workers or people.

Deadlock is not checked where a bounded instance may have nothing left to do: `cursor` (all events passed), `email`, `billing`, `ai`.

## 4. What the code does otherwise than it says

Two are runs TLC refutes and `findings` in `PROJECT.json` with the lines on both sides.

* **Money pays twice** (`billing_twice`). `billing/service.ts:940` and `:953` promise that a sum of money pays one invoice and one product. A reference an operator types before
  the bank row is imported marks an invoice paid without a line in `platform_billing_payments`; the row, imported afterwards, is free to pay another invoice or a top-up.
  And as such a reference is stored the way it was typed (`:983`), the same one in the ledger's spelling is not recognised the next time (`:943-946`).
* **A stop comes too late** (`email_stop`). `email-outbox.ts:403` says the policy reads everything at the moment it asks and `:163-164` that whoever sees something wrong can stop it at once.
  The settings are read once per tick (`:519`) and used for the whole batch, 25 mails in the scheduled job (`EMAIL_BATCH_PER_TICK`; the 200 of `:532` caps what a caller may ask for).

The others were met while modelling, lie in the behaviours of the modules, and are kept here only in words.

* Gate. *Lost warning*: a call reads its candidates with their `execution_error`; another call consumes the approval, fails after its write and hands it back with an error; the first then
  consumes it, clears the error, and tells nobody (`approvals/service.ts:103-105, 266`). An approval whose call failed *after* its write can be used for the same work again, with a warning: `RedoIsFlagged`.
* Runs. *Expired and done*: expiring a waiting run's request and rejecting the run are two statements; an overlapping pass claims the run between them (`engine.ts:20-22, 378`). *Lapsed and done*: a claimed run
  that stalls past the validity of its approval is reclaimed and executed, since recovery does not ask (`approvals/service.ts:43-46`, `engine.ts:466`). *Half done and skipped*: `engine.ts:439` says that a stuck run whose rule was changed
  ends SKIPPED if no step is done and FAILED if it is half done. That is judged (`:441`) from the row as the batch read it, while the UPDATE (`:446`) asks again only for the attempt and the lapsed lease; a pass
  that was only slow can record a step in between, under the same attempt, and stall past the extended lease, so that the run is ended SKIPPED with a step that is done.
* Cursor. *First event swallowed*: a rule is active some statements before the cursor exists, whose creation then counts the event as history (`cursor.ts:14`, `rules.ts:452`). An event of a transaction that
  commits behind the cursor is never read, as `engine.ts:30` says itself.
* Messages. *Sent twice*: an answer cut short is recorded like a refusal, and a later call with the key sends again (`messaging/service.ts:2, 10, 94`). A retry that fell due while no job ran is carried out however
  old the message is (`:50, 141`); a retry job that dies right after clearing `next_retry_at` loses the retry (`:149`).
* Tasks. *Stranded*: a task can be BUILDING without a lease, if the reaper dies between release and move (`worker-service.ts:174`) or without a death when a read of the status and its write straddle another call; no query looks for
  such tasks. *Overruled*: a report that read the status before a person's move overwrites it (`service.ts:280, 368` against `worker-service.ts:522-524`, "không đè quyết định của người"): `LaterCallsObeyPeople` speaks only
  of calls that begin afterwards. The claim's second reading (`worker-service.ts:329-333`) can return another claim's generation.
* Jobs. `runner.ts:89-91` takes every job to be idempotent, so that overlapping runs are harmless; for the e-mail job it is the claim that makes them so. A mail left SENDING by a dead process stays SENDING. The settings are
  read, changed and written whole, so that two concurrent saves can lift a pause. A mail can go out twice under one approval after an error that was seen although it had gone out: `OneSendPerApproval` counts these.
* Invoices. A quote read before an open invoice is paid can open a second invoice for the same months (`rules.ts:303-321`).
* Balance. Two refunds checked at the same time can together exceed the cash (`ai-balance.ts:363-364, 397-400`): `RefundsAreOfCash` allows for just that. `pricing/ai-gate.ts:124` and
  `docs/saas/AI_BALANCE_V1.md:13` say that the balance is negative by one customer at most ("âm tối đa đúng 1 khách"; `:157` "âm tối đa một đơn giá"). The same document corrects itself: at `:135` for new customers who come at the same time, at `:200-202` (L4)
  by N prices for N of them, and at `:142` for the boundary of what the plan includes. `DebtIsBounded` and `OverchargeIsBounded` state these corrected bounds, so that no run refutes the first claim.

## 5. Proofs

Every safety property the passing runs check is a theorem: it holds for any sets of rows, callers and people and any limits that satisfy the assumptions of its module. TLC evaluates the
assumptions on the instances it checks. The caps that keep an instance finite (`MaxTime`, `MaxCrashes`, `MaxEvents` and the like) are parameters of the theorems like any other, so that they hold for each value of them.

All proofs have the same form. The properties are seldom inductive; `IInv` is a strengthening that is. `InitInductive` and `StepInductive` (one step per action, one lemma per
action or per conjunct where the action is large) give `Invariant == Spec => []IInv`; the properties follow from it, those of steps by a second look at each action. What each `IInv` adds is the reason why the code is right:

* **`ApprovalGateProofs`** (`TypeOK`, `ExclusiveRun`, `WriteOnce`, `RedoIsFlagged`, `SecondPerson`, `TruthfulEvent`; the gate implements `OneTimePermit`; `SettledIsFinal`). Per row (`RowInv`), how status, times,
  event and trace agree: an unsettled EXECUTED row is a reservation, a written one has a holder or an event. Per call (`CallInv`), that a call past the flip holds its row, which was consumed at the time the call entered (`Holding`).
  With the clock this gives the key fact: a call in its body is younger than the reservation limit, so that the sweep cannot take the row from under it. Assumed: `UsersAssumption`, and `TimeAssumption` with `ActionMax < ReservationTimeout`.
* **`WorkflowRunsProofs`** (`OneHolder`, `LedgerIsTrue`, `SettledAsItEnded`, `RefusedDoesNothing`; the ledger implements `OrderedJob`; `EndIsFinal`, which no run checks any more, as the refinement says it too). `OneExecution`: no two passes have a run *and* the attempt they claimed in common, since a claim takes the next one. A pass
  whose attempt is still that of a PENDING row is therefore the only writer, and the recorded steps are just those before its own (`todo = done + 1`). A pass past the decision of the approver has a run whose request is neither open nor
  refused. For the refinement `OrderInv` is added, which holds of the passes that have lost their run as well: whoever is at an action is at most one ahead of the record, which never shrinks; an effect is there only up to that action;
  a run has attempts exactly from its first claim on; and a pass that holds a row has one whose request is decided. Assumed: `RunsAssumption`, `LimitsAssumption`.
* **`EventCursorProofs`** (`PassedIsHandled`, `LoopsEnd`, `NoHistory`, `CursorOnlyAdvances`). The batch of a pass is, up to its last event, everything that could be read beyond its place, and as rules are read *after* events, the
  rules owed an event of the batch are among those the pass knows. What it has finished has a run for each; so the compare-and-set leaves behind only transactions that were open. `LoopsEnd` speaks of the recursive function `Hops`; that it
  has its defining equation, and that it equals the depth the code computes from what it wrote down (`HopsEquation`, `HopsAreDepth`), is shown by taking the least event for which it were otherwise (the well-foundedness of `<`), without
  an induction theorem. Assumed: `CursorAssumption`, `CursorLimits`.
* **`MessageLedgerProofs`** (`OneSender`, `CopiesAreDoubted`, `SentIsFinal`). A call past its claim and before its record has a row that says PENDING or UNKNOWN, which neither the insert nor the reclaim of another call takes; a
  message that is about to be sent, or that failed, has no more copies in the chat than doubtful answers. Assumed: `LedgerAssumption`.
* **`TechQueueProofs`** (`NoEndlessRetry`, `AcceptedIsRecorded`, `LaterCallsObeyPeople`; the queue implements `FencedWork`). Claim and reaper both take the next generation, so that none is given out twice; a run that is closed under the current
  generation has left the task without a holder, so that whoever still holds a lease has an open run; every run and every claim that has not yet inserted its run is paid for by an attempt, and a refunded attempt is the one of a claim that
  never got there; a call that moves a task that was put aside has read it as workable, which was before the decision. For the refinement the row itself is the abstract state: its generation is the token, its holder the one a token was granted to.
  Assumed: `NobodyIsNoWorker`, `QueueAssumption`.
* **`EmailOutboxProofs`** (`OnlyLateOverlap`, `OutcomeStands` of the runner; `OneSendPerApproval`, `OnlyApprovedText`, `SilenceHolds` of the outbox). An execution that is not late holds the lock. A mail that is SENDING has at most one
  tick that owns it, and nobody else changes it; whenever it can be claimed again, the sends under its last approval are no more than its doubts. What a tick has read and found fit carries a hash that a person approved. A
  tick that read its mails in silence finds nothing fit, for a silent lead stays silent. Assumed: `NoneIsNoSlot`, and `OutboxAssumption` (finitely many mails, at least one text and one attempt, as `EMAIL_MAX_ATTEMPTS` in
  `lib/wholesale/email-constants.ts:104` says).
* **`BillingPaymentsProofs`** (`RecordsAreTrue`, `UnitsArePaidFor`, `SettledIsFinal`). What a request judged may be out of date; what decides is that its transaction tests again that the row has no line and the invoice is open, or the
  top-up unclaimed. A line is inserted once and gets at most a note afterwards, never the note that says a short payment was accepted; so the invoice that a paying line names
  is the one it paid, for ever. One open invoice at most makes the unlocked sum of the add-on units right. Assumed: `TransfersNameTopUps` and `TermsAssumption` (transfers, terms and the misspelt references have their
  types), `NoneAssumption` (NULL is none of the values).
* **`AiBalanceProofs`** (`DebtIsBounded`, `OverchargeIsBounded`, `RefundsAreOfCash`). The balance is a sum over the ledger, which is a fold. That the sum of a finite set grows by the amount of what is added (`SumAdd`) is shown without an
  induction theorem: there is a function that adds up every subset whatever element it begins with, since otherwise there were a least set without one, and the fold is that function. `MeterInv`: nobody is charged while the plan includes
  all who are counted; beyond that, who is charged and who may yet be are fewer than the customers not included and the turns together. `DebtInv`: what has come in less what was used stays above its bound even with one price laid by for every turn
  that may still charge; it is not negative before the first charge, which is why the gate of an included customer costs nothing. `CashInv`: the cash is at most what came in, less the refunds and less one price for each charge of cash that was not given
  back, so that a reversal returns only what was taken. `RefundInv` quantifies over every set of the refunds under way, because each of them may die: together with those paid they exceed what came in by one largest refund for each operator but one; the
  check of one operator pays for its own refund, and the others are what the bound allows for. Assumed: `FormsAreForms` (the tests of `adjustAiBalance` before it writes), `PlanAssumption`, `SlotsAssumption`.

Only model-checked:

* All liveness (`ReservationResolves`, `PendingResolves`, `DoneIsSettled`, `EventsAreConsumed`, `ExpiredIsReleased`), which is beyond the proof system, as is anything with `ENABLED`.
* The two runs that TLC refutes (section 4) are of course no theorems.

## 6. Plan

1. Models (done): the gate, the runs and the task queue, each with its abstract specification; messages, cursor, the runner with the e-mail outbox, payments and the AI balance.
2. Proofs (done): every safety property of the passing runs and the three refinements.
3. Open: an abstract specification of the outbox of messages and of the e-mail outbox (one delivery per word given, with the doubts counted), which both would implement.

## 7. Not modelled

The components with status `not_modelled` in `PROJECT.json`, each with its reason. The map names a small share of the repository's lines, and a much larger one is not in reach of these methods: of more than 600,000 lines most are pages and
server actions of the user interface, list and report queries, schema definitions, one-off scripts, settings screens, sequential create-read-update-delete operations, parsers of external formats, and prompts and tools for language models. They
keep no protocol of their own: their state changes are single transactions or upserts by a key, where a model would repeat the statement. What is modelled is chosen by where several actors share a row over several statements.

Of the modelled parts: amounts, texts, conditions on records, templating, time zones, list queries, settings screens, the manual start of a rule and scheduled triggers, and what each section above says is left out; therefore every one of them has the status `partly`.

Isolation between SQL statements is taken to be PostgreSQL's READ COMMITTED: a conditional UPDATE re-evaluates its condition on the row it locks, a SELECT sees what was committed before it.
