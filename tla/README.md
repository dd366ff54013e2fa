# Verification of VUKA

VUKA moves money between traders in Rwanda and Kenya. A Go engine keeps a
double-entry ledger in PostgreSQL and offers it over REST, gRPC and a stream of
live events; a Python gateway translates ISO 20022 messages into engine calls;
a React dashboard is the traders' front end. This directory holds TLA+ models
of it, the TLC runs that check them and the TLAPS proofs about them.

Contents: 1 inventory, 2 modules and their relation to the code, 3 runs,
4 fairness, 5 what is proved, 6 where the code and its comments disagree,
7 what is not modelled, 8 plan.

## 1. Inventory

Paths: `E` = `ENGINE/go-bridge-core`, `P` = `ENGINE/python-iso-gateway/app`,
`F` = `FRONTEND/web-dashboard/src`.

| Component | State | Operations | What is hard | What makes it correct | Module |
|---|---|---|---|---|---|
| Ledger engine (`E/internal/ledger/transfer.go`, `crossborder.go`, `fund.go`, `fx.go`) | tables `transactions`, `ledger_entries`, row locks | `Transfer`, `CrossBorderTransfer`, `FundAccount`, `ReverseTransfer`; balances are sums of rows | statements of concurrent requests interleave; a balance is read long before it is spent; locks are taken in different orders; a reversal recomputes amounts from rounded columns | a key pays once, checked funds stay, every currency balances, a reversal undoes once, every call returns | `Ledger` |
| Idempotency store (`E/internal/idempotency`) | table `idempotency_keys` | `Lookup` (outside the transaction), `Claim` (inside) | two guards of one key, only one of which a funding uses | the two guards agree | `Ledger` |
| Rails (`E/internal/adapters`) | none of their own | `Payout`: success, rejection, timeout | the payout is inside the transaction and cannot be rolled back | a header exists only for money moved | `Ledger` |
| SSE hub (`E/internal/api/sse.go`) | subscribers with bounded channels | `Publish`, subscribe and stream | slow subscribers, late subscribers, shutdown with open streams | publishing never waits; the hub keeps the channels of those who read them, and clients see events in one order | `EventHub` |
| REST (`E/internal/api/server.go`) and gRPC (`E/internal/grpc`) | none | translate calls, results and errors; REST publishes an event after the commit | commit, event and answer are three steps; gRPC changes the same ledger silently | the event comes after what it announces | `EventHub` |
| Start-up and shutdown (`E/cmd/main.go`) | servers | schema, settlement accounts, serve, drain | several engines that start on one empty database; streams that never end | who serves finds the settlement accounts | `Users`, `EventHub` |
| Dashboard hooks (`F/hooks`, `F/state`) | connection, data, loading, error | fetch on mount, on `refresh` and on events | dropped and coalesced events, overlapping fetches of several reads each, breaks | what was announced gets shown; what was shown stays | `LiveView` |
| ISO gateway (`P`) | account registry | pacs.008 in, pacs.002 out, `message_id` as key, a deadline on the engine call | the deadline passes while the engine commits; messages are repeated or share an id | an acceptance is true and is not taken back | `Gateway` |
| Invoices (`E/internal/ledger/invoices.go`) | tables `invoices`, `invoice_items` | create, get, list; PAID is derived from transfers | derived state changes with payments and reversals; an invoice may exist although its creation is answered with an error | PAID means settled; what is created is what was submitted | `PayCard`, `InvoiceDesk` |
| Connection pool use (`invoices.go`, `transfer.go`) | connections | every query and transaction | a query that keeps its connection while it asks for another; waiting for a row lock with a connection | payments return and leave their lock first; only listings can stop the pool | `ConnPool` |
| Accounts and users (`E/internal/ledger/models.go`, `fx.go`) | tables `users`, `accounts` | `CreateUser` (two accounts in one transaction), `GetUserByPhone`, `EnsureSettlementAccounts` | registrations and starts that race for one phone, and fail between two inserts; look-ups that fail are answered with a registration | one settlement account per currency, for good; a trader has both accounts; who is signed in is registered | `Users`, `Session` |
| Invoices page (`F/pages/Invoices.tsx`) | list, open card, look-ups, payment, timers | open, switch, close, confirm | answers and timers that outlive the card they were made for | a paid invoice is not offered again, the button comes back | `PayCard` |
| Payment form (`F/components/TransferForm.tsx`, `F/api/client.ts`) | wallets, rate, fields, busy flag | choose, type, submit with a new key, leave | a balance fetched once; answers that find the form changed; submitting again after a lost answer | an amount typed once is paid once; what is reported and announced is what is paid | `PaymentForm` |
| Invoice form (`F/components/InvoiceForm.tsx`) | fields, lines, counterparties, busy flag | edit, submit | edits during a submission; lines that are dropped; a used number | what is reported created was submitted, for the total shown | `InvoiceDesk` |
| Signing in (`F/state/TraderContext.tsx`, `F/pages/TraderSelect.tsx`, `F/App.tsx`) | trader, `sessionStorage`, busy flags | enter, add a profile, cancel, switch, reload | attempts that overlap and outlive their page; a page load between a change and its effect | the trader is registered, the storage follows, nothing stays busy | `Session` |
| Register (`F/hooks/useTransfers.ts`, `F/pages/History.tsx`, `F/pages/Transfers.tsx`) | list, filter, order, page; rows of opened payments | fetch, pay, filter, sort, page, open a payment | overlapping fetches; a payment whose answer is lost; page numbers and rows that are kept | every record is on one page; a payment that is answered comes into the list; rows stand under their payment | `Register`, `AuditRows` |
| Figures (`F/pages/Dashboard.tsx`, `F/pages/OperationsModule.tsx`, `F/lib/format.ts`) | memoised sums | compute from the register, put amounts into words | kept over midnight; counted in different ways; rounding | the pages agree; the words are the amount | `Figures`, `Words` |
| Toasts (`F/components/ui/ToastProvider.tsx`) | stack, timers | push, dismiss, Escape | timers that outlive their toast | a timer takes its own toast only; nothing but an error needs closing | `Toasts` |

How they interact. The dashboard and the gateway call the engine. The engine's
requests meet only in PostgreSQL (locks, unique indexes, committed rows), in
the connection pool and in the hub. REST handlers publish to the hub, which
pushes frames to the dashboards' streams, which then fetch again. Accordingly
the modules form this tree; an arrow is EXTENDS or INSTANCE:

    Books        <- Ledger, EngineClient
    AtomicLedger <- LedgerService               (calls and answers)
    Ledger   -> AtomicLedger, LedgerService     (what it implements)
    EngineClient -> LedgerService               (what a caller of the engine sees)
    EngineClient <- Gateway, PayCard, PaymentForm    (the callers)
    EventHub <- LiveView                        (a page behind a stream)
    MCPayments, MCFront, MCPages, MCDesk        (several parts in one TLC run)

and the theorems stand in eight modules beside them:

    BooksProofs  (Books)    <- LedgerProofs (Ledger), CallerProofs (EngineClient)
    CallerProofs            <- CardProofs (PayCard), GatewayProofs (MCFront), DeskProofs (MCDesk)
    HubProofs (EventHub, ConnPool, Users)  <- LiveViewProofs (LiveView), GatewayProofs

`ConnPool`, `Users`, `Session`, `Toasts`, `Register`, `AuditRows`,
`InvoiceDesk`, `Words` and `Figures` stand on their own: what they share with the rest of the
system is a fetch or a call with an answer, which each of them contains.
`Ledger` is the engine in detail, `LedgerService` what its callers can rely
on. `EngineClient` puts a caller beside it: `Gateway`, `PayCard` and
`PaymentForm` extend it, and `Ledger` is shown to implement what they rely on. `PROJECT.json` lists the hazards with their lines.

## 2. Modules

Definitions marked `Mutant` are faulty variants of the definition that follows
them. No specification uses them: replacing the definition by its variant must
make TLC find the property named in `PROJECT.json` violated, which shows that
the property depends on the code.

### Books

The data: accounts, calls, headers (`transactions`), rows (`ledger_entries`),
the rows each operation writes, exchange and balance. Amounts are integers in
units of 1/10000 (`NUMERIC(18,4)`). A requested rate counts
1/(`RateUnit * RateGrain`), a stored one 1/`RateUnit` (`NUMERIC(18,6)`), so
`RateGrain > 1` (2 in run `payments`) models rates that the column rounds. Both roundings
(`math.Round` in `round4` and that of NUMERIC) are `RoundedQuotient`.

### Ledger

The engine on PostgreSQL. A request `r` runs one call; `pc[r]` is the statement
it executes next. One action is one statement, so everything that PostgreSQL
can interleave interleaves.

| Action | Code |
|---|---|
| `Receive` | the checks before `Begin` (amount, same account, currencies, rate) |
| `Lookup` | the look-up of the key outside the transaction |
| `LockSource`, `LockDestination` | `lockAccount`, with the type and currency checks that follow it |
| `CheckBalance` | `lockedBalance` and the comparison |
| `LockSettlement` | `lockSettlementAccount`, source currency first |
| `InsertHeader` | `insertTransaction`; on a unique violation roll back and go to `Replay` |
| `Claim` | `Store.Claim`; on `ErrKeyExists` roll back and go to `Replay` |
| `RailPays`, `RailRefuses` | `adapter.Payout` |
| `PostEntries` | `writeDoubleEntry` or `writeCrossBorderEntries`, then `markStatus` (they wait for nobody: every row they touch is locked already) |
| `CommitPayment`, `Fetch` | `Commit`, then `GetTransfer` |
| `Replay` | `GetTransferByIdempotencyKey` |
| `LockHeader` | `lockTransfer` and the status check |
| `LockContra` | the three locks of a cross-border reversal: settlement, destination, settlement |
| `PostContra` | the contra rows; an INSERT locks the account it refers to FOR KEY SHARE, and may wait for it |
| `CommitReversal` | `markStatus(REVERSED)`, `Commit` |
| `Fail` | a broken connection, a cancelled context or a killed process, at any statement; after the commit it is the lost answer |
| `DeadlockAbort` | PostgreSQL aborts one transaction of a cycle of waits |

The part that is PostgreSQL (`Blockers`, `Release`, `Knot`, `OnCycle`,
`DeadlockAbort`) is modelled from what this code uses: FOR UPDATE excludes all
other locks of the row, KEY SHARE locks share, an INSERT waits for an
uncommitted equal key, READ COMMITTED statements see what has been committed,
all locks go when the transaction ends. A header is an uncommitted, invisible
row until its transaction commits; the model keeps it in `pc` (`Inserted`).

A client that retries is another request with the same call. Ids are request
names: a header is named by the request that inserted it, which is why a
reversal's target is a request.

### AtomicLedger and LedgerService: what the engine promises

`AtomicLedger` is the promise about the books: every payment and reversal
happens at one instant; no locks, no keys table, no failures. It keeps
`headers` and `entries`. `Ledger!ImplementsAtomic` states that the engine
implements it.

`LedgerService` adds the calls and their answers, which is what the gateway
and the dashboard depend on. A call goes through `called`, `missed` or `found`,
and `done`; between the look-up of its key and its effect other calls may
happen. `Refusal` says for which reason which answer may be given, `LoseRace`
that the loser of a race for a key is shown the winner's header, and `Fail`
that a call may fail with or without having taken effect. `Ledger`'s
`ImplementsService` maps `pc` to these stages (`Stage`) and states that the
engine implements it.

### Users

The tables `users` and `accounts`: the start of engines
(`EnsureSettlementAccounts`, called by `main.go` before it serves anything) and
`CreateUser`, statement by statement. A job is an engine or a registration; a
user's id is the job that has inserted it.

| Action | Code |
|---|---|
| `Start`, `Stop` | a process starts, and ends for whatever reason, with the transactions of the requests it serves |
| `EnsureUser` | `INSERT INTO users ... ON CONFLICT (phone_number) DO UPDATE` |
| `EnsureAccount` | `INSERT INTO accounts ... ON CONFLICT DO NOTHING`, once per currency |
| `CommitStart` | the commit, after which the engine serves |
| `ReceiveUser` | a call of `CreateUser` that passes its checks |
| `InsertUser`, `InsertAccount` | the user, then the PERSONAL and the BUSINESS account; a phone that is taken ends the transaction |
| `CommitUser`, `FailUser` | the commit, whose answer may be lost; a failed statement and the deferred `Rollback` |

What PostgreSQL does is in `Working` (an INSERT into `users` waits while
another transaction has inserted or updates the row of the same phone) and
`EndJobs` (what is not committed is gone). `Served` are the transactions that
end with an engine.

### EventHub

`sse.go` with the REST handlers that publish, and the shutdown of `main.go`.

| Action | Code |
|---|---|
| `Commit`, `Publish` | a REST handler: the engine's call, then `publishTransfer` before the answer |
| `CommitUnannounced` | the gRPC handlers, or a REST handler that cannot read its transfer back |
| `ReplayFunding` | `handleFundAccount` with a used key publishes the old transfer again |
| `Greet`, `Subscribe` | `ServeHTTP` up to the registration of its channel |
| `Deliver`, `Leave`, `Unsubscribe` | its loop and its deferred clean-up |
| `Signal`, `Drained`, `Deadline` | `run` after SIGTERM, and `srv.Shutdown` with its ten seconds |
| `ClientReads` | a browser that takes a frame from its connection |

`Hub.Close` has no caller in the program and is left out, so a channel is never
closed while its stream reads it. `Pipe` is what is on its way to a client: its
connection's buffer and then its channel.

### LiveView

A dashboard page on top of `EventHub`: the shared `EventSource` of
`useLiveStatus` and the fetches of `useBalances` (the other data hooks have the
same shape). `Connect`, `Open`, `Break` and `Receive` are its callbacks;
`Effect` is the effect that a new tick runs; `Read`, `Settle` and `Reject` are
one read of a fetch, its success and its failure. A read returns the set of
changes that are committed when it is made. Only the latest fetch counts, as
the cancelled flag of the hook has it. `covered` is a history variable: what
was published while the page's stream was subscribed.

### Gateway

`POST /iso20022/pacs.008` composed with `LedgerService`.

| Action | Code |
|---|---|
| `Receive` | the request with its message, as `parse_pacs008` reads it |
| `Handle` | parse, `validate_payment`, `resolve` of both parties, and the gRPC call with `message_id` as key |
| `Return` | the answer: `build_acsc` with the amount recomputed from the rate, or `build_rjct` for any `EngineError` |
| `GiveUp` | the timeout of `_call`; the engine's call goes on |
| `Restart` | the process is restarted; its exchanges get no answer |

The handler is an `async def` that makes a blocking call, so messages are
handled one at a time (`LoopFree`). Others (REST clients, gRPC clients) call
the engine too (`Elsewhere`), with the same keys if they like; only fundings
have keys that are no message ids.

### PayCard

The invoices page composed with `LedgerService`, and the derived PAID state of
`invoices.go` (`Paid`). `ListArrives`, `Retry`, `WalletsArrive` and
`WalletsFail` are `useInvoices` and `useBalances`; `OpenCard`, `CloseCard`,
`TimerFires` and `IssuerArrives` are the card and the effect that prepares it;
`Confirm` and `Confirmed` are `executePayment` before and after its `await`. A
look-up of an issuer is not cancelled by anything, so `lookups` counts those on
the way. A fetch is one step, which stands for the moment of its read: while it
is on the way the list is hidden, and one that a later fetch has replaced is
dropped by the hook. Invoices in a
currency for which the trader has no wallet (the card refuses them), the choice
of the wallet (one is offered) and the tab of issued invoices (it closes the
card) add nothing to this state.

### PaymentForm

The payments page's form composed with `LedgerService`; a click on its button
names the request that it makes, and its key. `FundsArrive`, `FundsFail`,
`RetryFunds` and `RateArrives` are `useBalances` and the look-up of the rate,
`SwitchMode`, `SupplierArrives`, `ChooseSource`, `ChooseDest` and `TypeAmount`
the fields with the effect that looks the supplier up, `Submit` and `Answered`
`handleSubmit` before and after its `await`, `LeaveForm` the end of the page.
The ledger is empty at first; `FundElsewhere`, the deposit that fills the
wallet, is another client's call, made at any time, so the page may have read
its wallets before it. A
trader has one BUSINESS account (`CreateUser` makes no other), so the page pays
from that one, and within the country the destination that the form offers
before the source is chosen can only be the same wallet: the engine refuses it.
Without a rate `Preview` is 0, as the form shows "KES 0.00" and can be submitted.
The result keeps its transfer and not the kind of it: `KindSaid` is the mode that
is chosen when the message is shown. `sent`, `retries` and `switched` are history
variables.

### InvoiceDesk

`InvoiceForm.tsx` with the engine's `CreateInvoice` and the list that is
fetched again. `PartnersArrive` is `loadCounterparties`; `Edit`, `AddLine` and
`RemoveLine` the fields, which stay enabled during a submission;
`SubmitInvoice`, `CreateInvoice` and `InvoiceAnswered` a submission, whose error
leaves an older success banner standing (`rejected`, `issued`). `ReopenForm` is a
document or a payment that takes the form's place and is closed again: the new
form knows nothing of a submission on its way. A line is
its price and whether it has a description that is more than spaces: lines
without are dropped from the invoice but not from the total. `Reply(p,
"failed")` after the insert is the read after the commit (`invoices.go:166`) or
a lost answer.

### Session

The trader of `TraderContext.tsx` with `sessionStorage`, the router of
`App.tsx`, and `TraderSelect.tsx`. `EnterRow` is a click on a row,
`SubmitProfile` the form; `LookUpServed` and `CreateServed` are the engine's
`GetUserByPhone` and `CreateUser` with answers that may be lost;
`LookUpAnswered` and `CreateAnswered` the handlers, `ToggleAdd`, `Browse` and
`Clear` what unmounts them (the handler goes on), `Persist` the effect that
writes the storage, `Reload` a page load, after which only the engine still
works on what it was asked.

### Toasts

`push`, `dismiss` and Escape of `ToastProvider.tsx`. All timers have one
duration, so they end in the order in which they were started. Ids grow, so the
stack is the set of its toasts, and the top is the one with the largest id.

### Register and AuditRows

`Register` is `useTransfers` on one page: `FetchEffect`, `ListServed` and
`ListArrives` a fetch (a new effect cancels the one before); `PayHere`,
`PaymentAnswered` and `AnswerLost` a payment of the page, which makes the page
fetch only if its answer comes; `Replace` another trader under the open page,
`Book` and `Undo` payments and reversals made elsewhere. `ChooseFilter`, `ToggleSort` and
`TurnPage` are the view of `History.tsx`, `Arranged` and `PageRows` its order
(by date, the only column that can be sorted by) and slice: a stable sort is the list in which every record stands at the place
that the number of records before it gives (`Place`).

`AuditRows` is the ledger rows of a payment: `OpenRow`, `CloseRow`,
`EntriesServed` and `EntriesArrive` for both pages. The history page keeps the
rows of every payment it has opened (`expanded`), the payments page one set
(`panel`); `RowsShown` is what stands under the open payment. `overlap` is a
history variable.

### Words and Figures

`AmountInWords` and `NumberToWords` are `lib/format.ts`; `Read` and `English`
are the reference, a reader of English numbers, against which every kind of
amount is checked. `"-"` stands for the empty string of `WORDS_TENS`; above
Trillion there is no word (`format.ts:75`), which bounds `Totals`. `Figures` has one operator for what each page computes
(`Overview`, `PaymentsPage`, `Analytics`, `Shares`, `Exceptions`, `Feed`,
`Events`) over one fetched register, with the predicate that the page uses: a
payment is cross-border if its `fx_rate` is positive (`Crossed`) or if it has one
(`Marked`), and the column may store a positive rate as 0. `Fetched` and `BalancesFetched`
are the changes after which the overview computes its figures again,
`Midnight` the change it does not notice.

### ConnPool

The connections of `pgxpool` that each kind of call takes and gives back.
`ReadingStep` is a query; `LookKeyUp`, `LockAccount`, `LoseKey`,
`EndTransaction` and `FetchPaid` are a payment, which holds one connection at a
time and waits for a row lock with it; `ListingStep` is `ListInvoices`, which
holds the connection of its open rows and asks for a second one per invoice.
`ClientGone` is a cancelled context. `GoesOn` says which calls wait for nothing,
`Jammed` that listings keep every connection and each asks for one more.

### The MC modules

`MCPayments` lets every behaviour of the engine choose one of two menus of
calls; `MCFront` lets it be the gateway, the hub,
the pool or the users; `MCPages` the invoices page or a page behind a stream;
`MCDesk` one of the eight parts of the dashboard. The parts that were not chosen keep their
initial states, in which none of their fair actions is enabled, so a run checks
each part by itself, with its own fairness. `FrontTypeOK`, `ScreensTypeOK`,
`FrontReturns`, `ScreensReturn` and `AwaitedArrives` join the parts' type
invariants and liveness properties of one kind. `FrontReturns` is one formula for
parts of which only one moves, and implies `EveryMessageAnswered`,
`PublishNeverWaits`, `OnlyListingsJam` and `RowsGetFree`.

## 3. Runs

| Run | Instance | States | Shows |
|---|---|---|---|
| `payments` | 4 requests; per behaviour `DomesticCalls` (two fundings, one with the key of a payment, payments that compete for one account and lock two accounts in both orders, reversals) or `BorderCalls` (payments in both directions at rates that round and that the column rounds again, reversals) | 403,928 | `OneTransferPerKey`, `RailAgreesWithBooks`, `RepliesAreTrue`, `CheckedFundsStay`, `OverdraftOnlyByReversal`, `BooksBalance`, `ReversalRestores`, `HistoryKept`, `ImplementsService`, and `LedgerInv`, the invariant of the proofs, with `TypeOK` and `ClaimsMatchHeaders` in it |
| `returns` | 3 requests; calls that fail one check each, payments across the border in both directions, reversals; with fairness | 217,009 | `EveryCallReturns`, `ImplementsAtomic` |
| `front` | gateway: 2 exchanges and 1 other caller, seven messages with one id; hub: 3 requests, 2 streams, buffers of one frame; pool: 2 connections, 2 listings, 2 payments, 1 reading; users: 2 engines and 2 registrations, with an ordinary phone and the reserved one | 221,142 | `FrontTypeOK`, `AcceptedIsBooked`, `AcceptedStaysAccepted`, `ChannelsLive`, `ClientsAgreeOnOrder`, `OnlyListingsStop`, `RegistrySound`, `SettlementKept`, `FrontReturns` |
| `pages` | page behind a stream: 2 requests, 1 connection, 2 reads per fetch, channel and connection of one frame; invoices page: 2 clicks and 1 other caller, two invoices of two issuers, `MaxLookups = 1` | 1,236,558 | `AnnouncedIsShown`, `ShownNeverGoesBack`, `AnnouncedGetsShown`, `CardTypeOK`, `SettledIsListed`, `ButtonReturns` |
| `desk` | the eight parts of the dashboard, sizes below | 395,832 | `ScreensTypeOK`, `TypedOncePaidOnce`, `FormTellsTruth` (`ReportedIsSent` and `PreviewIsPaid`), `RefusedOnlyIfStale`, `SignedInIsRegistered`, `TimerTakesItsOwn`, `EveryRecordOnOnePage`, `AuditIsOfItsPayment`, `CreatedIsSubmitted`, `WordsReadBack`, `PagesAgree`, `ScreensReturn`, `AwaitedArrives` |
| `losers`, `funding` | 3 requests, `DomesticCalls` | - | disagreements of the engine (section 6) |
| `shutdown` | 2 requests, 1 stream | - | disagreement of `main.go` |
| `rejected`, `settled`, `resubmit`, `errors` | those of `front`'s gateway, of `pages`, of `desk`, and 4 toasts | - | disagreements of the gateway, the invoices page, the payment form and the toasts |

Bounds. No counter grows without bound: a request runs one call, an exchange
carries one message, a click makes one payment, and the sets of calls, keys and
amounts are small. Every bound by name:

- `Requests`: a funding, then two payments (or a payment and its retry) and a
  reversal that race, needs four; a lock cycle needs two, a race for a key two,
  a double reversal four. Requests are interchangeable (symmetry), except in
  the runs with liveness.
- amounts of 1 to 3: one funding covers one payment but not two. `RateUnit = 2`
  makes exchanged amounts round up and down. In `payments`, `RateGrain = 2`: the
  column keeps one of the two rates of the menu and rounds the other, which is
  the case in which a reversal leaves a difference. The callers of the engine use
  `RateGrain = 1`.
- `Capacity = 1`, `WireSize = 1` (16 frames and the buffers of a connection in
  the code): with three events a channel fills, drops and drains. `Streams` of
  the page are its successive connections, and `pages` has one: after a break it
  stays offline, which is the case in which it must not lose what it shows.
- `Exchanges`: two, because the hazards are a message and its repetition, or
  two messages with one id. `DefaultRate` is the engine's default.
- `MaxLookups`: how many look-ups of the same issuer are on the way at once.
  One is enough to be late.
- `PoolSize = 2`: two listings can take every connection, and two payments can
  hold one each while one waits for the other's lock. `Listed = 2` invoices: a
  listing asks for a second connection, gives it back and asks again.
- `Clicks`: two submissions, because the hazards are a payment and its
  repetition; `Deposit = 5` covers the amount 2 twice, 3 once, and both
  together; an amount above what the form has read occurs because the wallets
  may be read before the deposit. `CorridorRate = 3` over `RateUnit = 2` and
  `CentUnits = 2` make the exchange and the preview round apart.
- `Engines = 2`, `Registrations = 2`: two starts that race, one that finds what
  the other has made, and one that comes after a failure; two registrations of one
  phone, and of the reserved one. `Phones` are an ordinary one and `Reserved`.
- `Attempts = 2` to sign in, as rows, forms and their repetitions come in
  pairs; the phone numbers are one that is listed, seeded or not, one that is
  listed and typed, and one that is only typed.
- `Presses = 2`, one `InvoiceNumber`, one partner, `MaxLines = 2`: an invoice and
  its retry with other lines.
- `MaxToasts = 4`: three toasts on the screen and one that takes a freed place.
- `MaxPayments = 3` with `PageSize = 1`, and two payments of one
  millisecond (`Stamp`): a first, a middle
  and a last page, and an order with ties. `Looks = 2`, `MaxRecords = 2`: two
  fetches that overlap, of two payments or of one.
- `MaxSettled = 3`, `LastDay = 3`, `BarDays = 2`, `FeedRows = 2`, `EventRows = 3`
  (7 days, 8 rows and 20 rows in the code): payments inside, at the edge of and
  before the bars, and one that no longer fits into the feed; one within the
  country, one across the border and one whose rate is stored as 0 (`Marked`,
  `Crossed`).
- `Totals`: every ones and tens word, the edges of each group of three digits
  up to the largest number TLC has, and cents that round down, up and into the
  whole.

Deadlock is checked in the runs of `Ledger`: `AllServed` is the only step of a
state in which every request has been answered. The other runs say
`CHECK_DEADLOCK FALSE`: a server that has stopped, and a gateway or a page
whose exchanges or clicks are used up, really stop.

## 4. Fairness

- `EveryCallReturns`: `WF(Step(r))` for every request, that is, a statement that
  can run, runs. PostgreSQL answers statements and its deadlock detector breaks
  cycles, the rails answer or run into their timeout (`SleepCtx`), and each
  request has a goroutine of its own. Nothing is assumed of clients or failures.
  Weak fairness is enough because a blocked request stays unblocked: locks are
  released once and each request runs a single call.
- `PublishNeverWaits`: `WF(Publish(q))` only. Nothing is assumed of streams,
  whose goroutines may be stuck in a write to a client that does not read; that
  is the point of the property.
- `AnnouncedGetsShown` (`LiveFairness`): frames are delivered and callbacks run while the
  connection holds, an effect that is due runs, and the current fetch goes on.
  Failing reads and breaks may happen at any time, and the property allows for
  both.
- `EveryMessageAnswered`: the gateway's event loop handles what it has received
  and a call ends by its answer or its deadline. Nothing is assumed of the
  engine.
- `OnlyListingsJam` (`PoolFairness`): a call that can go on goes on; the pool
  serves those who wait in their order, PostgreSQL releases row locks with their
  transaction. Nothing is assumed of clients, who may leave at any time. The
  property exempts only a pool all of whose connections are held by listings
  that ask for one more.
- `RowsGetFree` (`UsersFairness`): a statement that can run runs. Nothing is
  assumed of failures, clients or of processes that stop and start. The property
  says that whoever waits for a row can go on again and again; that nobody is
  overtaken for ever by engines that crash and restart is up to PostgreSQL,
  which wakes those who wait for a row in their order.
- `ButtonReturns` (`CardFairness`): the engine serves the calls of the page, which is what
  `EveryCallReturns` shows of `Ledger`, and the browser handles the answer.
- `ScreensReturn`, `AwaitedArrives`: the same for the payment form
  (`FormFairness`), the attempts to sign in and the effect that stores the
  trader (`SessionFairness`), the fetches of the register and of rows
  (`RegisterFairness`, `AuditFairness`), the creation of an invoice and the list
  after it (`DeskFairness`); timers fire (`ToastFairness`), after which only errors
  may be left. An answer may be a
  failure every time. Nothing is assumed of the user.

The liveness properties have the form `[]<>P`: whatever has happened, `P`
comes again. Where `P` can only become false again by a new action of the user
this says that each payment, fetch or attempt ends.

## 5. What is proved

The theorems hold for all values of the constants: any number of requests,
accounts, keys and currencies, any calls, any rates, any number of streams, any
positive buffer sizes, any messages, exchanges, clicks, attempts, toasts, pages,
lines, days, totals, callers, pools, engines and registrations.

Every invariant and action property that a passing run checks is proved;
liveness is not. What each theorem adds to its run is the
step from the small instance to every value of the constants.

### Assumptions

They are named in the modules that declare the constants, and TLC evaluates
them on the runs.

| Assumption | Says | Because |
|---|---|---|
| `BooksAssumption` | calls are payments and reversals; a domestic payment has one currency, a funding one account; `RateUnit` and `RateGrain` are positive; names do not clash | the handlers' parameters and the columns' scales |
| `HubAssumption`, `LiveAssumption` | buffers hold at least one frame; `NoStream` is no stream | `sse.go` makes a channel of 16 |
| `GatewayAssumption`, `PaymentsAssumption` | a funding's key is no message's id; the gateway's payments are calls, and its default rate is one that the column keeps | `FxRateRWFKES` has at most six decimals; a funding under a message's id would be answered as if it were the payment |
| `PoolAssumption` | a pool has a connection, a caller is of one kind | `pgxpool` |
| `PayCardAssumption`, `CardCallsAssumption` | clicks are finitely many requests, invoices have an issuer and an amount, the card's payments are calls of the engine | `invoices.go`, `Invoices.tsx` |
| `PaymentFormAssumption`, `FormCallsAssumption` | clicks and the deposit are requests, amounts and the corridor's rate are positive, the form's submissions and the deposit are calls of the engine | the form refuses the rest (`TransferForm.tsx` 95-122) |
| `UsersAssumption` | engines and registrations are different processes, and "nobody" is no id or phone | ids are UUIDs |
| `WordsAssumption` | a total has a whole part and thousandths, and does not round to a thousand trillion | `WORDS_SCALES` ends with Trillion (`format.ts:75`), and `NUMERIC(18,4)` holds less |
| `SessionAssumption`, `AuditAssumption`, `ToastsAssumption`, `RegisterAssumption`, `InvoiceDeskAssumption` | sizes are natural numbers and pages have a row, prices are positive, "none" and the empty field are no press, number or partner | the constants of these pages |
| `FiguresAssumption` | a payment booked later is created no earlier, the feed is no longer than the notifications | the engine lists payments by `created_at`, whose order the numbers stand for; 8 and 20 rows |

Two theorems have a hypothesis besides. `BooksAreBalanced` assumes
`RatesKept`, that no positive rate is stored as 0; the runs satisfy it, and
section 6 says what happens otherwise (`transfer.go:195`).
`LargePoolsNeverStop` assumes fewer listings than connections, since as many
listings do stop the pool.

### The books (`BooksProofs`)

- `ExactRate`: a rate that the column keeps exactly exchanges to the same
  amount as the stored one, whatever the amount.

The other lemmas are what the later modules need of the model's operators: the
types of headers and rows, and what sums compute. A sum folds a set with a
recursive function, and the library's induction over finite sets cannot be used
(its theorems take an operator as a parameter, which no installed prover can
instantiate), so the lemmas on `SumBy` (`SumExists`,
`SumUnique`, `SumRemove`, `SumUnion`) argue with a minimal counterexample in the
order of strict inclusion, which is well-founded on finite sets. The sums of
rows (`Total`), of the payments on a page and of the overview's bars are
instances.

### The engine (`LedgerProofs`)

- `Invariance`: `Spec => []LedgerInv`
- `TypeCorrect`, `OneTransfer`, `Claims`, `FundsStay`: the invariants `TypeOK`,
  `OneTransferPerKey`, `ClaimsMatchHeaders`, `CheckedFundsStay`
- `AnswersTrue`, `RailAgrees`, `NothingRewritten`: `RepliesAreTrue`,
  `RailAgreesWithBooks` and the action property `HistoryKept`
- `BooksAreBalanced`, `ReversalsRestore`, `NeverOverdrawnByPayments`:
  `BooksBalance`, `ReversalRestores`, `OverdraftOnlyByReversal`
- `Refines`: `Spec => ImplementsAtomic`
- `ServiceRefined`: `Spec => ImplementsService`

None of the invariants is inductive. `LedgerInv` adds what a request relies on
at each statement:

- `CallInv`: a request is at a statement of its own operation.
- `Checked`: the checks it has passed still hold of its call, and its header
  shows its call.
- `LocksExclude`, `PaymentLocks`, `ReversalLocks`: a row locked FOR UPDATE is
  locked by nobody else, and which rows a request holds at which statement.
- `Staged`: what it is about to commit is what the atomic operation writes,
  and every row of it is on an account it has locked.
- `KeyInv`: a key is on one header at most, the inserted ones included.

The argument for `CheckedFundsStay`: entries change only when somebody commits;
the committer has locked the accounts of all its rows (`Staged`); the source of
a checked payment is locked by that payment (`PaymentLocks`); so by
`LocksExclude` the committed rows are on other accounts and the balance is the
same. The argument for `Refines`: at a commit, `KeyInv`, `Checked`, `Staged`
and `CheckedFundsStay` (or, for a reversal, `ReversalLocks`) are exactly the
guards and the effect of the atomic operation; every other step changes neither
headers nor entries (`TablesFrame`). `ServiceRefined` adds the answers: each
statement that turns a call down does so for the reason its answer names
(`Checked` and `CheckedFundsStay` at the rail), the look-up shows a header that
claims the key (`ClaimsMatchHeaders`), and the statements in between are
invisible. It is the premise under which the callers are composed with
`LedgerService` and not with `Ledger`.

`TraceInv` extends `LedgerInv` by what a request has left behind: until its
commit no row and no header shows it, nor after a refusal, and what it has
found to answer with stays found (`AnswerInv`); a header of a payment, or a
statement past the rail, means that the rail has paid (`PayoutInv`).
`AnswersTrue` follows at once. `RailAgrees` adds that two paid requests of one
key cannot both be at a header or past the rail (`KeyInv`,
`OneTransferPerKey`). `NothingRewritten` needs it because the contra rows of a
reversal are new: no row shows the reversing request before its commit.

`RowsInv` extends `TraceInv` by the shape of the rows: the table is finite, the
rows of a header are exactly those its payment writes and, if it is reversed,
those that one other request has written against them (`HeaderRows`). This is
where "reversed exactly once" is: two reversals would have left the rows of
both. The sums of `BooksBalance` and `ReversalRestores` are then sums of at most
eight known rows. `ReversalsRestore` holds for every rate. What the rows of a
payment and of its reversal leave on an account (`ContraLeaves`) is the exchange
at the requested rate less that at the stored one, on the destination, and its
negative on the settlement account; it is 0 if the column has kept the rate. Of a
rate that is stored as 0 the theorem says only that the source has its money back. For `OverdraftOnlyByReversal` a commit of a payment takes from
its source what `CheckedFundsStay` says is there, brings money to every other
account that is not a settlement account, and adds no row that counts as taken
by a reversal; a commit of a reversal takes on both sides of the inequality.

### Callers of the engine (`CallerProofs`)

`EngineInv` is what every environment of `LedgerService` keeps, whatever it
calls: a header is that of its request's call, well-formed and authorised, and
so are its rows; a request that is answered "ok" has been shown a header with
its key (`KeysShown`); a payment that has been recorded is answered with its
header or not at all (`TakenUp`).
`CallsKept` says what no step takes back. The steps of the service preserve
both once and for all; the proofs about the gateway, the card and the form only
add their own part.

### The gateway, the pool and the users (`GatewayProofs`, `HubProofs`)

- `GateInvariance`, `GateTyped`, `AcceptedBooked`: `GatewaySpec => []GateInv`,
  and from it `GateTypeOK` and `AcceptedIsBooked`
- `NeverTurnedDown`: `GatewaySpec => AcceptedStaysAccepted`
- `GatewayUsesService`: `GatewaySpec => ServiceSpec`
- `PoolBounded`: `PoolSpec => []PoolTypeOK`; `FrontTyped`: the gateway, the hub,
  the pool and the users behind one front keep their types
- `OnlyListingsEverStop`: `PoolSpec => []OnlyListingsStop`;
  `LargePoolsNeverStop`: with more connections than listings, some call that is
  there can always go on
- `UsersInvariance`: `UsersSpec => []UsersInv`, and from it `UsersTyped`,
  `RegistryIsSound`, `SettlementsStay`: `UsersTypeOK`, `RegistrySound`
  (`SettlementReady` and `TradersOwnBoth`) and the action property
  `SettlementKept`

`GateInv` says what the report rests on: a report of acceptance was made from
an answer that showed the header (`Reported`). With `ExactRate` the amount that
the gateway computes from the rate is the amount of the credit row.

`NeverTurnedDown` needs `NoRace`: one call of the gateway is on the way at most,
since its handler blocks the event loop (`LoopFree`), and a call for a message
that has been accepted finds the payment made before and is not refused. Others
may pay meanwhile, with the same id too; only a funding must not have the id of
a message (`GatewayAssumption`), for its header would be taken for the payment.
The same message shown to the engine by two gateways at a time would break it, as
the run `losers` shows of the engine.

`PoolInv` says how many connections a call keeps at each of its places
(`CallPlace`) and that the lock is held at one place only (`LockPlace`). The
connections that are taken are counted as the set of their `Slots`, which each
step grows or shrinks by one or two elements. `OnlyListingsEverStop` is the safety
part of what `OnlyListingsJam` checks. Whoever holds the lock has its connection
and asks for none (`HolderGoesOn`), so if all calls wait, none waits for the
lock: all ask for connections and there is none. Of those that ask only a
listing keeps one, so the slots are in bijection with the listings that ask,
of which there are `PoolSize` (`AllAskingJam`). A payment that asked for a second
connection with its lock would break the first step.

`UsersInv` consists of the tables (`TablesInv`: a phone is of one user, a user's
rows are complete as soon as the user is there), of what a start and a
registration have done at each of their statements (`StartInv`,
`RegistrationInv`), and of `OneWorker`: whoever works on the row of a phone is
the only one. A transaction that inserts a user has seen that nobody has the
phone; by `OneWorker` nobody gets it before the commit, which is why the
committed row is still the only one. A start that found the user adds no
account, as they were committed together. And a registration runs only on an
engine that serves, so after the reserved user was committed: this is what
keeps the reserved phone from traders. None of the properties is
inductive without the statements of the transactions on their way.

### Events (`HubProofs`, `LiveViewProofs`)

- `HubSafe`: `HubSpec => [](HubTypeOK /\ ChannelsLive)`; the conjunction is
  inductive. The hub's channels are those of the streams that read them or are
  about to remove them.
- `ClientsAgree`: `HubSpec => []ClientsAgreeOnOrder`. `OrderInv` adds that what is
  on its way to a client has been published (`SentIsPublished`), so a new event is
  behind everything that is on its way to anybody; and what is on its way to a
  client only loses its first frame or gets a new last one (`PipeStep`).
- `AnnouncedShown`: `LiveSpec => [](LiveTypeOK /\ AnnouncedIsShown)`
- `ShownMonotone`: `LiveSpec => ShownNeverGoesBack`
- `PageUsesHub`: `LiveSpec => HubSpec`, so `HubSafe` holds behind the page.

`LiveInvariance` proves `LiveInv`, whose parts are: a published change is
committed (`PublishedDone`); what counts as covered was published while the
page's stream was registered (`CoveredLive`); reads and the page show committed
changes only (`ViewsCommitted`); no two fetches have one tick (`OneCurrent`); a
read of the current fetch is no older than what is shown (`ShownOlder`); and a
covered change is on its way to the page, in what the current fetch has read,
or on the page (`Announced`). The last one is the point: an event may be
dropped only when the channel is full, and then another frame, whose fetch
reads after the commit, is still to come.

### The invoices page (`CardProofs`)

- `CardInvariance`, `CardTyped`, `NotOfferedTwice`: `CardSpec => []CardInv`, and
  from it `CardTypeOK` and `SettledIsListed`
- `CardUsesService`: `CardSpec => ServiceSpec`

`CardInv` is `CardTypeOK`, `EngineInv`, `SettledIsListed` and `PageInv`: a
payment that the page no longer waits for has been answered, and there are no
more timers than such payments. The argument for `SettledIsListed`: the success of
a payment makes the list be fetched again, after which the header that stands is
one the fetch reads; only a reversal takes an invoice back to unpaid, and the
property speaks of payments that stand.

### The payments form (`DeskProofs`)

- `FormInvariance`: `FormSpec => []FormInv`
- `PaidOnce`, `FormIsTruthful`, `RefusedIfStale`: `TypedOncePaidOnce`,
  `FormTellsTruth` (`ReportTrue`: `ReportedIsSent`, `PreviewTrue`:
  `PreviewIsPaid`) and the action property `RefusedOnlyIfStale`
- `FormUsesService`: `FormSpec => ServiceSpec`

`FormInv` adds to `EngineInv` that every call of the form is the one its
submission says (`SentInv`: what was on the form, and an amount within
the balance it had read), and that of the submissions of an amount those that
the form no longer waits for have been answered, none with success (`WaitInv`),
and that the mode is that of the last submission unless it was switched while
that one was on its way (`KindInv`). `PaidOnce`: of two submissions of one amount
the form no longer waits for one, which has ended without success, so a header
of it means that its answer was lost. `PreviewTrue` rests on
`TwoRoundings`: rounding a quotient to cents and rounding it to the column's
scale differ by half a unit of each at most; it speaks of submissions that were made
when the rate was there, and of the others it says that they announced nothing
but KES 0.00. `RefusedIfStale`: at a refusal the
balance is below the amount, which was within the balance that the form had
read. `FormUsesService` is that of the gateway and the card: each submission and
the deposit is a call of the interface (`SubmissionIsCall`, `FundStep`), under a
request that was not used before.

### The rest of the dashboard (`DeskProofs`)

- `OnlyRegisteredSignIn`: `SessionSpec => [](SessionTypeOK /\ SignedInIsRegistered)`.
  It needs that an answer on its way is true (`AnswersTrue`: a trader who is
  reported known or created is registered).
- `PanelIsOfItsPayment`, `HistoryKeepsItsRows`: `AuditIsOfItsPayment`, and
  `KeptRowsBelong`, of which it is a consequence on the history page. They need
  that a fetch brings the rows of the payment it was made for (`AnswersBelong`)
  and that without overlap there is one fetch at most, made for the payment that
  is open (`OneFetch`).
- `TimersTakeTheirOwn`: `ToastSpec => []TimerTakesItsOwn`. `ToastInv` says that
  the timers end in the order of their ids, so none runs twice, and that a toast
  is shown exactly if it was not closed and its timer runs. That this is so of
  errors too is what the run `errors` shows; the property asks it of the others only.
- `RegisterTyped`, `EachOnOnePage`: `RegisterTypeOK` and
  `EveryRecordOnOnePage`. The order of the history page is total (`SortIsTotal`:
  the engine's order decides ties), so the places of the records are
  exactly 1 to their number (`PlacesAreTaken`), and pages of `PageSize` places
  split them (`OneItsPage`). `ViewInv` says that the open page exists, and that
  the history page fetches the register while its first page is open, so that a
  fetch never takes the page away from under the reader.
- `CreatedAsSubmitted`: `DeskSpec => [](DeskTypeOK /\ CreatedIsSubmitted)`.
  `InvoiceInv` relates the three places where an invoice is: as it was
  submitted (`PressInv`: its lines are those with a description, its total that
  of all), as the engine has recorded it (`InvoicesInv`), and as the page
  reports it (`ToldInv`): a form takes the answer of its own submission only, and
  one that has been reopened takes none.
- `FiguresAgree`: `FiguresSpec => []PagesAgree`. `FiguresInv` says that the
  overview's figures are those of the register fetched last, on the day on which
  they were computed, which is not after today. The counts then add up because
  the statuses are disjoint, and those of cross-border payments differ by the
  reversed ones and by those whose rate is 0; two shares of one whole, rounded to
  tenths, add up to 1000 or 1001 (`TwoShares`); every payment is in the bar of its day
  or older than the bars (`BarsHold`, by `SumUnion`); and the sort by time, which
  keeps the order of equal times, is the order of booking (`PlaceFromTheEnd`).
- `WordsSaidTrue`: `WordsSpec => []WordsReadBack`, for every total that has
  words. `Understood` is a recursive function on the words of a text. That such a
  function exists and is unique is shown with the least number at which two
  candidates differ (`LeastNatural`, `ReadersAgree`, `ReaderExists`), as
  the library's recursion theorems cannot be used; after that a text is
  only ever followed by one more word (`HeardFurther`). `Told` says what a reader
  has of a text; each kind of word and then each group and its scale takes it
  further (`GroupTold`, `PartTold`, `LastTold`), if the text does not end
  where two words up to nineteen would meet (`TakesOnes`). `NumberReads` puts
  the five groups together, `AmountReads` adds the rounding to cents.
- `ScreensTyped`: the screens keep their types as parts of `MCDesk`.

### Only model-checked

- Liveness (`EveryCallReturns`, `AnnouncedGetsShown`, `FrontReturns`,
  `ButtonReturns`, `ScreensReturn`, `AwaitedArrives`): fairness and ENABLED are out of the
  prover's reach. Of `OnlyListingsJam` the safety part is proved
  (`OnlyListingsEverStop`).
- Deadlock of the engine: TLC finds none on its instances; that some step is
  enabled is ENABLED again.
- The disagreements of section 6, which are counterexamples.

## 6. Where code and comments disagree

Runs that end in a counterexample:

- **`losers`** - `store.go` says that losers of a race for a key replay the
  winner's transfer. A request that passed the look-up before the winner
  committed reaches the balance check (`transfer.go:104`) before the insert
  that would detect the key, and is told "insufficient funds" if the winner
  took the money.
- **`funding`** - `ReverseTransfer` accepts the header of a funding. Both
  contra rows are on the one account, so it is marked REVERSED and the money
  stays.
- **`shutdown`** - `main.go` never calls `Hub.Close`, so an idle event stream
  holds `srv.Shutdown` until its deadline.
- **`rejected`** - the gateway's deadline passes while the engine commits: the
  sender gets RJCT for a payment that was made. (Repeating the message then
  brings ACSC, as run `front` shows.)
- **`settled`** - the account that the card has looked up survives a switch to
  another invoice, whose payment then goes to the first issuer; the invoice is
  PAID, since that is derived from the number alone.
- **`resubmit`** - `PROJECT_DOCUMENTATION.md` promises an idempotent submit. The
  answer of a payment is lost, the form keeps the amount and its button works;
  the second submission has a new key (`client.ts:108`) and pays again.
- **`errors`** - `ToastProvider.tsx:55` says that unhandled errors are kept until
  closed. The next line sets a timer for every tone, and an error goes with it.

Behaviour met while modelling, without a run of its own:

- A reversal exchanges at the stored rate (`NUMERIC(18,6)`), a payment at the
  requested one. With a rate that the column rounds, the destination and the
  settlement account keep exactly the difference; `ReversalRestores` says so, and
  the run `payments` has such rates. A positive rate below 0.0000005 is stored as
  0, and its transfer is reversed like a domestic one (`transfer.go:195`).
- A reversal does not look at the balance it takes the money from;
  `OverdraftOnlyByReversal` states what follows.
- The rail's reference is the header's id, which is rolled back with the
  header; a retry after a lost transaction pays out again under a new
  reference, while `mtn_rw.go:55-56` speaks of one external id for retries.
- `sse.go` greets a client before it subscribes it: an event in between is
  missed while the page says "Live updates active". `WriteTimeout` (30 s,
  `config.go:77`) ends every stream at its first write after that time, and
  what falls into the reconnection is missed too. gRPC calls change the ledger
  without an event at all.
- `registry.py:40-41` lets the caller answer RJCT for an unknown party, but
  `main.py` does not catch its `KeyError`: the answer is a server error.
- A message whose id has been used before is answered with the status of that
  earlier payment: ACSC for a transfer reversed since, or for another amount.
- The invoices page makes new keys too: a second click on Confirm within the 1.5
  seconds before the card closes, or after a lost answer, pays the invoice twice.
- `ListInvoiceReferences` promises the invoices of SUCCESS transfers and filters
  no status (`invoices.go:52`).
- `ListInvoices` asks for a second connection while it holds one: as many
  listings as the pool has connections wait for each other (`ConnPool`,
  `Jammed`) until a client leaves. Payments do not take part in this: they roll
  back before they read the winner's transfer (`transfer.go:116,131`).
- Two requests' events may be published in the other order than their commits
  (`server.go:248`); all clients see them in that order (`ClientsAgreeOnOrder`), and
  pages fetch after each, so only the wording of a toast is concerned. `GracefulStop` of the gRPC server has no deadline (`main.go:160`):
  a call that does not end delays the shutdown of HTTP.
- `TraderSelect.tsx:77-78` speaks of creating a trader "only when" it does not
  exist; any failure of the look-up is taken for that. An attempt to sign in
  that is answered late replaces the trader who has signed in since.
- Without a rate the form shows "Supplier receives KES 0.00" and can be submitted;
  the engine pays at its own rate (`TransferForm.tsx:100-108`, `335-351`). The
  success message is worded for the mode that is chosen when it is shown (`:329`):
  a switch while the payment is on its way calls it by the other name.
- A payment of the payments page whose answer is lost is booked, but the page does
  not fetch its register (`useTransfers.ts:58-60`, `70-72`).
- The payments page shows whatever rows arrive last (`Transfers.tsx:61-64`);
  the history page keeps the empty list of a failed look-up and does not ask
  again. `AuditIsOfItsPayment` says when the rows can be trusted.
- The payment form offers a destination before a source is chosen, which may
  then be the same wallet; the engine refuses the payment. Text typed while a
  submission is on its way is erased by its success, here and in the invoice
  form. The counterparties of the invoice form are looked up without a cancel.
- The invoice form shows an error beside an older success banner
  (`InvoiceForm.tsx:158-160`), and one that is left and opened again does not hear
  of the submission that was on its way (`Invoices.tsx:275-351`).
- The total of the invoice form counts lines whose description is spaces, which
  the invoice leaves out; `CreatedIsSubmitted` excepts them. An invoice may be
  created although the answer is an error (`invoices.go:166`).
- The wallet page counts outbound payments by account ids that begin with the
  trader's id, which none does (`OperationsModule.tsx:74-81`); it labels the
  rate "KES per RWF" although it is RWF per KES (`:145`). Sums over both
  currencies are labelled RWF. The analytics' cross-border share "of successful"
  divides by all (`:221`). Cross-border payments are counted in three ways: the
  settled ones with a positive rate (`Dashboard.tsx:66`), those of every status
  with one (`Transfers.tsx:52`), and the settled ones with any rate
  (`OperationsModule.tsx:172`). The donut's text gives its total as "{total}
  transfers in the register" and leaves reversed ones out (`Dashboard.tsx:333`,
  `362`). "Settled Today" stays yesterday's after midnight until something is
  fetched. `PagesAgree` states what does agree, and by how much the others differ.
  Of the pages only the overview is fetched again on events.

## 7. Not modelled

- Configuration, schema and the seeding command. `ListInvoiceReferences`, which
  no page calls, and the filters of listings that no page sends.
- Formats, HTTP and gRPC codes, error bodies, logging, CORS, static files,
  rendering, generated code and deployment; of the gateway, the endpoints that
  translate or read without changing anything. The landing page has no state.
- In `Ledger`: the accounts are constants, the settlement accounts included
  (`Users` shows that there is one per currency, which stays the same); floating point is exact at the scale
  of the columns (amounts are taken as multiples of 1/10000); the adapter is
  always found; reasons and external references are left out, as nothing in
  these operations depends on them. Invoice numbers appear in `PayCard`
  (`pays`).
- In `EventHub`: `Hub.Close`, which the program never calls, and what an event says. The pages fetch after every event; only a
  toast and an activity line show its contents.
- In `LiveView`: fetches that a page makes after its own submissions (`Register`
  has them for the payments page).
- In `ConnPool`: the server's other statements; a payment's lock stands for all
  of its row locks, whose order is `Ledger`'s.
- In `Users`: names, registration numbers and the status of users, and the pause
  between two starts. Accounts are never closed and users never removed, in
  the code either.
- In `PaymentForm`: the payment of an invoice number typed into the form, which
  the engine stores and does not check. In `InvoiceDesk`: quantities other than 1.
- The dashboard's parts are not composed with each other: they share the trader
  and the engine, and `Replace` in `Register` is the one effect of one on another
  that the code has.

## 8. Plan

Done, in this order: `Books`, `AtomicLedger`, `LedgerService`, `Ledger`,
`EventHub`, `LiveView`, `Gateway`, `PayCard` and their proofs; `ConnPool`;
`PaymentForm`, `InvoiceDesk`, `Session`, `Toasts`, `Register`, `AuditRows`,
`Words`, `Figures`; the proofs about sums of rows (`BooksProofs`,
`LedgerProofs`), about callers of the engine (`CallerProofs`, `CardProofs`,
`GatewayProofs`), about the pool (`HubProofs`) and about the dashboard's parts
(`DeskProofs`); `Users`, the stop of the pool, the words of an amount and the
form as a caller of the engine, with their proofs.

What would come next:

1. That requests of `Ledger` which all wait are on a cycle that `DeadlockAbort`
   breaks, as an invariant in the manner of `OnlyListingsStop`: the safety part of
   `EveryCallReturns`.
2. The registry of `Session` and the account constants of `Books` as what
   `Users` implements, which composes sign-in with the tables.
3. `ListInvoiceReferences`, once a page calls it.
