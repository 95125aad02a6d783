# Verification of DocScan (node-invoice-reader)

TLA+ models of the DocScan server, checked with TLC and proved with TLAPS.
DocScan reads a supplier invoice (DANFE) with an AI provider, enters its items
into a stock kept in PostgreSQL, and leaves items that resemble an existing
product as suggestions a person confirms or rejects. One Node process serves
all requests; every `await` of a handler is a point where another request, a
timeout or a crash can intervene. The models are about those points.

Paths below are relative to the repository (`src/use-cases/...`). The server is
written in TypeScript; the `.js`, `.d.ts` and map files beside its sources are
what `tsc` makes of them, the same program once more, and no definition is
mapped to them.

## 1. The system

| Component | State it keeps | Operations | Talks to |
|---|---|---|---|
| Invoice upload: `ReadInvoiceUseCase`, `PrismaInvoicePersistenceRepository`, `prisma-weighted-product-entry.ts` | `processed_invoices`, `products`, `product_similarity_suggestions`; per request a snapshot of the catalog and a plan | execute: authorize, extract, read the catalog, match each item, persist, audit, remove the file | AI provider, store, audit log, file storage |
| Suggestion decisions: confirm and reject use cases, `PrismaProductSuggestionRepository` | the same tables | confirm, reject, list | store, audit log |
| AI budget: `AiBudgetGuard`, `PrismaAiUsageLedgerRepository` | `ai_usage_ledger`: reserved and spent requests per scope and UTC day | assertEnabled, reserveAttempt, reconcileAttempt | PostgreSQL |
| Gemini provider: `GeminiAiProvider`, telemetry | per call: attempt, timer, reservation; `ai_call_events` | extractDanfeData, findSimilarProduct, generateContent, recordCall | budget guard, external API |
| Demonstration sessions: `PrismaDemoSessionRepository` and its use cases | `demo_sessions`, `demo_document_keys`, companies | prepare, restart, current, document | store, synthetic CNPJs, PDF renderer |
| Authentication: login, change password, register, `ensureAuthenticated` | `users.password`, `users.authVersion`, tokens held by clients | login, changePassword, register, authenticate | store, hash and token providers |
| Configuration: `createEnv` | none: it accepts or refuses the variables | start | application, limiters, AI budget |
| HTTP layer: routes, middlewares, rate limiters, trust in proxies, web pages | counters of the limiters by key; `request.user`, `request.ip`, `request.file` | a chain of middlewares for each route | every use case |
| Server lifecycle and health probe | one shutdown promise, the shutting-down flag; cached health | SIGTERM, SIGINT, fatal errors, drain, deadline, close the database; probe | HTTP server, database |
| Amounts: weighted entry, coherence of invoices, audit figures | quantity, unit price and total of a product; `audit_logs` | check, enter, audit | store |
| Companies, stocks, listings | `companies`, `stocks`, permissions | create from a written CNPJ, list with cursors | store, audit log |
| Temporary files | the uploaded file on disk | create (multer), check the signature, read, delete | file system |
| Web sign-in (`web/src/state/auth.tsx`, `App.tsx`, `pages.tsx`) | token in memory, the page shown, the form submitted | sign in, sign out, register, change the password, leave on 401 | the HTTP API |
| Web journey (`web/src/journey/useJourney.ts`, `panels.tsx`) | React state of one page | prepare, restart, upload, decide, resync, load more | the HTTP API |
| Telemetry and its reconciliation script | `ai_call_events` | record, compare a closed day with the ledger | store |
| Mappers, in-memory repositories, other scripts | none that a property is about | | |

Requests interact through PostgreSQL only: through unique indexes (access key;
stock and code; CNPJ; one active demonstration per owner), row locks, and
foreign keys. All transactions run at READ COMMITTED. Within one request the
hazards are values read before an await and used after it (the catalog
snapshot, the cap, the abort signal, the period of a reservation), failures
between a commit and what follows it (audit, telemetry, reconciliation), and
the order in which two transactions take the same locks. `hazards` in
`PROJECT.json` lists each of them at its line, with the properties that watch it.

What makes each component correct:

- upload and decisions: an invoice enters the stock once and as a whole, each
  line in one product at most, never mixing units, nor suppliers unless a
  person confirmed it; a suggestion is decided once; stocks are isolated;
- AI budget: no day passes a cap, no request is sent uncharged, a reservation
  is released exactly once and in the period it was made in;
- provider: calls end, 429 is not repeated;
- demonstrations: one active session per owner, a chain of successors, restart
  idempotent by identifier, identities never shared;
- authentication: a token is worth something only while the password it was
  issued for is current;
- lifecycle: one shutdown, an exit code that tells an orderly end from any other,
  the database closed after the connections and never under a transaction;
- health: an answer that is no older than the cache allows;
- HTTP: nobody gets more through a limiter than it admits, whatever headers say; no
  temporary file stays behind unless the disk or the process failed; an answer
  tells what was done;
- amounts: a product stays worth what entered it, and the audit log tells it;
- companies: one CNPJ, however it is written, is one company with one stock;
- listings: no page repeats or loses a row;
- sign-in: a token known to be dead is never presented, and nobody is signed out
  without a cause;
- journey: one mutating operation at a time, buttons given back, lists that belong to
  the session shown and show at least what the page itself did.

## 2. Modules

| Module | What it is |
|---|---|
| `StockStore` | the three tables, transactions as private writes with row locks, the weighted entry |
| `InvoiceUpload` | one process per upload, one action per await of `execute` and per statement of `persist` |
| `SuggestionDecision` | one process per confirm or reject request |
| `GoodsReceiving` | both over one store, with crashes and the deadlock detector; the properties |
| `ReceivingContract` | the abstract promise: a key is taken once, with all its lines; a pending line enters once |
| `ReceivingInvariant` | the inductive invariant, in named parts |
| `GoodsReceivingProofs` | the theorems about it, and the refinement of the contract |
| `Environment` | `createEnv`: what the variables make of the process, or that it refuses to start |
| `AiLedger` | the ledger rows, reservation and reconciliation as transactions; caps from `Environment` |
| `GeminiAttempts` | calls as processes: reserve, request, timer, reconcile, retry, telemetry; the script that compares both tables; the properties |
| `AiBudget` | the abstract daily budget, of each user and of all together |
| `GeminiAttemptsProofs` | the theorems about both, and that one implements the other |
| `Accounts` | registration, login, password change and any authenticated call, as requests over `users`; the properties and the inductive invariant |
| `BrowserTab` | a tab of the web interface beside the other clients of `Accounts`, which it extends |
| `AccountsProofs` | the theorems about accounts and the tab |
| `Cnpj` | normal form and check digits of a CNPJ, and synthetic ones |
| `DemoSessions` | prepare and restart commands over unique indexes, readers of the current session and of documents |
| `DemoSessionsProofs` | its theorems |
| `HttpRequests` | requests on their way through the middlewares of their routes, with limiters, proxies and temporary files |
| `StockAmounts` | the figures of one product in the grain of their columns, and what the audit log is told |
| `StockAmountsProofs` | its theorems |
| `ServerLifecycle` | the process: requests, the health probe and its cache, signals, fatal errors and the shutdown; its properties |
| `ServerProofs` | the theorems about the two modules of the server, `HttpRequests` and `ServerLifecycle` |
| `Journey` | the page of a demonstration: what its panels offer, its procedures as tasks, the answers they wait for, a second tab |
| `JourneyProofs` | its theorems |
| `Companies` | creation of companies with their stock and audit row; clients that walk through listings page by page |
| `CompaniesProofs` | its theorems |
| `MC...` | constants and symmetry for TLC |

### Correspondence

*Transactions.* A transaction's writes stay in `writes[p]` (or `held[c]`,
`claims[c]`) until it commits; a statement is enabled only when no other open
transaction holds its row or index entry, and sees what is committed then,
which is READ COMMITTED after the wait. `Rollback` drops the private writes.
Every COMMIT may be followed by a lost acknowledgement: the row is there and
the handler fails.

*Quantities.* In `StockStore` a product carries, instead of a quantity, how often
each invoice line was added to it (`entered`). Lost, doubled and misplaced
quantities are visible in these counts. Whom a stock is found for (`Access`) is
its owner and the collaborators with `canCreate`.

*Amounts.* `StockAmounts` is the complement: one product whose code, origin and
unit always match, so that only its figures matter. Every amount is an integer
in the grain of its column, `Round` and `RoundRatio` are the ROUNDs of the SQL
statement, `Null` what its `NULLIF` makes of a quantity of zero. `process[p]`
keeps what an upload or a decision has read for the audit (`previous`), `states`
the row after each entry, `books` what the entries were worth. An upload enters
all its lines in one step, since the transaction keeps the row's lock.

*Uploads.* `upload[u]` is the place in `execute`: received (before the
authorization), extracting (line 98), reading (135), matching (the loop, 140),
persisting (the transaction), auditing, done or failed. A failure of any kind is
`failed`: the status code is not kept, since what it leaves behind is what the
properties are about. The AI's answers are free choices: any document of a
small set, and for a new item "nothing", any candidate, or unavailable. The
item is planned in the step of the AI's answer; the read by code that precedes
it touches nothing shared, so reading at the answer covers reading before it at
another interleaving.

*Identifiers.* A random UUID is named for the thing it is drawn for (invoice
line, command and attempt), so it is unique without a counter.

*Configuration.* A secret is its length, a decimal its hundredths, a list its
set of entries; `Malformed` is any text a parser rejects. `CreateEnv` returns
the settings or `Refused`, and `HttpRequests` starts no server of a refused
environment.

*HTTP.* `request[r].todo` is the rest of the chain of middlewares, `Chain`
being the line of `createRoutes` or `createApp`; a middleware with a further
await puts that in front (`storing`, `discarding`, `reading`, `cleaning`).
`hits` is the memory store of each limiter, `admitted` counts the same by the
person behind a request. `Path` is what the proxies make of X-Forwarded-For,
and `ClientAddress` walks it as Express does. Use cases answer by choice:
`outcome` is what they came to, `done` who had an effect.

*Gemini calls.* `call[c].state` is the await the call is in: reserving (first
upsert), holding (second upsert and COMMIT), calling (provider), reconciling
(first UPDATE), settling (second UPDATE and COMMIT), waiting (back-off), recording
(telemetry). Both transactions take the global row first and keep it to their end
(`held[c]`); a reconciliation that fails may have been committed. `aborted` is
`controller.signal.aborted`; the timer can fire until `finally` clears it, hence
also while reconciling.
`ReconcilePeriod` is `scripts/reconcile-ai-usage.mjs` for the number of requests.

*Accounts.* `pc[r]` is the await a request is at: "arrived" (before its first
read), "creating", "comparing" (login has its row), "finding" (a password
change that was admitted), "verifying", "updating", "auditing". `seen[r]` is
the row the handler holds in a local. A token is named by the login that issued
it, so that a property can say with which password it was obtained; forging
one is out of the model, and one that is a day old is refused at any moment
(`TokenExpired`). A hash is the record of the password it was made of, which is
all `verify` tells. What serves a request keeps nothing in memory, so a process
that dies is each of its requests failing (`StatementFails`). An INSERT or an UPDATE
may be carried out and its answer lost (`CreateUnanswered`, `UpdateUnanswered`).

*The tab.* `token` is `tokenRef.current`, with `isAuthenticated`; `route` the page
the guard of `App` lets be shown; `form` the request a form waits for, which
goes with its page; `mail[r]` whether this tab sent `r` and has its answer. A
client of `Accounts` sends each request, so that what the server answers is
not assumed. `bare` is a request sent without a token because the user left
between two requests of one procedure.

*Demonstrations.* `command[c].state` is the statement a command is at;
`claims[c]` are the unique index entries its transaction holds. A company, with
its stock, is its CNPJ, which `GenerateSyntheticCnpj` makes of random bytes. A
document is found and drawn up in two steps, between which a restart can
archive its session.

*Lifecycle.* `phase` is the await `runShutdown` is in; `exitCode` its local.
`handler[r]` and `check[k]` are where a request is: "arriving" (its connection
is open, the routes have not seen it), "computing" or "holding" (a client of the
pool), "waiting" (for `pendingHealthProbe`). `gone` are those whose connection
was destroyed: the handler goes on, the server no longer waits for it. `freshFor`
is `healthyUntil` minus the present. A fatal error leaves the process running,
since it has a listener, so handlers go on until the exit.

*Journey.* `task[t]` is one run of a procedure of `useJourney` (the first load,
`reload`, `loadMoreProducts`, or an operation: `prepare`, `restart`, `change` for
`upload` and `decide`), `at` the await it is in, and `reply`, `products` and
`suggestions` what has been answered and not yet looked at, so that an answer taken
late is an old one. `page` is `state.session` and `state.busy` ("working" for the four
operations'), `lists` what is shown of the stock. Sessions are numbered by their
succession; a stock is the number of its changes. `own` and `excuses` are history:
what requests of this page did to the server, and why the page may be behind it. A 5xx
after a commit, and a request that arrives after its failure was reported, are such
excuses: `describeFailure` does not reread on the former, and no client could on the
latter. `Offers...` are the conditions of the panels. An upload goes to the stock of
the session shown, a decision to the stock of the suggestion shown, which after
`ListsBelong` fails is not the same. The end of the page and downloads are left out; a
refused token is in `BrowserTab`.

*Companies and listings.* A row of the three tables is its identifier, what it belongs
to, its owner and its time of creation; identifiers are drawn, so two rows of one
instant come in any order. `pending[c]` is what the open transaction of a creation has
inserted. A product committed by an upload or a decision (`EnterProduct`) is dated
with any instant so far, since `NOW()` is when its transaction began. `listing[l]` is
a client that asks for page after page, each request being authorized, its cursor
checked and its page read in steps of their own (`Newest` is the one sequence that
ORDER BY and LIMIT can answer); a request that fails is asked again. `there` is
history. Companies created by the demonstrations are in `DemoSessions`. Nothing in the
server removes rows or changes collaborators, so access is a constant.

## 3. What the runs check

| Run | Question | Bounds |
|---|---|---|
| `receipt_races` | Two uploads colliding on key, code, unit, supplier and row order, one decision, crashes, aborts: each line enters once, in the right product, and nothing is mixed (`StockExact`); refines `ReceivingContract`; the inductive invariant; crossed row locks deadlock, the detector breaks it, and every request ends | 2 uploads, 2 items, 5 documents, a stock with or without a product of unknown origin, a collaborator, fairness |
| `decision_races` | Two decisions on the same or different suggestions race each other and a second upload, by two users with a stock each: once, unmixed, nothing crosses stocks | 2 uploads, 2 decisions, 2 documents with a second unit, 2 users, 2 stocks, every request |
| `stock_amounts` | Invoices and decisions on one product: after any of them its value is what entered, to half a cent a unit and entry, and what the invoices declared, within their tolerance; the audit log tells the figures left and, where nothing came between, those found | 3 processes, 8 invoices on both sides of every rounding and tolerance |
| `budget` | Calls of two users at both caps, or across midnight, with failures, lost acknowledgements, crashes and retries: no cap is passed, each request is charged where it was reserved; refines `AiBudget`; calls end though the provider may not answer; the report of a day raises no alarm without a reason | 3 calls on one day, 2 over three of which the middle one is reported; caps 3 and 2; 2 attempts; fairness |
| `rate_limit` | The comment at `gemini-ai.provider.ts:129` says 429 never repeats: refuted, see below | 1 call |
| `demo_races` | Commands of two owners over colliding identities, with failures, lost answers and readers: one active end of one chain, one successor for everybody, documents of one's own session, and commands that wait for each other are separated and end | 3 commands, 2 attempts, 5 identities of 3 CNPJs (one taken) and 3 keys (one processed), fairness |
| `account_races` | Registrations, logins, password changes and calls overlap, most of them from a browser tab whose answers come late or never: no token outlives its password, no increment is lost, no e-mail is registered twice; the tab presents no token it knows to be dead, nor is it signed out without a cause; the inductive invariant | 4 requests, 2 e-mails, 2 passwords; see `Room` below |
| `http_requests` | Requests through every kind of chain, with forged headers, refusals, failing disks and crashes, on servers started or refused by their environment: files, limits, answers, and that each is answered | 2 requests, 10 routes, 1 hit a window, 4 placements of proxies and 6 refused environments, fairness |
| `shutdown` | Requests and health checks in every stage meet signals, fatal errors, the deadline and a failing cleanup: the exit code, the order of the closing, the transactions, the cache and the end | 2 requests, 2 checks, a time to live of 2 ticks, fairness |
| `companies` | Two creations of CNPJs written in several ways, products entered meanwhile and a client that walks through a listing: a CNPJ is one company with one stock and true audit rows, and no page repeats or loses a row | 2 creations, 4 writings, 1 listing, pages of 1, 3 identifiers a table, 2 instants, 2 users |
| `journey_races` | The first load and two procedures overlap in one page, beside another tab, with late and lost answers: one operation at a time, the page never left blocked, and own changes shown after failures | 3 tasks, 2 sessions, 2 changes, to one stock or to two |
| `stale_lists` | A restart says the stock of before is not shown any more: refuted, see below | the same, 1 change a stock |

The bounds are small because the collisions are pairwise: two transactions
contend for a key, a row, a cap or an index entry. A third process is there
where a bystander matters (a decision beside two uploads, a second user under
the global cap, a third command that arrives between two). `MaxAttempts = 2`
has a first, a repeated and a last attempt; the code's 5 identity attempts add
nothing to 2. Four requests let two logins surround a password change and a call
follow, or two changes cross. With two passwords an account can return to an
earlier one under a later version. Three procedures of a page are a first
load, an operation and one that begins when a failure has given the buttons back;
sessions only ever differ as old and new, and a stock as read before or after a
change. Pages of one row put a boundary between any two rows; two rows of one
instant and a third that is committed late are what a page can lose. One hit a
window is a limit met by the second request. `MaxHits` stands for 60,
10 or 5.

Four instances are cut further, each by a named constraint:

- `Room` of `MCBrowserTab`: the fourth request is made only where the tab takes no
  part, and beside the tab the other clients only log in and change passwords,
  which is all they can do to it. Three requests hold every race of the tab: a
  login, a call with its token, and a change or a second login.
- `Room` of `MCJourney`: two changes in all.
- `Ordered` of `MCHttpRequests`: requests are named as they arrive, and the second
  is one that shares a counter or a file with something.
- `MCInit` and `MCNext` of `MCGeminiAttempts`: the third call comes on the last day
  only, and where the first two come from the first day on, both have begun when the
  last day does. Only the day before it, which calls enter from either side, is
  reported, and failures come on the last day. The provider succeeds or times out
  (`Answers`): any other failing answer leads to `recording` as a success does, or
  to `waiting` as a timeout does.

Two runs refute a statement of the repository:

- **rate_limit.** `generateContent` computes `timedOut` from
  `controller.signal.aborted` *after* awaiting `reconcileAttempt`, and clears
  the timer in `finally`. If a 429 arrives just before the timeout and the
  timer fires during the reconciliation, the request counts as timed out and is
  sent again, with a new reservation.
- **stale_lists.** `loadStock` shows the lists it was answered, whatever session is
  shown by then. The first load shows its session before its lists have come,
  and the buttons are enabled: if the user restarts meanwhile and the old lists
  arrive last, the archived stock is shown under the new session, where
  `panels.tsx:62` says it is not shown any more. A further page of products
  (`loadMoreProducts`) is appended in the same way, and a decision taken on what
  is shown changes the archived stock.

### Fairness

A request the server has begun takes its next step when nothing blocks it: the
event loop runs ready callbacks, and timers fire. The deadlock detector is
fair, since PostgreSQL runs it after `deadlock_timeout`; the calls of
`GeminiAttempts` end without one, since their transactions take the rows of the
ledger in one order (a mutant in the other order leaves `CallsEnd` violated). Nothing is assumed of
people (a suggestion may stay pending for ever), of the provider (it may never
answer; the abort timer is what ends the request) or of failures (no failure is
counted on to end a transaction). `Prepare`, `Restart`, `Start` and `Decide`
are not fair. In `HttpRequests` what a middleware waits for comes or fails: the
request timeout of `createHttpServer` ends a client that falls silent, and a use
case ends as `RequestsEnd`, `CommandsEnd` and `CallsEnd` say; requests owe no
arrival. In the shutdown the deadline, the steps of `runShutdown` and the
answer of the database to a probe are fair, and a handler gives its client back,
since statements end; that a handler answers, or that a client closes its
connection, is not assumed.

## 4. What is proved

Each theorem holds for every value of the constants that satisfies the named
assumptions of the modules, which TLC evaluates on every run. Where a set is not
called finite it may be infinite; clocks, numbers of identifiers and the like,
bounded in a run, are any number in a proof. All proofs of safety have one form: an
inductive invariant that contains the property, checked by TLC first, one lemma per
action or group of actions, and in it one step per conjunct the action can disturb.

### Goods receiving

`GoodsReceivingProofs` holds for all sets of uploads, decisions, stocks, codes,
suppliers and documents. Assumed are that identifiers of uploads, decisions and
stocks are distinct, that `Absent` and `NoSupplier` are no values of a column, that
documents are well formed, and that initial products are entered by no line.

- `ReceivingInvariantHolds`: the inductive invariant `ReceivingInv`, in three parts:
  `ProtocolInv` (`ProtocolInvariant`, `TypeCorrect`), `StockInv` (`StockInvariant`)
  and `RequestsInv`.
- `AllOrNothing`: an invoice leaves all of its suggestions or none.
- `FinalDecisions`: a decided suggestion and a recorded key never change.
- `StockIsExact`: each line is in one product, once, or in none; units and, without
  a person's confirmation, suppliers are not mixed.
- `SuggestionsResolved`, `StocksStayIsolated`, `AuditFollowsStock`.
- `ContractImplemented`: `GoodsReceiving` implements `ReceivingContract`.

`InvoiceAllOrNothing` is not inductive alone: a commit must know that its plan is
complete (`UploadPhases`), that its key is still free although the check was made in
an earlier step (`KeysExclusive`), and that nobody recorded a document of its own
under it (`KeysOwned`). `DecisionsFinal` needs that a claimed suggestion is still
pending and claimed by nobody else (`ClaimsExclusive`).

`StockExact` speaks of committed rows, and a commit makes them of private ones. So
`CommittedInv` says what each committed row holds of each line, and `OpenInv` what an
open transaction has added to the row it locked (`InvoiceWrites`, `DecisionWrites`):
one more entry of each line it has come to, under the same identifier, unit and
origin. Since nobody else can have locked the row, its committed count is still the
one that was incremented. `SuggestedExist` and `PlansResolve` say that a product
named by a suggestion, or about to be named by one, exists or is created by the same
transaction: rows are never removed, and a loser of the race for a code names the
winner's. `AuditedSettled` says that lines audited are committed and entered.

A step of the implementation maps to at most one step of the contract: `CommitInvoice`
to `Receive`, a confirming or rejecting `CommitDecision` to `Enter`, all others to a
stutter. `StagesKnown` says that whether a line is out, pending or in can be told from
keys and suggestions alone (a line in the stock is a settled one, by `StockInv`), so
that a step that changes neither is a stutter, and a commit changes the stages of its
own lines only.

### AI budget

`GeminiAttemptsProofs` holds for any users and days, any finite set of calls and any
limits `createEnv` accepts, whether the caps are enforced or not. That calls are
finite is needed to count them.

- `BudgetKept`: `BudgetInv`, with `CapsHold`: no scope is charged past its cap.
- `ReservationsAccounted`: `ReservationsMatchAttempts`.
- `BudgetImplemented`: `GeminiAttempts` implements `AiBudget`.
- `ReportsAreExplained`: `ReportsExplained`.

`BudgetInv` is inductive. `CapsHold` alone is not: a reservation finds room in the
global row by one statement and in the user's by the next, and commits both after.
`LocksExclusive` says that a call between the two statements of a reservation or of
a reconciliation holds the global row of its day, alone, and that there is room in it
still for a reservation. `AttemptsCounted` keeps the number of
attempts within its limit. `ReservationsMatchAttempts` follows by counting the
attempts that are open under a row: each step that opens or closes one changes the
row by one, unless a statement failed or the process died. The commit of a reservation
maps to `Charge`, which charges user and total together; the request it allows is
sent in the same step or, if the answer to COMMIT is lost, never.

`ReportsAreExplained` compares two counts that different code has kept: the requests
charged to a row, and the sum of the attempts that the telemetry rows of a day tell.
`ChargesExact` says that a row without a failure is charged with exactly the requests
sent under it, `Counted` that a call has told, or is about to tell, as many attempts as
it has sent requests, or one more if the last was refused, and `Told` takes the first
to the second for the calls of one day and one scope. That the report's sum over the
rows is the number of their attempts is proved of the fold it is: each row is as many
units as it has attempts, and the least set of rows (in the order of inclusion) whose
sum were not its number of units would have a row to be taken away. An earlier form of
the property held on two days and was refuted on a third, when the proof had failed
for a call charged before the day reported and recorded in it; `Straddles` now says
both.

### Demonstration sessions

`DemoSessionsProofs` holds for any commands, owners and identities and any number of
attempts. Assumed are that an identity is drawn from eight bytes, as `randomBytes`
gives them, and that "no CNPJ" is none.

- `DemoInvariant`: `DemoInv`; `RestartsAgree`: `RestartIdempotent`.
- `UnavailableExplained`: losing a race is no reason to give up.
- `ActiveSessionStays`: the action property `ActiveStays`.

`DemoInv` has one conjunct per command, `CommandInv`, which says where the command
stands and what its transaction holds. What one command does leaves the conjunct of
another alone as long as its index entries are its own: `ClaimsExclusive`, and a
lemma about the frame, carry that. The interesting step is COMMIT, the only one to
change sessions: the entries it holds are fresh, so the new session is the only
active one of its owner, ends its chain, and shares no identity. That the CNPJ made of
any eight bytes has valid check digits is proved too (`SyntheticValid`): the two
digits are those the check computes, and a branch 0001 is no repeated digit.

### Accounts and the browser tab

`AccountsProofs` holds for any e-mails, passwords and requests, from
`AccountsAssumption` (`Absent` is no row, accounts start at version 1) and
`TabAssumption` (`Absent` is no request).

- `AccountsInvariant`: `AccountsInv`, checked by `account_races`.
- `NoStaleAdmission`: the action property `AdmittedOnCurrentPassword`.
- `AccountsSafe`: `RegisteredOnce` and `ChangedByVerified`.
- `ChangesCounted`: `VersionsNameChanges`, by cardinality.
- `DeadTokensGone`: `DeadNotPresented`; `SignOutHasCause`: `SignedOutForCause`.

The argument is one relation, `Vouches(e, version, hash)`: the account is there,
the version is not newer than its own, and if they are equal the hash is its
own. Every write of the table keeps it (`VouchesStay`: a registration only fills
an absent row, an update moves the version past whatever was read). A login
establishes it by reading hash and version together, hence its token carries it
(`TokensVouched`), and a request admitted with the current version holds the
current password. The same relation on the row a password change has read gives
that the version it writes is later than the one it verified.

Each update moves the version on by one and is the only one to write it, so the
changes of an account are in one-to-one correspondence with its versions after the
first. `TabInv` adds to `AccountsInv` what the tab knows of its requests: an answer is
that of the request it was sent for, and a token was given by a login (`AnswersSay`,
`MailKept`, `TokenGiven`, `FormWaits`). `Onward` collects what no client takes
back, so that a step of any other client need be looked at once only.

### Server lifecycle

`ServerProofs` holds for any sets of requests and checks and any time
to live greater than 0 (`LifecycleAssumption`).

- `LifecycleInvariant`: the inductive invariant `LifecycleInv`.
- `ExitCodeTold`: `ExitCodeTells`; `ShutdownSafe`: `DatabaseClosedLast`.
- `HealthFresh`: the action property `HealthyAnswersFresh`.

Four parts are added to the properties. `CodeSoFar` is `ExitCodeTells` from the
start of the shutdown on. `ClosedInOrder` says that nobody is connected once the
database is being closed: only then is a refused request known to be gone.
`CacheDated` ties the time left in the cache to the last success. The exit itself
is stable because no handler runs after it.

### HTTP layer

`ServerProofs` also holds for any requests, users, addresses, forged headers, limits
and deployments. Assumed is `Placed`: the proxies in front of a server that starts
are those its settings declare, as the runbook demands; otherwise no code could know.

- `AddressTold`: whatever `X-Forwarded-For` says, `request.ip` is where the client is.
- `WayInvariant`: the inductive invariant `WayInv`.
- `FilesAccountedFor`: `HttpInv`; `LimitsAreHeld`: `LimitsHold`; `AnswersTold`:
  `AnswersTell`.

The address is a fact about sequences: a proxy appends, so however long the header
the client made up, the entries that are trusted are the last, and the next is the
client's. That a server that trusts by place is behind the platform's edge is proved
from `createEnv`, which accepts `render-cloudflare` only where `RENDER` is true.

`WayInv` says of each request what may still come on its way (`WellOrdered`: the
stages that touch a file come after the user is known, and nothing follows the
answer), by what it is counted (`Told`), where its file is (`Kept`) and what it has
been answered (`Answered`). `Counted` says that a limiter has let through no more
than its store has counted, from which `LimitsHold` follows with `AddressTold`: one
person has one key.

### Amounts and their audit

`StockAmountsProofs` holds for any uploads and decisions, any invoices with at least
one line, and any amounts. Assumed is that `Absent` and `Null` are no rows.

- `FiguresInvariant`: the inductive invariant `FiguresInv`.
- `AmountsAreKept`: `AmountsInv`; `AuditIsTrue`: `AuditTells`.

What a row is worth depends on all entries before it, so `StatesInv` says that the row
is the last of `states` and stands, by the books, where as many entries leave it
(`Standing`). One entry keeps this: a ROUND moves a figure by half a grain at most
(`RoundNear`, `MeanNear`); a mean of q + Q units is therefore off by half a cent for
each of them, on top of what it was off before (`Drift`). That the columns of a line
are worth what the invoice declares follows from the check per item
(`LineCoherent`), and stays true of the rounded figures of a suggestion
(`ReceivedCoherent`). `Column` rounds away up to half a grain, so the tolerance of
danfe-coherence.ts and the two roundings add up to `Allowance`.

`Results` and `Booked` are recursive functions over the lines of an invoice. TLA+
defines such a function by CHOOSE, so that nothing is known of it until a function of
that equation is shown to exist. `Iteration` does so: of the numbers of steps for
which there were none, a least one (`Least`, from well-foundedness) would be one step
beyond a number with one. `ResultsChain` and `BookedChain` then give the rows and sums
line by line, and `TransactionStands` follows the same way. A transaction with a
`Null` among its rows fails as a whole, and is not committed.

For the audit, `ProcessInv` says of a process after how many entries (`seenAt`) it has
read the figures it will give as those before, and where (`base`) its own entries
begin; an entry only appends to `states`, so that what was found after so many entries
stays (`FoundStays`), whatever is committed meanwhile.

### Companies and listings

`CompaniesProofs` holds for any users, CNPJs, creations, clients, page sizes and
identifiers. Assumed is that the rows there at the beginning are as the constraints
of the schema have them.

- `StoreInvariant`: the inductive invariant `StoreInv`.
- `CompaniesSafe`: `CompaniesInv`; `ListedOnceAlways`: `ListedOnce`.

`Good` says what each creation has inserted or made, and, while its transaction is
open with an entry of a CNPJ, that no committed company has it. `EntriesApart`, that
no two open transactions have entries of one CNPJ, keeps this so when another
commits. `Walked` says how far a client has come: each row that was to be shown when
it began has been shown or comes behind the cursor in the order of the listing. That
order is one of committed rows that neither move nor go, so a row committed
meanwhile, on either side of the cursor, takes no other's place; a page is what comes
next in it, and what it leaves comes behind its last row (`PageKeeps`).

### Journey

`JourneyProofs` holds for any set of tasks and any bounds of at least one session and
one change (`JourneyAssumption`).

- `ExclusionInvariant`: the inductive invariant `ExclusionInv`.
- `OneOperation`: `OneMutation`; `NeverBlocked`: `Unblocked`.
- `OwnWritesAreShown`: `OwnWritesShown`.

`OneMutation` is not inductive: what keeps a second operation out is the reference,
and not the buttons, which a failure gives back too early. `FlightTold` says that the
reference is set exactly while an operation runs, and that busy buttons have a
running procedure behind them. `Named` gives the types: whoever asks for lists
names a session.

`OwnWritesShown` needs more (`WritesInv`): as long as nothing excuses the page, one
procedure at most is running (`Calm`), and `Expects` says, for each await of each
procedure, which of its answers are at least as new as what the page has done. So
whichever way the procedure ends, its lists show that or are read once more. TLC has
checked `WritesInv` on the instance of `journey_races`.

## 5. Only model-checked

- All liveness (`RequestsEnd`, `CommandsEnd`, `CallsEnd` and the like): the proof
  system does not do liveness under fairness.
- What a recursive function computes of given data, such as the check digits of a CNPJ:
  the theorems on companies use that normal forms are equal or not, and not how the
  digits come about. Where a theorem does depend on such a function (`Results` and the
  sums of `Booked`), what it computes is proved line by line.

All safety invariants and action properties of the passing runs, and both refinements,
are theorems.

## 6. What the models show beside their properties

States the models reach, which no document of the repository forbids or which a
document describes otherwise:

- Audit rows are written after the commit, best effort: that one may be lost is in
  the models, though README.md:33 of the repository says everything is audited;
  docs/backlog-engenharia.md:290 records the choice. No property forbids it; what is
  checked is that the rows there are tell of committed entries.
- A registration or a password change whose last answer from the database is lost is
  reported as failed and has taken place.
- A change of password is audited with the version of the row it read before
  hashing, while `updatePassword` increments the version the row has by then: of two
  overlapping changes both name the previous version 1, with new versions 2 and 3,
  where docs/pilot-readiness-roadmap.md:811 says "anterior e novo". For the same
  reason the refusal of a new password equal to the current one (line 826) holds
  only of changes that do not overlap.
- An entry of stock is audited with the state its request read before the AI calls. Of
  overlapping uploads, or of a confirmation, the figures before may be those of an
  earlier state. An invoice that creates a code and repeats it is audited, from its
  first line on, as an update of its own planned figures, where
  `audit-events.ts:84` says that no state before means a new product. `AuditTells`
  says what is left: the state after is always right, the state before if nothing
  was committed between reading and entry.
- A quantity below half the column's grain leaves a product of quantity zero. A second
  such entry divides by `NULLIF(0, 0)`, and the invoice fails as a whole.
- A pending suggestion whose unit differs from the suggested product, and whose code
  another invoice has occupied, can be neither confirmed nor rejected.
- A failure of the database during authentication is answered with 401, not 500, and
  the tab leaves for the sign-in page. So it does when a request without a token,
  sent after the user has left, is refused, or when the refusal of an earlier
  token arrives after the next login.
- A body that is no JSON is answered with 500, and so is an upload whose refusal could
  not remove the temporary file.
- A call that straddles midnight is charged to the day before and recorded in the day
  after: the report of either day may call that an anomaly, which the header of the
  script does not name among the expected divergences; and what the header always
  calls a leak (lines 21 to 23) may be the open reservation of a call that still runs.
- `synthetic-cnpj.ts` moves a repeated root on lest the CNPJ be refused; with its
  branch 0001 it would not be.

## 7. Not modelled, and why

- Prompts, response schemas and the parsing of what the provider answers: an answer is
  any document of a small set, any candidate, or a failure.
- Tokens and cost of AI calls: they are added up like requests and decide nothing.
  That their sum overflows a column is one of the failures of a reconciliation.
- Which bodies are valid (zod): each schema is passed or refused. The request id, the
  security headers and the CORS answers, which the browser of another origin acts
  upon; the list of origins is parsed in `Environment` and used by nothing else there.
- Drawing a PDF, mappers, wording and layout of pages, logging.
- The in-memory repositories and the fake backend, which only tests use.
- The scripts that people run by hand: `purge-ai-call-events` (one DELETE by age),
  `postgres-integration`, `rehearse-release`, `smoke-demo` (clients of the API whose
  steps are those of `Accounts`, `DemoSessions` and `GoodsReceiving`, one at a time)
  and `check-cloudflare-ips`. The reconciliation script is modelled.
- That `ipKeyGenerator` gives the IPv6 addresses of one network one key: the model
  counts each address by itself, and the code admits less than that, never more. That
  `/version` is missing where the release is not told: in the model it is there.
- Proxies declared otherwise than they are placed: the placements of
  `MCHttpRequests` are those `TRUST_PROXY_HOPS` or the mode is right about.

`components` in `PROJECT.json` lists every part with its status.

## 8. Plan

Done: goods receiving with its contract; the AI ledger, its calls and the report;
demonstration sessions and documents; authentication and the tab; server lifecycle
and health probe; the web journey; companies and listings; configuration, HTTP layer,
limiters and temporary files; amounts and their audit. All safety properties the runs
check are theorems, and so are both refinements.

Left: shorter proofs where a lemma serves several steps (`GoodsReceivingProofs` above
all).
