# A verification model of callgent-api

callgent-api is a NestJS server. A *callgent* is a collection of service
endpoints reached through *entries* (REST API, e-mail, web page). A client sends
a request to a client entry; the server turns it into an event, walks the event
through a chain of listeners, lets a language model map the request to service
endpoints, and calls these, directly or from a generated script. Endpoints,
authorisation, users and other callgents may answer immediately or by a later
callback, so almost every operation can be suspended in the database and
resumed by another HTTP request, in another database transaction, and perhaps
after a restart.

Source paths below are relative to `src/` of the repository unless they begin
with `prisma/`. `PROJECT.json` names the source lines of every definition.

## 1. The components

| Component | State | Operations | Interacts with |
|---|---|---|---|
| **event bus** (`event-listeners`, `event-stores`) | `EventStore` rows (status code, listener, method to resume, stop flag, context), `EventListener` rows; locals of the runs of `_invokeListeners` | `emit`, `resume`, `addListener`, `removeListener`, `upsertEvent` | calls the services named by the listener rows; is called by every entry and callback |
| **endpoint invocation chain** (`invoke/chain`, `invoke-sep.service`) | `context.invocations` of the event: processor name and context, pending data | seven processors: auth, cached, invoke, postprocess, cache, callback postprocess, callback | a listener of the event bus; realms, response cache, entry adaptors |
| **response cache** (`cached`) | `Cached` rows: response or promise, source event, observers | `fromCached`, `toCache`, `updateCache`, `addObserver`, `notifyObservers` | the chain; resumes observers through the event bus |
| **script runner** (`invoke.service`, `invoke.subprocess`, `script-runner.service`, `pipe-client`) | child process, named pipes, map of pending replies, checkpoint files | `runAndFix`, `callback`, spawn, freeze, restore | the chain (one call per command of the script); the generated script |
| **agents and LLM** (`agents`) | `LlmCache`, `LlmTemplate` rows; templates in memory | `query`, `chat`, mapping of a request to endpoints with confirmation rounds, script generation | completion API, billing events |
| **billing and transactions** | `Tenant.balance`, `Transaction` rows | webhook of the payment provider, `addRecharge`, `addModelExpense`, `check` | LLM completion events, payment provider |
| **callgent realms** | `CallgentRealm` rows, realm and pending auth in the event context | `checkCenAuth`, `checkSepAuth`, `_checkSecurity`, validation and its callbacks | auth processors, first listener of a request and first processor of the chain |
| **auth tokens** | `AuthToken` rows | issue, verify, revoke | users, e-mail validation |
| **entries, endpoints, callgents** | trees of rows with summaries | create, import, update, delete; asynchronous listeners that recompute summaries one second later | LLM, event emitter |
| **entry adaptors** (REST, e-mail, web page) | none, relay addresses | `preprocess`, `invoke`, `postprocess`, `callback` | event bus, e-mails |
| **callgent hub** | copies of trees in the hub tenant | fork, commit | repository and tenancy |
| **users, login** | users, identities, tenants | register, login, validate e-mail, set password | auth tokens, `$getTenant` in billing |
| **emails** | relay addresses | send, receive relayed mail | resumes events |
| **repository, tenancy** | tenant id and bypass flag of the request | query rewriting: tenant filter, soft delete | everything that touches rows |
| files, health, bff, REST envelope, libraries, bootstrap, schema | none of their own | pure I/O, read-only views, helpers, wiring | |

### Behaviours that are hard, and what must hold

* **Races on a stored event.** `resume()` reads the row, checks that it is
  pending, and writes it only when its run has ended. A relayed mail delivered
  twice starts two runs. What must hold: rows are only written by runs that
  found the event new or pending; a settled event is never changed; whatever
  raced, a pending row names a listener and a method of that listener; nobody
  is told a result that the row contradicts; an event is "done" only when all
  its listeners have worked.
* **A list that changes under the loop.** Listeners are registered and
  soft-deleted while events are suspended; the resumed list is read again.
* **Timeouts.** `emit(data, timeout)` answers the caller while its run goes on.
* **Lost work.** Every run works in one transaction of its own: a database
  error, a transaction timeout or a restart takes all of it away, while calls,
  timers and promises that were started from it stay started.
* **Promises in the cache.** A request that finds the promise of another one
  becomes its observer. Rows are read, waited for (row lock of a concurrent
  transaction) and written, and may have been replaced in between.
* **Money.** The provider delivers its webhook at least once; completions are
  checked before and booked after the call, by an event handler nobody awaits.
* **Retries around an unreliable generator.** Each attempt is checked and paid
  for; only validated text may be returned or cached; the loop must end.
* **A child process frozen between calls.** A generated script is dumped and
  killed when an endpoint it calls will answer later; commands, results, exits
  and failing dumps race each other. A pending event must name an invocation whose
  endpoint has taken the call, and nothing but a script that ended may supply the
  data of a request.
* **Trees edited from what was read before.** Imports, securities and copies
  read in one transaction and write in another, and a copy changes the tenant
  of the request six times; an update of an endpoint stores its columns as the
  request gives them. Nothing may end up in another tenant; but for an endpoint so
  updated, nothing may refer to a realm of another callgent, and only a stale
  request may leave something dangling.
* **Accounts.** Requests race for the tenant of a host, for unique keys and for
  one-time tokens, some of them in transactions that fail later.
* **Replies by mail.** A mail leaves before the event that waits for its reply
  is committed; the relay hands a reply on without storing it. What a client was
  told must agree with the event whatever timed out or came in since.
* **Summaries computed from rows read before others changed them** are the one
  behaviour of this kind that is not modelled yet.

`PROJECT.json` lists these as hazards, each at its line.

## 2. Modules

| Module | Models | Builds on |
|---|---|---|
| `EventContract` | abstract specification: what the bus promises of one stored event | |
| `EventDispatch` | `EventListenersService`, `EventStoresService.upsertEvent` | implements `EventContract` |
| `EventDispatchProofs` | theorems about `EventDispatch` | |
| `SepInvoke` | processor chain of a direct invocation and `CachedService` | its events have a row, its runs a transaction each, several of them perhaps one event; implements `EventContract` |
| `SepInvokeProofs` | theorems about `SepInvoke`, among them the refinement | |
| `Billing` | `BillingService`, `TransactionsService`, the billing listener | |
| `BillingProofs` | theorems about `Billing` | |
| `LlmQuery` | `LLMService.query()` and `chat()` | composed with `Billing`, and shown to implement it |
| `ScriptAgent` | `ScriptAgentService._map2Endpoints()` | each of its stages is a `chat()` of `LlmQuery` |
| `LlmProofs` | theorems about `LlmQuery`, among them that it implements `Billing`, and about `ScriptAgent` | |
| `TaskPipe` | `InvokeService`, `InvokeSubprocess`, `ScriptRunnerService` and the script's `pipe-client.ts` and `index.ts` | a command goes through the chain of `SepInvoke`, taken as one step |
| `TaskPipeProofs` | theorems about `TaskPipe` | |
| `CallgentTree` | the services of callgents, entries, endpoints and realms, and `CallgentHubService` | |
| `CallgentTreeProofs` | theorems about `CallgentTree` | |
| `Accounts` | `UsersService`, `AuthTokensService` and the controllers that use them | |
| `AccountsProofs` | theorems about `Accounts` | |
| `ClientRequest` | entry controllers, the listeners of a client request, security checks, stored mappings, adaptors' calls, mail relay | implements `EventContract`; `SepInvoke`, `ScriptAgent` and `TaskPipe` reduced to their outcomes |
| `ClientRequestProofs` | theorems about `ClientRequest`, among them the refinement | |
| `MC*` | finite instances for TLC | |

Definitions named as *faulty* in a comment are variants of the definition that
follows them, each with a plausible mistake in it. No specification uses them:
they are there to see that each property notices the mistake it is meant for.

### EventDispatch

State: the committed `EventStore` rows (`store`), the state of the listener
rows (`listener`: not registered, live, soft-deleted), the locals of the runs
of `_invokeListeners` (`run`: the rest of the list, `funName`, `nextListener`,
status code, stop flag), and what the caller of `emit()` has got (`answer`).
Two history variables record the listeners an event was emitted to and those
whose work for it is committed.

| Action | Code |
|---|---|
| `Emit`, `EmitRefused` | `emit()`, `loadListeners()` finding none |
| `Admit`, `LoadRest` | `resume()`: the status check; the list read afterwards |
| `ListenerDone`, `ListenerPends`, `ListenerThrows`, `StopsAtHead` | one turn of the loop and its four exits |
| `Commit` | the `finally` block with `upsertEvent()`, and the commit of the run's transaction |
| `Reply`, `SyncTimeout` | `_invokeCallback()` and `Promise.race` of `emit()` |
| `Abort`, `Restart` | a rolled-back transaction; the end of the process |
| `AddListener`, `RemoveListener` | the same operations |

A call of a listener is one step that either returns nothing, returns the name
of a method to resume with, or throws, and that may set `stopPropagation` if
it is one of `Stoppers`. `funName` is represented by the listener whose service
has the method: a method name handed to another listener's service is not
callable, and that is an error. Listeners of equal priority come in an order
the database does not determine.

### SepInvoke

Several requests for one endpoint and one cache key. State: the committed cache
row and, while a transaction has written it, its draft and its writer (the row
lock); the events as stored; the runs of the chain in memory (`Runs` are their
slots, `EventOf` says which event each works on, `pc` is the processor to run
next, or the write being waited for); the `resume()` calls `notifyObservers()`
has started. `resume()` asks only whether the committed event is pending: a second
callback of an event, or a notification, starts a run beside the one at work
(`ResumeCallback`, `Notify`), each with its own copy of the event, and the last of
them to commit overwrites it. The history variable `raced` holds the events this
has happened to. `endpoint` is any combination of asynchronous
or not, with or without a TTL and a cache key. Responses are named after the
request that obtained them, so "which data" is visible to the properties.

One action per processor, split where another transaction can come in between:
`FromCached` reads, `DropExpired` and `AddObserver` write what was read, and
fail when the row is gone; `InvokeCallback` reads the observers, `UpdateCache`
writes and starts the notifications. The tri-state result of a processor
(continue, break, break at the same processor, end) is where the event's stored
processor comes from: `at`. `SaveConflicts` is the unique constraint on the
cache key. The check and the postprocessing of an adaptor may always fail.

### Billing

State: the balance of a tenant, the transaction ids in the ledger, the sessions
at the payment provider, what became of each completion, and the handlers at
work. `Insert`, `Increment` and `Commit` are the two writes and the commit of
`TransactionsService.create()`: a second insert of a transaction id waits for
the first to end and then fails, the increment locks the tenant's row. `Deliver`
may happen again at any time after payment. `Check`, `Answer`, `StartExpense`
and `RefuseExpense` are the two events of a completion. Amounts are positive
integers given by constants; the price function of a model is data.

### LlmQuery

State: for each call its place in the retry loop, the number of the attempt,
the text it holds (named after the attempt that got it), the validation result,
the cache row it has written but not committed; and the committed cache rows.
An attempt is a completion of `Billing`, instantiated with the attempts for
`Completions`. `Ask`, `CheckFails`, `Answered`, `Unanswered` are `_completion()`;
`Valid`, `Refused`, `DoesNotParse` are the parsing and validating of its text.
Calls are considered that have one prompt in common, which is what makes them
meet in the cache; `LLM_CACHE_ENABLE` is on.

### ScriptAgent

State: the stage the conversation with the model has reached, the messages
(by who says them, and whether it is the client's request, an earlier one or
the instruction to refactor), the purposes of the two choosing rounds, the
confirmed list, and the hints on arguments. One action per stage, with the
answers that pass its validation; `ChatThrows` is a stage without one. A purpose
is given an endpoint or none, and then may need an external API; a hint is
reduced to the six facts the code asks of it. The model may list a purpose
twice when it confirms: which item `find()` meets is left open.

### TaskPipe

State: the stored event, `context.invocations`, the locals of
`_spawnOrRestoreSubprocess()` (`server`), the subprocess (`child`), the lines on
the pipe in both directions, the commands being handled, the endpoints that will
call back, and the callbacks that were refused. The process the server spawns is
npx; tsx and the script are below it and taken together: `child.npx` and
`child.script` live and die separately, since `kill -9` of `child.pid` reaches npx
only, while a dump that is done ends the whole tree. A dump (`Dump`) is done, has
failed, or has failed in a way the code takes for success ("unseen").

The run is `RunAndFix`; the script's steps are `Connect`, `SendCommand`,
`TakeReply`, `FinishWithResult`, `FinishEmpty`, `FinishWithError`, `Exit`, and `Die`
at any time before its end; `NpxExit` is the end of npx after that of its script.
The server's are `SpawnResolved`, `SpawnFails`, `ReadLine`, `InvokeReturns`,
`InvokeThrows`, `InvokePends` (which freezes and kills), `EmitExit`, `Return` and
`Save`. A script below a dead npx goes on, and the server goes on handling what it
sends: the connection outlives the server that accepted it.

The id of a command, which the two ends split and join differently, is modelled
as the pair it is. The key a called endpoint answers under is a different matter
and modelled by its characters that count: `InvokeKey` joins the code of the
command and the id of the event with a dash, the code begins with a dash of its
own, and `ParsedEventId` cuts at the first one. So `Admitted` is never true: every
callback of a command (`CallbackArrives`) is refused, the event has one run, and
the restoring of a script, which only a callback could start, is not modelled. The
loop that repairs a failing script is absent because `fixScriptError()` always
answers no. Not in this module: restarts of the server with a script left behind,
heartbeat and reconnection. That a script which awaits nothing comes to its end is
assumed of the generated code, as a fairness.

### CallgentTree

State: the tables of callgents, entries, endpoints and realms (primary keys are
positions, soft deletion is the column `live`), and the request each
administrator has in flight with what it has read. A request that reads and
writes in separate transactions, or through a validator, is two actions
(`CheckCallgent` and `CreateEntry`, `CheckEntry` and `CreateBatch`, `CheckEdit` and
`UpdateEndpoint`, `ReadRealm` and
`UpdateRealm`, `ReadEntrySecurities` or `ReadEndpointSecurities` and
`WriteSecurities`), the copy to or from the hub is three (`CopyRead`,
`CopyReadRealms`, `CopyWrite`: its statements read at different times). The tenant
of each statement is written out (`FromTenant` for reads, `w.to` for writes).
Names, texts, secrets and whether a realm is enabled are left out; a request that
only a text can make fail is `Fail`.

`UpdateEndpoint` is `PUT /endpoints/:id`. It stores any of the columns `callgentId`,
`entryId` and `securities` as the request names them: the first two were looked up
by the validators of the DTO, each for itself and with the empty string let
through (0 in the model), and securities not at all. The DTO is generated from
`prisma/schema.prisma`, where the annotation that would make these columns read-only
is commented out; the model follows the schema. An update may name any realm with a
primary key up to `MaxRealms`, existing or not, each in an alternative of its own,
since how realms are grouped makes no difference to what is referred to. The field
`edited` of an endpoint is history: the properties need it to tell the endpoints an
update has touched from the others.

### Accounts

State: the rows of tenants, users, identities and mailed tokens, and a request
in flight per client with its writes until it commits. `Find`,
`RegisterTenant`, `CheckPassword`, `VerifyToken`, `LocateExisting`, `LocateAbsent`
and `Update` are the reads of the services in their order; `CommitNew` and
`CommitFound` write, `CommitFails` is a unique key taken, or a token deleted, in
the meantime. `rowSecurity` says whether the role of the connection obeys the row
level security of the migration, under which rows are hidden from a request
without a tenant. Guards and the signing of a JWT are left out.

### ClientRequest

State: what each client asked for and was answered (the status `http`), the
locals of its run (the listener it is in, the alternatives left to check, the outcome), the
committed event rows, the stored mapping with the draft of the run that holds
its row lock, the realms that are enabled, the mails sent, and the replies being
handled. `setup` is one of a few callgents: unguarded, guarded at the client
entry, the endpoint or its entry, called by HTTP or by mail, with or without
parameters to map. Listeners come in the order of `prisma/seed.ts`:
`PreprocessClientRequest`, the checks (`CheckSecurity` takes one alternative),
`LoadEndpoints`, `GenWebpages`, `Map2Endpoints`, `Map2Endpoint` and `StoreMapping`,
then a call or a script; `Commit` stores the row and `Reply` answers. `SyncTimeout`
answers before that, `Abort` rolls the run back, `Restart` ends everything.

An outcome that is an error carries the error's own status (`code`), which is what
the row stores and what the client is answered with: 401 and 404 of the code's own
exceptions, and any of `Statuses` of a called service, a model or a payment check
(`Thrown`). An error without a status is -1, and 418 (`AnswerOf`). A 404 can
therefore mean a request that never became an event, or an event with that error;
a 500 that the entry itself breaks (`Breaks`), or again an error of the event.

`HandleRelayEmail`, `Resume`, `RunAndFixCallback` are a mailed reply; `ResumeThrows`
and `HandlerAborts` are ones that come to nothing, `missed` remembers why the last
one did. `Found` says whether the key of the reply leads to the event: that of a
direct call does, that of a command of a script never does, for the reason given
under TaskPipe. Realms that no check of the setup reads (`Guarding`) are left alone.
Two handlers of one reply at a time are the subject of `EventDispatch` and
`SepInvoke`.

## 3. Runs

| Run | Question | Instance, and why it is enough |
|---|---|---|
| `dispatch` | do row, answer, resumed listener and listener chain stay consistent? | one event, two runs, three listeners: two of one priority, one of them registered at run time, one that may stop the event. Rows of different events share nothing but the listeners; two runs are what a race needs |
| `dispatch_contract` | is every step one `EventContract` allows, and is every caller of `emit()` answered? | two events sharing two run slots, one listener that may stop the event; fairness |
| `sep` | do cache row and events agree, is the endpoint called once and only when checked, is every step one `EventContract` allows, and does every run end? | two requests that take every part of a pair (source and observer, source and the one that renews its row, two writers that wait for each other's lock), each with two run slots, so that two callbacks of either run side by side beside a run of the other, restarts, and five kinds of endpoint: synchronous or not, with or without TTL and key (without a key a TTL makes no difference). A third request would add a second observer, or one of a renewed row; the safety properties of this run are proved for any number |
| `sep_observers` (violated) | is every observer informed? | two requests on a promise, no restarts |
| `billing` | do balance, ledger, provider and completions agree, and is a paid session credited? | two sessions, two completions, three handlers: two deliveries of one session and another writer |
| `llm` | is an answer the call's own, the cache valid, every attempt billed as `Billing` says, and does a call end? | two calls with a schema, each a query or a chat, two attempts each (the code makes three: two are enough for a first, a repeated and a last one), balance for two completions, so that a third is refused once they are booked |
| `agent` | whatever the model answers, is the conversation clean and is each doubtful argument asked about again? | three endpoints, two purposes (one with and one without a choice), one argument with seven hints, histories of up to two events; endpoints and purposes are interchangeable |
| `pipe` | does a pending event name a call that was taken, with npx gone, is data that of a script that ended, and does every run end unless stuck? | the run of one event and three commands: two handled at once, one of which freezes the script, and one more; events share no process, so one is enough; fairness |
| `pipe_reply` (violated) | does a script go on when its command is answered? | as `pipe`, one command |
| `tree` | do tenants, securities and deletions stay consistent under concurrent edits and copies? | two administrators of one tenant and the hub, six requests, three callgents (an original, its copy, and one more), six entries, two endpoints, two realms, two keys; administrators and keys are interchangeable; `MaxRequests` is what ends the exploration |
| `accounts` | is a token used once, nothing half registered, a password changed only by its reset? | two clients, five requests, one address and one OAuth user of one host, two passwords |
| `requests` | does what a client was told agree with the event, is a pending mail still owed, and is every step one `EventContract` allows? | two requests of five kinds, four callgents, two realms that are toggled at any time, two replies per mail, and one status (500, which the entry's own failures share) beside the code's 401 and 404 |

Runs say `CHECK_DEADLOCK FALSE`: the systems really stop, when no client sends
a request any more and no callback arrives. Symmetry is used only where no
liveness property is checked. The runs `dispatch`, `billing`, `requests`, `pipe`,
`accounts`, `sep`, `llm` and `tree` check the inductive invariant `IInv` of their
module, and `agent` checks `AgentIInv`; it has the type invariant as a part and
is what the proofs rest on. `ObserversAreStored` is checked as a part of the
`IInv` of `SepInvoke`; `BookedOnce`, the step of which `BalanceIsLedger` is the sum,
is proved and not checked beside it.

### Fairness

* `EventDispatch`: weak fairness of each run's next step. Node runs every
  continuation that is ready, and a listener call settles. Callbacks, sync
  timeouts, aborts and restarts are never required to happen.
* `SepInvoke`: strong fairness of each run's next step, because a run waiting
  for a row lock is enabled and disabled by the transactions of others and
  PostgreSQL serves lock waiters in turn. Started `resume()` calls go on.
* `Billing`: handlers go on; the provider repeats the delivery of a session
  that is not acknowledged; and the database does not abort *every* delivery
  (strong fairness of the three steps of the handlers of one session).
* `TaskPipe`: the processes of the script and the server run, the pipe delivers,
  and the handling of a command settles. A script that awaits nothing ends in time;
  which commands it sends, whether it dies, that a callback comes, or that a run
  succeeds, is not assumed.
* `LlmQuery`: a call goes on, and the completion API answers or fails.

### What the violated runs show

1. `ObserversInformed`: an observer whose key is pushed after
   `updateCache()` has read the keys is never resumed.
2. `ScriptGoesOn`: the reply to a command carries its code without the execution
   id, so the pipe client never takes it for the answer it awaits.

The models contain more disagreements that no run is spent on, each of them
visible in the definition named:

* a listener soft-deleted while an event is suspended in it is filtered out of
  the resumed list, and its method name is tried on the next one
  (`EventDispatch.ResumeLists`, `Callable`), against `prisma/schema.prisma`:550;
* a direct request answered by callback stores its response and is marked as
  failed (`SepInvoke.CallbackDone`);
* a query with a schema that hits the LLM cache parses the empty string instead
  of the cached text (`LlmQuery.Begin`, `DoesNotParse`);
* when no purpose has two candidates, the agent pops the client's message
  instead of an answer, and the next `chat()` throws (`ScriptAgent.NothingToOpt`);
* a callgent forked from the hub can be committed to it again, because the
  refusal looks at a column that was not selected (`CallgentTree.CopyRead`);
* confirming an address never sets `email_verified`: the update at
  `users/users.service.ts`:315 is not awaited, and a Prisma promise that nobody
  awaits is not sent (`Accounts.AfterConfirm`); with row level security on, a
  password reset always fails, its reads finding nothing (`RowVisible`);
* the key a script's command is answered under is `-1-<eventId>` and is cut at its
  first dash, so `resume()` (`event-listeners.service.ts`:67 "resume pending event,
  from external callback") looks for an event `1-<eventId>` and answers NotFound: no
  event that a script left pending is ever resumed (`TaskPipe.Admitted`,
  `ClientRequest.Found`);
* a criu that cannot even be started, or dies of a signal, has the status null,
  which passes for success, and the kill reaches npx but not the script below it,
  against `invoke/invoke.subprocess.ts`:149-151 ("frozen process is killed", "Error
  if criu exit code is not 0"): the event is stored as pending while its script goes
  on (`TaskPipe.InvokePends`, `Frozen`);
* a request that times out is answered 500 by the REST entry, which documents 202
  (`entries/adaptors/builtin/restapi/restapi.controller.ts`:208-211), since the copy
  of the event that `emit()` resolves to lacks the context
  (`ClientRequest.TimeoutAnswer`);
* an update binds an endpoint to any entry that exists, although
  `prisma/schema.prisma`:332 says "An endpoint is bound to a server entry" and an
  import refuses any other (`CallgentTree.CheckEdit`, `UpdateEndpoint`);
* a done event with a callback resolves to undefined and the result of a script
  has no status, and the REST entry answers both with 500 (`AnswerOf`); a page asked
  for by its name always fails (`GenWebpages`);
* a guarded client entry lets no request in: the check suspends, and nothing
  calls it back, or throws (`CheckSecurity`); the securities of an endpoint
  replace those of its entry (`Unguarded`); an alternative that throws ends the
  check, whatever the next one would say;
* a mailed reply that arrives before the pending row is committed is lost, and one
  to a command of a script always is (`ResumeThrows`, `Found`).

No document of the repository speaks about the following, and it is therefore no
property: two callbacks of one pending event are both admitted, since the row is
neither locked nor changed until a run ends (`AnswerMatchesStore` and the
contract hold nevertheless, but the second may overwrite the response the first
has stored and cached, and given to others: the exception `Kept` makes for
events in `raced`); an endpoint that an update has put into an entry of another
callgent survives the deletion of that callgent (`LostByEndpoint`), and its
securities may name realms that no longer exist or never did; a request
suspended in the endpoint's auth check can only fail when resumed, since the
resumed method is called with the wrong arguments (`AuthThrows`); an argument
that the model wants clarified without the client having said anything passes
with its conversion missing (`mismatches`, `needConfirms`); a late callback of
an expired promise resolves the row of the request that renewed it; a promise
without TTL outlives a source that failed in postprocessing (`RowAndEventAgree`
says "or failed since"); completions requested before earlier ones are booked
may overdraw the balance; a completion whose billing event fails or is cut off
is never booked.

## 4. Proofs

For all values of the constants, under their named assumptions:

* `EventDispatchProofs` (`ConstantsAssumption`: priorities are integers, null is
  no event and no listener): `TypeCorrect`, then `Invariance`: `IInv` is
  inductive. It strengthens the safety properties by the shape of a run at each
  stage (`RunShape`), of rows (`RowShape`), by who may be working on an event
  given its answer and row (`Claims`: an event that nobody was answered is worked
  on by its emission only, a run that will answer "done" is the last one), and by
  the listeners not yet reached (`Coverage`: whoever must be passed is in the
  rest of a list, has run, or is committed). The properties of run `dispatch`
  follow, and `Refinement`, which maps every action to a claim, a settlement or
  a dropped claim of `EventContract`, and from it `SettledForeverHolds`.
* `BillingProofs` (`BillingAssumption`: amounts are positive, ids of sessions
  and completions differ): `IInv` adds that an expense has one handler and that
  a transaction id that is being written has one writer and is not booked.
  From it follow the types, `LedgerIsBacked`, and `BookedOnce`: the balance only
  moves together with the ledger, by the amount of a transaction that was not in
  it. `BalanceIsLedgerHolds` is the induction this step calls for: with the ledger
  finite (`Books`), the balance is the sum of the amounts booked. The sum is a
  fold over a set, so the lemmas before it show that every finite set of booked
  transactions has exactly one total (`TotalExists`, `AddsUpUnique`), that the
  fold is that total (`SumIsTotal`), and that booking one more adds its amount
  (`SumAddsOne`). The induction over finite sets is done by a smallest
  counterexample, with the library's theorem that strict inclusion of finite sets
  is well-founded, which takes no operator as a parameter.
* `ClientRequestProofs` (`ClientRequestAssumption`: securities of client entries
  are validated rather than attached, as the code has it, a request with a
  requirement has neither timeout nor callback; `NoneAssumption`: null is none
  of the values it stands beside): `Invariance`. What the two properties lack to
  be inductive is the shape of a run at each stage (`RunOK`: an outcome exists
  from the end of the run to its answer, the row from the commit on, and a row
  that is final is the outcome that will be answered), and that a reply being
  handled is one that was found and has a pending row (`RelayOK`), so that
  resuming never rewrites a final row that a client has been told of, and that a
  reply that is over has left a reason the event may still wait for, or a row
  that waits for none. `AnswerTellsRowHolds` and `PendingIsOwedHolds` follow.
  `Refinement` maps an emission and the handling of a reply to two claimants of
  each request: the one accepts the event and settles it at its commit, the
  other claims it again in `Resume` and settles it when the call has gone on; aborts and restarts drop claims, everything else stutters.
  `SettledForeverHolds` follows.

* `TaskPipeProofs` (`TaskPipeAssumption`: the bound on commands is a natural): a
  script that freezes must leave an invocation that nothing settles any more,
  whatever the other commands do. `IInv` adds the stage of the run (`StageOK`: nothing
  is handled without one, and npx is gone before its exit is heard), that the
  commands in the pipe have rising keys none of which is being handled yet
  (`PipeOK`), that a result comes from a script at its end only (`ResultOK`), and
  that from the freeze on npx is dead and such an invocation is kept until the event
  is stored (`FrozenOK`, `OutcomeOK`). `NotAdmitted` computes that no key of a command
  is parsed to the event. `PendingCalledOutHolds` and `DataIsOfEndedScriptHolds`
  follow.
* `AccountsProofs` (`AccountsAssumption`: null is no address, id or password):
  `IInv` adds that a token that can still be verified was never used
  (`TokensFresh`), that rows refer to rows (`RowsOK`),
  and that what a request has read is still so when it commits (`WorkOK`: its
  password was checked, the identity it confirms is of its token's address).
  `TokenUsedOnceHolds`, `NothingHalfRegisteredHolds` and
  `PasswordOnlyByResetHolds` follow.

* `SepInvokeProofs` (`SepAssumption`: null and "pending" are no request):
  `IInv` adds, for every run, what its stage says of its response and its row
  (`RunOK`) and of the outcome its transaction will store (`OutOK`); what a
  stored event says (`EventOK`); that the uncommitted version of the row is none,
  a new row, or the committed one with one more observer or with the response
  (`DraftOK`); that two runs of one event are known to have raced, and the event not
  to be new (`RacesKnown`), so that whatever one of them overwrites is a response
  `Kept` exempts; that rows are what the kind of endpoint allows (`CacheOK`); and
  that notices are for stored observers (`NoticesOK`). `RowAndEventAgreeHolds`,
  `DoneHasCommittedDataHolds`, `ObserversAreStoredHolds` and
  `CalledOnceIfCheckedHolds` follow. `Refinement` maps a run of the chain to the
  claim on its event: `Start` accepts, a callback or a notification claims again,
  `Commit` settles with the outcome `OutOK` allows, a rollback drops the claim,
  and the steps of the chain stutter. `SettledForeverHolds` follows.
* `LlmProofs` (`QueryAssumption`: attempts are bounded, null is no call or
  session; `AgentAssumption`, see below). Of `LlmQuery`, `IInv` adds what a call holds at each stage (`QueryOK`: its text is of
  a completion of its own that was answered, and its further attempts are
  completions nobody has touched), and that only answered completions are being
  billed (`BillsAnswers`). `ReturnsOwnAnswerHolds` and `CachedIsValidHolds` follow,
  and `BilledHolds`: every step of a call is a check, an answer, a failure or a
  background step of `Billing`, or leaves its variables alone. `Billing` is proved
  for every set of completions, so what it promises holds of these.

  Of `ScriptAgent`, `AgentIInv` adds what the conversation is when a stage begins
  (`MessagesOK`: the messages asked with the answer of the stage before, or, once
  `NothingToOpt` has popped the client's message, without it) and what is known of
  the arguments by then (`ArgsOK`). `ConversationIsCleanHolds` and
  `UncertainAskedAgainHolds` follow, for any endpoints, purposes, arguments and
  history, whatever the model answers. `AgentAssumption`: hints are made of the
  facts the code asks of them, histories are of events of the three kinds it tells
  apart, and an endpoint's name is not one of the words the code gives a meaning.
  That the messages flattened from a history are a sequence of roles is proved by
  a smallest counterexample on the number of its events (`FlattenTyped`).
* `CallgentTreeProofs` (`TreeAssumption`: every administrator has a tenant, the
  hub is one): `IInv` joins the two invariants with what the requests in flight
  have read (`RequestOK`: the callgent or entry a creation or import goes on with
  is there and in the tenant of its administrator, the realms about to be written
  are of the callgent of the row they guard, a merged realm is in its callgent's
  tenant, a copy has a row for every realm it maps). It is kept because rows are
  never moved, but for endpoints that an update moves within their tenant: each step
  is shown to be one in which the tenant of a row stays, and the callgent of it
  unless it is an endpoint updated so (`Grows`), and each old or new row to be in
  place (`Preserved`). What holds of updated endpoints too is that they and what
  they refer to are of one tenant and exist.
  `SecuritiesStay`, `OneTenant` and `DanglesOnlyByRace` follow; the last is the
  action property, proved row by row beside the invariant because it needs it
  (a deletion clears the references in its own callgent only, which is enough as
  no other callgent has any).

Only model-checked is everything under fairness (`EmitAnswered`,
`RechargeCredited`, `QueryEnds`, `RunsEnd`, `RunsEndUnlessStuck`), because
liveness and `ENABLED` are out of the reach of the prover.

## 5. What is not modelled, and the plan

Left out for good: prompt texts, templates, generated code, formats, OpenAPI
parsing, pagination, read-only queries, logging, file copies.

Not modelled yet:

1. The delayed listeners that summarise an endpoint or entry that changed, and
   the texts whose update triggers them (the other columns that an update of an
   endpoint stores are in `CallgentTree`).
2. The table of LLM templates and its upsert.
3. A server that restarts while scripts run, the heartbeat and reconnection of
   the pipe client. The restoring of a frozen script is left out for another
   reason: no callback gets as far.
4. Tokens of users kept per realm (`perUser`), and the validation of a realm,
   whose service is not implemented in the repository.

Every invariant and every action property of a passing run is proved. Still
open:

* `TaskPipe` is not shown to implement `EventContract`. Its event has a single run
  and is settled by it once, all of which the stages of `StageOK` say already; the
  races on an event of a script are those of `ClientRequest`.
* Liveness, which the prover cannot reach.
