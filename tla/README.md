# Verification of the food ordering coordination system

TLA+ modules, TLC configurations and TLAPS proofs for the system in `src/`: a
Go API (`coordination_api`) in front of MongoDB and of the vendors' JSON
servers, and a Next.js web UI (`web_ui`) in front of the API.

- [The system](#the-system): inventory of the components
- [The modules](#the-modules): what models which code, and how
- [The runs](#the-runs): what TLC checks, with which bounds
- [Fairness](#fairness)
- [The proofs](#the-proofs): what holds for every value of the constants
- [What the checks found](#what-the-checks-found)
- [Not modelled, and abstractions](#not-modelled-and-abstractions)
- [Plan](#plan)

Check a run with `tlc -config OrderingRaces.cfg MCOrdering` (the module of each
run is in the tables below and in `PROJECT.json`), a proof with
`tlapm OrderingProofs.tla`.

## The system

### Ordering and credits
`internal/domain/useCase.go`, `internal/http/controllers.go`,
`internal/persistance/mongodb.go`.

- *State*: three MongoDB collections. `credits` holds a document with an amount
  per member, `orders` the orders, `events` an append-only log. The API keeps
  nothing in memory between requests.
- *Operations*: `POST /api/orders` (`PlaceOrder`: read the balance, write the
  balance less the total, save the order, append `order.placed.v1`),
  `POST /api/members/{id}/credits` (`GrantCredits`: read the balance, write the
  sum, append `credits.granted.v1`), `GET /api/members/{id}/credits`,
  `GET /api/members/{id}/orders`.
- *Interactions*: one goroutine per request; each repository call is one
  MongoDB command with a five second timeout of its own. There is no lock, no
  transaction and no compensation.
- *Hard*: read-modify-write over two calls; a sequence of writes of which any
  may fail, or time out and be performed later; a process that dies between
  two of them.
- *Correct if*: balances stay in 0..cap and are covered by what was granted; what
  is recorded was paid for; a status tells the truth; nobody is charged or paid
  by somebody else's request; every request comes to an end.

### Vendor aggregator and adapters
`internal/integration`.

- *State*: a registry of adapters behind an `RWMutex`; per call a `WaitGroup`
  and a buffered channel.
- *Operations*: `Register`, `FetchAllMenus` (behind `GET /api/menus`),
  `SubmitToVendors` (called by tests only so far).
- *Interactions*: one goroutine per vendor sends one result, one goroutine closes
  the channel when all are done, the caller drains it. A vendor is called over
  HTTP with a ten second timeout.
- *Hard*: the close must come after the last send; a registration during a call;
  a vendor that fails while others do not, or whose answer is lost.
- *Correct if*: exactly one result per adapter registered at one moment, no send
  into a closed or full channel, no goroutine left behind.

### Accounts and sign-in
`internal/http/auth_controller.go`, `auth.go`, users collection of `mongodb.go`.

- *State*: the `users` collection with unique indexes on e-mail address and
  member id; tokens, which clients hold and the API only signs and verifies.
- *Operations*: `Register`, `Login`, `Me`, `ListMembersByDomain`.
- *Interactions*: the role in a token decides what the ordering routes allow; a
  list of members reads the balance of each from the credits collection.
- *Hard*: racing registrations of one address; a registration that times out and
  is performed; sessions across restarts; a long list of reads.
- *Correct if*: one account per address; tokens name stored accounts with their
  roles; nobody becomes a manager by asking; a status tells the truth; whoever
  registered can get in.

### Web UI: sessions and sign-in
`web_ui/proxy.ts`, `components/(auth)/auth-sections.tsx`, `lib/auth-session.ts`,
`lib/auth-policy.ts`, and `validateSession`, `signOut` of `menu-context.tsx`.

- *State*: one cookie with the token, shared by all tabs of the browser; per tab
  the page, the navigation it is on, the form's call and its disabled button, and
  the copy of the token that the menu page has made.
- *Operations*: the guard's look at the cookie, switching between the two forms,
  signing in and up, the validation of a session, signing out.
- *Interactions*: tabs through the cookie, of whose changes nobody is told; the
  API answers forms and validations and has the last word on expiry.
- *Hard*: guard, page and API look at the token one after the other while other
  tabs sign in and out; a navigation ends later than the code that starts it, and
  a second supersedes it; continuations run after their form is gone.
- *Correct if*: a tab acts for the user it shows; the domain policy lets nobody in
  whom it excludes; nobody is signed out without cause; no tab ends up on a page
  that is of no use, and the redirects come to rest.

### Web UI: a member's tab
`web_ui/components/(menu)/menu-context.tsx` and the sections that call it.

- *State*: React state of one tab: session, loading, balance, order history,
  cart, dialogs, `placingOrder`, view.
- *Operations*: loading, cart changes, reserving, the history, sign-out.
- *Interactions*: calls to the API whose answers come in any order.
- *Hard*: nothing is aborted or numbered, so the answer that comes last wins; the
  user goes on clicking meanwhile; an answer that is lost after the order was
  placed.
- *Correct if*: no reservation is made twice by surprise, nothing vanishes from
  the cart but behind a reservation under way, the screen ends up with the newest answers, controls come back.

### Web UI: a manager's tab
`menu-context.tsx` with `sections/management-section.tsx`, `header-section.tsx`
and `dialogs-section.tsx`.

- *State*: besides the above the list of members, two dialogs that grant (one in
  the list, one in the header), the shared flag `grantingCredits`, the history of
  all members.
- *Operations*: loading the list, granting to a member and to oneself, refreshing
  the history (the list of members, then each member's orders), turning from
  section to section.
- *Hard*: two components share a flag and a function; the list is mounted and
  unmounted while its calls are under way; a refresh is a call per member of
  which some may fail; a lost answer to a grant.
- *Correct if*: no opening of a dialog pays twice without a failure in between;
  the screen is not behind what was granted; a history is whole; controls come
  back.

### Others
Configuration and start-up (`main.go`, `config.go`), the presentation of the web
UI, deployment (Kubernetes via Pulumi) and the vendor mocks. See
[Not modelled](#not-modelled-and-abstractions).

`PROJECT.json` lists the hazards of all components at their source lines, with
the properties that are there to catch them.

## The modules

| Module | Models | Depends on |
|---|---|---|
| `Ordering` | ordering and credits | |
| `Booking` | abstract: the promise about one request | |
| `Ledger` | abstract: the accounts as atomic grants and charges | |
| `OrderingRefinement` | refinement mappings to `Booking` and `Ledger` | `Ordering`, `Booking`, `Ledger` |
| `MCOrdering` | TLC instances of ordering | `OrderingRefinement` |
| `OrderingProofs` | invariants of `Ordering`, proved | `Ordering` |
| `RefinementProofs` | `Ordering` implements `Booking`, proved | `OrderingRefinement`, `OrderingProofs` |
| `LedgerProofs` | `Ordering` implements `Ledger`, proved | `OrderingRefinement`, `OrderingProofs` |
| `Aggregator` | aggregator and adapters, with its refinement mapping | `FanOut` |
| `FanOut` | abstract: one result per adapter of one moment | |
| `AggregatorProofs` | invariants of `Aggregator`, proved; it implements `FanOut` step by step | `Aggregator` |
| `Accounts` | accounts and sign-in | |
| `Directory` | abstract: accounts and sessions as one atomic directory | |
| `AccountsRefinement` | refinement mapping to `Directory` | `Accounts`, `Directory` |
| `MCAccounts` | TLC instances of accounts | `AccountsRefinement` |
| `AccountsProofs` | invariants of `Accounts`, proved; it implements `Directory` | `AccountsRefinement` |
| `Sessions` | tabs, cookie, guard and sign-in forms | |
| `SessionsProofs` | invariants of `Sessions`, proved | `Sessions` |
| `MenuContext` | a member's tab | |
| `MenuProofs` | invariants of `MenuContext`, proved | `MenuContext` |
| `Management` | a manager's tab | |
| `ManagementProofs` | invariants of `Management`, proved | `Management` |

Definitions that begin with another definition's name and are introduced by
"Variant" (`RefusalAnyMember`, `SetWithoutSave`, ...) are plausible bugs of that
definition. No specification uses them; the `mutants` of `PROJECT.json` put one
in the place of its original, and the property named there must then fail.

### Ordering
A request is a process. `req[r]` is what it asks (route, claims of its token,
member, amount, and where its payload is invalid); `pc[r]` is the next
repository call of its goroutine: `get`, `set`, `save`, `append`, then `reply`.
`read[r]` is the local variable with the balance that was read; it is what makes
a stale write possible. `credits`, `orders` and `events` are the collections;
orders and events carry fresh UUIDs in the code and are named by their request
here. `pending` holds writes that are with the server while nobody waits for
them any more, after a timeout or a crash.

| Actions | Code |
|---|---|
| `Accept`, `Refuse` | `RequireRoles`, the controllers' decoding and `canAccessMemberData`, the use cases' validation, in the code's order (`Refusal`) |
| `GetForOrder`, `GetForGrant`, `GetCredits`, `OrdersByMember` | the repository's reads and the decision taken on them |
| `Set`, `Save`, `Append` | an acknowledged write and the step to the next one |
| `StoreError` | a call fails without effect; also `Set` above the cap |
| `StoreTimeout`, `LateWrite`, `LostWrite` | a call's context expires; the server performs the write later or never |
| `Crash` | the single replica dies; requests in flight end unanswered, and the writes they were waiting for become pending: they are performed later or never |
| `Reply` | the response is written |

`applied`, `granted` and `spent` are history variables: they change only in
`PerformSet` and nothing reads them but properties.

`Overlap = FALSE` (`MayStart`) is an assumption about the clients: no request
about a member starts while another is being served. It makes exact what the
code guarantees *without* concurrency.

### Booking, Ledger
`Booking` says of one request: its writes take effect in order, each at most
once; it is confirmed only when all have; refused only when none has or ever
will; a failed one may have stopped anywhere. `Ledger` says of the accounts: a
grant or charge is one atomic change of the balance as it is. The mappings read
the number of writes off the collections (`Written`), the answer off `pc` and
`code` (`Told`), and the balance off the document (`Amount`).

### Aggregator
`pc[c]` is the caller's goroutine (`idle`, `copy` under the read lock, `spawn`,
`collect`, `done`), `worker[c][a]` the goroutine for adapter `a`, `wg[c]` the
WaitGroup as the set of goroutines it counts, `chan[c]`/`closed[c]` the channel,
`outcome[c][a]` what the adapter returned. `Register` needs the lock
that a copying call holds for reading. `FetchAllMenus` and `SubmitToVendors`
have the same fan-out code and share it here; they differ in `RLock` (what is
copied) and in what their adapters return (`Answers`): a menu, or the vendor's
answer to an order. That answer is without an error also when the vendor does
not confirm, so that `confirmed` and `declined` are two outcomes besides `error`.
`Fail` stands for each error path of `jsonserver.go`, a cancelled context among
them; whether the vendor has the order then is not known to anybody.

`FanOut` abstracts from goroutines and channels: a call asks the adapters of one
moment and returns one result each. The mapping reads what a call that is still
copying is going to copy off the registry, which is legitimate only because of
the read lock; that is what `ImplementsFanOut` tests.

### Accounts
As in `Ordering`, a request is a process: `create` or `find` for the access to
the users collection, `credits` for the loop that reads a balance for each
account in `found[r]` and moves it to `shown[r]`, `reply`. A token is a record
of the request that got it, the member and the role; `issued` are those signed
and `expired` those whose time is over. A client holds a token once it was
answered (`Held`). `Taken` is the unique index on the address; the one on member
ids cannot be hit since member ids are fresh UUIDs (a request's identity). `Move` stands
for all the ordering requests that change balances meanwhile.

### Directory
A directory of accounts whose operations are atomic: a registration opens its
account and a session if the address is free, or meets a conflict; a login
starts a session of the account that matches; a session that is shown gets a
profile or, a manager's, the list of the members at one moment; a failed request
has told its client nothing, and only a registration may take effect after that,
once. The mapping lets an operation take effect when the database performs its
one read or write of the users collection; a token that is signed, balances that
are read one by one and the answer only tell of it. `Outcome` is read off `pc`
and `code`, and `Seen` is what is in the answer with what is still to be put
there, which is why the list stays one of one moment while its balances do not.

### Sessions
`url[t]` is the page that tab `t` shows, `goto[t]` where it is on its way to
(`router.replace` only starts a navigation; `Arrive` ends it, passes the guard
`Proxy` and mounts the page). `session[t]` says where `validateSession` is:
`loading`, `asking` the API, `profile` or `refused` when it has answered, then
`in` or `out`. `token[t]` is the page's copy of `cookie`, `shown[t]` the user on
the screen. `call[t]` is the form's call; its field `here` tells whether the form
that made it is still mounted, since the continuation runs anyway. `gone[t]` are
the validations of menu pages that are left: their effect is cleaned up, but they
go on to clear the cookie and to lead the tab away if the API refuses their token. `Open` is a
reload or an address typed in, which ends all continuations. A token is its user
and its age: an `old` one is from an earlier visit, possibly from before the
domain policy, and may expire.

| Actions | Code |
|---|---|
| `Open`, `Arrive`, `SwitchMode` | the browser, `proxy.ts`, `setMode` |
| `OnSignIn`, `OnSignUp`, `OnAuth` | the forms' handlers before and after the await, with `completeAuth` |
| `Validate`, `OnMe` | `validateSession` before and after the await |
| `OnMeGone` | the same after the await, when its page is gone: only the cookie and the router are touched |
| `SignOut` | `signOut` |
| `ServeAuth`, `FailAuth`, `ServeMe`, `ServeGone`, `Expire` | the API (`Accounts`) and the token's lifetime |

### MenuContext
`session`, `boot`, `credits`, `history`, `cart`, `dialog`, `placing` and `view`
are React state. A call goes through `wire[c]`: sent, served by the API at one
moment (its answer is `result[c]`), and handled by its continuation later;
answers of different calls are handled in any order. There is one call of each
kind except for history refreshes, of which as many may be under way as
`Refreshes` has names. `added`, `removed` and `late` are history variables about
the cart: what was put into it, what was taken out, and what was put into it while
a reservation was under way.

### Management
`load[l]` and `refresh[h]` are calls for the list and refreshes of the history; a
refresh asks for the members, then for the orders of each that is not a manager
(`asked` are those it waits for). `grants` lists every grant of the tab with its
outcome, the dialog it came from and the number of that dialog's opening. A grant
`from` the list whose section was unmounted is `gone`: its answer still counts in
the header but no list is loaded after it. Balances are named by the number of
changes that led to them, so that "older" is "smaller"; zero is what the page
shows when a balance could not be read.

### patient
`MenuContext`, `Management` and `Sessions` have a variable `patient` that is
chosen at the start and never changes. A patient user waits for what is under
way before doing the next thing. Most properties hold for everybody; those with
`patient =>` hold only for users who wait, because the code relies on disabled
controls where there is something to disable and on nothing else.

## The runs

All passing runs explore their whole state space; each takes under three minutes
with two workers. `expect` is "pass" unless said otherwise.

| Run | Config, module | Question |
|---|---|---|
| `ordering_races` | `OrderingRaces`, `MCOrdering` | Do three overlapping requests of a member, with errors, timeouts, late writes and crashes, keep the balance in bounds and covered by grants, and is everything recorded paid for? |
| `ordering_answers` | `OrderingAnswers`, `MCOrdering` | Is the answer true for each kind of request and each way to be turned down? Are histories complete and changes authorised? Does a request keep Booking's promise? Does it end although the database never answers? |
| `ordering_serial` | `OrderingSerial`, `MCOrdering` | With one request at a time per member, are the accounts an atomic ledger in which no credit is lost, errors and crashes included? |
| `ordering_lost_deduction` | `OrderingLostDeduction`, `MCOrdering` | *violation*: are confirmed orders deducted? |
| `ordering_replay` | `OrderingReplay`, `MCOrdering` | *violation*: does a member's event stream rebuild the balance? |
| `aggregator_calls` | `Aggregator`, `Aggregator` | Can two concurrent fan-outs send safely, return one result each, and end? Does a call ask the adapters of one moment while others are registered, as `FanOut` promises? |
| `accounts_sign_up` | `AccountsSignUp`, `MCAccounts` | Do races, retries and crashes of registrations and sessions act like atomic operations of one directory of accounts, and is every answer true of the account that is left? |
| `accounts_managers` | `AccountsManagers`, `MCAccounts` | Does only the appointed manager see members, and is the list complete? |
| `accounts_settle` | `AccountsSettle`, `MCAccounts` | Does each request end although the database never answers, a list with its many reads included? |
| `menu_page` | `Menu`, `MenuContext` | Can any clicking reserve twice without a reported failure, or lose a pick that was not added behind a reservation under way? Do the disabled controls suffice for a member who waits? Do loading and reserving end, whatever fails? |
| `sessions` | `Sessions`, `Sessions` | Does a tab act for the user it shows, is the domain policy kept, is nobody signed out without cause, and do redirects come to rest, with two tabs and one cookie? |
| `management_page` | `Management`, `Management` | Can any clicking pay twice without a reported failure, or close a dialog for another member's grant but one from an earlier dialog? Is the history whole, does the screen keep up with the grants, does everything end? |

### Bounds, and why they are enough
- *Ordering*: three requests about one member in `ordering_races`, since a lost
  update needs two and a late write that hits a third is the next worse case;
  amounts 0 to 2, a cap of 3 and opening balances none, 0 and 2, so that orders
  are affordable, unaffordable and free, grants fit and exceed the cap, and two
  grants that each fit exceed it together. `ordering_answers` has two requests
  of twelve kinds and two members instead: its questions are about one request
  and one observer. `ordering_serial` needs two members to interleave at all.
- *Aggregator*: two calls, one of each function, with two services whose adapters
  are registered at any time; every pair of goroutines of one call and of two
  calls interleaves. A registration in the middle of the copy is what would tear
  it, and two services suffice for that. There is one version of each adapter
  (two make the state space too large to be explored in minutes): that an adapter
  is replaced by a different one is covered by theorem `FansOut`, for any versions.
- *Accounts*: three requests: a registration, its late insert, and a retry or a
  session. One address with two passwords for the races; two addresses, a
  seeded manager and balances 0 and 1 for the lists.
- *Sessions*: two tabs; three users, of whom one is admitted and known, one is
  admitted and has to register, and one is known but no longer admitted; two
  pages loaded or forms sent on top of any initial combination of pages and
  cookie, so that one tab can sign in or out at any point of the other's
  validation, and a form can be sent a second time.
- *MenuContext*: two reservations (`MaxOrders`) from two picks, a balance of at
  most 2 so that a second reservation may not be covered any more, and one
  refresh of the history besides those of loading and reserving. `Hasty = {}`
  leaves that refresh to members who wait: the history plays no part in what is
  reserved, and those who do not wait gain nothing but states. The inductive
  invariant of `MenuProofs` holds with `Hasty = Refreshes` too, by proof.
- *Management*: the manager and one member, two loads of the list and two
  refreshes of the history under way, five clicks: enough to open, grant,
  dismiss, open for the other and grant again, or to leave the section and return
  between a grant and its answer.

Symmetry under permutations of the requests is used only in runs without
liveness properties; the inputs do not name requests.

Deadlock is checked for `Ordering` and `Accounts`, whose `Quiescent` disjunct is the
API waiting for more requests than the model makes; every other stop would be
reported. `Aggregator` can always register one more adapter, so the check is
vacuous there, and `NobodyIsStuck`, `GoroutinesEnd` and the fairness in `FanOut` take its place.
`MenuContext`, `Management` and `Sessions` are run without it: a tab in which the
user does nothing more really stops (a signed-out page, no clicks left, a visitor
who is done), and `ControlsComeBack` and `TabsSettle` cover what must not.

### What the properties mean
Each is stated in prose above its definition. The ones worth knowing:

- `CreditsWithinBounds`, `CreditsBackedByGrants`: stale writes can lose an update
  but never create money or leave the bounds.
- `RecordsFollowMoney`: an order in the collection has been paid for. The
  converse fails by design: a crash after the deduction leaves a charge without
  an order (`useCase.go` compensates nothing).
- `AnswersMatchRecords` / `AnswersMatchUsers`: success means everything was
  written; a refusal means that nothing was or ever will be, pending writes
  included. A 500 says nothing.
- `OwnersAreLetIn`: a registration that timed out and was performed does not
  lock its owner out: the retry gets 409 and the login works.
- `ImplementsDirectory`: races, late inserts and crashes notwithstanding, no
  address has two accounts, no token is without the account and role it names,
  no login or profile is refused for a reason that does not hold at that moment,
  and what an answer shows is what was there at one moment. `SessionsAreBacked`
  and `TokensStayGood` are two consequences that are proved in their own right.
- `ReservedOnceUnlessFailed`: the dialog cannot double-submit. After a *lost*
  answer the same picks can be reserved and paid twice; then the member was told
  that the first attempt failed.
- `GrantedOnceUnlessFailed`: the same for grants, across the two dialogs that
  share `grantingCredits` and across leaving the list and coming back.
- `HistoryIsWhole`: a history of all members is set in one step from complete
  answers, so that a failed read leaves the old one instead of a part.
- `NothingIsDropped`: the answer to a reservation empties the cart whatever is in
  it by then. What is lost in that way was added while the reservation was under
  way (`late`), after its dialog was dismissed; nothing else is ever lost, and a
  member who waits loses nothing.
- `ClosesForItsOwnGrant`: in the same way, a dialog closes without being dismissed
  and without a grant to its own member only for a grant from an earlier dialog.
- `NobodyIsStuck` (`Aggregator`): whoever is not done has a step that the fairness
  makes happen. A goroutine that holds a result finds the channel open and not
  full, and a caller whose workers have ended never waits for a closer that waits
  for it.
- `ShowsWhoActs`, `KeptUntilSignOut`: another tab may replace the cookie between
  the guard, the page and the answer, but the page goes on with the token it has
  read; and while nothing fails, no page clears a cookie that is good.

## Fairness

Each fair action has a name, so that the specification (`WF_vars` of it) and the
proofs speak of the same thing: `GoesOn(r)` in `Ordering` and `Accounts`, `GoesOn(t)` in
`Sessions`, `CallGoesOn(c)` and `WorkerGoesOn(c, a)` in `Aggregator`,
`ReadIsServed(c)`, `DataIsHandled(c)`, `LoadingIsHandled` and `OrderIsHandled` in
`MenuContext`.

- `Ordering`, `Accounts`: weak fairness of `StoreTimeout` (every repository call
  has a `context.WithTimeout` of five seconds, `mongodb.go`) and of the
  goroutine's own steps (`Reply`, `Respond`, and `LoadCreditsFails`, which is the
  expiry of one balance read). No step of the database is fair: MongoDB may be
  silent for ever. New requests are not fair, nor crashes.
- `Aggregator`: weak fairness of each goroutine's steps (the Go scheduler) and of
  an adapter call's return (`http.Client{Timeout: 10s}`). `RLock` is not fair: a
  call need not be made.
- `MenuContext`, `Management`: weak fairness of the API serving each call (what
  the modules above establish) and of the event loop running each continuation.
  What the user does is not fair, nor are failures. In `Management` one condition
  for all of these suffices, since a tab makes finitely many calls.
- `Sessions`: weak fairness of each navigation, and of the steps of each form's
  call, of each validation and of those whose page is gone (API and event loop).
  Opening pages, sending forms, signing out and expiry are not fair.

## The proofs

Every safety property that a passing run checks is proved, for every value of
the constants (the accounts as a ledger: for every value with clients that wait;
`NobodyIsStuck` of `Aggregator`: up to what `ENABLED` means). The type
invariants are proved and no run repeats them. Liveness is proved as far as
described under *Liveness* below. Assumptions are the `ASSUME`s of the modules:
`InputsAssumption` (inputs are requests, and a valid order has no negative total, which its
validation ensures), `CreditsAssumption` (opening balances are within the cap),
`ModeAssumption`, `AccountsAssumption` (seeded accounts are distinct and not
named like new ones; zero is a balance), `AggregatorAssumption`,
`SessionsAssumption` (`None` is no token, call or page), `ManagementAssumption`
(the manager is one of the members; the list of members can be loaded at least once) and `MenuAssumption` (the picks are finite;
refreshes are not named like the other calls).

### OrderingProofs: any requests, members, cap, inputs and faults
| Theorem | Property |
|---|---|
| `Invariance` | `IInv` |
| `TypeCorrect` | `TypeOK` |
| `Bounded` | `CreditsWithinBounds` |
| `Backed` | `CreditsBackedByGrants` |
| `Recorded` | `RecordsFollowMoney` |
| `Answered` | `AnswersMatchRecords` |
| `Authorised` | `ChangesAreAuthorised` |
| `Complete` | `HistoryIsComplete` |
| `Settles` | `RequestsAreSettled`, from `FairSpec` and `[]GuardsEnable` |

None of these is inductive alone. A write is safe because of what was known when
the balance was *read*: `Justified` keeps that check with the request up to its
write, and with a pending write after that; `ReadsBacked` says that a balance
once read stays covered by the grants, which only grow. `Reached` says which
writes of a request have been done when it stands before the next one, and
`PendingInv` that a request with a pending write has failed and does nothing
more, so that a late write is that request's last. With these, no step needs to
know what other requests do.

### RefinementProofs
`Booked`: `Spec => ImplementsBooking`, for the same generality. Under `IInv`
every write that is performed, late ones included, is Booking's next `Write`;
a reply is `Confirm`, `TurnDown` or `Fail`; a crash is one `Fail` of all that are
open; everything else is a stutter.

### LedgerProofs: any requests, members, cap, inputs; errors and crashes
| Theorem | Property |
|---|---|
| `Conserved` | `CreditsConserved` |
| `Atomic` | `ImplementsLedger` |
| `Deducted` | `ConfirmedOrdersAreDeducted`, the property of the finding |

All assume `Serial`: the clients wait (`~Overlap`) and no write times out. The
run `ordering_lost_deduction` is without the first, has no faults at all, and
violates `Deducted`'s property: there it is the overlap that loses a deduction.
`SerialInv` adds to `IInv` that a member has one request in flight and that its
balance is still what it was when it was read; a write is then one step of
`Ledger` and everything else a stutter.

### AccountsProofs: any requests, addresses, passwords, seeded accounts, role policy and faults
| Theorem | Property |
|---|---|
| `Invariance` | `IInv` |
| `TypeCorrect` | `TypeOK` |
| `Backed` | `SessionsAreBacked` |
| `Answered` | `AnswersMatchUsers` |
| `Usable` | `TokensStayGood` |
| `Appointed` | `ManagersAreAppointed` |
| `LetIn` | `OwnersAreLetIn` |
| `ListComplete` | `ListIsComplete` |
| `Directs` | `ImplementsDirectory` |
| `SettlesUnlessList` | `RequestsAreSettled` but for lists, from `FairSpec` and `[]GuardsEnable` |
| `ListsAdvance` | each balance of a list is read or given up, from the same |

The strengthening is `Origin` (an account, stored or pending, is seeded or is
exactly the account of one registration), `RegisterInv` (where a registration
stands if its account is absent, pending or stored) and `SessionInv` (a request
past authentication has a token, and a list a manager's). `Origin` is what makes
a 409 mean that *another's* account is there, and what lets the owner of a single
password in. `NoNewManagers` carries the check of `Register` to every later list. `ListInv` says
of a list under way that an account of the query is in the answer, once, or still
to be read.

`Directs` needs one thing more, `SoundInv`: only requests without a defect reach
the collection, late inserts included, a request that has not reached it shows
nothing, and the seeded accounts stay. Then the insert or the lookup is the one step of `Directory`, with
its guard as `Directory` states it (`CreateDirectory`, `SignInDirectory`,
`LookUpDirectory`); a validation or an authentication is `Deny` or `Enter`; an
error, a timeout or a crash is `Fail`; a late insert is `RegisterLate`, or
nothing if the address is taken; reading balances and replying change neither
`Outcome` nor `Seen`. A profile is always found because the token names a stored
account (`SessionsAreBacked`).

### AggregatorProofs: any calls, services and versions
| Theorem | Property |
|---|---|
| `Invariance` | `IInv` |
| `TypeCorrect` | `TypeOK` |
| `Safe` | `SendsAreSafe` |
| `Complete` | `OneResultPerAdapter` |
| `FansOut` | the safety part of `ImplementsFanOut` |
| `NoWorkerLeaks` | `WorkersEnd`: each goroutine that is started ends, from `Spec` and `[]NobodyIsStuck` |
| `CloserFollows` | `CloserEnds`: when they have ended the channel is closed, from the same |
| `Unstuck` | `NobodyIsStuck`, from `Spec` and `[]GuardsEnable` |

`WorkerInv` ties a goroutine to the WaitGroup (it is counted until it has sent)
and `CallInv` the WaitGroup to the channel (closed only when nothing is counted);
`ResultInv` says where a result is: not yet sent, in the channel, or collected.
The channel is never full because what is in it belongs to different adapters of
the copied set, which is finite since it is copied one at a time. The copy itself
is atomic because `Register` needs the lock: `FansOut` maps a call that is still
copying to what it is going to copy. `GuardsEnable` says that an action whose
guard holds is `ENABLED`; the rest of `NobodyIsStuck`, that a worker with a
result always finds room and that nothing is left for the closer to wait for when
the workers have ended (`CountInv`), is proved.

### SessionsProofs: any tabs, users, policy, moves and faults
| Theorem | Property |
|---|---|
| `Invariance` | `IInv` |
| `TypeCorrect` | `TypeOK` |
| `Shown` | `ShowsWhoActs` |
| `Kept` | `PolicyIsKept` |
| `Usable` | `NoDeadEnd` |
| `SignedIn` | `KeptUntilSignOut` |
| `Rests` | `TabsSettle`, from `FairSpec` and `[]GuardsEnable` |

`MemberInv` and `FormInv` are about one tab, so that a step of one tab leaves them
true of the others although the cookie changes; `PatientInv` says that the tab of
a visitor who waits does one thing at a time, and `FaultlessInv` that without
faults every token in the cookie or in a page is one that `validateSession`
accepts.

### MenuProofs: any picks, orders, balances, refreshes and faults
| Theorem | Property |
|---|---|
| `Invariance` | `IInv` |
| `TypeCorrect` | `TypeOK` |
| `ReservedOnce` | `ReservedOnceUnlessFailed` |
| `NothingDropped` | `NothingIsDropped` |
| `Newest` | `NewestAnswerIsShown` |
| `ControlsReturn` | `ControlsComeBack`, from `FairSpec` and `[]GuardsEnable` |

`OrderInv` says that only the last reservation can be waiting, and `CartInv` that
what a confirmed one holds is neither in the cart nor in a later one: together
they need nothing of the member. `DialogInv` keeps the cart of a member who waits
equal to the reservation under way. `BootInv`, `BalanceInv` and `HistoryInv` say
which calls can overlap: a balance is read only while nothing can be reserved,
and after the first reservation a member who waits has one call for the history
under way at a time.

### ManagementProofs: any members, clicks, loads, refreshes and faults
| Theorem | Property |
|---|---|
| `Invariance` | `IInv` |
| `TypeCorrect` | `TypeOK` |
| `GrantsOnce` | `GrantedOnceUnlessFailed` |
| `Whole` | `HistoryIsWhole` |
| `Follows` | `ScreenFollowsGrants` |
| `ClosesRight` | `ClosesForItsOwnGrant` |
| `BusyOnlyWhileUnderWay` | `NothingStaysBusy`: a disabled control has a call under way |

`GrantsInv` says that only the last grant is under way and that a dialog which is
open has not succeeded since it was opened; `HistoryInv` that what a refresh found
and what it waits for cover everything there was when it began; `BalanceInv` that
the last grant to a member tells the most; `PatientInv` that rows which are shown
or on their way are not behind the grants made from the list.

### Liveness
A proof that something happens has two halves. One is that the fair step can be
taken whenever it is due; the other that nothing but that step takes its actor
out of where it is, and that it leads where it should. The first half needs
`ENABLED`, which the prover treats as an opaque formula: `GuardsEnable` of each
module of proofs says that a fair step whose guard holds is `ENABLED`, which is
how the actions are written, and the theorems have it as their hypothesis. The
second half is proved, for every value of the constants: for each phase, that a
step of anybody leaves the phase or stays in it, that the fair step leaves it,
and where it goes; temporal logic then joins the phases. A theorem of the form
`FairSpec /\ []GuardsEnable => P` is thus the liveness property `P` up to that
reading of the guards; the run checks `P` itself.

- `Settles`: while a request is not answered, other requests, late writes and
  crashes leave it where it is or end it (lemma `Onward`). Whichever repository
  call it is in, one that makes the next call included, the timeout takes it to
  its reply, and the reply to its end.
- `SettlesUnlessList`: as in `Settles`, the timeout ends the insert or the
  lookup, whatever others do meanwhile (lemma `Moves`). A session or a profile is
  then of one account (`SingleInv`, a further inductive invariant; for a profile
  since no two accounts have one member id), so that one read of a balance, done
  or given up, is left before the answer. `ListsAdvance` is the step of a list: of
  any set of accounts whose balances are to be read, one is taken away.
- `CloserFollows`: with all workers ended, no registration and no other call
  takes the caller back, which can only start the closer, or the closer, which
  can only close (`DrainedMoves`).
- `NoWorkerLeaks`: a goroutine goes from its call to its send to its end
  (`WorkerMoves`), and no registration, no other goroutine and no collector sends
  it back.
- `Rests`: a tab goes through a form's request, its reply, the navigation, the
  guard, the validation and its verdict (`FormFacts`, `PageFacts`,
  `ArriveFacts`). That it cannot go round for ever is in `TabMoves`: the
  validation that fails leads to the form, where the tab rests, and only what the
  visitor does leads away from it. `OneThing` says that a tab is in one of these
  phases only.
- `ControlsReturn`: `boot` and `placing` are ended by answers to calls. `WaitInv`,
  a further inductive invariant, says that the call they wait for is still under
  way, whichever refreshes and reservations were started in between; then the
  read of the menus, of the balance and history and the reservation are served
  and handled in turn (`MenusArrive`, `DataArrives`, `BootEnds`, `OrderEnds`).
- `BusyOnlyWhileUnderWay`: the same facts for a manager's tab (`GrantingWaits`,
  `HistoryWaits`, `ListWaits`) make `NothingStaysBusy` an invariant: `loading`,
  `loadingHistory` and `grantingCredits` are set only while a call is under way
  that will clear them. That the calls end is left to the run.

### Only model-checked
- That a step whose guard holds is `ENABLED` (`GuardsEnable`).
- That the calls of a manager's tab end, `GoroutinesEnd` as a whole (from
  `WorkersEnd` and `CloserEnds` it needs that finitely many workers have all
  ended some time) and the fairness in
  `FanOut`: a temporal induction over a finite set of calls, refreshes or
  adapters, which the prover cannot do.
- `RequestsAreSettled` of `Accounts` for lists: `ListMembersByDomain` is answered
  after as many reads as there are accounts; that each is over is `ListsAdvance`,
  that they all are is the same induction.

## What the checks found

1. *Lost deductions* (`ordering_lost_deduction`). `PlaceOrder` and `AddCredits`
   read the balance and write back a new one with nothing in between to stop
   another request. Two requests of one member that overlap can both be
   confirmed while one deduction, or one grant, is overwritten.
   `place_order_success.feature` says "So that my order is confirmed and my
   credits are deducted".
2. *The event stream does not rebuild the balance* (`ordering_replay`).
   `EventsByAggregate` promises "replay this slice to rebuild the aggregate's
   current state", and `event_store_test.go` rebuilds a balance from
   `credits.granted.v1` and `credits.deducted.v1` events. The code emits no
   deduction: an order's event is filed under the order's id.

Further behaviour that the models show and no document contradicts, so that no
run claims it as a divergence:

- A member who does not wait: the confirmation dialog can be dismissed while the
  order is under way, and what is added to the cart then vanishes when the answer
  empties it (`NothingIsDropped` allows for just that). A history refresh that was
  served before the order may be answered after the refresh that followed it
  (`NewestAnswerIsShown` without `patient`).
- `Promise.all` ends the loading at the first failed read while the other read is
  still under way, and that may overwrite the balance of an order, also for a
  member who waits; `boot = "partial"` is therefore excepted from
  `NewestAnswerIsShown`.
- A manager who does not wait: a grant to oneself during the bootstrap is
  overwritten on the screen by the balance read before it, and two loads of the
  list answered in the wrong order leave the older rows (`ScreenFollowsGrants`);
  a dialog that was dismissed and opened for another member closes when the grant
  to the first is answered (`ClosesForItsOwnGrant` allows for just that).
- A visitor who sends the form again while the navigation to the menu page is
  under way can be left on a menu page without a session (`NoDeadEnd`).
- A validation that fails late clears whatever is in the cookie by then, so that
  another tab's sign-in is lost (`KeptUntilSignOut` with faults); so does one whose
  page the tab has left, which then leads the tab back to the sign-in page.
- After a timeout or crash a charge may be left without an order.

## Not modelled, and abstractions

- *Configuration and start-up*: sequential; its lasting effects (indexes, seed,
  registry) are in the initial states.
- *Presentation* of the web UI: renders the context's state.
- *Of the sign-in pages*: `redirect_url` (there is one page behind the guard), the
  texts of messages, the parsing of the list of domains.
- *Of the menu page*: the choice of a vendor, the amount typed into a dialog, the
  wording of notes and messages; none changes what is sent or shown last.
- *Deployment*: declarative resources; one API replica that is restarted is
  what `Crash` assumes. *Vendor mocks*: static data.

Abstractions inside the modules:

- Amounts are integers where the code has `float64`; rounding is left out. The
  items of an order are their total.
- The two manager roles have equal rights everywhere and are one.
- UUIDs are fresh; timestamps, names, descriptions, reasons and logging are left
  out. `EventsByAggregate`'s order by time is thus not modelled.
- A MongoDB command on one document is atomic and durable once acknowledged.
- A request whose client goes away is a repository call that fails
  (`context.Canceled`), and that is `StoreError` or `StoreTimeout`.
- Passwords match if they are equal (bcrypt); addresses are compared as the
  code normalises them; an HTTP body either parses or does not.
- The order of validation is kept wherever two checks answer with different
  statuses.
- In `MenuContext` the API serves a reservation in one step; a lost answer
  leaves the order stored or not, always charged, as `Ordering` allows.

## Plan

Done: `Ordering` with its abstractions and proofs, `Aggregator`, `Accounts` with
its abstract directory, `Sessions`, `MenuContext` and `Management`, each with its
proofs. Left, in this order:

1. Composition of the reservation dialog with `Ordering`: retries after a lost
   answer as separate requests, two tabs of one member, and what is charged.
2. Larger instances of `management_page` with a second member once the state
   space allows it (the proofs do not depend on the number).
