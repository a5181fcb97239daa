# Formal model of the Hytale monitoring backend

TLA+ models of the Go backend of the Hytale server catalogue, the TLC runs that
check them on small instances and the TLAPS proofs of what holds for every
instance. The models are translations of the code under `src/`; `PROJECT.json`
maps each definition to the lines it stands for.

## 1. The system

Four binaries (`cmd/catalog`, `cmd/auth`, `cmd/collector`, and `cmd/all` for
development) share one PostgreSQL database and one Redis. Nothing in the code
locks across requests: whatever order there is comes from single SQL statements,
one transaction (`ToggleUserLike`), unique indexes and foreign keys, and single
Redis commands.

| Component | State it keeps | Operations | Talks to | What is hard | What makes it correct |
|---|---|---|---|---|---|
| like button | rows of `"like"`, `server.likes_quantity`, `guest_like:<ip>:<id>` keys | toggle as user, toggle as guest, removal of a server | PostgreSQL, Redis, Turnstile | read-then-write, two stores, dropped errors, keys that expire, row locks | the counter is the number of votes; every request is answered |
| worker pool | bounded channel, goroutines, context | `Submit`, worker loop, `Stop` | poller | full channel, stop against submit | what is submitted runs, unless the pool is stopped; `Stop` returns |
| poller | the round (WaitGroup, results channel), ticker, `server:leaderboard` | `Start`, `pollAll`, task | pool, PostgreSQL, game servers, Redis | results in any order, shutdown and crash in a round | a round publishes a whole ranking or nothing, ends, and leaves nothing behind |
| leaderboard | the same key | `GetLeaderboard` | PostgreSQL, Redis, poller | two writers with different rules, fills from stale reads | what is served is in order; the cache catches up |
| registration and mail codes | `"user"`, `email_code:<email>`, `registerToken` cookie | `InitRegister`, `ResendEmail`, `Register`, stop, Google and Discord callbacks | PostgreSQL, Redis, SMTP, OAuth services | check-then-insert from several browsers and sign-in ways, codes that expire | one account per address, but for races with another spelling; it takes a mailed code; codes are limited |
| agents | the collector's session map, `"server_metrics"` | `RegisterAgent`, `ReportMetrics`, `Ping`, the client library | PostgreSQL, poller | restart of the collector, lost replies, rows out of order, removal under way | reports reach their server and stay; the latest metric does not go back |
| catalog editing | rows of `"server"` | create, update, remove | PostgreSQL | update is a read and a write with no lock | an edit undoes nothing it does not name, unless edits overlap |
| ownership verification | `"server_verifications"`, `is_verified`, `user_id` | `InitVerification`, `ConfirmDNSVerification` | PostgreSQL, DNS | two updates, stale domain, removal under way | verified means a published challenge |
| catalog reading | none | pages, search, one server, online statuses | PostgreSQL, Redis, game servers | pages cut by OFFSET from an order that moves, one more read per row | what is missed, repeated or shown as liked is accounted for by changes |
| validation | none | `Validate` of the bodies | | create and update check differently | what is stored is well formed |
| rate limit | `ratelimit:<ip>:<path>` | `Throttle` | Redis | INCR and EXPIRE are two calls | bounded requests per window; whoever is refused is let in again |
| sessions and tokens | the `refreshToken` cookie, JWTs | `Login`, callbacks, `Refresh`, `Logout`, `OptionalJWTAuth` | PostgreSQL | tabs share a cookie, replies come in any order, access tokens outlive a sign-out | signed out stays signed out |
| avatars and current user | `"user".avatar` | everything under `/user` | PostgreSQL | the row is read before the handler and used in it | what is shown was the user's while the request was under way |
| turnstile | none | `Verify` | Cloudflare | | |
| configuration, schema, start-up, HTTP plumbing, generated code | none that changes | | | | |

## 2. Modules

Each module's state is named after what the code keeps; a request has a program
counter (`pc`) and takes one step per storage call, so that any other request,
a key's expiry, a crash or an error can come between two calls. Definitions
marked "Mutant" are wrong versions of the definition that follows; they are not
part of any specification and serve to show that each property can fail.

| Module | Models | State and actions |
|---|---|---|
| `VoteLedger` | what the like button promises | `Cast`, `Retract`, `Lapse`, `Close` change a vote and its tally in one step |
| `Likes` | `ServerService.Like`, `toggleGuestLike`, `ToggleUserLike`, `UpdateLikesQuantity`, `DeleteServer`, the guest keys | one action per statement or Redis call. Row locks are derived from where transactions stand (`HoldsRow`, `Erasing`); an UPDATE of the counter and the COMMIT behind it are one step, as the row lock keeps other writers out between them. `KeyFault` and `UpdateFault` are calls whose effect and answer part ways |
| `LikesProofs` | | theorems about `Likes`, section 5 |
| `WorkerPool` | `workerpool.go` | one operator per channel operation; a `select` takes any ready case |
| `PoolClients` | the pool with callers that submit and stop at any time | `Submit` may block (`parked`); a send on the closed channel is a panic |
| `Poller` | `pollAll` and `Start` over the pool, the end and restart of the process | the round's WaitGroup, results channel and ranking; a `Tick` is the end of an interval, the leaderboard lives for two |
| `Leaderboard` | `GetLeaderboard` and its cache, with the poller as second writer | a miss reads a page and fills the key in two steps; `StartRound` and `EndRound` are what is left of a round |
| `Registration` | `auth_service.go`, `mail_service.go`, the two OAuth callbacks, `user_repo.go` | a code is the number of its mail; addresses are people with a spelling, or none at Google, which is stored as `""`; the unique indexes are `Clashes`; `overtook` remembers whose look for an account was overtaken by another request |
| `Agents` | `agent/server.go`, `agentclient`, `metrics_repo.go`, the poller's metric rows | session ids and times are numbers taken before the row they are for is written |
| `Catalog` | `Create`, `Update`, `Remove`, `InitVerification`, `ConfirmDNSVerification` and their repositories | an edit keeps the columns it read and writes all that can be edited; `zone` is the DNS |
| `Validation` | `Validate` of the create and update bodies and the page parameters, `isValidHostPort`, `isValidDomain` | operators that return the fields with an error; a text is its length and padding, an address its form, host, port and spaces |
| `Listing` | `FindPage`, `SearchServers`, `FindOne`, `GetOnlineStatuses` and their handlers | a visitor asks for page after page; the SELECT, each like looked up and each dial are steps; creations, edits, removals and votes come between. A user's own vote in another tab is one transaction (`ToggleUserLike`), a guest's key changes alone (`ToggleGuestKey`) and the counter with a `Vote`, or never |
| `Throttle` | the middleware and `CheckRateLimit` | the keys of one address; one operator per Redis call and its error |
| `Front` | `middleware/auth.go`, login, callback, refresh and logout, `user_handler.go`, behind `Throttle` | each tab has a request that goes from the rate limit over the token to the handler and back; the cookie is shared, the access token is each tab's own; the reply is a step of its own and may be lost |
| `FrontProofs`, `PollerProofs`, `LeaderboardProofs`, `RegistrationProofs`, `AgentsProofs`, `CatalogProofs`, `ListingProofs` | | theorems about the module each is named after, section 5 |
| `MCLikes`, `MCRegistration`, `MCAgents`, `MCCatalog`, `MCListing`, `MCFront` | | values of constants for TLC |

How they compose: `PoolClients` and `Poller` extend `WorkerPool` and give its
operators callers. `Likes` implements `VoteLedger` under the refinement mapping at
its end. `Leaderboard` sees of `Poller` only that a round reads the servers in one
step and publishes them in a later one, which is what `BoardIsWholeRound` and
`RoundsDontOverlap` show of `Poller`. `Agents` and the poller share
`server_metrics`; `Catalog` sees of `Likes` a counter that goes up and down in
single statements, and `Listing` sees of both what a commit changes. `Front` extends
`Throttle` and says who makes its calls; `Listing` extends `Validation`, so that its
catalogue holds what the validation lets in.

Abstractions used everywhere: names, addresses, passwords, tokens and payloads are
model values or numbers; logging, formatting and HTTP are left out; a storage call
that fails without an effect ends the request where the code returns the error
and is dropped where the code drops it. A counter that only grows is bounded by a
constant named `Max...`.

## 3. Runs

| Run | What it asks | Instance | States |
|---|---|---|---|
| `likes_faults` | types, orphans and the drift of the counter with two tabs and failing calls | 3 clients: two tabs of a user, one signed out at times, and one that only removes; 2 servers; 1 lapse, 1 fault, 1 unlike that finds no row | 1.9 M |
| `likes_ledger` | `Likes` implements `VoteLedger`; the counter is exact at rest; likes are answered | 2 clients, one signed in and later not; 2 servers; 2 lapses; no fault | 0.2 M |
| `likes_two_tabs` | the counter at rest with one user in two tabs: violated | 2 clients, 1 user, 1 server | |
| `pool` | without a stop all that is submitted runs | 2 workers, 4 tasks, channel of 1 | 15 k |
| `poller_rounds` | panics, overlap of rounds, whole rankings, the board's life, the end of rounds and of `Start` | 2 workers, 2 servers, channel of 1 | 0.3 M |
| `leaderboard_cache` | what is served is a ranking, never an empty one; the cache catches up | 2 visitors, 2 servers, 3 changes | 0.3 M |
| `registration` | which races make two accounts of an address, a code proves the address, how many codes are sent | 2 browsers, one shared by 2 people, who have an account without an address each; 4 accounts in all, 2 codes sent before, 4 codes in all, 1 dropped error | 1.7 M |
| `agents_reports` | where reports end up, what is acknowledged, which metric is the latest | 3 agents (1 with a wrong token), 2 servers, 3 rows, 1 restart | 0.9 M |
| `agents_null_token` | the same of tokens for servers as `CreateServer` leaves them: violated | 2 agents, 1 server | |
| `listing` | what is missed or comes twice, which servers are shown as liked, statuses | 3 servers at the start, 4 in all, 2 changes, 9 questions | 0.2 M |
| `front` | requests let through, let in again, signed out for good, avatars that are shown | 2 tabs that do 4 and 5 kinds of request, 2 users, 1 avatar, 1 request per window on `/user/avatar`, 1 failing call | 0.7 M |
| `catalog_edits` | stale edits and verifications against votes, edits and removals | 2 clients, 2 servers one after the other, 2 challenges | 1.7 M |

Why the bounds are enough to be of interest. Two requests of one voter, one server
and two storage calls are what each race of the like button needs, and a removal
adds a third party. A channel of one is full after one Submit and empty after one
Take. A round of two servers has results in both orders and a tie. Two browsers
and one address are what every race of the registration needs; a person with two
codes behind them reaches the limit of three with the next, and a dropped error or
two sends at once go past it; Google spells one address in a way that registration does
not, or tells none, and somebody else without an address has an account already, as the
first has with Discord. In
`listing` pages have one or two rows of three or
four servers, so that an order has several pages and two changes come between any
two of them; two servers have as many likes; the bodies and edits have every kind
of address the checks let through or refuse. In `front` the second request of a
window is refused and the key's end, a lost EXPIRE and a late INCR all happen; one
tab signs in and out while the other refreshes or comes back from a provider, and
both of the users can be signed in by turns; an avatar is stored by one tab and
read, deleted or looked up by the other. Only `/user/avatar` has a counter that
is followed: counters of different paths share nothing. In `catalog_edits` there is one value of
`name_id`, so at most one server is listed at a time and the second takes the
place of the first; two listed servers meet only in the unique indexes, which
refuse and change nothing. `likes_ledger` fixes the voters of a client so that
`OneTabPerVoter` holds, the assumption under which the ledger is implemented;
`likes_two_tabs` shows that it is needed. The ledger also needs `MaxFaults = 0`.
`likes_faults` has neither: there a user has two tabs and calls fail, and `DriftBounded`
says how far the counter can be off. `MaxStray` bounds the unlikes that find no row, as
each is one more by which the counter falls behind. Two requests of one address are in
no run (`OneTabPerGuest`): both may find the key missing, and each such pair is a
further way to drift, which section 4 names.

`MaxUsers` bounds the accounts, of which somebody with no address at Google and with
Discord may have several. `Members` are those there are at the start.

The passing runs take every action. `pool` has `CHECK_DEADLOCK FALSE`, as the system
stops there when everything is run or stopped; no other run does.

### Fairness

| Specification | Assumed | Because |
|---|---|---|
| `Likes!FairSpec` | strong fairness of a request's steps, weak fairness of a deadlock's victim | statements end, PostgreSQL serves lock waiters in turn and breaks deadlocks after `deadlock_timeout`. Strong, as a statement that waits is enabled only between other holders. The lock of a removal is not owed: a stream of inserts may starve it |
| `PoolClients!ClientSpec`, `Poller!Spec` | weak fairness of the workers, and in `Poller` of `Start`; strong fairness of a Submit and of the select that sees the context | the Go scheduler runs goroutines; a channel serves waiting senders in turn; a select with several ready cases picks at random. Dials end after two seconds, storage calls return. Nobody has to submit or stop |
| `Leaderboard!Spec` | keys expire, a visitor's calls return | Redis; contexts with a timeout. The collector owes nothing |
| `Agents!Spec` | calls that reached the collector are handled | gRPC server |
| `Front!FairSpec` | keys that have an end reach it; a request that was sent goes on or fails | Redis; a handler's calls return or the connection ends. Nobody has to send anything |

The other specifications assume none and are checked for safety.

## 4. What the runs show of the code

Besides what holds, the runs found two places where the code does not do what it
says, each with a trace:

- **Two unlikes of one user** (`likes_two_tabs`). `ToggleUserLike` counts the row in
  one statement and deletes it in the next under READ COMMITTED. Two tabs both
  count one row, one deletes it, the other deletes nothing, and both take one off
  the counter (`server_repo.go:208-219`). The same holds for two guests' requests of one
  address (`server_service.go:86-98`), in both directions. Of two likes of a user that
  both counted no row one INSERT fails and counts nothing, as `DriftBounded` says.
- **Tokens of agents** (`agents_null_token`). `RegisterAgent` compares the token only if
  `verification_token` is set, and nothing sets it: `CreateServer` inserts NULL and
  `InitVerification` stores the agent token in `server_verifications`, which nothing
  reads (`server.go:62`, `hytale_agent.proto:11`).

Met while modelling, and not the subject of a run:

- Two overlapping edits of a server: the second writes back what the first changed
  (`Update` reads and writes the whole row). `QuietEditsLast` says that this is the
  only way to lose one.
- Google's address is stored as spelled (`google_service.go:127`), registration's in
  lower case, and the unique index tells them apart: a sign-in and a registration
  at the same time make two accounts, and so does a sign-in whose look for the address
  fails, as the error is dropped (`google_service.go:117`).
  `OneAccountUnlessOvertaken` says that there is no other way: `overtook` has the people
  for whom one of the two happened.
- Somebody to whom Google gives no address is stored with `""`, not NULL
  (`google_service.go:127`), which is UNIQUE: the next one cannot sign up.
- More than three codes go to an address if two requests for one cross: the count is
  read in one Redis call and written in another (`mail_service.go:53-59`).
  `SendsBounded` counts such sends apart (`crossed`) and says that nothing but them
  and an error of Redis goes past three.
- `StopRegisterSession` clears the cookie and leaves the code in Redis.
- Sessions of agents are never removed.
- The leaderboard does not count players: the score is that of the likes.
- `PATCH` accepts an empty `ip` and an empty `domain`, which `POST` refuses, and stores
  `""`, which is UNIQUE where NULL is not.
- `main` does not wait for `Start` to return (`cmd/collector/main.go:67`).
- `Submit`'s result is ignored; a refused task would leave the round waiting. It is
  unreachable, as only `Start` submits and stops, one after the other (`RoundEnds`).
- An EXPIRE that is lost (`redis.go:138`) leaves a counter without an end: once it is
  over the limit the address is refused on that path until somebody deletes the key.
  `LetInAgain` makes this its one exception (`lost`).
- A refresh that is under way when another tab signs out sets the cookie again, and
  access tokens stay good for what is left of their life. `SignedOutStays` is about
  sign-outs that no sign-in or refresh was racing.
- `SearchServers` orders by likes alone, so servers with as many likes may come in
  another order on each page even when nothing changes; a list ordered by likes only
  (`FindPage` with that one order in the body) does the same. `PagesMissFew` says what
  is certain of each.
- The counter and the liked flag of a row are read by two calls, one more read for
  every row of the page (`server_service.go:126`), and a guest's key is set before the
  counter goes up, whose error is dropped (`server_service.go:92-95`). A server may
  show as liked with a counter of zero, so no property relates the two;
  `LikedWasVoted` ties the flag to the vote.
- `POST` checks the trimmed address and stores it with its spaces, so that such a
  server never counts as online (`dto.go:36`, `Status` in `Listing`). `PATCH` may leave a
  server without any address or without tags, which `POST` refuses.
- The servers of a status request are dialled one after another, up to three seconds
  each, behind a write timeout of ten (`server_service.go:233`, `cmd/catalog/main.go:66`).
- `PUT /user/avatar` with a multipart body stores the address of a file that nothing
  uploads (`user_handler.go:86`).
- `GracefulStop` waits for calls without a bound (`cmd/collector/main.go:69`).

## 5. Proofs

### The like button

`LikesProofs` proves for all sets of clients, voters and servers, all values of the
bounds and every interleaving:

| Theorem | States | Assumes |
|---|---|---|
| `TypeCorrect` | `Spec => []TypeOK` | |
| `OrphanFree` | `Spec => []NoOrphanLikes` | |
| `CounterTracksVotes` | `Spec => []DriftBounded` | `OneTabPerGuest` |
| `QuietCounterIsExact` | `Spec => []TallyMatchesVotes` | `OneTabPerVoter` |
| `ImplementsLedger` | `Spec => LedgerSpec` of `VoteLedger` | `OneTabPerVoter`, `MaxFaults = 0` |

All rest on `ConstantsAssumption` (clients and voters are finite, users are not
guests), which TLC evaluates in the runs. `OneTabPerVoter` and the weaker
`OneTabPerGuest`, which lets users have any number of tabs, say who uses the site and
not what the code does, so they are hypotheses of the theorems; section 4 has what
happens without them.

The argument is a chain of inductive invariants, each of which needs the one
before:

1. `TypeInv` adds to the types that a request at a step of the transaction carries a
   user and one at a step of the guest path a guest (`Bound`).
2. `LockInv` adds `LocksHeld`: a transaction that has inserted a like keeps its server
   in place, and a server is erased by one transaction, alone. Without it an
   insert could commit after the cascade, and `NoOrphanLikes` is not inductive.
3. `WriteInv` adds what has been written: a row of `"like"` is being inserted or deleted
   by one transaction (`RowsHeld`), and the vote of a request that has written its
   half is as it wrote it (`VoteAsWritten`). It says nothing of what a user's request
   has counted, which another tab may have changed since.
4. `DriftInv` adds that retractions of lapsed votes are covered by lapses
   (`LateCovered`), and `DriftBounded`. The step lemma says of each action by how
   much it changes the counter and each of the sets the drift is made of; where
   `GREATEST(.., 0)` cuts, the votes behind the counter were fewer, by an unlike that
   `stray` has or by a fault.
5. With one tab per voter an unlike finds the row it has counted, unless the server is
   gone (`UnlikesFind`), so `stray` stays zero (`FindInvariant`).

`QuietCounterIsExact` follows from 4 and 5: at rest nothing is under way and the drift is zero.

`ImplementsLedger` is the refinement that `likes_ledger` checks on an instance. The
ledger's votes are the likes and keys of listed servers (`Voted`), its tally is the
counter corrected by the requests between their two writes (`Tally`). One lemma for each
step that the ledger can see names the action it maps to: the two inserts are `Cast`, the
two deletions `Retract` or, for a key that is gone already, `RetractLapsed`, the expiry
`Lapse` and the commit of a removal `Close`; the UPDATE of the counter and all other steps
leave the view as it is. `LateCovered` gives `RetractLapsed` the lapse that it takes back,
and `DriftBounded` says that the UPDATE of the counter is never cut at 0, which would
move the tally. With `MaxFaults` above 0 the claim would be false: a key can be set
whose UPDATE then fails, and the drift stays (`DriftBounded` allows one for each fault).

### The front

`FrontProofs` proves for all sets of tabs, users, avatars and followed paths, whatever
each tab does, every limit and every number of failing calls:

| Theorem | States | From |
|---|---|---|
| `TypeCorrect` | `Spec => []TypeOK` | `TypeInv` |
| `AdmissionBounded` | `Spec => []AdmittedBounded` | `TallyInv` |
| `SignOutLasts` | `Spec => []SignedOutStays` | `OutInv` |
| `AvatarsAreCurrent` | `Spec => []AvatarIsCurrent` | `CurrentInv` |

They assume `ThrottleAssumption` and `FrontAssumption` (the limit is positive, nobody is
no user and no avatar is no avatar), which TLC evaluates in `front`. The sets may be
infinite. Each theorem has an invariant that is inductive together with `TypeInv`:

1. `TypeInv` adds to the types what a request is at each step (`Fits`): a counted one
   has a followed path, one that replies with a sign-in has a user, one that asks for
   an avatar of another user names one.
2. `TallyInv` adds to `AdmittedBounded` that whoever was let through was counted or met
   an error: without it INCR could answer a count below the number let through.
   `StepCalls` reduces a step of `Front` to one call of `Throttle`, or none.
3. `OutInv` adds to `SignedOutStays` that no request under way could sign anybody in:
   there is no login among them, and every refresh was sent without a cookie. One
   lemma per way to move a request on (`EndsStartsNone`, `MovesStartNone`,
   `CarryingStartsNone`) says that it starts no sign-in; `SendKeepsOut` is the only
   step where one could begin.
4. `CurrentInv` says of a request that is to show an avatar that the present one is in
   `during`, and so is the one it carries from `OptionalJWTAuth` to the reply. A store
   adds to `during` of everyone who waits for that user (`StoresCurrent`).

### The poller

`PollerProofs` proves of `Poller` for every number of workers and servers and every capacity
of the channel:

| Theorem | States | From |
|---|---|---|
| `RoundInvariant` | `Spec => [](RoundInv /\ LifeInv)` | |
| `TypeCorrect` | `Spec => []TypeOK` | `RoundInv` |
| `NoRoundPanics` | `Spec => []NoPanic` | `RoundInv` |
| `RoundsApart` | `Spec => []RoundsDontOverlap` | `RoundInv` |
| `BoardLives` | `Spec => []BoardOutlivesInterval` | `LifeInv` |
| `WholeBoards` | `Spec => BoardIsWholeRound` | `RoundInv` |

They assume `PoolAssumption` (workers are finite, the channel has room for one, a task
is none of a worker's states) and `PollerAssumption` (servers are finite, no board is
not a board).

`NoPanic` and `RoundsDontOverlap` say where the poller never is; neither is inductive.
`RoundInv` adds what a round's state is made of: each server of the batch is in one
place, still to be submitted, in the channel, with a worker, or among the results
(`PlacesOK`); the WaitGroup is the number of those in the channel and with workers
(`CountOK`), so that it is zero exactly when the results are complete; a result has
what its own task found (`FoundOK`); the channel of results is open while servers are
submitted and waited for (`PhaseOK`), so nobody sends on it afterwards. With these, what
is ranked is a permutation of the batch. `LifeInv` follows the interval: at the end of
a round in time the key has both of its intervals, at a tick one.

### The leaderboard

`LeaderboardProofs` proves for any number of requests, servers and changes and every
length of a page:

| Theorem | States |
|---|---|
| `BoardInvariant` | `Spec => []BoardInv` |
| `TypeCorrect` | `Spec => []TypeOK` |
| `RankingServed` | `Spec => []ServedIsARanking` |

They assume `LeaderboardAssumption`. `BoardInv` adds to the types that what is under the
key is in order (`BoardOK`), and what a request is about to write as well as what it has
answered (`RankingInHand`): the fill writes what it ranked whatever happened since. A page
is empty only when nothing is listed, and `EmptySeen` says that then every request under
way has that in its history. A round has servers to rank (`RoundOK`).

### Registration and mail codes

`RegistrationProofs` proves for all sets of browsers and people, whoever shares a
browser, every number of codes and of errors:

| Theorem | States | From |
|---|---|---|
| `MailInvariant` | `Spec => []MailInv` | |
| `TypeCorrect` | `Spec => []TypeOK` | `MailInv` |
| `CodesProve` | `Spec => []CodeProvesAddress` | `MailInv` |
| `FewCodesSent` | `Spec => []SendsBounded` | `MailInv` |
| `OneAccount` | `Spec => []OneAccountUnlessOvertaken` | `MailInv`, `RowsInv` |

All assume `RegistrationAssumption` and `MembersAssumption`: besides types they say that
no address had more than three codes at the start, which is what the code lets be sent,
nor more than one account. How Google spells an address is left open.

`MailInv` adds to the types: every number that is kept, typed or read is that of a mail
that was sent, and a code that is kept is of a mail to its own address (`MailOK`). For
`SendsBounded` the count in Redis is what ties the requests together: `SendsOK` says that
it accounts for all sends that no other crossed but three for each dropped error, that
a request past the limit check leaves room for one, and that one about to save has read
no less than was sent. `RowsInv` says of a request
that is about to make an account for an address that there is none, or that it was
overtaken (`NoneFound`): whoever inserts meanwhile sees it waiting. The unique index
then refuses a second account of the same spelling.

### Agents

`AgentsProofs` proves for all finite sets of agents and all servers, tokens, bounds and
numbers of restarts:

| Theorem | States | From |
|---|---|---|
| `SessionsInvariant` | `Spec => []AgentsInv` | |
| `TypeCorrect` | `Spec => []TypeOK` | `AgentsInv`, `IdsSuffice` |
| `ReportsReach` | `Spec => []ReportsReachOwnServer` | `AgentsInv`, `RowsInv` |
| `AcknowledgedStays` | `Spec => []AcknowledgedIsSaved` | `RowsInv` |
| `PageGoesOn` | `Spec => PageNeverGoesBack` | `AgentsInv` |

They assume `AgentsAssumption`. `AgentsInv` says that an id is of one registration: it is
not above `ids`, whoever holds it and finds it in the map is the agent it was given to,
one that Ping refused is not in the map, and a report that is being saved is of a
session that is (`SessionsOwned`). `TablesChange` reduces every step to one of three
things it does to the tables: insert one row of a listed server, remove a server with
its rows, or nothing; rows, acknowledgements and the latest metric follow from it: the
largest time of a table that only grows while its server is listed.

### Catalog editing and verification

`CatalogProofs` proves for all sets of clients, users, domains and names, any number of
servers and challenges:

| Theorem | States |
|---|---|
| `CatalogInvariant` | `Spec => []CatalogInv` |
| `TypeCorrect` | `Spec => []TypeOK` |
| `VotesKept` | `Spec => []VotesSurviveEdits` |
| `QuietEditsKept` | `Spec => []QuietEditsLast` |
| `VerifiedIsPublished` | `Spec => []VerifiedWasPublished` |

They assume `CatalogAssumption`. `CatalogInv` adds to the three properties what a request
knows at each step (`Fine`): one about to write an edit has the row as it is, unless
another edit was written since (`raced`) or the server is gone, and ids are not used
again; one about to mark a challenge has found its value in the zone of the domain it
had read, and the challenge is of the server; one about to mark the server has a
challenge that is marked already (`Proved`). `OthersKeep` says that no step of another
takes this away: challenges and zones only lose what is of a removed server.
`TouchKeeps` is for steps that change columns no edit writes, `ProofsKeep` for those
that add to challenges and zones.

### Catalog reading

`ListingProofs` proves for every catalogue, every set of bodies and queries and every
number of changes that come between a visitor's requests:

| Theorem | States |
|---|---|
| `ListingInvariant` | `Spec => []ListingInv` |
| `TypeCorrect` | `Spec => []TypeOK` |
| `LikesWereVotes` | `Spec => []LikedWasVoted` |
| `AllStatusesAnswered` | `Spec => []StatusesComplete` |
| `PagesInvariant` | `Spec => [](ListingInv /\ PagesInv)` |
| `PagesAreRead` | `Spec => []PagesMissFew` |

They assume `ListingAssumption`: the rows at the start are rows, bodies and queries have
typed fields, no body has a field for the counter, and a missing direction is not one of
the two there are. That what is stored has passed
the checks is proved from `CreateErrors` and `UpdateErrors`, whose address checks differ:
a body to create is trimmed before, one to edit is not (`TrimmedIsStored`,
`ValidIsStored`).

`ListingInv` adds to the properties what a request has in hand at each step (`StageOK`),
that a vote that stands while a question is open is among those known since it was
asked (`VotesKnown`); that a server to be shown all along
has its status or its id is still to come (`StatusesFollow`), and what answers the
question now lies between `steady` and `ever` (`QuestionOK`); and that all pages before
the one at hand were full (`PagingOK`): this bounds the page by the number of servers.
Changes of the table go through one lemma, `ChangeKeeps`; a guest's key is no change of it.

`PagesInv` is about the rows read over all pages, and needs no induction over them. A
server's place in an order is the number of servers that come before it (`Above`;
`PlaceIsRank` says that a SELECT puts it there), so what is still to come after `Horizon`
rows are the servers with that many before them (`Ahead`, `Late`).

- In an order that ends in created_at, any two servers are in order (`OrderFacts`). A
  change is one to a single row (`OneRowChanges`), and then one server at most passes a
  given place in each direction (`OneCrosses`, `Crossings`): either the changed one, or
  the one next to that place. `SlipsCounted` adds these up: rows read more than once, with
  servers read that are still to come, are no more than the changes, and so are servers
  neither read nor to come. A page moves the horizon on by as many rows as it takes from
  those to come (`PageTakes`), so both counts stay as they are. After a page that is not
  full nothing is to come, and the two counts are those of the property.
- By likes alone two servers may compare equal, and each SELECT may order them anew. What
  does not depend on the SELECT is which places servers with n likes take together
  (`Slots`, `SlotIsLikes`), and `LikesInPlace` says that every row read is at a place of
  its likes. A change ends this; the property then promises nothing.

### What stays with TLC

- Liveness (`LikeAnswered`, `SubmittedTasksRun`, `RoundEnds`, `StopsWhenTold`,
  `BoardCatchesUp`, `LetInAgain`): neither fairness nor ENABLED can be reasoned about with
  the prover's backends.

Every invariant and every other action property a passing run checks has a theorem.

No module with a theorem uses recursive operators. `Catalog` has its own `Over` and
`Added` for what `@@` and `:>` of module TLC do, as these have no definition the prover
can expand.

## 6. Plan

Done: the modules of section 2, in the order like button, pool, poller, leaderboard,
registration, agents, catalog, listing, front; the theorems of section 5.

Left: liveness for every value of the constants, should the prover's backends learn
fairness.

## 7. Not modelled

- Turnstile: one HTTP call that changes nothing here. Its yes or no is a guest's
  request of `Likes` that goes on or fails.
- Configuration, schema creation, start-up and the nginx configuration: done once before
  anything runs. What they fix is in the models: unique indexes, cascades, times to
  live, limits.
- CORS, response helpers, the docs handler, the swagger text, the generated gRPC code,
  mock data: no state that outlives a request, and no order that matters.
- The numbers of servers and players on a page, single reads that nothing else depends
  on. Of the players, `Agents` has the latest metric that is read; that a page shows 10
  where there is none, and where the read fails (`server_service.go:117`, `130-134`,
  `174-177`), is left out. `GetOnlineStatus` of one server is a status request with one id.
- Clocks: times to live and timeouts are steps that may come at any moment; that a
  timeout is longer than another is not expressed, so the status request that
  outlasts its connection (section 4) has no property.
- The lives of tokens: one that has expired is refused where it is checked, at any
  time; those of Discord and Google are used once, at sign-in.
