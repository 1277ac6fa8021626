# Verification of the appside-down backend

TLA+ models of the backend in `src/` (a NestJS API, a BullMQ worker, PostgreSQL
through Prisma, Redis), TLC runs over them and TLAPS proofs about them.

- [Inventory](#inventory): the parts of the system, their state and what makes them right
- [Modules](#modules): which module models which part, and how
- [Runs](#runs): what each run checks, its bounds and why they are enough
- [Fairness](#fairness)
- [Proofs](#proofs)
- [Limits](#limits): what the code does not promise, what is only model-checked, what is left out
- [Plan](#plan)

`PROJECT.json` lists the components, runs, mutants, theorems and hazards, and maps
each definition to the source lines it stands for.

## Inventory

The API process (`src/main.ts`) serves HTTP requests. The worker process
(`src/worker.main.ts`) takes jobs of the queue `study` from Redis. Both write one
PostgreSQL database under its default isolation level, READ COMMITTED. There is no
in-process state shared between requests: what interferes is requests and jobs
that read a row, await, and write it later.

| Component | State | Operations | Interacts with |
|---|---|---|---|
| study domain (`study/strength.ts`, `event-normalize.ts`) | none | `applyEvent`, `foldStrength`, `statusForLevel`, `normalizeEvent` | called by the processor |
| study pipeline (`study/study.service.ts`, `study.processor.ts`, `study.module.ts`, `worker.main.ts`) | the Redis queue, `StudyEvent`, `Flashcard.{status, strengthLevel, lastCorrectAt, lastWrongAt}` | `submitEvents`; `process` with its transaction; BullMQ's retries, stalls, removals | cards are edited and deleted by the API meanwhile |
| flashcards | `Flashcard` | create, update, remove, list | status is also written by the worker and by `resetProgress` |
| modules | `Module`, its cards | create, update, delete, `saveToLibrary`, `resetProgress`, listings, public catalogue | copies refer to their source; `divergedAt` |
| sessions (`auth.service.ts`) | `User.hashedRt`, `User.password`; signed tokens at the clients | signup, login, refresh, logout, change password, delete account | rate limit; password reset revokes the session |
| password reset (`auth.service.ts`) | `PasswordReset` (code, expiry, attempts) | forgot, reset | mail (Resend), rate limit, sessions |
| auth rate limit | Redis counters with a lifetime | assert, record, reset | login, forgot |
| folders and tags | `Folder`, `Tag`, their relations to `Module` | create, rename, delete, add and remove modules, set tags | modules |
| push tokens | `PushToken` | upsert, remove | - |
| avatars and profile | `User.avatarUrl`, files on disk | upload, remove, profile | static file server; a deleted account leaves its file |
| pagination, progress | none | cursors, progress counts | listings |
| request timeout | a timer per request | answers after 30 s | every handler, which goes on |
| throttling | counters of `@nestjs/throttler` | guard | every request |
| schema, Prisma client | the database constraints | - | everything |
| application shell | none that changes | bootstrap, logging | - |

What makes each part right, and what makes that hard:

- **Study pipeline.** Each answer counts exactly once in the level of its card,
  whatever is delivered twice, late, out of order or cut short; no acknowledged
  job loses answers; levels do not fall; the order of row locks prevents lock
  cycles; a queued batch ends. Hard because BullMQ delivers at least once, the
  transaction reads its inputs statement by statement, a stalled handler may go on
  beside the one that took over its job, and the API edits the same rows.
- **Study domain.** The level of a card is a function of its set of answers (for
  distinct times), stays between the baseline and 5, respects the mode ceilings
  and never loses to a late answer. Hard because the ceilings make the fold depend
  on order and offline clients deliver late.
- **Flashcards and modules.** An edit never breaks a running job for good; after an
  edit a module shows the cards it was sent, and these keep their progress; a copy that
  was edited has `divergedAt`, a user has one copy of a module, the catalogue hides nothing
  without showing what it is a copy of, and every module names its author, also when the
  account is gone. Hard because each looks first and writes later.
- **Sessions.** A refresh token works until the next one is stored; a logout, a change
  or reset of the password, or the reuse of a replaced token ends the session for good.
  Hard because login and refresh decide on tokens, await their signing and then store
  them unconditionally, and because passwords and sessions change in separate statements.
- **Password reset.** A code takes five wrong guesses, and a user who is gone gets none.
  Hard because the counter is read before it is incremented, every update and delete
  names the user and not the code, and the code is deleted after the password is set.
- **Rate limit.** Each counter ends with its window, and its limit is exceeded by no more
  than what runs at once. Hard because the increment
  and its lifetime are two calls, and the limit is tested before the increment.
- **Folders and tags.** A tag belongs to one folder and names are unique in it; a
  module wears the tags it was given last. Hard because of look-then-write
  and because `removeModules` leaves tags behind.
- **Avatars.** `avatarUrl` names a file that exists, and a picture that was replaced
  is not seen again. Hard because the file system
  and the database change one after the other.
- **Push tokens.** The token of a device belongs to the account logged in on it. Hard
  because requests of several accounts about one row come late or twice.
- **Timeout.** An answer of 408 says that the request was cancelled. Hard because it was not.
- **Pagination.** Pages show each row that stays in its place exactly once, whatever
  other rows do. Hard because each page is a query of its own and rows tie.

The behaviours hard to test are listed, each at its line, under `hazards` in
`PROJECT.json`.

## Modules

| Module | Contents |
|---|---|
| `Strength` | the pure functions of `strength.ts` and `event-normalize.ts` |
| `StrengthHistory` | one card, whose answers arrive in any order, and what the fold promises about it |
| `StudyData` | the tables, and the processor's data handling: ownership, `createMany`, the history window, the columns written |
| `StudyLedger` | the abstract specification: a batch is learnt in one step |
| `StudyPipeline` | the queue, the workers and their transactions, and the API's edits of cards |
| `RateLimit` | the counters of logins and password reset mails in Redis, and the calls that test and count them |
| `Accounts` | one user's session, password and reset code, with concurrent calls of `auth.service.ts` |
| `Listings` | a client's walk through a paged listing whose rows change |
| `Library` | modules, their copies, the catalogue, and what deleted accounts leave of them |
| `Timeouts` | `Library` behind the 30 s timeout, with clients that wait for their answers |
| `ModuleCards` | the cards of modules: lists sent by clients beside single edits |
| `Folders` | folders, their modules and tags |
| `Content` | `Listings`, `ModuleCards` and `Folders` side by side: what a user's library holds and shows |
| `Avatars` | the avatar file beside `avatarUrl` |
| `AvatarView` | the abstract specification of avatars: what others see |
| `Devices` | one device's push token under several accounts |
| `MC*` | instances for TLC; `MCStudyPipeline` holds the cards and batches shared by the pipeline's four runs |
| `*Proofs` | theorems, see [Proofs](#proofs) |

Definitions named like one of the model's with a suffix (`StallUnlimited`,
`InsertEventsAutocommit`, `ApplyEventClamped`, ...) are plausible wrong versions of
it. No specification uses them; each is paired under `mutants` with the property
that fails when it takes the right one's place.

### StudyPipeline and the code

State. `jobs` is what BullMQ keeps in Redis, by job id. `rows` and `cardState`,
`level`, `status`, `lastCorrect`, `lastWrong` are the committed tables; `cardState`
also tells ids not yet created from deleted ones, since uuids never come back. The
rest is one `process()` call per worker: where it stands (`pc`), its job, the
payload, the events it found it may apply, and its open transaction (`seen`,
`history`, `todo`, and the uncommitted `inserted` and `writes`).

| Action | Code |
|---|---|
| `Submit` | `submitEvents`: size check, sha256 of the sorted ids as job id, `queue.add` |
| `Fetch`, `Promote`, `Stall`, `Failed`, `Complete`, `Prune` | BullMQ, as configured in `study.module.ts`: 3 attempts, exponential backoff, removal on completion and, later, on failure |
| `RejectPayload` | `normalizeEvent` throws; the processor turns it into an `UnrecoverableError` |
| `CheckOwned` | the `findMany` of owned cards outside the transaction and the filter |
| `InsertEvents` | `createMany({ skipDuplicates: true })` |
| `ReadCards`, `ReadHistory` | the two reads of the transaction; under READ COMMITTED each sees what is committed at that moment, and its own writes |
| `WriteCard`, `CardGone` | one `flashcard.update` in lock order, or its P2025 when the card is gone |
| `Commit` | the end of `$transaction` |
| `TxFails` | any statement fails: timeout, lost connection, deadlock victim |
| `Crash` | the process dies; the transaction is rolled back, the job stays active until its lock is swept |
| `CreateCard`, `UpdateCard`, `RemoveCard`, `ResetProgress` | the API's writes to the same rows |

A row lock is held from `WriteCard` to the end of the transaction, and updates and
deletions of that card by others wait for it; an inserted unique key makes another
insert of it wait. A stall takes a job from a handler that may go on working, so
even one worker process can be "two workers" in the sense of the model.

The model keeps ids, times, modes, answers, levels and ownership. It leaves out
`firstTry` and `responseMs` (stored, never read by the server), `Module.updatedAt`
(orders listings), and the text of cards. Cards that existed before levels were
introduced have the baselines 2 and 5 that migration `20260917120000` gave them,
and their rows have no mode.

`StudyLedger` has the tables only. `Learn(b)` stores the events of `b` that its
user may answer and that are not yet stored, and regrades the cards from their
whole history, all in one step and any number of times. `StudyPipeline` with one
worker implements it under the identity mapping of the tables: the commit maps to
`Learn`, every queue step to a stutter.

### RateLimit and the code

State. `count` and `ttl` are the Redis counters by key, 0 for no key and for no
lifetime; `pc` and `nth` say at which Redis command each concurrent call stands and
with which of its two keys.

| Action | Code |
|---|---|
| `Check` | `assertUnderLimit`: GET, and 429 at the limit; both keys are tested before anything is counted |
| `LoginFails`, `LoginSucceeds` | `login`: recordLoginFailure follows, or `resetLoginFailures` deletes the counter of email and ip |
| `Increment`, `Expire` | `increment`: INCR, and EXPIRE by the call that got 1 |
| `BreaksOff` | a command throws or the API stops: the call ends where it is |
| `Tick` | Redis: lifetimes run down, counters without remaining lifetime go |

### Accounts and the code

State. `user`, `password` and `accepted` (what `hashedRt` is the hash of) are the `User`
row, `row` the `PasswordReset`. `issued` are the token pairs that reached a client. A
token is named by the second it was signed in (`iat`): two pairs signed for a user in one
second are the same strings. `pc`, `token`, `code` and `newPassword` are the calls.
`wrong`, `begun`, `session` and `overlap` record what happened, for the properties.

| Action | Code |
|---|---|
| `Signup`, `Login`, `Refresh` | up to the decision to make tokens, with all checks; `Refresh` of a token that is not the accepted one goes on to `Kill` |
| `Sign`, `Store` | `generateTokens`; `updateRtHash` and the answer, which may be lost |
| `Kill`, `Logout` | `hashedRt` is cleared |
| `ChangePassword`, `SetPassword`, `Revoke` | `changePassword`: the check of the old password, the update, `hashedRt` cleared |
| `DeleteAccount`, `Delete` | `deleteAccount`: the check, the transaction |
| `Forgot`, `Upsert` | `forgotPassword`: the pause of a minute and the draw of a code; the upsert |
| `Reset` | `resetPassword` until it has compared the code: on to `Drop` (too many attempts), `Miss` (wrong) or `SetPassword` |
| `Drop`, `Miss`, `DropCode` | delete or increment of whatever row the user has by then |
| `BreaksOff` | any statement fails, or the API stops |

One account is enough, since accounts share only the uniqueness of the email. The guard
`JwtAuthGuard` is `Authorized`: an access token is checked by its lifetime alone.

### Listings and the code

State. `key` gives each row its value of the sort key (`createdAt` descending, or
`name`), or says that the filters leave it out; `cursor`, `limit` and `walk` are the
client's walk. `cursorKey`, `shown` and `stable` record what happened: the place the cursor
had, how often a row was shown, which rows have not moved.

`NextPage` is one `findMany` of `findAll` or `findPublic` with `take: limit + 1`,
`cursor`, `skip: 1`, followed by `paginateResults`. `Move` is any write of another
request to a row: creation, deletion, a rename, a star, publication. When the cursor's own
row is gone, filtered out or moved, what Prisma returns is not in this code, and the
walk ends as `"lost"`.

### Library, Timeouts and the code

State. `module` is the table `Module`, a function from the ids that exist, which are
numbers in order of creation; `users` the accounts; `call` is where each concurrent request
stands and what it has read. A row keeps the columns that something decides by; `changed`,
`writer` and `raced` record what happened to it, for the properties.

| Action | Code |
|---|---|
| `Create` | `create` |
| `LookToUpdate`, `Write` | `update`: the read before the transaction, and the transaction as far as the row of the module goes |
| `LookToRemove`, `Remove` | `remove` |
| `FindOriginal`, `FindCopy`, `InsertCopy` | the three queries of `saveToLibrary`; the last one fails on a foreign key when owner, source or author is gone |
| `AskDelete`, `NameAuthor`, `Erase` | `deleteAccount`: the checks, and the two statements of its transaction, which holds the rows it has named |
| `BreaksOff` | a statement fails or the API stops: an open transaction is rolled back |

`InCatalogue` is the filter of `findPublic`. The foreign keys are those of the migrations:
modules go with their owner, `sourceModuleId` and `authorId` become null.

`Timeouts` adds the interceptor: `TimeOut` answers a call's client and leaves the handler as
it is, for that is all that rxjs's `timeout` does to a promise. The clients (external) save
again only after an answer.

### ModuleCards and the code

State. `card` is the table `Flashcard` with module and content, `modules` the modules that
exist, `call` the requests, `asked` what was last asked for, for the properties.

| Action | Code |
|---|---|
| `CreateModule` | `create` with its cards |
| `CreateCard`, `UpdateCard`, `RemoveCard` | `flashcards.service.ts` |
| `Ask`, `List`, `Write` | `update`: before the transaction; the read of the module's cards and the sorting of the list into `toUpdate`, `toCreate`, `toDeleteIds`; the writes |
| `AskRemove`, `RemoveCards`, `RemoveModule` | `remove`: the look-up, `deleteMany`, `delete` with its cascade |

The writes of `update`'s transaction name their rows by id and lock them until it
commits, so that they are one step; what was read can be stale by then.

### Folders and the code

State. `folders`, `tag`, `member` (`_FolderToModule`) and `tagged` (`_ModuleToTag`) are the
tables, `setting` the requests for `setModuleTags`; `foldersMade` and `ever` remember what
existed, and `wanted` what was asked for.

| Action | Code |
|---|---|
| `CreateFolder`, `RemoveFolder`, `AddModules`, `RemoveModules`, `CreateTag`, `RenameTag`, `DeleteTag` | the operations of that name: their one write, which fails by itself, on a missing row or the unique index, whenever the look-ups before it would reject |
| `SetFolder` | `folderId` of modules.service's `create` and `update` |
| `AskTags`, `CheckTags`, `ListTags`, `Disconnect`, `Connect` | `setModuleTags`: the module is in the folder; the tags are the folder's; the folder's tags; the two statements that Prisma makes of the nested write, in one transaction |
| `GivesUp` | a query fails, a deadlock is resolved, or the API stops: the transaction is rolled back |

### Avatars, Devices and the code

In `Avatars`, `url` is `User.avatarUrl`, `files` the directory `uploads/avatars`, and a file is
named by the order of saving in the place of a uuid. `Save`, `Look`, `Unlink` and `SetUrl` are
the steps of `updateAvatar`; `removeAvatar` is `AskRemove` and the last three, with null for the URL.
`AvatarView` has what others see, a picture or none, and says that an upload shows a picture
of its own and that one replaced or taken down never comes back. `Avatars` implements it with
`shown` as the URL's file while it exists.

In `Devices`, `row` is the row of one token in `PushToken`. `RegisterToken` is an upsert by the
token alone, `RemoveToken` a `deleteMany` by token and user. The app (external) sends the one at
login and the other at logout; requests are handled late, twice or never. `DeleteOwner` is
the cascade from a deleted account to its tokens.

## Runs

| Run | Question | Bounds |
|---|---|---|
| `strength` | range, mode ceilings, independence of arrival order, monotonicity in late answers | up to 3 answers, times 1..3, all modes, baselines 0, 2, 5 |
| `study_one` | with the worker as deployed (one process, concurrency 1), do the cards always agree with the stored answers, and does the pipeline implement the ledger | two batches that share an event and tie on a time; 2 attempts, 1 stall; window above the number of answers |
| `study_window` | does any step of one worker lower a level | window of one answer, batches with a late wrong answer and a foreign one, cards created and patched; 1 attempt, no stall |
| `study_two` | with two handlers at once: events stored once, no lock cycle, no invented level, nothing dropped as done | two overlapping batches, 1 attempt, 1 stall, no edits |
| `study_live` | does every queued batch end, and does a client that resubmits get its batch recorded | two workers, a batch with a part that is not the user's and one that cannot be read; 2 attempts, 1 stall; cards deleted at any time |
| `limit` | by how much can concurrent calls exceed a limit, and does a lockout end when no call breaks off between INCR and EXPIRE | three logins from one address, two of them to one account, or two requests for a reset mail; limits of 1 to 3, windows of 2 and 3 ticks |
| `limit_broken` | does it end when a call may break off there: **violated** | the same |
| `accounts`, sessions | does an answered revocation end the session for good | two calls that sign up, log in and refresh, one that ends sessions; two passwords, one code with one attempt, 3 clock values |
| `accounts`, resets | how many wrong guesses does a code take, and is anything stored for a deleted user | two calls that guess and one that asks for codes and deletes; two codes of two attempts, 3 clock values |
| `library`, edits | does the catalogue lose a lineage, is every changed copy marked | two calls that update or remove, one that saves; two users, two names, three modules |
| `library`, accounts | do references and authors survive deletions of accounts | three users, three modules; a call that saves and updates, one that deletes accounts |
| `library`, saves | how many copies can a user get | two calls that save, one that removes; two users, four modules |
| `library`, waits | the same for clients that wait for their answers, behind the timeout | the same with three modules |
| `timeouts_cancelled` | is a request that was answered "was cancelled" cancelled: **violated** | as `library` |
| `content`, walk | are the rows that stay shown exactly once | four rows under two sort keys; pages of one and two rows |
| `content`, cards | what do overlapping edits leave of a module's cards, and do lists touch the cards of other modules | one module with two calls, of which one is done when a third card is added; three cards or two modules under one call; two contents, three cards ever |
| `content`, tags | what tags does a module wear after overlapping requests, and do folders touch each other's tags | one folder, with two tags ever and two calls or three tags and one call, or two folders, two tags ever and one call; two names |
| `avatars`, avatar | what do others see of an avatar, and does a broken link heal when no call breaks off between unlinking and storing | three calls, four files |
| `avatars`, device | does a settled token stay | two accounts, seven requests |

A run whose `MC` module has a variable `part` asks several questions of parts of the system
that share nothing: a behaviour chooses its part at the start and the rest stays as it is
initially, so that the states of the parts add up and do not multiply. The `MC` module extends
the modules of its parts (`MCContent` extends `Content`, `MCAvatars` extends `Avatars` and `Devices`,
`MCLibrary` extends `Timeouts`), so that what it checks are their own properties; `MCLibrary`
also instantiates `Library` and `Timeouts` for parts with bounds of their own.

Why these bounds are enough to be of use. Three answers are the least that climb
from baseline 2 through the ceilings 3 and 4 to 5, and give every relative order
of two competing answers around a third. Two cards are the least for lock order,
for partial ownership and for one card deleted while the other goes on. Two batches
are the least for overlap of ids, change of contents under one id and arrival out of
order. Two attempts and one stall reach a first failure, a retry, and exhaustion;
a third attempt, as in the code, repeats the middle case. One answer per card as window forces
forgetting with the second answer. Three logins are the least of which two share both
counters and a third one only, and requests for mails share no counter with them; a window of two
ticks lets calls begin before and after an expiry that others straddle. On an account, two getters of tokens let one
refresh beside the other's login, and a third call revokes; two guessers are the least that
overshoot, and two codes the least of which one can replace the other. Both extremes are
reached: a session that survives a revocation by overlap, and a code with three wrong
guesses where two are allowed. Four rows under two keys put ties before, on and
behind the boundary of a page of one or two. Three modules are the least with a copy of a
copy, whose source can go while its own source stays; three users the least for a copy whose
author, source and owner are different people. Two calls are the least in which one
decides by what the other changes, and a third file or card the least that tells a
call that is late by one from one that is late by two. What the properties of
`ModuleCards` and `Folders` except, overlapping requests, is reached in `content`, and so
are doubled cards and united tags (see [Limits](#limits)). On one device two accounts are the least
that take the token from each other, and seven requests let both come back with older requests still
on their way.

`CHECK_DEADLOCK FALSE` is set for all runs but those of the rate limit, because the system
may come to rest: all batches submitted and done, every card edited or deleted, the
users gone, or the clock or the ids at their bound.

What they show: all properties hold except in `limit_broken` and `timeouts_cancelled`, which are
expected to fail (see [Limits](#limits)). In `study_one` no card ever has more answers than
`HISTORY_LIMIT`, because the code does not promise its properties beyond (see [Limits](#limits)):
it shows instances of the theorems whose condition is `WithinLimit`.

## Fairness

`study_live` assumes

- that a worker goes on (`SF` of `Process(w)`: it is blocked now and then by row
  locks and killed now and then; `docker-compose` restarts it, `restart: always`,
  and PostgreSQL grants locks in order of arrival);
- that BullMQ hands out a waiting job (`SF` of `Fetch`, since the job may be taken
  away again by a stall), promotes a delayed one, and sweeps a job whose handler is
  gone (`WF`).

Nothing is assumed of clients, of edits, of faults (`TxFails`), of spurious
stalls, or of the removal of failed jobs. A job that keeps failing runs out of
attempts; one that keeps stalling is failed by BullMQ. `SF` and not `WF` is needed
for `Process`, because the same step is disabled and enabled again for ever when a
neighbour takes and frees a lock.

`ResubmittedRecorded`, checked in the same run, supposes more as its antecedent (`Patience`): a client that
goes on submitting (`SF` of `Submit`, since a job that is there takes the place of a new one), an end
to faults, and that BullMQ prunes a failed job some day (`WF` of `Prune`). The last is weaker
than it looks: BullMQ removes aged jobs lazily, when another job of the queue fails, so on a
queue without further failures the day may not come. No more is claimed than that it is pruning that a
resubmission waits for: without `Prune` the property fails.

`limit` and `limit_broken` assume that time passes and Redis expires keys (`WF` of
`Tick`), and that a call the API has begun goes on (`WF` of `Step(c)`); not that anybody
sends a request, and not that a login fails or succeeds. `UnbrokenNext`, the steps of
`limit`, excludes exactly the break-off between INCR and EXPIRE.

`avatars` assumes that a call the API has begun goes on (`WF` of `Step(c)`), and its `UnbrokenNext`
excludes exactly the break-off between `Unlink` and `SetUrl`. `BrokenIsTransient` and `LinkHeals` need
that; the type invariant and the refinement are proved without it.

## Proofs

`tlapm` checks, for every value of the constants that satisfies the named assumptions of the
modules (`DataAssumption`, `QueueAssumption`, `HistoryAssumption`, `LimitAssumption`,
`AccountAssumption`, `ListingAssumption`, `LibraryAssumption`, `AvatarAssumption`,
`CardsAssumption`, `FoldersAssumption`, `DevicesAssumption`):

| Theorem | Says | Condition |
|---|---|---|
| `LevelAlwaysInRange` | `Spec => []LevelInRange` of `StrengthHistory`: the fold of any history stays in `baseline .. 5` | - |
| `CeilingAlwaysRespected` | `Spec => []CeilingRespected`: no level above both the baseline and the highest ceiling of a mode answered right | - |
| `ArrivalOrderNeverMatters` | `Spec => []ArrivalOrderIrrelevant`: answers of distinct times fold to one level in whatever order they arrived | - |
| `ArrivalsNeverLower` | `Spec => ArrivalNeverLowers`: one more answer, however late, lowers no level | - |
| `FoldInRange`, `RegradeType` | lemmas behind these and the pipeline: range of `FoldStrength`, type of the columns written | - |
| `TypeCorrect` | `Spec => []TypeOK` of `StudyPipeline`, including the bounds on attempts and stalls of a job that may still run | any workers |
| `DoneIsAlwaysRecorded` | `Spec => DoneMeansRecorded`: BullMQ removes an active job only when every event of it is stored, or belongs to a card gone or not the user's | any workers |
| `EventsStoredOnce` | `Spec => []StoredOnce` | any workers |
| `LocksNeverCycle` | `Spec => []NoLockCycle`: of workers that wait for rows of cards, one waits for none of the others | any workers |
| `LevelsNeverInflated` | `Spec => []LevelNeverInflated`: no level is above what the stored answers earn | any workers |
| `LevelsOnlyRise` | `Spec => LevelNeverFalls` | one worker |
| `LevelsAlwaysMatch` | `Spec /\ []WithinLimit => []LevelMatchesHistory` | one worker |
| `LastTimesAlwaysMatch` | `Spec /\ []WithinLimit => []LastTimesMatchHistory` | one worker |
| `PipelineImplementsLedger` | `Spec /\ []WithinLimit => ImplementsLedger`: the refinement of `StudyLedger` | one worker |
| `LimitTypeCorrect` | `Spec => []TypeOK` of `RateLimit` | any calls |
| `OvershootAlwaysBounded` | `Spec => []OvershootBounded`: a counter exceeds its limit by less than the calls that use it | any calls |
| `CountersEnd` | `UnbrokenSpec => []NoOrphanCounter` | no break-off between INCR and EXPIRE |
| `AccountTypeCorrect` | `Spec => []TypeOK` of `Accounts` | any calls |
| `RevokedAlwaysStaysRevoked` | `Spec => []RevokedStaysRevoked`: only a later login is accepted after a revocation, unless a call was getting tokens when it was answered | any calls |
| `GuessesAlwaysBounded` | `Spec => []GuessesBounded`: wrong guesses at a code exceed the limit by less than the calls that guess | any calls |
| `LibraryTypeCorrect` | `Spec => []TypeOK` of `Library`: nothing dangles, sources are older than their copies | any calls |
| `ListedAncestorAlways` | `Spec => []ListedAncestor` | any calls |
| `ChangesAlwaysMarked` | `Spec => []ChangeMarked` | any calls |
| `AuthorAlwaysKept` | `Spec => []AuthorKept` | any calls |
| `CopiesAlwaysBounded` | `Spec => []CopiesBounded` | any calls |
| `OneCopyAlways` | `TimedSpec => []OneCopy`: a client that waits, and is never told of a cancelled save, has one copy | any calls |
| `EachShownOnce` | `Spec => []ShownOnce`: cursor paging shows each row that stays exactly once | - |
| `CardsAskedAlways`, `CardsExactAlways` | `CardsSpec => []CardsAsked`, `CardsSpec => []CardsExact`: what a list of cards leaves of a module, with and without requests that overlap it | any calls |
| `TagsAskedAlways`, `TagsExactAlways` | `FoldersSpec => []TagsAsked`, `FoldersSpec => []TagsExact`: the same for the tags of a module | any calls |
| `TaggedWereMembersAlways` | `FoldersSpec => []TaggedWereMembers` | any calls |
| `TypesCorrect` | `CardsSpec /\ FoldersSpec => []TypesOK` | any calls |
| `AvatarTypeCorrect` | `Spec => []TypeOK` of `Avatars` | any calls |
| `BrokenAlwaysTransient` | `UnbrokenSpec => []BrokenIsTransient` | no break-off between unlinking and storing |
| `AvatarsImplementView` | `Spec => ImplementsView`: the refinement of `AvatarView` | any calls |
| `SettledStaysAlways` | `DevicesSpec => []SettledStays` | any requests |

The assumptions are what the schema and the deployment give: a card has one module
and a module one owner; baselines are levels; cards made later start at baseline 0;
stored rows are unique by user and event id and those of before the migration have
no mode; the window and the attempts are at least 1; workers and contents are finite in
number; the bounds on ids are natural numbers; `NoUser` and the like are no members of
the sets they are added to.

`WithinLimit`, a condition of three theorems, says that no card has more answers of its owner,
stored or being inserted, than `HISTORY_LIMIT`. It is a condition and no assumption on the
constants, because the code does not keep it: beyond it the window forgets answers
(see [Limits](#limits)).

### The study domain

`StrengthProofs`. `FoldStrength` sorts and then folds with a recursive function. The
library's induction rules take an operator as a parameter, which the provers cannot
instantiate; the proofs take the least number at which a statement fails instead
(`LeastNat`, from the well-foundedness of finite sets under inclusion). That gives
that the recursion has a solution (`FoldExists`) and that each of its values lies
between the initial level and 5 (`LevelsInRange`), whatever the sort returns.

The sorts of the code are `InOrder`, which puts an element at the place of its rank, the
number of elements below it; the library's sorting operators say which sequence they choose
only by `CHOOSE` over all permutations or by TLC's own sort, of which nothing is proved.
For a total order of a finite set the rank rises with the order (`RankRises`), so the result lists
every element once and in order (`InOrderLists`), and it is the only sequence that does
(`InOrderUnique`). `ByTimeLists`, `LockOrderLists` and `NewestFirstLists` say this of the three
sorts of the program.

`CeilingHolds` follows the fold from left to right: where the level last rose the answer was right, and
the level no higher than its ceiling. `ApplyEventMonotone` and `OneMore` compare two folds of which one
has one answer more: the shorter fold is never ahead, since at the place of the additional answer
the level does not fall and afterwards both take the same answers.

`StrengthHistoryProofs` concludes. Two arrival orders of one history differ by a permutation of
places, and sorting by distinct times undoes it (`Reindexed`, `ByTimeIs`); an arrival is `OneMore`.

### The pipeline

`StudyPipelineProofs` proves `TypeOK` through `IInv`, which adds what the type
invariant alone does not carry over a step: that tables and transactions are finite
(the sorts and cardinalities are defined for finite sets only), that a call at work
has a job, and that its payload is no longer than a request may be.

It proves `DoneMeansRecorded` with `DInv`: `JobsNamed` (a job
stands under the id of its body, whose cards all exist or existed),
`HoldersHavePayload` (the worker that holds an active job has that job's payload) and `Progress`, the heart of it: for a worker at
`pc`, each event of its payload is stored, or about to be by its transaction, or it
was found not to be the user's, which it stays, since cards change neither module
nor owner and never come back. At `ack` this says recorded.

It proves `StoredOnce` with `PendingOnce` (open transactions hold
disjoint keys that are not stored, by the wait of `ON CONFLICT`), and
`LevelNeverFalls` for one worker with `ReadIsCurrent` (the level read is still the
stored one, as nobody else writes it) and `WritesNoLess` (what is written is no less
than what was read).

`Stages` says what a call holds at each stage, for instance that nothing of a transaction is left
when it has ended. On it rests `LockedBelow`: the cards a worker has still to take rise, and lie above all those it
holds. Among workers that wait for each other the one that holds the highest card wanted
would wait for a card above it, so there is no cycle.

`LevelNeverInflated` is not inductive: a level is read, and written later, with rows that other
transactions have added since. `LevelsEarned` says that the level is no more than what the fold of *some* newest-first list
of the stored answers gives; `EarnedBy(w)` says the same of the level a worker has read and of what it
is about to write, with the rows it is inserting. Both survive other commits because more rows earn no less
(`EarnedByMore`, by `OneMore`, one row at a time), and a window earns no more than the whole
history, since the window of a card is some of its rows (`BucketEarned`).

For one worker within the limit, `OneWorker` is inductive. It adds: `CallBatch`, that the call works on a
batch of its job's user; `Covers`, that the transaction writes every card touched that still
exists; `WindowFull`, that the window has every answer to them, because `n` cards have no more than
`n * HISTORY_LIMIT` together (`PartsBound`, `WindowFits`); `WritesEarn`, that what is written is what
the rows will earn that are stored with it; and `CardsMatch`, that a card has the columns its rows earn.
The last gives `LevelMatchesHistory` and `LastTimesMatchHistory`.

`PipelineImplementsLedger` maps a step of the pipeline to one of `StudyLedger` under the identity
of the tables. The steps that change no table stutter (`TablesChange`), the API's edits are the
ledger's (`EditsImplement`), and a commit is `Learn` of the batch at work (`CommitLearns`): its rows are the
events the user may answer that are not stored yet (`CommitRows`, by `Progress`, `StoredOnce` and
`PendingOnce`), and its columns what the ledger regrades from the whole history (`CommitCard`, by
`WritesEarn`). The `Same...` lemmas identify the definitions that `StudyLedger`, being an
instance, has its own copies of.

### The API

`RateLimitProofs` proves `OvershootBounded` with `OwedBounded`: the counter plus the
calls that passed its test and have not counted yet (`Debtors`) stay below the limit plus
the calls that use it. A call that passes the test becomes a debtor when the counter is
below the limit, so all users together could owe; one that counts pays. The bound of
`OvershootBounded` alone is not inductive, since it says nothing about who is still to
count.

`AccountsProofs` proves `RevokedStaysRevoked` with `Descent`, which adds that the calls
still getting tokens descend from a later login too (`Store` would otherwise bring the old
session back), and `GuessesBounded` with `GuessInv`: the wrong guesses counted against a
code and those on their way stay below the bound, the row has counted at least its code's,
and a code that is drawn and not yet stored has none, which is why an attempt that lands on
a newer code's row does no harm to the bound.

`LibraryProofs` works with `IInv`: the table is typed and its references exist, and what a
call has read was true of rows that have existed. `ListedAncestor` follows from it alone: among the
public modules of a lineage up to the first that is not, the oldest is listed, and there is an oldest since
sources are older than their copies. `ChangeMarked` needs `MarkInv`, that a row read by an
update that is not marked still has that name unless it has been marked since or
has no source (`ReadFresh`). `AuthorKept` needs `AuthorInv`, that what a save has read and what a deletion has named
is right too. `CopiesBounded` needs `CopyInv`, which counts with the copies the calls
that are about to insert one. `OneCopy`, of `Timeouts`, needs `OneInv`: a user who was never told that a
save was cancelled has one save at work at most, and no copy of its module when it is about to insert one.

`ContentProofs` has the three components of `Content`, with an invariant each.

- Listings: `ShownBeforePlace` speaks of the place the
  cursor had when the client got it, wherever its row is now; `ShownOnce` alone is not
  inductive, since a cursor may leave its place and come back. The lemmas are about a
  finite, strictly ordered set: it has a first and a last row, and the first `n` of it are an
  initial segment that is empty only if it is.
- Cards: `CardsInv` has, for a request that has read the cards and will write them,
  `WriteOK`: the cards it will write or delete are the module's if they exist, since ids are not used
  again and cards stay in their module; what it leaves alone has the content it asked for, or one
  noted as written meanwhile; and if it is apart, the module has just the cards it has read.
  `EditOK` says that of two requests for one module neither is apart, and `ModuleOK` is
  `CardsAsked` and `CardsExact` for one module.
- Tags: `FoldersInv` is built alike. By `RequestOK` the tags of a request that exist
  are its folder's, and the module wears none that is not listed or given by a request it
  met; `ApartOK` corresponds to `EditOK`, and `WantedOK` is the two properties, with the folder of
  the tags asked for.

`AvatarsProofs` uses `OwnIsFresh`, that the file a call has saved was never named by a URL
and belongs to no other call; the step refinement follows, as `SetUrl` can only show a new
picture and `Unlink` only hide one. For `Devices` it uses `LastRegisters`, that while an account is logged
in the last request sent is its registration, and `SettledHolds`, that of what is on its way before a
settled registration nothing can undo it.

## Limits

Only model-checked:

- `BatchSettles`, `ResubmittedRecorded`, `LockoutEnds` and `LinkHeals`: liveness under fairness,
  out of the prover's reach.

Every other property of a passing run is proved. The proofs of `LevelNeverFalls` suppose one
worker, and those of `LevelMatchesHistory`, `LastTimesMatchHistory` and `ImplementsLedger` also
`WithinLimit`; without these the properties are false, as the last paragraphs of the next list say.

What the code does not promise, met while modelling:

- A request that ends between INCR and EXPIRE (`auth-rate-limit.service.ts:59-61`) leaves
  a counter without a lifetime. It only grows, and at its limit its key, a login of one
  email from one address, a whole address, or reset mails to one email, is rejected until
  someone deletes it, while the answer says "Try again in 1 min." (`limit_broken`). An
  INCR that ioredis sends twice after a reconnect has the same effect. A login that
  succeeds before the limit is reached removes the counter of its email.
- The limits may be exceeded by concurrent requests, by less than their number
  (`OvershootBounded`).
- A login or refresh that decided on its tokens before a logout, a password change, a
  reset or a killed family stores them after it: the session goes on. `RevokedStaysRevoked`
  excepts these overlapping calls and no others.
- `resetPassword` may answer with an error after it has set the password, when another
  call has deleted the code meanwhile; then the old session is not ended. The same holds of
  an API that stops between its statements.
- A call that found five attempts deletes the row that is there, which may hold a code
  stored and mailed since.
- One session per user: a login elsewhere, or a lost answer to a refresh, leaves a client
  with a replaced token, whose next refresh ends the session everywhere.
- A request that is answered 408 "Request took too long and was cancelled"
  (`timeout.interceptor.ts:25`) goes on and writes (`timeouts_cancelled`). A client that saves again
  then has two copies; so has one that saves twice at once. Otherwise there is one
  (`OneCopy`, `CopiesBounded`).
- A copy saved while its author's account is being deleted may lose the author: it was
  inserted after the names were written and before `authorId` was set to null.
- Cards of a copy that are edited one by one (`flashcards.service.ts`) do not mark it as
  diverged, and it stays out of the catalogue.
- Two lists of cards sent for one module at once leave cards of both, new ones twice if they were
  in both. A card whose id is gone, or is another module's, becomes a new card.
- Two requests that set a module's tags in a folder at once leave tags of both.
- A module taken out of a folder keeps the folder's tags, which are counted and come back with it.
- A call that ends between deleting the old avatar and storing the URL leaves a link to no
  file; a call overtaken by another, or an account that is deleted, leaves a file behind.
- A token registration that comes late takes the token from the account logged in since.
- `update` writes cards in the order the client gives, and a module's deletion in any order,
  while the worker sorts its updates: these can wait for each other, until PostgreSQL ends
  one of them.
- A cursor whose row was deleted, renamed, or un-starred between two pages of the listing
  sorted or filtered by it: the walk is not promised to go on.

- With two workers, or one whose job stalled while its handler goes on,
  `LevelNeverFalls` and `LevelMatchesHistory` fail: `strengthLevel` is read at the
  start of the transaction and written at its end under READ COMMITTED. A lost level
  comes back when the card is answered again. The deployment runs one worker of
  concurrency 1.
- The history query is limited to `HISTORY_LIMIT` times the number of cards, for all
  of them together. More than that many recent answers to one card leave none for
  another of the batch, whose `lastCorrectAt` and `lastWrongAt` are then set to null;
  its level is kept by `Math.max`.
- `resetProgress` clears `status` and leaves `strengthLevel`; the next answer, or the
  redelivery of an old batch, brings the old status back.
- A failed job keeps its id for up to a day, and the same batch submitted again is
  answered `{ queued: true }` and dropped until the job is removed.

Abstractions:

- Each SQL statement is one step. Deadlocks that PostgreSQL detects inside one
  statement appear as a failed transaction (`TxFails`).
- Reset codes do not repeat; passwords are compared as bcrypt would, by equality.
- `RateLimit` and `Accounts` are checked apart: the one leaves open whether a login
  succeeds, the other how often it is tried.
- sha256 does not collide: two job ids are equal when user and ids are.
- Times are positive integers given by the client; nothing depends on the server's clock.
- Backoff and lock durations are not timed: a delayed job may be promoted and a lock
  may run out at any moment.

Not modelled:

- `src/generated/prisma` is 16.7 of the repository's 19.6 thousand lines: client code that
  `prisma generate` writes from `schema.prisma`. It has no behaviour of this program's
  own; its effect is in the models as the statements of the services. Of the 2.9 thousand lines
  written by hand, DTOs, decorators, modules, guards and logging are declarations.
- Reads that change nothing and whose result nothing decides by: `findOne`, `getStats`, progress counts,
  `getProfile`, search. The counts they return are of one moment per query.
- Operations that are one write of a column no other operation reads: a folder's name and icon,
  `isFavorite`, `isStarred`, `updateSettings`.
- `@nestjs/throttler`: its counters are the library's. The guard here names a counter by the
  user of the access token, expired or not, or by the address.
- Start-up, configuration, the mail text, and the recognition of image types.

## Plan

Done, in this order: the study domain, the pipeline with its ledger, the rate limit,
listings, accounts; then the library with account deletion and the timeout, cards of modules, folders, avatars
and devices; then the proof that the sorts sort, with what follows from it about histories, lock
order and the ledger, and the theorems of the remaining components. Next, by importance:

1. The study pipeline composed with `ModuleCards`: whole modules removed, and cards locked in
   a client's order, beside the worker's transaction. `NoLockCycle` is not
   expected to hold there, and what should remain is that every such cycle has an edit in it.
2. `RateLimit` with `Accounts`: the number of guesses at reset codes in one window.
