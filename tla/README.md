# Verification of k-cloud-backend

TLA+ models of the parts of k-cloud-backend where the order of things decides
the outcome, TLC runs that check them on small instances, and TLAPS proofs for
every value of their constants. Every definition is translated from the
TypeScript of `src/src`; paths below are relative to that directory.

## The system

A NestJS server that keeps one directory of files per user, with a SQLite
database behind Prisma for users, sessions, shared-file tokens, file trees and
logs. It is **one process with one JavaScript thread**: code runs undisturbed
from one `await` to the next, and in between any other request, timer or
callback may run. The disk and the database answer from other threads. What is
in memory (uploads, caches, counters) is lost when the process ends, and Node
ends it at a rejection nobody handles and at an `error` event nobody listens to.

| component | state it keeps | operations | what makes it correct |
|---|---|---|---|
| TempStorage (`temp-storage/`) | `storage`: a record per upload (queue of blobs, ranges written, `saved`, `received`, `writting`, `completed`); `filesDirectories`: array of the keys | create, allocate, deallocate, count, complete, delete; `allowWriteMoreFiles` | table and array agree; the flag is a lock; a completed upload has all its bytes |
| Chunked upload (`files/`) | none of its own besides the disk | `initialize`, `write`, `close`, `delete`, `rename`; interval `writeBlobs` | accepted bytes reach the disk; an upload ends once, and for a reason; the number of files written at a time is limited |
| Other file operations (`files/`) | disk; `userIndexUpdateScheduled` | upload in one piece, folders, copy, move, zip, trees | files, tokens and trees move together |
| Space guard, Admin (`files/guards/`, `admin/`) | `config` (space, owner), `settings.json`, `updating` | compare request with used and reserved space; walk the disk; change the owner and the roles; save | no more bytes than the dedicated space; the owner is an administrator; the settings survive a crash |
| Sessions (`sessions/`) | table `Sessions`, `sessionsCache` | create, retrieve, validate, extend, edit scopes, revoke, clean the cache | what the cache answers is what the table says; logout is final |
| Users, Auth (`users/`, `auth/`) | table `User`; `tries`, `lastTries` | login and its throttle, logout, api keys, passwords, `setAdmin`, `deleteUser`; guards | roles and scopes take effect; the throttle locks who tried too often, and nobody else |
| Setup (`setup/`) | the owner in `settings.json` | first user | one owner |
| Shared-file tokens (`token-files/`, `shared-file/`) | table `Sharedfile`, three caches | create, look up, page, expire, update, remove, follow renames | what is cached is what the table says; a link leads to the file it was made for and goes for a reason |
| File trees (`treefiles/`) | table `Tree` | refresh, search | a scheduled change gets stored; refreshes may overlap; a search finds what is there |
| WebSockets, events (`websockets/`, `system/`) | `connections` | connect, authenticate, log out, forward events | a revoked session has no connection |
| Logs (`logs/`, `middlewares/`) | table of visits | append, cut a time into ranges, count | a chart counts each visit once |
| Routes and guards (all controllers) | none | let a caller in or not | keys that read change nothing; accounts are guarded |
| Monitor, crypto, utils, CSRF | a ring, nothing | sample, hash | nothing depends on them |

Interactions. The controllers of the chunked upload and the interval share the
records of TempStorage and the files of the disk, and nothing else: no lock, no
owner, only a path as the key. The end of an upload sends events, schedules a
tree refresh and starts a walk of the disk for the used space. `SpaceGuard`
reads the reservations of TempStorage and the used space of Admin. Every
authenticated request goes through `validateSession`; the CSRF middleware,
`getScopes` and the edit of scopes call `retrieveSession` directly. `setAdmin`
writes the users and drops cached sessions. A revocation emits a logout event
that the web sockets listen to.

Hard behaviours: decisions taken before an `await` and used after it (nearly
every handler); caches that are filled after an `await`; a queue drained by a
timer; streams that report success before they have opened; loops that catch
every error; promises nobody waits for; a settings file written in two steps.
`PROJECT.json` lists each at its line under `hazards`, with the properties that
cover it or a note why none does yet.

## Modules

| module | what it models |
|---|---|
| `TempStorage` | the table of uploads and what the service does to a record; extended by `Upload` |
| `Upload` | the handlers, the interval, the streams, the disk, the end and restart of the process |
| `MCUpload` | the blobs of the instances and their symmetry |
| `Sums` | facts about sums over finite sets, which `Upload` and `Quota` count with, and about folds over sequences, with which `Search` has its loops |
| `UploadProofs` | theorems about `Upload` |
| `Sessions` | sessions, users, the cache and the requests on them |
| `MCSessions` | the symmetry of the instances |
| `SessionsProofs` | theorems about `Sessions` |
| `SharedTokens` | links to files, their caches, visitors and owners, and the files that move under them |
| `MCSharedTokens` | a small set of paths, the workloads and the symmetry of the instance |
| `SharedTokensProofs` | theorems about `SharedTokens` |
| `Quota` | the used and the reserved space: guard, reservation, walks of the disk |
| `Trees` | the stored trees, their schedule and refreshes |
| `MCStorage` | `Quota` and `Trees`, with their fairness; a behaviour is one of either. It extends both, so the formulas of `Quota` bear names of their own |
| `StorageProofs` | theorems about `Quota` and `Trees` |
| `Lockout` | what a throttle of failed logins is for, and the lenient half of it |
| `LoginThrottle` | the throttle; implements the lenient half, and not the other |
| `Administration` | owner, roles, first user, `settings.json` across a crash |
| `AdministrationProofs` | theorems about `Administration` |
| `Connections` | web sockets, the sessions they belong to, revocations |
| `ConnectionsProofs` | theorems about `Connections` |
| `Access` | routes, guards and scopes: who may do what |
| `Search` | the search in the index of a user's files |
| `Statistics` | the log of visits and the charts |
| `MCServices` | throttle, administration, connections and the three modules that only compute; a behaviour is one of any. It extends `LoginThrottle`, `Administration` (whose formulas bear other names for that), `Connections` and `Statistics`, and instantiates the others |
| `ServicesProofs` | the proof that `LoginThrottle` implements the lenient half of `Lockout`; theorems about `Access`, `Statistics`, `Search` and all the parts together |

### TempStorage and Upload

A key is `join(userId, path)`. `storage[k]` is the record or `None`;
`filesDirectories[k]` says how many times the key is in the array, as
`createFileTemp` pushes without looking. Dropped: name, path and userId of a
record (handed back only), the content of blobs (a blob is its position and
length), and the order of the array. The last means that a scan may prefer any
startable key; with two keys the models therefore have starvation the code
does not have, and liveness is claimed for one key only.

An operator of `TempStorage` that takes a record and returns one
(`AllocateBlob`, `DeallocateBlob`, `UpdateBytesWriten`) is the method of that
name; `DeallocateBlob` includes the `setWritting(true)` that the drain's code
does right after it in the same run of the thread.

| `Upload` | code |
|---|---|
| `InitializeFile`, `Access`, `InitializeGoesOn`, `Create` | `FilesController.initializeFile`: check of the table, await of the disk, creation; `Reserve` is the stream of `reservateFileSpace` |
| `DeleteFile`, `DeleteAccess`, `Rm`, `DeleteGoesOn` | `FilesService.deleteFile`, from the delete handler or from an initialize that overwrites |
| `ReciveBlob`, `CloseFile`, `RenameFile` | the handlers of those names |
| `WriteBlobs` | one tick of the interval: every callback it starts runs to its first await |
| `BlobLands`, `StreamLands` | a stream opens and writes; with `r+` on a file that is gone it emits an `error` nobody hears, and the process ends |
| `BlobWritten`, `Loop`, `Turned` | the drain after `await writeBlob`, with the test of its loop and the blobs its catch block queues again |
| `UploadFinished`, `LookupFails` | the drain after `await getFileP`, or its catch block |
| `Die`, `Restart` | the end of the process; everything but the disk is lost |

A drain waits for the disk if the blob fills the stream's buffer
(`HighWaterMark`) and otherwise for the next tick only; `Ready`, the guard of
everything that runs on the thread, lets queued ticks go first. A stream that
opens with `w` keeps an arbitrary subset of what other streams have in the
file, as its open (which truncates) and its write are two operations of which
the model has one.

The position of a blob is any integer the client sends. `writeBlob` throws on a
negative one before its first await, the catch block puts the blob at the end
of the queue, and the loop takes the next in the same turn: so a queue is
`Turned` to its first blob that can be written. If there is none the drain
stands at "spinning", which holds the thread for good: only what other threads
do (the disk, the end of the process) goes on.

`closeFile` asks whether the upload of `join(userId, path)` is complete, which
an absent one is, and deletes the record of the bare path. `CloseFile(tested, k)`
therefore takes the key that is asked about and the one that is removed apart:
the second is a key if the path begins with a user's id, whosever that is.

`history` is no part of the code. It keeps the bytes accepted for an upload,
whether the client was `tidy` (every byte once, inside the announced size), and
whether the upload is `undisturbed` (no drain left of an earlier upload of the
path, no removal, rename or truncation of its file, no blob queued again).
The unconditional forms of the properties are false, and some are among the
findings.

### Sessions

A request is a task with a program counter; each step after the first is the
database's answer to the question it stands at. `retrieveSession` is
`Retrieve`, `FindUnique`, `FindOne`, `Fill`; what each caller does with the
session is `WithSession`, in the same step, as no database answer comes in
between. `RevokeSession`, `Count`, `Delete` are `revokeSession`; a validation
that finds the session expired goes on as such a task nobody waits for (`op`
is `"expire"`), and there a rejection ends the process. `Update` and
`Invalidate` are the two halves of an edit and of `setAdmin`. `DatabaseFails`
is a query that rejects, at each place where that does something.
`createSession` retries for ever.

`now` counts in units of at least the ten minutes of `cleanSessionsCache`, so
`Tick` includes its run. Dropped: names, devices, the token text, passwords,
listings. `deleteExpiredSessions` builds a query and never sends it (Prisma's
promises are lazy), so it has no action. Two additions of the model:
`overlapped`, in an entry, says that its fill overlapped a write of what it
read, or a revocation or an extension under way; `stale`, in a task, that what
it has read was written since.

### SharedTokens

A request is a task, as in `Sessions`. `WithToken` is what a caller of
`getSharedFileByID` does with the link it gets, its guard included, as a
handler behind a guard asks the cache again in the same turn. `Exists`,
`Remove` are `getSFInfo` with its un-awaited removal; the loops that catch every
error are steps that change nothing (`Create`, `Update`, `UpdateEach`).
`deleteFile`, `moveFileFolder` and `renameFile` are here as far as the table
and the disk go: `Rm` then `DeleteMany`, `Rename` then `UpdateMany`,
`FindStarts`, `UpdateEach`. The disk's rename puts a file over what is at the new
place; a query of `updatePathTokens` may fail and ends the request there
(`QueryFails`); a removal rejects when the row is gone or the database refuses
it, and ends the process where it is not awaited. Paths are values; `Starts`, `Inside` and `Replaced`
say which of them begin with which string, lie in which folder, and what
`String.replace` makes of them, so that `docs`, `docs2` and `docs22` tell a
prefix from a folder. The disk refuses to move a folder into itself, or over one
that is not empty.

`file` is no part of the code: where the file is that a link was made for, or
`None` if the server has lost track in a way the comment of `LinksFollowFiles`
names. Dropped: the content of visits, names, times of creation, moves of many
files at once (`moveFiles`, which is a `renameFile` of each). A link
that does not expire expires at the end of the clock.

### Quota and Trees

`Quota` knows of an upload only the size that was announced for it, of any sign,
and how many bytes it has on the disk, which nothing compares with that size.
`SpaceGuard` and `CreateFileTemp` are the two turns of `initialize` with the
disk's answer between; `UpdateUsedSpace`, `Lstat`, `EndWalk` are one walk,
started by the cron job or by the end of an upload; a removal during it may take
along what was found beside the removed file. `quiet`, in a walk, is an
addition: no file has changed since it began. Saving the settings is in
`Administration`. No property bounds what is reserved or written by the
dedicated space, as the code has no such bound: two requests pass the guard
before either reserves, a negative size makes room for others, and an upload
may send more than it announced.

In `Trees` the files of a user are a version number, raised by every change.
`Pop` and `Ends` are the loops of `updateIndexes` and `updateAllTrees`,
`GenerateTree`, `FindUnique`, `UpdateTree`, `SaveTree` the awaits of a refresh,
`Fails` what a rejection does to each kind of caller: it ends the process where
nobody awaits, ends the loop of `updateAllTrees` with `updating` left on, and
is caught in the cron job, which has taken the user off the schedule by then. A
refresh rejects if the directory is not there, if a file vanished under its walk
(`torn`: `GenerateTree` leaves a null, on which `createIndex` throws), if the row
it wants to create is there already, and if the database refuses a query
(`Refused`). `first`, `culprit` and `failed` are additions: the user had no tree
or no directory when the refresh began; which refresh ended the process; whose
scheduled refresh failed.

### LoginThrottle, Administration, Connections

`LoginThrottle` has the two objects of `AuthService` and a clock in minutes;
`Lockout` says what a throttle is for: who gave `MaxTries` wrong passwords within
the last `Timeout` minutes is refused, and nobody else. The code does not do
that: `incrementTries` sets `lastTries` once and never again, so that after the
first window the count is reset before every attempt and nobody is locked any
more. What it does keep is the second half, `LenientSpec`: only the locked are
refused. `recent` and `answer` are the variables of `Lockout`, which
`LoginThrottle` keeps beside those of the code.

`Administration` has the requests that make and unmake administrators, each
with its guard in the turn it comes and its lookup and write later, and
`saveConfig` as a stream that empties the file when it opens and writes from
the start: a longer text of another stream shows after it. The end of the
process keeps nothing but the table and the file. `overtaken` and `sound` are
additions.

`Connections` takes the sessions as rows that exist or not; whether a session
is valid, due for an extension or expired is left open at each check.
`HandleConnection`, `FindUnique`, `FindOne`, `Update` are the awaits of
`validateSession`, for a socket or an HTTP request; `Logout`, `Count`, `Delete`
those of `revokeSession`, with the listener of the logout (`EmitLogout`) in the
turn that emits the event. Any query may be refused; a deletion rejects then, and
when the row is gone. `late`, `cut`, `twice` are additions that the
properties explain.

### Access, Search, Statistics

No state: operators that are checked for every input of a bounded set.
`Access` has all the routes of the five controllers with their guards, scopes
and effects, and the guards as predicates. `Search` transcribes
`searchInIndex` over indexes in which a file is its place, with which names
match and how many are below the pattern; each loop is a fold of one turn
(`Visit` of the `forEach` with its `splice`, `Narrow` of the `while`, `Push` of
the two loops around a match, which `Outwards` puts in one order). The `while`
is folded over the files, as often as it can turn at most. `Statistics` has what the middleware
logs of an answer and the ranges of the five charts, in ticks of the clock.

## Runs

| run | instance | shows |
|---|---|---|
| `upload_core` | 1 key, 2 blobs of 1 byte and one at a negative position, size 2, 2 drains, 2 requests | types; table and array agree (`DirectoriesMatchStorage`); `SingleWriter`; `AcceptedBytesAccounted`; `CompletedUploadIsWhole`; `WrittenBytesReachDisk`; `UploadEndsForAReason` |
| `upload_limit` | 2 keys, FILES_ATST 0, TRUNCATE_FILE | `WritingLimit`: one more than the setting, never two more |
| `upload_live` | 1 key, a large and a small blob and one at a negative position, sizes -1 and 2, fairness | `FullyReceivedUploadEnds`, unless the thread is caught by blobs no stream takes |
| `upload_duplicates` | as `upload_core`, sizes 0 and 2, without the negative position | violation: a blob sent twice completes an upload that lacks the other half |
| `upload_small` | blobs below the high-water mark | violation: both open a new file with `w`, counted bytes are gone |
| `upload_replaced` | as `upload_duplicates` | violation: two initialize requests, the second replaces the upload of the first |
| `sessions_core` | 1 session, 1 user, 2 tasks, clock to 2, fairness | `CachedSessionExists`, `CachedScopesCurrent`, `CachedRoleCurrent`, `CachedExpiryNotEarlier`; `LoginEnds`, unless the user is deleted under it |
| `sessions_logout` | the same, clock stopped | violation: a session is cached, and accepted, after its logout was answered |
| `tokens_core` | 2 ids, 2 users, 2 tasks, four workloads | what is cached: `CachedTokenCurrent`, `ListedIsPublic`, `PagesReachAll`; what is stored: `LinksFollowFiles`, `LinksEndForAReason`; `OnlyVisitorsRemovalsEndTheProcess` |
| `storage_core` | 2 files, sizes -1 and 1, 1 request, 2 walks; 2 users, 2 refreshes; fairness | types; `QuietWalksCountTheDisk`, `UsedSpaceCatchesUp`; `ScheduledChangesAreStored`, `OnlyBrokenRefreshesEndTheProcess` |
| `services_core` | 2 users, 2 requests, 2 saves; 2 sessions, 2 clients, 2 revocations; 2 tries, clock to 4; all callers of all routes; all indexes up to 7 files; times around the limits of hours and days | `RefusesOnlyTheLocked`; `OwnerStaysAdmin`, `OwnerChangesHands`, `SettingsSurvive`; `RevokedSessionHasNoConnection`, `ForgottenWhenClosed`, `OnlyUnawaitedDeletionsEndTheProcess`; `ReadingKeysChangeNothing`, `KeysStayWhatTheyAre`, `AccountsAreGuarded`; `SearchMissesOnlyNeighbours`; `ChartsCountEveryVisit` |
| `services_lockout` | as `services_core` | violation: after one window any number of wrong passwords is let through |

**Bounds.** One key suffices for everything said about one path, since drains of
other paths touch neither its record nor its file; the limit needs two. Two
drains and two requests are the least with which an upload meets the leftovers
of the one it replaced. Two blobs give a half-written file, `MaxReceived` 3 a
duplicate on top. `MaxStreams`, `MaxBlobs`, `MaxReceived` and `MaxTime` appear
in guards only. `upload_core` waits for the disk at each blob
(`HighWaterMark` 1), where `WrittenBytesReachDisk` holds; `upload_small` is the
same question where it does not. Two tasks suffice for a fill and a writer that
overlap; with the lifetime 1 and the margin 1 the clock reaches the extension
at 1 and the expiry at 2. A session table of one row checks
`invalidateSessionsByUserId` on one entry only.

`tokens_core` has four workloads, chosen in the initial state, as the requests
they leave out touch none of the state their properties are about: visitors and
owners with a clock of one step (a link expires, the cache is cleaned); the
lists with a page of two links, so that the number of pages rounds; moves and
removals of one user's folder while both users share; moves and removals of two
files that go to the same place. Two tasks are a fill or visit and the writer it meets.
Folders go to a new name and to one that the old name begins. Two
ids are one that a client chooses and the one with the user's name in front.

In `storage_core` an older walk can end last, and a file can change, vanish or
come while either is at work; a file has one byte at most (`MaxBytes`), which is
enough for a walk to have counted what is gone, or missed what has come. What is
announced may be negative, and totals are one or two, so that the guard lets
none, one or both uploads in. One user's files change once and the other's
do not, which is enough for a walk to be older than another, and for the cron
job to have a next user. Both parts share the run and no state.

In `services_core` a behaviour is of one part only, so the same values serve two
parts each (users or sessions, clients or requests, revocations or saves), and
symmetry in all three sets is sound. Two
requests are the least that overtake each other, two saves the least that
overlap; `MaxUsed` 1 makes a longer and a shorter file. A search of 7 files
has every order of matches around two probes of the bisection. The times are
in half hours: around 48 hours, where a chart goes from hours to days, and
around full days. An api key has one scope, none, all, or all those that read
(or do not); two scopes let in where either does.

**Deadlock** is checked in every run of `Upload`, `Sessions` and `SharedTokens`.
The other two stop by design: when the versions and the files are used up, the
clock is at its end, or the part only computes.

**Fairness.** `Upload`: the interval and the continuations of a drain are
strongly fair, because the event loop runs every callback that is due although
others come first for a while and `Ready` disables them for that while; the
disk answers (weak fairness of the landings), and the lookup of a finished file
does not fail for ever. Requests are not fair: nobody has to send them.
`Sessions`: strong fairness of a task's answers, as a database that fails now
and then is asked again; failures, deletions and the end of the process stay
possible at any time. `Quota`: walks are weakly fair, as the cron job starts
again and again and the disk answers; nothing is assumed of uploads.
`Trees`: `UpdateIndexes` is strongly fair (its timer finds a free slot again and
again, though other refreshes take it); the disk and the database answer
(weak fairness of `Continue \/ Refused`), but may refuse at any query.

**Findings.** Each violation run is one, with the lines that disagree in
`PROJECT.json`. The session of `sessions_logout` outlives its hour in the
cache: every request renews `lastUsed`, and when it comes close to its end
`revenueSession` moves the cached expiry before the update of the missing row
fails, so the request fails once and the next are accepted again.

## Proofs

All theorems are for every value of the constants that satisfies the named
assumptions: settings have their types, sets that are counted (keys, files,
slots) are finite, what stands for "nothing" is none of the other values, and,
for paths, that a path lies in itself and a path replaced by another in itself
is the other. TLC evaluates each assumption in every run. Where a module is
extended by a composition, its assumption is a hypothesis of its theorems
(`ConnectionsAssumption`, `TreesAssumption`, `AdministrationAssumption`,
`QuotaAssumption`), and the composition assumes it.

**UploadProofs.**

- `TypeCorrect`: `Spec => []TypeOK`. One lemma per group of actions, over
  lemmas on what the operators on records return.
- `DirectoriesMatch`: `Spec => []DirectoriesMatchStorage`. Inductive together
  with the types; the steps that change the table change the array with it.
- `OneWriter`: `Spec => []SingleWriter`. Not inductive: between the end of the
  writing and the end of the upload a drain stands at "completing" with the
  flag off, and drains of an earlier upload of the path may be about. `IInv`
  adds to the types, for every key, `Locked(k)`: of an undisturbed upload the
  flag is set exactly while some drain is at work on the file, there is at most
  one such drain, and a drain at "completing" has seen all the bytes saved.
- `UploadsEndForAReason`: `Spec => UploadEndsForAReason`, from `IInv`: only
  `DelFile` and the end of the process remove a record, `DelFile` has three
  callers, the drain among them has seen the upload complete, and a `closeFile`
  that removes a record has named its key.
- `LimitOfWriting`: `Spec => []WritingLimit`. The table counts files that are
  being written by a sum over the keys. The files of undisturbed uploads among
  them (`BeingWritten`) are at most the sum, by the lemmas of `Sums`, so
  `allowWriteMoreFiles` refuses when it should; it looks before a file joins,
  hence the one more than the setting.
- `NoAcceptedByteLost`: `Spec => []AcceptedBytesAccounted`. `Accounted(k)`:
  every accepted byte is covered by the record (counted or queued) or held by a
  drain. Sequences of blobs only matter by which bytes are in them (`Queued`).
- `CompletedIsWhole`: `Spec => []CompletedUploadIsWhole`. `isCompleted`
  compares sums of lengths, so the invariant has to say why they are numbers of
  bytes: for a tidy client and an undisturbed upload the written bytes, the
  queued blobs and the blob of the drain at work are pairwise disjoint subsets
  of what was accepted (`Neat`, `Apart`), and `saved` is the cardinality of what
  was written. At the announced size these are all the bytes there are.
- `WrittenReachesDisk`: `NoSmallBlob => (Spec => []WrittenBytesReachDisk)`. The
  hypothesis says that every blob fills the buffer of a stream; `upload_small`
  shows that the property is false without. With it no drain leaves a stream
  alone (`Awaited`), and what is counted, or about to be, is in the file, while a
  stream that will empty the file began when nothing was counted (`Reaches`).

The last four share `StepOfRecord`: for one key, a step creates the record,
receives a blob, starts a drain, lands a blob, counts it, queues it again, or
leaves the record and its drains alone. Each property is then shown for these
few kinds of step, not for the twenty actions.

**Sums.** The community modules define a sum by recursion over a finite set. The
induction that reasoning about it needs is had without an operator as a
parameter: in every family of subsets of a finite set there is a least one
(`LeastSubset`, from the well-foundedness of strict inclusion), so a property
that fails somewhere fails at a least set. `SumsAreCounts` is the main theorem:
the recursion computes the cardinality of an explicit set of marks, `f[x]` of
them for each `x`. The rest (a sum of nothing, without an element, of equal
functions) are facts about cardinalities.

`Inductive` is induction over numbers, with a set in the place of the predicate.
`FoldExists` uses it to show that the recursion by which `FoldLeft` is defined
(over sets of places, of which it takes the greatest) has a solution for a
sequence of every length; the operator that is folded is given as a function over
a set of states, so no operator is a parameter.

**SessionsProofs**, for all ids, users, lists of scopes, times and numbers of
requests at work:

- `TypeCorrect`: `Spec => []TypeOK`.
- `CachedExists`, `CachedScopes`, `CachedRole`, `CachedExpiry`: the four
  properties of the cache that `sessions_core` checks, with the same caveat of
  entries whose fill was overlapped. None is inductive, as none says anything of
  the requests that are about to change the table. `IInv` adds what a request
  holds at each of its awaits (`Shape`); that an id belongs to its row or to the
  one request that creates it (`Known`); that what a request has read and nobody
  has written since is what the tables say (`FreshReads`); and of a sound entry
  that no revocation of its session is under way, that every extension under way
  ends no later than the entry, and that it differs from the tables only while
  the request that wrote them is about to drop it (`SoundEntry`). Each action
  has a lemma; those that write a row share `RowStep` and `UserStep`, those that
  answer from the cache `SessionStep`.

**SharedTokensProofs**, for all ids, users, paths, moves, settings, sizes of a
page and workloads: `TypeCorrect`, the three properties of the caches
(`CachedLinks`, `CachedLists`, `CachedPages`), `LinksEnd`, `VisitsEndTheProcess`
and `LinksFollow`. `IInv` adds to the types what a request holds at each of its
awaits (`Shapes`; a guard has let an owner in by the name in the row it found,
however old that is); that what is held and was not written since is what the
table and the disk say (`FreshReads`); and, of a cached link, list or number of
pages whose fill was not overlapped, that it agrees with the table and that no
request has dropped the caches and is yet to write what it tells
(`SoundEntries`, `SoundPages`, `SoundTotal`). The mark is needed as the code
drops its caches before the query, and never after it. Each action has a lemma;
those that only go on share `QuietStep`, those that drop the caches
`DroppingStep`, those that write links `WriteStep`, those that answer from the
cache `WithTokenStep`. `LinksEnd` follows as only three actions end a link
(`WhoEnds`) and each has a fresh row with its owner, or is marked.

`LinksFollow` (`Spec => []LinksFollowFiles`) speaks of the moments when no move
is under way, so its invariant `LinksIInv` says what is true in between: the file
of a link that is not lost is on the disk (`FilesThere`); such links know of one
move at most (`OneMove`); and while it goes on (`Overtaken`, `Behind`) a link of
the mover that still names what was moved belongs to the file with the path
replaced, and every other link is right; once the links to rewrite were read,
each link is right or has its right path among what is left to do. That a link
just updated is not updated again, although its new path may begin with the old
one, is where the disk's refusal to move a folder into itself is used.

**StorageProofs.** Of `Quota`: `SpaceTypeCorrect` and `QuietWalksAreRight`
(`QuotaSpec => QuietWalksCountTheDisk`). `SpaceIInv` says of each quiet walk that
what it has added up and what the files it has left hold is all that is on the
disk, and that nothing was removed; `SumWithout` of `Sums` moves one file from
the second sum to the first. Of `Trees`: `TypeCorrect` and `BrokenRefreshes`
(`Spec => []OnlyBrokenRefreshesEndTheProcess`); `IInv` adds that a refresh that
began with a tree and a directory still finds both and never comes to the
creation (`Founded`), so that it fails by a torn walk or by the database only.

**ServicesProofs.** `ThrottleIsLenient`: `ThrottleSpec => RefusesOnlyTheLocked`.
Each action is the step of `Lockout` of that name; that a refused user is locked
needs an invariant (`Recorded`): while the window of the first failure is open,
`tries` is the number of the last wrong passwords and none of them is older than
that failure (`CountsTheWindow`). After it nobody is refused, which is what
`services_lockout` shows from the other side.

`ReadingKeysReadOnly`, `KeysStay`, `AccountsGuarded` hold for every caller: any
set of scopes (a run has a few), any owner, target and link. Every route is
shown to have the guards its effects need (`WellGuarded`), and the three theorems are
about the effects of the routes let in. `ChartsCount` is arithmetic: the lemmas
on divisions say where a unit of time begins and ends, and a visit is in the one
range whose unit it is in; the run has the times around the limits of hours and
days, the theorem all integers and every length of an hour.

`SearchFinds` is about indexes of every length. `ForEachTurns`, `BisectTurns` and
`AroundTurns` unfold the three folds into their turns; then each has an invariant
of its turns. `Passed`, of the first loop: the files are each in one of the two
lists, those not visited yet have moved to the left by as many places as there
are results, and a match the loop was made to pass over follows a result.
`NarrowInside`, of the bisection: the window stays inside the list, and each turn
makes it smaller or stands at a match, so that the loop ends (`BisectEnds`) and
the model's bound on its turns takes none away. `Pushed`, of the loops around a
match: what they came to is pushed if it matches, and once, as `Outwards` goes to
every place once. `ServicesAreAll`
carries the theorems of the parts over to the composition
(`ServicesTypesCorrect`, `ServicesKeepPromises`).

**ConnectionsProofs**, for all sessions, sockets and numbers of revocations:
`TypeCorrect`, `RevokedSessionIsForgotten`, `ClosedSocketIsForgotten` and
`OneRevocationIsSafe`. `IInv` adds to the properties that while a session is
being revoked the cache has no current entry of it and who validates it is late
(`LateWhenRevoked`); that what is current in the cache, or found and not late,
has its row (`Present`); that a revocation at its deletion has left only late
sockets in the table (`Told`); that who is connecting is not in the table, and
open unless cut (`Connecting`); and that of two revocations of a session each is
marked (`Twins`, `Deleted`). The three things a validation can do (`MoveIInv`,
`RegisterIInv`, `RevokeIInv`) and what a connected socket does (`EntryIInv`) are
lemmas that the actions share.

**AdministrationProofs**, for all users and numbers of requests and saves:
`AdminTypeCorrect`, `OwnersStay`, `HandsChange` and `SettingsAreFound`.
`AdminIInv` adds that what a guard has found of the owner is so until the request
is overtaken (`LetIn`), with the role each route writes (`RoleOfRoute`); that a
stopped server has no requests and no saves (`Stopped`), and a save writes to a
file that was opened (`Opened`); and of settings whose saves did not overlap that
the file has the configuration or exactly one save is about to write it to an
empty file (`Surviving`). `NewOwnerStep` is shared by the two ways to become the
owner, `UsersChange` by all that write users, `OneRequest` by all that do not.
The attempt to prove `HandsChange` found what two slots for requests do not show:
with three, a change of a role that was let in before can make the owner an
administrator again between the guard of a setup and its write, and the setup
takes the instance from an administrator. Such a setup counts as overtaken.

**Model-checked only.** Liveness (`FullyReceivedUploadEnds`, `LoginEnds`,
`UsedSpaceCatchesUp`, `ScheduledChangesAreStored`), which is beyond the prover.
Every invariant and every action property of the passing runs has a theorem.

## Plan

The modules of the first plan are written. What would add most next, in this
order: an abstract gate (granted, revoked) that `Sessions` and `Connections`
implement together; the drains of `Upload` with two keys and the order of
`filesDirectories`.

## Not modelled

The content of files and what only moves it: listings, zip, streams, copies,
ranges of videos. Statistics of file types and used space by user, which read a
tree. Changes of passwords, hashing, the text of tokens (libraries). The system
events, whose only receivers are the web sockets; of these, the listeners that
only send. The monitor, a ring of samples nothing depends on. Lists and pages
that are queries of a table. Several processes on one database: `main.ts` has
its cluster mode commented out.
