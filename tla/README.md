# treehole_next in TLA+

treehole_next is the backend of an anonymous forum. Users open *holes* (threads)
in *divisions*, reply with *floors* under a random name that is theirs within one
hole, like, favourite, subscribe and report; admins moderate; a background job
deletes old holes. It is a Go program (fiber, gorm) over MySQL with read replicas,
Redis, Elasticsearch and a separate notification service. Every request runs in a
goroutine of its own, several server processes may share one database, and what
orders them is the database: row locks, unique keys, transactions.

This directory holds TLA+ modules of that behaviour, the TLC configurations that
check them on small instances, and proofs for TLAPS that hold for every instance.
`PROJECT.json` maps every definition to the lines it models.

## 1. Components

| component | state it keeps | operations | talks to | what is hard | correct when |
|---|---|---|---|---|---|
| Posting | tables `hole`, `floor`, `anonyname_mapping` | CreateHole, CreateFloor, ModifyHole, HideHole, DeleteHole, purge | index, messages, content check | an unlocked check, a remote call, then a locked transaction; lock waits; rollback | rankings have no gap, names stay distinct and stable, nothing is stored in a deleted hole, a purge is total |
| Search index | Elasticsearch documents of floors | every handler that writes a floor or hole starts a goroutine | Posting, Floor history | nothing orders the goroutines; they may run before their transaction ends, or be lost | when quiet, a search finds what a user may see |
| Floor history | columns of `floor`, `floor_history`, `floor_like` | ModifyFloor, ModifyFloorLike, DeleteFloor, ModifyFloorSensitive, RestoreFloor | index, content check | RestoreFloor reads, backs up and saves with others between | marks stay with the text they were given for, no version is lost, likes are counted |
| Reports | table `report`, `adminCounter` in memory | AddReport, DeleteReport, dispatch to an admin | messages, bans | no transaction; a counter shared by all handlers of a process | no reason is lost unseen, an admin is always found |
| Favourites | `user_favorites`, `favorite_group`, counters in group, hole and user | add, remove, move, replace; groups | hole, user | counters beside rows, some operations without transaction, deleted groups keep their ids | counters are the numbers of rows, ids are free |
| Hole views | a channel of 1000, a map, `hole.view` | PatchHole, flush each minute | start-up and shutdown | full channel, failed flush, exit | a counted view is stored at most once, and none vanishes unexplained |
| Login and punishments | `user`, `punishment` | LoadUserByID, BanUser, BanUserForever | messages | two admins, expired bans still stored | a ban lasts as long as its records say |
| Bans from reporting | `report_punishment`, `user.ban_report` | BanReporter | Reports | consecutive bans, never cleared | a ban ends |
| Messages | `message`, `message_user` | Merge, Send, read, delete by floor, purge | notification service | recipients computed from several rows; deletion while sending | nobody hears of one floor twice, and everybody once |
| Subscriptions | `user_subscription`, counter in the hole | add, remove | messages | unlocked check before write | the counter is the number of rows |
| User configuration | column `config` of `user` | ModifyUser | messages | the column is read and written as a whole | a setting asked for is kept |
| Tags | `tag`, `hole_tags` | FindOrCreateTags, CreateTag, ModifyTag, DeleteTag | content check | unique names under races, a wait for goroutines, merge of two tags | one tag per name, no hole loses its tags, temperatures are numbers of holes |
| Divisions | `division` | create, modify, delete (its holes move) | Posting | two statements without transaction | no hole without division |
| AI summaries | a cache entry per hole and version | start, poll, answer | remote summariser | concurrent starts and polls, a service that knows no versions | a summary is not older than its version, and held texts are not sent |
| Content check | the map of labels, under a lock | CheckSensitive, InitSensitiveLabelMap | the service; Posting, Floor history, Tags | a text in several parts, each with its own faults; the map is rebuilt while it is read | what passes was let pass in every part |
| Caches | Redis keys | set, delete, expire | Tags, AI summaries | stale entries | bounded staleness |
| Listing and rendering | none | queries | all | - | only visible things are listed |
| Start-up, logging, bot | tasks | Init, cancel | Hole views, purge, labels | order of shutdown | - |

All but the last three are modelled; `PROJECT.json` says of each component how far, and lists the
hazards it is exposed to. How they are composed: `FloorHistory` and `Posting` are the two
views of the floor table that `SearchIndex` depends on; `Mailbox` starts where `Posting`
stores a floor and where `FloorHistory` removes one; `Catalogue` waits for the verdicts `ContentCheck`
gives. They share rows only where a component reads another's committed row, and such a row is a
choice or a variable of the reading module, so each module allows whatever the other may have written.

## 2. Modules

| module | what it is | checked by | proved in |
|---|---|---|---|
| `Posting` | write path of a hole | `MCPosting` | `PostingProofs` |
| `HoleThread` | what a hole promises its readers; abstract | refined by `Posting` (`ImplementsThread`) | `PostingProofs` |
| `SearchIndex` | tables, index and the goroutines in flight between them | `MCSearchIndex` | `GoroutinesProofs` |
| `FloorHistory` | one floor through edit, review, restore, likes | `MCFloorHistory` | `FloorHistoryProofs` |
| `Report` | report rows and the shared admin counter | `MCReport`, two configurations | `AdminProofs` |
| `Favorites` | favourites, their groups and three counters | `MCFavorites` | `FavoritesProofs` |
| `BanLedger` | what punishing promises admins; abstract | refined by `Punishment` (`ImplementsLedger`) | `PunishmentProofs` |
| `Punishment` | bans from divisions and from reporting, the user's row, time | `MCPunishment` | `PunishmentProofs` |
| `HoleViews` | the channel, the map, the flush and the end of the process | `MCHoleViews` | `GoroutinesProofs` |
| `ViewCounter` | what counting views promises; abstract | refined by `HoleViews` (`ImplementsCounter`) | `GoroutinesProofs` |
| `Catalogue` | tags and divisions, and the holes filed under them | `MCCatalogue` | `AdminProofs` |
| `Mailbox` | who hears of a floor; subscriptions and settings | `MCMailbox` | `MailboxProofs` |
| `Summary` | the cached summary of a hole and the service that writes it | `MCSummary` | `ServicesProofs` |
| `ContentCheck` | a text checked part by part, the labels of what is found | `MCContentCheck` | `ServicesProofs` |

The `MC` modules only add constants, a symmetry set, a bound and `TLC`. Three proof modules are about two components
each, which share no state: what goroutines finish after the answer (`GoroutinesProofs`), what asks
another service (`ServicesProofs`), what users ask of admins and admins do (`AdminProofs`). Such a
module extends both, so in one of the two the usual names carry a prefix: `IndexInit`, `IndexNext`, `IndexSpec`, `IndexIInv`
in `SearchIndex`, and likewise `Summary...` and `Catalogue...`.

### 2.1 What is taken of the environment

*MySQL.* A row lock (`SELECT ... FOR UPDATE`, `UPDATE`) is held until its
transaction ends; a plain read sees committed rows only, and may see old ones on a
replica; a locking read sees the newest committed row; a unique key rejects the
second row; a wait for a lock may end in an error that rolls the waiting
transaction back (errors 1205, 1213). A handler that works in one transaction under the
lock of the row it changes is one step. A handler that reads first and writes later is
split where others may come between.

*Replicas.* `models/init.go:38-60` sends a plain read to a replica chosen at random, any read of a
transaction to the source. Where a handler makes one plain read and writes later, a stale read needs no variable: read and write are
separate steps, so whatever the replica had not seen may also happen after the read. That argument fails where a
plain read is made under a lock, for a task already launched, or beside a second read from another replica. So
`SearchIndex`, `Summary` and `Mailbox` have a variable `replica` with older copies of the rows in
question, each such read takes any of them or the source, and `CatchUp` brings a copy up to date. A real replica applies changes
one by one; a copy here may stop after any of them, and several copies are several replicas.

*Queries whose error is not looked at* find less, and the handler goes on: the floors of a hole in `ModifyHole`
and `HideHole` (`SearchIndex`: some or none), the count of held floors (`Summary`: none), the recipients of an announcement (`Mailbox`: none).

*Errors.* Wherever the code can return an error after the first write, a disjunct ends
the handler there (the actions named `Fail...`, `Rollback`, `Lose`).
This also stands for deadlocks that InnoDB breaks, for lost connections, and for the
crash of a server process: what it had not committed is gone.

*History variables* are marked `history` where they are declared. They record what
happened so that a property can speak of it: in `FloorHistory` which text a floor had when an admin approved it, in
`Favorites` which counters a race has touched, and so on. No guard reads them.

### 2.2 Posting

| state | code |
|---|---|
| `hole`, `floor`, `anonyname` | committed rows of `hole`, `floor`, `anonyname_mapping` |
| `hole[h].stale` | `updated_at` is older than HOLE_PURGE_DAYS |
| `holeLock`, `nameLock` | who holds the InnoDB locks of a hole row, of the mapping rows of a hole |
| `req[r]` | the locals of the CreateFloor handler in slot `r`: user, hole, name, ranking, and where it is |
| `purging` | `holeIDs` of the running purge |

`CheckHole` is CreateFloor up to its transaction: the hole is read without a lock,
permissions are checked, the content is sent to the check. `FindAnonyname`,
`GenerateAnonyname`, `LockHole` and `InsertFloor` are the statements of the transaction
in the order of `floor.Create`; what it has written stays in `req[r]` until `InsertFloor`
commits, so `Rollback` only releases locks. Inserting a mapping row share-locks its hole
row through the foreign key, which is why a handler with a new name and one with the row
lock can wait for each other. `CreateHole` is one step: its rows are new and invisible
until it commits. `PurgeSelect` takes its locks at once; a purge that waits half-way
and loses is `PurgeFail`. Bans from divisions are a constant, since a handler reads them once.

Left out: likes, mentions, tags and the search index (modules of their own), and
columns that no other step reads.

### 2.3 SearchIndex

`hole` and `floor` are rows, `replica[s]` the rows of the floors as a replica has them, `index` the documents, `tasks` the goroutines between the
moment a handler fixed what they will write and the moment both the index request is
done and the handler's transaction has ended. Handlers that start their goroutine within
the transaction (ModifyFloor, ModifyHole, the purge) leave a task whose `change` is
committed or rolled back later; those that start it after commit (CreateHole, CreateFloor and the others that write one floor)
change the row and launch in one step. `HideHole` and `DeleteHole` change the row first and look the floors up later
(`CloseHole`, `FindFloors`).

The floors of a hole are looked up outside any transaction, in `ModifyHole` while one holds the row of the hole
(`apis/hole/apis.go:651, 662, 683, 861, 947`): `FindFloors`, `ModifyHoleHide` and `ModifyHoleUnhide` take them from any of
`Copies`, and any part of them, for a query that failed. A reply that is stored and indexed but
not yet in the copy keeps its document when the hole is hidden. The purge reads in its transaction. `disturbed` is set by the events that let the index drift, a copy that lacked
a floor or had an older text among them; `IndexExact` names them all, so the property lists every way in which the index can end up wrong.

### 2.4 FloorHistory

`row[f]` has the columns text, deleted, the automatic mark (`is_sensitive`), the admin's mark
(`is_actual_sensitive`) and the two numbers; `history[f]` the versions in
`floor_history` (as a set: two equal versions tell no property apart); `vote[f]` the
rows of `floor_like`. Every handler but `RestoreFloor` is one step, being a transaction
under the row lock. `RestoreFloor` is `ReadFloor`, `BackupFloor`, `SaveFloor`, or
`FailRestore` between any two; the save writes all columns as they were read.
Fold, special tags, mentions and the modification counter are left out.

### 2.5 Report

`report` is the table (its index is the id), `counter` is `adminCounter`, an int32 with
`MaxInt` in place of 2^31-1. `add[r]` and `deal[d]` are the locals of AddReport and
DeleteReport handlers. Each request stands for the reason it brings; the reason column is the set of
requests it contains. `Increment` and `Reset` are the two atomic operations of
`SendCreate`, `PickAdmin` the index into `adminList.data`; out of range it panics, which fiber's
recover middleware confines to the handler. The order of `adminList` is left out:
any element is an admin.

### 2.6 Favorites

`row[u][g]` are the holes of `user_favorites` in one group of a user, `group[u][g]` the row of
`favorite_groups` (absent, live, or marked deleted with its key still taken), `groupCount[u]` and
`hole[h].count` the counters in user and hole. Each handler but one is a transaction that looks things
up without locks and writes afterwards: its step `Check...` makes all plain reads and keeps
them in `req[r]`, its second step (`Add`, `Delete`, `Modify`, `Move`, `Create`) writes and
commits, or `Fail` ends it. `Modify` and `Move` read the rows they change under a lock, so that read is in
the second step. DeleteFavoriteGroup has no transaction; its four statements are
`CheckEmpty`, `MarkDeleted`, `ClearRows`, `UncountGroup`, and `FailDelete` stops it between any
two. The update of `MarkDeleted` also matches a group deleted before, since it writes
`updated_at` and MySQL counts the row as changed.

Two things the code does not say at first sight: `IsHolesExist` compares a number of rows with the
length of the list, so a list with a repetition is refused and lists are sets here; and the default group
has id 0, is made when the groups are first asked for, and cannot be deleted.
ModifyFavoriteGroup writes a name, which is left out; what remains of it is `CheckDefault`.

The history names where counters and rows part: `driftedGroup` and `driftedHole` where a request
adds what is there, deletes what is gone, or (holes only) replaces or clears rows without counting
them; `driftedUser` where a deletion is repeated or stops half-way; `late` where a group was written to
after it was marked, or its rows were left. `ModifyFavorite` makes the count of its group exact again.

### 2.7 Punishment

`user[u]` has the columns `BanDivision`, `OffenceCount`, `BanReport` and `BanReportCount`;
`punishment[f]` is the record whose `floor_id` is `f` (a unique column), `forever[u]` the number of
records without a floor, `reportPunishment[u]` the table of bans from reporting in the order of ids.
Time is in days. `req[r]` is a handler: `BanUser` and `BanReporter` read the floor, its hole or
the report first; `LockUser` is the `SELECT ... FOR UPDATE` that opens each transaction and keeps the row it
read in `req[r].row`; `Punish`, `Revise`, `PunishForever` and `PunishReporter` compute the new columns from
that copy, save exactly the columns the code selects, and commit. `Login` is `LoadUserByID`, which drops the bans that
are over; a user may log in at any time or never.

Two things in `Punishment.Create` are easy to overlook. "Same as before, do nothing" compares two
pointers, which differ always, so a request that names the same days is a revision by zero. And `Updates`
leaves out columns whose new value is zero: a revision to zero days, which a request without days is,
changes the end but not `Day`, and the next revision starts from the wrong difference.

The history says what a ban is made of: `from` its start, `counted` the floors it was made longer for,
`drifted` the bans that were revised for a floor they were not made longer for (the hole has moved, or an
earlier ban was over and dropped) or to zero days. For all others `BanIsSum` holds.

`BanLedger` is what an admin may rely on without knowing any of this: a verdict is one step (`Convict` for a floor's first,
`Amend` for a later one, `Exile` for one without end, `Silence` for a ban from reporting) that finds the ledger as it is and leaves record,
offence and end together; bans that are over go in one step (`Lift`). Its ends and counts are columns of `user`, its records
the tables; it has no handlers, copies of rows, locks or holes. `ImplementsLedger` says that `Punishment` is such a ledger.

The ledger is made after the code, and the code disagrees with a comment: `models/punishment.go:14-16` says of a record that "it can't be
modified if other admins punish this user on the same floor". `Punishment.Create` once refused that (the commented line 73) and now
overwrites the days, end, reason, admin and division of the record (83-90); `Revise` does so and `Amend` allows it.

### 2.8 HoleViews

`channel` is `holeViewsChan`, `holeViews` the map, `statement` what the running UPDATE was built with,
`task` where `UpdateHoleViews` is, `server` where `main` is. `PatchHole` and `Send` are a
handler before and after it waits for the channel. `Flush` and `Done` are the two cases of the task's
select that call `updateHoleViews`, up to its Exec; `Store` and `FailStore` are the Exec. `Shutdown`,
`Cancel`, `FailShutdown` and `Exit` are main from the signal to its return, which does not wait for
the task; `End` is what becomes of a statement, of the memory and of the handlers then.

`ViewCounter` promises less than one would wish and names it: a view that was accepted waits, goes into one batch, and the batch is
added to its holes or lost, as a whole and once (`Settle`); the end of the process loses what waits. There `waiting` is the channel and the map
together, so `Take` is no step, `batch` is `statement`, and `lost` the sum of all that was lost. Each call of `updateHoleViews` is
a `Collect`, which may find nothing.

### 2.9 Catalogue

`tag` and `holeTags` are the tables, `hole[h]` the division of a hole, `division` the life
of a division. A `CreateHole` or `ModifyHole` request is `Find` (what is there of the tags it names),
the wait for the checks of new names, and its transaction. `CreateHole` inserts new tags in statements of their
own before (`CreateTags`), `ModifyHole` within its transaction while it holds the row of the hole (`Locked`).
A check that fails leaves the handler in `"stuck"`: its goroutine returned
without `wg.Done()`. `ModifyTag` and `DeleteTag` read first (`ReadTag`; `ReadSource` and `ReadTarget`, two reads) and save later (`SaveTag`,
`MergeTags`). `SaveTag` is gorm's `Save`: an UPDATE and, when no row has the id any more, an INSERT that on a duplicate key writes all columns
of the row in the way. So a tag deleted meanwhile is there again or, if its new name is another tag's (`Namesakes`), that tag's
temperature is overwritten. `MoveHoles` and `DropDivision` are the two statements of DeleteDivision.

What is not modelled of it: where a request names several new tags some of which exist by the time of
the insert, gorm hands the ids of the ones inserted to the wrong entries; a handler here makes one new
tag at most. CreateTag looks at the length and prefix of a name it has not filled in yet. `ListTags` answers a cached list
without `Preprocess`, and the list given to the goroutine `UpdateTagCache` is changed while that
stores it. `RecalculateStats` (`models/hole.go:584`) has no caller.

### 2.10 Mailbox

One hole with floors. `message` and `inbox` are `message` and `message_user`, `sender[h]` a handler with the
queue of notifications it has made. `CreateFloor` is the transaction of `Floor.Create`; `Collect` makes the
notifications (`SendReply`, `SendMention`, `SendSubscription`, each merged into the ones before by
`Merge`). The author of the hole and the subscribers come from queries after the commit that may ask a replica
(`replica`, `CatchUp`) and whose errors leave the list empty (`models/floor.go:491-494, 521-524`); `recipients` keeps
what they found, and a post whose query failed is `broken`. A list of recipients with repetitions is a bag, since `Merge` takes one occurrence per
earlier message out of it. `CheckConfig` leaves those out who have switched the type off, `Store` is the insert of
the message with its hook `AfterCreate`, after which the post to the service succeeds or ends the list.
`PluckMessages` and `RemoveFloor` are the two sides of a removal: which messages there
are is read before they are deleted. Subscriptions and settings are a read (`CheckSubscription`, `ReadConfig`) and
a write.

`DeleteMessageByRelatedHoleID` is left out, its condition matching no message, so is the `SendSensitive` of
ModifyFloor; `DeleteSubscription` ignores the error of its transaction, which is `FailSubscription` here.

### 2.11 Summary

`updated` is the order of the floors by `updated_at`, `like` their likes, `held` the floors the check has stopped and no
admin reviewed. `cache[v]` is nothing, the mark (code 1001), or a summary, which is the number of replies it
was made from. `job` is the service as the code uses it: it knows the hole and the floors last sent.
A request goes through `Load` (the row of the hole), `CountHeld` (`Holes.Preprocess`), `Refresh`, `Look`, then `Poll` and `Save` or `Drop`, or
`ReadFloors`, `Post` and `SetMark`. The row and the floors are plain reads, each from a copy of its own (`Copies`, `replica`,
`CatchUp`), so the floors may be older than the version (`crossed`); the held floors are counted in a transaction.

Every call may fail in the ways the code tells apart. The error of the count is ignored (`models/hole.go:322`): held floors are
then taken for none, and are `news` to the request. An error of the cache is a miss (`Look`) or a lost write (`FailCache`). An answer of the service that is
no summary and has no code leaves the code of the mark, which is stored again (`Poll`). The service may take the floors while its answer is lost (`Post`):
then there is a job and no mark. `Selections` is the choice of
floors: all, or the oldest fifth, the newest two fifths, and the most liked between.
`Version` rounds by a step that grows at three boundaries; `StepsOK` (in `SettingsAssumption`) is what keeps it from going
back, and true of the defaults 5, 50, 200 and 1000. In `config/config.go:63-65` all three boundaries
read the same environment variable, so a deployment that sets it has one boundary.

### 2.12 ContentCheck

`check[c]` is one call of `CheckSensitive`: the pictures in order (`Fetch`, `AskPicture`), the links (`AfterPictures`), the
words (`AskWords`), then the description of what was found under the read lock (`ReadLock`, `NameHit`, `EndNaming`). A
fault at any point is an answer that does not pass. `labels` is `sensitiveLabelMap`, `refresher` the task that asks
for the labels each hour and, if their length has changed, empties and fills the map under the
write lock (`WriteLock`, `AddLabel`, `WriteUnlock`). A table of another content but the same length is taken for
the old one (`Changed`), which the instance includes.

Left out: the rewriting of the text by `reHole`, the dereference of a label that a picture's result
lacks (`utils/sensitive/api.go:269`), labels of the third level, which are never stored (445-450), and that
`getImageBase64FromURL` rewrites the host of a parsed address but fetches the one it was given.

## 3. Runs

| run | instance | what it asks |
|---|---|---|
| `posting_races` | 3 users, 2 handlers, 1 hole, 2 divisions, admin, owner, clock, purge | do racing replies keep rankings dense by the lock alone, names apart and stable, is a purge total (all in `IInv`); is only what is still due purged (`PurgeOnlyTargets`), does every handler answer (`RequestsEnd`), and is all of it a thread that only grows at its end until it is closed, and not after (`ImplementsThread`, the refinement of `HoleThread`)? |
| `search_exact` | 1 hole, 2 floors, a clean and a suspect text, 3 tasks, 1 replica | is the index exact when quiet, but for the events named (`IndexExact`)? On the way there, do tasks that overlap keep to documents of their own (`IndexIInv`)? |
| `history_races` | 1 floor, 1 user, 1 restore, a clean and a suspect text | is no unchecked text shown (`ShownTextChecked`), no version lost (`HistoryComplete`), are likes counted (`LikesCounted`)? Marks stay with their texts (`IInv`) |
| `report_races` | 3 reports of 2 users on one floor, 2 dealers, 2 admins | are admins found (`AdminPicked`), dealt reasons seen (`DealtSeen`), reasons kept (`NoReasonLost`), rows unique (`IInv`), unless handlers overlap in the named ways? |
| `report_notified` | 3 reports, 2 admins | finding, see below |
| `favorites_counts` | 1 user, 2 holes, 3 requests, 2 deletions of groups, 3 ids | are the three counters those of the rows (`CountsExact`), and favourites in live groups (`RowsReachable`), but for the overlaps named? |
| `punishment_bans` | 1 user, 2 floors, 2 reports, 2 divisions, one excluded, 3 handlers, 2 days | are offences counted (`IInv`), is a ban the sum of its records but for the revisions named (`BanIsSum`), and is every handler, whatever it read and when, one verdict on a ledger (`ImplementsLedger`, the refinement of `BanLedger`), so that bans from reporting follow one another? |
| `hole_views` | 3 views of 2 holes, one of which does not exist, a channel of 1, restarts | is every view in one place, stored or lost in one of the named ways (`IInv`), and is a batch settled as a whole and once (`ImplementsCounter`, the refinement of `ViewCounter`)? Do handlers, the task and main, which wait for one another, all go on (`NothingWaitsForEver`)? |
| `catalogue_tags` | 3 requests of any kind, 2 tags and a third name, a hole and another that may come, 2 divisions | do holes keep tags and divisions that are there, are deleted tags gone (`TablesOK` in `CatalogueIInv`), are temperatures numbers of holes (`TemperatureExact`), has a hole the tags that were asked for (`TagsAsAsked`) - each but for the races it names? |
| `mailbox_inbox` | 3 users, 3 old floors, one new one, 1 replica, beside two requests about subscriptions, two about settings, or one of these and a removal, an edit or a mail | does nobody hear of a floor twice (`HeardOnce`) and everybody who should once (`EveryoneTold`), are messages of deleted floors gone (`DeletedFloorsForgotten`)? In `IInv`: inboxes are whole, subscriptions counted and settings kept, but for races |
| `summary_cached` | 2 requesting handlers, 3 requests, a hole that grows from 7 to 8 replies, a change beside it, 1 replica | is a summary never older than its version, unless floors crossed (`SummaryCurrent`); is no held text sent, unless its count failed or it came later (`HeldNotSent`); is a summary only dropped by whom it may (`SummaryKept`); do versions grow (`VersionsGrow`)? Was the service sent what is asked of it (`SummaryIInv`)? |
| `content_texts` | 2 checks of 4 texts, 3 tables of labels, two of one length | is what passes let pass in every part (`PassedInEveryPart`), is a description that of one table (`DescribedByOneTable`), do writer and readers of the map get in (`LockServed`)? |

Where `IInv`, `IndexIInv`, `CatalogueIInv` or `SummaryIInv` is a run's property it is the inductive invariant of section 4: type
invariant and safety properties are its named conjuncts. Between them the passing runs take every action and disjunct.

**Bounds.** `MaxReply` caps replies per hole in `CheckHole` (those in flight included): the
opening floor, and two replies that race for one ranking or follow each other. `MaxTasks` caps goroutines launched:
with 3, two tasks for one document can overtake each other after a first made it. One replica beside the source is
enough where a handler makes one plain read (`search_exact`) or two of the same rows (`summary_cached`): they differ if one asks the source. `Mailbox`
has one replica, and one query of what it has copied.
`MaxVersions` caps versions kept: an edited, a deleted and a restored text differ in at most
that. `MaxInt` is 2 so that the counter wraps within three increments. Two slots per
handler type are what races between two need; three are used where two winners
and a loser matter. `MaxGroupPerUser`
is 10 in the code and 3 here: a default group, one that is deleted and one above it. One user is
enough for `Favorites`, whose users share nothing but the count of a hole. `MaxTime` stops the clock after
two days, and bans last 0, 1 or 2, so that
a ban can be running, over today, and over but still stored; `Forever` is 5, longer than all of them.
`MaxChan` is 1 for three views: one in the map, one in the channel, one handler waiting. `MaxTag` leaves room for
every tag that three requests can make (`BoundAssumption` asks that of every instance: a request makes one at most). `Followers`, `Setters` and `Readers` name one user each
in `mailbox_inbox`, so that two of his requests race; `OneKind` keeps subscriptions and settings, which
share no state, out of each other's way, and beside a task allows one request of either kind (the proofs have no such bound); `Mails` is one list. In `summary_cached` the boundaries are 4, 8 and 20 with steps of
2, 4 and 8: the hole passes from version 4 to version 8 (`FirstReply`, `MaxReply`), five of its eight or nine floors are sent, the
middle one by its likes; `MaxServed` is one request more than there are handlers, so that a poll can follow
a start; `MaxChange` and `Touched` allow one edit, like, review or closing, of an old floor or of the newest.
The tables of `content_texts` differ by a label, or share their length.

What the bounds leave out: a purge of two holes at once (`PurgeTotal` is proved for any number), two restores at
once, which the code allows (the proofs of `FloorHistory` hold for any number), two new floors in one
`Mailbox`. The proofs remove the bounds of their modules.

**Deadlock checking** is off in most configurations, because the system may really stop there: all holes
deleted or full, all handlers answered, all tasks spent. It is on where something can always happen (`history_races`, `hole_views`,
`content_texts`).

**Fairness.** `RequestsEnd` assumes `SF` of the next step of each handler: Go runs a handler
until it answers and InnoDB grants a lock to its waiters in order, so one that is free again and
again is obtained; and `WF` of `PurgeCommit`, a transaction without further waits. Nothing
is assumed of users, admins, the clock or of the start of a purge. Handlers other than replies
are single steps there; the handler that does not end by itself is in `Catalogue` (`CheckFails`), and no liveness is claimed of
what waits for the row it locks.
A reply that waits for its lock would be ended by the lock wait timeout, `Fail`.

`NothingWaitsForEver` assumes `WF` of the task's steps, of the ticker, of main after its signal, and that a statement
ends, one way or the other: the Go runtime runs what can run, and a select picks among ready cases at
random. It assumes `SF` of a send, because senders queue at a channel. Signals, crashes, restarts and
requests may never come.

`LockServed` assumes `SF` of `ReadLock`: Go's `RWMutex` keeps new readers out while a writer waits and on `Unlock` admits all readers that wait
before the next writer. The other steps under the locks need `WF` only. Nothing is assumed of the
service, which may never answer: no one asks it with the lock held.

**Symmetry** is used on slots and interchangeable users in runs without liveness only.

## 4. Proofs

For each component `Spec => []IInv` is proved from `Init => IInv` and
`IInv /\ [Next]_vars => IInv'`, with one lemma per action, and the properties are derived from it.
Every invariant and action property of a passing run is a theorem; what is left to TLC is named at the end.

The only assumptions are the named ones at the constants: roles, names, lock owners and
sets are what they are said to be. No bound on users, holes, handlers, floors, texts or
admins is assumed, except that what is counted must be finite: `Users` for likes and mentions;
`Users`, `Holes` and `Deleters` for favourites; `Floors` and `Divisions` for punishments;
`Users`, `Follows` and `OldFloors` for subscriptions and for the mentions of one user; `Holes` and `Handlers` for temperatures and for the ids of tags.
In `Catalogue` ids end at `MaxTag`, which leaves one for each handler; with a handler per request that is no bound on the requests.
`None` stands for SQL's NULL or for no row and is assumed to be none of the values it stands beside, days and rows
of tags included. `SearchIndex` and `Summary` may have any number of replicas. `Summary` assumes of its settings what `StepsOK` says (2.11): with a step that does not
divide the next boundary `VersionsGrow` is false.

**PostingProofs.** `RankingsDense` is not inductive: it needs that a handler between its locking read
and its insert holds the row lock, and that its ranking is still `reply + 1` (`RowLock`).
`NamesDistinct` needs that an inserted but uncommitted name is still unused, because its
hole's name locks are held (`NameOK`). `PurgeIsTotal` needs that what a purge has selected is
locked and still due (`PurgeInv`), and that a hole that does not exist has no handlers
(`AbsentInv`). From `IInv` follow `Rankings`, `NamesCorrect`, `PurgeTotal`, and the action properties
`DeletedHoleClosed` and `PurgeDeletesTargets`. `Refinement` shows that every step is a step of `HoleThread` or
leaves its threads alone, where the thread of a hole is the sequence of its floors (author, name, deleted or not) by ranking:
dense rankings make it a sequence, so an inserted floor is its last element; names that are stable and distinct make it
consistent; a hole that a purge has selected stays live under its lock until the commit. `RankingsUnique` is proved and not run on its own:
the row lock and the unique index each guarantee it, so no single change of the code breaks it.

**FloorHistoryProofs.** `MarksEarned` needs that what a restore carries in its locals was
earned when it was read and, since approvals are never withdrawn, still is; `HistoryComplete`
needs that a restore past its backup has its read version in the history
(`RestoreOK`). `ShownTextChecked` then follows without a further induction.

**AdminProofs, Report.** `AdminPicked` needs that, as long as no two handlers were between increment
and reset, the counter is an index of the list, or one past it with exactly one handler about to reset it
(`DispatchInv`). `NoReasonLost` and `OneReport` need that a handler still has the row it
found (`LocalsInv`).

**FavoritesProofs.** The four properties are inductive together once it is known that the groups a handler
found are still in the table, live or deleted, that a deletion past its mark finds its group deleted
(`LocalsInv`), and that a group never added has no rows (`AbsentInv`): without it a new group could start
with rows its count of zero does not know. The counting is by the library's facts on cardinality: a set that gains or
loses one element, and unions of disjoint sets where several holes move or two groups are made.

**PunishmentProofs.** `OffencesCounted` and `ReportBansConsecutive` need that the row a handler has read is
still the stored one when it saves, because no other handler of that user is in its transaction and a
login waits for the lock (`LockInv`), and that a handler punishes the author of its floor, or the reporter of its
report (`LocalsInv`). `BanIsSum` needs that a ban was made longer only for floors of its user that have a record, and that
no ban stored means no floor counted (`CountedInv`). The days are counted as a set of pairs of floor and day, since this
prover has facts about cardinalities and none about folds: a floor added to a ban adds a disjoint set, a revision
exchanges the days of one floor. `Refinement` turns the same invariant into steps of `BanLedger`: `LockInv` makes the row a
handler computes from the row it saves over, column by column; `LocalsInv` says whom a verdict is about and that it lasts one of the
`Durations`; and since `PunishReporter` starts a ban at the end of the last record while the ledger starts it at the user's own column, it
needs `ReportBansConsecutive`, by which the two agree.

**GoroutinesProofs, HoleViews.** `ViewsAccounted` is a sum over seven places, inductive with the types and with
`StopFlushes`: a statement is only in flight while its task waits for it, so what `End` adds to `dropped` is
all there was. The count of a hole in a sequence is shown to change by one when an id is put in at the end or
taken at the head. For `CounterRefinement` these facts give what waits for each hole before and after a
step; a batch is only collected when none is out, again by `StopFlushes`; and an `End` settles the statement that was in flight, executed or not,
with all that waits.

**GoroutinesProofs, SearchIndex.** `IndexExact` speaks of quiet moments only; inductive is what holds of each task on the way. A row is
changed by one open transaction at most, and its task writes the documents of all floors which that change lets a user find or
lose (`LockInv`). While nothing has disturbed the index, a document belongs to one task at most, which is going to write
what will be wanted once its transaction has ended, and a document without a task is already right (`DocInv`). A task that has still to
look its floors up only deletes documents (`OpenInv`), a floor that is not there is found nowhere (`AbsentInv`), and in no replica either (`ReplicaInv`), so
that a query finds floors of the hole or misses some, which is a disturbance. When no task
is left, `DocInv` is `IndexExact`. Each of the events that set `disturbed` breaks `DocInv`, which is why they are named.

**MailboxProofs** is in four parts, since an action disturbs few of them: the counters, where `SubscriptionsCounted` needs that what a request has
read is still so unless another of its user has written (`FollowInv`); the settings, where `SettingsKept` needs the same
(`SettingInv`); the messages, where `DeletedFloorsForgotten` needs that a removal at work knows every message of its floor but the
late ones (`RemovalInv`); and what each user is told of a new floor. The counting is by cardinalities that change by one.

`HeardOnce` and `EveryoneTold` follow from that last part. `Hears` says under which types a floor is to be announced to a
user, given what the queries found and switches aside; a post none of whose steps failed has found the author (`AuthorInv`): the queue has each type once, for those who are to hear of it (`QueueInv`), and at every moment
a user was told what there is to hear and no longer queued, no more than that, and no less if every step went well and he did not
change his settings meanwhile (`ToldInv`). The lemmas on `Merge` show that taking one occurrence per earlier message out of a bag
leaves what `Hears` says, the second mention of the author of the hole included.

**ServicesProofs, ContentCheck.** `PassedInEveryPart` needs where a check is, since that says which parts have been let
pass (`PartsInv`): the pictures below the current one, and nothing else. `DescribedByOneTable` needs that the map
does not change under a reader (`NamingInv`), which the locks give: no reader while it is
built (`BuildingInv`). What has been described is then the union over the hits so far under each table seen at the
start. `LabelsWhole` says that the rebuilt map is a whole table.

**ServicesProofs, Summary.** `SummaryCurrent` needs that the service was sent at least as many replies as any marked version says, and that a
request which was told of a summary holds one of its version (`SentInv`), for which the request must have read at least as many replies as
its version says as long as nothing `crossed` (`RequestInv`, `CopyOK`); `HeldNotSent` that a floor held that the request did not count is
news to it (`RequestInv`); `SummaryKept` that a request which finds a summary it had not seen is behind (`BehindInv`). `VersionsGrow` is
arithmetic: a version is a floor to a step that changes at the boundaries, monotone if the steps divide
them.

**AdminProofs, Catalogue.** The foreign keys keep `ReferencesHold`. `TemperatureExact` is a count per tag
that changes by one where a hole gains or loses the tag, and for a merge a union of two sets of holes, disjoint unless the target has `drifted`. For
types it is needed that there is an id for each handler that may still insert a tag (`IdsInv`, a cardinality). `TagsAsAsked` needs what a handler has in
hand: ids that were given, at most one new name, and tags under the names it asked for but those still to be made
(`FilingInv`, `AskedInv`); the id 0 of one who lost a race is no tag, so nothing is stored. `DeletedTagsGone` needs that what an edit saves was not deleted before it was
read (`EditInv`). A hole that is not there has no tags (`FreshInv`), so a new one counts where it gets them and nowhere else.

**Only model-checked**: liveness (`RequestsEnd`, `NothingWaitsForEver`, `LockServed`), which is out of this
prover's reach. `AdminNotified`, the property of the finding, is false.

## 5. Findings

`report_notified`: two handlers increment `adminCounter` before one compares it with the length of the list; it is never reset
again and every later report panics. AddReport says: "Add a report and send notification to admins".

What was met while modelling and has no run of its own:

- a reply checked before an admin locks the hole is stored in the locked hole: `floor.Create` (`models/floor.go:335`) takes the row again but
  does not look at `Locked` again (`models/hole.go:37`);
- a new favourite group takes the largest live id plus one, but a deleted group keeps its key: after the
  newest is deleted, none can be added (`models/favorite_group.go:101`);
- `ModifyFloor` saves the column "DisLike", which the model does not have (`apis/floor/apis.go:499`);
- a ban is added to the end that is stored, though it may have passed (`models/punishment.go:112`), and may be over at
  once; line 29 says it starts now then;
- who subscribes, is mentioned and has switched mentions off hears nothing of the floor, and the author of a hole hears
  twice of one that mentions two of his (`EveryoneTold` and `HeardOnce` name both);
- a floor that was held and later let pass is announced to nobody;
- a check of a new tag that fails leaves its handler waiting for ever, in ModifyHole with the hole locked
  (`models/tag.go:132`, `CheckFails`);
- two requests that make one new tag: the second fails on the foreign key, its tag having the id 0 (`models/tag.go:140`);
- `ModifyTag` saves a tag that was deleted meanwhile: it is there again, or its temperature overwrites that of the tag that has the
  new name (`apis/tag/apis.go:183`, `SaveTag`);
- the error of the count of held floors is ignored: a failed query lets them be sent to the summariser (`models/hole.go:322`, `CountHeld`);
- errors of the queries for recipients are ignored: nobody is told, and nothing is logged (`models/floor.go:491-494, 521-524`, `Collect`);
- the floors of a hole are looked up outside the transaction that locks it (`apis/hole/apis.go:651, 662, 683`) or after it (861, 947), from a replica if
  there is one: a reply it lacks stays searchable in a hidden hole (`IndexExact`);
- the record of a punishment is changed by another admin's verdict for the same floor, which `models/punishment.go:14-16` rules out
  (`Revise`, `Amend`, 2.7).

`IndexExact` holds only but for the events it names, and some of these are worth a look of their own: approving
(`apis/floor/apis.go:1097`) or restoring (`apis/floor/apis.go:818`) a floor indexes it even in a hidden hole, and
showing a hole again indexes its deleted floors.

## 6. Hazards

`PROJECT.json` lists under `hazards` what a test would hardly reach, at its line, with the
properties that would catch it. Four have none. A check of a new tag that fails leaves its handler waiting for ever
(`models/tag.go:132`): the model has that handler and the row it locks, but the code does nothing that could be shown to end it. A ban from reporting never ends, since `AddReport` refuses whoever has
one and nothing clears it (`apis/report/apis.go:103`); `Report` has no bans. The id of a new group that a deleted one
still holds is refused by the key, which `Favorites` takes over as it is. And the order of locks: the purge locks holes and then floors,
ModifyFloor a floor and then its hole; InnoDB ends one with an error, which the
modules allow at every step.

## 7. What could follow

Abstract specifications of favourites (rows with their counts) and of the index, refined as the three abstract modules are;
more than one new tag per request in `Catalogue`; a second hole in `Mailbox`; in `Report`, bans from reporting and the refusal of who has one.

## 8. Not modelled

Generated documentation, benchmarks, embedded data, logging, the chat bot, configuration
loading and rendering have no state that two steps could disagree about. `ModifyDivision` is one locked statement on
columns no other step reads. Reading holes and divisions from
the cache is switched off in the code (`models/hole.go:268`, `models/division.go:60`), so what is written there is not
observed; the cached list of tags is read by `ListTags` only, and no write depends on it. The remote services appear as their outcomes: a verdict, an error, a delay.
