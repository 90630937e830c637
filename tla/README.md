# TLA+ models of ym

ym is a self-hosted music server written in Go: an HTTP API over Postgres and an
S3 object storage (MinIO), with ffmpeg for transcoding. One server process holds
request handlers, a transcoding worker and the goroutines of backup and restore
operations. There is no queue or lock service between them: they share database
tables, objects, local files, two mutexes, one channel and one atomic flag. Most
requests are a few SQL statements and storage calls, each committed by itself, with
those of other requests in between. These modules specify that shared behaviour,
check it with TLC on small instances and prove its central properties with TLAPS for
every value of the constants.

Paths below are relative to the repository; line numbers are in `PROJECT.json`
(`map`), which names the code behind every definition.

## 1. Inventory

| Component | State | Operations | Hard behaviour |
|---|---|---|---|
| Track upload and deletion (`internal/service/track_service.go`, `internal/repository/track_repository.go`) | rows of `track`, `track_album`, objects of bucket `tracks` | UploadTrack, DeleteTrack, UpdateTrack, metadata | three stores and no transaction over them; process ends between steps; deletion racing the worker |
| Transcoding queue (`internal/repository/transcoding_queue.go`) | table `transcoding_queue` | paging producer, commit transaction, requeue transaction | cursor paging over a table that jobs change |
| Transcoder (`internal/transcoder/transcoder.go`) | `isWorkerStarted`, temporary files in the working directory | listener, worker, job, removal of temporary files | lost wake-ups, timeouts, detached goroutines on the same files |
| Backup and restore (`internal/service/backup_service.go`) | `backup_status`, `restore_status`, archive files, two mutexes | start, run, status, download | long operations without a transaction beside everything else; nothing resumes them |
| Object storage (`internal/storage`) | buckets `tracks`, `images` | put, get, stat, remove | errors after the effect |
| Streams and downloads (`track_service.go`, `internal/audio`) | none | quality fallback, stat, checksum, content | objects removed or published between the row and the stream |
| Albums and artists (`album_service.go`, `artist_service.go` and their repositories) | rows of `artist`, `album`, `track_album`, one image each | create, update, delete, file and take out tracks, lists | cascades and keys against what was read; tracks left without an album; singles |
| Playlists and sharing (`playlist_service.go`, `playlist_repository.go`) | rows of `playlist`, `track_playlist`, `playlist_share_info`, one image each | create, change, delete, share, revoke, add and remove tracks, list | permission checked in an earlier statement |
| Artwork (`internal/service/artwork.go`) | bucket `images` | upload, get, delete | the key contains a name that can change |
| Authentication, users (`auth_service.go`, `user_service.go`) | rows of `user`, their token version and hash parameters | register, login, refresh, change user and password | first user becomes superuser; sessions end with a password; legacy rows are completed by a login |
| Password reset (`password_reset_service.go`) | `password_reset_code` | request, confirm | attempts read and written in separate statements; mail fails after the code is stored |
| Search (`search_service.go`) | none | three queries | shows only what the user may see |
| Handlers (`internal/handlers`) | none | authenticate, check for superusers, turn errors into statuses | a status that does not say what was done |
| Metrics, image conversion, configuration, generated API and queries | none of their own | | |

Interactions: UploadTrack inserts a queue row and sends on an unbuffered channel;
the listener receives it, or a five second tick, and starts a worker unless one
runs; the worker reads queue rows and objects, writes files, objects and rows;
DeleteTrack removes objects and rows under it; a backup reads all tables and then
the objects; a restore truncates the tables, removes the objects and writes both
again, while uploads, deletions and the worker go on.

What makes each component correct:

- queue and worker: one worker; one row per track; rows neither lost nor starved;
  presets published at once or not at all; the database names only stored objects;
- upload: once accepted, the track becomes playable in every preset whatever fails
  or restarts in between; the request does not wait for the transcoding;
- backup: a finished backup is self-contained and full;
- restore: nothing but the archive's library is there after an undisturbed restore;
- operations: one of a kind at a time, an outcome that is never changed, an end;
- streams: whoever finds a track's row finds a file to play, and headers that
  describe it;
- accounts: an installation has a superuser, sessions end with the password, codes
  work once and a bounded number of guesses is compared with one;
- playlists: nothing changes without a permission that was held, no image stays under
  a key that nothing reads, lists name a playlist once;
- catalogue: no row or object without what it belongs to, no track out of reach
  but by a request that says so, lists that show what was there, changes by superusers;
- answers: what a request reports done is so, and one that reports a mistake of the
  client has changed nothing (in the catalogue: not with that report).

The hazards behind these, at the lines where they bite, are listed in
`PROJECT.json` (`hazards`) with the properties that cover them.

## 2. Modules

| Module | What it is |
|---|---|
| `TrackLifecycle` | abstract: the life of one track as the API promises it |
| `TranscodingPipeline` | uploads, deletions, queue, listener, worker, temporary files, process |
| `TranscodingPipelineMC` | symmetry for TLC |
| `TranscodingPipelineProofs` | theorems about `TranscodingPipeline` |
| `OperationLog` | abstract: what the two status tables promise |
| `BackupRestore` | start requests, backup and restore goroutines, uploads beside them, process |
| `BackupRestoreMC` | symmetry for TLC |
| `BackupRestoreProofs` | theorems about `BackupRestore` |
| `TrackStreaming` | a stream or download beside the whole of `TranscodingPipeline`, which it extends |
| `TrackStreamingMC` | view for TLC |
| `TrackStreamingProofs` | theorems about `TrackStreaming`, on those about `TranscodingPipeline` |
| `RestoreAndPipeline` | a restore beside the whole of `TranscodingPipeline`, which it extends |
| `Accounts` | users, passwords, tokens, reset codes |
| `AccountsMC` | symmetry and view |
| `AccountsProofs` | theorems about `Accounts` |
| `Playlists` | playlists, their tracks, shares and covers |
| `PlaylistsMC` | symmetry, view, one private track |
| `PlaylistsProofs` | theorems about `Playlists` |
| `Catalog` | artists, albums, tracks, their images and lists, search |
| `CatalogMC` | symmetry, view, the library to start from |
| `CatalogProofs` | theorems about `Catalog` |

### TranscodingPipeline

One action per database statement or transaction, storage call, external command
and channel hand-off. `proc` is the server process; `tracks`, `presets`, `queue`
and `nextID` are Postgres; `objects` and `tmp` the bucket and the working directory;
`upload[t]` and `deletion[t]` say where a request is in UploadTrack or DeleteTrack;
`producer[w]`, `page[w]`, `lastElementID[w]` are the goroutine of
GetTranscodingQueue, `job[w]`, `jobRow[w]`, `todo[w]` the consumer's job. `removers[t]`
counts the removeTmpFiles goroutines that job's deferred call has started.

- A file is `none`, `partial` or `whole`: what ffmpeg computes is not modelled, only
  whether it got to the end. A name is the track whose original it is made from, and the
  preset; a track's row carries such names (`presets`), which a job makes from its own
  file's name (`TranscodedNames`), and everything that reads or removes an object goes by the name.
- The producer hands over one row at a time on an unbuffered channel, so that it
  reads the next page while the last row's job runs: `TakeRow` and `ReadPage` do the same.
- `Fault` spends one of `MaxFaults`. A failing statement is rolled back or, where
  it matters to what follows, commits with an error in the reply. Calls made with the
  worker's context also fail, for free, once the server is `stopping`.
- `Exit` forgets requests and goroutines, keeps rows, objects and temporary files.
- The five os.Remove calls of removeTmpFiles are one step; the comment there says why
  that loses no outcome.
- Each track id belongs to one upload and to one delete request at a time. Albums,
  which a single's upload creates, are left to the catalogue; creation is refused
  nondeterministically where the code finds a name taken.

### BackupRestore

`request[o]` is the handler that starts operation `o` (waiting for the mutex,
holding it, answered), `stage[o]` its goroutine. The library is a sequence of parts
in the order of the foreign keys: a part is the rows of some tables and the objects
they name, and carries whose it is (`first`, `other`, `upload`) or `none`. backupDB, the
packing of objects, clearStorageState, restoreDBSnapshot and restoreStorageState are
loops over the parts, one part a step, because nothing makes them atomic; TRUNCATE is
one step.

- Libraries are of one installation, so that ids and keys coincide: this is the
  case in which rows conflict and objects overwrite each other.
- Inserting a part needs its rows absent (primary keys) and the part before present
  (foreign keys).
- Images, which a backup passes over when missing, and the options include_images
  and include_transcoded_tracks are left out: the parts' objects are the original tracks.
- Other writers are uploads, which create rows and later store objects. Deletions
  and the transcoding worker during a restore are in `RestoreAndPipeline`.
- What a client sends to a restore is a whole library, a downloaded backup, or bytes
  that are no backup.
- Each operation is asked for once, so that an idle server is a legitimate end: the
  configurations switch the deadlock check off.
- A panic ends as an error of the operation, at every place up to the statement that
  confirms it. Behind that statement the goroutines only log, so that the update of the
  deferred recover, which looks at no status, finds no confirmed row.

### TrackStreaming

One request (`stream`) is served beside everything in `TranscodingPipeline`; `answer` is
what the last step sent. `Ask` reads the row and chooses the file as
`findClosestExistingTrackFile` does, `CheckAccess`, `GetTrackInfo`,
`calculateTrackChecksum` and `GetTrack` are the calls that follow. One request is
enough: requests read and never write, so that they cannot meet each other.

- Albums are the catalogue's: GetTrack, which joins the row with its album, may find
  nothing at any time. Access is refused nondeterministically, for the same reason.
- A stored checksum is used without a call, a missing one is computed from the
  object; either may be the case for any object, since restored objects have none.
- Contents are `partial` or `whole`, so that `HeadersDescribeTheBody` tells objects
  of different length or kind apart, and one file from another.

### RestoreAndPipeline

The restore of an archive that holds originals only, row by row and object by
object, where `BackupRestore` has parts: it empties and fills `tracks`, `queue`, `objects` and
sets `nextID` back, while the listener, the worker, uploads and deletions of
`TranscodingPipeline` go on with the ids they hold. Primary keys are a conjunct of
`PipelineStep`: an upload gets no id that a row has, and a step that would insert an id twice is
not taken. The archive's tracks are any non-empty set, numbered from 1 as
`prepareOriginalOnlySnapshot` does; users, albums and images are left to the other modules.

### Accounts

One action per statement, with the mail as a step. `req[r]` holds what a request
has read. Time is two flags of a code that fall at any moment (`CooldownEnds`,
`CodeExpires`). Passwords are numbered per user in the order of their writing, so that
each is new; a hash carries the number of threads it was computed with, because
that is what a legacy row does not say and what `VerifyPassword` has to find out.

- `tokens` are the refresh tokens ever handed out, with the password whose holder
  got them: history that the code does not keep. An access token needs no row and is
  represented by the caller's identity. `mailed`, `spent`, `raced`, `mixed` and the
  fields `guesses` and `crossed` of a code are history too.
- Clients send any password, any token handed out, and as a code one that was mailed
  or a wrong one.
- The registration's transaction is two steps, because Read Committed lets another
  one count in between.

### Playlists

Ids of users and of playlists are numbers of one range, as in the code: `Create` and
`DeletePlaylistCover` pass them in each other's place (`Swapped`), and the model
does the same. `allowed[r]` records which of the rights a request needs its user has had since
it began, `strayed` the playlists changed while a request held a key of theirs.
Reads are actions too, because `Get` and the lists are put together from several statements.
Users and tracks do not change: they are those of `Accounts` and `Catalog`.

### Catalog

Every operation is a list of steps (`UpdateTrackSteps` and its like), each a statement, a
transaction or a storage call, and an action serves each kind of step. Keys,
references and cascades are those of the migrations, as far as a statement's outcome depends
on them. `seen` and `steady` record which tracks a reading request could have met.

- Of playlists only this is left: which tracks stand in one that everyone can read,
  because these can be accessed and cannot be deleted with their artist.
- The files of a track are one thing, stored by the upload and removed by the
  deletion; what becomes of each is in `TranscodingPipeline`.
- The albums of all artists of a list are read in one step: nothing is said about
  the list that depends on their order. Searches ask for all three types.
- The statement that moves a track to another album deletes and inserts in an order
  that Postgres does not specify; both outcomes are taken.
- The transaction of DeleteTrack is Read Committed and its reads lock nothing
  (`track_repository.go:212-242`): they are steps of their own (`ReadDeletedTrack`), and what
  it deletes goes in one step when it commits. `met` records the filings of the track and the names
  of albums that were there while the request was under way.

- `Founded` is the library at the start. It keeps the keys and references of the migrations
  (`WellFounded`), and `MaxFounded` bounds the rows of each of its tables, as `MaxRequests` bounds
  those that requests add.

In the three modules a transaction is one step (but for the registration and the deletion
of a track), and a failing
statement may have taken effect with its reply lost where that changes what follows. They
keep nothing in the process and so hold for several servers, and for one that ends:
a request that is cut off is one that takes no more steps. `reply` is written by each
step and read by none, so that it is outside of TLC's view and spoken of only by action
properties, which TLC evaluates on every step.

### Abstract specifications

`TrackLifecycle` has a status per track (absent, created, queued, ready, gone) and
the set of accepted uploads. The refinement mapping computes the status from the
rows alone: no track row is absent or gone, a row with presets is ready, with a
queue row queued, otherwise created. `OperationLog` has the status rows; the mapping
is the identity. Both have no fairness: that promises are kept at all is stated by
the liveness properties.

## 3. Runs

| Run | Instance | What it shows |
|---|---|---|
| `pipeline_tracks` | 2 tracks, both deletable, 1 preset, 2 workers, page of 2, 1 fault, 1 pending remover; about 800 000 states | `OneWorker`, `OneLiveRowPerTrack`, `ImplementsLifecycle` |
| `pipeline_retries` | 1 track, 2 presets, 1 worker, page of 1, 2 faults, a late remover, a stream in any quality; about 2 000 000 states | `TypeOK`, `NamedPresetsStored`, `QueuedOriginalStored`, `StreamsFindTheirFile`, `HeadersDescribeTheBody` |
| `pipeline_liveness` | 2 tracks, page of 1, 2 faults, fair; about 110 000 states | `EveryRowIsTaken`, `UploadsAreAnswered`, `AcceptedBecomesReady` |
| `pipeline_partial_publish` | 1 track, 1 preset, 1 fault | violated: `PublishedPresetsWhole` |
| `backup_operations` | 1 backup, 2 restores, 2 parts, 1 fault, 1 upload write; about 590 000 states | `TypeOK`, `OneActiveOperation`, `FinishedBackupsSelfContained`, `ImplementsLog`, `QuietRestoreExact` |
| `backup_liveness` | 1 backup, 2 restores, 1 part, 1 fault, 1 upload write, fair; about 160 000 states | `OperationsEnd`, `RequestsAreAnswered` |
| `backup_during_restore` | 1 backup, 1 restore, 2 parts, no fault | violated: `FinishedBackupsFull` |
| `restore_validation` | 1 backup, 1 restore, no fault | violated: `AcceptedArchivesValid` |
| `restore_and_pipeline` | 2 tracks, 1 preset, 1 restore, no fault | violated: `RestoredTracksPlayThemselves` |
| `accounts` | 5 requests, 2 at a time, 2 names, 1 address, 2 attempts, 1 fault, new and legacy installation; about 520 000 states | `TypeOK`, `SomeSuperuser`, `LaterUsersAreOrdinary`, `UsableTokensAreCurrent`, `PasswordsVerify`, `GuessesAreLimited`, `CodesWorkOnce`, `DeliveredCodesStay`, `AnswersAreTrue` |
| `playlists` | 3 requests, 2 at a time, 2 users, 2 names, 1 private track, 1 fault, with and without a first playlist; about 600 000 states | `TypeOK`, `OnlyPermittedChanges`, `ImagesAreShown`, `AnswersAreTrue`, `ListedOnce` |
| `catalog` | 2 requests at once, a superuser and another user, 2 artists, an album with a track of its name and one of another artist, 1 fault; about 340 000 states | `TypeOK`, `ObjectsAreOwned`, `AlbumsAreLeftKnowingly`, `OnlySuperusersChange`, `AnswersAreTrue`, `ReadsAreTrue` |

Why the bounds are enough. Two tracks are the least that compete for the worker and
the page; a page of one makes the producer go back to the query while a job runs,
a page of two makes it hand over rows that are stale by then. Two workers are the
least that can break mutual exclusion; the runs about liveness, and the one with a
stream, have one because `OneWorker` is proved. Two presets are the least of which one can fail. One fault
interrupts anything once; two let a job time out, be put back and be interrupted
again by a kill, or a deletion fail and be repeated. Two restores are the least
that can conflict or follow each other, and a backup beside them is a source of
archives; two parts are the least between which something can happen. The proofs
remove these bounds for the safety properties.

In `accounts`, five requests are what a whole story takes: register, set an address,
ask for a code, confirm it, and one more that comes in between; or a code and
the guesses that use it up and one beyond. In `playlists`, a third request can
come after two that overlapped, and build on a share that the first made. In `catalog` the
library that is there at the start stands for earlier requests, and two are the
least that can get in each other's way; what they leave is not taken further.

### What the violated runs show

- `PublishedPresetsWhole`: ffmpeg's error is only logged by the goroutine that ran
  it (`transcoder.go:227-233`), the preset counts as done, job logs "track transcoded
  successfully", and a truncated output is uploaded and named in the track's row.
- `FinishedBackupsFull`: backups and restores use different mutexes and look only
  for active operations of their own kind, so that a backup reads tables that a
  restore has truncated, and is reported as finished. The API calls it "a full
  application backup" (`api/openapi.yml:1975`).
- `AcceptedArchivesValid`: the API says of 202 "The archive was received and
  validated." (`api/openapi.yml:2282`); it is first opened by the goroutine, afterwards.

- `RestoredTracksPlayThemselves`: a job is running for the queue row with id 1 when a restore
  truncates the queue and inserts a row with id 1 for another track. The job commits: it
  deletes that row and writes the names of its own track's files, which it has just stored, into the
  restored track's row (`transcoder.go:101-104`, `transcoding_queue.go:77-100`). The
  restore reports success; the restored track plays another track's audio in these qualities,
  and it is not queued any more. `tests/backup_restore_test.go:528-538` expect it queued,
  with no names of presets.

### Limits of what holds

- `AcceptedBecomesReady` assumes that the removeTmpFiles goroutines of a failed job
  have run before the worker takes its next row (`RemoverLimit = 0`). Nothing in the
  code orders them; a remover delayed for ever again and again would undo every
  attempt. The safety runs allow one that is late.
- `OperationsEnd` is about operations that still have their goroutine, beside uploads that go
  on. One kill, or one error of the insert or of the update that ends an operation, leaves its row
  pending or started, and then every later request of its kind is refused: nothing at start-up
  clears it. Such rows are excused (`Orphaned`).
- `QuietRestoreExact` is about a restore during which no upload writes.
- `FinishedBackupsSelfContained` says that what the rows of an archive name is in the
  archive, not that it is of the same age: objects are read after rows.

- `StreamsFindTheirFile` excuses uploads that have not stored the original and tracks that are
  being deleted, and presupposes that GetTrack has found the row, hence an album.
- `GuessesAreLimited`, `CodesWorkOnce`: confirmations of one user that overlap are
  excused. Each reads the code before the other has written: wrong guesses sent at
  once count as one, and a code sent twice at once sets two passwords. A failing
  statement gives one more guess, because its error is ignored.
- `DeliveredCodesStay`: two requests for a code that cross are excused; then a failing mail
  of one removes the code that the other delivered.
- `PasswordsVerify`: a login of a legacy row that overlaps a change of the password is
  excused. It writes the parameters of the replaced hash, and the new password does not work.
- `LaterUsersAreOrdinary`: registrations that overlap in an empty installation can all
  make superusers.
- `OnlyPermittedChanges`: a request under way goes through although its permission is
  revoked; and a cover changes for the user who has the playlist's number.
- `ImagesAreShown`, `ObjectsAreOwned`: renaming leaves the image under its old key; deleting an
  artist leaves the images of the albums and the files of the tracks.
- `AlbumsAreLeftKnowingly`: deleting an album, its artist, or a track that has the
  album's name leaves other tracks without one, which only UpdateTrack can reach again. The
  names are read some statements before the album is deleted: it also goes when they are
  different by then, or when the track has moved, and takes the filings of tracks that were put
  into it meanwhile. The property allows for names that were the same at some time during the request.
- `OnlySuperusersChange`: `requireSuperuser` lets everyone pass when the caller's row
  cannot be read, and `DeleteArtist` asks for no superuser.
- `AnswersAreTrue` (`Catalog`): UpdateTrack with the album that the track is in may be refused
  with a conflict; that is no success, and it changes nothing. What is said of a mistake is said
  of the step that reports it: by then an artist or album that is not found when it is read again has
  been renamed, and a track that is gone, or in no album, has lost its files.

### Fairness

Weak fairness of each handler's next step, each goroutine's next step, the ticker, the
removers, the exit of a stopping process (Shutdown gives up after five seconds,
`cmd/server/main.go:211`) and its restart (the deployments restart it). Go's
scheduler runs a goroutine that can run; storage and database calls return or fail,
ffmpeg is killed by the timeout. A select between signal and tick is fair because
ticks and signals are actions of their own and the channel's sender waits. A client is
never obliged to ask; one that has begun to send an archive is assumed to send it to
its end (or fail), without which `RequestsAreAnswered` is false: the mutex is held
while the body is copied and the server sets no read timeout. No fault is
fair.

## 4. Proofs

Every safety property that a passing run checks is also a theorem, for every value of the
constants that the modules assume:

- `TranscodingPipeline`, `BackupRestore`: tracks, presets, workers, operations, parts, page size
  and faults are arbitrary (`Presets` non-empty, `PageSize` and `Last` positive).
- `TrackStreaming`: the presets are qualities that a client can ask for.
- `Accounts`: `Parallelism` and `MaxAttempts` are positive.
- `Playlists`: `Unnamed` is no name and `NoTrack` no track; `UploadedBy` and `Audiences` speak of
  the users there are, or of 0, who is none of them.
- `Catalog`: superusers are users, `Unnamed` is no name, and the library at the start keeps
  the keys and references of the migrations, as every library does that the code has written.

None of the sets needs to be finite, except where a definition counts. The bounds on
requests and faults are any numbers, so that the theorems hold for every finite run.

`TranscodingPipelineProofs`:

- `Typing`. `TypeOK` is inductive on its own.
- `AtMostOneWorker`. `WorkerInv` adds that a running producer implies the flag, and that
  a worker without producer is idle with no row: the flag is what CompareAndSwap tests.
- `AtMostOneLiveRow`. Not inductive, because requeue and commit find the row by the id
  the job was given. `RowInv` says that ids in the table are below `nextID`, distinct,
  and that rows held in pages and jobs agree with the table's row of the same id
  (`Agrees`); `DBInv` that a request that has yet to queue its track has no row and no
  presets. Steps are first summarised by their effect on the queue (`QueueStep`,
  `HeldStep`), so that the invariants are proved from a few cases and not from every action.
- `DatabaseNamesStoredObjects`. `FileInv` adds what a job at "upload" and "commit" has
  already stored (all presets but those in `todo`), and what an upload at "enqueue" has.
  Removal of objects happens only in a deletion, which ends the obligation.
  `QueuedOriginalsStored` is the half of it that a job relies on.
- `PipelineImplementsLifecycle`. Initial states map to initial states; each action maps
  to one abstract action or to a stutter (`StepImplements`), using `DBInv`.

`BackupRestoreProofs`:

- `OperationTyping`. `TypeOK` is inductive on its own.
- `AtMostOneOperation`. `LogInv`: a request past the check holds the mutex and nobody
  else of its kind does (`MutexInv`), no operation of the kind is active while a
  request is about to insert (`RequestInv`), and a goroutine at work has an active row
  (`StageInv`). `OperationMoves` summarises every step by what it does to one operation.
- `OperationsImplementLog`. Every step is a step of `OperationLog` or a stutter, under `LogInv`.
- `BackupsSelfContained`. `ArchiveInv`: an archive is self-contained up to the part
  that the packing loop has reached (`PackInv`); archives that restores received come
  from finished backups or are whole (`Contained`).
- `RestoreExact`. `QuietInv`: while no upload has written, the rows and objects up to
  the reached part are the archive's and the rows beyond are absent (`RestoreInv`).
  It rests on `AtMostOneOperation`: no other restore is past opening its archive.

`TrackStreamingProofs`. `PipelineUndisturbed`: a request for a file reads and never writes, so
that the pipeline's invariant (`IInvInitial`, `IInvInductive`) holds beside it. It does not suffice
for a request, which holds a file's name over several steps: a worker could still write the
preset again, from an older queue row. `PipelineInv` excludes that.

- `CursorInv`: the producer's cursor stands between the row of the job and the rows of the page, and no
  row that is held is younger than its track's row in the table.
- `SettledInv`: when a track names presets, no page and no job holds a row of it and its
  upload can queue none. It needs the order of ids, and that there is one worker (`CommitSettles`).
- `OriginalInv`: an original is whole or absent, and stored once its upload has queued it.
- `StreamInv` says of the request what the answer needs: the file it has chosen is stored, or an
  upload or a deletion excuses it (`Offered`), and what it was told is still so (`Described`).
  From it follow `FilesAreFound` and `HeadersAreTrue`.

`AccountsProofs`. `Typed` is the type invariant with what a request has at each step
(`PlaceInv`), and an account of what the requests under way may still use up (`CountInv`), without which
ids and passwords could leave their range.

- `SuperuserExists`, `LaterRegistrations`. `FounderInv`: a registration that counted no user began
  when there was none, and one that will insert an ordinary user has met another.
- `TokensAreCurrent`. `TokenInv`: password and version change together, so that whoever holds the current
  version, a login about to hand it out included, holds the current password.
- `PasswordsCanBeVerified`. `HashInv`: a login that will write parameters has those of the hash it read,
  which is the row's, or has been replaced since.
- `OnePasswordPerCode`. `CodeInv`: a code is in the row of one user, with the request that will write it,
  or with confirmations of one user; `SpentInv`: a code that has set a password is stored nowhere.
- `DeliveredCodesAreKept`. `MailInv`: what a request mails or takes back is its user's code, or was crossed.
- `GuessesAreBounded`. `GuessInv`: guesses and attempts left add up to what faults so far allow
  (`Allowance`), but for one confirmation between its two statements; that it is one is
  where overlapping confirmations have to be excused (`Balanced`, `Fair`).
- `AnswersTellTheTruth`: by the step that answers.

`PlaylistsProofs`. `Typed` as above: a request is at a step of its operation, with the ids and the
key that the step needs; `StepLeads` and `StepData` summarise steps by what they do to the request
and to the rows.

- `CoversAreShown`. `ImageInv`: the key a request holds is shown by its playlist or strayed, and
  behind the removal of the cover only a strayed image is left (`LeftInv`).
- `ChangesArePermitted`. `PermInv`: a request behind a check has had the right that it is for.
- `ListsNameOnce`. `ListInv`: what a request has read as its user's own stays so or is
  deleted, and the public part that it has read is apart from it.
- `RepliesAreTrue`: by the step that answers.

`CatalogProofs`. `Typed` as above, with `CountInv`: no sequence gives out an id twice or runs out.
`Layout` lists which step each operation has at which place, so that a proof about a kind of step
goes through the operations that have it.

- `ChangesAreForSuperusers`. `PassedInv`: a request behind the check has a superuser's user,
  or the check let it pass because the row could not be read.
- `AlbumsLeftKnowingly`. `TitleInv`: the album that a deletion will take along, with the name that was
  read, was among the track's albums and had that name when each was read (`NamesRecorded`,
  `TitleMet`); no other step takes a track out of its last album but those named.
- `ObjectsHaveOwners`. `OwnInv`: the image a request will store or remove is the one its owner reads, or
  has strayed; who will delete a row has cleared the bucket, or what is there has strayed.
- `AnswersTellTheTruth`: by the step that answers, under `Typed` and `OwnInv`.
- `ReadsTellTheTruth`. `ReadInv`: what a reading request has found it has met, and a track
  that was there all the while is found or still to be looked up.

Only model-checked: the five liveness properties (`EveryRowIsTaken`, `UploadsAreAnswered`,
`AcceptedBecomesReady`, `OperationsEnd`, `RequestsAreAnswered`), which TLAPS cannot
prove under fairness; and the four violations (`PublishedPresetsWhole`, `FinishedBackupsFull`,
`AcceptedArchivesValid`, `RestoredTracksPlayThemselves`), which are counterexamples and have no proof.

## 5. Not modelled, and planned

Not modelled, for good: HTTP decoding and generated wrappers, metrics, mail transport,
configuration, image and audio conversion, the observability and cluster files. Reads
of users and their avatars: the avatars take the code of `ArtworkManager` that
`Playlists` and `Catalog` model, with the user's name in the key. Ranking of search results and
byte ranges of streams are Postgres's and net/http's.
The goroutines that a timed out `transcodeConcurrent` leaves blocked on their channel
(`transcoder.go:233`, up to three a job): they hold memory and nothing that is modelled.

Planned, in this order; each extends or composes what is here:

1. `TranscodingPipeline` and `BackupRestore` with a constant `Servers`: the deployment
   runs two replicas (`kube/ym-deployment.yml:6`), while mutexes, the worker flag and
   local files belong to one process. To check with two servers and one fault: which of the
   properties survive; whether the id of a row that two workers hold can be requeued twice.
2. In `RestoreAndPipeline`, what holds when no job and no upload crosses the TRUNCATE: that every
   restored track becomes ready under the fairness of the pipeline.
3. The columns that a backup passes over (`backup_service.go:397`), as fields of the parts.

Theorems worth proving next: in `RestoreAndPipeline`, what is left of the pipeline's
invariants when no job and no upload crosses the TRUNCATE; mutual exclusion per server once
`Servers` is there; and the steps without fairness from which the liveness properties follow, as
that a worker that stops has left no row which nobody will look for.
