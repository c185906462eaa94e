# Packrat server: specifications, model checking and proofs

This directory holds TLA+ specifications of the parts of the Packrat server
(`src/server`) in which ordering, concurrency and partial failure decide
whether data survives, the TLC configurations that check them on small
instances, and TLAPS proofs of the most important results.

    tlc -workers 2 -config OcflObject_serial.cfg MCOcflObject.tla
    tlapm OcflObjectProofs.tla

The proofs of a module `M` are in `MProofs`; those about the versions of an OCFL
object and what becomes of an upload are in `OcflHistoryProofs`, which builds on
`OcflObjectProofs`.

`PROJECT.json` lists the runs, for every definition the source lines it stands
for, the hazards of the code and the properties aimed at them, and for every
checked property a mutation of the specification that breaks it.

## The system

Packrat keeps digital assets (photographs, models, scenes) of a museum. A
client uploads files; the server stages them, inspects them with an external
job server (Cook), ingests them into a repository of versioned objects on disk,
records everything in a relational database and publishes it. The server is one
Node.js process: there are no threads, but every `await` is a point at which
other requests run, and many calls are started without being awaited.

| Component | State it keeps | Operations | What is hard | Correct when |
|---|---|---|---|---|
| OCFL storage (`storage/impl/LocalStorage`) | object folders: root inventory and digest, version folders, content; staging area; `_eMoveFileType` shared by all objects | promote (file, stream), update metadata, rename, hide, reinstate, read, validate, roll back | no locks between requests on one object; every I/O call may fail; files are moved, not copied; inventories are rewritten in place | what was reported as stored stays readable; the root and head inventories agree; an upload is never lost; rolled back objects are valid |
| Asset ingestion (`storage/interface/AssetStorageAdapter`, `db/api/AssetVersion`) | Asset and AssetVersion rows beside the OCFL object | commit an upload, ingest (one file, zip), rename, hide, reinstate, discard | two stores without a common transaction; version numbers from a read and a write; zip files that fail half-way | the row and the object name the same version; no two rows share a number; a failure leaves no orphan |
| Job engine and Cook jobs (`job`) | map of live jobs, JobRun rows, a semaphore of 25 permits, the current Cook server | create, execute, retry, poll, record status, clean up, cancel | an unreliable external server; statuses recorded by un-awaited calls; a job that waits for another one | final statuses are final; a job ends; cleanup runs once |
| Workflow engine (`workflow`) | map of live workflows, Workflow and WorkflowStep rows | create, jobUpdated, update, wait for completion | news of one job overtake each other; waiters that come late | a waiter hears, and hears the truth |
| Upload and ingestion workflows | report, results | validate an upload, inspect it, start jobs per event | results of several files combined | one bad file fails the upload |
| Upload and ingest mutations (`graphql/.../asset`, `ingestion`) | temporary rows | stream an upload, ingest with metadata | long sequences of writes without a transaction | failures retire what they created |
| Object caches (`cache`) | maps between system objects, objects, names, licenses, vocabulary, users | look up, flush, flush one, set and clear a license | lookups that race a flush; no expiry | never staler than the last flush |
| Events and audit (`event`, `audit`, `db/connection`) | topics, consumers | a change of a row is audited, the audit is an event | started and not awaited, some before the row is written | every change reaches what is derived from it |
| Navigation and search index (`navigation`) | the set of objects to index, the flag of a full index, the documents in Solr | schedule, index a batch, index everything | batches and full indexes overtake each other; failures are logged | the index becomes and stays current |
| Object graph (`db/api/composite`) | a graph under construction | walk ancestors and descendants, build a database of the graph, spread data over it | cycles, diamonds, depth limits, short-circuits | a walk finds all there is; illegal hierarchies are found |
| Licenses (`db/api/composite`, `cache/LicenseCache`) | LicenseAssignment rows, resolvers by object | set, clear, resolve, inherit | inherited along several paths; several rows changed one by one | one license per object, the nearest is inherited, the cache agrees |
| System object versions (`db/api/SystemObjectVersion`) | versions of an object and their asset versions | clone with overrides, roll back, published state | read and written in two steps | no asset of the latest version is lost |
| Collections and publishing (`collections`) | the published state of a version, the package in EDAN | publish, react to edits of a scene | two stores, an external service, work that is not awaited | what the row says is what the public sees, as the license allows |
| HTTP/WebDAV, authentication, GraphQL schema, reports, client | external or request-local | queries and conversions | volume of data | outside of what a model would add |

Interaction: the mutations call the storage adapter, which calls OCFL storage
and the database, and then sends a workflow event; a workflow creates a job; a
job reads assets through the storage adapter, talks to Cook and records its
status in its JobRun row; `updateEngines` tells the workflow engine, which
re-reads the row and completes the workflow; cleaning up after a scene ingests
new assets and waits for a further workflow. Every write of a row starts an
audit, whose event flushes the caches and schedules the indexing of the object.
Ingestion, edits of a scene and the generation of its downloads make new
versions of the scene; publishing sends one of them to EDAN under the license
the license cache names.

## Plan

1. `VersionedObject`, `OcflObject`, proofs — done.
2. `CookJob` (jobs and workflows), proofs — done.
3. `AssetIngest`: rows against staged files and OCFL versions, proofs — done.
4. `ObjectGraph`: the walks against reference definitions, on every small
   hierarchy, proofs — done.
5. `ChangePropagation`: from a change of a row over the event to the cache and
   the index, with liveness; proofs about both — done.
6. `Licenses`: rows, inheritance and cache, proofs — done.
7. `ScenePublication`: versions, downloads, published state and EDAN, proofs —
   done.

Left for later: the mutex protocol of `waitForCompletion`; failover between Cook
servers.

## Modules

### OcflObject

One object of the repository as its folder on disk: `rootInv` and `rootDigest`
are the two files of the root inventory, `verInv[v]` the inventory in folder
`v`, `disk[v][f]` the bits of file `f` there, `staged` the staging area. The
rest is what a request has in memory: its place (`pc`), its operation, the
`OCFLObject`'s `_newObject` flag and inventory (`mem`). Bits and their hash are
one value. An inventory is its head, the state of every version (name to hash)
and the manifest (version and name to hash); the source maps hashes to lists of
names, which is the same relation.

The actions follow the awaited I/O calls in order:

| Action | Code |
|---|---|
| `Start`, `InitializeStructure`, `LoadInventory` | `LocalStorage.*Asset`, `initializeStructure`, `ensureInventoryIsLoaded` |
| `OpenVersion` | `addVersion` |
| `HashFails`, `MoveStaged`, `RenameFails`, `CopyStaged`, `RemoveStaged`, `StreamContent`, `WriteMetadata` | `addOrUpdateWorker`, `safeMoveFile` |
| `CopyVersion` | `renameReinstateWorker` |
| `DeleteFile` | `deleteWorker` |
| `WriteVersionInventory`, `TruncateRootInventory`, `WriteRootInventory`, `WriteRootDigest` | `writeToDiskVersion`, `writeToDisk` |
| `RemoveStagingFolder` | end of `promoteStagedAsset` |
| `RollbackVersion` | `rollbackVersion` |
| `Crash` | a restart of the server: memory is lost, disks stay |

Each I/O call fails when its name is in `FailSteps` and fewer than
`MaxFailures` have failed. The root inventory is truncated and then filled, as
`writeJson` does; version inventories are written in one step together with
their digest, because nobody reads them before the root names them. The hash of
a staged file is taken in the step that moves it: nothing else reads or writes
that file in between. `acked` is history: what callers were told is stored.
Uploads are promoted again until that is reported as successful, as the callers
do, so an upload stands for a staging folder of its own.

`VersionedObject` is the promise: a sequence of versions that grows by one at
its end. `OcflObject` maps to it by reading the committed inventory and the
folders it names.

### CookJob

`JobPackrat.executeJob` with the worker of `JobCook`, one job per element of
`Jobs`: `pc`, the loop counter `attempt`, the request and error counts `tries`,
the results, the status in memory (`status`) and in the row (`dbStatus`). The
permits of the semaphore are held from `post` to the end of the worker
(`Holding`), cleanup included, as in `startJobWorker`.

Every `record*` helper starts `updateEngines` without awaiting it.
`updates[j][s]` is the call started for status `s`: it reads the JobRun row,
reads the WorkflowStep row, updates the workflow in memory
(`UpdateWorkflow`), writes the step (`WriteWorkflowStep`) and, for final
statuses, goes on to `jobCompleted` and the second caller of `cleanupJob`. A
status is recorded at most once per job, so one call per status is enough.
`RecordCancel` keeps the code's guard as it is written.

`cook[j]` is the external server: it reports a job as created, waiting,
running, and then done, error or cancelled, and need not make progress. With
`Silence` it may also stop answering (`CookFallsSilent`): the requests have no
timeout (`JobCook.ts:318`), so that the call waits for ever, and whoever made it
keeps its permit. The timeout of the polling (`Expire`) is looked at only once a
poll has been answered, as in `pollingLoop` (`JobCook.ts:184`). A scene
whose cleanup inspects its models creates a nested job (`NestedOf`) and waits
for its workflow while it holds its permit.

### AssetIngest

Above OCFL storage: the `AssetVersion` rows (`rows`, with `SystemObject.Retired`
as a field), whether an asset's row has a `StorageKey` (`stored`) and is retired
(`retired`), the staging area by storage key (`staging`), and the OCFL object of
an asset as the sequence of its versions (`object`). That is what
`VersionedObject` promises of it: a promotion appends a version, or fails and
changes nothing. A row's `bits` stand for its `StorageHash`, `ingested` has the
three values of the column: `null` is an upload of a model or a scene that is
not validated yet (in a bulk upload, of a model that is not a scene).

A request (`pc`, `job`) is one mutation. It holds the rows it works on and,
where the code does, a copy of a row (`mem`) that `AssetVersion.update` later
writes back as a whole.

| Action | Code |
|---|---|
| `UploadAsset`, `RollbackAssetVersion`, `CreateRow` | `uploadWorkerOnFinishWorker`, `rollbackAssetVersion`, `commitNewAssetVersion*`, `createAssetConstellation` |
| `ReadUpload`, `PassUpload`, `FailUpload` | `WorkflowUpload.validateFiles` |
| `DiscardAssetVersion`, `CountReferences`, `RemoveStaged`, `RetireRow`, `ClearKey` | `discardUploadedAssetVersions`, `discardAssetVersion` |
| `CheckVersions`, `RetireAsset` | `retireAssetIfAllVersionsAreRetired` |
| `Continue` | the loops of `validateFiles` and `createUploadWorkflow` (`retireFailedUpload`) around a discard |
| `IngestAsset`, `PromoteAsset`, `UpdateAsset` | `promoteAssetsIntoRepository`, `ingestAssetWorker`, `promoteAssetWorker` |
| `NextVersion`, `UpdateRow` | `AssetVersion.updateWorker` |

Discarding is one procedure with four callers, told apart by `back`. Whether a
file is good is chosen by the environment; a zip that the validation unpacks
(`Unpacked`: all but models, and a scene is one) may have bad members, which fail
the upload but not the row, or not open at all. A version whose system object
`createUploadWorkflow` does not find is left out of the workflow, and only a line
in the log says so (`uploadAsset.ts:230-238`): it is skipped by `ReadUpload` and
stays `null` although the upload reports success. `failures` are the names of
the calls that have failed. `FailSteps` names the database and
storage calls that may fail, `MaxFailures` bounds how many do. `Serial` says that
no two requests work on versions of one asset: nothing in the code enforces it,
and without it two ingestions of an asset get each other's number.

### ObjectGraph

One object's walk (`ObjectGraph.fetch`), or the filling of an
`ObjectGraphDatabase`. The recursion of `fetchWorker` is modelled by its stack;
every call is one step: `DetectCycle`, `GiveUp` (more calls than `maxPushCount`:
nothing is done and success reported), `ShortCircuit` (an object the database
knows), `PushAgain` (an object the walk has processed), `Push`. The members of
the code's objects are variables: `systemObjectList` (`list`, shared by all
calls, so that what a call at the depth limit gathers is left to the next one),
`systemObjectProcessed`, `systemObjectAdded`, `validHierarchy`, `noCycles`,
`pushCount`, and for the database `objectMap` (`entries`) with its links
(`recorded`). When the walks are done, `ApplySelf`, `ApplyToChild` and
`ApplyToParent` spread the data of each entry as `applyGraphStateRecursive`
does, to depth 32 (`FullDepth`). An object that is linked in two ways, as the
asset that is owned and is the thumbnail of one model, is gathered twice
(`Gathered`). `task` says for whom the walk is made: the browsing of children goes to
depth 1, names and metadata go up or down, `indexObject` both ways with a
database, the full index down from every object.

Nothing else runs in this module: a walk reads the rows as they are.
`HierarchyJudged` states what a walk reports, which is less than one may expect
of it. Only a cycle through the object the walk began with is reported, although
a comment (`ObjectGraph.ts:149-151`) has the walk look for invalid hierarchies and
cycles without that limit. Any object can have an asset (`ObjectGraph.ts:358`),
but going up only those of some kinds are expected to: the asset of a unit or a
project is valid on the way down and invalid on the way up. And a full index
(`FullGraphComplete`) knows what it fetches and what is below that: a unit without
subjects it skips (`ObjectGraphDatabase.ts:121`).

### ChangePropagation

A change of a row (`Update`, `RetireObject` and `UpdateRetired`, `CreateXref`)
starts an audit; its event flushes the object (`ReadSystemObject`,
`FlushObject`) and puts it into `objectIndexSet`; a timer (`TakeObjects`) hands
the set to an indexer, which computes the graph, makes the document and adds it,
object by object (`ComputeGraph`, `HandleObject`, `AddDocuments`). Beside it run
lookups of names (`ReadName`, `StoreName`) and the full index
(`StartFullIndex`, `MakeDocuments`, `AddAllDocuments`), each in the steps in
which the code awaits. `names` and `info` are the two maps of
`SystemObjectCache`, `solr` the documents: an object's name, whether it is
retired, its ancestors with their names, and what it has below.

`Graph` repeats what `ObjectGraph` shows of `indexObject`: a single object with
parents is indexed without its children.

Two histories say where the code has no protection: `overlapped` names the
objects that changed between a read for the cache and its write, `crossed`
those indexed twice at a time. `NamesCurrent` and `IndexCurrent` are about all
others; `IndexBecomesCurrent` needs no such exception, since the full index
makes good what overtaking spoilt.

### Licenses

`active` are the LicenseAssignment rows in force, `cache` is
`licenseResolverMap`. A request (`setAssignment`, `clearAssignment`) ends the
rows it read one by one (`EndAssignment`), flushes the cached answers of the
descendants (`ClearCached`), creates its row and records the answer
(`CreateAssignment`, `RecordCached`). A lookup that misses reads the object's
own license (`Miss`), then the ancestors' (`Climb`), then stores what it found
(`StoreFound`). The hierarchy (`Links`) is a constant: no change of it flushes
this cache. The ancestors are read in one step, to the depth of a walk (`MaxDepth`,
32): `ShortClimbs` says that no way up has more objects than that.

`excused` names answers that may be out of date, for each reason the code has:
a lookup that was overtaken stores an old answer, for good, as nothing expires;
clearing the license of an object without children leaves its own answer
(`LicenseCache.ts:99` flushes what the walk entered, and a walk without links
enters nothing); a row whose creation failed is cached all the same
(`LicenseManager.ts:55`); a flush can fail. `crossed` names the objects two
requests worked on at a time: they may end with two active rows.

### ScenePublication

One scene: `scene` are its flags, `versions` its SystemObjectVersions with their
published state and asset versions, `own` and `inherited` the license, `edan`
the package as the public sees it. A task is an edit (`StartEdit`,
`ChangeLicense`, `ChangeScene`), an ingestion (`Ingest`), a generation of
downloads (`CookEnds`, `CookFails`) or a rollback. A generation begins with an
edit that permits it; with the event of an ingestion, which is sent before the
new version is written and asks for pose and license when it arrives (`Ask`); or
with the ingestion of the model the scene is made from, which asks for neither
(`IngestModel`, `WorkflowEngine.ts:316-367`). All but the first part of an edit
and of an event end in `cloneObjectAndXrefs`, whose read (`ReadMap`) and write
(`WriteVersion`) are steps of their own, as the transaction locks nothing. A
publication is `PublishScene.publish`: `FetchScene`, the first time `NameScene`,
which writes the whole row of the scene as it was read in order to keep its new
EdanUUID (`PublishScene.ts:243-250`), `CollectAssets`, `CreatePackage`,
`RecordState`, `UpdatePackage`. Any step fails; a request to EDAN may also take
effect and lose its answer (`AnswerLost`). EDAN is external: it does as told,
and chooses who sees a new package.

Four histories bound the properties. `lost` names the assets a concurrent copy
put back or a failed xref dropped. `unchecked` says that downloads may be there
without permission: an ancestor's license changed (nothing looks at the scene),
a rollback brought old downloads back, a generation ended after its conditions
had (`PublishScene.ts:311` starts it and nobody looks again) or was started by
the ingestion of a model, the first publication put back flags that an edit had
changed meanwhile, two edits ran at a time, or one failed half-way. `raced` and
`skewed`, in `last`, mark publications that ran beside another one, or read the
version and its assets at different moments. A publication of a version without
a scene file reports success and records the state without telling EDAN
(`PublishScene.ts:126`); downloads that were removed stay in EDAN until
something else differs (`PublishScene.ts:117-126` sends no update when there are
no downloads and status, search and usage are as before), which
`ContentAsRecorded` names (`Overlooked`). An edit that removes the license with
`updateObjectDetails` is taken to leave the scene without one, whatever it
inherits.

### MC modules

`MCOcflObject` and `MCCookJob` give values to function-valued constants,
`MCAssetIngest` names a scene, a capture data set and the bulk upload of both.
`MCObjectGraph` has a unit, an item and two models, any links among them, an asset
of a model that is also its thumbnail and the item's, and an asset of the unit;
`MCChangePropagation` a subject and an item; `MCLicenses` a project with two
subjects that share an item; `MCScenePublication` says what edits may ask for.

## Runs

| Run | Instance | Shows |
|---|---|---|
| `ocfl_serial` | 1 request, 2 uploads under 2 names, 3 versions, 1 failure before the root is rewritten, 1 restart | `TypeOK`, `AckedReadable`, `RootMatchesHead`, refinement of `VersionedObject` |
| `ocfl_rollback` | 1 request, 2 uploads under 1 name, 3 versions, 2 failures before the staged file has moved | `UploadKept`, `ValidWhenIdle` (of a failed first operation only that no file is left) |
| `job_lifecycle` | 1 scene job, unreliable Cook, 2 attempts, 2 requests each, 1 failed database call | `TypeOK`, `OutcomeAgrees`, `CleanedUpOnce`, `FinalStatusStays` |
| `job_nested` | a scene, its inspection, 1 permit, a Cook server that may stop answering | `WorkflowHears`, `JobsEnd` under fairness |
| `ingest_serial` | 2 requests on different assets, a scene and a capture data set, alone or in one bulk upload, 3 staged files, 2 contents, 1 failed call | `TypeOK`, `RowsReadTheirBits`, `EveryVersionHasARow`, `StagedFileKept`, `IngestedRowStays`, `OnlyEmptyAssetsRetire`, `UploadsAreOffered` |
| `graph_walks` | 4 objects with any of the 12 links between two of them, 2 assets with two foreign keys and two thumbnails; all six kinds of walk | `TypeOK`, `WalkFindsAll`, `HierarchyJudged`, `FullGraphComplete`, `GraphDataApplied`, `WalkIsLinear` |
| `graph_index` | the same | `IndexEntryComplete` is violated |
| `change_current` | 2 objects, 2 names, 2 changes, 1 lookup, 2 indexers, 1 failed request, full indexes | `TypeOK`, `NamesCurrent`, `RetiredSeenByUpdate`, `IndexCurrent`, and `IndexBecomesCurrent` under fairness |
| `change_retired` | 1 change, nothing fails, the same fairness | `RetiredBecomesKnown` is violated |
| `license_cache` | 5 objects in a diamond, 2 levels, 2 requests, 1 lookup at a time, 1 failure | `TypeOK`, `InheritsNearest`, `OneAssignment`, `CacheCurrent` |
| `scene_versions` | 2 tasks and 2 publications at a time, at most 2 tasks, 2 publications, 1 failure, 1 change of the inherited license, 4 of these in all | `TypeOK`, `RowTellsEdan`, `ContentAsRecorded`, `DownloadsAllowed`, `NothingLost` |
| `publish_restricted` | 1 edit, 1 publication | `RestrictedNotShown` is violated |

Bounds. Three versions suffice for every interaction of an operation with the
version it starts from and one older version; two uploads for a replaced and a
replacing file, under one name or two. One failure and one restart reach every
place of an operation, and what follows it is another operation; two failures
reach a failed rollback and a failed retry. In `CookJob` two attempts and two
requests are the smallest values for which "again" and "for the last time"
differ; one job is enough for the properties of `job_lifecycle`, which relate
the calls of one job (the proofs cover any number), and two jobs and one permit
are the smallest instance of the wait inside the semaphore. In `AssetIngest`
three staged files are a version, a newer one and a rollback to the first, or a
bulk upload with one of the two; two contents tell versions apart; both parts of
the bulk upload are listed at once. Four objects that may be linked give cycles of
length two to four, diamonds, and legal as well as illegal links; the depth bound
is the number of objects and the bound on calls one more than the most links, so
that the first cuts no walk short and the second only walks in both directions
through many links, where `GiveUp` happens. In
`ChangePropagation` two changes are a change and one that overtakes it, or a
retirement and an update; two indexers are a batch and one that starts during it.
The diamond of `MCLicenses` has an object that inherits along two paths with a
license at both ends of one, and two requests. In `ScenePublication` the two
levels are a license that is CC0 and one that is not, both of which allow downloads,
while a scene without a license may have none (a level that prevents publishing is
in `publish_restricted`); two tasks are a
copy and one that writes during it; two publications are a failed one and a
retry, or two at a time. Symmetry is used where slots differ only in name and no
liveness is checked. Deadlock checking is off: requests, walks and changes end at
their bounds, jobs end.

Fairness (`FairSpec`). In `job_nested`: a promise that can continue does,
whether awaited or not (`WF` of a job's steps and of the calls of
`updateEngines`); the semaphore serves its queue in order, so a job that can
repeatedly acquire a permit gets one (`SF` of `Acquire`). Timeouts are steps of
the job and so do happen eventually, but only between two polls: a request that is
never answered ends neither. Nothing is assumed of Cook: `JobsEnd` names the jobs it
leaves without an answer, and those that queue while such jobs hold all permits. In
`change_current` and `change_retired`: promises continue, the timer of the batch
fires, and the full index, which a cron job starts every four hours, starts for
ever (`WF` of each); changes and lookups need not come.

What the violations show is told in `PROJECT.json` under `findings`, each with
the line of the repository that says otherwise:

* an object that has a parent is indexed without what is below it, since the
  second walk finds the object in the database of the first and stops
  (`ObjectGraph.ts:190`, against `IndexSolr.ts:65`);
* that an object is retired reaches neither the cache nor the index, unless it
  is updated afterwards (`SystemObject.ts:74`, against `EventConsumerDB.ts:19`);
* a scene whose license prevents publishing is recorded as not published and
  shown by EDAN as published (`PublishScene.ts:115`, against
  `PublishScene.ts:738`).

Setting constants of the passing runs shows what they exclude: with `Serial`
FALSE and two requests, `RootMatchesHead` fails in `OcflObject` and
`RowsReadTheirBits` in `AssetIngest`.

## Proofs

The theorems hold for all values of the constants that satisfy the assumptions of
their module, which TLC evaluates in every run. None bounds the number of
requests, jobs, tasks, assets or objects; the counters that bound TLC's instances
may have any value. Beside the types of the constants the assumptions say: an
asset occurs once in a bulk upload, as each file of it makes an asset; in the
hierarchy of `Licenses` no way up has more than `MaxDepth` (32) objects, and none is
a cycle (`ShortClimbs`), which nothing in the code enforces: what is further up is
not looked at, and on a cycle `fetchParentsLicense` would reuse a result it has not
finished; in `ChangePropagation` links have two levels.
Theorems that need more say so as hypotheses:

| Hypothesis | Says | Without it |
|---|---|---|
| `Serial` (`OcflObject`) | one request at a time; neither a failed nor a torn `rootInv` or `rootDigest` | two requests use the same new version; a failed digest rolls back a folder the root already names |
| `RolledBack` | rollbacks run, no restart | the folder of an interrupted version stays |
| `CommitsMoved` | after the move neither metadata nor version inventory fail, no restart | the rollback removes the only copy of an upload |
| `Serial` (`AssetIngest`) | one request at a time per asset | two ingestions get each other's number |
| `PromotionsRecorded` | updates after a promotion succeed | the object is one version ahead of its rows |
| `ShortPaths` | no path through different objects has more than `FullDepth` of them, which is 32 | what is deeper is neither walked to nor told; nothing in the code enforces it |

**OCFL storage.** `OcflObjectProofs!TypeCorrect` holds for any number of requests,
failures and restarts. `TypeInv` strengthens `TypeOK` by what a place in the code
implies for the operation and the head of the inventory in memory.

* `AckedReadableSerial`, `RootMatchesHeadSerial` rest on `SafetyInv`: the root
  inventory names only files that are there with the right bits, equals the
  inventory of its head version and lists all that was reported as stored
  (`RootKept`); and, per place in the code, how the request's own inventory and
  folder relate to it (`RequestKept`). It is needed because a request reads the
  root once and relies on it until the commit.
* `ImplementsVersions`, the refinement of `VersionedObject`, rests on `HistoryInv`:
  each hash a version lists is the hash of a file of that version or of an older
  one, so that nothing in the history changes when a later folder does; an open
  version continues the committed ones; and only `WriteRootInventory` changes what
  is committed. Every other step, rollbacks and restarts included, is a stutter.
* `ValidWhenIdleRolledBack` is about an object that has a version. A failed first
  operation leaves the root folder without an inventory, which `validate` and every
  later load of the inventory reject (`OCFLObject.ts:599-627`); of that it says only
  that no file is left. It rests on `ValidInv`: no folder holds a file its
  inventory does not list, but for the folder of the request under way, and above
  the head only that one exists.
* `UploadKeptSerial` rests on `StoredInv`, which says where the bits of each upload
  are, by the place of the request that moves them.

**Jobs.** `CookJobProofs!TypeCorrect`.

* `OutcomeAgreesAlways`, `FinalStatusKept`: `OutcomeInv` says that the status in
  memory is not final before polling ends, that afterwards it agrees with the
  result the worker is about to return, that a final row equals the status in
  memory (`JobKept`), and that whatever final status a call of `updateEngines`
  has read is what the row says (`EngineKept`). Hence no second attempt and no
  `recordFailure` meets a final row, and calls may run late in any order.
* `CleanedUpOnceAlways`: `CleanupKept` adds that a success is reported only at the
  end of polling and not taken back, and that `startJobWorker` does not return one
  before one of the two callers of `cleanupJob` has claimed the work.

**Ingestion.** `AssetIngestProofs!TypeCorrect` holds without hypotheses.
`RowsLeadToTheirBits`, `VersionsHaveRows`, `IngestedRowsStay` and `EmptyAssetsRetire`
rest on `Kept`: requests work on different assets (`Apart`); no staging key is
given out twice, and what is staged under a row's key is its bits or gone
(`RowsKept`); the ingested rows of an asset have the versions from 1 to its
newest, one each (`AssetsKept`) — except between `PromoteAsset` and `UpdateRow`,
where the newest has no row yet; and what a request remembers of a row is still
true when it writes the whole row back (`JobKept`). The number is read from the
table in one step and written in another, which is why the invariant has to say
what the table looks like in between. Two more invariants lie on top of it:

* `UploadsOffered` rests on `OwnInv`: from `CreateRow` until an upload ends, all rows
  that lead to its file are its own, and no other request has a copy of one that
  does. So nobody else removes the file, and as long as nothing has failed the file
  is there and the rows validated so far are listed and have their key, and those
  left out of the workflow are waiting (`null`).
* `StagedFilesKept` rests on `FileInv`. A file that is gone while a version waits
  for it is owed by a request that holds the version and is to retire it or has
  promoted it (`FileKept`). That what `CountReferences` counts, rows with
  `Ingested = false`, is enough although rows that wait may still have `null`, is
  `NullHeld` (such a part of a bulk upload is in the hands of its upload, which
  owns the file) and `Shared` (only parts of a bulk upload share a file); from a
  count of one, `AllHeld`: whoever is about to remove a file holds all that waits
  for it. A discard that stops halfway breaks `FileKept`, and so do
  rows their upload forgets: `LeftBehind` names the calls whose failure has that effect,
  and from the first of them on nothing is claimed (`SkippedTold` for a version left
  out of the workflow).

**Object graph.** `ObjectGraphProofs!TypeCorrect` and `WalkIsLinearAlways` hold for
any links, the others under `ShortPaths`. `Reach` is shown to be the least set that
is closed under the links; cycles and diamonds need no argument of their own then.

* `GraphDataAppliedAlways`: `DataInv` says that what an object knows, its children
  and parents know or are about to be told, whichever entry it came from. An entry
  that learns nothing new does not pass on what it was told, and need not. A call
  that is told something has come along a path as long as the depth it has used up
  (`CallPaths`), so under `ShortPaths` some depth is left.
* `WalkIsLinearAlways`: `Linear` counts the calls made and still to be made: they
  are no more than one and the links of the objects processed, each counted as often
  as it is gathered.
* `WalkFindsAllAlways`, `HierarchyJudgedAlways`, `FullGraphCompleteAlways` rest on
  `DeepInv` and are about walks that `maxPushCount` did not cut short, of which
  `WalkIsLinearAlways` shows that they are all when there are fewer links. The objects
  of the frames form a path, so under `ShortPaths` the depth is never used up, and the
  list the calls share is empty whenever one adds to it.
  A link of an object that was processed is then still to be taken by some frame,
  or was taken; `FoundKept`, `KidsKept`, `JudgedKept` and `FullKept` say what taking
  it did.

**Licenses.** `LicensesProofs!TypeCorrect`.

* `OneAssignmentAlways`: `AssignmentInv` says that the only request at work on an
  object has read all its rows: while its updates succeed, the rows that are still
  active are among those it has yet to end (`EndingKept`), and none is when it
  creates its own (`CreatingKept`). That a failed update stops a request that sets
  a license is what the last one needs.
* `CacheCurrentAlways`: an answer depends on the rows of the object and of its
  ancestors alone. `CacheInv` says that until a request deletes the answers of all
  that is below its object, they are those of an object it works on (`CacheKept`),
  that what a lookup has found is current or was overtaken (`LookupKept`), and what
  a request is about to record (`RecordingKept`).
* `InheritsNearestAlways`: the walk and its reference definition are both
  characterized by what is reached in `d` steps, by induction on `d`; by the height
  that `ShortClimbs` gives each object, everything is reached within `MaxDepth` steps
  (`ReachSettles`).

**Changes.** `ChangePropagationProofs!TypeCorrect`.

* `NamesCurrentAlways`, `RetiredSeenAlways`: `CacheInv` says that what a lookup or a
  flush has read of an object is current, or the object has changed since and is
  among the `overlapped`, and that a cached name is current as long as no event
  that will flush it is waiting. The flush being sent after the write is what makes
  it inductive.
* `IndexCurrentAlways`: `IndexInv` says that an object is due for indexing, or an
  indexer holds its current data, or its document is current and so is whatever may
  replace it. Two indexers of one object at a time make it `crossed`. What a parent
  has below is as current, but only a full index takes anything away. The theorem is
  about histories in which no request to Solr has failed, and says nothing of the
  Retired flag, which `change_retired` shows is not current.

**Publishing.** `ScenePublicationProofs!TypeCorrect`.

* `NothingLostAlways` rests on `CopiesInv`: what a task has read and will copy is
  what was decided, unless another task has written it since.
* `RowTellsEdanAlways` and `ContentAsRecordedAlways` are about publications that
  reported success, of a version with a scene file and with no other one at the time;
  the former leaves out licenses that prevent publishing (`publish_restricted`), the
  latter versions made between the two reads and removed downloads that publish
  overlooks. They rest on `ReleaseInv`: a
  publication that none crosses is alone and finds the row and the package as it
  left them (`AloneKept`), what it collected are its version's assets unless one was
  made in between (`AssetsKept`), a hidden package has no downloads (`HiddenKept`), and
  what the last publication left is still there (`LastKept`).
* `DownloadsAllowedAlways` rests on `DownloadInv` with `CopiesInv`: downloads are
  permitted, or an edit is under way that will notice that they no longer are, is
  removing them, or was overtaken and is named `unchecked` when it ends; and a
  generation that nothing has overtaken runs only while downloads are permitted and
  no edit is between its two writes.

Each invariant was checked on its module's instance before it was proved. Only
model-checked: the liveness properties `WorkflowHears`, `JobsEnd` and
`IndexBecomesCurrent`, which the proof system does not handle. Induction, where
an argument needs it, is on an explicit set of naturals, from the library's
theorem that `<` is well-founded, since a theorem with an operator for a
parameter cannot be instantiated.

## What is left out

Storage: staging of uploads (`writeStream`, `commitWriteStream`,
`discardWriteStream`), the namaste files, permissions, the contents of metadata.
A torn root inventory (a restart or an error while it is rewritten) is in the
model, behind `FailSteps`, and outside of the passing runs: after it the object
cannot be loaded, and nothing in the code repairs it. A failed root digest,
or a failed staging cleanup after the move, is likewise outside of
`ocfl_rollback` for `UploadKept`: the rollback then removes the only copy. In
`AssetIngest` a promotion happens or does not: one that happened and is reported as
failed, since the staging folder could not be removed (`LocalStorage.ts:236`), would
leave the object one version ahead of its rows.

Jobs: scheduled jobs, `cancelJob` (nothing calls it), failover between Cook
servers, notification mail, the staging of files over WebDAV as anything but a
call that succeeds or fails (its own semaphore of 10 transfers, `JobCook.ts`,
and a transfer that hangs), reports, exceptions out of `getParameters`, and what
cleanup creates. `WorkflowHears` is checked without failing database calls: the
result of saving a JobRun row is ignored by the code, and the workflow is not
told again.

Ingestion: zips that are unpacked when they are ingested, so that `PromoteAsset`
has only the end of a bulk ingestion, the discard of its row; rename, hide and
reinstate of an asset, which only tests call; the members of zips, the metadata
of a bulk upload (`storeMetadata` succeeds or fails); the objects, xrefs and
SystemObjectVersions an ingestion creates; an upload workflow that cannot be
created (its rows then stay as uploaded); restarts.

Storage and jobs, further: an explicit version is looked up in its own folder
although its state may list files of older ones (`OCFLInventory.ts:351`);
counters of failed requests and polls differ by one in their use of the limit
(`JobCook.ts:179`); each request reads the current server URL
(`JobCook.ts:316`), the date of the last notification is set only when it was
set before (`JobCook.ts:498`), a completion between the two acquires of
`waitForCompletion` wakes nobody (`JobCook.ts:137`), an exception of
`getParameters` leaves a job in its last status (`JobCook.ts:216`). A bulk
ingestion that fails keeps the assets stored before
(`AssetStorageAdapter.ts:700`).

Changes: the first load of the cache (it is published before it has loaded),
Audit rows, an event before the event engine exists, events for polling
consumers (`EventConsumer.ts:53`; nobody polls), reinstating an object, which is
retiring with the opposite value, the deletion of xrefs, retries of the
database, the index of metadata. Hierarchies have two levels, and one document
is made in one step. A descendant's document keeps an ancestor's old name until
the descendant or everything is indexed again. `DBConnection.setPrismaTransaction`
keeps the transaction in the store of the request, so that a call which is not
awaited may join a transaction of its request or outlive it: not modelled.

Licenses: start and end dates of assignments that are not now, editing a license
itself, changes of the hierarchy.

Publishing: subjects, attachments, the metadata of a package; the files that staging
writes in place (`PublishScene.ts:460-470`: a failed staging leaves some of the new
ones there, and no property speaks of them before the next publication); an edit that
overlaps the first publication and writes back a row without EdanUUID; the
clone of affected scenes when a model's zip is ingested
(`AssetStorageAdapter.ts:459`); `updateObjectDetails` writes the whole row of the
scene from what it read, which is one step here.

Failures in `ingest_serial` are those named in its `FailSteps`. `updateAsset` and
`updateRow` are not: they come after the promotion, which is not taken back, so the
object is from then on one version ahead of the rows, and `RowsReadTheirBits`,
`EveryVersionHasARow` and `StagedFileKept` fail. Setting the constant shows it.

`StagedFileKept` speaks of histories without certain failures (`LeftBehind`), because
the code contradicts it otherwise. The file is removed before the row is retired, so
a failed `retire` leaves a listed version without its file. A failed `remove` in a
bulk upload of two parts that are listed at once (capture data sets or scenes) `c1`,
`c2` is enough as well: `c2` fails its
validation, is counted among two and keeps the file; then the upload is retired, `c1`
first, which is counted alone and whose removal fails; then `c2` again, already
retired, which counts one reference, that of `c1`, and removes the file while `c1`
stays listed. And an error at the last row of three (`createRow`, `storeMetadata`)
leaves a model's row unvalidated, in nobody's hands and not counted, so that
discarding or ingesting another part removes its file. The comment at
`AssetStorageAdapter.ts:1316` has the file removed with the final reference that is
not retired, which is not what happens in these cases. The instance has such a bulk
upload, and removing `LeftBehind` from the property shows the second case.

The remaining components, with reasons, are in `PROJECT.json`.
