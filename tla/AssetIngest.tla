----------------------------- MODULE AssetIngest -----------------------------
(***************************************************************************)
(* Uploading, validating, ingesting, rolling back and discarding versions  *)
(* of assets: AssetStorageAdapter with the AssetVersion rows it keeps in   *)
(* the database, the mutations that call it, and WorkflowUpload.           *)
(*                                                                         *)
(* A version of an asset is described by a row and stored, until it is     *)
(* ingested, in a staging file, and then as a version of the asset's OCFL  *)
(* object.  The three are changed one after the other, without a common    *)
(* transaction.  OCFL storage appears here as what VersionedObject         *)
(* promises: a promotion appends a version or fails and changes nothing.   *)
(***************************************************************************)
EXTENDS Naturals, Sequences, FiniteSets, SequencesExt

CONSTANTS
    Assets,      \* assets, created by their first upload
    Models,      \* those whose uploads wait for validation (models, scenes)
    Scenes,      \* those of them that are scenes, not models
    Bulks,       \* bulk uploads: the assets one staged file is split into
    Bits,        \* contents of files, and their hashes
    NoBits,      \* for a staging file that is not there
    NoRow,       \* for a request without a copy of a row
    Requests,    \* mutations under way
    MaxUploads,  \* bound on staged files
    Serial,      \* no two requests work on versions of the same asset
    FailSteps,   \* the database and storage calls that may fail for good
    MaxFailures  \* bound on how many of these calls fail, once or often

ASSUME ConstantsAssumption ==
    /\ Models \subseteq Assets
    /\ Scenes \subseteq Models
    /\ Bulks \subseteq Seq(Assets)
    /\ \A list \in Bulks : Len(list) > 1 /\ IsInjective(list)
    /\ NoBits \notin Bits
    /\ NoRow \notin [asset: Assets, key: 0..MaxUploads, bits: Bits, version: Nat,
                     ingested: {"null", "false", "true"}, bulk: BOOLEAN, retired: BOOLEAN]
    /\ MaxUploads \in Nat
    /\ Serial \in BOOLEAN
    /\ MaxFailures \in Nat

VARIABLES
    rows,      \* the AssetVersion table with SystemObject.Retired, in order of creation
    stored,    \* assets whose row has a StorageKey
    retired,   \* assets whose SystemObject is retired
    staging,   \* staging[k]: the file with storage key k
    uploads,   \* storage keys handed out
    object,    \* object[a]: the versions of a's OCFL object
    pc,        \* where a request is
    job,       \* what it has in memory
    failures   \* the calls that have failed so far

vars == <<rows, stored, retired, staging, uploads, object, pc, job, failures>>

-----------------------------------------------------------------------------
Keys  == 1..MaxUploads
NoKey == 0

(* AssetVersion.Ingested: null for an upload that is not yet validated.    *)
Ingestions == {"null", "false", "true"}

AssetVersion == [asset: Assets, key: Keys \cup {NoKey}, bits: Bits, version: Nat,
                 ingested: Ingestions, bulk: BOOLEAN, retired: BOOLEAN]

PCs == {"idle", "create", "validate", "verdict", "count", "remove", "retire", "clear",
        "check", "retireAsset", "promote", "updateAsset", "nextVersion", "updateRow"}

(* What a request holds: the assets it has still to create rows for, the   *)
(* rows it works on and the one it is at, those it has not told the        *)
(* workflow of, its copy of the row, and where discardAssetVersion returns *)
(* to.                                                                     *)
Job == [todo: Seq(Assets), bulk: BOOLEAN, key: Keys \cup {NoKey}, bits: Bits \cup {NoBits},
        list: Seq(Nat), at: Nat, skipped: SUBSET Nat, mem: AssetVersion \cup {NoRow},
        failed: BOOLEAN, back: {"validate", "retire", "ingest", "end"}]

NoJob == [todo |-> <<>>, bulk |-> FALSE, key |-> NoKey, bits |-> NoBits, list |-> <<>>,
          at |-> 0, skipped |-> {}, mem |-> NoRow, failed |-> FALSE, back |-> "end"]

TypeOK ==
    /\ rows \in Seq(AssetVersion)
    /\ \A r \in DOMAIN rows :
           rows[r].ingested = "true" => rows[r].version > 0 /\ rows[r].key = NoKey
    /\ stored \subseteq Assets
    /\ retired \subseteq Assets
    /\ staging \in [Keys -> Bits \cup {NoBits}]
    /\ uploads \in 0..MaxUploads
    /\ object \in [Assets -> Seq(Bits)]
    /\ pc \in [Requests -> PCs]
    /\ job \in [Requests -> Job]
    /\ failures \subseteq FailSteps

Init ==
    /\ rows = <<>>
    /\ stored = {}
    /\ retired = {}
    /\ staging = [k \in Keys |-> NoBits]
    /\ uploads = 0
    /\ object = [a \in Assets |-> <<>>]
    /\ pc = [q \in Requests |-> "idle"]
    /\ job = [q \in Requests |-> NoJob]
    /\ failures = {}

-----------------------------------------------------------------------------
RowsOf(a) == {r \in DOMAIN rows : rows[r].asset = a}

(* The assets a request works on.                                          *)
AssetsOf(q) == {rows[r].asset : r \in Range(job[q].list)} \cup Range(job[q].todo)

MayStart(q, as) ==
    /\ pc[q] = "idle"
    /\ Serial => \A p \in Requests : AssetsOf(p) \cap as = {}

(* createAssetConstellation: a new AssetVersion.  A scene in a bulk upload *)
(* does not wait for its validation.                                       *)
NewRow(a, k, b, isBulk) ==
    [asset |-> a, key |-> k, bits |-> b, version |-> 0,
     ingested |-> IF a \in Models /\ ~(isBulk /\ a \in Scenes) THEN "null" ELSE "false",
     bulk |-> isBulk, retired |-> FALSE]

(* AssetVersion.update writes every column from memory; Retired is kept    *)
(* in another table.                                                       *)
SaveRow(r, m) == rows' = [rows EXCEPT ![r] = [m EXCEPT !.retired = rows[r].retired]]

(* AssetStorageAdapter.readAsset: the bits a row leads to.                 *)
ReadAsset(r) ==
    LET a == rows[r].asset  v == rows[r].version  k == rows[r].key IN
    IF rows[r].ingested = "true"
    THEN IF a \in stored /\ v \in DOMAIN object[a] THEN object[a][v] ELSE NoBits
    ELSE IF k \in Keys THEN staging[k] ELSE NoBits

(* As Listed, but also of versions that have been ingested.                *)
ListedAlways(r) == ~rows[r].retired

(* The versions getUploadedAssetVersion offers to a user for ingestion.    *)
Listed(r) == rows[r].ingested = "false" /\ ~rows[r].retired

(* AssetVersion.countStorageKeyStaging(key, false, false).                 *)
CountStorageKeyStaging(k) ==
    Cardinality({r \in DOMAIN rows : Listed(r) /\ rows[r].key = k})

(* As ComputeNextVersionNumber, over the versions of all assets.           *)
NextNumberOfAll(a) == Max({rows[r].version : r \in DOMAIN rows} \cup {0}) + 1

(* AssetVersion.computeNextVersionNumber.                                  *)
ComputeNextVersionNumber(a) == Max({rows[r].version : r \in RowsOf(a)} \cup {0}) + 1

Fails(step) ==
    /\ step \in FailSteps
    /\ step \in failures \/ Cardinality(failures) < MaxFailures
    /\ failures' = failures \cup {step}

Enter(q, place, j) ==
    /\ pc' = [pc EXCEPT ![q] = place]
    /\ job' = [job EXCEPT ![q] = j]

Finish(q) == Enter(q, "idle", NoJob)

(* What a request holds: for rows it is to create, for a row the user was  *)
(* offered, after creating one, and at the i-th with a copy of it.         *)
Upload(list, isBulk, k, b, back) ==
    [NoJob EXCEPT !.todo = list, !.bulk = isBulk, !.key = k, !.bits = b, !.back = back]

Offer(r, back) ==
    [NoJob EXCEPT !.list = <<r>>, !.at = 1, !.mem = rows[r], !.back = back]

Made(j) == [j EXCEPT !.todo = Tail(@), !.list = Append(@, Len(rows) + 1)]

At(j, i, m) == [j EXCEPT !.at = i, !.mem = m]

-----------------------------------------------------------------------------
(* retireFailedUpload on the i-th row: the copy is the object the upload   *)
(* created the row from.                                                   *)
Retiring(j, i) ==
    [j EXCEPT !.at = i, !.back = "retire",
              !.mem = NewRow(rows[j.list[i]].asset, j.key, j.bits, j.bulk)]

(* The upload, or the discarding, has done with list[at].                  *)
Continue(q, j) ==
    \/ /\ j.back = "validate" /\ j.at < Len(j.list)
       /\ Enter(q, "validate", At(j, j.at + 1, NoRow))
    \/ /\ j.back = "validate" /\ j.at = Len(j.list) /\ j.failed
       /\ Enter(q, "count", Retiring(j, 1))
    \/ /\ j.back = "retire" /\ j.at < Len(j.list)
       /\ Enter(q, "count", Retiring(j, j.at + 1))
    \/ /\ \/ j.back = "validate" /\ ~j.failed
          \/ j.back = "retire"
          \/ j.back = "end"
       /\ j.back = "end" \/ j.at = Len(j.list)
       /\ Finish(q)

(* uploadAsset: the stream has been written to staging and committed.  A   *)
(* new version goes to an asset with a row; a first upload and a bulk      *)
(* upload make assets.                                                     *)
UploadAsset(q) ==
    /\ uploads < MaxUploads
    /\ \E list \in {<<a>> : a \in Assets} \cup Bulks, b \in Bits :
        /\ MayStart(q, Range(list))
        /\ list \in Bulks => \A a \in Range(list) : RowsOf(a) = {}
        /\ \A a \in Range(list), p \in Requests :
               RowsOf(a) = {} => a \notin Range(job[p].todo)
        /\ uploads' = uploads + 1
        /\ staging' = [staging EXCEPT ![uploads + 1] = b]
        /\ Enter(q, "create", Upload(list, list \in Bulks, uploads + 1, b, "validate"))
    /\ UNCHANGED <<rows, stored, retired, object, failures>>

(* rollbackAssetVersion: the bits of an earlier version are copied to      *)
(* staging; commitWriteStream compares their hash with that of the row.    *)
(* Without an owner (idSystemObject) the new version is not ingested.      *)
RollbackAssetVersion(q) ==
    /\ uploads < MaxUploads
    /\ \E r \in DOMAIN rows :
        /\ MayStart(q, {rows[r].asset})
        /\ ReadAsset(r) # NoBits
        /\ uploads' = uploads + 1
        /\ staging' = [staging EXCEPT ![uploads + 1] = ReadAsset(r)]
        /\ IF ReadAsset(r) = rows[r].bits
           THEN Enter(q, "create", Upload(<<rows[r].asset>>, FALSE, uploads + 1, rows[r].bits,
                                          IF rows[r].asset \in stored THEN "ingest" ELSE "end"))
           ELSE Finish(q)
    /\ UNCHANGED <<rows, stored, retired, object, failures>>

(* createAssetConstellation, once per asset of the upload.  The metadata   *)
(* of a part of a bulk upload is stored when its row is there already.     *)
CreateRow(q) ==
    LET j == job[q]
        row == NewRow(Head(j.todo), j.key, j.bits, j.bulk)
        made == Made(j) IN
    /\ pc[q] = "create"
    /\ UNCHANGED <<stored, retired, staging, uploads, object>>
    /\ \/ /\ rows' = Append(rows, row)
          /\ IF made.todo # <<>> THEN Enter(q, "create", made)
             ELSE \/ /\ j.back = "validate"
                     /\ Enter(q, "validate", At(made, 1, NoRow))
                  \/ /\ j.back = "ingest"
                     /\ Enter(q, "promote", At(made, 1, row))
                  \/ /\ j.back = "end"
                     /\ Finish(q)
          /\ UNCHANGED failures
       \/ /\ j.bulk
          /\ Fails("storeMetadata")
          /\ rows' = Append(rows, row)
          /\ Finish(q)
       \/ /\ Fails("createRow")
          /\ Finish(q)
          /\ UNCHANGED rows

-----------------------------------------------------------------------------
(* Its zip, if it is one, is unpacked: testIfModel has said no.            *)
Unpacked(a) == a \notin Models \ Scenes

(* A version whose system object createUploadWorkflow does not find is     *)
(* left out.  Of the others WorkflowUpload.validateFiles fetches the row   *)
(* and opens the file; when it cannot, the upload has failed without a     *)
(* look at the rows that remain.  So it has for a zip that cannot be       *)
(* unpacked; that of a bulk upload has been unpacked before.               *)
ReadUpload(q) ==
    LET j == job[q]  r == j.list[j.at] IN
    /\ pc[q] = "validate"
    /\ UNCHANGED <<rows, stored, retired, staging, uploads, object>>
    /\ \/ /\ ReadAsset(r) # NoBits
          /\ Enter(q, "verdict", [j EXCEPT !.mem = rows[r]])
          /\ UNCHANGED failures
       \/ /\ \/ ReadAsset(r) = NoBits
             \/ Unpacked(rows[r].asset) /\ ~j.bulk
          /\ Enter(q, "count", Retiring(j, 1))
          /\ UNCHANGED failures
       \/ /\ ReadAsset(r) # NoBits
          /\ Fails("readUpload")
          /\ Enter(q, "count", Retiring(j, 1))
       \/ /\ Fails("findObject")
          /\ Continue(q, [j EXCEPT !.skipped = @ \cup {j.at}])

(* As PassUpload, but the validated row is not saved.                      *)
PassUnsaved(q) ==
    /\ pc[q] = "verdict"
    /\ Continue(q, job[q])
    /\ UNCHANGED <<rows, stored, retired, staging, uploads, object, failures>>

(* The file is found good: null becomes false.  Bad members of a zip fail  *)
(* the upload, but not this row.                                           *)
PassUpload(q) ==
    LET j == job[q]  m == j.mem IN
    /\ pc[q] = "verdict"
    /\ UNCHANGED <<stored, retired, staging, uploads, object>>
    /\ \E bad \in IF Unpacked(m.asset) THEN BOOLEAN ELSE {FALSE} :
        \/ /\ IF m.ingested = "null"
              THEN SaveRow(j.list[j.at], [m EXCEPT !.ingested = "false"])
              ELSE UNCHANGED rows
           /\ Continue(q, [j EXCEPT !.failed = @ \/ bad])
           /\ UNCHANGED failures
        \/ /\ m.ingested = "null"
           /\ Fails("passUpload")
           /\ Continue(q, [j EXCEPT !.failed = TRUE])
           /\ UNCHANGED rows

(* The file is found bad: its version is discarded and the upload fails.   *)
FailUpload(q) ==
    /\ pc[q] = "verdict"
    /\ IF job[q].mem.ingested = "true"
       THEN Continue(q, [job[q] EXCEPT !.failed = TRUE])
       ELSE Enter(q, "count", [job[q] EXCEPT !.failed = TRUE])
    /\ UNCHANGED <<rows, stored, retired, staging, uploads, object, failures>>

-----------------------------------------------------------------------------
(* discardUploadedAssetVersions fetches a listed row and discards it; one  *)
(* that has been ingested since it was listed is refused.                  *)
DiscardAssetVersion(q) ==
    /\ \E r \in DOMAIN rows :
        /\ MayStart(q, {rows[r].asset})
        /\ Listed(r)
        /\ Enter(q, "count", Offer(r, "end"))
    /\ UNCHANGED <<rows, stored, retired, staging, uploads, object, failures>>

(* As CountReferences, but any version that refers to the file removes it. *)
CountNothing(q) ==
    /\ pc[q] = "count"
    /\ Enter(q, IF job[q].mem.key # NoKey THEN "remove" ELSE "retire", job[q])
    /\ UNCHANGED <<rows, stored, retired, staging, uploads, object, failures>>

(* Only the last version that refers to a staged file removes it.          *)
CountReferences(q) ==
    LET j == job[q]  k == j.mem.key IN
    /\ pc[q] = "count"
    /\ UNCHANGED <<rows, stored, retired, staging, uploads, object>>
    /\ \/ /\ IF k # NoKey /\ CountStorageKeyStaging(k) = 1
             THEN Enter(q, "remove", j)
             ELSE Enter(q, "retire", j)
          /\ UNCHANGED failures
       \/ /\ k # NoKey
          /\ Fails("count")
          /\ Continue(q, j)

(* discardWriteStream: a file that is not there counts as removed.         *)
RemoveStaged(q) ==
    LET j == job[q]  k == j.mem.key IN
    /\ pc[q] = "remove"
    /\ UNCHANGED <<rows, stored, retired, uploads, object>>
    /\ \/ /\ staging' = [staging EXCEPT ![k] = NoBits]
          /\ Enter(q, "retire", j)
          /\ UNCHANGED failures
       \/ /\ staging[k] # NoBits
          /\ Fails("remove")
          /\ Continue(q, j)
          /\ UNCHANGED staging

(* retireSystemObject(assetVersion).                                       *)
RetireRow(q) ==
    LET j == job[q] IN
    /\ pc[q] = "retire"
    /\ UNCHANGED <<stored, retired, staging, uploads, object>>
    /\ \/ /\ rows' = [rows EXCEPT ![j.list[j.at]].retired = TRUE]
          /\ Enter(q, "clear", j)
          /\ UNCHANGED failures
       \/ /\ Fails("retire")
          /\ Continue(q, j)
          /\ UNCHANGED rows

(* StorageKeyStaging is cleared by writing the whole row.                  *)
ClearKey(q) ==
    LET j == job[q] IN
    /\ pc[q] = "clear"
    /\ UNCHANGED <<stored, retired, staging, uploads, object>>
    /\ \/ /\ SaveRow(j.list[j.at], [j.mem EXCEPT !.key = NoKey])
          /\ Enter(q, "check", j)
          /\ UNCHANGED failures
       \/ /\ Fails("clear")
          /\ Continue(q, j)
          /\ UNCHANGED rows

(* As CheckVersions, for one retired version.                              *)
CheckOneVersion(q) ==
    LET j == job[q] IN
    /\ pc[q] = "check"
    /\ IF \E r \in RowsOf(j.mem.asset) : rows[r].retired
       THEN Enter(q, "retireAsset", j)
       ELSE Continue(q, j)
    /\ UNCHANGED <<rows, stored, retired, staging, uploads, object, failures>>

(* retireAssetIfAllVersionsAreRetired reads the versions ...               *)
CheckVersions(q) ==
    LET j == job[q] IN
    /\ pc[q] = "check"
    /\ IF \A r \in RowsOf(j.mem.asset) : rows[r].retired
       THEN Enter(q, "retireAsset", j)
       ELSE Continue(q, j)
    /\ UNCHANGED <<rows, stored, retired, staging, uploads, object, failures>>

(* ... and then retires the asset.                                         *)
RetireAsset(q) ==
    LET j == job[q] IN
    /\ pc[q] = "retireAsset"
    /\ Continue(q, j)
    /\ UNCHANGED <<rows, stored, staging, uploads, object>>
    /\ \/ /\ retired' = retired \cup {j.mem.asset}
          /\ UNCHANGED failures
       \/ /\ Fails("retireAsset")
          /\ UNCHANGED retired

-----------------------------------------------------------------------------
(* ingestData fetches a version the user was offered.  One that is not     *)
(* listed any more has no StorageKeyStaging, and promoting it fails.       *)
IngestAsset(q) ==
    /\ \E r \in DOMAIN rows :
        /\ MayStart(q, {rows[r].asset})
        /\ Listed(r)
        /\ Enter(q, "promote", Offer(r, "ingest"))
    /\ UNCHANGED <<rows, stored, retired, staging, uploads, object, failures>>

(* promoteStagedAsset moves the staged file into a new version.            *)
PromoteStagedAsset(m) ==
    /\ object' = [object EXCEPT ![m.asset] = Append(@, staging[m.key])]
    /\ staging' = [staging EXCEPT ![m.key] = NoBits]

(* ingestAssetWorker.  Of a bulk upload the parts become assets of their   *)
(* own, which are not modelled, and then the row is discarded.             *)
PromoteAsset(q) ==
    LET j == job[q]  k == j.mem.key
        there == k # NoKey /\ staging[k] # NoBits IN
    /\ pc[q] = "promote"
    /\ UNCHANGED <<rows, stored, retired, uploads>>
    /\ \/ /\ there /\ ~j.mem.bulk
          /\ PromoteStagedAsset(j.mem)
          /\ Enter(q, "updateAsset", j)
          /\ UNCHANGED failures
       \/ /\ there /\ j.mem.bulk
          /\ Enter(q, "count", [j EXCEPT !.back = "end"])
          /\ UNCHANGED <<staging, object, failures>>
       \/ /\ ~there
          /\ Finish(q)
          /\ UNCHANGED <<staging, object, failures>>
       \/ /\ there
          /\ Fails("promote")
          /\ Finish(q)
          /\ UNCHANGED <<staging, object>>

(* The first promotion gives the asset its StorageKey, and its owner.      *)
UpdateAsset(q) ==
    /\ pc[q] = "updateAsset"
    /\ UNCHANGED <<rows, retired, staging, uploads, object>>
    /\ \/ /\ stored' = stored \cup {job[q].mem.asset}
          /\ Enter(q, "nextVersion", job[q])
          /\ UNCHANGED failures
       \/ /\ job[q].mem.asset \notin stored
          /\ Fails("updateAsset")
          /\ Finish(q)
          /\ UNCHANGED stored

(* As NextVersion, with the test of IngestedOrig the wrong way round.      *)
NextVersionIfIngested(q) ==
    LET m == job[q].mem IN
    /\ pc[q] = "nextVersion"
    /\ Enter(q, "updateRow",
             [job[q] EXCEPT !.mem.version = IF m.ingested = "true" /\ m.version = 0
                                            THEN ComputeNextVersionNumber(m.asset)
                                            ELSE m.version])
    /\ UNCHANGED <<rows, stored, retired, staging, uploads, object, failures>>

(* AssetVersion.updateWorker asks for the next version number ...          *)
NextVersion(q) ==
    LET m == job[q].mem IN
    /\ pc[q] = "nextVersion"
    /\ Enter(q, "updateRow",
             [job[q] EXCEPT !.mem.version = IF m.ingested # "true" /\ m.version = 0
                                            THEN ComputeNextVersionNumber(m.asset)
                                            ELSE m.version])
    /\ UNCHANGED <<rows, stored, retired, staging, uploads, object, failures>>

(* As UpdateRow, but the staging key stays in the row.                     *)
UpdateRowOnly(q) ==
    LET j == job[q] IN
    /\ pc[q] = "updateRow"
    /\ SaveRow(j.list[j.at], [j.mem EXCEPT !.ingested = "true"])
    /\ Finish(q)
    /\ UNCHANGED <<stored, retired, staging, uploads, object, failures>>

(* ... and writes the row in another statement.                            *)
UpdateRow(q) ==
    LET j == job[q] IN
    /\ pc[q] = "updateRow"
    /\ UNCHANGED <<stored, retired, staging, uploads, object>>
    /\ Finish(q)
    /\ \/ /\ SaveRow(j.list[j.at], [j.mem EXCEPT !.ingested = "true", !.key = NoKey])
          /\ UNCHANGED failures
       \/ /\ Fails("updateRow")
          /\ UNCHANGED rows

-----------------------------------------------------------------------------
Next == \E q \in Requests :
    \/ UploadAsset(q) \/ RollbackAssetVersion(q) \/ CreateRow(q)
    \/ ReadUpload(q) \/ PassUpload(q) \/ FailUpload(q)
    \/ DiscardAssetVersion(q) \/ CountReferences(q) \/ RemoveStaged(q)
    \/ RetireRow(q) \/ ClearKey(q) \/ CheckVersions(q) \/ RetireAsset(q)
    \/ IngestAsset(q) \/ PromoteAsset(q) \/ UpdateAsset(q)
    \/ NextVersion(q) \/ UpdateRow(q)

Spec == Init /\ [][Next]_vars

-----------------------------------------------------------------------------
InHand(r) == \E q \in Requests : r \in Range(job[q].list)

(* Every ingested version leads to the bits its row describes: the number  *)
(* read from the table is the one the OCFL object gave the promotion,      *)
(* whatever fails before and whatever is rolled back or discarded.         *)
RowsReadTheirBits ==
    \A r \in DOMAIN rows : rows[r].ingested = "true" => ReadAsset(r) = rows[r].bits

(* Nothing is stored that no row, or more than one, leads to, as soon as   *)
(* nobody works on the asset (promoteAssetWorker).                         *)
EveryVersionHasARow ==
    \A a \in Assets : (\A r \in RowsOf(a) : ~InHand(r)) =>
        \A v \in DOMAIN object[a] :
            Cardinality({r \in RowsOf(a) : rows[r].ingested = "true"
                                           /\ rows[r].version = v}) = 1

(* A call has failed that leaves a version behind by itself: not told to   *)
(* the workflow, or half discarded.                                        *)
LeftBehind ==
    failures \cap {"createRow", "storeMetadata", "findObject", "count", "remove", "retire"} # {}

(* As long as no such call has failed, a version that waits for its        *)
(* ingestion has its staged file, although discarding and ingesting the    *)
(* other parts of a bulk upload look for a reason to remove it at the same *)
(* time (discardAssetVersion).                                             *)
StagedFileKept ==
    ~LeftBehind => \A r \in DOMAIN rows :
        rows[r].ingested # "true" /\ ~rows[r].retired /\ rows[r].key # NoKey /\ ~InHand(r)
            => staging[rows[r].key] = rows[r].bits

(* An ingested row is never taken back or renumbered, although validation  *)
(* and discarding write whole rows from copies they made before.           *)
IngestedRowStays ==
    [][\A r \in DOMAIN rows : rows[r].ingested = "true" => rows'[r] = rows[r]]_vars

(* An asset is retired only when each of its versions is: an upload that   *)
(* fails never hides earlier versions (retireAssetIfAllVersionsAreRetired).*)
OnlyEmptyAssetsRetire ==
    [][\A a \in retired' \ retired : \A r \in RowsOf(a) : rows[r].retired]_vars

(* An upload that ends well can be ingested: each of its versions has its  *)
(* file and is listed for its user, or is still to be validated because    *)
(* its workflow was not told of it (createUploadWorkflow).                 *)
UploadsAreOffered ==
    [][\A q \in Requests : pc[q] \in {"validate", "verdict"} /\ pc'[q] = "idle" =>
        LET j == job[q]
            untold == j.skipped \cup (IF pc[q] = "validate" THEN {j.at} ELSE {})
        IN \A i \in DOMAIN j.list :
            LET row == rows'[j.list[i]] IN
            /\ row.ingested = "false" \/ (i \in untold /\ row.ingested = "null")
            /\ ~row.retired
            /\ staging'[row.key] = row.bits]_vars
=============================================================================
