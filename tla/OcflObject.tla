----------------------------- MODULE OcflObject -----------------------------
(***************************************************************************)
(* One OCFL object of the repository (LocalStorage, OCFLObject and         *)
(* OCFLInventory), as a folder on disk:                                    *)
(*                                                                         *)
(*   <root>/inventory.json(.sha512)         rootInv, rootDigest            *)
(*   <root>/vN/inventory.json(.sha512)      verInv[N]                      *)
(*   <root>/vN/content/<file>               disk[N][file]                  *)
(*                                                                         *)
(* Every request builds a fresh OCFLObject: it reads the root inventory    *)
(* into memory, opens version head + 1 there, writes into the folder of    *)
(* that version, and commits by rewriting the root inventory in place.     *)
(* Each awaited I/O call is an action of its own, may fail when its name   *)
(* is in FailSteps, and no lock is held in between: the requests in Procs  *)
(* interleave at every step.                                               *)
(***************************************************************************)
EXTENDS Naturals

CONSTANTS
    Procs,        \* requests that may be in flight on this object
    Files,        \* content file names
    MetaFile,     \* the metadata file, ST.OCFLMetadataFilename
    Uploads,      \* staged uploads; an upload stands for its bits and its hash
    FileOf,       \* the file name under which an upload is promoted
    Meta,         \* the bits of a metadata file
    None,         \* no file, no hash
    Torn,         \* a file whose writing did not finish
    NoInv,        \* no inventory file
    MaxVersion,   \* bound on version numbers
    SameVolume,   \* staging and repository are on one volume: rename works
    FailSteps,    \* the I/O steps that may fail
    MaxFailures,  \* bound on failed I/O steps
    MaxCrashes    \* bound on restarts of the server

Names    == Files \cup {MetaFile}
Contents == Uploads \cup {Meta}
Versions == 1 .. MaxVersion

Steps == {"mkdirRoot", "mkdirVersion", "rename", "copy", "removeStaged",
          "stream", "copyVersion", "metadata", "verInv", "rootInv",
          "rootDigest", "cleanup", "rollback", "tornCrash"}

(* Inventories.  A manifest maps content paths <<version, file>> to hashes, *)
(* the state of a version maps logical file names to hashes.               *)
FileMap   == [Names -> Contents \cup {None}]
Inventory == [head : 0 .. MaxVersion, state : [Versions -> FileMap],
              manifest : [Versions -> FileMap]]

ASSUME ConstantsAssumption ==
    /\ FileOf \in [Uploads -> Files]
    /\ MetaFile \notin Files
    /\ Meta \notin Uploads
    /\ None \notin Contents /\ None \notin Files
    /\ Torn \notin Contents /\ None # Torn /\ NoInv # Torn
    /\ NoInv \notin Inventory /\ Torn \notin Inventory
    /\ MaxVersion \in Nat \ {0}
    /\ SameVolume \in BOOLEAN
    /\ FailSteps \subseteq Steps
    /\ MaxFailures \in Nat /\ MaxCrashes \in Nat

VARIABLES
    rootDir,       \* the object root folder exists
    rootInv,       \* the root inventory file
    rootDigest,    \* the inventory the root digest file was computed from
    verDirs,       \* version folders on disk
    verInv,        \* inventory (with its digest) in each version folder
    disk,          \* content files in each version folder
    staged,        \* uploads present in the staging area
    moveFileType,  \* OCFLObject._eMoveFileType, shared by all requests
    pc,            \* where each request is
    op,            \* the operation each request performs
    newObject,     \* OCFLObject._newObject
    mem,           \* OCFLObject._ocflInventory
    acked,         \* files whose storage was reported as successful
    failures,      \* I/O failures so far
    crashes        \* restarts so far

diskVars == <<rootDir, rootInv, rootDigest, verDirs, verInv, disk, staged>>
procVars == <<pc, op, newObject, mem>>
vars == <<diskVars, procVars, moveFileType, acked, failures, crashes>>

-----------------------------------------------------------------------------
NoFiles  == [f \in Names |-> None]
EmptyInv == [head |-> 0, state |-> [v \in Versions |-> NoFiles],
             manifest |-> [v \in Versions |-> NoFiles]]

(* OCFLInventory.addVersion: the new head starts as a copy of the old one. *)
AddVersion(inv) ==
    LET v == inv.head + 1 IN
    [head     |-> v,
     state    |-> [inv.state EXCEPT ![v] = IF v = 1 THEN NoFiles ELSE inv.state[v - 1]],
     manifest |-> inv.manifest]

(* OCFLInventory.addContent, for a file written in the head version.       *)
AddContent(inv, f, hash) ==
    [head     |-> inv.head,
     state    |-> [inv.state EXCEPT ![inv.head][f] = hash],
     manifest |-> [inv.manifest EXCEPT ![inv.head][f] = hash]]

(* OCFLInventory.removeContent: the manifest keeps the older versions.     *)
RemoveContent(inv, f) == [inv EXCEPT !.state[inv.head][f] = None]

Latest == 0     \* "-1 means most recent version"

(* getContentPathAndHash: a set with at most one [version, hash].  An      *)
(* explicit version is looked up in that version's state, and the path is  *)
(* always that of the requested version; Latest is the newest manifest     *)
(* entry for the name.                                                     *)
ContentPathAndHash(inv, f, version) ==
    IF version = Latest
    THEN {[version |-> v, hash |-> inv.manifest[v][f]] : v \in
            {w \in Versions : /\ inv.manifest[w][f] # None
                              /\ \A x \in Versions :
                                    inv.manifest[x][f] # None => x <= w}}
    ELSE {[version |-> v, hash |-> inv.state[v][f]] : v \in
            {w \in {version} : inv.state[w][f] # None}}

-----------------------------------------------------------------------------
(* Operations, and the fields they use.                                    *)

Kinds == {"promote", "stream", "updateMetadata", "rename", "reinstate", "delete"}

NoOp == [kind |-> "none", upload |-> None, file |-> None, to |-> None,
         version |-> Latest]

(* promote and stream name the uploaded file, a reinstated file keeps its  *)
(* name, and only a reinstatement asks for an explicit version.            *)
Operations ==
    {o \in [kind : Kinds, upload : Uploads \cup {None}, file : Files \cup {None},
            to : Files \cup {None}, version : {Latest} \cup Versions] :
        /\ IF o.kind \in {"promote", "stream"}
           THEN o.upload # None /\ o.file = FileOf[o.upload]
           ELSE o.upload = None /\ (o.file = None <=> o.kind = "updateMetadata")
        /\ o.to = None <=> o.kind \notin {"rename", "reinstate"}
        /\ o.kind = "reinstate" => o.to = o.file
        /\ o.version # Latest => o.kind = "reinstate"}

CreateIfMissing(o) == o.kind \in {"promote", "stream", "updateMetadata"}

PCs == {"idle", "init", "load", "addVersion", "content", "copy", "removeStaged",
        "metadata", "verInv", "rootInv", "rootInvEnd", "rootDigest",
        "cleanup", "rollback"}

Init ==
    /\ rootDir = FALSE
    /\ rootInv = NoInv /\ rootDigest = NoInv
    /\ verDirs = {}
    /\ verInv = [v \in Versions |-> NoInv]
    /\ disk = [v \in Versions |-> NoFiles]
    /\ staged = Uploads
    /\ moveFileType = "unknown"
    /\ pc = [p \in Procs |-> "idle"]
    /\ op = [p \in Procs |-> NoOp]
    /\ newObject = [p \in Procs |-> FALSE]
    /\ mem = [p \in Procs |-> EmptyInv]
    /\ acked = {}
    /\ failures = 0 /\ crashes = 0

-----------------------------------------------------------------------------
(* Control flow shared by the operations.                                  *)

Goto(p, l) == pc' = [pc EXCEPT ![p] = l]

(* The OCFLObject is dropped when the request returns.                     *)
Return(p) ==
    /\ Goto(p, "idle")
    /\ op' = [op EXCEPT ![p] = NoOp]
    /\ newObject' = [newObject EXCEPT ![p] = FALSE]
    /\ mem' = [mem EXCEPT ![p] = EmptyInv]

Fails(step) == /\ step \in FailSteps
               /\ failures < MaxFailures
               /\ failures' = failures + 1

HeadVersion(p) == mem[p].head
DestFile(o) == IF o.kind \in {"rename", "reinstate"} THEN o.to ELSE o.file

(* A file can be written only into a folder that still exists.             *)
Writable(p) == HeadVersion(p) \in verDirs

WriteFile(p, f, bits) ==
    disk' = [disk EXCEPT ![HeadVersion(p)][f] = bits]

-----------------------------------------------------------------------------
(* LocalStorage.*Asset creates an OCFLObject for the storage key, which     *)
(* looks whether its root folder exists (initializeStructure).  Callers    *)
(* promote an upload again until that is reported as successful, and name  *)
(* an explicit version only for a file they were told is stored in it.     *)
Start(p, o) ==
    /\ pc[p] = "idle"
    /\ o.upload # None => \A a \in acked : a.content # o.upload
    /\ o.version # Latest =>
           \E a \in acked : a.version = o.version /\ a.file = o.file
    /\ op' = [op EXCEPT ![p] = o]
    /\ newObject' = [newObject EXCEPT ![p] = ~rootDir]
    /\ Goto(p, "init")
    /\ UNCHANGED <<diskVars, mem, moveFileType, acked, failures, crashes>>

InitializeStructure(p) ==
    /\ pc[p] = "init"
    /\ UNCHANGED <<rootInv, rootDigest, verDirs, verInv, disk, staged>>
    /\ UNCHANGED <<moveFileType, acked, crashes>>
    /\ \/ /\ CreateIfMissing(op[p])
          /\ rootDir' = TRUE
          /\ Goto(p, "load")
          /\ UNCHANGED <<op, newObject, mem, failures>>
       \/ /\ ~CreateIfMissing(op[p]) /\ ~newObject[p]
          /\ Goto(p, "load")
          /\ UNCHANGED <<rootDir, op, newObject, mem, failures>>
       \/ /\ ~CreateIfMissing(op[p]) /\ newObject[p]
          /\ Return(p)
          /\ UNCHANGED <<rootDir, failures>>
       \/ /\ CreateIfMissing(op[p]) /\ Fails("mkdirRoot")
          /\ Return(p)
          /\ UNCHANGED rootDir

(* ensureInventoryIsLoaded: a folder that existed must hold an inventory.  *)
LoadInventory(p) ==
    /\ pc[p] = "load"
    /\ UNCHANGED <<diskVars, moveFileType, acked, failures, crashes>>
    /\ \/ /\ newObject[p]
          /\ mem' = [mem EXCEPT ![p] = EmptyInv]
          /\ Goto(p, "addVersion")
          /\ UNCHANGED <<op, newObject>>
       \/ /\ ~newObject[p] /\ rootInv \notin {NoInv, Torn}
          /\ mem' = [mem EXCEPT ![p] = rootInv]
          /\ Goto(p, "addVersion")
          /\ UNCHANGED <<op, newObject>>
       \/ /\ ~newObject[p] /\ rootInv \in {NoInv, Torn}
          /\ Return(p)

(* addVersion: a failure to create the folder is not rolled back.          *)
OpenVersion(p) ==
    /\ pc[p] = "addVersion"
    /\ HeadVersion(p) < MaxVersion
    /\ UNCHANGED <<rootDir, rootInv, rootDigest, verInv, disk, staged>>
    /\ UNCHANGED <<moveFileType, acked, crashes>>
    /\ \/ /\ mem' = [mem EXCEPT ![p] = AddVersion(mem[p])]
          /\ verDirs' = verDirs \cup {HeadVersion(p) + 1}
          /\ Goto(p, IF op[p].kind = "updateMetadata" THEN "metadata" ELSE "content")
          /\ UNCHANGED <<op, newObject, failures>>
       \/ /\ Fails("mkdirVersion")
          /\ Return(p)
          /\ UNCHANGED verDirs

-----------------------------------------------------------------------------
(* addOrUpdateWorker, content part: hash the staged file, then move it.    *)

RecordUpload(p) ==
    mem' = [mem EXCEPT ![p] = AddContent(mem[p], op[p].file, op[p].upload)]

CanRename == moveFileType \in {"unknown", "move"}

(* As MoveStaged, had the hash been computed after the move.               *)
MoveStagedBeforeHash(p) ==
    /\ pc[p] = "content" /\ op[p].kind = "promote"
    /\ op[p].upload \in staged
    /\ CanRename /\ SameVolume /\ Writable(p)
    /\ WriteFile(p, op[p].file, op[p].upload)
    /\ staged' = staged \ {op[p].upload}
    /\ moveFileType' = "move"
    /\ \/ RecordUpload(p) /\ Goto(p, "metadata")
       \/ UNCHANGED mem /\ Goto(p, "rollback")
    /\ UNCHANGED <<rootDir, rootInv, rootDigest, verDirs, verInv, op, newObject,
                   acked, failures, crashes>>

(* safeMoveFile by rename.                                                 *)
MoveStaged(p) ==
    /\ pc[p] = "content" /\ op[p].kind = "promote"
    /\ op[p].upload \in staged
    /\ CanRename /\ SameVolume /\ Writable(p)
    /\ WriteFile(p, op[p].file, op[p].upload)
    /\ staged' = staged \ {op[p].upload}
    /\ moveFileType' = "move"
    /\ RecordUpload(p)
    /\ Goto(p, "metadata")
    /\ UNCHANGED <<rootDir, rootInv, rootDigest, verDirs, verInv, op, newObject,
                   acked, failures, crashes>>

(* The rename did not work: from now on every request copies and deletes.  *)
RenameFails(p) ==
    /\ pc[p] = "content" /\ op[p].kind = "promote"
    /\ op[p].upload \in staged
    /\ CanRename
    /\ \/ (~SameVolume \/ ~Writable(p)) /\ UNCHANGED failures
       \/ Fails("rename")
    /\ moveFileType' = "copyThenDelete"
    /\ Goto(p, "copy")
    /\ UNCHANGED <<diskVars, op, newObject, mem, acked, crashes>>

(* The staged file is missing: its hash cannot be computed.                *)
HashFails(p) ==
    /\ pc[p] = "content" /\ op[p].kind = "promote"
    /\ op[p].upload \notin staged
    /\ Goto(p, "rollback")
    /\ UNCHANGED <<diskVars, op, newObject, mem, moveFileType, acked, failures, crashes>>

CopyStaged(p) ==
    /\ \/ pc[p] = "copy"
       \/ /\ pc[p] = "content" /\ op[p].kind = "promote"
          /\ op[p].upload \in staged /\ ~CanRename
    /\ UNCHANGED <<rootDir, rootInv, rootDigest, verDirs, verInv, staged>>
    /\ UNCHANGED <<op, newObject, mem, moveFileType, acked, crashes>>
    /\ \/ /\ Writable(p) /\ op[p].upload \in staged
          /\ WriteFile(p, op[p].file, op[p].upload)
          /\ Goto(p, "removeStaged")
          /\ UNCHANGED failures
       \/ /\ ~(Writable(p) /\ op[p].upload \in staged)
          /\ Goto(p, "rollback")
          /\ UNCHANGED <<disk, failures>>
       \/ /\ Writable(p) /\ Fails("copy")
          /\ WriteFile(p, op[p].file, Torn)
          /\ Goto(p, "rollback")

RemoveStaged(p) ==
    /\ pc[p] = "removeStaged"
    /\ UNCHANGED <<rootDir, rootInv, rootDigest, verDirs, verInv, disk>>
    /\ UNCHANGED <<op, newObject, moveFileType, acked, crashes>>
    /\ \/ /\ op[p].upload \in staged
          /\ staged' = staged \ {op[p].upload}
          /\ RecordUpload(p)
          /\ Goto(p, "metadata")
          /\ UNCHANGED failures
       \/ /\ op[p].upload \notin staged
          /\ Goto(p, "rollback")
          /\ UNCHANGED <<staged, mem, failures>>
       \/ /\ Fails("removeStaged")
          /\ Goto(p, "rollback")
          /\ UNCHANGED <<staged, mem>>

(* The bits come from an entry of a zip file that stays where it is.       *)
StreamContent(p) ==
    /\ pc[p] = "content" /\ op[p].kind = "stream"
    /\ UNCHANGED <<rootDir, rootInv, rootDigest, verDirs, verInv, staged>>
    /\ UNCHANGED <<op, newObject, moveFileType, acked, crashes>>
    /\ \/ /\ Writable(p)
          /\ WriteFile(p, op[p].file, op[p].upload)
          /\ RecordUpload(p)
          /\ Goto(p, "metadata")
          /\ UNCHANGED failures
       \/ /\ ~Writable(p)
          /\ Goto(p, "rollback")
          /\ UNCHANGED <<disk, mem, failures>>
       \/ /\ Writable(p) /\ Fails("stream")
          /\ WriteFile(p, op[p].file, Torn)
          /\ Goto(p, "rollback")
          /\ UNCHANGED mem

WriteMetadata(p) ==
    /\ pc[p] = "metadata"
    /\ UNCHANGED <<rootDir, rootInv, rootDigest, verDirs, verInv, staged>>
    /\ UNCHANGED <<op, newObject, moveFileType, acked, crashes>>
    /\ \/ /\ Writable(p)
          /\ WriteFile(p, MetaFile, Meta)
          /\ mem' = [mem EXCEPT ![p] = AddContent(mem[p], MetaFile, Meta)]
          /\ Goto(p, "verInv")
          /\ UNCHANGED failures
       \/ /\ ~Writable(p)
          /\ Goto(p, "rollback")
          /\ UNCHANGED <<disk, mem, failures>>
       \/ /\ Writable(p) /\ Fails("metadata")
          /\ WriteFile(p, MetaFile, Torn)
          /\ Goto(p, "rollback")
          /\ UNCHANGED mem

-----------------------------------------------------------------------------
(* renameReinstateWorker: copy a stored file into the new version without  *)
(* overwriting, record it, and drop the old name when it changes.          *)

CopySource(p) == ContentPathAndHash(mem[p], op[p].file, op[p].version)

Copyable(p, s) ==
    /\ Writable(p)
    /\ disk[s.version][op[p].file] # None
    /\ disk[HeadVersion(p)][op[p].to] = None

OldNameHeld(p, s) ==
    op[p].file # op[p].to => mem[p].state[HeadVersion(p)][op[p].file] = s.hash

AddCopy(p, s) ==
    LET added == AddContent(mem[p], op[p].to, s.hash) IN
    mem' = [mem EXCEPT ![p] = IF op[p].file = op[p].to THEN added
                              ELSE RemoveContent(added, op[p].file)]

CopyVersion(p) ==
    /\ pc[p] = "content" /\ op[p].kind \in {"rename", "reinstate"}
    /\ UNCHANGED <<rootDir, rootInv, rootDigest, verDirs, verInv, staged>>
    /\ UNCHANGED <<op, newObject, moveFileType, acked, crashes>>
    /\ \/ \E s \in CopySource(p) :
            /\ Copyable(p, s)
            /\ WriteFile(p, op[p].to, disk[s.version][op[p].file])
            /\ UNCHANGED failures
            /\ \/ /\ OldNameHeld(p, s)
                  /\ AddCopy(p, s)
                  /\ Goto(p, "verInv")
               \/ /\ ~OldNameHeld(p, s)
                  /\ Goto(p, "rollback")
                  /\ UNCHANGED mem
       \/ /\ \A s \in CopySource(p) : ~Copyable(p, s)
          /\ Goto(p, "rollback")
          /\ UNCHANGED <<disk, mem, failures>>
       \/ /\ \E s \in CopySource(p) : Copyable(p, s)
          /\ Fails("copyVersion")
          /\ WriteFile(p, op[p].to, Torn)
          /\ Goto(p, "rollback")
          /\ UNCHANGED mem

(* deleteWorker touches the inventory only.                                *)
DeleteFile(p) ==
    /\ pc[p] = "content" /\ op[p].kind = "delete"
    /\ UNCHANGED <<diskVars, op, newObject, moveFileType, acked, failures, crashes>>
    /\ \/ /\ \E s \in CopySource(p) : mem[p].state[HeadVersion(p)][op[p].file] = s.hash
          /\ mem' = [mem EXCEPT ![p] = RemoveContent(mem[p], op[p].file)]
          /\ Goto(p, "verInv")
       \/ /\ \A s \in CopySource(p) : mem[p].state[HeadVersion(p)][op[p].file] # s.hash
          /\ Goto(p, "rollback")
          /\ UNCHANGED mem

-----------------------------------------------------------------------------
(* writeToDiskVersion, then writeToDisk: the inventory, then its digest.   *)

(* As WriteVersionInventory, for an operation that only writes the root.   *)
SkipVersionInventory(p) ==
    /\ pc[p] = "verInv"
    /\ Goto(p, "rootInv")
    /\ UNCHANGED <<diskVars, op, newObject, mem, moveFileType, acked, failures, crashes>>

WriteVersionInventory(p) ==
    /\ pc[p] = "verInv"
    /\ UNCHANGED <<rootDir, rootInv, rootDigest, verDirs, disk, staged>>
    /\ UNCHANGED <<op, newObject, mem, moveFileType, acked, crashes>>
    /\ \/ /\ Writable(p)
          /\ verInv' = [verInv EXCEPT ![HeadVersion(p)] = mem[p]]
          /\ Goto(p, "rootInv")
          /\ UNCHANGED failures
       \/ /\ ~Writable(p)
          /\ Goto(p, "rollback")
          /\ UNCHANGED <<verInv, failures>>
       \/ /\ Writable(p) /\ Fails("verInv")
          /\ verInv' = [verInv EXCEPT ![HeadVersion(p)] = Torn]
          /\ Goto(p, "rollback")

(* writeJson truncates the file and then fills it.                         *)
TruncateRootInventory(p) ==
    /\ pc[p] = "rootInv"
    /\ rootInv' = Torn
    /\ Goto(p, "rootInvEnd")
    /\ UNCHANGED <<rootDir, rootDigest, verDirs, verInv, disk, staged, op,
                   newObject, mem, moveFileType, acked, failures, crashes>>

WriteRootInventory(p) ==
    /\ pc[p] = "rootInvEnd"
    /\ UNCHANGED <<rootDir, rootDigest, verDirs, verInv, disk, staged>>
    /\ UNCHANGED <<op, newObject, mem, moveFileType, acked, crashes>>
    /\ \/ /\ rootInv' = mem[p]
          /\ Goto(p, "rootDigest")
          /\ UNCHANGED failures
       \/ /\ Fails("rootInv")
          /\ UNCHANGED rootInv
          /\ Goto(p, "rollback")

(* As Stored, with the version an operation would open next.               *)
StoredAsNext(p) ==
    IF op[p].kind \in {"promote", "stream", "rename", "reinstate"}
    THEN {[version |-> HeadVersion(p) + 1, file |-> DestFile(op[p]),
           content |-> mem[p].state[HeadVersion(p)][DestFile(op[p])]]}
    ELSE {}

(* What the caller is told it can read back: name, version and bits.       *)
Stored(p) ==
    IF op[p].kind \in {"promote", "stream", "rename", "reinstate"}
    THEN {[version |-> HeadVersion(p), file |-> DestFile(op[p]),
           content |-> mem[p].state[HeadVersion(p)][DestFile(op[p])]]}
    ELSE {}

WriteRootDigest(p) ==
    /\ pc[p] = "rootDigest"
    /\ UNCHANGED <<rootDir, rootInv, verDirs, verInv, disk, staged>>
    /\ UNCHANGED <<moveFileType, crashes>>
    /\ \/ /\ rootDigest' = mem[p]
          /\ op[p].kind = "promote"
          /\ Goto(p, "cleanup")
          /\ UNCHANGED <<op, newObject, mem, acked, failures>>
       \/ /\ rootDigest' = mem[p]
          /\ op[p].kind # "promote"
          /\ acked' = acked \cup Stored(p)
          /\ Return(p)
          /\ UNCHANGED failures
       \/ /\ Fails("rootDigest")
          /\ Goto(p, "rollback")
          /\ UNCHANGED <<rootDigest, op, newObject, mem, acked>>

(* promoteStagedAsset removes the staging folder and returns that result:  *)
(* a failure here reports a stored asset as not stored.                    *)
RemoveStagingFolder(p) ==
    /\ pc[p] = "cleanup"
    /\ \/ acked' = acked \cup Stored(p) /\ UNCHANGED failures
       \/ Fails("cleanup") /\ UNCHANGED acked
    /\ Return(p)
    /\ UNCHANGED <<diskVars, moveFileType, crashes>>

(* As RollbackVersion, had the inventory been rolled back before the       *)
(* folder of its head version is removed.                                  *)
RollbackInventoryFirst(p) ==
    /\ pc[p] = "rollback"
    /\ HeadVersion(p) > 1
    /\ verDirs' = verDirs \ {HeadVersion(p) - 1}
    /\ verInv' = [verInv EXCEPT ![HeadVersion(p) - 1] = NoInv]
    /\ disk' = [disk EXCEPT ![HeadVersion(p) - 1] = NoFiles]
    /\ Return(p)
    /\ UNCHANGED <<rootDir, rootInv, rootDigest, staged, moveFileType, acked,
                   failures, crashes>>

(* As RollbackVersion, for a rollback of the inventory in memory only.     *)
RollbackInventoryOnly(p) ==
    /\ pc[p] = "rollback"
    /\ Return(p)
    /\ UNCHANGED <<diskVars, moveFileType, acked, failures, crashes>>

(* rollbackVersion removes the folder of the version, whatever is in it.   *)
RollbackVersion(p) ==
    /\ pc[p] = "rollback"
    /\ UNCHANGED <<rootDir, rootInv, rootDigest, staged>>
    /\ UNCHANGED <<moveFileType, acked, crashes>>
    /\ \/ /\ verDirs' = verDirs \ {HeadVersion(p)}
          /\ verInv' = [verInv EXCEPT ![HeadVersion(p)] = NoInv]
          /\ disk' = [disk EXCEPT ![HeadVersion(p)] = NoFiles]
          /\ UNCHANGED failures
       \/ /\ Fails("rollback")
          /\ UNCHANGED <<verDirs, verInv, disk>>
    /\ Return(p)

(* The server restarts: requests in flight are gone, the disks stay.       *)
Crash ==
    /\ crashes < MaxCrashes
    /\ "tornCrash" \in FailSteps \/ \A p \in Procs : pc[p] # "rootInvEnd"
    /\ crashes' = crashes + 1
    /\ pc' = [p \in Procs |-> "idle"]
    /\ op' = [p \in Procs |-> NoOp]
    /\ newObject' = [p \in Procs |-> FALSE]
    /\ mem' = [p \in Procs |-> EmptyInv]
    /\ moveFileType' = "unknown"
    /\ UNCHANGED <<diskVars, acked, failures>>

Step(p) ==
    \/ \E o \in Operations : Start(p, o)
    \/ InitializeStructure(p) \/ LoadInventory(p) \/ OpenVersion(p)
    \/ MoveStaged(p) \/ RenameFails(p) \/ HashFails(p) \/ CopyStaged(p)
    \/ RemoveStaged(p) \/ StreamContent(p) \/ WriteMetadata(p)
    \/ CopyVersion(p) \/ DeleteFile(p)
    \/ WriteVersionInventory(p) \/ TruncateRootInventory(p)
    \/ WriteRootInventory(p) \/ WriteRootDigest(p) \/ RemoveStagingFolder(p)
    \/ RollbackVersion(p)

Next == Crash \/ \E p \in Procs : Step(p)

Spec == Init /\ [][Next]_vars

-----------------------------------------------------------------------------
(* Every variable keeps its type; in particular an inventory read back from *)
(* disk is one this code wrote.                                            *)
TypeOK ==
    /\ rootDir \in BOOLEAN
    /\ rootInv \in Inventory \cup {NoInv, Torn}
    /\ rootDigest \in Inventory \cup {NoInv}
    /\ verDirs \subseteq Versions
    /\ verInv \in [Versions -> Inventory \cup {NoInv, Torn}]
    /\ disk \in [Versions -> [Names -> Contents \cup {None, Torn}]]
    /\ staged \subseteq Uploads
    /\ moveFileType \in {"unknown", "move", "copyThenDelete"}
    /\ pc \in [Procs -> PCs]
    /\ op \in [Procs -> Operations \cup {NoOp}]
    /\ newObject \in [Procs -> BOOLEAN]
    /\ mem \in [Procs -> Inventory]
    /\ acked \subseteq [version : Versions, file : Files, content : Contents \cup {None}]
    /\ failures \in Nat /\ crashes \in Nat

Complete(inv) == inv \notin {NoInv, Torn}
Writing(p)    == pc[p] = "rootInvEnd"
Idle          == \A p \in Procs : pc[p] = "idle"

(* LocalStorage.readStream: the bits found for a file of a given version.  *)
ReadStream(f, version) ==
    {disk[s.version][f] : s \in ContentPathAndHash(rootInv, f, version)}

(* A file whose storage was reported as successful (promoteStagedAsset,    *)
(* renameAsset, reinstateAsset) can be read back as that version, with the *)
(* same bits, ever after: failed operations, their rollbacks and restarts  *)
(* do not touch it.  Only while a root inventory is being rewritten in     *)
(* place may a read fail.                                                  *)
AckedReadable ==
    /\ Complete(rootInv) =>
           \A a \in acked : ReadStream(a.file, a.version) = {a.content}
    /\ acked # {} /\ ~Complete(rootInv) => \E p \in Procs : Writing(p)

(* "The object root inventory matches the one found in the head version":  *)
(* once no request is in flight, the two inventory files agree, however    *)
(* the last operations ended.                                              *)
RootMatchesHead ==
    Idle /\ Complete(rootInv) => verInv[rootInv.head] = rootInv

(* The inventory the object can be said to have: while the root file is    *)
(* being rewritten, the one its writer started from.                       *)
Committed ==
    IF Complete(rootInv) THEN rootInv
    ELSE IF \E p \in Procs : Writing(p)
         THEN LET w == CHOOSE p \in Procs : Writing(p)
              IN [mem[w] EXCEPT !.head = @ - 1]
         ELSE EmptyInv

(* The bits of an upload are never gone: they are in the staging area, or  *)
(* in the folder of the request that is storing them, or in a file that    *)
(* the committed manifest names.                                           *)
UploadKept ==
    \A u \in Uploads :
        \/ u \in staged
        \/ \E v \in Versions, f \in Files :
              /\ disk[v][f] = u
              /\ \/ v <= Committed.head /\ Committed.manifest[v][f] = u
                 \/ \E p \in Procs : /\ pc[p] # "idle" /\ HeadVersion(p) = v
                                     /\ op[p].upload = u

(* OCFLObject.validate, for an object that has a root inventory.           *)
FilesOnDisk(v) == {f \in Names : disk[v][f] # None}

ManifestOnDisk(inv) ==
    \A v \in Versions, f \in Names : inv.manifest[v][f] # None => disk[v][f] # None

Validate ==
    /\ Complete(rootInv)
    /\ rootDigest = rootInv
    /\ ManifestOnDisk(rootInv)
    /\ \A v \in 1 .. rootInv.head : /\ Complete(verInv[v])
                                    /\ verInv[v].head = v
                                    /\ ManifestOnDisk(verInv[v])
    /\ verInv[rootInv.head] = rootInv
    /\ \A v \in Versions : \A f \in FilesOnDisk(v) : rootInv.manifest[v][f] = disk[v][f]

(* A failed operation on an object that has a version leaves nothing       *)
(* behind that validate() objects to: after its rollback the object is as  *)
(* valid as after a successful one.  A failed first operation leaves no    *)
(* file behind.  It does leave the root folder, and that without an        *)
(* inventory: validate() rejects it, and so does LoadInventory ever after. *)
ValidWhenIdle ==
    Idle => IF rootInv = NoInv THEN \A v \in Versions : FilesOnDisk(v) = {}
                               ELSE Validate

(* The versions as a caller of the object sees them, read off the folders: *)
(* content is found under its hash through the manifest.                   *)
HeldContent(v, f) ==
    LET c == Committed.state[v][f] IN
    IF \/ c = None
       \/ \E w \in 1 .. v, g \in Names :
             Committed.manifest[w][g] = c /\ disk[w][g] = c
    THEN c ELSE Torn

History == [v \in 1 .. Committed.head |-> [f \in Names |-> HeldContent(v, f)]]

VO == INSTANCE VersionedObject WITH Bits <- Contents, history <- History

(* The folders implement VersionedObject: every step either commits one    *)
(* version at the end of the history or changes nothing a caller can see.  *)
ImplementsVersionedObject == VO!Spec
=============================================================================
