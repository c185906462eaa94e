-------------------------- MODULE OcflObjectProofs --------------------------
(***************************************************************************)
(* For every value of the constants of OcflObject:                         *)
(*   TypeCorrect            every variable keeps its type, whatever number  *)
(*                          of requests interleave, fail or are cut off;   *)
(*   AckedReadableSerial    what was reported as stored stays readable;    *)
(*   RootMatchesHeadSerial  the two inventories of the head version agree. *)
(*                                                                         *)
(* The last two are about one request at a time whose writes of the root   *)
(* inventory do not fail (Serial): without that they do not hold.  The     *)
(* argument: the root inventory and what it names stay intact (RootKept)   *)
(* because a request writes only into a folder above the committed head    *)
(* until it replaces the root inventory, by one whose files it has checked *)
(* or written itself (RequestKept).                                        *)
(***************************************************************************)
EXTENDS OcflObject, TLAPS

(* What an operation of each kind carries.                                 *)
LEMMA OperationFields ==
    ASSUME NEW o \in Operations \cup {NoOp}
    PROVE  /\ o.kind \in {"promote", "stream"} =>
                  o.upload \in Uploads /\ o.file \in Files
           /\ o.kind \in {"rename", "reinstate"} =>
                  o.file \in Files /\ o.to \in Files
           /\ o.kind \in {"rename", "reinstate"} => o.version \in {Latest} \cup Versions
           /\ o.kind = "delete" => o.file \in Files
           /\ o.kind \in {"none", "promote", "stream", "updateMetadata", "rename",
                          "reinstate", "delete"}
  BY ConstantsAssumption DEF Operations, NoOp, Kinds

(* The operations on inventories keep them well formed.                    *)
LEMMA EmptyInvType == EmptyInv \in Inventory
  BY ConstantsAssumption DEF EmptyInv, Inventory, NoFiles, FileMap, Versions

(* A new version leaves the manifest and the older states alone.            *)
LEMMA AddVersionType ==
    ASSUME NEW inv \in Inventory, inv.head < MaxVersion
    PROVE  /\ AddVersion(inv) \in Inventory
           /\ AddVersion(inv).head = inv.head + 1
           /\ AddVersion(inv).manifest = inv.manifest
           /\ \A v \in Versions : v <= inv.head =>
                  AddVersion(inv).state[v] = inv.state[v]
  <1> DEFINE v == inv.head + 1
             s == IF v = 1 THEN NoFiles ELSE inv.state[v - 1]
  <1>1. v \in Versions /\ v \in 0 .. MaxVersion
    BY ConstantsAssumption DEF Inventory, Versions
  <1>2. s \in FileMap
    BY <1>1, ConstantsAssumption DEF Inventory, Versions, NoFiles, FileMap
  <1>3. AddVersion(inv) = [head |-> v, state |-> [inv.state EXCEPT ![v] = s],
                           manifest |-> inv.manifest]
    BY DEF AddVersion
  <1>4. \A w \in Versions : w <= inv.head => w # v
    BY ConstantsAssumption DEF Inventory, Versions
  <1> HIDE DEF v, s
  <1>5. QED
    BY <1>1, <1>2, <1>3, <1>4 DEF Inventory, v

(* Recorded content appears in state and manifest of the head version.      *)
LEMMA AddContentType ==
    ASSUME NEW inv \in Inventory, inv.head \in Versions,
           NEW f \in Names, NEW hash \in Contents
    PROVE  /\ AddContent(inv, f, hash) \in Inventory
           /\ AddContent(inv, f, hash).head = inv.head
           /\ \A v \in Versions, g \in Names :
                 /\ AddContent(inv, f, hash).manifest[v][g] =
                       IF v = inv.head /\ g = f THEN hash ELSE inv.manifest[v][g]
                 /\ AddContent(inv, f, hash).state[v][g] =
                       IF v = inv.head /\ g = f THEN hash ELSE inv.state[v][g]
           /\ \A v \in Versions : v # inv.head =>
                  AddContent(inv, f, hash).state[v] = inv.state[v]
  <1> DEFINE h == inv.head
             m == [inv.manifest EXCEPT ![h] = [inv.manifest[h] EXCEPT ![f] = hash]]
             s == [inv.state EXCEPT ![h] = [inv.state[h] EXCEPT ![f] = hash]]
  <1>1. AddContent(inv, f, hash) = [head |-> h, state |-> s, manifest |-> m]
    BY DEF AddContent
  <1>2. m \in [Versions -> FileMap] /\ s \in [Versions -> FileMap]
    BY DEF Inventory, FileMap
  <1>3. \A v \in Versions, g \in Names :
            /\ m[v][g] = IF v = h /\ g = f THEN hash ELSE inv.manifest[v][g]
            /\ s[v][g] = IF v = h /\ g = f THEN hash ELSE inv.state[v][g]
    BY DEF Inventory, FileMap
  <1>4. \A v \in Versions : v # h => s[v] = inv.state[v]
    BY DEF Inventory
  <1> HIDE DEF h, m, s
  <1>5. QED
    BY <1>1, <1>2, <1>3, <1>4 DEF Inventory, h

(* A removed name disappears from the state of the head version only.       *)
LEMMA RemoveContentType ==
    ASSUME NEW inv \in Inventory, inv.head \in Versions, NEW f \in Names
    PROVE  /\ RemoveContent(inv, f) \in Inventory
           /\ RemoveContent(inv, f).head = inv.head
           /\ RemoveContent(inv, f).manifest = inv.manifest
           /\ \A v \in Versions, g \in Names :
                 RemoveContent(inv, f).state[v][g] =
                       IF v = inv.head /\ g = f THEN None ELSE inv.state[v][g]
           /\ \A v \in Versions : v # inv.head =>
                  RemoveContent(inv, f).state[v] = inv.state[v]
  <1> DEFINE h == inv.head
             s == [inv.state EXCEPT ![h] = [inv.state[h] EXCEPT ![f] = None]]
  <1>1. RemoveContent(inv, f) = [head |-> h, state |-> s, manifest |-> inv.manifest]
    BY DEF RemoveContent, Inventory
  <1>2. s \in [Versions -> FileMap]
    BY DEF Inventory, FileMap
  <1>3. \A v \in Versions, g \in Names :
            s[v][g] = IF v = h /\ g = f THEN None ELSE inv.state[v][g]
    BY DEF Inventory, FileMap
  <1>4. \A v \in Versions : v # h => s[v] = inv.state[v]
    BY DEF Inventory
  <1> HIDE DEF h, s
  <1>5. QED
    BY <1>1, <1>2, <1>3, <1>4 DEF Inventory, h
-----------------------------------------------------------------------------
(* Type correctness.  An operation past OpenVersion has a version open, and *)
(* the steps that only a promotion takes belong to a promotion.            *)

Opened == PCs \ {"idle", "init", "load", "addVersion"}
Storing == {"promote", "stream", "rename", "reinstate"}

Placed(p) ==
    /\ pc[p] \in Opened => HeadVersion(p) \in Versions
    /\ pc[p] \in {"copy", "removeStaged", "cleanup"} => op[p].kind = "promote"

TypeInv == TypeOK /\ \A p \in Procs : Placed(p)

RequestTypes ==
    /\ pc \in [Procs -> PCs]
    /\ op \in [Procs -> Operations \cup {NoOp}]
    /\ newObject \in [Procs -> BOOLEAN]
    /\ mem \in [Procs -> Inventory]
    /\ \A q \in Procs : Placed(q)

(* An empty version folder has the type of one.                             *)
LEMMA NoFilesType == NoFiles \in [Names -> Contents \cup {None, Torn}]
  BY DEF NoFiles

(* The initial state satisfies the strengthened type invariant.             *)
LEMMA InitTypeInv == Init => TypeInv
  <1> SUFFICES ASSUME Init PROVE TypeInv
    OBVIOUS
  <1>1. TypeOK
    BY NoFilesType, EmptyInvType, ConstantsAssumption DEF Init, TypeOK, PCs, Versions
  <1>2. \A p \in Procs : Placed(p)
    BY DEF Init, Placed, Opened
  <1>3. QED
    BY <1>1, <1>2 DEF TypeInv

(* Dropping the OCFLObject keeps the types of the per-request variables.   *)
LEMMA ReturnType ==
    ASSUME TypeInv, NEW p \in Procs, Return(p)
    PROVE  RequestTypes'
  <1>1. /\ pc' = [pc EXCEPT ![p] = "idle"]
        /\ op' = [op EXCEPT ![p] = NoOp]
        /\ newObject' = [newObject EXCEPT ![p] = FALSE]
        /\ mem' = [mem EXCEPT ![p] = EmptyInv]
    BY DEF Return, Goto
  <1>2. /\ pc' \in [Procs -> PCs]
        /\ op' \in [Procs -> Operations \cup {NoOp}]
        /\ newObject' \in [Procs -> BOOLEAN]
        /\ mem' \in [Procs -> Inventory]
    BY <1>1, EmptyInvType DEF TypeInv, TypeOK, PCs
  <1>3. ASSUME NEW q \in Procs PROVE Placed(q)'
    BY <1>1 DEF TypeInv, TypeOK, Placed, Opened, HeadVersion
  <1>4. QED
    BY <1>2, <1>3 DEF RequestTypes

(* Going on with the same operation and the same inventory in memory.      *)
LEMMA GotoType ==
    ASSUME TypeInv, NEW p \in Procs, NEW l \in Opened, pc[p] \in Opened,
           Goto(p, l), UNCHANGED <<op, newObject, mem>>,
           l \in {"copy", "removeStaged", "cleanup"} => op[p].kind = "promote"
    PROVE  RequestTypes'
  <1>1. pc' = [pc EXCEPT ![p] = l]
    BY DEF Goto
  <1>2. pc' \in [Procs -> PCs]
    BY <1>1 DEF TypeInv, TypeOK, PCs, Opened
  <1>3. ASSUME NEW q \in Procs PROVE Placed(q)'
    BY <1>1 DEF TypeInv, TypeOK, Placed, Opened, HeadVersion
  <1>4. QED
    BY <1>2, <1>3 DEF TypeInv, TypeOK, RequestTypes

(* The same, with another inventory of the same head in memory.            *)
LEMMA RecordType ==
    ASSUME TypeInv, NEW p \in Procs, NEW l \in {"metadata", "verInv"},
           pc[p] \in Opened, Goto(p, l), UNCHANGED <<op, newObject>>,
           NEW inv \in Inventory, inv.head = HeadVersion(p), mem' = [mem EXCEPT ![p] = inv]
    PROVE  RequestTypes'
  <1>1. pc' = [pc EXCEPT ![p] = l]
    BY DEF Goto
  <1>2. pc' \in [Procs -> PCs] /\ mem' \in [Procs -> Inventory]
    BY <1>1 DEF TypeInv, TypeOK, PCs
  <1>3. ASSUME NEW q \in Procs PROVE Placed(q)'
    BY <1>1 DEF TypeInv, TypeOK, Placed, Opened, HeadVersion
  <1>4. QED
    BY <1>2, <1>3 DEF TypeInv, TypeOK, RequestTypes

(* Writing any bits under any name keeps the type of the disk.             *)
LEMMA WriteFileType ==
    ASSUME TypeInv, NEW p \in Procs, NEW f,
           NEW bits \in Contents \cup {None, Torn}, WriteFile(p, f, bits)
    PROVE  disk' \in [Versions -> [Names -> Contents \cup {None, Torn}]]
  BY DEF TypeInv, TypeOK, WriteFile

(* Recording an upload keeps the inventory of its request well formed.      *)
LEMMA RecordUploadType ==
    ASSUME TypeInv, NEW p \in Procs, pc[p] \in Opened, RecordUpload(p),
           Goto(p, "metadata"), UNCHANGED <<op, newObject>>,
           op[p].upload \in Contents, op[p].file \in Names
    PROVE  RequestTypes'
  <1> DEFINE inv == AddContent(mem[p], op[p].file, op[p].upload)
  <1>1. mem[p] \in Inventory /\ mem[p].head \in Versions
    BY DEF TypeInv, TypeOK, Placed, HeadVersion
  <1>2. inv \in Inventory /\ inv.head = HeadVersion(p)
    BY <1>1, AddContentType DEF HeadVersion
  <1>3. mem' = [mem EXCEPT ![p] = inv]
    BY DEF RecordUpload
  <1> HIDE DEF inv
  <1>4. QED
    BY <1>2, <1>3, RecordType

(* What a rename or a reinstatement copies is a file with a hash.          *)
LEMMA CopySourceType ==
    ASSUME NEW p, mem[p] \in Inventory, op[p].file \in Names,
           op[p].version \in {Latest} \cup Versions, NEW s \in CopySource(p)
    PROVE  /\ s.version \in Versions /\ s.hash \in Contents
           /\ op[p].version = Latest => s.hash = mem[p].manifest[s.version][op[p].file]
           /\ op[p].version # Latest =>
                  s.version = op[p].version /\ s.hash = mem[p].state[s.version][op[p].file]
  BY ConstantsAssumption
  DEF CopySource, ContentPathAndHash, Inventory, FileMap, Latest, Versions

(* What is reported as stored has the type of such a report.                *)
LEMMA StoredType ==
    ASSUME TypeInv, NEW p \in Procs, pc[p] \in Opened
    PROVE  Stored(p) \subseteq [version : Versions, file : Files,
                               content : Contents \cup {None}]
  <1>1. mem[p] \in Inventory /\ HeadVersion(p) \in Versions
    BY DEF TypeInv, TypeOK, Placed, HeadVersion
  <1>2. op[p].kind \in Storing => DestFile(op[p]) \in Files
    BY OperationFields DEF TypeInv, TypeOK, DestFile, Storing
  <1>3. QED
    BY <1>1, <1>2 DEF Stored, Storing, Inventory, FileMap, Names

(* Every step keeps the strengthened type invariant.                        *)
THEOREM TypeInvStep == TypeInv /\ [Next]_vars => TypeInv'
  <1> SUFFICES ASSUME TypeInv, [Next]_vars PROVE TypeInv'
    OBVIOUS
  <1> USE DEF TypeInv
  <1>1. ASSUME NEW p \in Procs, NEW o \in Operations, Start(p, o) PROVE TypeInv'
    <2>1. /\ pc' = [pc EXCEPT ![p] = "init"]
          /\ op' = [op EXCEPT ![p] = o]
          /\ newObject' = [newObject EXCEPT ![p] = ~rootDir]
          /\ UNCHANGED <<diskVars, mem, moveFileType, acked, failures, crashes>>
      BY <1>1 DEF Start, Goto
    <2>2. TypeOK'
      BY <2>1 DEF TypeOK, diskVars, PCs
    <2>3. ASSUME NEW q \in Procs PROVE Placed(q)'
      BY <2>1 DEF TypeOK, Placed, Opened, HeadVersion
    <2>4. QED
      BY <2>2, <2>3
  <1>2. ASSUME NEW p \in Procs, InitializeStructure(p) PROVE TypeInv'
    <2>a. rootDir' = TRUE \/ UNCHANGED rootDir
      BY <1>2, Zenon DEF InitializeStructure
    <2>b. failures' = failures + 1 \/ UNCHANGED failures
      BY <1>2, Zenon DEF InitializeStructure, Fails
    <2>c. /\ UNCHANGED <<rootInv, rootDigest, verDirs, verInv, disk, staged>>
          /\ UNCHANGED <<moveFileType, acked, crashes>>
      BY <1>2, Zenon DEF InitializeStructure
    <2>d. rootDir' \in BOOLEAN
      BY <2>a, Zenon DEF TypeOK
    <2>e. failures' \in Nat
      BY <2>b DEF TypeOK
    <2>1. CASE Return(p)
      BY <2>c, <2>d, <2>e, <2>1, ReturnType DEF TypeOK, RequestTypes
    <2>2. CASE Goto(p, "load") /\ UNCHANGED <<op, newObject, mem>>
      <3>1. pc' = [pc EXCEPT ![p] = "load"]
        BY <2>2 DEF Goto
      <3>2. TypeOK'
        BY <2>c, <2>d, <2>e, <2>2, <3>1 DEF TypeOK, PCs
      <3>3. ASSUME NEW q \in Procs PROVE Placed(q)'
        BY <2>2, <3>1 DEF TypeOK, Placed, Opened, HeadVersion
      <3>4. QED
        BY <3>2, <3>3
    <2>3. QED
      BY <1>2, <2>1, <2>2, Zenon DEF InitializeStructure
  <1>3. ASSUME NEW p \in Procs, LoadInventory(p) PROVE TypeInv'
    <2>0. UNCHANGED <<rootDir, rootInv, rootDigest, verDirs, verInv, disk, staged,
                      moveFileType, acked, failures, crashes>>
      BY <1>3 DEF LoadInventory, diskVars
    <2>1. CASE Return(p)
      BY <2>0, <2>1, ReturnType DEF TypeOK, RequestTypes
    <2>2. ASSUME NEW inv \in Inventory, mem' = [mem EXCEPT ![p] = inv],
                 Goto(p, "addVersion"), UNCHANGED <<op, newObject>>
          PROVE  TypeInv'
      <3>1. pc' = [pc EXCEPT ![p] = "addVersion"]
        BY <2>2 DEF Goto
      <3>2. TypeOK'
        BY <2>0, <2>2, <3>1 DEF TypeOK, PCs
      <3>3. ASSUME NEW q \in Procs PROVE Placed(q)'
        BY <2>2, <3>1 DEF TypeOK, Placed, Opened, HeadVersion
      <3>4. QED
        BY <3>2, <3>3
    <2>3. rootInv \notin {NoInv, Torn} => rootInv \in Inventory
      BY DEF TypeOK
    <2>4. CASE \E inv \in Inventory : /\ mem' = [mem EXCEPT ![p] = inv]
                                      /\ Goto(p, "addVersion")
                                      /\ UNCHANGED <<op, newObject>>
      BY <2>2, <2>4, Zenon
    <2>5. CASE newObject[p]
      BY <1>3, <2>4, <2>5, EmptyInvType, Zenon DEF LoadInventory
    <2>6. CASE ~newObject[p] /\ rootInv \notin {NoInv, Torn}
      BY <1>3, <2>3, <2>4, <2>6, Zenon DEF LoadInventory
    <2>7. CASE ~newObject[p] /\ rootInv \in {NoInv, Torn}
      BY <1>3, <2>1, <2>7, Zenon DEF LoadInventory
    <2>8. QED
      BY <2>5, <2>6, <2>7, Zenon
  <1>4. ASSUME NEW p \in Procs, OpenVersion(p) PROVE TypeInv'
    <2>1. CASE Fails("mkdirVersion") /\ Return(p) /\ UNCHANGED verDirs
      <3>1. UNCHANGED <<rootDir, rootInv, rootDigest, verInv, disk, staged,
                        moveFileType, acked, crashes>>
        BY <1>4, Zenon DEF OpenVersion
      <3>2. QED
        BY <2>1, <3>1, ReturnType DEF TypeOK, RequestTypes, Fails
    <2>2. CASE /\ mem' = [mem EXCEPT ![p] = AddVersion(mem[p])]
               /\ verDirs' = verDirs \cup {HeadVersion(p) + 1}
               /\ Goto(p, IF op[p].kind = "updateMetadata" THEN "metadata" ELSE "content")
               /\ UNCHANGED <<op, newObject, failures>>
      <3> DEFINE inv == AddVersion(mem[p])
                 l == IF op[p].kind = "updateMetadata" THEN "metadata" ELSE "content"
      <3>1. pc' = [pc EXCEPT ![p] = l] /\ l \in {"metadata", "content"}
        BY <2>2 DEF Goto
      <3>2. inv \in Inventory /\ inv.head = HeadVersion(p) + 1
        BY <1>4, AddVersionType DEF OpenVersion, TypeOK, HeadVersion
      <3>3. HeadVersion(p) + 1 \in Versions
        BY <1>4, ConstantsAssumption DEF OpenVersion, TypeOK, HeadVersion, Inventory, Versions
      <3> HIDE DEF inv, l
      <3>4. mem' = [mem EXCEPT ![p] = inv]
        BY <2>2 DEF inv
      <3>5. TypeOK'
        BY <1>4, <2>2, <3>1, <3>2, <3>3, <3>4 DEF OpenVersion, TypeOK, PCs
      <3>6. ASSUME NEW q \in Procs PROVE Placed(q)'
        BY <2>2, <3>1, <3>2, <3>3, <3>4 DEF TypeOK, Placed, Opened, HeadVersion
      <3>7. QED
        BY <3>5, <3>6
    <2>3. QED
      BY <1>4, <2>1, <2>2 DEF OpenVersion

  <1>5. ASSUME NEW p \in Procs, MoveStaged(p) PROVE TypeInv'
    <2>1. op[p].upload \in Contents /\ op[p].file \in Names /\ pc[p] \in Opened
      BY <1>5, OperationFields DEF MoveStaged, TypeOK, Names, Contents, Opened, PCs
    <2>2. RequestTypes'
      BY <1>5, <2>1, RecordUploadType DEF MoveStaged
    <2>3. disk' \in [Versions -> [Names -> Contents \cup {None, Torn}]]
      BY <1>5, <2>1, WriteFileType DEF MoveStaged
    <2>4. /\ UNCHANGED <<rootDir, rootInv, rootDigest, verDirs, verInv>>
          /\ UNCHANGED <<acked, failures, crashes>>
          /\ staged' \subseteq staged
          /\ moveFileType' = "move"
      BY <1>5 DEF MoveStaged
    <2>5. QED
      BY <2>2, <2>3, <2>4 DEF TypeOK, RequestTypes
  <1>6. ASSUME NEW p \in Procs, RenameFails(p) PROVE TypeInv'
    <2>1. /\ pc[p] \in Opened /\ op[p].kind = "promote" /\ Goto(p, "copy")
          /\ moveFileType' = "copyThenDelete"
          /\ UNCHANGED <<rootDir, rootInv, rootDigest, verDirs, verInv, disk, staged,
                         op, newObject, mem, acked, crashes>>
      BY <1>6 DEF RenameFails, Opened, PCs, diskVars
    <2>2. failures' \in Nat
      BY <1>6 DEF RenameFails, Fails, TypeOK
    <2>3. RequestTypes'
      BY <2>1, GotoType DEF Opened, PCs
    <2>4. QED
      BY <2>1, <2>2, <2>3 DEF TypeOK, RequestTypes
  <1>7. ASSUME NEW p \in Procs, HashFails(p) PROVE TypeInv'
    <2>1. /\ pc[p] \in Opened /\ Goto(p, "rollback")
          /\ UNCHANGED <<rootDir, rootInv, rootDigest, verDirs, verInv, disk, staged,
                         op, newObject, mem, moveFileType, acked, failures, crashes>>
      BY <1>7 DEF HashFails, Opened, PCs, diskVars
    <2>2. RequestTypes'
      BY <2>1, GotoType DEF Opened, PCs
    <2>3. QED
      BY <2>1, <2>2 DEF TypeOK, RequestTypes
  <1>8. ASSUME NEW p \in Procs, CopyStaged(p) PROVE TypeInv'
    <2>1. op[p].upload \in Contents /\ op[p].kind = "promote" /\ pc[p] \in Opened
      BY <1>8, OperationFields DEF CopyStaged, TypeOK, Placed, Contents, Opened, PCs
    <2>2. /\ UNCHANGED <<rootDir, rootInv, rootDigest, verDirs, verInv, staged>>
          /\ UNCHANGED <<op, newObject, mem, moveFileType, acked, crashes>>
          /\ Goto(p, "removeStaged") \/ Goto(p, "rollback")
      BY <1>8 DEF CopyStaged
    <2>3. failures' \in Nat
      BY <1>8 DEF CopyStaged, Fails, TypeOK
    <2>4. disk' \in [Versions -> [Names -> Contents \cup {None, Torn}]]
      BY <1>8, <2>1, WriteFileType DEF CopyStaged, TypeOK
    <2>5. RequestTypes'
      BY <2>1, <2>2, GotoType DEF Opened, PCs
    <2>6. QED
      BY <2>2, <2>3, <2>4, <2>5 DEF TypeOK, RequestTypes
  <1>9. ASSUME NEW p \in Procs, RemoveStaged(p) PROVE TypeInv'
    <2>1. /\ op[p].upload \in Contents /\ op[p].file \in Names
          /\ op[p].kind = "promote" /\ pc[p] \in Opened
      BY <1>9, OperationFields
      DEF RemoveStaged, TypeOK, Placed, Names, Contents, Opened, PCs
    <2>2. /\ UNCHANGED <<rootDir, rootInv, rootDigest, verDirs, verInv, disk>>
          /\ UNCHANGED <<op, newObject, moveFileType, acked, crashes>>
          /\ \/ RecordUpload(p) /\ Goto(p, "metadata")
             \/ UNCHANGED mem /\ Goto(p, "rollback")
          /\ staged' \subseteq staged
      BY <1>9 DEF RemoveStaged
    <2>3. failures' \in Nat
      BY <1>9 DEF RemoveStaged, Fails, TypeOK
    <2>4. RequestTypes'
      BY <2>1, <2>2, GotoType, RecordUploadType DEF Opened, PCs
    <2>5. QED
      BY <2>2, <2>3, <2>4 DEF TypeOK, RequestTypes
  <1>10. ASSUME NEW p \in Procs, StreamContent(p) PROVE TypeInv'
    <2>1. op[p].upload \in Contents /\ op[p].file \in Names /\ pc[p] \in Opened
      BY <1>10, OperationFields DEF StreamContent, TypeOK, Names, Contents, Opened, PCs
    <2>2. /\ UNCHANGED <<rootDir, rootInv, rootDigest, verDirs, verInv, staged>>
          /\ UNCHANGED <<op, newObject, moveFileType, acked, crashes>>
          /\ \/ RecordUpload(p) /\ Goto(p, "metadata")
             \/ UNCHANGED mem /\ Goto(p, "rollback")
      BY <1>10 DEF StreamContent
    <2>3. failures' \in Nat
      BY <1>10 DEF StreamContent, Fails, TypeOK
    <2>4. disk' \in [Versions -> [Names -> Contents \cup {None, Torn}]]
      BY <1>10, <2>1, WriteFileType DEF StreamContent, TypeOK
    <2>5. RequestTypes'
      BY <2>1, <2>2, GotoType, RecordUploadType DEF Opened, PCs
    <2>6. QED
      BY <2>2, <2>3, <2>4, <2>5 DEF TypeOK, RequestTypes
  <1>11. ASSUME NEW p \in Procs, WriteMetadata(p) PROVE TypeInv'
    <2> DEFINE inv == AddContent(mem[p], MetaFile, Meta)
    <2>1. Meta \in Contents /\ MetaFile \in Names /\ pc[p] \in Opened
      BY <1>11 DEF WriteMetadata, Names, Contents, Opened, PCs
    <2>2. mem[p] \in Inventory /\ mem[p].head \in Versions
      BY <2>1 DEF TypeOK, Placed, HeadVersion
    <2>3. inv \in Inventory /\ inv.head = HeadVersion(p)
      BY <2>1, <2>2, AddContentType DEF HeadVersion
    <2> HIDE DEF inv
    <2>4. /\ UNCHANGED <<rootDir, rootInv, rootDigest, verDirs, verInv, staged>>
          /\ UNCHANGED <<op, newObject, moveFileType, acked, crashes>>
          /\ \/ mem' = [mem EXCEPT ![p] = inv] /\ Goto(p, "verInv")
             \/ UNCHANGED mem /\ Goto(p, "rollback")
      BY <1>11 DEF WriteMetadata, inv
    <2>5. failures' \in Nat
      BY <1>11 DEF WriteMetadata, Fails, TypeOK
    <2>6. disk' \in [Versions -> [Names -> Contents \cup {None, Torn}]]
      BY <1>11, <2>1, WriteFileType DEF WriteMetadata, TypeOK
    <2>7. RequestTypes'
      BY <2>1, <2>3, <2>4, GotoType, RecordType DEF Opened, PCs
    <2>8. QED
      BY <2>4, <2>5, <2>6, <2>7 DEF TypeOK, RequestTypes
  <1>12. ASSUME NEW p \in Procs, CopyVersion(p) PROVE TypeInv'
    <2>1. /\ pc[p] \in Opened /\ op[p].file \in Names /\ op[p].to \in Names
          /\ op[p].version \in {Latest} \cup Versions
      BY <1>12, OperationFields DEF CopyVersion, TypeOK, Names, Opened, PCs
    <2>2. mem[p] \in Inventory /\ mem[p].head \in Versions
      BY <2>1 DEF TypeOK, Placed, HeadVersion
    <2>3. ASSUME NEW s \in CopySource(p)
          PROVE  s.version \in Versions /\ s.hash \in Contents
      BY <2>1, <2>2, CopySourceType
    <2>4. /\ UNCHANGED <<rootDir, rootInv, rootDigest, verDirs, verInv, staged>>
          /\ UNCHANGED <<op, newObject, moveFileType, acked, crashes>>
      BY <1>12 DEF CopyVersion
    <2>5. failures' \in Nat
      BY <1>12 DEF CopyVersion, Fails, TypeOK
    <2>6. disk' \in [Versions -> [Names -> Contents \cup {None, Torn}]]
      <3>1. \A s \in CopySource(p) :
                disk[s.version][op[p].file] \in Contents \cup {None, Torn}
        BY <2>1, <2>3 DEF TypeOK
      <3>2. QED
        BY <1>12, <3>1, WriteFileType DEF CopyVersion, TypeOK
    <2>7. CASE \E s \in CopySource(p) : AddCopy(p, s) /\ Goto(p, "verInv")
      <3>1. PICK s \in CopySource(p) : AddCopy(p, s) /\ Goto(p, "verInv")
        BY <2>7
      <3> DEFINE added == AddContent(mem[p], op[p].to, s.hash)
                 inv == IF op[p].file = op[p].to THEN added
                        ELSE RemoveContent(added, op[p].file)
      <3>2. added \in Inventory /\ added.head = HeadVersion(p)
        BY <2>1, <2>2, <2>3, AddContentType DEF HeadVersion
      <3>3. mem' = [mem EXCEPT ![p] = inv]
        BY <3>1 DEF AddCopy
      <3> HIDE DEF added
      <3>4. inv \in Inventory /\ inv.head = HeadVersion(p)
        BY <2>1, <2>2, <3>2, RemoveContentType DEF HeadVersion
      <3> HIDE DEF inv
      <3>5. RequestTypes'
        BY <2>1, <2>4, <3>1, <3>3, <3>4, RecordType
      <3>6. QED
        BY <2>4, <2>5, <2>6, <3>5 DEF TypeOK, RequestTypes
    <2>8. CASE UNCHANGED mem /\ Goto(p, "rollback")
      <3>1. RequestTypes'
        BY <2>1, <2>4, <2>8, GotoType DEF Opened, PCs
      <3>2. QED
        BY <2>4, <2>5, <2>6, <3>1 DEF TypeOK, RequestTypes
    <2>9. QED
      BY <1>12, <2>7, <2>8 DEF CopyVersion
  <1>13. ASSUME NEW p \in Procs, DeleteFile(p) PROVE TypeInv'
    <2> DEFINE inv == RemoveContent(mem[p], op[p].file)
    <2>1. op[p].file \in Names /\ pc[p] \in Opened
      BY <1>13, OperationFields DEF DeleteFile, TypeOK, Names, Opened, PCs
    <2>2. mem[p] \in Inventory /\ mem[p].head \in Versions
      BY <2>1 DEF TypeOK, Placed, HeadVersion
    <2>3. inv \in Inventory /\ inv.head = HeadVersion(p)
      BY <2>1, <2>2, RemoveContentType DEF HeadVersion
    <2> HIDE DEF inv
    <2>4. /\ UNCHANGED <<rootDir, rootInv, rootDigest, verDirs, verInv, disk, staged,
                         op, newObject, moveFileType, acked, failures, crashes>>
          /\ \/ mem' = [mem EXCEPT ![p] = inv] /\ Goto(p, "verInv")
             \/ UNCHANGED mem /\ Goto(p, "rollback")
      BY <1>13 DEF DeleteFile, diskVars, inv
    <2>5. RequestTypes'
      BY <2>1, <2>3, <2>4, GotoType, RecordType DEF Opened, PCs
    <2>6. QED
      BY <2>4, <2>5 DEF TypeOK, RequestTypes
  <1>14. ASSUME NEW p \in Procs, WriteVersionInventory(p) PROVE TypeInv'
    <2>1. /\ pc[p] \in Opened
          /\ UNCHANGED <<rootDir, rootInv, rootDigest, verDirs, disk, staged>>
          /\ UNCHANGED <<op, newObject, mem, moveFileType, acked, crashes>>
          /\ Goto(p, "rootInv") \/ Goto(p, "rollback")
      BY <1>14 DEF WriteVersionInventory, Opened, PCs
    <2>2. failures' \in Nat
      BY <1>14 DEF WriteVersionInventory, Fails, TypeOK
    <2>3. verInv' \in [Versions -> Inventory \cup {NoInv, Torn}]
      BY <1>14 DEF WriteVersionInventory, TypeOK
    <2>4. RequestTypes'
      BY <2>1, GotoType DEF Opened, PCs
    <2>5. QED
      BY <2>1, <2>2, <2>3, <2>4 DEF TypeOK, RequestTypes
  <1>15. ASSUME NEW p \in Procs, TruncateRootInventory(p) PROVE TypeInv'
    <2>1. /\ pc[p] \in Opened /\ rootInv' = Torn /\ Goto(p, "rootInvEnd")
          /\ UNCHANGED <<rootDir, rootDigest, verDirs, verInv, disk, staged, op,
                         newObject, mem, moveFileType, acked, failures, crashes>>
      BY <1>15 DEF TruncateRootInventory, Opened, PCs
    <2>2. RequestTypes'
      BY <2>1, GotoType DEF Opened, PCs
    <2>3. QED
      BY <2>1, <2>2 DEF TypeOK, RequestTypes
  <1>16. ASSUME NEW p \in Procs, WriteRootInventory(p) PROVE TypeInv'
    <2>1. /\ pc[p] \in Opened
          /\ UNCHANGED <<rootDir, rootDigest, verDirs, verInv, disk, staged>>
          /\ UNCHANGED <<op, newObject, mem, moveFileType, acked, crashes>>
          /\ Goto(p, "rootDigest") \/ Goto(p, "rollback")
      BY <1>16 DEF WriteRootInventory, Opened, PCs
    <2>2. failures' \in Nat /\ rootInv' \in Inventory \cup {NoInv, Torn}
      BY <1>16 DEF WriteRootInventory, Fails, TypeOK
    <2>3. RequestTypes'
      BY <2>1, GotoType DEF Opened, PCs
    <2>4. QED
      BY <2>1, <2>2, <2>3 DEF TypeOK, RequestTypes
  <1>17. ASSUME NEW p \in Procs, WriteRootDigest(p) PROVE TypeInv'
    <2>1. /\ pc[p] \in Opened
          /\ UNCHANGED <<rootDir, rootInv, verDirs, verInv, disk, staged>>
          /\ UNCHANGED <<moveFileType, crashes>>
      BY <1>17 DEF WriteRootDigest, Opened, PCs
    <2>2. failures' \in Nat
      BY <1>17 DEF WriteRootDigest, Fails, TypeOK
    <2>3. rootDigest' \in Inventory \cup {NoInv}
      BY <1>17 DEF WriteRootDigest, TypeOK
    <2>4. acked' \subseteq [version : Versions, file : Files,
                            content : Contents \cup {None}]
      BY <1>17, <2>1, StoredType DEF WriteRootDigest, TypeOK
    <2>5. RequestTypes'
      BY <1>17, <2>1, ReturnType, GotoType DEF WriteRootDigest, Opened, PCs
    <2>6. QED
      BY <2>1, <2>2, <2>3, <2>4, <2>5 DEF TypeOK, RequestTypes
  <1>18. ASSUME NEW p \in Procs, RemoveStagingFolder(p) PROVE TypeInv'
    <2>1. /\ pc[p] \in Opened
          /\ UNCHANGED <<rootDir, rootInv, rootDigest, verDirs, verInv, disk, staged,
                         moveFileType, crashes>>
      BY <1>18 DEF RemoveStagingFolder, Opened, PCs, diskVars
    <2>2. failures' \in Nat
      BY <1>18 DEF RemoveStagingFolder, Fails, TypeOK
    <2>3. acked' \subseteq [version : Versions, file : Files,
                            content : Contents \cup {None}]
      BY <1>18, <2>1, StoredType DEF RemoveStagingFolder, TypeOK
    <2>4. RequestTypes'
      BY <1>18, ReturnType DEF RemoveStagingFolder
    <2>5. QED
      BY <2>1, <2>2, <2>3, <2>4 DEF TypeOK, RequestTypes
  <1>19. ASSUME NEW p \in Procs, RollbackVersion(p) PROVE TypeInv'
    <2>1. /\ UNCHANGED <<rootDir, rootInv, rootDigest, staged>>
          /\ UNCHANGED <<moveFileType, acked, crashes>>
          /\ verDirs' \subseteq verDirs
      BY <1>19 DEF RollbackVersion
    <2>2. failures' \in Nat
      BY <1>19 DEF RollbackVersion, Fails, TypeOK
    <2>3. verInv' \in [Versions -> Inventory \cup {NoInv, Torn}]
      BY <1>19 DEF RollbackVersion, TypeOK
    <2>4. disk' \in [Versions -> [Names -> Contents \cup {None, Torn}]]
      BY <1>19, NoFilesType DEF RollbackVersion, TypeOK
    <2>5. RequestTypes'
      BY <1>19, ReturnType DEF RollbackVersion
    <2>6. QED
      BY <2>1, <2>2, <2>3, <2>4, <2>5 DEF TypeOK, RequestTypes
  <1>20. CASE Crash
    <2>1. /\ pc' = [p \in Procs |-> "idle"] /\ op' = [p \in Procs |-> NoOp]
          /\ newObject' = [p \in Procs |-> FALSE]
          /\ mem' = [p \in Procs |-> EmptyInv]
          /\ moveFileType' = "unknown" /\ crashes' = crashes + 1
          /\ UNCHANGED <<rootDir, rootInv, rootDigest, verDirs, verInv, disk, staged,
                         acked, failures>>
      BY <1>20 DEF Crash, diskVars
    <2>2. RequestTypes'
      BY <2>1, EmptyInvType DEF RequestTypes, PCs, Placed, Opened
    <2>3. QED
      BY <2>1, <2>2 DEF TypeOK, RequestTypes
  <1>21. CASE UNCHANGED vars
    BY <1>21 DEF vars, diskVars, procVars, TypeOK, Placed, HeadVersion
  <1>22. QED
    BY <1>1, <1>2, <1>3, <1>4, <1>5, <1>6, <1>7, <1>8, <1>9, <1>10, <1>11, <1>12,
       <1>13, <1>14, <1>15, <1>16, <1>17, <1>18, <1>19, <1>20, <1>21
    DEF Next, Step

(* TypeOK: whatever requests interleave, fail or are cut off by a restart. *)
THEOREM TypeCorrect == Spec => []TypeOK
  <1>1. TypeInv => TypeOK
    BY DEF TypeInv
  <1>2. QED
    BY InitTypeInv, TypeInvStep, <1>1, PTL DEF Spec
-----------------------------------------------------------------------------
(* Safety of one request at a time, whose failures leave the root inventory *)
(* and its digest alone.                                                   *)

Serial ==
    /\ \E p : Procs = {p}
    /\ FailSteps \cap {"rootInv", "rootDigest", "tornCrash"} = {}

(* The manifest entries of an inventory, those of versions up to `last`,   *)
(* name files that hold, in the folders d, the bits with that hash.        *)
ManifestHeld(d, inv, last) ==
    \A v \in Versions, f \in Names :
        inv.manifest[v][f] # None => v <= last /\ d[v][f] = inv.manifest[v][f]

(* What was reported as stored is listed, in a version up to `last`, and   *)
(* held by the folder of that version.                                     *)
AckedHeld(d, done, inv, last) ==
    \A a \in done : /\ a.version <= last
                    /\ a.content \in Contents
                    /\ inv.state[a.version][a.file] = a.content
                    /\ d[a.version][a.file] = a.content

RootKept ==
    /\ Complete(rootInv) => /\ rootInv.head \in Versions
                            /\ ManifestHeld(disk, rootInv, rootInv.head)
                            /\ AckedHeld(disk, acked, rootInv, rootInv.head)
                            /\ verInv[rootInv.head] = rootInv
    /\ rootInv = NoInv => acked = {}
    /\ ~rootDir => rootInv = NoInv
    /\ rootInv = Torn => \E p \in Procs : pc[p] = "rootInvEnd"

Recorded == {"metadata", "verInv", "rootInv", "rootInvEnd", "rootDigest", "cleanup"}
Committing == {"rootDigest", "cleanup"}

(* What holds where a request is: at the start, ...                        *)
NewKept(p) ==
    /\ pc[p] \in {"init", "load"} /\ newObject[p] => rootInv = NoInv
    /\ pc[p] # "idle" /\ (pc[p] = "init" => ~newObject[p]) => rootDir

SourceKept(p) ==
    pc[p] \in {"init", "load", "addVersion", "content"} /\ op[p].version # Latest =>
        \E a \in acked : a.version = op[p].version /\ a.file = op[p].file

LoadedKept(p) ==
    pc[p] = "addVersion" =>
        /\ ManifestHeld(disk, mem[p], HeadVersion(p))
        /\ AckedHeld(disk, acked, mem[p], HeadVersion(p))
        /\ Complete(rootInv) => mem[p].head = rootInv.head

(* ... once a version is open, ...                                         *)
OpenedKept(p) ==
    /\ pc[p] \in Opened => AckedHeld(disk, acked, mem[p], HeadVersion(p) - 1)
    /\ pc[p] \in Opened \ Committing /\ Complete(rootInv) =>
           rootInv.head = HeadVersion(p) - 1
    /\ pc[p] \in {"content", "copy", "removeStaged"} =>
           ManifestHeld(disk, mem[p], HeadVersion(p) - 1)
    /\ pc[p] = "removeStaged" => disk[HeadVersion(p)][op[p].file] = op[p].upload

(* ... and once its content is recorded in the inventory in memory.        *)
RecordedKept(p) ==
    /\ pc[p] \in Recorded => ManifestHeld(disk, mem[p], HeadVersion(p))
    /\ pc[p] \in Recorded /\ op[p].kind \in Storing =>
           /\ mem[p].state[HeadVersion(p)][DestFile(op[p])] \in Contents
           /\ disk[HeadVersion(p)][DestFile(op[p])] = mem[p].state[HeadVersion(p)][DestFile(op[p])]
    /\ pc[p] \in {"rootInv", "rootInvEnd"} => verInv[HeadVersion(p)] = mem[p]
    /\ pc[p] \in Committing => rootInv = mem[p]

RequestKept(p) == /\ NewKept(p) /\ SourceKept(p) /\ LoadedKept(p)
                  /\ OpenedKept(p) /\ RecordedKept(p)

SafetyInv == TypeInv /\ RootKept /\ \A p \in Procs : RequestKept(p)

(* A manifest stays held when the folders it names are left alone.          *)
LEMMA ManifestFrame ==
    ASSUME NEW d, NEW e, NEW inv, NEW last, ManifestHeld(d, inv, last),
           \A v \in Versions : v <= last => e[v] = d[v]
    PROVE  ManifestHeld(e, inv, last)
  BY DEF ManifestHeld

(* So does what was reported as stored.                                     *)
LEMMA AckedFrame ==
    ASSUME NEW d, NEW e, NEW done, \A a \in done : a.version \in Versions,
           NEW inv, NEW last, AckedHeld(d, done, inv, last),
           \A v \in Versions : v <= last => e[v] = d[v]
    PROVE  AckedHeld(e, done, inv, last)
  BY DEF AckedHeld

(* A request that returned is bound to nothing.                            *)
LEMMA ReturnKept ==
    ASSUME TypeInv, NEW p \in Procs, Return(p)
    PROVE  RequestKept(p)' /\ pc'[p] = "idle"
  <1>1. pc'[p] = "idle"
    BY DEF Return, Goto, TypeInv, TypeOK
  <1>2. QED
    BY <1>1 DEF RequestKept, NewKept, SourceKept, LoadedKept, OpenedKept,
                RecordedKept, Opened, Recorded, Committing

(* Before the root inventory is rewritten, a request changes nothing but   *)
(* its own version folder, which the root inventory does not know.         *)
LEMMA RootFrame ==
    ASSUME SafetyInv, NEW p, Procs = {p}, pc[p] # "rootInvEnd",
           UNCHANGED <<rootInv, acked>>, rootInv # NoInv => rootDir',
           \A v \in Versions :
               Complete(rootInv) /\ v <= rootInv.head => disk'[v] = disk[v],
           Complete(rootInv) => verInv'[rootInv.head] = verInv[rootInv.head]
    PROVE  RootKept'
  <1>1. rootInv # Torn
    BY DEF SafetyInv, RootKept
  <1>2. CASE Complete(rootInv)
    <2>1. /\ ManifestHeld(disk', rootInv, rootInv.head)
      BY <1>2, ManifestFrame DEF SafetyInv, RootKept
    <2>2. AckedHeld(disk', acked, rootInv, rootInv.head)
      BY <1>2, AckedFrame DEF SafetyInv, RootKept, TypeInv, TypeOK
    <2>3. QED
      BY <1>1, <1>2, <2>1, <2>2 DEF SafetyInv, RootKept, Complete
  <1>3. CASE rootInv = NoInv
    BY <1>1, <1>3 DEF SafetyInv, RootKept, Complete
  <1>4. QED
    BY <1>1, <1>2, <1>3 DEF Complete

(* The root folder stays while a request is past its first look at it.     *)
LEMMA NewFrame ==
    ASSUME SafetyInv, NEW p \in Procs, pc[p] \notin {"idle", "init"},
           pc'[p] \notin {"init", "load"}, UNCHANGED rootDir
    PROVE  NewKept(p)'
  <1>1. rootDir
    BY DEF SafetyInv, RequestKept, NewKept
  <1>2. QED
    BY <1>1 DEF NewKept

(* Writing into the open version folder leaves the older folders alone.    *)
LEMMA WriteFileFrame ==
    ASSUME TypeInv, NEW p \in Procs, HeadVersion(p) \in Versions, NEW f \in Names,
           NEW bits, WriteFile(p, f, bits)
    PROVE  /\ \A v \in Versions : v <= HeadVersion(p) - 1 => disk'[v] = disk[v]
           /\ disk'[HeadVersion(p)][f] = bits
           /\ \A g \in Names : g # f => disk'[HeadVersion(p)][g] = disk[HeadVersion(p)][g]
  BY DEF TypeInv, TypeOK, WriteFile, Versions

(* The same for the facts about the version that is being written.         *)
LEMMA OpenFrame ==
    ASSUME SafetyInv, NEW p \in Procs, pc[p] \in Opened,
           \A v \in Versions : v <= HeadVersion(p) - 1 => disk'[v] = disk[v]
    PROVE  AckedHeld(disk', acked, mem[p], HeadVersion(p) - 1)
  BY AckedFrame
  DEF SafetyInv, RequestKept, OpenedKept, TypeInv, TypeOK

(* Going to a rollback, whatever was written into the open version folder. *)
LEMMA ToRollback ==
    ASSUME SafetyInv, NEW p, Procs = {p}, pc[p] \in Opened \ Committing,
           pc[p] # "rootInvEnd", Goto(p, "rollback"),
           UNCHANGED <<rootDir, rootInv, acked, op, newObject, mem>>,
           \A v \in Versions : v <= HeadVersion(p) - 1 => disk'[v] = disk[v],
           \A v \in Versions : v <= HeadVersion(p) - 1 => verInv'[v] = verInv[v]
    PROVE  RootKept' /\ RequestKept(p)'
  <1>1. Complete(rootInv) => rootInv.head = HeadVersion(p) - 1 /\ rootInv.head \in Versions
    BY DEF SafetyInv, RootKept, RequestKept, OpenedKept
  <1>2. HeadVersion(p) \in Versions
    BY DEF SafetyInv, TypeInv, Placed
  <1>3. RootKept'
    BY <1>1, <1>2, RootFrame DEF SafetyInv, RootKept, Versions
  <1>4. pc'[p] = "rollback"
    BY DEF Goto, SafetyInv, TypeInv, TypeOK
  <1>5. AckedHeld(disk', acked, mem[p], HeadVersion(p) - 1)
    BY OpenFrame
  <1>6. NewKept(p)'
    BY <1>4, NewFrame DEF Opened
  <1>7. QED
    BY <1>1, <1>3, <1>4, <1>5, <1>6
    DEF RequestKept, SourceKept, LoadedKept, OpenedKept, RecordedKept,
        Opened, PCs, Recorded, Committing, HeadVersion

(* Recording in memory the content that was written under a name.          *)
LEMMA ToMetadata ==
    ASSUME SafetyInv, NEW p, Procs = {p},
           pc[p] \in {"content", "removeStaged"}, op[p].kind \in {"promote", "stream"},
           RecordUpload(p), Goto(p, "metadata"),
           UNCHANGED <<rootDir, rootInv, verInv, acked, op, newObject>>,
           \A v \in Versions : v <= HeadVersion(p) - 1 => disk'[v] = disk[v],
           disk'[HeadVersion(p)][op[p].file] = op[p].upload
    PROVE  RootKept' /\ RequestKept(p)'
  <1> DEFINE f == op[p].file
             u == op[p].upload
             inv == AddContent(mem[p], f, u)
  <1>1. HeadVersion(p) \in Versions /\ pc[p] \in Opened /\ mem[p] \in Inventory
    BY DEF SafetyInv, TypeInv, TypeOK, Placed, Opened, PCs
  <1>2. f \in Names /\ f \in Files /\ u \in Contents
    BY OperationFields DEF SafetyInv, TypeInv, TypeOK, Names, Contents
  <1>3. Complete(rootInv) => rootInv.head = HeadVersion(p) - 1 /\ rootInv.head \in Versions
    BY <1>1 DEF SafetyInv, RootKept, RequestKept, OpenedKept, Committing
  <1>4. RootKept'
    BY <1>1, <1>3, RootFrame DEF SafetyInv, RootKept, Versions
  <1>5. pc'[p] = "metadata" /\ mem'[p] = inv
    BY DEF Goto, RecordUpload, SafetyInv, TypeInv, TypeOK
  <1>6. AckedHeld(disk', acked, mem[p], HeadVersion(p) - 1)
    BY <1>1, OpenFrame
  <1>7. ManifestHeld(disk', mem[p], HeadVersion(p) - 1)
    BY ManifestFrame DEF SafetyInv, RequestKept, OpenedKept
  <1>8. /\ inv.head = HeadVersion(p)
        /\ \A v \in Versions, g \in Names :
              /\ inv.manifest[v][g] = IF v = HeadVersion(p) /\ g = f THEN u ELSE mem[p].manifest[v][g]
              /\ inv.state[v][g] = IF v = HeadVersion(p) /\ g = f THEN u ELSE mem[p].state[v][g]
    BY <1>1, <1>2, AddContentType DEF HeadVersion
  <1> HIDE DEF inv, f, u
  <1>9. ManifestHeld(disk', inv, HeadVersion(p))
    BY <1>1, <1>2, <1>7, <1>8 DEF ManifestHeld, Versions, f, u
  <1>10. AckedHeld(disk', acked, inv, HeadVersion(p) - 1)
    BY <1>1, <1>6, <1>8 DEF AckedHeld, SafetyInv, TypeInv, TypeOK, Versions, Names
  <1>11. /\ DestFile(op[p]) = f
         /\ inv.state[HeadVersion(p)][f] = u
    BY <1>1, <1>2, <1>8 DEF DestFile, f
  <1>12. HeadVersion(p)' = HeadVersion(p)
    BY <1>5, <1>8 DEF HeadVersion
  <1>13. OpenedKept(p)'
    BY <1>3, <1>5, <1>8, <1>10, <1>12 DEF OpenedKept, HeadVersion
  <1>14. RecordedKept(p)'
    BY <1>2, <1>5, <1>8, <1>9, <1>11, <1>12 DEF RecordedKept, Committing, f, u
  <1>15. NewKept(p)'
    BY <1>5, NewFrame
  <1>16. QED
    BY <1>4, <1>5, <1>13, <1>14, <1>15 DEF RequestKept, SourceKept, LoadedKept
(* Up to OpenVersion a request only reads what is on disk.                 *)
LEMMA StartSafe ==
    ASSUME SafetyInv, NEW p, Procs = {p}, NEW o \in Operations, Start(p, o)
    PROVE  RootKept' /\ RequestKept(p)'
  <1>1. /\ pc'[p] = "init" /\ op'[p] = o /\ newObject'[p] = ~rootDir
        /\ UNCHANGED <<rootDir, rootInv, verInv, disk, acked, mem>>
    BY DEF Start, Goto, diskVars, SafetyInv, TypeInv, TypeOK
  <1>2. pc[p] # "rootInvEnd"
    BY DEF Start
  <1>3. RootKept'
    BY <1>1, <1>2, RootFrame DEF SafetyInv, RootKept
  <1>4. NewKept(p)'
    BY <1>1 DEF NewKept, SafetyInv, RootKept
  <1>5. SourceKept(p)'
    BY <1>1 DEF SourceKept, Start
  <1>6. LoadedKept(p)' /\ OpenedKept(p)' /\ RecordedKept(p)'
    BY <1>1 DEF LoadedKept, OpenedKept, RecordedKept, Opened, Recorded, Committing
  <1>7. QED
    BY <1>3, <1>4, <1>5, <1>6 DEF RequestKept

(* Creating the root folder, or refusing to.                                *)
LEMMA InitializeSafe ==
    ASSUME SafetyInv, NEW p, Procs = {p}, InitializeStructure(p)
    PROVE  RootKept' /\ RequestKept(p)'
  <1>1. UNCHANGED <<rootInv, verInv, disk, acked>> /\ pc[p] = "init"
    BY DEF InitializeStructure
  <1>2. rootDir' = TRUE \/ UNCHANGED rootDir
    BY Zenon DEF InitializeStructure
  <1>3. RootKept'
    BY <1>1, <1>2, RootFrame DEF SafetyInv, RootKept
  <1>4. CASE Return(p)
    BY <1>3, <1>4, ReturnKept DEF SafetyInv
  <1>5. CASE Goto(p, "load") /\ UNCHANGED <<op, newObject, mem>>
    <2>1. pc'[p] = "load"
      BY <1>5 DEF Goto, SafetyInv, TypeInv, TypeOK
    <2>2. rootDir'
      <3>1. CASE newObject[p]
        <4>1. ~Return(p)
          BY <2>1, ReturnKept DEF SafetyInv
        <4>2. rootDir' = TRUE
          BY <3>1, <4>1, Zenon DEF InitializeStructure
        <4>3. QED
          BY <4>2
      <3>2. CASE ~newObject[p]
        <4>1. rootDir
          BY <1>1, <3>2 DEF SafetyInv, RequestKept, NewKept
        <4>2. QED
          BY <1>2, <4>1
      <3>3. QED
        BY <3>1, <3>2
    <2>3. NewKept(p)'
      BY <1>1, <1>5, <2>1, <2>2 DEF NewKept, SafetyInv, RequestKept
    <2>4. SourceKept(p)'
      BY <1>1, <1>5, <2>1 DEF SourceKept, SafetyInv, RequestKept
    <2>5. LoadedKept(p)' /\ OpenedKept(p)' /\ RecordedKept(p)'
      BY <2>1 DEF LoadedKept, OpenedKept, RecordedKept, Opened, Recorded, Committing
    <2>6. QED
      BY <1>3, <2>3, <2>4, <2>5 DEF RequestKept
  <1>6. QED
    BY <1>4, <1>5, Zenon DEF InitializeStructure

(* Reading the root inventory: memory and disk agree from here on.          *)
LEMMA LoadSafe ==
    ASSUME SafetyInv, NEW p, Procs = {p}, LoadInventory(p)
    PROVE  RootKept' /\ RequestKept(p)'
  <1>1. /\ UNCHANGED <<rootDir, rootInv, verInv, disk, acked>>
        /\ pc[p] = "load"
    BY DEF LoadInventory, diskVars
  <1>2. RootKept'
    BY <1>1, RootFrame DEF SafetyInv, RootKept
  <1>3. CASE Return(p)
    BY <1>2, <1>3, ReturnKept DEF SafetyInv
  <1>4. ASSUME NEW inv \in Inventory, mem' = [mem EXCEPT ![p] = inv],
               Goto(p, "addVersion"), UNCHANGED <<op, newObject>>,
               ManifestHeld(disk, inv, inv.head), AckedHeld(disk, acked, inv, inv.head),
               Complete(rootInv) => inv.head = rootInv.head
        PROVE  RootKept' /\ RequestKept(p)'
    <2>1. pc'[p] = "addVersion" /\ mem'[p] = inv
      BY <1>4 DEF Goto, SafetyInv, TypeInv, TypeOK
    <2>2. NewKept(p)' /\ SourceKept(p)'
      BY <1>1, <1>4, <2>1 DEF NewKept, SourceKept, SafetyInv, RequestKept
    <2>3. LoadedKept(p)'
      BY <1>1, <1>4, <2>1 DEF LoadedKept, HeadVersion
    <2>4. OpenedKept(p)' /\ RecordedKept(p)'
      BY <2>1 DEF OpenedKept, RecordedKept, Opened, Recorded, Committing
    <2>5. QED
      BY <1>2, <2>2, <2>3, <2>4 DEF RequestKept
  <1>5. CASE newObject[p]
    <2>1. rootInv = NoInv /\ acked = {}
      BY <1>1, <1>5 DEF SafetyInv, RequestKept, NewKept, RootKept
    <2>2. /\ ManifestHeld(disk, EmptyInv, EmptyInv.head)
          /\ AckedHeld(disk, acked, EmptyInv, EmptyInv.head)
          /\ ~Complete(rootInv)
      BY <2>1 DEF ManifestHeld, AckedHeld, EmptyInv, NoFiles, Complete
    <2>3. /\ mem' = [mem EXCEPT ![p] = EmptyInv]
          /\ Goto(p, "addVersion") /\ UNCHANGED <<op, newObject>>
      BY <1>5, Zenon DEF LoadInventory
    <2>4. QED
      BY <1>4, <2>2, <2>3, EmptyInvType
  <1>6. CASE ~newObject[p] /\ rootInv \notin {NoInv, Torn}
    <2>1. /\ mem' = [mem EXCEPT ![p] = rootInv]
          /\ Goto(p, "addVersion") /\ UNCHANGED <<op, newObject>>
      BY <1>6, Zenon DEF LoadInventory
    <2>2. /\ rootInv \in Inventory
          /\ ManifestHeld(disk, rootInv, rootInv.head)
          /\ AckedHeld(disk, acked, rootInv, rootInv.head)
      BY <1>6 DEF SafetyInv, RootKept, Complete, TypeInv, TypeOK
    <2>3. QED
      BY <1>4, <2>1, <2>2
  <1>7. CASE ~newObject[p] /\ rootInv \in {NoInv, Torn}
    BY <1>3, <1>7, Zenon DEF LoadInventory
  <1>8. QED
    BY <1>5, <1>6, <1>7, Zenon

(* Opening a version above the head of the root inventory.                  *)
LEMMA OpenVersionSafe ==
    ASSUME SafetyInv, NEW p, Procs = {p}, OpenVersion(p)
    PROVE  RootKept' /\ RequestKept(p)'
  <1>1. /\ UNCHANGED <<rootDir, rootInv, verInv, disk, acked>>
        /\ pc[p] = "addVersion" /\ HeadVersion(p) < MaxVersion
    BY DEF OpenVersion
  <1>2. RootKept'
    BY <1>1, RootFrame DEF SafetyInv, RootKept
  <1>3. CASE Return(p)
    BY <1>2, <1>3, ReturnKept DEF SafetyInv
  <1>4. CASE /\ mem' = [mem EXCEPT ![p] = AddVersion(mem[p])]
             /\ Goto(p, IF op[p].kind = "updateMetadata" THEN "metadata" ELSE "content")
             /\ UNCHANGED <<op, newObject>>
    <2> DEFINE inv == AddVersion(mem[p])
               l == IF op[p].kind = "updateMetadata" THEN "metadata" ELSE "content"
    <2>1. pc'[p] = l /\ l \in {"metadata", "content"} /\ mem'[p] = inv
      BY <1>4 DEF Goto, SafetyInv, TypeInv, TypeOK
    <2>2. /\ mem[p] \in Inventory /\ HeadVersion(p) \in Nat
          /\ inv.head = HeadVersion(p) + 1 /\ inv.manifest = mem[p].manifest
          /\ \A v \in Versions : v <= HeadVersion(p) => inv.state[v] = mem[p].state[v]
      BY <1>1, AddVersionType DEF SafetyInv, TypeInv, TypeOK, HeadVersion, Inventory
    <2> HIDE DEF inv
    <2>3. HeadVersion(p)' - 1 = HeadVersion(p)
      BY <2>1, <2>2 DEF HeadVersion
    <2>4. AckedHeld(disk, acked, inv, HeadVersion(p)) /\ ManifestHeld(disk, inv, HeadVersion(p))
      BY <1>1, <2>2
      DEF SafetyInv, RequestKept, LoadedKept, TypeInv, TypeOK, AckedHeld, ManifestHeld
    <2>5. Complete(rootInv) => rootInv.head = HeadVersion(p)
      BY <1>1 DEF SafetyInv, RequestKept, LoadedKept, HeadVersion
    <2>6. SourceKept(p)' /\ NewKept(p)' /\ LoadedKept(p)'
      BY <1>1, <1>4, <2>1
      DEF SourceKept, NewKept, LoadedKept, SafetyInv, RequestKept
    <2>7. OpenedKept(p)'
      BY <1>1, <2>1, <2>3, <2>4, <2>5 DEF OpenedKept, Opened, Committing
    <2>8. ManifestHeld(disk, inv, HeadVersion(p) + 1)
      BY <2>2, <2>4 DEF ManifestHeld, Versions
    <2>9. RecordedKept(p)'
      BY <1>1, <1>4, <2>1, <2>2, <2>8 DEF RecordedKept, Recorded, Committing, Storing, HeadVersion
    <2>10. QED
      BY <1>2, <2>6, <2>7, <2>9 DEF RequestKept
  <1>5. QED
    BY <1>3, <1>4 DEF OpenVersion
(* The steps that store the bits of an upload.                             *)
LEMMA MoveStagedSafe ==
    ASSUME SafetyInv, NEW p, Procs = {p}, MoveStaged(p)
    PROVE  RootKept' /\ RequestKept(p)'
  <1>1. /\ pc[p] = "content" /\ op[p].kind = "promote" /\ RecordUpload(p)
        /\ Goto(p, "metadata") /\ WriteFile(p, op[p].file, op[p].upload)
        /\ UNCHANGED <<rootDir, rootInv, verInv, acked, op, newObject>>
    BY DEF MoveStaged
  <1>2. HeadVersion(p) \in Versions /\ op[p].file \in Names
    BY <1>1, OperationFields DEF SafetyInv, TypeInv, TypeOK, Placed, Opened, PCs, Names
  <1>3. QED
    BY <1>1, <1>2, WriteFileFrame, ToMetadata DEF SafetyInv

(* Falling back from rename to copy-then-delete.                            *)
LEMMA RenameFailsSafe ==
    ASSUME SafetyInv, NEW p, Procs = {p}, RenameFails(p)
    PROVE  RootKept' /\ RequestKept(p)'
  <1>1. /\ pc[p] = "content" /\ Goto(p, "copy")
        /\ UNCHANGED <<rootDir, rootInv, verInv, disk, acked, op, newObject, mem>>
    BY DEF RenameFails, diskVars
  <1>2. RootKept'
    BY <1>1, RootFrame DEF SafetyInv, RootKept
  <1>3. pc'[p] = "copy"
    BY <1>1 DEF Goto, SafetyInv, TypeInv, TypeOK
  <1>4. QED
    BY <1>1, <1>2, <1>3
    DEF SafetyInv, RequestKept, NewKept, SourceKept, LoadedKept, OpenedKept,
        RecordedKept, Opened, PCs, Recorded, Committing, HeadVersion

(* A missing staged file leads to the rollback.                             *)
LEMMA HashFailsSafe ==
    ASSUME SafetyInv, NEW p, Procs = {p}, HashFails(p)
    PROVE  RootKept' /\ RequestKept(p)'
  <1>1. /\ pc[p] = "content" /\ Goto(p, "rollback")
        /\ UNCHANGED <<rootDir, rootInv, verInv, disk, acked, op, newObject, mem>>
    BY DEF HashFails, diskVars
  <1>2. QED
    BY <1>1, ToRollback DEF Opened, PCs, Committing

(* Copying the staged file into the open version.                           *)
LEMMA CopyStagedSafe ==
    ASSUME SafetyInv, NEW p, Procs = {p}, CopyStaged(p)
    PROVE  RootKept' /\ RequestKept(p)'
  <1>1. /\ pc[p] \in {"content", "copy"} /\ op[p].kind = "promote"
        /\ UNCHANGED <<rootDir, rootInv, verInv, acked, op, newObject, mem>>
    BY DEF CopyStaged, SafetyInv, TypeInv, Placed
  <1>2. /\ HeadVersion(p) \in Versions /\ op[p].file \in Names
        /\ pc[p] \in Opened \ Committing /\ pc[p] # "rootInvEnd"
    BY <1>1, OperationFields
    DEF SafetyInv, TypeInv, TypeOK, Placed, Opened, PCs, Names, Committing
  <1>3. \A v \in Versions : v <= HeadVersion(p) - 1 => disk'[v] = disk[v]
    BY <1>2, WriteFileFrame DEF CopyStaged, SafetyInv
  <1>4. CASE Goto(p, "rollback")
    BY <1>1, <1>2, <1>3, <1>4, ToRollback
  <1>5. CASE WriteFile(p, op[p].file, op[p].upload) /\ Goto(p, "removeStaged")
    <2>1. pc'[p] = "removeStaged"
      BY <1>5 DEF Goto, SafetyInv, TypeInv, TypeOK
    <2>2. disk'[HeadVersion(p)][op[p].file] = op[p].upload
      BY <1>2, <1>5, WriteFileFrame DEF SafetyInv
    <2>3. /\ AckedHeld(disk', acked, mem[p], HeadVersion(p) - 1)
          /\ Complete(rootInv) => rootInv.head = HeadVersion(p) - 1 /\ rootInv.head \in Versions
      BY <1>2, <1>3, OpenFrame DEF SafetyInv, RootKept, RequestKept, OpenedKept
    <2>4. ManifestHeld(disk', mem[p], HeadVersion(p) - 1)
      BY <1>1, <1>3, ManifestFrame DEF SafetyInv, RequestKept, OpenedKept
    <2>5. RootKept'
      BY <1>1, <1>2, <1>3, <2>3, RootFrame DEF SafetyInv, RootKept
    <2>6. NewKept(p)'
      BY <1>1, <2>1, NewFrame
    <2>7. QED
      BY <1>1, <2>1, <2>2, <2>3, <2>4, <2>5, <2>6
      DEF RequestKept, SourceKept, LoadedKept, OpenedKept, RecordedKept,
          Recorded, Committing, HeadVersion
  <1>6. QED
    BY <1>4, <1>5 DEF CopyStaged

(* Removing the copied file from the staging area.                          *)
LEMMA RemoveStagedSafe ==
    ASSUME SafetyInv, NEW p, Procs = {p}, RemoveStaged(p)
    PROVE  RootKept' /\ RequestKept(p)'
  <1>1. /\ pc[p] = "removeStaged" /\ op[p].kind = "promote"
        /\ UNCHANGED <<rootDir, rootInv, verInv, disk, acked, op, newObject>>
        /\ disk[HeadVersion(p)][op[p].file] = op[p].upload
    BY DEF RemoveStaged, SafetyInv, TypeInv, Placed, RequestKept, OpenedKept
  <1>2. CASE UNCHANGED mem /\ Goto(p, "rollback")
    BY <1>1, <1>2, ToRollback DEF Opened, PCs, Committing
  <1>3. CASE RecordUpload(p) /\ Goto(p, "metadata")
    BY <1>1, <1>3, ToMetadata
  <1>4. QED
    BY <1>2, <1>3 DEF RemoveStaged

(* Streaming an entry of a zip file into the open version.                  *)
LEMMA StreamContentSafe ==
    ASSUME SafetyInv, NEW p, Procs = {p}, StreamContent(p)
    PROVE  RootKept' /\ RequestKept(p)'
  <1>1. /\ pc[p] = "content" /\ op[p].kind = "stream"
        /\ UNCHANGED <<rootDir, rootInv, verInv, acked, op, newObject>>
    BY DEF StreamContent
  <1>2. HeadVersion(p) \in Versions /\ op[p].file \in Names
    BY <1>1, OperationFields DEF SafetyInv, TypeInv, TypeOK, Placed, Opened, PCs, Names
  <1>3. CASE WriteFile(p, op[p].file, op[p].upload) /\ RecordUpload(p) /\ Goto(p, "metadata")
    BY <1>1, <1>2, <1>3, WriteFileFrame, ToMetadata DEF SafetyInv
  <1>4. CASE UNCHANGED mem /\ Goto(p, "rollback")
    <2>1. \A v \in Versions : v <= HeadVersion(p) - 1 => disk'[v] = disk[v]
      BY <1>2, WriteFileFrame DEF StreamContent, SafetyInv
    <2>2. QED
      BY <1>1, <1>4, <2>1, ToRollback DEF Opened, PCs, Committing
  <1>5. QED
    BY <1>3, <1>4 DEF StreamContent

(* Recording anything else ends the writing of content.                    *)
LEMMA ToVersionInventory ==
    ASSUME SafetyInv, NEW p, Procs = {p}, pc[p] \in {"content", "metadata"},
           NEW inv, inv.head = HeadVersion(p), mem' = [mem EXCEPT ![p] = inv],
           Goto(p, "verInv"),
           UNCHANGED <<rootDir, rootInv, verInv, acked, op, newObject>>,
           \A v \in Versions : v <= HeadVersion(p) - 1 => disk'[v] = disk[v],
           \A v \in Versions : v <= HeadVersion(p) - 1 => inv.state[v] = mem[p].state[v],
           ManifestHeld(disk', inv, HeadVersion(p)),
           op[p].kind \in Storing =>
               /\ inv.state[HeadVersion(p)][DestFile(op[p])] \in Contents
               /\ disk'[HeadVersion(p)][DestFile(op[p])] = inv.state[HeadVersion(p)][DestFile(op[p])]
    PROVE  RootKept' /\ RequestKept(p)'
  <1>1. HeadVersion(p) \in Versions /\ pc[p] \in Opened
    BY DEF SafetyInv, TypeInv, Placed, Opened, PCs
  <1>2. Complete(rootInv) => rootInv.head = HeadVersion(p) - 1 /\ rootInv.head \in Versions
    BY <1>1 DEF SafetyInv, RootKept, RequestKept, OpenedKept, Committing
  <1>3. RootKept'
    BY <1>1, <1>2, RootFrame DEF SafetyInv, RootKept
  <1>4. pc'[p] = "verInv" /\ mem'[p] = inv
    BY DEF Goto, SafetyInv, TypeInv, TypeOK
  <1>5. HeadVersion(p)' = HeadVersion(p)
    BY <1>4 DEF HeadVersion
  <1>6. AckedHeld(disk', acked, inv, HeadVersion(p) - 1)
    <2>1. AckedHeld(disk', acked, mem[p], HeadVersion(p) - 1)
      BY <1>1, OpenFrame
    <2>2. QED
      BY <2>1 DEF AckedHeld, SafetyInv, TypeInv, TypeOK
  <1>7. OpenedKept(p)'
    BY <1>2, <1>4, <1>5, <1>6 DEF OpenedKept
  <1>8. RecordedKept(p)'
    BY <1>4, <1>5 DEF RecordedKept, Committing
  <1>9. NewKept(p)'
    BY <1>4, NewFrame
  <1>10. QED
    BY <1>3, <1>4, <1>7, <1>8, <1>9 DEF RequestKept, SourceKept, LoadedKept

(* Writing the metadata file does not touch the content just stored.        *)
LEMMA WriteMetadataSafe ==
    ASSUME SafetyInv, NEW p, Procs = {p}, WriteMetadata(p)
    PROVE  RootKept' /\ RequestKept(p)'
  <1> DEFINE inv == AddContent(mem[p], MetaFile, Meta)
  <1>1. /\ pc[p] = "metadata"
        /\ UNCHANGED <<rootDir, rootInv, verInv, acked, op, newObject>>
    BY DEF WriteMetadata
  <1>2. /\ HeadVersion(p) \in Versions /\ mem[p] \in Inventory /\ pc[p] \in Opened \ Committing
        /\ MetaFile \in Names /\ Meta \in Contents
    BY <1>1 DEF SafetyInv, TypeInv, TypeOK, Placed, Opened, PCs, Names, Contents, Committing
  <1>3. \A v \in Versions : v <= HeadVersion(p) - 1 => disk'[v] = disk[v]
    BY <1>2, WriteFileFrame DEF WriteMetadata, SafetyInv
  <1>4. CASE UNCHANGED mem /\ Goto(p, "rollback")
    BY <1>1, <1>2, <1>3, <1>4, ToRollback
  <1>5. CASE /\ WriteFile(p, MetaFile, Meta) /\ Goto(p, "verInv")
             /\ mem' = [mem EXCEPT ![p] = inv]
    <2>1. /\ inv.head = HeadVersion(p)
          /\ \A v \in Versions, g \in Names :
                /\ inv.manifest[v][g] = IF v = HeadVersion(p) /\ g = MetaFile THEN Meta
                                        ELSE mem[p].manifest[v][g]
                /\ inv.state[v][g] = IF v = HeadVersion(p) /\ g = MetaFile THEN Meta
                                     ELSE mem[p].state[v][g]
          /\ \A v \in Versions : v # HeadVersion(p) => inv.state[v] = mem[p].state[v]
      BY <1>2, AddContentType DEF HeadVersion
    <2> HIDE DEF inv
    <2>2. /\ disk'[HeadVersion(p)][MetaFile] = Meta
          /\ \A g \in Names : g # MetaFile => disk'[HeadVersion(p)][g] = disk[HeadVersion(p)][g]
      BY <1>2, <1>5, WriteFileFrame DEF SafetyInv
    <2>3. ManifestHeld(disk, mem[p], HeadVersion(p))
      BY <1>1 DEF SafetyInv, RequestKept, RecordedKept, Recorded
    <2>4. ManifestHeld(disk', inv, HeadVersion(p))
      BY <1>2, <1>3, <2>1, <2>2, <2>3 DEF ManifestHeld, Versions
    <2>5. ASSUME op[p].kind \in Storing
          PROVE  /\ inv.state[HeadVersion(p)][DestFile(op[p])] \in Contents
                 /\ disk'[HeadVersion(p)][DestFile(op[p])] = inv.state[HeadVersion(p)][DestFile(op[p])]
      <3>1. DestFile(op[p]) \in Names /\ DestFile(op[p]) # MetaFile
        BY <2>5, OperationFields, ConstantsAssumption
        DEF SafetyInv, TypeInv, TypeOK, DestFile, Storing, Names
      <3>2. /\ mem[p].state[HeadVersion(p)][DestFile(op[p])] \in Contents
            /\ disk[HeadVersion(p)][DestFile(op[p])] = mem[p].state[HeadVersion(p)][DestFile(op[p])]
        BY <1>1, <2>5 DEF SafetyInv, RequestKept, RecordedKept, Recorded
      <3>3. QED
        BY <1>2, <2>1, <2>2, <3>1, <3>2
    <2>6. \A v \in Versions : v <= HeadVersion(p) - 1 => inv.state[v] = mem[p].state[v]
      BY <1>2, <2>1 DEF Versions
    <2>7. QED
      BY <1>1, <1>3, <1>5, <2>1, <2>4, <2>5, <2>6, ToVersionInventory
  <1>6. QED
    BY <1>4, <1>5 DEF WriteMetadata

(* A copied file is one the inventory holds under the hash that is recorded *)
(* for the copy: the manifest says so for the latest version, and what was *)
(* reported as stored for an explicit one.                                 *)
LEMMA CopySourceHeld ==
    ASSUME SafetyInv, NEW p \in Procs, pc[p] = "content",
           op[p].kind \in {"rename", "reinstate"}, NEW s \in CopySource(p)
    PROVE  s.version \in Versions /\ s.hash \in Contents
           /\ disk[s.version][op[p].file] = s.hash
  <1>1. /\ op[p].file \in Names /\ op[p].version \in {Latest} \cup Versions
        /\ mem[p] \in Inventory /\ pc[p] \in Opened
    BY OperationFields DEF SafetyInv, TypeInv, TypeOK, Names, Opened, PCs
  <1>2. /\ s.version \in Versions /\ s.hash \in Contents
        /\ op[p].version = Latest => s.hash = mem[p].manifest[s.version][op[p].file]
        /\ op[p].version # Latest =>
               s.version = op[p].version /\ s.hash = mem[p].state[s.version][op[p].file]
    BY <1>1, CopySourceType
  <1>3. CASE op[p].version = Latest
    <2>1. ManifestHeld(disk, mem[p], HeadVersion(p) - 1)
      BY DEF SafetyInv, RequestKept, OpenedKept
    <2>2. s.hash # None
      BY <1>2, ConstantsAssumption
    <2>3. QED
      BY <1>1, <1>2, <1>3, <2>1, <2>2 DEF ManifestHeld
  <1>4. CASE op[p].version # Latest
    <2>1. PICK a \in acked : a.version = op[p].version /\ a.file = op[p].file
      BY <1>4 DEF SafetyInv, RequestKept, SourceKept
    <2>2. AckedHeld(disk, acked, mem[p], HeadVersion(p) - 1)
      BY <1>1 DEF SafetyInv, RequestKept, OpenedKept
    <2>3. QED
      BY <1>2, <1>4, <2>1, <2>2 DEF AckedHeld
  <1>5. QED
    BY <1>3, <1>4

(* A rename or reinstatement copies bits under their own hash.              *)
LEMMA CopyVersionSafe ==
    ASSUME SafetyInv, NEW p, Procs = {p}, CopyVersion(p)
    PROVE  RootKept' /\ RequestKept(p)'
  <1>1. /\ pc[p] = "content" /\ op[p].kind \in {"rename", "reinstate"}
        /\ UNCHANGED <<rootDir, rootInv, verInv, acked, op, newObject>>
    BY DEF CopyVersion
  <1>2. /\ HeadVersion(p) \in Versions /\ mem[p] \in Inventory /\ pc[p] \in Opened \ Committing
        /\ op[p].file \in Names /\ op[p].to \in Names
    BY <1>1, OperationFields
    DEF SafetyInv, TypeInv, TypeOK, Placed, Opened, PCs, Names, Committing
  <1>3. \A v \in Versions : v <= HeadVersion(p) - 1 => disk'[v] = disk[v]
    BY <1>2, WriteFileFrame DEF CopyVersion, SafetyInv
  <1>4. CASE UNCHANGED mem /\ Goto(p, "rollback")
    BY <1>1, <1>2, <1>3, <1>4, ToRollback
  <1>5. CASE \E s \in CopySource(p) :
                 /\ WriteFile(p, op[p].to, disk[s.version][op[p].file])
                 /\ AddCopy(p, s) /\ Goto(p, "verInv")
    <2>1. PICK s \in CopySource(p) :
                 /\ WriteFile(p, op[p].to, disk[s.version][op[p].file])
                 /\ AddCopy(p, s) /\ Goto(p, "verInv")
      BY <1>5
    <2> DEFINE f == op[p].file
               g == op[p].to
               added == AddContent(mem[p], g, s.hash)
               inv == IF f = g THEN added ELSE RemoveContent(added, f)
    <2>2. s.hash \in Contents /\ disk[s.version][f] = s.hash
      BY <1>1, CopySourceHeld
    <2>3. mem' = [mem EXCEPT ![p] = inv]
      BY <2>1 DEF AddCopy
    <2>4. /\ added \in Inventory /\ added.head = HeadVersion(p)
          /\ \A v \in Versions, h \in Names :
                /\ added.manifest[v][h] = IF v = HeadVersion(p) /\ h = g THEN s.hash
                                          ELSE mem[p].manifest[v][h]
                /\ added.state[v][h] = IF v = HeadVersion(p) /\ h = g THEN s.hash
                                       ELSE mem[p].state[v][h]
          /\ \A v \in Versions : v # HeadVersion(p) => added.state[v] = mem[p].state[v]
      BY <1>2, <2>2, AddContentType DEF HeadVersion
    <2> HIDE DEF added
    <2>5. /\ inv.head = HeadVersion(p) /\ inv.manifest = added.manifest
          /\ inv.state[HeadVersion(p)][g] = s.hash
          /\ \A v \in Versions : v # HeadVersion(p) => inv.state[v] = mem[p].state[v]
      <3>1. CASE f = g
        BY <1>2, <2>4, <3>1
      <3>2. CASE f # g
        <4>1. /\ RemoveContent(added, f).head = HeadVersion(p)
              /\ RemoveContent(added, f).manifest = added.manifest
              /\ RemoveContent(added, f).state[HeadVersion(p)][g] = s.hash
              /\ \A v \in Versions : v # HeadVersion(p) =>
                     RemoveContent(added, f).state[v] = added.state[v]
          BY <1>2, <2>4, <3>2, RemoveContentType
        <4>2. QED
          BY <2>4, <3>2, <4>1
      <3>3. QED
        BY <3>1, <3>2
    <2> HIDE DEF inv
    <2>6. disk'[HeadVersion(p)][g] = s.hash
      BY <1>2, <2>1, <2>2, WriteFileFrame DEF SafetyInv
    <2>7. ManifestHeld(disk, mem[p], HeadVersion(p) - 1)
      BY <1>1 DEF SafetyInv, RequestKept, OpenedKept
    <2>8. ManifestHeld(disk', inv, HeadVersion(p))
      BY <1>2, <1>3, <2>4, <2>5, <2>6, <2>7 DEF ManifestHeld, Versions
    <2>9. DestFile(op[p]) = g
      BY <1>1 DEF DestFile
    <2>10. \A v \in Versions : v <= HeadVersion(p) - 1 => inv.state[v] = mem[p].state[v]
      BY <1>2, <2>5 DEF Versions
    <2>11. /\ inv.state[HeadVersion(p)][DestFile(op[p])] \in Contents
           /\ disk'[HeadVersion(p)][DestFile(op[p])] = inv.state[HeadVersion(p)][DestFile(op[p])]
      BY <2>2, <2>5, <2>6, <2>9
    <2> HIDE DEF f, g
    <2>12. QED
      BY <1>1, <1>3, <2>1, <2>3, <2>5, <2>8, <2>10, <2>11, ToVersionInventory
  <1>6. QED
    BY <1>4, <1>5 DEF CopyVersion

(* A delete only changes the state of the open version.                     *)
LEMMA DeleteFileSafe ==
    ASSUME SafetyInv, NEW p, Procs = {p}, DeleteFile(p)
    PROVE  RootKept' /\ RequestKept(p)'
  <1> DEFINE inv == RemoveContent(mem[p], op[p].file)
  <1>1. /\ pc[p] = "content" /\ op[p].kind = "delete"
        /\ UNCHANGED <<rootDir, rootInv, verInv, disk, acked, op, newObject>>
    BY DEF DeleteFile, diskVars
  <1>2. /\ HeadVersion(p) \in Versions /\ mem[p] \in Inventory /\ op[p].file \in Names
        /\ pc[p] \in Opened \ Committing
    BY <1>1, OperationFields
    DEF SafetyInv, TypeInv, TypeOK, Placed, Opened, PCs, Names, Committing
  <1>3. CASE UNCHANGED mem /\ Goto(p, "rollback")
    BY <1>1, <1>2, <1>3, ToRollback
  <1>4. CASE mem' = [mem EXCEPT ![p] = inv] /\ Goto(p, "verInv")
    <2>1. /\ inv.head = HeadVersion(p) /\ inv.manifest = mem[p].manifest
          /\ \A v \in Versions : v # HeadVersion(p) => inv.state[v] = mem[p].state[v]
      BY <1>2, RemoveContentType DEF HeadVersion
    <2> HIDE DEF inv
    <2>2. ManifestHeld(disk, mem[p], HeadVersion(p) - 1)
      BY <1>1 DEF SafetyInv, RequestKept, OpenedKept
    <2>3. ManifestHeld(disk', inv, HeadVersion(p))
      BY <1>1, <1>2, <2>1, <2>2 DEF ManifestHeld, Versions
    <2>4. \A v \in Versions : v <= HeadVersion(p) - 1 => inv.state[v] = mem[p].state[v]
      BY <1>2, <2>1 DEF Versions
    <2>5. QED
      BY <1>1, <1>4, <2>1, <2>3, <2>4, ToVersionInventory DEF Storing
  <1>5. QED
    BY <1>3, <1>4 DEF DeleteFile
(* The inventories: first in the version folder, then in the root.         *)
LEMMA WriteVersionInventorySafe ==
    ASSUME SafetyInv, NEW p, Procs = {p}, WriteVersionInventory(p)
    PROVE  RootKept' /\ RequestKept(p)'
  <1>1. /\ pc[p] = "verInv"
        /\ UNCHANGED <<rootDir, rootInv, disk, acked, op, newObject, mem>>
    BY DEF WriteVersionInventory
  <1>2. HeadVersion(p) \in Versions /\ pc[p] \in Opened \ Committing
    BY <1>1 DEF SafetyInv, TypeInv, Placed, Opened, PCs, Committing
  <1>3. \A v \in Versions : v <= HeadVersion(p) - 1 => verInv'[v] = verInv[v]
    <2>1. \A v \in Versions : v # HeadVersion(p) => verInv'[v] = verInv[v]
      BY <1>2 DEF WriteVersionInventory, SafetyInv, TypeInv, TypeOK
    <2>2. QED
      BY <1>2, <2>1 DEF Versions
  <1>4. CASE Goto(p, "rollback")
    BY <1>1, <1>2, <1>3, <1>4, ToRollback
  <1>5. CASE verInv' = [verInv EXCEPT ![HeadVersion(p)] = mem[p]] /\ Goto(p, "rootInv")
    <2>1. pc'[p] = "rootInv" /\ verInv'[HeadVersion(p)] = mem[p]
      BY <1>2, <1>5 DEF Goto, SafetyInv, TypeInv, TypeOK
    <2>2. Complete(rootInv) => rootInv.head = HeadVersion(p) - 1 /\ rootInv.head \in Versions
      BY <1>2 DEF SafetyInv, RootKept, RequestKept, OpenedKept
    <2>3. RootKept'
      BY <1>1, <1>2, <1>3, <2>2, RootFrame DEF SafetyInv, RootKept, Versions
    <2>4. QED
      BY <1>1, <1>2, <2>1, <2>2, <2>3
      DEF SafetyInv, RequestKept, NewKept, SourceKept, LoadedKept, OpenedKept,
          RecordedKept, Recorded, Committing, HeadVersion
  <1>6. QED
    BY <1>4, <1>5 DEF WriteVersionInventory

(* While the root inventory is torn, its writer is there to complete it.    *)
LEMMA TruncateSafe ==
    ASSUME SafetyInv, NEW p, Procs = {p}, TruncateRootInventory(p)
    PROVE  RootKept' /\ RequestKept(p)'
  <1>1. /\ pc[p] = "rootInv" /\ rootInv' = Torn
        /\ UNCHANGED <<rootDir, verInv, disk, acked, op, newObject, mem>>
    BY DEF TruncateRootInventory
  <1>2. pc'[p] = "rootInvEnd"
    BY DEF TruncateRootInventory, Goto, SafetyInv, TypeInv, TypeOK
  <1>3. pc[p] \in Opened
    BY <1>1 DEF Opened, PCs
  <1>4. rootDir
    BY <1>1 DEF SafetyInv, RequestKept, NewKept
  <1>5. RootKept'
    BY <1>1, <1>2, <1>4, ConstantsAssumption DEF SafetyInv, RootKept, Complete
  <1>6. QED
    BY <1>1, <1>2, <1>3, <1>5
    DEF SafetyInv, RequestKept, NewKept, SourceKept, LoadedKept, OpenedKept,
        RecordedKept, Recorded, Committing, Complete, HeadVersion

(* The commit: the root inventory becomes the one in memory.                *)
LEMMA WriteRootInventorySafe ==
    ASSUME SafetyInv, Serial, NEW p, Procs = {p}, WriteRootInventory(p)
    PROVE  RootKept' /\ RequestKept(p)'
  <1>1. /\ pc[p] = "rootInvEnd" /\ rootInv' = mem[p] /\ Goto(p, "rootDigest")
        /\ UNCHANGED <<rootDir, verInv, disk, acked, op, newObject, mem>>
    BY DEF WriteRootInventory, Fails, Serial
  <1>2. pc'[p] = "rootDigest"
    BY <1>1 DEF Goto, SafetyInv, TypeInv, TypeOK
  <1>3. /\ pc[p] \in Opened /\ pc[p] \in Recorded /\ HeadVersion(p) \in Versions
        /\ mem[p] \in Inventory
    BY <1>1 DEF Opened, PCs, Recorded, SafetyInv, TypeInv, TypeOK, Placed
  <1>4. /\ ManifestHeld(disk, mem[p], HeadVersion(p)) /\ verInv[HeadVersion(p)] = mem[p]
        /\ AckedHeld(disk, acked, mem[p], HeadVersion(p) - 1)
    BY <1>1, <1>3 DEF SafetyInv, RequestKept, OpenedKept, RecordedKept
  <1>5. AckedHeld(disk, acked, mem[p], HeadVersion(p))
    BY <1>3, <1>4 DEF AckedHeld, SafetyInv, TypeInv, TypeOK, Versions
  <1>6. QED
    BY <1>1, <1>2, <1>3, <1>4, <1>5, ConstantsAssumption
    DEF SafetyInv, RootKept, RequestKept, NewKept, SourceKept, LoadedKept,
        OpenedKept, RecordedKept, Recorded, Committing, HeadVersion, Complete

(* What is reported as stored is in the inventory that has become the root. *)
LEMMA AcknowledgeSafe ==
    ASSUME SafetyInv, NEW p, Procs = {p}, pc[p] \in Committing, Return(p),
           acked' = acked \cup Stored(p),
           UNCHANGED <<rootDir, rootInv, verInv, disk>>
    PROVE  RootKept' /\ RequestKept(p)'
  <1>1. /\ rootInv = mem[p] /\ mem[p] \in Inventory /\ HeadVersion(p) \in Versions
        /\ pc[p] # "rootInvEnd" /\ pc[p] \in Opened
    BY DEF SafetyInv, RequestKept, RecordedKept, TypeInv, TypeOK, Placed, Opened, PCs,
           Committing
  <1>2. Complete(rootInv)
    BY <1>1, ConstantsAssumption DEF Complete
  <1>3. AckedHeld(disk, Stored(p), rootInv, rootInv.head)
    <2>1. CASE op[p].kind \in Storing
      <3>1. /\ mem[p].state[HeadVersion(p)][DestFile(op[p])] \in Contents
            /\ disk[HeadVersion(p)][DestFile(op[p])] = mem[p].state[HeadVersion(p)][DestFile(op[p])]
        BY <2>1 DEF SafetyInv, RequestKept, RecordedKept, Recorded, Committing
      <3>2. QED
        BY <1>1, <2>1, <3>1 DEF AckedHeld, Stored, Storing, HeadVersion, Versions
    <2>2. CASE op[p].kind \notin Storing
      BY <2>2 DEF AckedHeld, Stored, Storing
    <2>3. QED
      BY <2>1, <2>2
  <1>4. AckedHeld(disk, acked', rootInv, rootInv.head)
    BY <1>2, <1>3 DEF SafetyInv, RootKept, AckedHeld
  <1>5. RootKept'
    BY <1>1, <1>2, <1>4, ConstantsAssumption DEF SafetyInv, RootKept, Complete
  <1>6. QED
    BY <1>5, ReturnKept DEF SafetyInv

(* The digest follows, and the caller may be told.                          *)
LEMMA WriteRootDigestSafe ==
    ASSUME SafetyInv, Serial, NEW p, Procs = {p}, WriteRootDigest(p)
    PROVE  RootKept' /\ RequestKept(p)'
  <1>1. /\ pc[p] = "rootDigest" /\ ~Fails("rootDigest")
        /\ UNCHANGED <<rootDir, rootInv, verInv, disk>>
    BY DEF WriteRootDigest, Fails, Serial
  <1>2. CASE /\ op[p].kind = "promote" /\ Goto(p, "cleanup")
             /\ UNCHANGED <<op, newObject, mem, acked>>
    <2>1. pc'[p] = "cleanup"
      BY <1>2 DEF Goto, SafetyInv, TypeInv, TypeOK
    <2>2. RootKept'
      BY <1>1, <1>2, RootFrame DEF SafetyInv, RootKept
    <2>3. NewKept(p)'
      BY <1>1, <2>1, NewFrame
    <2>4. QED
      BY <1>1, <1>2, <2>1, <2>2, <2>3
      DEF SafetyInv, RequestKept, SourceKept, LoadedKept, OpenedKept, RecordedKept,
          Opened, PCs, Recorded, Committing, HeadVersion
  <1>3. CASE acked' = acked \cup Stored(p) /\ Return(p)
    BY <1>1, <1>3, AcknowledgeSafe DEF Committing
  <1>4. QED
    BY <1>1, <1>2, <1>3 DEF WriteRootDigest

(* Removing the staging folder touches nothing of the object.               *)
LEMMA RemoveStagingFolderSafe ==
    ASSUME SafetyInv, NEW p, Procs = {p}, RemoveStagingFolder(p)
    PROVE  RootKept' /\ RequestKept(p)'
  <1>1. /\ pc[p] = "cleanup" /\ Return(p)
        /\ UNCHANGED <<rootDir, rootInv, verInv, disk>>
    BY DEF RemoveStagingFolder, diskVars
  <1>2. CASE acked' = acked \cup Stored(p)
    BY <1>1, <1>2, AcknowledgeSafe DEF Committing
  <1>3. CASE UNCHANGED acked
    <2>1. RootKept'
      BY <1>1, <1>3, RootFrame DEF SafetyInv, RootKept
    <2>2. QED
      BY <1>1, <2>1, ReturnKept DEF SafetyInv
  <1>4. QED
    BY <1>2, <1>3 DEF RemoveStagingFolder

(* A rollback removes the folder of a version the root does not have.      *)
LEMMA RollbackSafe ==
    ASSUME SafetyInv, NEW p, Procs = {p}, RollbackVersion(p)
    PROVE  RootKept' /\ RequestKept(p)'
  <1>1. /\ pc[p] = "rollback" /\ Return(p)
        /\ UNCHANGED <<rootDir, rootInv, acked>>
    BY DEF RollbackVersion
  <1>2. HeadVersion(p) \in Versions /\ pc[p] \in Opened \ Committing
    BY <1>1 DEF SafetyInv, TypeInv, Placed, Opened, PCs, Committing
  <1>3. \A v \in Versions : v # HeadVersion(p) => disk'[v] = disk[v] /\ verInv'[v] = verInv[v]
    BY <1>2 DEF RollbackVersion, SafetyInv, TypeInv, TypeOK
  <1>4. Complete(rootInv) => rootInv.head = HeadVersion(p) - 1 /\ rootInv.head \in Versions
    BY <1>2 DEF SafetyInv, RootKept, RequestKept, OpenedKept
  <1>5. RootKept'
    BY <1>1, <1>2, <1>3, <1>4, RootFrame DEF SafetyInv, RootKept, Versions
  <1>6. QED
    BY <1>1, <1>5, ReturnKept DEF SafetyInv

(* A restart drops the request and leaves a consistent root behind.         *)
LEMMA CrashSafe ==
    ASSUME SafetyInv, Serial, NEW p, Procs = {p}, Crash
    PROVE  RootKept' /\ RequestKept(p)'
  <1>1. /\ pc' = [q \in Procs |-> "idle"] /\ pc[p] # "rootInvEnd"
        /\ UNCHANGED <<rootDir, rootInv, verInv, disk, acked>>
    BY DEF Crash, diskVars, Serial
  <1>2. RootKept'
    BY <1>1, RootFrame DEF SafetyInv, RootKept
  <1>3. pc'[p] = "idle"
    BY <1>1
  <1>4. QED
    BY <1>2, <1>3
    DEF RequestKept, NewKept, SourceKept, LoadedKept, OpenedKept, RecordedKept,
        Opened, Recorded, Committing

(* The safety invariant holds at the start.                                 *)
LEMMA InitSafety == Init => SafetyInv
  <1> SUFFICES ASSUME Init PROVE SafetyInv
    OBVIOUS
  <1>1. RootKept
    BY ConstantsAssumption DEF Init, RootKept, Complete
  <1>2. ASSUME NEW p \in Procs PROVE RequestKept(p)
    BY <1>2 DEF Init, RequestKept, NewKept, SourceKept, LoadedKept, OpenedKept,
                RecordedKept, Opened, Recorded, Committing
  <1>3. QED
    BY <1>1, <1>2, InitTypeInv DEF SafetyInv

(* Every step of a serial object keeps the safety invariant.                *)
LEMMA SafetyStep == ASSUME Serial PROVE SafetyInv /\ [Next]_vars => SafetyInv'
  <1> SUFFICES ASSUME SafetyInv, [Next]_vars PROVE SafetyInv'
    OBVIOUS
  <1>1. PICK p : Procs = {p}
    BY DEF Serial
  <1>2. TypeInv'
    BY TypeInvStep DEF SafetyInv
  <1>3. RootKept' /\ RequestKept(p)'
    <2>1. CASE Step(p)
      BY <1>1, <2>1, StartSafe, InitializeSafe, LoadSafe, OpenVersionSafe,
         MoveStagedSafe, RenameFailsSafe, HashFailsSafe, CopyStagedSafe,
         RemoveStagedSafe, StreamContentSafe, WriteMetadataSafe, CopyVersionSafe,
         DeleteFileSafe, WriteVersionInventorySafe, TruncateSafe,
         WriteRootInventorySafe, WriteRootDigestSafe, RemoveStagingFolderSafe,
         RollbackSafe DEF Step
    <2>2. CASE Crash
      BY <1>1, <2>2, CrashSafe
    <2>3. CASE UNCHANGED vars
      <3>1. UNCHANGED <<rootDir, rootInv, verInv, disk, acked, pc, op, newObject, mem>>
        BY <2>3 DEF vars, diskVars, procVars
      <3>2. QED
        BY <1>1, <3>1
        DEF SafetyInv, RootKept, RequestKept, NewKept, SourceKept, LoadedKept,
            OpenedKept, RecordedKept, HeadVersion
    <2>4. QED
      BY <1>1, <2>1, <2>2, <2>3 DEF Next
  <1>4. QED
    BY <1>1, <1>2, <1>3 DEF SafetyInv

(* With one request at a time, and as long as no write of the root         *)
(* inventory or of its digest fails or is torn by a restart, whatever was  *)
(* reported as stored can be read back ever after.                         *)
THEOREM AckedReadableSerial == ASSUME Serial PROVE Spec => []AckedReadable
  <1>1. SafetyInv => AckedReadable
    <2> SUFFICES ASSUME SafetyInv PROVE AckedReadable
      OBVIOUS
    <2>1. ASSUME Complete(rootInv), NEW a \in acked
          PROVE  ReadStream(a.file, a.version) = {a.content}
      <3>1. /\ a.version \in Versions /\ a.file \in Files /\ a.content \in Contents
            /\ rootInv.state[a.version][a.file] = a.content
            /\ disk[a.version][a.file] = a.content
        BY <2>1 DEF SafetyInv, TypeInv, TypeOK, RootKept, AckedHeld
      <3>2. a.version # Latest /\ a.content # None
        BY <3>1, ConstantsAssumption DEF Versions, Latest
      <3>3. ContentPathAndHash(rootInv, a.file, a.version) =
                {[version |-> a.version, hash |-> rootInv.state[a.version][a.file]]}
        BY <3>1, <3>2 DEF ContentPathAndHash
      <3>4. QED
        BY <3>1, <3>3 DEF ReadStream
    <2>2. acked # {} /\ ~Complete(rootInv) => \E p \in Procs : Writing(p)
      BY DEF SafetyInv, RootKept, Complete, Writing
    <2>3. QED
      BY <2>1, <2>2 DEF AckedReadable
  <1>2. QED
    BY InitSafety, SafetyStep, <1>1, PTL DEF Spec

(* Under the same conditions, the inventory in the root is always that of  *)
(* its head version, for an idle object in particular.                     *)
THEOREM RootMatchesHeadSerial == ASSUME Serial PROVE Spec => []RootMatchesHead
  <1>1. SafetyInv => RootMatchesHead
    BY DEF SafetyInv, RootKept, RootMatchesHead
  <1>2. QED
    BY InitSafety, SafetyStep, <1>1, PTL DEF Spec
=============================================================================
