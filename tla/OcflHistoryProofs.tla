-------------------------- MODULE OcflHistoryProofs --------------------------
(***************************************************************************)
(* More about one request at a time on one OCFL object, for every value of  *)
(* the constants (Serial, as in OcflObjectProofs):                         *)
(*   ImplementsVersions       the folders implement VersionedObject;       *)
(*   ValidWhenIdleRolledBack  a failed request leaves an object that has   *)
(*                            a version valid, if its rollback runs        *)
(*                            (RolledBack);                                *)
(*   UploadKeptSerial         no upload is lost, if nothing fails between  *)
(*                            its move and the commit (CommitsMoved).      *)
(* Each rests on an invariant of its own on top of SafetyInv: HistoryInv    *)
(* (what a version lists is held by that version or an older one, and an    *)
(* open version continues the committed ones), ValidInv (no folder holds a *)
(* file its inventory does not list) and StoredInv (where each upload is).  *)
(***************************************************************************)
EXTENDS OcflObjectProofs, Sequences

(* Every hash in a state is the hash of a file that the manifest names in   *)
(* that version or in an older one.                                        *)
Listed(inv, last) ==
    \A v \in Versions, f \in Names :
        v <= last /\ inv.state[v][f] # None =>
            \E w \in Versions, g \in Names :
                w <= v /\ inv.manifest[w][g] = inv.state[v][f]

(* A request that has not committed yet continues the committed history.   *)
Continues(p) ==
    /\ Complete(rootInv) =>
           \A v \in Versions : v < HeadVersion(p) => mem[p].state[v] = rootInv.state[v]
    /\ rootInv = NoInv => HeadVersion(p) = 1

ListedKept(p) ==
    /\ pc[p] = "addVersion" =>
           /\ Listed(mem[p], HeadVersion(p))
           /\ IF Complete(rootInv) THEN mem[p] = rootInv ELSE HeadVersion(p) = 0
    /\ pc[p] \in Opened => Listed(mem[p], HeadVersion(p))
    /\ pc[p] \in Opened \ Committing => Continues(p)
    /\ pc[p] = "metadata" => mem[p].manifest[HeadVersion(p)][MetaFile] = None
    /\ pc[p] = "rootInvEnd" => rootInv = Torn

RootListed == Complete(rootInv) => Listed(rootInv, rootInv.head)

HistoryInv == SafetyInv /\ RootListed /\ \A p \in Procs : ListedKept(p)

(* Recording content under a name the open version did not hold yet.       *)
LEMMA AddContentListed ==
    ASSUME NEW inv \in Inventory, inv.head \in Versions, Listed(inv, inv.head),
           NEW f \in Names, NEW hash \in Contents,
           inv.manifest[inv.head][f] = None
    PROVE  Listed(AddContent(inv, f, hash), inv.head)
  <1> DEFINE new == AddContent(inv, f, hash)
  <1>1. \A v \in Versions, g \in Names :
            /\ new.manifest[v][g] = IF v = inv.head /\ g = f THEN hash ELSE inv.manifest[v][g]
            /\ new.state[v][g] = IF v = inv.head /\ g = f THEN hash ELSE inv.state[v][g]
    BY AddContentType
  <1> HIDE DEF new
  <1> SUFFICES ASSUME NEW v \in Versions, NEW g \in Names, v <= inv.head,
                      new.state[v][g] # None
               PROVE  \E w \in Versions, h \in Names :
                          w <= v /\ new.manifest[w][h] = new.state[v][g]
    BY DEF Listed, new
  <1>2. CASE v = inv.head /\ g = f
    <2>1. v <= v
      BY DEF Versions
    <2>2. QED
      BY <1>1, <1>2, <2>1
  <1>3. CASE ~(v = inv.head /\ g = f)
    <2>1. new.state[v][g] = inv.state[v][g]
      BY <1>1, <1>3
    <2>2. PICK w \in Versions, h \in Names : w <= v /\ inv.manifest[w][h] = inv.state[v][g]
      BY <2>1 DEF Listed
    <2>3. ~(w = inv.head /\ h = f)
      BY <2>1, <2>2
    <2>4. new.manifest[w][h] = inv.manifest[w][h]
      BY <1>1, <2>3
    <2>5. QED
      BY <2>1, <2>2, <2>4
  <1>4. QED
    BY <1>2, <1>3

(* Dropping a name from the open version.                                  *)
LEMMA RemoveContentListed ==
    ASSUME NEW inv \in Inventory, inv.head \in Versions, Listed(inv, inv.head),
           NEW f \in Names
    PROVE  Listed(RemoveContent(inv, f), inv.head)
  <1> DEFINE new == RemoveContent(inv, f)
  <1>1. /\ new.manifest = inv.manifest
        /\ \A v \in Versions, g \in Names :
               new.state[v][g] = IF v = inv.head /\ g = f THEN None ELSE inv.state[v][g]
    BY RemoveContentType
  <1> HIDE DEF new
  <1>2. ASSUME NEW v \in Versions, NEW g \in Names, v <= inv.head, new.state[v][g] # None
        PROVE  \E w \in Versions, h \in Names :
                   w <= v /\ new.manifest[w][h] = new.state[v][g]
    <2>1. new.state[v][g] = inv.state[v][g]
      BY <1>1, <1>2
    <2>2. QED
      BY <1>1, <1>2, <2>1 DEF Listed
  <1>3. QED
    BY <1>2 DEF Listed, new

(* A new version starts with the state of the one before it.               *)
LEMMA AddVersionListed ==
    ASSUME NEW inv \in Inventory, inv.head < MaxVersion, Listed(inv, inv.head)
    PROVE  Listed(AddVersion(inv), inv.head + 1)
  <1> DEFINE new == AddVersion(inv)
  <1>1. /\ new.manifest = inv.manifest
        /\ \A v \in Versions : v <= inv.head => new.state[v] = inv.state[v]
    BY AddVersionType
  <1>2. inv.head \in 0 .. MaxVersion
    BY DEF Inventory
  <1>3. new.state[inv.head + 1] = IF inv.head + 1 = 1 THEN NoFiles ELSE inv.state[inv.head]
    BY <1>2, ConstantsAssumption DEF AddVersion, Inventory, Versions
  <1> HIDE DEF new
  <1>4. ASSUME NEW v \in Versions, NEW g \in Names, v <= inv.head + 1,
               new.state[v][g] # None
        PROVE  \E w \in Versions, h \in Names :
                   w <= v /\ new.manifest[w][h] = new.state[v][g]
    <2>1. CASE v <= inv.head
      <3>1. new.state[v] = inv.state[v]
        BY <1>1, <2>1
      <3>2. QED
        BY <1>1, <1>4, <2>1, <3>1 DEF Listed
    <2>2. CASE v = inv.head + 1
      <3>1. v # 1
        BY <1>3, <1>4, <2>2 DEF NoFiles
      <3>2. new.state[v] = inv.state[inv.head] /\ inv.head \in Versions
        BY <1>2, <1>3, <2>2, <3>1 DEF Versions
      <3>3. PICK w \in Versions, h \in Names :
                w <= inv.head /\ inv.manifest[w][h] = inv.state[inv.head][g]
        BY <1>2, <1>4, <3>2 DEF Listed
      <3>4. w <= v
        BY <1>2, <2>2, <3>3 DEF Versions
      <3>5. QED
        BY <1>1, <3>2, <3>3, <3>4
    <2>3. QED
      BY <1>2, <1>4, <2>1, <2>2 DEF Versions
  <1>5. QED
    BY <1>4 DEF Listed, new

(* Outside of an open version nothing is asked of the request.             *)
LEMMA ListedClosed ==
    ASSUME HistoryInv, NEW p, Procs = {p}, UNCHANGED rootInv,
           pc'[p] \in {"idle", "init", "load"}
    PROVE  RootListed' /\ ListedKept(p)'
  BY DEF HistoryInv, RootListed, ListedKept, Opened

(* A request goes on with its open version.                                *)
LEMMA ListedGoesOn ==
    ASSUME HistoryInv, NEW p, Procs = {p}, UNCHANGED rootInv,
           pc[p] \in Opened \ Committing,
           pc'[p] \in Opened \ {"rootInvEnd", "rootDigest", "cleanup"},
           NEW inv, mem'[p] = inv, inv.head = HeadVersion(p), Listed(inv, HeadVersion(p)),
           \A v \in Versions : v < HeadVersion(p) => inv.state[v] = mem[p].state[v],
           pc'[p] = "metadata" => inv.manifest[HeadVersion(p)][MetaFile] = None
    PROVE  RootListed' /\ ListedKept(p)'
  <1>1. HeadVersion(p)' = HeadVersion(p)
    BY DEF HeadVersion
  <1>2. Continues(p)
    BY DEF HistoryInv, ListedKept
  <1>3. Continues(p)'
    BY <1>1, <1>2 DEF Continues
  <1>4. QED
    BY <1>1, <1>3 DEF HistoryInv, RootListed, ListedKept, Opened, Committing

(* ... without recording anything.                                         *)
LEMMA ListedStays ==
    ASSUME HistoryInv, NEW p, Procs = {p}, UNCHANGED <<rootInv, mem>>,
           pc[p] \in Opened \ Committing, NEW l \in PCs, Goto(p, l),
           l \in Opened \ {"metadata", "rootInvEnd", "rootDigest", "cleanup"}
    PROVE  RootListed' /\ ListedKept(p)'
  <1>1. pc'[p] = l
    BY DEF Goto, HistoryInv, SafetyInv, TypeInv, TypeOK
  <1>2. Listed(mem[p], HeadVersion(p))
    BY DEF HistoryInv, ListedKept
  <1>3. QED
    BY <1>1, <1>2, ListedGoesOn DEF HeadVersion

(* A step that drops the request.                                          *)
LEMMA ListedReturn ==
    ASSUME HistoryInv, NEW p, Procs = {p}, UNCHANGED rootInv, Return(p)
    PROVE  RootListed' /\ ListedKept(p)'
  <1>1. pc'[p] = "idle"
    BY DEF Return, Goto, HistoryInv, SafetyInv, TypeInv, TypeOK
  <1>2. QED
    BY <1>1, ListedClosed

(* What a request with an open version can rely on.                        *)
LEMMA OpenFacts ==
    ASSUME HistoryInv, NEW p, Procs = {p}, pc[p] \in Opened
    PROVE  /\ mem[p] \in Inventory /\ mem[p].head \in Versions
           /\ Listed(mem[p], mem[p].head)
           /\ pc[p] \in {"content", "copy", "removeStaged"} =>
                  \A f \in Names : mem[p].manifest[mem[p].head][f] = None
  <1>1. mem[p] \in Inventory /\ mem[p].head \in Versions
    BY DEF HistoryInv, SafetyInv, TypeInv, TypeOK, Placed, HeadVersion
  <1>2. Listed(mem[p], mem[p].head)
    BY DEF HistoryInv, ListedKept, HeadVersion
  <1>3. ASSUME pc[p] \in {"content", "copy", "removeStaged"}, NEW f \in Names
        PROVE  mem[p].manifest[mem[p].head][f] = None
    <2>1. ManifestHeld(disk, mem[p], mem[p].head - 1)
      BY <1>3 DEF HistoryInv, SafetyInv, RequestKept, OpenedKept, HeadVersion
    <2>2. ~(mem[p].head <= mem[p].head - 1)
      BY <1>1 DEF Versions
    <2>3. QED
      BY <1>1, <2>1, <2>2 DEF ManifestHeld
  <1>4. QED
    BY <1>1, <1>2, <1>3

(* Recording the upload that was stored.                                   *)
LEMMA ListedUpload ==
    ASSUME HistoryInv, NEW p, Procs = {p}, UNCHANGED rootInv,
           pc[p] \in {"content", "removeStaged"}, op[p].kind \in {"promote", "stream"},
           RecordUpload(p), Goto(p, "metadata")
    PROVE  RootListed' /\ ListedKept(p)'
  <1> DEFINE inv == AddContent(mem[p], op[p].file, op[p].upload)
  <1>1. pc[p] \in Opened \ Committing
    BY DEF Opened, PCs, Committing
  <1>2. /\ mem[p] \in Inventory /\ mem[p].head \in Versions
        /\ Listed(mem[p], mem[p].head)
        /\ \A f \in Names : mem[p].manifest[mem[p].head][f] = None
    BY <1>1, OpenFacts
  <1>3. op[p].file \in Names /\ op[p].file # MetaFile /\ op[p].upload \in Contents
    BY OperationFields, ConstantsAssumption
    DEF HistoryInv, SafetyInv, TypeInv, TypeOK, Names, Contents
  <1>4. Listed(inv, mem[p].head)
    BY <1>2, <1>3, AddContentListed
  <1>5. /\ inv.head = mem[p].head
        /\ \A v \in Versions : v # mem[p].head => inv.state[v] = mem[p].state[v]
        /\ \A v \in Versions, g \in Names :
               inv.manifest[v][g] = IF v = mem[p].head /\ g = op[p].file
                                    THEN op[p].upload ELSE mem[p].manifest[v][g]
    BY <1>2, <1>3, AddContentType
  <1>6. mem'[p] = inv /\ pc'[p] = "metadata"
    BY DEF RecordUpload, Goto, HistoryInv, SafetyInv, TypeInv, TypeOK
  <1> HIDE DEF inv
  <1>7. \A v \in Versions : v < HeadVersion(p) => inv.state[v] = mem[p].state[v]
    BY <1>2, <1>5 DEF Versions, HeadVersion
  <1>8. inv.manifest[HeadVersion(p)][MetaFile] = None
    BY <1>2, <1>3, <1>5 DEF HeadVersion, Names
  <1>9. pc'[p] \in Opened \ {"rootInvEnd", "rootDigest", "cleanup"}
    BY <1>6 DEF Opened, PCs
  <1>10. QED
    BY <1>1, <1>4, <1>5, <1>6, <1>7, <1>8, <1>9, ListedGoesOn DEF HeadVersion

(* Before a version is open.                                               *)
LEMMA LoadListed ==
    ASSUME HistoryInv, NEW p, Procs = {p}, LoadInventory(p)
    PROVE  RootListed' /\ ListedKept(p)'
  <1>1. UNCHANGED rootInv /\ pc[p] = "load" /\ rootInv # Torn
    BY DEF LoadInventory, diskVars, HistoryInv, SafetyInv, RootKept
  <1>2. CASE Return(p)
    BY <1>1, <1>2, ListedReturn
  <1>3. ASSUME NEW inv, mem' = [mem EXCEPT ![p] = inv], Goto(p, "addVersion"),
               Listed(inv, inv.head),
               IF Complete(rootInv) THEN inv = rootInv ELSE inv.head = 0
        PROVE  RootListed' /\ ListedKept(p)'
    <2>1. pc'[p] = "addVersion" /\ mem'[p] = inv
      BY <1>3 DEF Goto, HistoryInv, SafetyInv, TypeInv, TypeOK
    <2>2. QED
      BY <1>1, <1>3, <2>1 DEF HistoryInv, RootListed, ListedKept, Opened, HeadVersion, Complete
  <1>4. CASE newObject[p]
    <2>1. rootInv = NoInv
      BY <1>1, <1>4 DEF HistoryInv, SafetyInv, RequestKept, NewKept
    <2>2. Listed(EmptyInv, EmptyInv.head) /\ EmptyInv.head = 0 /\ ~Complete(rootInv)
      BY <2>1 DEF Listed, EmptyInv, NoFiles, Complete
    <2>3. mem' = [mem EXCEPT ![p] = EmptyInv] /\ Goto(p, "addVersion")
      BY <1>4, Zenon DEF LoadInventory
    <2>4. QED
      BY <1>3, <2>2, <2>3
  <1>5. CASE ~newObject[p] /\ rootInv \notin {NoInv, Torn}
    <2>1. mem' = [mem EXCEPT ![p] = rootInv] /\ Goto(p, "addVersion")
      BY <1>5, Zenon DEF LoadInventory
    <2>2. Complete(rootInv) /\ Listed(rootInv, rootInv.head)
      BY <1>5 DEF HistoryInv, RootListed, Complete
    <2>3. QED
      BY <1>3, <2>1, <2>2
  <1>6. CASE ~newObject[p] /\ rootInv \in {NoInv, Torn}
    BY <1>2, <1>6, Zenon DEF LoadInventory
  <1>7. QED
    BY <1>4, <1>5, <1>6, Zenon

(* Opening a version on top of the committed ones.                         *)
LEMMA OpenVersionListed ==
    ASSUME HistoryInv, NEW p, Procs = {p}, OpenVersion(p)
    PROVE  RootListed' /\ ListedKept(p)'
  <1>1. UNCHANGED rootInv /\ pc[p] = "addVersion" /\ HeadVersion(p) < MaxVersion
    BY DEF OpenVersion
  <1>2. CASE Return(p)
    BY <1>1, <1>2, ListedReturn
  <1>3. CASE /\ mem' = [mem EXCEPT ![p] = AddVersion(mem[p])]
             /\ Goto(p, IF op[p].kind = "updateMetadata" THEN "metadata" ELSE "content")
    <2> DEFINE inv == AddVersion(mem[p])
    <2>1. /\ pc'[p] \in {"metadata", "content"} /\ mem'[p] = inv
          /\ mem[p] \in Inventory /\ HeadVersion(p) \in Nat
      BY <1>3 DEF Goto, HistoryInv, SafetyInv, TypeInv, TypeOK, Inventory, HeadVersion
    <2>2. /\ Listed(mem[p], HeadVersion(p))
          /\ IF Complete(rootInv) THEN mem[p] = rootInv ELSE HeadVersion(p) = 0
      BY <1>1 DEF HistoryInv, ListedKept
    <2>3. Listed(inv, HeadVersion(p) + 1)
      BY <1>1, <2>1, <2>2, AddVersionListed DEF HeadVersion
    <2>4. /\ inv.head = HeadVersion(p) + 1 /\ inv.manifest = mem[p].manifest
          /\ \A v \in Versions : v <= HeadVersion(p) => inv.state[v] = mem[p].state[v]
      BY <1>1, <2>1, AddVersionType DEF HeadVersion
    <2>5. ManifestHeld(disk, mem[p], HeadVersion(p))
      BY <1>1 DEF HistoryInv, SafetyInv, RequestKept, LoadedKept
    <2>6. HeadVersion(p) + 1 \in Versions /\ ~(HeadVersion(p) + 1 <= HeadVersion(p))
      BY <1>1, <2>1, ConstantsAssumption DEF Versions
    <2>7. inv.manifest[HeadVersion(p) + 1][MetaFile] = None
      BY <2>4, <2>5, <2>6 DEF ManifestHeld, Names
    <2>8. Complete(rootInv) =>
              \A v \in Versions : v < HeadVersion(p) + 1 => inv.state[v] = rootInv.state[v]
      BY <2>1, <2>2, <2>4 DEF Versions
    <2> HIDE DEF inv
    <2>9. HeadVersion(p)' = HeadVersion(p) + 1
      BY <2>1, <2>4 DEF HeadVersion
    <2>10. Continues(p)'
      BY <1>1, <2>1, <2>2, <2>8, <2>9 DEF Continues, Complete
    <2>11. QED
      BY <1>1, <2>1, <2>3, <2>7, <2>9, <2>10 DEF HistoryInv, RootListed, ListedKept
  <1>4. QED
    BY <1>2, <1>3 DEF OpenVersion

(* The files an operation writes.                                          *)
LEMMA MetadataListed ==
    ASSUME HistoryInv, NEW p, Procs = {p}, WriteMetadata(p)
    PROVE  RootListed' /\ ListedKept(p)'
  <1> DEFINE inv == AddContent(mem[p], MetaFile, Meta)
  <1>1. UNCHANGED rootInv /\ pc[p] = "metadata" /\ pc[p] \in Opened \ Committing
    BY DEF WriteMetadata, Opened, PCs, Committing
  <1>2. /\ mem[p] \in Inventory /\ mem[p].head \in Versions
        /\ Listed(mem[p], mem[p].head)
        /\ MetaFile \in Names /\ Meta \in Contents
        /\ mem[p].manifest[mem[p].head][MetaFile] = None
    BY <1>1, OpenFacts DEF Names, Contents, HistoryInv, ListedKept, HeadVersion
  <1>3. CASE UNCHANGED mem /\ Goto(p, "rollback")
    BY <1>1, <1>3, ListedStays DEF Opened, PCs
  <1>4. CASE mem' = [mem EXCEPT ![p] = inv] /\ Goto(p, "verInv")
    <2>1. pc'[p] = "verInv" /\ mem'[p] = inv
      BY <1>4 DEF Goto, HistoryInv, SafetyInv, TypeInv, TypeOK
    <2>2. Listed(inv, mem[p].head)
      BY <1>2, AddContentListed
    <2>3. /\ inv.head = mem[p].head
          /\ \A v \in Versions : v # mem[p].head => inv.state[v] = mem[p].state[v]
      BY <1>2, AddContentType
    <2> HIDE DEF inv
    <2>4. \A v \in Versions : v < HeadVersion(p) => inv.state[v] = mem[p].state[v]
      BY <1>2, <2>3 DEF Versions, HeadVersion
    <2>5. pc'[p] \in Opened \ {"rootInvEnd", "rootDigest", "cleanup"}
      BY <2>1 DEF Opened, PCs
    <2>6. QED
      BY <1>1, <2>1, <2>2, <2>3, <2>4, <2>5, ListedGoesOn DEF HeadVersion
  <1>5. QED
    BY <1>3, <1>4 DEF WriteMetadata

(* A copy is recorded under the hash of its source.                        *)
LEMMA CopyListed ==
    ASSUME HistoryInv, NEW p, Procs = {p}, CopyVersion(p)
    PROVE  RootListed' /\ ListedKept(p)'
  <1>1. /\ UNCHANGED rootInv /\ pc[p] = "content" /\ pc[p] \in Opened \ Committing
        /\ op[p].kind \in {"rename", "reinstate"}
    BY DEF CopyVersion, Opened, PCs, Committing
  <1>2. op[p].file \in Names /\ op[p].to \in Names
    BY <1>1, OperationFields DEF HistoryInv, SafetyInv, TypeInv, TypeOK, Names
  <1>3. /\ mem[p] \in Inventory /\ mem[p].head \in Versions
        /\ Listed(mem[p], mem[p].head)
        /\ mem[p].manifest[mem[p].head][op[p].to] = None
    BY <1>1, <1>2, OpenFacts
  <1>4. CASE UNCHANGED mem /\ Goto(p, "rollback")
    BY <1>1, <1>4, ListedStays DEF Opened, PCs
  <1>5. CASE \E s \in CopySource(p) : AddCopy(p, s) /\ Goto(p, "verInv")
    <2>1. PICK s \in CopySource(p) : AddCopy(p, s) /\ Goto(p, "verInv")
      BY <1>5
    <2> DEFINE added == AddContent(mem[p], op[p].to, s.hash)
               inv == IF op[p].file = op[p].to THEN added
                      ELSE RemoveContent(added, op[p].file)
    <2>2. s.hash \in Contents
      BY <1>1, CopySourceHeld DEF HistoryInv
    <2>3. /\ added \in Inventory /\ added.head = mem[p].head
          /\ \A v \in Versions : v # mem[p].head => added.state[v] = mem[p].state[v]
      BY <1>2, <1>3, <2>2, AddContentType
    <2>4. Listed(added, mem[p].head)
      BY <1>2, <1>3, <2>2, AddContentListed
    <2>5. pc'[p] = "verInv" /\ mem'[p] = inv
      BY <2>1 DEF AddCopy, Goto, HistoryInv, SafetyInv, TypeInv, TypeOK
    <2> HIDE DEF added
    <2>6. /\ Listed(inv, mem[p].head) /\ inv.head = mem[p].head
          /\ \A v \in Versions : v # mem[p].head => inv.state[v] = mem[p].state[v]
      <3>1. CASE op[p].file = op[p].to
        BY <2>3, <2>4, <3>1
      <3>2. CASE op[p].file # op[p].to
        <4>1. Listed(RemoveContent(added, op[p].file), mem[p].head)
          BY <1>2, <1>3, <2>3, <2>4, RemoveContentListed
        <4>2. /\ RemoveContent(added, op[p].file).head = mem[p].head
              /\ \A v \in Versions : v # mem[p].head =>
                     RemoveContent(added, op[p].file).state[v] = added.state[v]
          BY <1>2, <1>3, <2>3, RemoveContentType
        <4>3. QED
          BY <2>3, <3>2, <4>1, <4>2
      <3>3. QED
        BY <3>1, <3>2
    <2> HIDE DEF inv
    <2>7. \A v \in Versions : v < HeadVersion(p) => inv.state[v] = mem[p].state[v]
      BY <1>3, <2>6 DEF Versions, HeadVersion
    <2>8. pc'[p] \in Opened \ {"rootInvEnd", "rootDigest", "cleanup"}
      BY <2>5 DEF Opened, PCs
    <2>9. QED
      BY <1>1, <2>5, <2>6, <2>7, <2>8, ListedGoesOn DEF HeadVersion
  <1>6. QED
    BY <1>4, <1>5 DEF CopyVersion

(* A delete drops a name and records nothing.                              *)
LEMMA DeleteListed ==
    ASSUME HistoryInv, NEW p, Procs = {p}, DeleteFile(p)
    PROVE  RootListed' /\ ListedKept(p)'
  <1> DEFINE inv == RemoveContent(mem[p], op[p].file)
  <1>1. /\ UNCHANGED rootInv /\ pc[p] = "content" /\ pc[p] \in Opened \ Committing
        /\ op[p].file \in Names
    BY OperationFields DEF DeleteFile, diskVars, Opened, PCs, Committing, HistoryInv,
       SafetyInv, TypeInv, TypeOK, Names
  <1>2. /\ mem[p] \in Inventory /\ mem[p].head \in Versions
        /\ Listed(mem[p], mem[p].head)
    BY <1>1, OpenFacts
  <1>3. CASE UNCHANGED mem /\ Goto(p, "rollback")
    BY <1>1, <1>3, ListedStays DEF Opened, PCs
  <1>4. CASE mem' = [mem EXCEPT ![p] = inv] /\ Goto(p, "verInv")
    <2>1. pc'[p] = "verInv" /\ mem'[p] = inv
      BY <1>4 DEF Goto, HistoryInv, SafetyInv, TypeInv, TypeOK
    <2>2. Listed(inv, mem[p].head)
      BY <1>1, <1>2, RemoveContentListed
    <2>3. /\ inv.head = mem[p].head
          /\ \A v \in Versions : v # mem[p].head => inv.state[v] = mem[p].state[v]
      BY <1>1, <1>2, RemoveContentType
    <2> HIDE DEF inv
    <2>4. \A v \in Versions : v < HeadVersion(p) => inv.state[v] = mem[p].state[v]
      BY <1>2, <2>3 DEF Versions, HeadVersion
    <2>5. pc'[p] \in Opened \ {"rootInvEnd", "rootDigest", "cleanup"}
      BY <2>1 DEF Opened, PCs
    <2>6. QED
      BY <1>1, <2>1, <2>2, <2>3, <2>4, <2>5, ListedGoesOn DEF HeadVersion
  <1>5. QED
    BY <1>3, <1>4 DEF DeleteFile

(* The steps from the version inventory to the end of the request.         *)
LEMMA CommitListed ==
    ASSUME HistoryInv, Serial, NEW p, Procs = {p},
           \/ TruncateRootInventory(p) \/ WriteRootInventory(p)
           \/ WriteRootDigest(p) \/ RemoveStagingFolder(p)
    PROVE  RootListed' /\ ListedKept(p)'
  <1>1. CASE TruncateRootInventory(p)
    <2>1. pc[p] = "rootInv" /\ pc'[p] = "rootInvEnd" /\ rootInv' = Torn /\ mem' = mem
      BY <1>1 DEF TruncateRootInventory, Goto, HistoryInv, SafetyInv, TypeInv, TypeOK
    <2>2. Listed(mem[p], HeadVersion(p))
      BY <2>1 DEF HistoryInv, ListedKept, Opened, PCs
    <2>3. ~Complete(Torn) /\ Torn # NoInv
      BY ConstantsAssumption DEF Complete
    <2>4. Continues(p)'
      BY <2>1, <2>3 DEF Continues
    <2>5. QED
      BY <2>1, <2>2, <2>3, <2>4 DEF RootListed, ListedKept, HeadVersion
  <1>2. CASE WriteRootInventory(p)
    <2>1. /\ pc[p] = "rootInvEnd" /\ pc'[p] = "rootDigest" /\ rootInv' = mem[p]
          /\ mem' = mem
      BY <1>2 DEF WriteRootInventory, Fails, Serial, Goto, HistoryInv, SafetyInv,
         TypeInv, TypeOK
    <2>2. Listed(mem[p], HeadVersion(p))
      BY <2>1 DEF HistoryInv, ListedKept, Opened, PCs
    <2>3. QED
      BY <2>1, <2>2 DEF RootListed, ListedKept, HeadVersion, Committing
  <1>3. CASE WriteRootDigest(p) \/ RemoveStagingFolder(p)
    <2>1. pc[p] \in Committing /\ UNCHANGED rootInv
      BY <1>3 DEF WriteRootDigest, RemoveStagingFolder, Committing, diskVars
    <2>2. CASE Return(p)
      BY <2>1, <2>2, ListedReturn
    <2>3. CASE Goto(p, "cleanup") /\ UNCHANGED mem
      <3>1. pc'[p] = "cleanup"
        BY <2>3 DEF Goto, HistoryInv, SafetyInv, TypeInv, TypeOK
      <3>2. Listed(mem[p], HeadVersion(p))
        BY <2>1 DEF HistoryInv, ListedKept, Opened, Committing, PCs
      <3>3. QED
        BY <2>1, <2>3, <3>1, <3>2 DEF HistoryInv, RootListed, ListedKept, HeadVersion, Committing
    <2>4. QED
      BY <1>3, <2>2, <2>3 DEF WriteRootDigest, RemoveStagingFolder, Fails, Serial
  <1>4. QED
    BY <1>1, <1>2, <1>3

(* The history invariant holds at the start and is kept by every step.      *)
LEMMA InitHistory == Init => HistoryInv
  <1> SUFFICES ASSUME Init PROVE HistoryInv
    OBVIOUS
  <1>1. RootListed
    BY DEF Init, RootListed, Complete
  <1>2. ASSUME NEW p \in Procs PROVE ListedKept(p)
    BY <1>2 DEF Init, ListedKept, Opened
  <1>3. QED
    BY <1>1, <1>2, InitSafety DEF HistoryInv

(* Every step of a serial object keeps it.                                 *)
LEMMA HistoryStep == ASSUME Serial PROVE HistoryInv /\ [Next]_vars => HistoryInv'
  <1> SUFFICES ASSUME HistoryInv, [Next]_vars PROVE HistoryInv'
    OBVIOUS
  <1>1. PICK p : Procs = {p}
    BY DEF Serial
  <1>2. SafetyInv'
    BY SafetyStep DEF HistoryInv
  <1>3. RootListed' /\ ListedKept(p)'
    <2>1. ASSUME NEW o \in Operations, Start(p, o) PROVE RootListed' /\ ListedKept(p)'
      <3>1. UNCHANGED rootInv /\ pc'[p] = "init"
        BY <1>1, <2>1 DEF Start, Goto, diskVars, HistoryInv, SafetyInv, TypeInv, TypeOK
      <3>2. QED
        BY <1>1, <3>1, ListedClosed
    <2>2. CASE InitializeStructure(p)
      <3>1. UNCHANGED rootInv
        BY <2>2 DEF InitializeStructure
      <3>2. CASE Return(p)
        BY <1>1, <3>1, <3>2, ListedReturn
      <3>3. CASE Goto(p, "load")
        <4>1. pc'[p] = "load"
          BY <1>1, <3>3 DEF Goto, HistoryInv, SafetyInv, TypeInv, TypeOK
        <4>2. QED
          BY <1>1, <3>1, <4>1, ListedClosed
      <3>4. QED
        BY <2>2, <3>2, <3>3, Zenon DEF InitializeStructure
    <2>3. CASE MoveStaged(p) \/ RenameFails(p) \/ HashFails(p) \/ CopyStaged(p)
      <3>1. /\ UNCHANGED rootInv /\ pc[p] \in {"content", "copy"}
            /\ pc[p] \in Opened \ Committing
        BY <2>3 DEF MoveStaged, RenameFails, HashFails, CopyStaged, diskVars,
           Opened, PCs, Committing
      <3>2. CASE UNCHANGED mem /\ \E l \in {"copy", "removeStaged", "rollback"} : Goto(p, l)
        BY <1>1, <3>1, <3>2, ListedStays DEF Opened, PCs
      <3>3. CASE pc[p] = "content" /\ op[p].kind = "promote" /\ RecordUpload(p)
                 /\ Goto(p, "metadata")
        BY <1>1, <3>1, <3>3, ListedUpload
      <3>4. QED
        BY <2>3, <3>2, <3>3 DEF MoveStaged, RenameFails, HashFails, CopyStaged
    <2>4. CASE RemoveStaged(p) \/ StreamContent(p)
      <3>1. /\ UNCHANGED rootInv /\ pc[p] \in {"content", "removeStaged"}
            /\ pc[p] \in Opened \ Committing /\ op[p].kind \in {"promote", "stream"}
        BY <1>1, <2>4 DEF RemoveStaged, StreamContent, Opened, PCs, Committing,
           HistoryInv, SafetyInv, TypeInv, Placed
      <3>2. CASE UNCHANGED mem /\ Goto(p, "rollback")
        BY <1>1, <3>1, <3>2, ListedStays DEF Opened, PCs
      <3>3. CASE RecordUpload(p) /\ Goto(p, "metadata")
        BY <1>1, <3>1, <3>3, ListedUpload
      <3>4. QED
        BY <2>4, <3>2, <3>3 DEF RemoveStaged, StreamContent
    <2>5. CASE WriteVersionInventory(p)
      <3>1. /\ UNCHANGED <<rootInv, mem>> /\ pc[p] \in Opened \ Committing
            /\ \E l \in {"rootInv", "rollback"} : Goto(p, l)
        BY <2>5 DEF WriteVersionInventory, Opened, PCs, Committing
      <3>2. QED
        BY <1>1, <3>1, ListedStays DEF Opened, PCs
    <2>6. CASE RollbackVersion(p)
      BY <1>1, <2>6, ListedReturn DEF RollbackVersion
    <2>7. CASE Crash
      <3>1. UNCHANGED rootInv /\ pc'[p] = "idle"
        BY <1>1, <2>7 DEF Crash, diskVars
      <3>2. QED
        BY <1>1, <3>1, ListedClosed
    <2>8. CASE UNCHANGED vars
      <3>1. UNCHANGED <<rootInv, pc, mem>>
        BY <2>8 DEF vars, diskVars, procVars
      <3>2. QED
        BY <1>1, <3>1 DEF HistoryInv, RootListed, ListedKept, Continues, HeadVersion
    <2>9. CASE Step(p)
      BY <1>1, <2>1, <2>2, <2>3, <2>4, <2>5, <2>6, <2>9, LoadListed, OpenVersionListed,
         MetadataListed, CopyListed, DeleteListed, CommitListed DEF Step
    <2>10. QED
      BY <1>1, <2>7, <2>8, <2>9 DEF Next
  <1>4. QED
    BY <1>1, <1>2, <1>3 DEF HistoryInv
-----------------------------------------------------------------------------
(* The refinement.                                                         *)

(* The history is that of an inventory all of whose hashes are listed and   *)
(* held: nothing in it reads as torn.                                      *)
LEMMA HeldIsState ==
    ASSUME NEW inv, NEW n \in Nat, Committed.head = n, n <= MaxVersion,
           Committed.state = inv.state, Committed.manifest = inv.manifest,
           Listed(inv, n), NEW last, ManifestHeld(disk, inv, last),
           NEW v \in 1 .. n, NEW f \in Names
    PROVE  HeldContent(v, f) = inv.state[v][f]
  <1>1. v \in Versions /\ v <= n
    BY ConstantsAssumption DEF Versions
  <1>2. CASE inv.state[v][f] = None
    BY <1>2 DEF HeldContent
  <1>3. CASE inv.state[v][f] # None
    <2>1. PICK w \in Versions, g \in Names :
              w <= v /\ inv.manifest[w][g] = inv.state[v][f]
      BY <1>1, <1>3 DEF Listed
    <2>2. w \in 1 .. v /\ disk[w][g] = inv.state[v][f]
      BY <1>1, <1>3, <2>1 DEF Versions, ManifestHeld
    <2>3. QED
      BY <2>1, <2>2 DEF HeldContent
  <1>4. QED
    BY <1>2, <1>3

(* The inventory a reader of the committed history finds.                   *)
HistoryOf(inv, n) == [v \in 1 .. n |-> [f \in Names |-> inv.state[v][f]]]

(* The history is that of the root inventory.                              *)
LEMMA CompleteHistory ==
    HistoryInv /\ Complete(rootInv) =>
        /\ History = HistoryOf(rootInv, rootInv.head)
        /\ rootInv \in Inventory /\ rootInv.head \in Versions
  <1> SUFFICES ASSUME HistoryInv, Complete(rootInv)
               PROVE  /\ History = HistoryOf(rootInv, rootInv.head)
                      /\ rootInv \in Inventory /\ rootInv.head \in Versions
    OBVIOUS
  <1>1. /\ rootInv \in Inventory /\ rootInv.head \in Versions
        /\ ManifestHeld(disk, rootInv, rootInv.head)
        /\ Listed(rootInv, rootInv.head)
    BY DEF HistoryInv, SafetyInv, TypeInv, TypeOK, RootKept, RootListed, Complete
  <1>2. Committed = rootInv
    BY DEF Committed
  <1>3. rootInv.head \in Nat /\ rootInv.head <= MaxVersion
    BY <1>1, ConstantsAssumption DEF Versions
  <1>4. \A v \in 1 .. rootInv.head, f \in Names :
            HeldContent(v, f) = rootInv.state[v][f]
    BY <1>1, <1>2, <1>3, HeldIsState
  <1>5. QED
    BY <1>1, <1>2, <1>4 DEF History, HistoryOf

(* While the root inventory is rewritten, the history is that of its writer. *)
LEMMA WritingHistory ==
    HistoryInv => \A p \in Procs : Procs = {p} /\ pc[p] = "rootInvEnd" =>
        /\ History = HistoryOf(mem[p], mem[p].head - 1)
        /\ mem[p] \in Inventory /\ mem[p].head \in Versions /\ rootInv = Torn
  <1> SUFFICES ASSUME HistoryInv, NEW p \in Procs, Procs = {p}, pc[p] = "rootInvEnd"
               PROVE  /\ History = HistoryOf(mem[p], HeadVersion(p) - 1)
                      /\ mem[p] \in Inventory /\ HeadVersion(p) \in Versions
                      /\ rootInv = Torn
    BY DEF HeadVersion
  <1>1. /\ mem[p] \in Inventory /\ HeadVersion(p) \in Versions /\ rootInv = Torn
        /\ ManifestHeld(disk, mem[p], HeadVersion(p))
        /\ Listed(mem[p], HeadVersion(p))
    BY DEF HistoryInv, SafetyInv, TypeInv, TypeOK, Placed, RequestKept, RecordedKept,
       Recorded, ListedKept, Opened, PCs
  <1> DEFINE old == [mem[p] EXCEPT !.head = @ - 1]
             n == HeadVersion(p) - 1
  <1>2. (CHOOSE q \in Procs : Writing(q)) = p /\ \E q \in Procs : Writing(q)
    BY DEF Writing
  <1>3. Committed = old
    BY <1>1, <1>2 DEF Committed, Complete
  <1>4. old.head = n /\ old.state = mem[p].state /\ old.manifest = mem[p].manifest
    BY <1>1 DEF Inventory, HeadVersion
  <1>5. n \in Nat /\ n <= MaxVersion
    BY <1>1, ConstantsAssumption DEF Versions
  <1> HIDE DEF old
  <1>6. Listed(mem[p], n)
    BY <1>1 DEF Listed, Versions
  <1> HIDE DEF n
  <1>7. \A v \in 1 .. n, f \in Names : HeldContent(v, f) = mem[p].state[v][f]
    BY <1>1, <1>3, <1>4, <1>5, <1>6, HeldIsState
  <1>8. History = HistoryOf(mem[p], n)
    BY <1>3, <1>4, <1>7 DEF History, HistoryOf
  <1>9. QED
    BY <1>1, <1>8 DEF n

(* Without a root inventory there is no history.                           *)
LEMMA NoHistory ==
    HistoryInv /\ rootInv = NoInv => History = <<>>
  <1> SUFFICES ASSUME HistoryInv, rootInv = NoInv PROVE History = <<>>
    OBVIOUS
  <1>1. \A p \in Procs : ~Writing(p)
    BY ConstantsAssumption DEF HistoryInv, ListedKept, Writing
  <1>2. Committed = EmptyInv
    BY <1>1 DEF Committed, Complete
  <1>3. Committed.head = 0
    BY <1>2 DEF EmptyInv
  <1>4. QED
    BY <1>3 DEF History

(* The same of the next state.                                             *)
LEMMA HistoryNext ==
    /\ HistoryInv' /\ Complete(rootInv)' =>
           History' = HistoryOf(rootInv', rootInv'.head)
    /\ HistoryInv' => \A p \in Procs : Procs = {p} /\ pc'[p] = "rootInvEnd" =>
           History' = HistoryOf(mem'[p], mem'[p].head - 1)
    /\ HistoryInv' /\ rootInv' = NoInv => History' = <<>>
  <1>1. (HistoryInv /\ Complete(rootInv) =>
            /\ History = HistoryOf(rootInv, rootInv.head)
            /\ rootInv \in Inventory /\ rootInv.head \in Versions)'
    BY CompleteHistory, PTL
  <1>2. (HistoryInv => \A p \in Procs : Procs = {p} /\ pc[p] = "rootInvEnd" =>
            /\ History = HistoryOf(mem[p], mem[p].head - 1)
            /\ mem[p] \in Inventory /\ mem[p].head \in Versions /\ rootInv = Torn)'
    BY WritingHistory, PTL
  <1>3. (HistoryInv /\ rootInv = NoInv => History = <<>>)'
    BY NoHistory, PTL
  <1>4. QED
    BY <1>1, <1>2, <1>3 DEF HistoryOf

(* The history of an inventory has one version per number up to its head.  *)
LEMMA HistoryOfType ==
    ASSUME NEW inv \in Inventory, NEW n \in Nat, n <= MaxVersion
    PROVE  /\ Len(HistoryOf(inv, n)) = n
           /\ \A v \in 1 .. n : /\ HistoryOf(inv, n)[v] = [f \in Names |-> inv.state[v][f]]
                                /\ HistoryOf(inv, n)[v] \in VO!VersionState
  <1>1. \A v \in 1 .. n : v \in Versions
    BY ConstantsAssumption DEF Versions
  <1>2. \A v \in 1 .. n : [f \in Names |-> inv.state[v][f]] \in VO!VersionState
    BY <1>1 DEF VO!VersionState, Inventory, FileMap
  <1>3. HistoryOf(inv, n) \in Seq(VO!VersionState)
    BY <1>2 DEF HistoryOf
  <1>4. QED
    BY <1>2, <1>3 DEF HistoryOf

(* One version more is what an abstract commit adds.                       *)
LEMMA CommitHistory ==
    ASSUME NEW inv \in Inventory, NEW n \in Nat, n + 1 <= MaxVersion,
           History = HistoryOf(inv, n), History' = HistoryOf(inv, n + 1)
    PROVE  VO!Commit
  <1>1. n + 1 \in Nat /\ n <= MaxVersion
    BY ConstantsAssumption
  <1>2. /\ Len(HistoryOf(inv, n)) = n
        /\ \A v \in 1 .. n : HistoryOf(inv, n)[v] = [f \in Names |-> inv.state[v][f]]
    BY <1>1, HistoryOfType
  <1>3. /\ Len(HistoryOf(inv, n + 1)) = n + 1
        /\ \A v \in 1 .. n + 1 :
              /\ HistoryOf(inv, n + 1)[v] = [f \in Names |-> inv.state[v][f]]
              /\ HistoryOf(inv, n + 1)[v] \in VO!VersionState
    BY <1>1, HistoryOfType
  <1> HIDE DEF HistoryOf
  <1>4. \A v \in 1 .. n : HistoryOf(inv, n + 1)[v] = HistoryOf(inv, n)[v]
    BY <1>2, <1>3
  <1>5. HistoryOf(inv, n + 1)[n + 1] \in VO!VersionState
    <2>1. n + 1 \in 1 .. n + 1
      OBVIOUS
    <2>2. QED
      BY <1>3, <2>1, Zenon
  <1>6. QED
    BY <1>2, <1>3, <1>4, <1>5 DEF VO!Commit

(* Only two steps write the root inventory, and between them no other step *)
(* of a serial object is taken.                                            *)
LEMMA RootSteps ==
    ASSUME Serial, NEW p, Procs = {p}, [Next]_vars
    PROVE  /\ TruncateRootInventory(p) \/ WriteRootInventory(p) \/ UNCHANGED rootInv
           /\ pc[p] = "rootInvEnd" => WriteRootInventory(p) \/ UNCHANGED vars
  <1>1. CASE Crash
    BY <1>1 DEF Crash, Serial, diskVars
  <1>2. CASE UNCHANGED vars
    BY <1>2 DEF vars, diskVars
  <1>3. ASSUME NEW o \in Operations, Start(p, o)
        PROVE  UNCHANGED rootInv /\ pc[p] # "rootInvEnd"
    BY <1>3 DEF Start, diskVars
  <1>4. CASE InitializeStructure(p) \/ LoadInventory(p) \/ OpenVersion(p)
    BY <1>4 DEF InitializeStructure, LoadInventory, OpenVersion, diskVars
  <1>5. CASE MoveStaged(p) \/ RenameFails(p) \/ HashFails(p) \/ CopyStaged(p)
    BY <1>5 DEF MoveStaged, RenameFails, HashFails, CopyStaged, diskVars
  <1>6. CASE \/ RemoveStaged(p) \/ StreamContent(p) \/ WriteMetadata(p)
             \/ CopyVersion(p) \/ DeleteFile(p) \/ WriteVersionInventory(p)
    BY <1>6 DEF RemoveStaged, StreamContent, WriteMetadata, CopyVersion, DeleteFile,
       WriteVersionInventory, diskVars
  <1>7. CASE WriteRootDigest(p) \/ RemoveStagingFolder(p) \/ RollbackVersion(p)
    BY <1>7 DEF WriteRootDigest, RemoveStagingFolder, RollbackVersion, diskVars
  <1>8. TruncateRootInventory(p) => pc[p] # "rootInvEnd"
    BY DEF TruncateRootInventory
  <1>9. CASE Step(p)
    BY <1>3, <1>4, <1>5, <1>6, <1>7, <1>8, <1>9 DEF Step
  <1>10. QED
    BY <1>1, <1>2, <1>9 DEF Next

(* Every step commits one version or changes nothing a caller can see.      *)
LEMMA HistoryStepSimulated ==
    ASSUME Serial, HistoryInv, HistoryInv', [Next]_vars
    PROVE  [VO!Commit]_History
  <1>1. PICK p : Procs = {p}
    BY DEF Serial
  <1>2. CASE WriteRootInventory(p)
    <2>1. /\ pc[p] = "rootInvEnd" /\ rootInv' = mem[p]
      BY <1>2 DEF WriteRootInventory, Fails, Serial
    <2>2. /\ History = HistoryOf(mem[p], HeadVersion(p) - 1)
          /\ mem[p] \in Inventory /\ HeadVersion(p) \in Versions
      BY <1>1, <2>1, WritingHistory DEF HeadVersion
    <2>3. Complete(rootInv)'
      BY <2>1, <2>2, ConstantsAssumption DEF Complete
    <2>4. History' = HistoryOf(mem[p], HeadVersion(p))
      BY <2>1, <2>3, HistoryNext DEF HeadVersion
    <2>5. HeadVersion(p) - 1 \in Nat /\ (HeadVersion(p) - 1) + 1 = HeadVersion(p) /\ HeadVersion(p) <= MaxVersion
      BY <2>2, ConstantsAssumption DEF Versions
    <2>6. VO!Commit
      BY <2>2, <2>4, <2>5, CommitHistory
    <2>7. QED
      BY <2>6
  <1>3. CASE TruncateRootInventory(p)
    <2>1. /\ pc[p] = "rootInv" /\ pc'[p] = "rootInvEnd" /\ rootInv' = Torn /\ mem' = mem
      BY <1>1, <1>3 DEF TruncateRootInventory, Goto, HistoryInv, SafetyInv, TypeInv, TypeOK
    <2>2. History' = HistoryOf(mem[p], HeadVersion(p) - 1)
      BY <1>1, <2>1, HistoryNext DEF HeadVersion
    <2>3. pc[p] \in Opened \ Committing
      BY <2>1 DEF Opened, PCs, Committing
    <2>4. Continues(p) /\ HeadVersion(p) \in Versions
      BY <1>1, <2>3 DEF HistoryInv, ListedKept, SafetyInv, TypeInv, Placed
    <2>5. rootInv # Torn
      BY <1>1, <2>1 DEF HistoryInv, SafetyInv, RootKept
    <2>6. CASE Complete(rootInv)
      <3>1. History = HistoryOf(rootInv, rootInv.head)
        BY <2>6, CompleteHistory
      <3>2. rootInv.head = HeadVersion(p) - 1
        BY <1>1, <2>3, <2>6 DEF HistoryInv, SafetyInv, RequestKept, OpenedKept
      <3>3. \A v \in 1 .. HeadVersion(p) - 1 : mem[p].state[v] = rootInv.state[v]
        <4>1. \A v \in 1 .. HeadVersion(p) - 1 : v \in Versions /\ v < HeadVersion(p)
          BY <2>4, ConstantsAssumption DEF Versions
        <4>2. QED
          BY <2>4, <2>6, <4>1 DEF Continues
      <3>4. HistoryOf(rootInv, HeadVersion(p) - 1) = HistoryOf(mem[p], HeadVersion(p) - 1)
        BY <3>3 DEF HistoryOf
      <3>5. QED
        BY <2>2, <3>1, <3>2, <3>4
    <2>7. CASE rootInv = NoInv
      <3>1. History = <<>>
        BY <2>7, NoHistory
      <3>2. HeadVersion(p) - 1 = 0
        BY <2>4, <2>7 DEF Continues
      <3>3. HistoryOf(mem[p], 0) = <<>>
        BY DEF HistoryOf
      <3>4. QED
        BY <2>2, <3>1, <3>2, <3>3
    <2>8. QED
      BY <2>5, <2>6, <2>7 DEF Complete
  <1>4. CASE UNCHANGED rootInv
    <2>1. CASE Complete(rootInv)
      <3>1. Complete(rootInv)'
        BY <1>4, <2>1 DEF Complete
      <3>2. QED
        BY <1>4, <2>1, <3>1, CompleteHistory, HistoryNext
    <2>2. CASE rootInv = NoInv
      BY <1>4, <2>2, NoHistory, HistoryNext
    <2>3. CASE rootInv = Torn
      <3>1. pc[p] = "rootInvEnd" /\ pc'[p] = "rootInvEnd"
        BY <1>1, <1>4, <2>3 DEF HistoryInv, SafetyInv, RootKept
      <3>2. UNCHANGED vars
        <4>1. mem[p] # Torn
          BY <1>1, ConstantsAssumption DEF HistoryInv, SafetyInv, TypeInv, TypeOK
        <4>2. ~WriteRootInventory(p)
          BY <1>4, <2>3, <4>1 DEF WriteRootInventory, Fails, Serial
        <4>3. QED
          BY <1>1, <3>1, <4>2, RootSteps
      <3>3. mem' = mem
        BY <3>2 DEF vars, procVars
      <3>4. QED
        BY <1>1, <3>1, <3>3, WritingHistory, HistoryNext
    <2>4. QED
      BY <2>1, <2>2, <2>3 DEF Complete
  <1>5. QED
    BY <1>1, <1>2, <1>3, <1>4, RootSteps

(* One request at a time, the folders implement VersionedObject.            *)
THEOREM ImplementsVersions == ASSUME Serial PROVE Spec => ImplementsVersionedObject
  <1>1. Init => VO!Init
    <2> SUFFICES ASSUME Init PROVE VO!Init
      OBVIOUS
    <2>1. rootInv = NoInv
      BY DEF Init
    <2>2. History = <<>>
      BY <2>1, InitHistory, NoHistory
    <2>3. QED
      BY <2>2 DEF VO!Init
  <1>2. HistoryInv /\ HistoryInv' /\ [Next]_vars => [VO!Commit]_History
    BY HistoryStepSimulated
  <1>3. Spec => []HistoryInv
    BY InitHistory, HistoryStep, PTL DEF Spec
  <1>4. Spec => VO!Spec
    BY <1>1, <1>2, <1>3, PTL DEF Spec, VO!Spec
  <1>5. QED
    BY <1>4 DEF ImplementsVersionedObject
-----------------------------------------------------------------------------
(* Every failed request is rolled back: its rollback does not fail and the  *)
(* server does not go down before it.                                      *)
RolledBack == "rollback" \notin FailSteps /\ MaxCrashes = 0

(* The folders d hold no file that the inventory does not list.             *)
Tidy(d, inv, n) ==
    \A v \in Versions, f \in Names :
        v <= n /\ d[v][f] # None => inv.manifest[v][f] = d[v][f]

(* Every version folder holds an inventory whose files are there.           *)
VersionsHeld(d, i, n) ==
    \A v \in Versions : v <= n =>
        i[v] \in Inventory /\ i[v].head = v /\ ManifestHeld(d, i[v], v)

EmptyAbove(d, n) == \A v \in Versions : v > n => d[v] = NoFiles

RootHead == IF Complete(rootInv) THEN rootInv.head ELSE 0

RootValid ==
    Complete(rootInv) => /\ Tidy(disk, rootInv, rootInv.head)
                         /\ VersionsHeld(disk, verInv, rootInv.head)
                         /\ \/ rootDigest = rootInv
                            \/ \E p \in Procs : pc[p] = "rootDigest"

ValidKept(p) ==
    /\ pc[p] \notin Opened => EmptyAbove(disk, RootHead)
    /\ pc[p] \in Opened => EmptyAbove(disk, HeadVersion(p))
    /\ pc[p] \in {"content", "copy"} => disk[HeadVersion(p)] = NoFiles
    /\ pc[p] = "removeStaged" =>
           \A f \in Names : f # op[p].file => disk[HeadVersion(p)][f] = None
    /\ pc[p] \in Recorded => Tidy(disk, mem[p], HeadVersion(p))
    /\ pc[p] \in Opened \ Committing =>
           /\ Tidy(disk, mem[p], HeadVersion(p) - 1)
           /\ VersionsHeld(disk, verInv, HeadVersion(p) - 1)

ValidInv == HistoryInv /\ RootValid /\ \A p \in Procs : ValidKept(p)

(* What folders hold only depends on what is in them.                       *)
LEMMA TidyFrame ==
    ASSUME NEW d, NEW e, NEW inv, NEW new, NEW n, Tidy(d, inv, n),
           \A v \in Versions : v <= n => e[v] = d[v],
           \A v \in Versions, f \in Names : v <= n => new.manifest[v][f] = inv.manifest[v][f]
    PROVE  Tidy(e, new, n)
  BY DEF Tidy

(* The same of the inventories in the version folders.                     *)
LEMMA VersionsFrame ==
    ASSUME NEW d, NEW e, NEW i, NEW j, NEW n \in Nat, VersionsHeld(d, i, n),
           \A v \in Versions : v <= n => e[v] = d[v],
           \A v \in Versions : v <= n => j[v] = i[v]
    PROVE  VersionsHeld(e, j, n)
  <1>1. ASSUME NEW v \in Versions, v <= n PROVE ManifestHeld(e, j[v], v)
    <2>1. ManifestHeld(d, i[v], v) /\ j[v] = i[v]
      BY <1>1 DEF VersionsHeld
    <2>2. \A w \in Versions : w <= v => e[w] = d[w]
      BY <1>1, ConstantsAssumption DEF Versions
    <2>3. QED
      BY <2>1, <2>2, ManifestFrame
  <1>2. QED
    BY <1>1 DEF VersionsHeld

(* Before and after a version is open.                                     *)
LEMMA ValidClosed ==
    ASSUME ValidInv, NEW p, Procs = {p}, UNCHANGED <<rootInv, rootDigest, verInv, disk>>,
           pc[p] \notin Opened, pc'[p] \notin Opened
    PROVE  RootValid' /\ ValidKept(p)'
  <1>1. pc[p] # "rootDigest" /\ EmptyAbove(disk, RootHead)
    BY DEF ValidInv, ValidKept, Opened, PCs
  <1>2. RootValid'
    BY <1>1 DEF ValidInv, RootValid, Complete
  <1>3. EmptyAbove(disk', RootHead')
    BY <1>1 DEF RootHead, Complete
  <1>4. ValidKept(p)'
    BY <1>3 DEF ValidKept, Opened, PCs, Recorded
  <1>5. QED
    BY <1>2, <1>4

(* Inside the open version only that version changes.                      *)
LEMMA ValidGoesOn ==
    ASSUME ValidInv, NEW p, Procs = {p}, UNCHANGED <<rootInv, rootDigest>>,
           pc[p] \in Opened \ Committing, pc[p] # "rootInvEnd",
           pc'[p] \in Opened \ Committing,
           NEW inv, mem'[p] = inv, inv.head = HeadVersion(p),
           \A v \in Versions, f \in Names :
               v <= HeadVersion(p) - 1 => inv.manifest[v][f] = mem[p].manifest[v][f],
           \A v \in Versions :
               v # HeadVersion(p) => disk'[v] = disk[v] /\ verInv'[v] = verInv[v],
           pc'[p] \in {"content", "copy"} => disk'[HeadVersion(p)] = NoFiles,
           pc'[p] = "removeStaged" =>
               \A f \in Names : f # op'[p].file => disk'[HeadVersion(p)][f] = None,
           pc'[p] \in Recorded => \A f \in Names :
               disk'[HeadVersion(p)][f] # None =>
                   inv.manifest[HeadVersion(p)][f] = disk'[HeadVersion(p)][f]
    PROVE  RootValid' /\ ValidKept(p)'
  <1> DEFINE h == HeadVersion(p)
  <1>1. h' = h
    BY DEF HeadVersion
  <1>2. h \in Versions /\ h \in Nat /\ h - 1 \in Nat /\ Versions \subseteq Nat
    BY ConstantsAssumption DEF ValidInv, HistoryInv, SafetyInv, TypeInv, Placed, Versions
  <1>3. \A v \in Versions : v <= h - 1 => disk'[v] = disk[v] /\ verInv'[v] = verInv[v]
    BY <1>2
  <1>4. Tidy(disk, mem[p], h - 1) /\ VersionsHeld(disk, verInv, h - 1) /\ EmptyAbove(disk, h)
    BY DEF ValidInv, ValidKept
  <1> HIDE DEF h
  <1>5. Tidy(disk', inv, h - 1)
    BY <1>3, <1>4, TidyFrame DEF h
  <1>6. VersionsHeld(disk', verInv', h - 1)
    BY <1>2, <1>3, <1>4, VersionsFrame
  <1>7. EmptyAbove(disk', h)
    BY <1>2, <1>4 DEF EmptyAbove, h
  <1>8. pc'[p] \in Recorded => Tidy(disk', inv, h)
    <2> SUFFICES ASSUME pc'[p] \in Recorded, NEW v \in Versions, NEW f \in Names,
                        v <= h, disk'[v][f] # None
                 PROVE  inv.manifest[v][f] = disk'[v][f]
      BY DEF Tidy
    <2>1. CASE v = h
      BY <2>1 DEF h
    <2>2. CASE v # h
      <3>1. v <= h - 1
        BY <1>2, <2>2
      <3>2. QED
        BY <1>5, <3>1 DEF Tidy
    <2>3. QED
      BY <2>1, <2>2
  <1>9. ValidKept(p)'
    BY <1>1, <1>5, <1>6, <1>7, <1>8 DEF ValidKept, h
  <1>10. RootValid'
    <2> SUFFICES ASSUME Complete(rootInv)
                 PROVE  /\ Tidy(disk', rootInv, rootInv.head)
                        /\ VersionsHeld(disk', verInv', rootInv.head)
                        /\ rootDigest = rootInv
      BY DEF RootValid, Complete
    <2>1. rootInv.head = h - 1
      BY DEF ValidInv, HistoryInv, SafetyInv, RequestKept, OpenedKept, h
    <2>2. /\ Tidy(disk, rootInv, rootInv.head)
          /\ VersionsHeld(disk, verInv, rootInv.head)
          /\ rootDigest = rootInv
      BY DEF ValidInv, RootValid, Committing
    <2>3. Tidy(disk', rootInv, rootInv.head)
      BY <1>3, <2>1, <2>2, TidyFrame
    <2>4. VersionsHeld(disk', verInv', rootInv.head)
      BY <1>2, <1>3, <2>1, <2>2, VersionsFrame
    <2>5. QED
      BY <2>2, <2>3, <2>4
  <1>11. QED
    BY <1>9, <1>10

(* ... in memory nothing changes, as when an operation turns to rollback.   *)
LEMMA ValidStays ==
    ASSUME ValidInv, NEW p, Procs = {p}, UNCHANGED <<rootInv, rootDigest, mem, op>>,
           pc[p] \in Opened \ Committing, pc[p] # "rootInvEnd",
           NEW l \in Opened \ Committing, Goto(p, l),
           \A v \in Versions :
               v # HeadVersion(p) => disk'[v] = disk[v] /\ verInv'[v] = verInv[v],
           l \in {"content", "copy"} => disk'[HeadVersion(p)] = NoFiles,
           l = "removeStaged" =>
               \A f \in Names : f # op[p].file => disk'[HeadVersion(p)][f] = None,
           l \in Recorded => pc[p] \in Recorded /\ UNCHANGED disk
    PROVE  RootValid' /\ ValidKept(p)'
  <1>1. pc'[p] = l
    BY DEF Goto, ValidInv, HistoryInv, SafetyInv, TypeInv, TypeOK
  <1>2. pc[p] \in Recorded => Tidy(disk, mem[p], HeadVersion(p))
    BY DEF ValidInv, ValidKept
  <1>3. HeadVersion(p) \in Versions /\ HeadVersion(p) <= HeadVersion(p)
    BY ConstantsAssumption DEF ValidInv, HistoryInv, SafetyInv, TypeInv, Placed, Versions
  <1>4. l \in Recorded => \A f \in Names :
            disk'[HeadVersion(p)][f] # None =>
                mem[p].manifest[HeadVersion(p)][f] = disk'[HeadVersion(p)][f]
    BY <1>2, <1>3 DEF Tidy
  <1> DEFINE inv == mem[p]
  <1>5. mem'[p] = inv /\ inv.head = HeadVersion(p)
    BY DEF HeadVersion
  <1>6. \A v \in Versions, f \in Names :
            v <= HeadVersion(p) - 1 => inv.manifest[v][f] = mem[p].manifest[v][f]
    OBVIOUS
  <1>7. l = "removeStaged" =>
            \A f \in Names : f # op'[p].file => disk'[HeadVersion(p)][f] = None
    OBVIOUS
  <1> HIDE DEF inv
  <1>8. QED
    BY <1>1, <1>4, <1>5, <1>6, <1>7, ValidGoesOn DEF inv

(* A version is opened above everything on disk.                           *)
LEMMA OpenVersionValid ==
    ASSUME ValidInv, NEW p, Procs = {p}, OpenVersion(p)
    PROVE  RootValid' /\ ValidKept(p)'
  <1>1. /\ UNCHANGED <<rootInv, rootDigest, verInv, disk>> /\ pc[p] = "addVersion"
        /\ HeadVersion(p) < MaxVersion /\ pc[p] \notin Opened
    BY DEF OpenVersion, Opened
  <1>2. CASE Return(p)
    <2>1. pc'[p] \notin Opened
      BY <1>2 DEF Return, Goto, Opened, ValidInv, HistoryInv, SafetyInv, TypeInv, TypeOK
    <2>2. QED
      BY <1>1, <2>1, ValidClosed
  <1>3. CASE /\ mem' = [mem EXCEPT ![p] = AddVersion(mem[p])]
             /\ Goto(p, IF op[p].kind = "updateMetadata" THEN "metadata" ELSE "content")
    <2> DEFINE inv == AddVersion(mem[p])
               h == HeadVersion(p)
    <2>1. /\ pc'[p] \in {"metadata", "content"} /\ mem'[p] = inv
          /\ mem[p] \in Inventory /\ h \in Nat
      BY <1>3 DEF Goto, ValidInv, HistoryInv, SafetyInv, TypeInv, TypeOK, Inventory, HeadVersion
    <2>2. inv.head = h + 1 /\ inv.manifest = mem[p].manifest
      BY <1>1, <2>1, AddVersionType DEF HeadVersion
    <2>3. IF Complete(rootInv) THEN mem[p] = rootInv ELSE h = 0
      BY <1>1 DEF ValidInv, HistoryInv, ListedKept
    <2>4. RootHead = h
      BY <2>3 DEF RootHead, HeadVersion
    <2>5. EmptyAbove(disk, h)
      BY <1>1, <2>4 DEF ValidInv, ValidKept
    <2>6. h + 1 \in Versions /\ Versions \subseteq Nat \ {0}
      BY <1>1, <2>1, ConstantsAssumption DEF Versions
    <2>7. Tidy(disk, mem[p], h) /\ VersionsHeld(disk, verInv, h)
      <3>1. CASE Complete(rootInv)
        BY <2>3, <3>1 DEF ValidInv, RootValid, HeadVersion
      <3>2. CASE h = 0
        BY <2>6, <3>2 DEF Tidy, VersionsHeld
      <3>3. QED
        BY <2>3, <3>1, <3>2
    <2> HIDE DEF inv, h
    <2>8. HeadVersion(p)' = h + 1 /\ (h + 1) - 1 = h
      BY <2>1, <2>2 DEF HeadVersion
    <2>9. EmptyAbove(disk, h + 1) /\ disk[h + 1] = NoFiles
      BY <2>1, <2>5, <2>6 DEF EmptyAbove
    <2>10. Tidy(disk, inv, h)
      BY <2>2, <2>7 DEF Tidy
    <2>11. Tidy(disk, inv, h + 1)
      <3> SUFFICES ASSUME NEW v \in Versions, NEW f \in Names, v <= h + 1, disk[v][f] # None
                   PROVE  inv.manifest[v][f] = disk[v][f]
        BY DEF Tidy
      <3>1. v # h + 1
        BY <2>9 DEF NoFiles
      <3>2. v <= h
        BY <2>1, <2>6, <3>1
      <3>3. QED
        BY <2>10, <3>2 DEF Tidy
    <2>12. RootValid'
      BY <1>1 DEF ValidInv, RootValid, Complete
    <2>13. ValidKept(p)'
      BY <1>1, <2>1, <2>7, <2>8, <2>9, <2>10, <2>11 DEF ValidKept, Opened, PCs
    <2>14. QED
      BY <2>12, <2>13
  <1>4. QED
    BY <1>2, <1>3 DEF OpenVersion

(* Recording what was just written into the open version, until then empty  *)
(* but for that file.                                                      *)
LEMMA ValidUpload ==
    ASSUME ValidInv, NEW p, Procs = {p}, UNCHANGED <<rootInv, rootDigest, verInv, op>>,
           pc[p] \in {"content", "removeStaged"}, op[p].kind \in {"promote", "stream"},
           RecordUpload(p), Goto(p, "metadata"),
           \A v \in Versions : v # HeadVersion(p) => disk'[v] = disk[v],
           disk'[HeadVersion(p)][op[p].file] = op[p].upload,
           \A f \in Names : f # op[p].file => disk'[HeadVersion(p)][f] = None
    PROVE  RootValid' /\ ValidKept(p)'
  <1> DEFINE inv == AddContent(mem[p], op[p].file, op[p].upload)
  <1>1. pc[p] \in Opened \ Committing /\ pc[p] # "rootInvEnd"
    BY DEF Opened, PCs, Committing
  <1>2. mem[p] \in Inventory /\ mem[p].head \in Versions
    BY <1>1, OpenFacts DEF ValidInv
  <1>3. op[p].file \in Names /\ op[p].upload \in Contents
    BY OperationFields DEF ValidInv, HistoryInv, SafetyInv, TypeInv, TypeOK, Names, Contents
  <1>4. /\ inv.head = mem[p].head
        /\ \A v \in Versions, g \in Names :
               inv.manifest[v][g] = IF v = mem[p].head /\ g = op[p].file
                                    THEN op[p].upload ELSE mem[p].manifest[v][g]
    BY <1>2, <1>3, AddContentType
  <1>5. mem'[p] = inv /\ pc'[p] = "metadata"
    BY DEF RecordUpload, Goto, ValidInv, HistoryInv, SafetyInv, TypeInv, TypeOK
  <1> HIDE DEF inv
  <1>6. \A v \in Versions, f \in Names :
            v <= HeadVersion(p) - 1 => inv.manifest[v][f] = mem[p].manifest[v][f]
    BY <1>2, <1>4 DEF HeadVersion, Versions
  <1>7. \A f \in Names : disk'[HeadVersion(p)][f] # None =>
            inv.manifest[HeadVersion(p)][f] = disk'[HeadVersion(p)][f]
    BY <1>2, <1>3, <1>4 DEF HeadVersion
  <1>8. pc'[p] \in Opened \ Committing
    BY <1>5 DEF Opened, PCs, Committing
  <1>9. QED
    BY <1>1, <1>4, <1>5, <1>6, <1>7, <1>8, ValidGoesOn DEF HeadVersion

(* Storing the bits of an upload.                                          *)
LEMMA StoreValid ==
    ASSUME ValidInv, NEW p, Procs = {p},
           \/ MoveStaged(p) \/ RenameFails(p) \/ HashFails(p) \/ CopyStaged(p)
           \/ RemoveStaged(p) \/ StreamContent(p)
    PROVE  RootValid' /\ ValidKept(p)'
  <1>1. /\ UNCHANGED <<rootInv, rootDigest, verInv, op>>
        /\ pc[p] \in {"content", "copy", "removeStaged"}
        /\ pc[p] \in Opened \ Committing /\ pc[p] # "rootInvEnd"
    BY DEF MoveStaged, RenameFails, HashFails, CopyStaged, RemoveStaged, StreamContent,
       diskVars, Opened, PCs, Committing
  <1>2. HeadVersion(p) \in Versions
    BY <1>1 DEF ValidInv, HistoryInv, SafetyInv, TypeInv, Placed
  <1>3. op[p].kind \in {"promote", "stream"}
    BY DEF ValidInv, HistoryInv, SafetyInv, TypeInv, Placed, MoveStaged, RenameFails,
       HashFails, CopyStaged, RemoveStaged, StreamContent
  <1>4. op[p].file \in Names /\ op[p].upload \in Contents
    BY <1>3, OperationFields
    DEF ValidInv, HistoryInv, SafetyInv, TypeInv, TypeOK, Names, Contents
  <1>5. \A v \in Versions : v # HeadVersion(p) => disk'[v] = disk[v]
    BY <1>2 DEF MoveStaged, RenameFails, HashFails, CopyStaged, RemoveStaged, StreamContent,
       diskVars, WriteFile, ValidInv, HistoryInv, SafetyInv, TypeInv, TypeOK
  <1>6. pc[p] \in {"content", "copy"} => disk[HeadVersion(p)] = NoFiles
    BY DEF ValidInv, ValidKept
  <1>7. ASSUME WriteFile(p, op[p].file, op[p].upload), pc[p] \in {"content", "copy"}
        PROVE  /\ disk'[HeadVersion(p)][op[p].file] = op[p].upload
               /\ \A f \in Names : f # op[p].file => disk'[HeadVersion(p)][f] = None
    <2>1. disk'[HeadVersion(p)][op[p].file] = op[p].upload
      BY <1>2, <1>4, <1>7, WriteFileFrame DEF ValidInv, HistoryInv, SafetyInv
    <2>2. \A f \in Names : f # op[p].file => disk'[HeadVersion(p)][f] = disk[HeadVersion(p)][f]
      BY <1>2, <1>4, <1>7, WriteFileFrame DEF ValidInv, HistoryInv, SafetyInv
    <2>3. QED
      BY <1>6, <1>7, <2>1, <2>2 DEF NoFiles
  <1>8. CASE Goto(p, "rollback") /\ UNCHANGED mem
    <2>1. "rollback" \in Opened \ Committing /\ "rollback" \notin Recorded
      BY DEF Opened, PCs, Committing, Recorded
    <2>2. QED
      BY <1>1, <1>5, <1>8, <2>1, ValidStays
  <1>9. CASE Goto(p, "copy") /\ UNCHANGED <<mem, disk>> /\ pc[p] = "content"
    <2>1. "copy" \in Opened \ Committing /\ "copy" \notin Recorded
      BY DEF Opened, PCs, Committing, Recorded
    <2>2. QED
      BY <1>1, <1>5, <1>6, <1>9, <2>1, ValidStays
  <1>10. CASE /\ Goto(p, "removeStaged") /\ UNCHANGED mem
              /\ pc[p] \in {"content", "copy"}
              /\ WriteFile(p, op[p].file, op[p].upload)
    <2>1. "removeStaged" \in Opened \ Committing /\ "removeStaged" \notin Recorded
      BY DEF Opened, PCs, Committing, Recorded
    <2>2. QED
      BY <1>1, <1>5, <1>7, <1>10, <2>1, ValidStays
  <1>11. CASE /\ RecordUpload(p) /\ Goto(p, "metadata") /\ pc[p] = "content"
              /\ WriteFile(p, op[p].file, op[p].upload)
    BY <1>1, <1>3, <1>5, <1>7, <1>11, ValidUpload
  <1>12. CASE /\ RecordUpload(p) /\ Goto(p, "metadata") /\ pc[p] = "removeStaged"
              /\ UNCHANGED disk
    <2>1. disk[HeadVersion(p)][op[p].file] = op[p].upload
      BY <1>12 DEF ValidInv, HistoryInv, SafetyInv, RequestKept, OpenedKept
    <2>2. \A f \in Names : f # op[p].file => disk[HeadVersion(p)][f] = None
      BY <1>12 DEF ValidInv, ValidKept
    <2>3. QED
      BY <1>1, <1>3, <1>5, <1>12, <2>1, <2>2, ValidUpload
  <1>13. MoveStaged(p) => <1>11!1
    BY DEF MoveStaged
  <1>14. RenameFails(p) => <1>9!1
    BY DEF RenameFails, diskVars
  <1>15. HashFails(p) => <1>8!1
    BY DEF HashFails
  <1>16. CopyStaged(p) => <1>8!1 \/ <1>10!1
    BY DEF CopyStaged
  <1>17. RemoveStaged(p) => <1>8!1 \/ <1>12!1
    BY DEF RemoveStaged
  <1>18. StreamContent(p) => <1>8!1 \/ <1>11!1
    BY DEF StreamContent
  <1>19. QED
    BY <1>8, <1>9, <1>10, <1>11, <1>12, <1>13, <1>14, <1>15, <1>16, <1>17, <1>18

(* The metadata file is written and recorded.                              *)
LEMMA MetadataValid ==
    ASSUME ValidInv, NEW p, Procs = {p}, WriteMetadata(p)
    PROVE  RootValid' /\ ValidKept(p)'
  <1> DEFINE inv == AddContent(mem[p], MetaFile, Meta)
  <1>1. /\ UNCHANGED <<rootInv, rootDigest, verInv, op>> /\ pc[p] = "metadata"
        /\ pc[p] \in Opened \ Committing /\ pc[p] \in Recorded
    BY DEF WriteMetadata, Opened, PCs, Committing, Recorded
  <1>2. /\ mem[p] \in Inventory /\ mem[p].head \in Versions
        /\ MetaFile \in Names /\ Meta \in Contents
    BY <1>1, OpenFacts DEF ValidInv, Names, Contents
  <1>3. \A v \in Versions : v # HeadVersion(p) => disk'[v] = disk[v]
    BY <1>2 DEF WriteMetadata, WriteFile, HeadVersion, ValidInv, HistoryInv, SafetyInv,
       TypeInv, TypeOK
  <1>4. CASE UNCHANGED mem /\ Goto(p, "rollback")
    <2>1. "rollback" \in Opened \ Committing /\ "rollback" \notin Recorded
      BY DEF Opened, PCs, Committing, Recorded
    <2>2. QED
      BY <1>1, <1>3, <1>4, <2>1, ValidStays
  <1>5. CASE /\ WriteFile(p, MetaFile, Meta) /\ Goto(p, "verInv")
             /\ mem' = [mem EXCEPT ![p] = inv]
    <2>1. /\ inv.head = mem[p].head
          /\ \A v \in Versions, g \in Names :
                 inv.manifest[v][g] = IF v = mem[p].head /\ g = MetaFile
                                      THEN Meta ELSE mem[p].manifest[v][g]
      BY <1>2, AddContentType
    <2>2. mem'[p] = inv /\ pc'[p] = "verInv"
      BY <1>5 DEF Goto, ValidInv, HistoryInv, SafetyInv, TypeInv, TypeOK
    <2> HIDE DEF inv
    <2>3. /\ disk'[HeadVersion(p)][MetaFile] = Meta
          /\ \A g \in Names : g # MetaFile => disk'[HeadVersion(p)][g] = disk[HeadVersion(p)][g]
      BY <1>2, <1>5, WriteFileFrame DEF ValidInv, HistoryInv, SafetyInv, HeadVersion
    <2>4. Tidy(disk, mem[p], HeadVersion(p)) /\ HeadVersion(p) <= HeadVersion(p)
      BY <1>1, <1>2 DEF ValidInv, ValidKept, HeadVersion, Versions
    <2>5. \A f \in Names : disk'[HeadVersion(p)][f] # None =>
              inv.manifest[HeadVersion(p)][f] = disk'[HeadVersion(p)][f]
      <3> SUFFICES ASSUME NEW f \in Names, disk'[HeadVersion(p)][f] # None
                   PROVE  inv.manifest[HeadVersion(p)][f] = disk'[HeadVersion(p)][f]
        OBVIOUS
      <3>1. CASE f = MetaFile
        BY <1>2, <2>1, <2>3, <3>1 DEF HeadVersion
      <3>2. CASE f # MetaFile
        <4>1. mem[p].manifest[HeadVersion(p)][f] = disk'[HeadVersion(p)][f]
          BY <1>2, <2>3, <2>4, <3>2 DEF Tidy, HeadVersion
        <4>2. QED
          BY <1>2, <2>1, <3>2, <4>1 DEF HeadVersion
      <3>3. QED
        BY <3>1, <3>2
    <2>6. \A v \in Versions, f \in Names :
              v <= HeadVersion(p) - 1 => inv.manifest[v][f] = mem[p].manifest[v][f]
      BY <1>2, <2>1 DEF HeadVersion, Versions
    <2>7. pc'[p] \in Opened \ Committing
      BY <2>2 DEF Opened, PCs, Committing
    <2>8. QED
      BY <1>1, <1>3, <2>1, <2>2, <2>5, <2>6, <2>7, ValidGoesOn DEF HeadVersion
  <1>6. QED
    BY <1>4, <1>5 DEF WriteMetadata

(* A copy is the only file of its version.                                 *)
LEMMA CopyValid ==
    ASSUME ValidInv, NEW p, Procs = {p}, CopyVersion(p)
    PROVE  RootValid' /\ ValidKept(p)'
  <1>1. /\ UNCHANGED <<rootInv, rootDigest, verInv, op>> /\ pc[p] = "content"
        /\ pc[p] \in Opened \ Committing /\ op[p].kind \in {"rename", "reinstate"}
    BY DEF CopyVersion, Opened, PCs, Committing
  <1>2. op[p].file \in Names /\ op[p].to \in Names
    BY <1>1, OperationFields DEF ValidInv, HistoryInv, SafetyInv, TypeInv, TypeOK, Names
  <1>3. /\ mem[p] \in Inventory /\ mem[p].head \in Versions
        /\ disk[HeadVersion(p)] = NoFiles
    BY <1>1, OpenFacts DEF ValidInv, ValidKept
  <1>4. \A v \in Versions : v # HeadVersion(p) => disk'[v] = disk[v]
    BY <1>3 DEF CopyVersion, WriteFile, HeadVersion, ValidInv, HistoryInv, SafetyInv,
       TypeInv, TypeOK
  <1>5. CASE UNCHANGED mem /\ Goto(p, "rollback")
    <2>1. "rollback" \in Opened \ Committing /\ "rollback" \notin Recorded
      BY DEF Opened, PCs, Committing, Recorded
    <2>2. QED
      BY <1>1, <1>4, <1>5, <2>1, ValidStays
  <1>6. CASE \E s \in CopySource(p) :
                 /\ WriteFile(p, op[p].to, disk[s.version][op[p].file])
                 /\ AddCopy(p, s) /\ Goto(p, "verInv")
    <2>1. PICK s \in CopySource(p) :
                 /\ WriteFile(p, op[p].to, disk[s.version][op[p].file])
                 /\ AddCopy(p, s) /\ Goto(p, "verInv")
      BY <1>6
    <2> DEFINE f == op[p].file
               g == op[p].to
               added == AddContent(mem[p], g, s.hash)
               inv == IF f = g THEN added ELSE RemoveContent(added, f)
    <2>2. s.hash \in Contents /\ disk[s.version][f] = s.hash
      BY <1>1, CopySourceHeld DEF ValidInv, HistoryInv
    <2>3. mem'[p] = inv /\ pc'[p] = "verInv"
      BY <2>1 DEF AddCopy, Goto, ValidInv, HistoryInv, SafetyInv, TypeInv, TypeOK
    <2>4. /\ added \in Inventory /\ added.head = mem[p].head
          /\ \A v \in Versions, h \in Names :
                 added.manifest[v][h] = IF v = mem[p].head /\ h = g THEN s.hash
                                        ELSE mem[p].manifest[v][h]
      BY <1>2, <1>3, <2>2, AddContentType
    <2> HIDE DEF added
    <2>5. inv.head = mem[p].head /\ inv.manifest = added.manifest
      BY <1>2, <1>3, <2>4, RemoveContentType
    <2> HIDE DEF inv
    <2>6. /\ disk'[HeadVersion(p)][g] = s.hash
          /\ \A h \in Names : h # g => disk'[HeadVersion(p)][h] = None
      <3>1. /\ disk'[HeadVersion(p)][g] = s.hash
            /\ \A h \in Names : h # g => disk'[HeadVersion(p)][h] = disk[HeadVersion(p)][h]
        BY <1>2, <1>3, <2>1, <2>2, WriteFileFrame
        DEF ValidInv, HistoryInv, SafetyInv, HeadVersion
      <3>2. QED
        BY <1>3, <3>1 DEF NoFiles
    <2>7. \A h \in Names : disk'[HeadVersion(p)][h] # None =>
              inv.manifest[HeadVersion(p)][h] = disk'[HeadVersion(p)][h]
      BY <1>3, <2>4, <2>5, <2>6 DEF HeadVersion
    <2>8. \A v \in Versions, h \in Names :
              v <= HeadVersion(p) - 1 => inv.manifest[v][h] = mem[p].manifest[v][h]
      BY <1>3, <2>4, <2>5 DEF HeadVersion, Versions
    <2>9. pc'[p] \in Opened \ Committing
      BY <2>3 DEF Opened, PCs, Committing
    <2> HIDE DEF f, g
    <2>10. QED
      BY <1>1, <1>4, <2>3, <2>5, <2>7, <2>8, <2>9, ValidGoesOn DEF HeadVersion
  <1>7. QED
    BY <1>5, <1>6 DEF CopyVersion

(* A delete leaves the open version without files.                         *)
LEMMA DeleteValid ==
    ASSUME ValidInv, NEW p, Procs = {p}, DeleteFile(p)
    PROVE  RootValid' /\ ValidKept(p)'
  <1> DEFINE inv == RemoveContent(mem[p], op[p].file)
  <1>1. /\ UNCHANGED <<rootInv, rootDigest, verInv, disk, op>> /\ pc[p] = "content"
        /\ pc[p] \in Opened \ Committing /\ op[p].file \in Names
    BY OperationFields DEF DeleteFile, diskVars, Opened, PCs, Committing, ValidInv,
       HistoryInv, SafetyInv, TypeInv, TypeOK, Names
  <1>2. /\ mem[p] \in Inventory /\ mem[p].head \in Versions
        /\ disk[HeadVersion(p)] = NoFiles
    BY <1>1, OpenFacts DEF ValidInv, ValidKept
  <1>3. CASE UNCHANGED mem /\ Goto(p, "rollback")
    <2>1. "rollback" \in Opened \ Committing /\ "rollback" \notin Recorded
      BY DEF Opened, PCs, Committing, Recorded
    <2>2. QED
      BY <1>1, <1>3, <2>1, ValidStays
  <1>4. CASE mem' = [mem EXCEPT ![p] = inv] /\ Goto(p, "verInv")
    <2>1. inv.head = mem[p].head /\ inv.manifest = mem[p].manifest
      BY <1>1, <1>2, RemoveContentType
    <2>2. mem'[p] = inv /\ pc'[p] = "verInv"
      BY <1>4 DEF Goto, ValidInv, HistoryInv, SafetyInv, TypeInv, TypeOK
    <2> HIDE DEF inv
    <2>3. \A f \in Names : disk[HeadVersion(p)][f] = None
      BY <1>2 DEF NoFiles
    <2>4. pc'[p] \in Opened \ Committing
      BY <2>2 DEF Opened, PCs, Committing
    <2>5. QED
      BY <1>1, <2>1, <2>2, <2>3, <2>4, ValidGoesOn DEF HeadVersion
  <1>5. QED
    BY <1>3, <1>4 DEF DeleteFile

(* The inventory in the open version folder.                               *)
LEMMA VersionInventoryValid ==
    ASSUME ValidInv, NEW p, Procs = {p}, WriteVersionInventory(p)
    PROVE  RootValid' /\ ValidKept(p)'
  <1>1. /\ UNCHANGED <<rootInv, rootDigest, disk, op, mem>> /\ pc[p] = "verInv"
        /\ pc[p] \in Opened \ Committing /\ pc[p] \in Recorded
    BY DEF WriteVersionInventory, Opened, PCs, Committing, Recorded
  <1>2. HeadVersion(p) \in Versions
    BY <1>1 DEF ValidInv, HistoryInv, SafetyInv, TypeInv, Placed
  <1>3. \A v \in Versions : v # HeadVersion(p) => verInv'[v] = verInv[v]
    BY <1>2 DEF WriteVersionInventory, ValidInv, HistoryInv, SafetyInv, TypeInv, TypeOK
  <1>4. \A l \in {"rootInv", "rollback"} :
            /\ l \in Opened \ Committing
            /\ l \notin {"content", "copy", "removeStaged"}
    BY DEF Opened, PCs, Committing
  <1>5. PICK l \in {"rootInv", "rollback"} : Goto(p, l)
    BY DEF WriteVersionInventory
  <1>6. QED
    BY <1>1, <1>3, <1>4, <1>5, ValidStays

(* The commit: the open version becomes the head of the root inventory.     *)
LEMMA CommitValid ==
    ASSUME ValidInv, Serial, NEW p, Procs = {p},
           TruncateRootInventory(p) \/ WriteRootInventory(p)
    PROVE  RootValid' /\ ValidKept(p)'
  <1> DEFINE h == HeadVersion(p)
  <1>1. /\ UNCHANGED <<verInv, disk, mem>> /\ pc[p] \in {"rootInv", "rootInvEnd"}
        /\ pc[p] \in Opened \ Committing /\ pc[p] \in Recorded /\ h' = h
    BY DEF TruncateRootInventory, WriteRootInventory, Opened, PCs, Committing, Recorded,
       HeadVersion
  <1>2. /\ EmptyAbove(disk, h) /\ Tidy(disk, mem[p], h)
        /\ Tidy(disk, mem[p], h - 1) /\ VersionsHeld(disk, verInv, h - 1)
    BY <1>1 DEF ValidInv, ValidKept
  <1>3. /\ mem[p] \in Inventory /\ h \in Versions /\ mem[p].head = h
        /\ verInv[h] = mem[p] /\ ManifestHeld(disk, mem[p], h)
    BY <1>1 DEF ValidInv, HistoryInv, SafetyInv, TypeInv, TypeOK, Placed, RequestKept,
       RecordedKept, HeadVersion
  <1> HIDE DEF h
  <1>4. CASE TruncateRootInventory(p)
    <2>1. pc'[p] = "rootInvEnd" /\ rootInv' = Torn
      BY <1>4 DEF TruncateRootInventory, Goto, ValidInv, HistoryInv, SafetyInv, TypeInv,
         TypeOK
    <2>2. RootValid'
      BY <2>1 DEF RootValid, Complete
    <2>3. ValidKept(p)'
      BY <1>1, <1>2, <2>1 DEF ValidKept, Opened, PCs, h
    <2>4. QED
      BY <2>2, <2>3
  <1>5. CASE WriteRootInventory(p)
    <2>1. pc'[p] = "rootDigest" /\ rootInv' = mem[p]
      BY <1>5 DEF WriteRootInventory, Fails, Serial, Goto, ValidInv, HistoryInv,
         SafetyInv, TypeInv, TypeOK
    <2>2. VersionsHeld(disk, verInv, h)
      <3>1. ASSUME NEW v \in Versions, v <= h
            PROVE  verInv[v] \in Inventory /\ verInv[v].head = v
                   /\ ManifestHeld(disk, verInv[v], v)
        <4>1. CASE v = h
          BY <1>3, <4>1
        <4>2. CASE v # h
          <5>1. v <= h - 1
            BY <1>3, <3>1, <4>2 DEF Versions
          <5>2. QED
            BY <1>2, <5>1 DEF VersionsHeld
        <4>3. QED
          BY <4>1, <4>2
      <3>2. QED
        BY <3>1 DEF VersionsHeld
    <2>3. RootValid'
      <3>1. Tidy(disk', rootInv', rootInv'.head) /\ VersionsHeld(disk', verInv', rootInv'.head)
        BY <1>1, <1>2, <1>3, <2>1, <2>2
      <3>2. \E q \in Procs : pc'[q] = "rootDigest"
        BY <2>1
      <3>3. QED
        BY <3>1, <3>2 DEF RootValid
    <2>4. ValidKept(p)'
      BY <1>1, <1>2, <2>1 DEF ValidKept, Opened, PCs, Committing, h
    <2>5. QED
      BY <2>3, <2>4
  <1>6. QED
    BY <1>4, <1>5

(* After the commit: the digest, and the answer.                           *)
LEMMA FinishValid ==
    ASSUME ValidInv, Serial, NEW p, Procs = {p},
           WriteRootDigest(p) \/ RemoveStagingFolder(p)
    PROVE  RootValid' /\ ValidKept(p)'
  <1>1. /\ UNCHANGED <<rootInv, verInv, disk>> /\ pc[p] \in Committing
        /\ pc[p] \in Opened /\ pc[p] \in Recorded
    BY DEF WriteRootDigest, RemoveStagingFolder, diskVars, Committing, Opened, PCs, Recorded
  <1>2. /\ rootInv = mem[p] /\ mem[p] \in Inventory /\ Complete(rootInv)
        /\ rootInv.head = HeadVersion(p)
    BY <1>1, ConstantsAssumption DEF ValidInv, HistoryInv, SafetyInv, TypeInv, TypeOK,
       RequestKept, RecordedKept, Complete, HeadVersion
  <1>3. rootDigest' = rootInv
    BY <1>1, <1>2 DEF WriteRootDigest, RemoveStagingFolder, Fails, Serial, diskVars,
       ValidInv, RootValid
  <1>4. RootValid'
    BY <1>1, <1>2, <1>3 DEF ValidInv, RootValid
  <1>5. EmptyAbove(disk, HeadVersion(p)) /\ Tidy(disk, mem[p], HeadVersion(p))
    BY <1>1 DEF ValidInv, ValidKept
  <1>6. CASE Return(p)
    <2>1. pc'[p] = "idle" /\ RootHead' = HeadVersion(p)
      BY <1>1, <1>2, <1>6 DEF Return, Goto, ValidInv, HistoryInv, SafetyInv, TypeInv,
         TypeOK, RootHead, Complete
    <2>2. ValidKept(p)'
      BY <1>1, <1>5, <2>1 DEF ValidKept, Opened, Recorded
    <2>3. QED
      BY <1>4, <2>2
  <1>7. CASE Goto(p, "cleanup") /\ UNCHANGED mem
    <2>1. pc'[p] = "cleanup" /\ HeadVersion(p)' = HeadVersion(p)
      BY <1>7 DEF Goto, ValidInv, HistoryInv, SafetyInv, TypeInv, TypeOK, HeadVersion
    <2>2. ValidKept(p)'
      BY <1>1, <1>5, <1>7, <2>1 DEF ValidKept, Opened, PCs, Committing
    <2>3. QED
      BY <1>4, <2>2
  <1>8. QED
    BY <1>6, <1>7 DEF WriteRootDigest, RemoveStagingFolder, Fails, Serial

(* A rollback leaves the folders as they were before the version was open.  *)
LEMMA RollbackValid ==
    ASSUME ValidInv, RolledBack, NEW p, Procs = {p}, RollbackVersion(p)
    PROVE  RootValid' /\ ValidKept(p)'
  <1> DEFINE h == HeadVersion(p)
  <1>1. /\ UNCHANGED <<rootInv, rootDigest>> /\ pc[p] = "rollback"
        /\ pc[p] \in Opened \ Committing
        /\ verInv' = [verInv EXCEPT ![h] = NoInv]
        /\ disk' = [disk EXCEPT ![h] = NoFiles]
    BY DEF RollbackVersion, Fails, RolledBack, Opened, PCs, Committing
  <1>2. pc'[p] = "idle"
    BY DEF RollbackVersion, Return, Goto, ValidInv, HistoryInv, SafetyInv, TypeInv, TypeOK
  <1>3. /\ h \in Versions /\ EmptyAbove(disk, h) /\ rootInv # Torn /\ Continues(p)
        /\ Complete(rootInv) => rootInv.head = h - 1 /\ rootDigest = rootInv
    BY <1>1 DEF ValidInv, ValidKept, RootValid, HistoryInv, ListedKept, SafetyInv, RootKept,
       TypeInv, Placed, RequestKept, OpenedKept
  <1>4. /\ disk'[h] = NoFiles
        /\ \A v \in Versions : v # h => disk'[v] = disk[v] /\ verInv'[v] = verInv[v]
    BY <1>1, <1>3 DEF ValidInv, HistoryInv, SafetyInv, TypeInv, TypeOK
  <1>5. h - 1 \in Nat /\ h \in Nat /\ Versions \subseteq Nat
    BY <1>3, ConstantsAssumption DEF Versions
  <1>6. RootHead' = h - 1
    BY <1>1, <1>3, <1>5 DEF RootHead, Complete, Continues, h
  <1> HIDE DEF h
  <1>7. EmptyAbove(disk', h - 1)
    <2>1. ASSUME NEW v \in Versions, v > h - 1 PROVE disk'[v] = NoFiles
      <3>1. CASE v = h
        BY <1>4, <3>1
      <3>2. CASE v # h
        <4>1. v > h
          BY <1>5, <2>1, <3>2
        <4>2. QED
          BY <1>3, <1>4, <3>2, <4>1 DEF EmptyAbove
      <3>3. QED
        BY <3>1, <3>2
    <2>2. QED
      BY <2>1 DEF EmptyAbove
  <1>8. ValidKept(p)'
    BY <1>2, <1>6, <1>7 DEF ValidKept, Opened, Recorded
  <1>9. RootValid'
    <2> SUFFICES ASSUME Complete(rootInv)
                 PROVE  /\ Tidy(disk', rootInv, rootInv.head)
                        /\ VersionsHeld(disk', verInv', rootInv.head)
                        /\ rootDigest = rootInv
      BY <1>1 DEF RootValid, Complete
    <2>1. rootInv.head = h - 1 /\ rootDigest = rootInv
      BY <1>3
    <2>2. Tidy(disk, rootInv, rootInv.head) /\ VersionsHeld(disk, verInv, rootInv.head)
      BY DEF ValidInv, RootValid
    <2>3. \A v \in Versions : v <= rootInv.head => disk'[v] = disk[v] /\ verInv'[v] = verInv[v]
      BY <1>4, <1>5, <2>1
    <2>4. Tidy(disk', rootInv, rootInv.head)
      BY <2>2, <2>3, TidyFrame
    <2>5. VersionsHeld(disk', verInv', rootInv.head)
      BY <1>5, <2>1, <2>2, <2>3, VersionsFrame
    <2>6. QED
      BY <2>1, <2>4, <2>5
  <1>10. QED
    BY <1>8, <1>9

(* The invariant holds at the start and is kept by every step.             *)
LEMMA InitValid == Init => ValidInv
  <1> SUFFICES ASSUME Init PROVE ValidInv
    OBVIOUS
  <1>1. RootValid
    BY DEF Init, RootValid, Complete
  <1>2. ASSUME NEW p \in Procs PROVE ValidKept(p)
    <2>1. EmptyAbove(disk, RootHead)
      BY DEF Init, EmptyAbove
    <2>2. QED
      BY <1>2, <2>1 DEF Init, ValidKept, Opened, Recorded
  <1>3. QED
    BY <1>1, <1>2, InitHistory DEF ValidInv

(* Every step of a serial object keeps the invariant, if failures are rolled back. *)
LEMMA ValidStep == ASSUME Serial, RolledBack PROVE ValidInv /\ [Next]_vars => ValidInv'
  <1> SUFFICES ASSUME ValidInv, [Next]_vars PROVE ValidInv'
    OBVIOUS
  <1>1. PICK p : Procs = {p}
    BY DEF Serial
  <1>2. HistoryInv'
    BY HistoryStep DEF ValidInv
  <1>3. RootValid' /\ ValidKept(p)'
    <2>1. ASSUME NEW o \in Operations, Start(p, o) PROVE RootValid' /\ ValidKept(p)'
      <3>1. /\ UNCHANGED <<rootInv, rootDigest, verInv, disk>>
            /\ pc[p] \notin Opened /\ pc'[p] \notin Opened
        BY <1>1, <2>1 DEF Start, Goto, diskVars, Opened, ValidInv, HistoryInv, SafetyInv,
           TypeInv, TypeOK
      <3>2. QED
        BY <1>1, <3>1, ValidClosed
    <2>2. CASE InitializeStructure(p) \/ LoadInventory(p)
      <3>1. /\ UNCHANGED <<rootInv, rootDigest, verInv, disk>> /\ pc[p] \notin Opened
            /\ \E l \in {"load", "addVersion", "idle"} : Goto(p, l)
        BY <2>2 DEF InitializeStructure, LoadInventory, Return, diskVars, Opened
      <3>2. pc'[p] \notin Opened
        BY <1>1, <3>1 DEF Goto, Opened, ValidInv, HistoryInv, SafetyInv, TypeInv, TypeOK
      <3>3. QED
        BY <1>1, <3>1, <3>2, ValidClosed
    <2>3. CASE Crash
      BY <2>3 DEF Crash, RolledBack, ValidInv, HistoryInv, SafetyInv, TypeInv, TypeOK
    <2>4. CASE UNCHANGED vars
      <3>1. UNCHANGED <<rootInv, rootDigest, verInv, disk, pc, op, mem>>
        BY <2>4 DEF vars, diskVars, procVars
      <3>2. HeadVersion(p)' = HeadVersion(p) /\ RootHead' = RootHead
        BY <3>1 DEF HeadVersion, RootHead, Complete
      <3>3. QED
        BY <1>1, <3>1, <3>2 DEF ValidInv, RootValid, ValidKept, Complete
    <2>5. CASE Step(p)
      BY <1>1, <2>1, <2>2, <2>5, OpenVersionValid, StoreValid, MetadataValid, CopyValid,
         DeleteValid, VersionInventoryValid, CommitValid, FinishValid, RollbackValid
      DEF Step
    <2>6. QED
      BY <1>1, <2>3, <2>4, <2>5 DEF Next
  <1>4. QED
    BY <1>1, <1>2, <1>3 DEF ValidInv

(* One request at a time, each failure of which is rolled back, leaves an   *)
(* object that has a version such that validate() accepts it: failed or    *)
(* not, it adds or removes no file that the inventories do not know of.    *)
(* An object that has none holds no file.                                  *)
THEOREM ValidWhenIdleRolledBack ==
    ASSUME Serial, RolledBack PROVE Spec => []ValidWhenIdle
  <1>1. ValidInv => ValidWhenIdle
    <2> SUFFICES ASSUME ValidInv, Idle
                 PROVE  IF rootInv = NoInv THEN \A v \in Versions : FilesOnDisk(v) = {}
                                           ELSE Validate
      BY DEF ValidWhenIdle
    <2>1. PICK p : Procs = {p}
      BY DEF Serial
    <2>2. pc[p] = "idle" /\ pc[p] \notin Opened
      BY <2>1 DEF Idle, Opened
    <2>3. ASSUME rootInv # NoInv PROVE Validate
      <3>1. Complete(rootInv)
        BY <2>3, <2>1, <2>2 DEF ValidInv, HistoryInv, SafetyInv, RootKept, Complete
      <3>2. /\ rootDigest = rootInv
            /\ Tidy(disk, rootInv, rootInv.head)
            /\ VersionsHeld(disk, verInv, rootInv.head)
            /\ EmptyAbove(disk, rootInv.head)
        BY <2>1, <2>2, <3>1 DEF ValidInv, RootValid, ValidKept, RootHead
      <3>3. /\ ManifestHeld(disk, rootInv, rootInv.head) /\ verInv[rootInv.head] = rootInv
            /\ rootInv.head \in Versions
        BY <3>1 DEF ValidInv, HistoryInv, SafetyInv, RootKept
      <3>4. ManifestOnDisk(rootInv)
        BY <3>3 DEF ManifestOnDisk, ManifestHeld
      <3>5. ASSUME NEW v \in 1 .. rootInv.head
            PROVE  Complete(verInv[v]) /\ verInv[v].head = v /\ ManifestOnDisk(verInv[v])
        <4>1. v \in Versions /\ v <= rootInv.head
          BY <3>3, ConstantsAssumption DEF Versions
        <4>2. verInv[v] \in Inventory /\ verInv[v].head = v /\ ManifestHeld(disk, verInv[v], v)
          BY <3>2, <4>1 DEF VersionsHeld
        <4>3. QED
          BY <4>2, ConstantsAssumption DEF Complete, ManifestOnDisk, ManifestHeld
      <3>6. ASSUME NEW v \in Versions, NEW f \in FilesOnDisk(v)
            PROVE  rootInv.manifest[v][f] = disk[v][f]
        <4>1. f \in Names /\ disk[v][f] # None
          BY DEF FilesOnDisk
        <4>2. ~(v > rootInv.head)
          BY <3>2, <4>1 DEF EmptyAbove, NoFiles
        <4>3. v <= rootInv.head
          BY <3>3, <4>2, ConstantsAssumption DEF Versions
        <4>4. QED
          BY <3>2, <4>1, <4>3 DEF Tidy
      <3>7. QED
        BY <3>1, <3>2, <3>3, <3>4, <3>5, <3>6 DEF Validate
    <2>4. ASSUME rootInv = NoInv, NEW v \in Versions PROVE FilesOnDisk(v) = {}
      <3>1. EmptyAbove(disk, 0)
        BY <2>1, <2>2, <2>4 DEF ValidInv, ValidKept, RootHead, Complete
      <3>2. disk[v] = NoFiles
        BY <3>1, ConstantsAssumption DEF EmptyAbove, Versions
      <3>3. QED
        BY <3>2 DEF FilesOnDisk, NoFiles
    <2>5. QED
      BY <2>3, <2>4
  <1>2. QED
    BY InitValid, ValidStep, <1>1, PTL DEF Spec
-----------------------------------------------------------------------------
(* Between the moment a staged file is moved and the commit nothing fails.  *)
CommitsMoved == FailSteps \cap {"metadata", "verInv"} = {} /\ MaxCrashes = 0

KeptIn(inv, n, u) ==
    \E v \in Versions, f \in Files : v <= n /\ inv.manifest[v][f] = u

BeingStored(p, u) ==
    /\ pc[p] \in {"metadata", "verInv", "rootInv", "rootInvEnd"}
    /\ op[p].kind = "promote" /\ op[p].upload = u
    /\ mem[p].manifest[HeadVersion(p)][op[p].file] = u

StoredKept(p, u) ==
    \/ u \in staged
    \/ Complete(rootInv) /\ KeptIn(rootInv, rootInv.head, u)
    \/ rootInv = Torn /\ KeptIn(mem[p], HeadVersion(p) - 1, u)
    \/ BeingStored(p, u)

FolderKept(p) ==
    /\ pc[p] \in Opened => HeadVersion(p) \in verDirs
    /\ pc[p] \in Opened \ Committing /\ Complete(rootInv) =>
           \A v \in Versions, f \in Names :
               v <= HeadVersion(p) - 1 => mem[p].manifest[v][f] = rootInv.manifest[v][f]

StoredInv == HistoryInv /\ \A p \in Procs : FolderKept(p) /\ \A u \in Uploads : StoredKept(p, u)

(* A step that neither commits nor drops a file that was moved.            *)
LEMMA StoredFrame ==
    ASSUME StoredInv, NEW p, Procs = {p}, UNCHANGED rootInv,
           pc[p] \notin {"metadata", "verInv", "rootInv", "rootInvEnd"},
           \A u \in Uploads : u \in staged => u \in staged' \/ BeingStored(p, u)'
    PROVE  \A u \in Uploads : StoredKept(p, u)'
  <1> SUFFICES ASSUME NEW u \in Uploads PROVE StoredKept(p, u)'
    OBVIOUS
  <1>1. StoredKept(p, u) /\ ~BeingStored(p, u)
    BY DEF StoredInv, BeingStored
  <1>2. rootInv # Torn
    BY DEF StoredInv, HistoryInv, SafetyInv, RootKept
  <1>3. CASE u \in staged
    BY <1>3 DEF StoredKept
  <1>4. CASE Complete(rootInv) /\ KeptIn(rootInv, rootInv.head, u)
    BY <1>4 DEF StoredKept, Complete, KeptIn
  <1>5. QED
    BY <1>1, <1>2, <1>3, <1>4 DEF StoredKept

(* A request without an open version is bound to nothing.                  *)
LEMMA FolderClosed ==
    ASSUME NEW p, pc'[p] \in {"idle", "init", "load", "addVersion"}
    PROVE  FolderKept(p)'
  BY DEF FolderKept, Opened

(* A request goes on in its open version.                                  *)
LEMMA FolderGoesOn ==
    ASSUME StoredInv, NEW p, Procs = {p}, UNCHANGED <<rootInv, verDirs>>,
           pc[p] \in Opened, pc[p] \in Committing => pc'[p] \in Committing,
           HeadVersion(p)' = HeadVersion(p),
           \A v \in Versions, f \in Names : v <= HeadVersion(p) - 1 =>
               mem'[p].manifest[v][f] = mem[p].manifest[v][f]
    PROVE  FolderKept(p)'
  BY DEF StoredInv, FolderKept, Complete

(* Going on with the same inventory in memory.                             *)
LEMMA FolderStays ==
    ASSUME StoredInv, NEW p, Procs = {p}, UNCHANGED <<rootInv, verDirs, mem>>,
           pc[p] \in Opened \ Committing
    PROVE  FolderKept(p)'
  <1>1. HeadVersion(p)' = HeadVersion(p)
    BY DEF HeadVersion
  <1>2. QED
    BY <1>1, FolderGoesOn

(* Recording an upload: in memory the file is now listed.                  *)
LEMMA StoredUpload ==
    ASSUME StoredInv, NEW p, Procs = {p}, UNCHANGED <<rootInv, verDirs, op>>,
           pc[p] \in {"content", "removeStaged"}, op[p].kind \in {"promote", "stream"},
           RecordUpload(p), Goto(p, "metadata")
    PROVE  /\ FolderKept(p)'
           /\ \A u : op[p].kind = "promote" /\ u = op[p].upload => BeingStored(p, u)'
  <1> DEFINE inv == AddContent(mem[p], op[p].file, op[p].upload)
  <1>1. pc[p] \in Opened /\ pc[p] \notin Committing
    BY DEF Opened, PCs, Committing
  <1>2. mem[p] \in Inventory /\ mem[p].head \in Versions
    BY <1>1, OpenFacts DEF StoredInv
  <1>3. op[p].file \in Names /\ op[p].upload \in Contents
    BY OperationFields DEF StoredInv, HistoryInv, SafetyInv, TypeInv, TypeOK, Names, Contents
  <1>4. /\ inv.head = mem[p].head
        /\ \A v \in Versions, g \in Names :
               inv.manifest[v][g] = IF v = mem[p].head /\ g = op[p].file
                                    THEN op[p].upload ELSE mem[p].manifest[v][g]
    BY <1>2, <1>3, AddContentType
  <1>5. mem'[p] = inv /\ pc'[p] = "metadata"
    BY DEF RecordUpload, Goto, StoredInv, HistoryInv, SafetyInv, TypeInv, TypeOK
  <1> HIDE DEF inv
  <1>6. HeadVersion(p)' = HeadVersion(p)
    BY <1>4, <1>5 DEF HeadVersion
  <1>7. \A v \in Versions, f \in Names : v <= HeadVersion(p) - 1 =>
            mem'[p].manifest[v][f] = mem[p].manifest[v][f]
    BY <1>2, <1>4, <1>5 DEF HeadVersion, Versions
  <1>8. FolderKept(p)'
    BY <1>1, <1>6, <1>7, FolderGoesOn
  <1>9. \A u : op[p].kind = "promote" /\ u = op[p].upload => BeingStored(p, u)'
    BY <1>2, <1>3, <1>4, <1>5, <1>6 DEF BeingStored, HeadVersion
  <1>10. QED
    BY <1>8, <1>9

(* The steps before the version inventory is written.                      *)
LEMMA StoreStored ==
    ASSUME StoredInv, NEW p, Procs = {p},
           \/ MoveStaged(p) \/ RenameFails(p) \/ HashFails(p) \/ CopyStaged(p)
           \/ RemoveStaged(p) \/ StreamContent(p)
    PROVE  FolderKept(p)' /\ \A u \in Uploads : StoredKept(p, u)'
  <1>1. /\ UNCHANGED <<rootInv, verDirs, op>>
        /\ pc[p] \in {"content", "copy", "removeStaged"}
        /\ pc[p] \in Opened \ Committing
    BY DEF MoveStaged, RenameFails, HashFails, CopyStaged, RemoveStaged, StreamContent,
       diskVars, Opened, PCs, Committing
  <1>2. op[p].kind \in {"promote", "stream"}
    BY DEF StoredInv, HistoryInv, SafetyInv, TypeInv, Placed, MoveStaged, RenameFails,
       HashFails, CopyStaged, RemoveStaged, StreamContent
  <1>3. CASE UNCHANGED <<mem, staged>>
    BY <1>1, <1>3, FolderStays, StoredFrame
  <1>4. CASE /\ RecordUpload(p) /\ Goto(p, "metadata")
             /\ pc[p] \in {"content", "removeStaged"}
             /\ \/ UNCHANGED staged
                \/ op[p].kind = "promote" /\ staged' = staged \ {op[p].upload}
    <2>1. /\ FolderKept(p)'
          /\ \A u : op[p].kind = "promote" /\ u = op[p].upload => BeingStored(p, u)'
      BY <1>1, <1>2, <1>4, StoredUpload
    <2>2. \A u \in Uploads : u \in staged => u \in staged' \/ BeingStored(p, u)'
      BY <1>4, <2>1
    <2>3. QED
      BY <1>1, <2>1, <2>2, StoredFrame
  <1>5. MoveStaged(p) => <1>4!1
    BY DEF MoveStaged
  <1>6. RenameFails(p) \/ HashFails(p) \/ CopyStaged(p) => <1>3!1
    BY DEF RenameFails, HashFails, CopyStaged, diskVars
  <1>7. RemoveStaged(p) => <1>3!1 \/ <1>4!1
    BY DEF RemoveStaged, StoredInv, HistoryInv, SafetyInv, TypeInv, Placed
  <1>8. StreamContent(p) => <1>3!1 \/ <1>4!1
    BY DEF StreamContent
  <1>9. QED
    BY <1>3, <1>4, <1>5, <1>6, <1>7, <1>8

(* A rename, a reinstatement or a delete moves no upload.                  *)
LEMMA CopyStored ==
    ASSUME StoredInv, NEW p, Procs = {p}, CopyVersion(p) \/ DeleteFile(p)
    PROVE  FolderKept(p)' /\ \A u \in Uploads : StoredKept(p, u)'
  <1>1. /\ UNCHANGED <<rootInv, verDirs, staged>> /\ pc[p] = "content"
        /\ pc[p] \in Opened \ Committing
        /\ op[p].kind \in {"rename", "reinstate", "delete"}
    BY DEF CopyVersion, DeleteFile, diskVars, Opened, PCs, Committing
  <1>2. \A u \in Uploads : StoredKept(p, u)'
    BY <1>1, StoredFrame
  <1>3. /\ mem[p] \in Inventory /\ mem[p].head \in Versions /\ op[p].file \in Names
        /\ op[p].kind # "delete" => op[p].to \in Names
    BY <1>1, OpenFacts, OperationFields
    DEF StoredInv, HistoryInv, SafetyInv, TypeInv, TypeOK, Names
  <1>4. CASE UNCHANGED mem
    BY <1>1, <1>2, <1>4, FolderStays
  <1>5. ASSUME NEW inv, mem' = [mem EXCEPT ![p] = inv], inv.head = mem[p].head,
               \A v \in Versions, f \in Names : v # mem[p].head =>
                   inv.manifest[v][f] = mem[p].manifest[v][f]
        PROVE  FolderKept(p)'
    <2>1. mem'[p] = inv /\ HeadVersion(p)' = HeadVersion(p)
      BY <1>5 DEF StoredInv, HistoryInv, SafetyInv, TypeInv, TypeOK, HeadVersion
    <2>2. \A v \in Versions, f \in Names : v <= HeadVersion(p) - 1 =>
              mem'[p].manifest[v][f] = mem[p].manifest[v][f]
      BY <1>3, <1>5, <2>1 DEF HeadVersion, Versions
    <2>3. QED
      BY <1>1, <2>1, <2>2, FolderGoesOn
  <1>6. CASE DeleteFile(p) /\ mem' = [mem EXCEPT ![p] = RemoveContent(mem[p], op[p].file)]
    <2> DEFINE inv == RemoveContent(mem[p], op[p].file)
    <2>1. inv.head = mem[p].head /\ inv.manifest = mem[p].manifest
      BY <1>3, RemoveContentType
    <2>2. mem' = [mem EXCEPT ![p] = inv]
      BY <1>6
    <2> HIDE DEF inv
    <2>3. QED
      BY <1>2, <1>5, <2>1, <2>2
  <1>7. CASE CopyVersion(p) /\ \E s \in CopySource(p) : AddCopy(p, s)
    <2>1. PICK s \in CopySource(p) : AddCopy(p, s)
      BY <1>7
    <2> DEFINE added == AddContent(mem[p], op[p].to, s.hash)
               inv == IF op[p].file = op[p].to THEN added
                      ELSE RemoveContent(added, op[p].file)
    <2>2. op[p].kind \in {"rename", "reinstate"}
      BY <1>7 DEF CopyVersion
    <2>3. s.hash \in Contents
      BY <1>1, <2>2, CopySourceHeld DEF StoredInv, HistoryInv
    <2>4. /\ added \in Inventory /\ added.head = mem[p].head
          /\ \A v \in Versions, f \in Names : v # mem[p].head =>
                 added.manifest[v][f] = mem[p].manifest[v][f]
      BY <1>3, <2>2, <2>3, AddContentType
    <2>5. mem' = [mem EXCEPT ![p] = inv]
      BY <2>1 DEF AddCopy
    <2> HIDE DEF added
    <2>6. inv.head = mem[p].head /\ inv.manifest = added.manifest
      BY <1>3, <2>4, RemoveContentType
    <2> HIDE DEF inv
    <2>7. \A v \in Versions, f \in Names : v # mem[p].head =>
              inv.manifest[v][f] = mem[p].manifest[v][f]
      BY <2>4, <2>6
    <2>8. FolderKept(p)'
      BY <1>5, <2>5, <2>6, <2>7
    <2>9. QED
      BY <1>2, <2>8
  <1>8. QED
    BY <1>4, <1>6, <1>7 DEF CopyVersion, DeleteFile

(* From the move to the commit: the folder is there, so nothing goes wrong. *)
LEMMA MetadataStored ==
    ASSUME StoredInv, CommitsMoved, NEW p, Procs = {p},
           WriteMetadata(p) \/ WriteVersionInventory(p)
    PROVE  FolderKept(p)' /\ \A u \in Uploads : StoredKept(p, u)'
  <1>1. /\ UNCHANGED <<rootInv, verDirs, staged, op>> /\ pc[p] \in {"metadata", "verInv"}
        /\ pc[p] \in Opened \ Committing
    BY DEF WriteMetadata, WriteVersionInventory, Opened, PCs, Committing
  <1>2. Writable(p)
    BY <1>1 DEF StoredInv, FolderKept, Writable
  <1>3. mem[p] \in Inventory /\ mem[p].head \in Versions
    BY <1>1, OpenFacts DEF StoredInv
  <1>4. rootInv # Torn
    BY <1>1 DEF StoredInv, HistoryInv, SafetyInv, RootKept
  <1>5. /\ pc'[p] \in {"verInv", "rootInv"} /\ HeadVersion(p)' = HeadVersion(p)
        /\ \A v \in Versions, f \in Names : f # MetaFile \/ v # HeadVersion(p) =>
               mem'[p].manifest[v][f] = mem[p].manifest[v][f]
    <2>1. CASE WriteMetadata(p)
      <3> DEFINE inv == AddContent(mem[p], MetaFile, Meta)
      <3>1. mem' = [mem EXCEPT ![p] = inv] /\ Goto(p, "verInv")
        BY <1>2, <2>1 DEF WriteMetadata, Fails, CommitsMoved
      <3>2. /\ inv.head = mem[p].head
            /\ \A v \in Versions, f \in Names : f # MetaFile \/ v # mem[p].head =>
                   inv.manifest[v][f] = mem[p].manifest[v][f]
        BY <1>3, AddContentType DEF Names, Contents
      <3> HIDE DEF inv
      <3>3. mem'[p] = inv /\ pc'[p] = "verInv"
        BY <3>1 DEF Goto, StoredInv, HistoryInv, SafetyInv, TypeInv, TypeOK
      <3>4. QED
        BY <3>2, <3>3 DEF HeadVersion
    <2>2. CASE WriteVersionInventory(p)
      <3>1. mem' = mem /\ Goto(p, "rootInv")
        BY <1>2, <2>2 DEF WriteVersionInventory, Fails, CommitsMoved
      <3>2. pc'[p] = "rootInv"
        BY <3>1 DEF Goto, StoredInv, HistoryInv, SafetyInv, TypeInv, TypeOK
      <3>3. QED
        BY <3>1, <3>2 DEF HeadVersion
    <2>3. QED
      BY <2>1, <2>2
  <1>6. FolderKept(p)'
    <2>1. \A v \in Versions : v <= HeadVersion(p) - 1 => v # HeadVersion(p)
      BY <1>3 DEF HeadVersion, Versions
    <2>2. QED
      BY <1>1, <1>5, <2>1, FolderGoesOn
  <1>7. ASSUME NEW u \in Uploads PROVE StoredKept(p, u)'
    <2>1. StoredKept(p, u)
      BY DEF StoredInv
    <2>2. CASE u \in staged
      BY <1>1, <2>2 DEF StoredKept
    <2>3. CASE Complete(rootInv) /\ KeptIn(rootInv, rootInv.head, u)
      BY <1>1, <2>3 DEF StoredKept, Complete, KeptIn
    <2>4. CASE BeingStored(p, u)
      <3>1. op[p].file \in Names /\ op[p].file # MetaFile
        BY <2>4, OperationFields, ConstantsAssumption
        DEF BeingStored, StoredInv, HistoryInv, SafetyInv, TypeInv, TypeOK, Names
      <3>2. BeingStored(p, u)'
        BY <1>1, <1>3, <1>5, <2>4, <3>1 DEF BeingStored, HeadVersion
      <3>3. QED
        BY <3>2 DEF StoredKept
    <2>5. QED
      BY <1>4, <2>1, <2>2, <2>3, <2>4 DEF StoredKept
  <1>8. QED
    BY <1>6, <1>7

(* The commit lists what was moved.                                        *)
LEMMA CommitStored ==
    ASSUME StoredInv, Serial, NEW p, Procs = {p},
           TruncateRootInventory(p) \/ WriteRootInventory(p)
    PROVE  FolderKept(p)' /\ \A u \in Uploads : StoredKept(p, u)'
  <1> DEFINE h == HeadVersion(p)
  <1>1. /\ UNCHANGED <<staged, verDirs, op, mem>> /\ pc[p] \in {"rootInv", "rootInvEnd"}
        /\ pc[p] \in Opened \ Committing /\ h' = h
    BY DEF TruncateRootInventory, WriteRootInventory, Opened, PCs, Committing, HeadVersion
  <1>2. /\ mem[p] \in Inventory /\ mem[p].head \in Versions /\ mem[p].head = h
        /\ h \in verDirs
    BY <1>1, OpenFacts DEF StoredInv, FolderKept, HeadVersion
  <1>3. CASE TruncateRootInventory(p)
    <2>1. pc[p] = "rootInv" /\ pc'[p] = "rootInvEnd" /\ rootInv' = Torn
      BY <1>3 DEF TruncateRootInventory, Goto, StoredInv, HistoryInv, SafetyInv, TypeInv,
         TypeOK
    <2>2. FolderKept(p)'
      BY <1>1, <1>2, <2>1 DEF FolderKept, Complete
    <2>3. ASSUME NEW u \in Uploads PROVE StoredKept(p, u)'
      <3>1. StoredKept(p, u) /\ rootInv # Torn
        BY <2>1 DEF StoredInv, HistoryInv, SafetyInv, RootKept
      <3>2. CASE u \in staged
        BY <1>1, <3>2 DEF StoredKept
      <3>3. CASE Complete(rootInv) /\ KeptIn(rootInv, rootInv.head, u)
        <4>1. PICK v \in Versions, f \in Files : v <= rootInv.head /\ rootInv.manifest[v][f] = u
          BY <3>3 DEF KeptIn
        <4>2. rootInv.head = h - 1
          BY <1>1, <3>3 DEF StoredInv, HistoryInv, SafetyInv, RequestKept, OpenedKept
        <4>3. mem[p].manifest[v][f] = u
          BY <1>1, <3>3, <4>1, <4>2 DEF StoredInv, FolderKept, Names
        <4>4. KeptIn(mem[p], h - 1, u)
          BY <4>1, <4>2, <4>3 DEF KeptIn
        <4>5. QED
          BY <1>1, <2>1, <4>4 DEF StoredKept
      <3>4. CASE BeingStored(p, u)
        <4>1. BeingStored(p, u)'
          BY <1>1, <2>1, <3>4 DEF BeingStored
        <4>2. QED
          BY <4>1 DEF StoredKept
      <3>5. QED
        BY <3>1, <3>2, <3>3, <3>4 DEF StoredKept
    <2>4. QED
      BY <2>2, <2>3
  <1>4. CASE WriteRootInventory(p)
    <2>1. pc[p] = "rootInvEnd" /\ pc'[p] = "rootDigest" /\ rootInv' = mem[p]
      BY <1>4 DEF WriteRootInventory, Fails, Serial, Goto, StoredInv, HistoryInv,
         SafetyInv, TypeInv, TypeOK
    <2>2. FolderKept(p)'
      BY <1>1, <1>2, <2>1 DEF FolderKept, Committing
    <2>3. ASSUME NEW u \in Uploads PROVE StoredKept(p, u)'
      <3>1. StoredKept(p, u) /\ rootInv = Torn
        BY <2>1 DEF StoredInv, HistoryInv, ListedKept
      <3>2. CASE u \in staged
        BY <1>1, <3>2 DEF StoredKept
      <3>3. ASSUME KeptIn(mem[p], h, u) PROVE StoredKept(p, u)'
        <4>1. KeptIn(rootInv', rootInv'.head, u) /\ Complete(rootInv)'
          BY <1>2, <2>1, <3>3, ConstantsAssumption DEF Complete
        <4>2. KeptIn(rootInv, rootInv.head, u)'
          BY <4>1 DEF KeptIn
        <4>3. QED
          BY <4>1, <4>2 DEF StoredKept
      <3>4. CASE KeptIn(mem[p], h - 1, u)
        <4>1. \A v \in Versions : v <= h - 1 => v <= h
          BY <1>2, ConstantsAssumption DEF Versions
        <4>2. KeptIn(mem[p], h, u)
          BY <3>4, <4>1 DEF KeptIn
        <4>3. QED
          BY <3>3, <4>2
      <3>5. CASE BeingStored(p, u)
        <4>1. op[p].file \in Files /\ mem[p].manifest[h][op[p].file] = u
          BY <3>5, OperationFields DEF BeingStored, StoredInv, HistoryInv, SafetyInv,
             TypeInv, TypeOK
        <4>2. h \in Versions /\ h <= h
          BY <1>2, ConstantsAssumption DEF Versions
        <4>3. KeptIn(mem[p], h, u)
          BY <4>1, <4>2 DEF KeptIn
        <4>4. QED
          BY <3>3, <4>3
      <3>6. QED
        BY <3>1, <3>2, <3>4, <3>5 DEF StoredKept, Complete
    <2>4. QED
      BY <2>2, <2>3
  <1>5. QED
    BY <1>3, <1>4

(* Opening a version loses nothing.                                        *)
LEMMA OpenVersionStored ==
    ASSUME StoredInv, NEW p, Procs = {p}, OpenVersion(p)
    PROVE  FolderKept(p)' /\ \A u \in Uploads : StoredKept(p, u)'
  <1>1. UNCHANGED <<rootInv, staged>> /\ pc[p] = "addVersion" /\ HeadVersion(p) < MaxVersion
    BY DEF OpenVersion
  <1>2. \A u \in Uploads : StoredKept(p, u)'
    BY <1>1, StoredFrame
  <1>3. CASE Return(p)
    <2>1. pc'[p] = "idle"
      BY <1>3 DEF Return, Goto, StoredInv, HistoryInv, SafetyInv, TypeInv, TypeOK
    <2>2. QED
      BY <1>2, <2>1, FolderClosed
  <1>4. CASE /\ mem' = [mem EXCEPT ![p] = AddVersion(mem[p])]
             /\ verDirs' = verDirs \cup {HeadVersion(p) + 1}
    <2> DEFINE inv == AddVersion(mem[p])
    <2>1. mem'[p] = inv /\ mem[p] \in Inventory
      BY <1>4 DEF StoredInv, HistoryInv, SafetyInv, TypeInv, TypeOK
    <2>2. inv.head = HeadVersion(p) + 1 /\ inv.manifest = mem[p].manifest
      BY <1>1, <2>1, AddVersionType DEF HeadVersion
    <2>3. Complete(rootInv) => mem[p] = rootInv
      BY <1>1 DEF StoredInv, HistoryInv, ListedKept
    <2> HIDE DEF inv
    <2>4. HeadVersion(p)' \in verDirs'
      BY <1>4, <2>1, <2>2 DEF HeadVersion
    <2>5. Complete(rootInv)' => mem'[p].manifest = rootInv'.manifest
      BY <1>1, <2>1, <2>2, <2>3 DEF Complete
    <2>6. FolderKept(p)'
      BY <2>4, <2>5 DEF FolderKept
    <2>7. QED
      BY <1>2, <2>6
  <1>5. QED
    BY <1>3, <1>4 DEF OpenVersion

(* Everything is staged at the start.                                      *)
LEMMA InitStored == Init => StoredInv
  <1> SUFFICES ASSUME Init PROVE StoredInv
    OBVIOUS
  <1>1. ASSUME NEW p \in Procs PROVE FolderKept(p) /\ \A u \in Uploads : StoredKept(p, u)
    BY <1>1 DEF Init, FolderKept, Opened, StoredKept
  <1>2. QED
    BY <1>1, InitHistory DEF StoredInv

(* Every step keeps the uploads, if nothing fails after a move.            *)
LEMMA StoredStep == ASSUME Serial, CommitsMoved PROVE StoredInv /\ [Next]_vars => StoredInv'
  <1> SUFFICES ASSUME StoredInv, [Next]_vars PROVE StoredInv'
    OBVIOUS
  <1>1. PICK p : Procs = {p}
    BY DEF Serial
  <1>2. HistoryInv'
    BY HistoryStep DEF StoredInv
  <1>3. FolderKept(p)' /\ \A u \in Uploads : StoredKept(p, u)'
    <2>1. ASSUME UNCHANGED <<rootInv, staged>>,
                 pc[p] \notin {"metadata", "verInv", "rootInv", "rootInvEnd"},
                 NEW l \in {"idle", "init", "load", "addVersion"}, Goto(p, l)
          PROVE  FolderKept(p)' /\ \A u \in Uploads : StoredKept(p, u)'
      <3>1. pc'[p] = l
        BY <1>1, <2>1 DEF Goto, StoredInv, HistoryInv, SafetyInv, TypeInv, TypeOK
      <3>2. FolderKept(p)'
        BY <2>1, <3>1, FolderClosed
      <3>3. QED
        BY <1>1, <2>1, <3>2, StoredFrame
    <2>2. ASSUME NEW o \in Operations, Start(p, o)
          PROVE  FolderKept(p)' /\ \A u \in Uploads : StoredKept(p, u)'
      BY <2>1, <2>2 DEF Start, diskVars
    <2>3. CASE InitializeStructure(p) \/ LoadInventory(p)
      <3>1. /\ UNCHANGED <<rootInv, staged>> /\ pc[p] \in {"init", "load"}
            /\ \E l \in {"idle", "load", "addVersion"} : Goto(p, l)
        BY <2>3 DEF InitializeStructure, LoadInventory, Return, diskVars
      <3>2. QED
        BY <2>1, <3>1
    <2>4. CASE RollbackVersion(p)
      BY <2>1, <2>4 DEF RollbackVersion, Return
    <2>5. CASE WriteRootDigest(p) \/ RemoveStagingFolder(p)
      <3>1. /\ UNCHANGED <<rootInv, staged, verDirs>>
            /\ pc[p] \in {"rootDigest", "cleanup"}
            /\ Goto(p, "idle") \/ (Goto(p, "cleanup") /\ UNCHANGED mem)
        <4>1. Return(p) => Goto(p, "idle")
          BY DEF Return
        <4>2. Return(p) \/ (Goto(p, "cleanup") /\ UNCHANGED mem)
          BY <2>5 DEF WriteRootDigest, RemoveStagingFolder, Fails, Serial
        <4>3. UNCHANGED <<rootInv, staged, verDirs>> /\ pc[p] \in {"rootDigest", "cleanup"}
          BY <2>5 DEF WriteRootDigest, RemoveStagingFolder, diskVars
        <4>4. QED
          BY <4>1, <4>2, <4>3
      <3>2. CASE Goto(p, "idle")
        BY <2>1, <3>1, <3>2
      <3>3. CASE Goto(p, "cleanup") /\ UNCHANGED mem
        <4>1. pc'[p] = "cleanup" /\ HeadVersion(p)' = HeadVersion(p)
          BY <1>1, <3>3 DEF Goto, StoredInv, HistoryInv, SafetyInv, TypeInv, TypeOK,
             HeadVersion
        <4>2. FolderKept(p)'
          BY <1>1, <3>1, <3>3, <4>1, FolderGoesOn DEF Opened, PCs, Committing
        <4>3. QED
          BY <1>1, <3>1, <4>2, StoredFrame
      <3>4. QED
        BY <3>1, <3>2, <3>3
    <2>6. CASE Crash
      BY <2>6 DEF Crash, CommitsMoved, StoredInv, HistoryInv, SafetyInv, TypeInv, TypeOK
    <2>7. CASE UNCHANGED vars
      <3>1. UNCHANGED <<rootInv, staged, verDirs, pc, op, mem>>
        BY <2>7 DEF vars, diskVars, procVars
      <3>2. HeadVersion(p)' = HeadVersion(p)
        BY <3>1 DEF HeadVersion
      <3>3. FolderKept(p)'
        BY <1>1, <3>1, <3>2 DEF StoredInv, FolderKept, Complete
      <3>4. ASSUME NEW u \in Uploads PROVE StoredKept(p, u)'
        <4>1. StoredKept(p, u)
          BY <1>1 DEF StoredInv
        <4>2. QED
          BY <3>1, <3>2, <4>1 DEF StoredKept, BeingStored, Complete, KeptIn
      <3>5. QED
        BY <3>3, <3>4
    <2>8. CASE Step(p)
      BY <1>1, <2>2, <2>3, <2>4, <2>5, <2>8, OpenVersionStored, StoreStored, CopyStored,
         MetadataStored, CommitStored DEF Step
    <2>9. QED
      BY <1>1, <2>6, <2>7, <2>8 DEF Next
  <1>4. QED
    BY <1>1, <1>2, <1>3 DEF StoredInv

(* One request at a time, no failure or restart of which comes between the  *)
(* moving of the staged file and the commit, never loses an upload: its     *)
(* bits are staged, in the open version, or in a committed one.            *)
THEOREM UploadKeptSerial == ASSUME Serial, CommitsMoved PROVE Spec => []UploadKept
  <1>1. StoredInv => UploadKept
    <2> SUFFICES ASSUME StoredInv, NEW u \in Uploads, u \notin staged
                 PROVE  \E v \in Versions, f \in Files :
                            /\ disk[v][f] = u
                            /\ \/ v <= Committed.head /\ Committed.manifest[v][f] = u
                               \/ \E p \in Procs : /\ pc[p] # "idle" /\ HeadVersion(p) = v
                                                   /\ op[p].upload = u
      BY DEF UploadKept
    <2>1. PICK p : Procs = {p}
      BY DEF Serial
    <2>2. StoredKept(p, u) /\ u # None
      BY <2>1, ConstantsAssumption DEF StoredInv, Contents
    <2>3. CASE Complete(rootInv) /\ KeptIn(rootInv, rootInv.head, u)
      <3>1. PICK v \in Versions, f \in Files : v <= rootInv.head /\ rootInv.manifest[v][f] = u
        BY <2>3 DEF KeptIn
      <3>2. Committed = rootInv
        BY <2>3 DEF Committed
      <3>3. disk[v][f] = u
        BY <2>2, <2>3, <3>1 DEF StoredInv, HistoryInv, SafetyInv, RootKept, ManifestHeld, Names
      <3>4. QED
        BY <3>1, <3>2, <3>3
    <2>4. CASE rootInv = Torn /\ KeptIn(mem[p], HeadVersion(p) - 1, u)
      <3>1. PICK v \in Versions, f \in Files :
                v <= HeadVersion(p) - 1 /\ mem[p].manifest[v][f] = u
        BY <2>4 DEF KeptIn
      <3>2. pc[p] = "rootInvEnd" /\ mem[p] \in Inventory
        BY <2>1, <2>4 DEF StoredInv, HistoryInv, SafetyInv, RootKept, TypeInv, TypeOK
      <3> DEFINE old == [mem[p] EXCEPT !.head = @ - 1]
      <3>3. (CHOOSE q \in Procs : Writing(q)) = p /\ \E q \in Procs : Writing(q)
        BY <2>1, <3>2 DEF Writing
      <3>4. Committed = old
        BY <2>4, <3>3 DEF Committed, Complete
      <3>5. old.head = HeadVersion(p) - 1 /\ old.manifest = mem[p].manifest
        BY <3>2 DEF Inventory, HeadVersion
      <3> HIDE DEF old
      <3>6. disk[v][f] = u
        BY <2>1, <2>2, <3>1, <3>2
        DEF StoredInv, HistoryInv, SafetyInv, RequestKept, RecordedKept, Recorded,
            ManifestHeld, Names
      <3>7. QED
        BY <3>1, <3>4, <3>5, <3>6
    <2>5. CASE BeingStored(p, u)
      <3>1. /\ op[p].file \in Files /\ pc[p] # "idle" /\ op[p].upload = u
            /\ mem[p].manifest[HeadVersion(p)][op[p].file] = u
            /\ HeadVersion(p) \in Versions
        BY <2>1, <2>5, OperationFields DEF BeingStored, StoredInv, HistoryInv, SafetyInv,
           TypeInv, TypeOK, Placed, Opened, PCs
      <3>2. disk[HeadVersion(p)][op[p].file] = u
        BY <2>1, <2>2, <2>5, <3>1 DEF BeingStored, StoredInv, HistoryInv, SafetyInv,
           RequestKept, RecordedKept, Recorded, ManifestHeld, Names
      <3>3. QED
        BY <2>1, <3>1, <3>2
    <2>6. QED
      BY <2>2, <2>3, <2>4, <2>5 DEF StoredKept
  <1>2. QED
    BY InitStored, StoredStep, <1>1, PTL DEF Spec
=============================================================================
