-------------------------- MODULE ScenePublication --------------------------
(***************************************************************************)
(* One scene: its versions, its downloads and its package in EDAN, the     *)
(* public collection (SystemObjectVersion, PublishScene, EdanCollection).  *)
(*                                                                         *)
(* Every change of the scene's files makes a new SystemObjectVersion: a    *)
(* copy of the latest one with some asset versions replaced, read and      *)
(* written in two steps.  A change of the license, or of PosedAndQCd,      *)
(* starts the generation of downloads, which nobody waits for, or removes  *)
(* them with a new version.  A publication reads the latest version, sends *)
(* its files to EDAN, records the published state in the version it had    *)
(* read, and then tells EDAN who may see the package.                      *)
(*                                                                         *)
(* The scene has two assets, its file (svx) and its download; a version    *)
(* maps each to the number of an asset version, or to Absent.              *)
(***************************************************************************)
EXTENDS Naturals, Sequences

CONSTANTS
    Levels,             \* the RestrictLevels of the licenses
    FirstInherited,     \* the licenses the scene may inherit at first
    Requested,          \* the states a publication may be asked for
    Publications,       \* the slots of concurrent publications
    Tasks,              \* the slots of concurrent edits, ingestions and jobs
    SceneFlags,         \* the flags an edit may ask for
    MaxPublications, MaxTasks, MaxFailures, MaxInheritances, \* how often each happens
    MaxTotal,           \* and all of them together
    None

Flags == [posed : BOOLEAN, approved : BOOLEAN]

(* ePublishedState.  computeEdanSearchFlags gives each state a status and a
   publicSearch of its own, so that the state also names what EDAN shows. *)
States == {"NotPublished", "APIOnly", "Published"}

Package == [audience : States, content : Nat, downloads : Nat, cc0 : BOOLEAN]

ASSUME PublicationAssumption ==
    /\ Levels \subseteq Nat /\ FirstInherited \subseteq Levels \cup {None}
    /\ SceneFlags \subseteq Flags /\ Requested \subseteq States
    /\ None \notin Package /\ None \notin Tasks

VARIABLES
    scene,              \* PosedAndQCd and ApprovedForPublication
    named,              \* whether the scene has its EdanUUID
    own, inherited,     \* the levels of the scene's license and its ancestors'
    versions,           \* the SystemObjectVersions of the scene
    made,               \* how many versions of each asset exist
    edan,               \* the package in EDAN, or None
    publications, tasks,
    used,               \* how often each bounded thing happened
    last,               \* history: how the last publication ended
    expected,           \* history: the assets, had the operations been atomic
    lost,               \* history: assets a concurrent copy put back
    unchecked           \* history: downloads may be there without permission

vars == <<scene, named, own, inherited, versions, made, edan, publications, tasks, used,
          last, expected, lost, unchecked>>

Assets == {"svx", "download"}
Absent == 0
NoAssets == [a \in Assets |-> Absent]
License == Levels \cup {None}

Latest == versions[Len(versions)]

Use(what, bound) ==
    /\ used[what] < bound /\ used["total"] < MaxTotal
    /\ used' = [used EXCEPT ![what] = @ + 1, !["total"] = @ + 1]
Fails == Use("failures", MaxFailures)

-----------------------------------------------------------------------------
\* Licenses: what LicenseCache answers for the scene, and what follows of it.

Effective == IF own # None THEN own ELSE inherited

LicenseAllowsDownloadGeneration(l) == l # None /\ l <= 20
LicensePreventsPublishing(l) == l # None /\ l > 30
IsCC0(l) == l # None /\ l <= 10

-----------------------------------------------------------------------------
Only(a, version) == [x \in {a} |-> version]

NoTask == [at |-> "idle", kind |-> None, how |-> "keep", level |-> None, flags |-> None,
           old |-> None, new |-> None, overrides |-> <<>>, whole |-> FALSE, base |-> NoAssets,
           missed |-> {}, overtaken |-> FALSE]
NoPublication == [at |-> "idle", intended |-> None, flags |-> None, version |-> 0, row |-> None,
                  assets |-> NoAssets, seen |-> None, license |-> None, raced |-> FALSE, skewed |-> FALSE]

Init ==
    /\ scene = [posed |-> FALSE, approved |-> FALSE]
    /\ named = FALSE
    /\ own = None
    /\ inherited \in FirstInherited
    /\ versions = <<[state |-> "NotPublished", assets |-> [NoAssets EXCEPT !["svx"] = 1]]>>
    /\ made = [NoAssets EXCEPT !["svx"] = 1]
    /\ edan = None
    /\ publications = [p \in Publications |-> NoPublication]
    /\ tasks = [t \in Tasks |-> NoTask]
    /\ used = [publications |-> 0, tasks |-> 0, failures |-> 0, inheritances |-> 0, total |-> 0]
    /\ last = None
    /\ expected = Latest.assets
    /\ lost = {}
    /\ unchecked = FALSE

Editing(t) == tasks[t].at # "idle" /\ tasks[t].kind = "edit"

(* The other edits, and the generations of downloads, were started under the
   former license and pose: none of them looks again. *)
Overtaking(t, new) ==
    [u \in Tasks |-> IF u = t THEN new
                     ELSE IF tasks[u].kind \in {"edit", "generate"}
                          THEN [tasks[u] EXCEPT !.overtaken = TRUE]
                          ELSE tasks[u]]

-----------------------------------------------------------------------------
\* Edits: updateObjectDetails, assignLicense and clearLicenseAssignment.

EditTask(how, level, flags, old) ==
    [NoTask EXCEPT !.at = "licensing", !.kind = "edit", !.how = how, !.level = level,
                   !.flags = flags, !.old = old]

(* The request is read, and the license the scene has before it.  It assigns
   a license, clears it (clearLicenseAssignment), removes it (the way
   updateObjectDetails clears one) or keeps it.  Only updateObjectDetails has
   flags. *)
StartEdit(t, how, level, flags) ==
    /\ tasks[t].at = "idle" /\ Use("tasks", MaxTasks)
    /\ how \in (IF flags = None THEN {"assign", "clear"} ELSE {"assign", "remove", "keep"})
    /\ (level # None) <=> (how = "assign")
    /\ tasks' = [tasks EXCEPT ![t] = EditTask(how, level, flags, Effective)]
    /\ unchecked' = (unchecked \/ \E u \in Tasks : Editing(u))
    /\ UNCHANGED <<scene, named, own, inherited, versions, made, edan, publications, last, expected, lost>>

(* The license is changed.  clearLicenseAssignment asks again which license
   applies; updateObjectDetails takes it that none does. *)
ChangeLicense(t) ==
    LET task == tasks[t]
        newOwn == CASE task.how = "keep" -> own
                    [] task.how = "assign" -> task.level
                    [] OTHER -> None
    IN  /\ task.at = "licensing"
        /\ own' = newOwn
        /\ tasks' = Overtaking(t, [task EXCEPT !.at = "updating",
                        !.new = CASE task.how = "keep" -> task.old
                                  [] task.how = "clear" -> inherited
                                  [] OTHER -> task.level])
        /\ UNCHANGED <<scene, named, inherited, versions, made, edan, publications, used, last,
                       expected, lost, unchecked>>

(* Clearing or assigning failed: the request ends with the former license
   ended or not, and nothing looks at the downloads. *)
ChangeLicenseFails(t) ==
    /\ tasks[t].at = "licensing" /\ tasks[t].how # "keep" /\ Fails
    /\ own' \in {own, None}
    /\ tasks' = Overtaking(t, NoTask)
    /\ unchecked' = TRUE
    /\ UNCHANGED <<scene, named, inherited, versions, made, edan, publications, last, expected, lost>>

(* A job si-generate-downloads; overtaken when nobody vouches that the scene
   may have downloads. *)
Generation(overtaken) ==
    [NoTask EXCEPT !.at = "cooking", !.kind = "generate", !.overtaken = overtaken]

DownloadStateByLicense(posed, l) == LicenseAllowsDownloadGeneration(l)
DownloadState(posed, l) == posed /\ LicenseAllowsDownloadGeneration(l)

(* The scene's row is updated, and handleSceneUpdates compares the state
   before with the state after: it starts a generation of downloads, which
   from here on goes its own way, removes them, or leaves them. *)
ChangeScene(t) ==
    LET task == tasks[t]
        flags == IF task.flags = None THEN scene ELSE task.flags
        before == DownloadState(scene.posed, task.old)
        after == DownloadState(flags.posed, task.new)
    IN  /\ task.at = "updating"
        /\ scene' = flags /\ UNCHANGED named
        /\ tasks' = Overtaking(t,
               IF after = before THEN NoTask
               ELSE IF after THEN Generation(task.overtaken)
               ELSE [NoTask EXCEPT !.at = "copying", !.kind = "edit",
                                   !.overrides = Only("download", Absent)])
        /\ unchecked' = (unchecked \/ task.overtaken)
        /\ UNCHANGED <<own, inherited, versions, made, edan, publications, used, last,
                       expected, lost>>

(* Reading or updating the scene's row failed, after the license changed. *)
ChangeSceneFails(t) ==
    /\ tasks[t].at = "updating" /\ Fails
    /\ tasks' = [tasks EXCEPT ![t] = NoTask]
    /\ unchecked' = TRUE
    /\ UNCHANGED <<scene, named, own, inherited, versions, made, edan, publications, last, expected, lost>>

(* The license of an ancestor changes.  Nothing looks at the scene's downloads. *)
InheritLicense(l) ==
    /\ l # inherited /\ Use("inheritances", MaxInheritances)
    /\ inherited' = l
    /\ tasks' = Overtaking(None, NoTask)
    /\ unchecked' = (unchecked \/ own = None)
    /\ UNCHANGED <<scene, named, own, versions, made, edan, publications, last, expected, lost>>

-----------------------------------------------------------------------------
\* Files: ingestion, the job si-generate-downloads, and rollback.

Event == [NoTask EXCEPT !.at = "asking", !.kind = "event"]

(* ingestAsset: a new version of the scene's file, which replaces the old
   one, or all the assets when it came in a zip.  The event that says so is
   sent before the version is written, and nobody waits for it; it comes to
   nothing (u = t) when the ingestion moved no model of the scene. *)
Ingest(t, u, whole) ==
    /\ tasks[t].at = "idle" /\ tasks[u].at = "idle" /\ Use("tasks", MaxTasks)
    /\ made' = [made EXCEPT !["svx"] = @ + 1]
    /\ tasks' = [tasks EXCEPT ![u] = Event,
                     ![t] = [NoTask EXCEPT !.at = "copying", !.kind = "ingest",
                                !.overrides = Only("svx", made["svx"] + 1), !.whole = whole]]
    /\ UNCHANGED <<scene, named, own, inherited, versions, edan, publications, last, expected, lost, unchecked>>

(* The event of the ingestion starts a generation when the scene allows it. *)
Ask(t) ==
    /\ tasks[t].at = "asking"
    /\ tasks' = [tasks EXCEPT ![t] =
                     IF DownloadState(scene.posed, Effective)
                     THEN Generation(\E u \in Tasks : Editing(u)) ELSE NoTask]
    /\ UNCHANGED <<scene, named, own, inherited, versions, made, edan, publications, used, last,
                   expected, lost, unchecked>>

(* A model the scene is made from was ingested (eventIngestionIngestObjectModel):
   a generation for the scene starts whatever its pose and its license are,
   as if an edit had overtaken it from the start. *)
IngestModel(t) ==
    /\ tasks[t].at = "idle" /\ Use("tasks", MaxTasks)
    /\ tasks' = [tasks EXCEPT ![t] = Generation(TRUE)]
    /\ UNCHANGED <<scene, named, own, inherited, versions, made, edan, publications, last,
                   expected, lost, unchecked>>

(* The job ended well and createSystemObjects ingests the download. *)
CookEnds(t) ==
    /\ tasks[t].at = "cooking"
    /\ made' = [made EXCEPT !["download"] = @ + 1]
    /\ tasks' = [tasks EXCEPT ![t] =
                     [@ EXCEPT !.at = "copying", !.overrides = Only("download", made["download"] + 1)]]
    /\ UNCHANGED <<scene, named, own, inherited, versions, edan, publications, used, last,
                   expected, lost, unchecked>>

(* There is no master model to generate from, or the job failed. *)
CookFails(t) ==
    /\ tasks[t].at = "cooking"
    /\ tasks' = [tasks EXCEPT ![t] = NoTask]
    /\ UNCHANGED <<scene, named, own, inherited, versions, made, edan, publications, used, last,
                   expected, lost, unchecked>>

(* rollbackSystemObjectVersion copies the assets of an older version, which
   never change, and overrides none. *)
Rollback(t, v) ==
    /\ tasks[t].at = "idle" /\ Use("tasks", MaxTasks)
    /\ v < Len(versions)
    /\ tasks' = [tasks EXCEPT ![t] = [NoTask EXCEPT !.at = "writing", !.kind = "rollback",
                                         !.base = versions[v].assets]]
    /\ UNCHANGED <<scene, named, own, inherited, versions, made, edan, publications, last,
                   expected, lost, unchecked>>

-----------------------------------------------------------------------------
\* SystemObjectVersion.cloneObjectAndXrefs: one transaction, whose read of
\* the latest version locks nothing.

PublishedMap ==
    LET published == {i \in 1 .. Len(versions) : versions[i].state # "NotPublished"}
    IN  IF published = {} THEN Latest.assets
        ELSE versions[CHOOSE i \in published : \A j \in published : j <= i].assets
LatestMap == Latest.assets

ReadMap(t) ==
    /\ tasks[t].at = "copying"
    /\ tasks' = [tasks EXCEPT ![t] =
                     [@ EXCEPT !.at = "writing",
                               !.base = IF tasks[t].whole THEN NoAssets ELSE LatestMap]]
    /\ UNCHANGED <<scene, named, own, inherited, versions, made, edan, publications, used, last,
                   expected, lost, unchecked>>

(* The assets a task decides about: those it does not, it copies. *)
Decides(task) == IF task.kind = "rollback" \/ task.whole THEN Assets ELSE DOMAIN task.overrides

OverridesOnly(base, overrides) == overrides
Overridden(base, overrides) ==
    [a \in Assets |-> IF a \in DOMAIN overrides THEN overrides[a] ELSE base[a]]

(* A task that is between its read and its write misses what this one
   writes. *)
Missing(t) ==
    [u \in Tasks |-> IF tasks[u].at = "writing"
                     THEN [tasks[u] EXCEPT !.missed = tasks[u].missed \cup Decides(tasks[t])]
                     ELSE tasks[u]]

WriteVersion(t) ==
    LET task == tasks[t]
        assets == Overridden(task.base, task.overrides)
    IN  /\ task.at = "writing"
        /\ versions' = Append(versions, [state |-> "NotPublished", assets |-> assets])
        /\ tasks' = [Missing(t) EXCEPT ![t] = NoTask]
        /\ expected' = [a \in Assets |-> IF a \in Decides(task) THEN assets[a] ELSE expected[a]]
        /\ lost' = (lost \cup task.missed) \ Decides(task)
        /\ unchecked' = CASE task.kind = "edit" -> FALSE
                          [] task.kind = "ingest" /\ task.whole -> FALSE
                          [] task.kind = "rollback" -> TRUE
                          [] OTHER -> unchecked \/ task.overtaken
        /\ UNCHANGED <<scene, named, own, inherited, made, edan, publications, used, last>>

(* One of the xrefs cannot be created: the call returns null, which does not
   undo the transaction, and the version stays without that asset. *)
WriteVersionFails(t, a) ==
    LET task == tasks[t]
        assets == [Overridden(task.base, task.overrides) EXCEPT ![a] = Absent]
    IN  /\ task.at = "writing" /\ Overridden(task.base, task.overrides)[a] # Absent /\ Fails
        /\ versions' = Append(versions, [state |-> "NotPublished", assets |-> assets])
        /\ tasks' = [Missing(t) EXCEPT ![t] = NoTask]
        /\ expected' = [b \in Assets |-> IF b \in Decides(task) THEN assets[b] ELSE expected[b]]
        /\ lost' = ((lost \cup task.missed) \ Decides(task)) \cup {a}
        /\ unchecked' = TRUE
        /\ UNCHANGED <<scene, named, own, inherited, made, edan, publications, last>>

(* The version itself cannot be created. *)
CreateVersionFails(t) ==
    /\ tasks[t].at = "writing" /\ Fails
    /\ tasks' = [tasks EXCEPT ![t] = NoTask]
    /\ unchecked' = TRUE
    /\ UNCHANGED <<scene, named, own, inherited, versions, made, edan, publications, last, expected, lost>>

-----------------------------------------------------------------------------
\* PublishScene.publish.

(* fetchScene: the latest version is read, and the scene, which must be
   approved and posed unless it is to be withdrawn. *)
FetchScene(p, s) ==
    /\ publications[p].at = "idle" /\ Use("publications", MaxPublications)
    /\ s = "NotPublished" \/ (scene.approved /\ scene.posed)
    /\ LET others == {q \in Publications \ {p} : publications[q].at # "idle"}
       IN  publications' = [q \in Publications |->
               IF q = p THEN [NoPublication EXCEPT
                                 !.at = IF named THEN "collecting" ELSE "naming",
                                 !.intended = s, !.flags = IF named THEN None ELSE scene,
                                 !.version = Len(versions), !.row = Latest.state,
                                 !.raced = others # {}]
               ELSE IF q \in others THEN [publications[q] EXCEPT !.raced = TRUE]
               ELSE publications[q]]
    /\ UNCHANGED <<scene, named, own, inherited, versions, made, edan, tasks, last,
                   expected, lost, unchecked>>

(* The first publication gives the scene its EdanUUID, and writes the whole
   row as it was read: flags that an edit changed since are put back, without
   a look at the downloads. *)
NameScene(p) ==
    LET pub == publications[p]
    IN  /\ pub.at = "naming"
        /\ named' = TRUE /\ scene' = pub.flags
        /\ publications' = [publications EXCEPT ![p] = [@ EXCEPT !.at = "collecting", !.flags = None]]
        /\ tasks' = IF pub.flags = scene THEN tasks ELSE Overtaking(None, NoTask)
        /\ unchecked' = (unchecked \/ pub.flags # scene)
        /\ UNCHANGED <<own, inherited, versions, made, edan, used, last, expected, lost>>

(* collectAssets reads the latest version again. *)
CollectAssets(p) ==
    /\ publications[p].at = "collecting"
    /\ publications' = [publications EXCEPT ![p] =
                            [@ EXCEPT !.at = "staging", !.assets = Latest.assets,
                                      !.skewed = publications[p].version # Len(versions)]]
    /\ UNCHANGED <<scene, named, own, inherited, versions, made, edan, tasks, used, last,
                   expected, lost, unchecked>>

(* The files are staged and createEdan3DPackage sends them: the public sees
   them at once if it saw the package before.  Who sees a new package is up
   to EDAN. *)
Created(pub, audience) ==
    IF edan = None
    THEN [audience |-> audience, content |-> pub.assets["svx"], downloads |-> Absent, cc0 |-> FALSE]
    ELSE [edan EXCEPT !.content = pub.assets["svx"]]

CreatePackage(p, audience) ==
    LET package == Created(publications[p], audience)
    IN  /\ publications[p].at = "staging" /\ publications[p].assets # NoAssets
        /\ edan # None => audience = edan.audience
        /\ edan' = package
        /\ publications' = [publications EXCEPT ![p] = [@ EXCEPT !.at = "recording", !.seen = package]]
        /\ UNCHANGED <<scene, named, own, inherited, versions, made, tasks, used, last,
                       expected, lost, unchecked>>

(* stageDownloads, the license, and updatePublishedState: the version read at
   the start gets the state, lowered when the license prevents publishing,
   unless it had it when it was read. *)
StateAllowed(intended, l) == IF LicensePreventsPublishing(l) THEN "NotPublished" ELSE intended

RecordState(p) ==
    LET pub == publications[p]
        state == StateAllowed(pub.intended, Effective)
    IN  /\ pub.at = "recording"
        /\ versions' = IF state = pub.row THEN versions
                       ELSE [versions EXCEPT ![pub.version] = [@ EXCEPT !.state = state]]
        /\ publications' = [publications EXCEPT ![p] = [@ EXCEPT !.at = "releasing", !.license = Effective]]
        /\ UNCHANGED <<scene, named, own, inherited, made, edan, tasks, used, last,
                       expected, lost, unchecked>>

(* computeEdanSearchFlags is given publish's own intended state. *)
Audience(pub) == pub.intended
ResourcesAlways(pub) == pub.assets["download"]
Resources(pub) == IF Audience(pub) = "NotPublished" THEN Absent ELSE pub.assets["download"]

NeedsUpdateOfRow(pub) ==
    \/ pub.assets["download"] # Absent
    \/ versions[pub.version].state # Audience(pub)
    \/ IsCC0(pub.license) # pub.seen.cc0
NeedsUpdate(pub) ==
    \/ pub.assets["download"] # Absent
    \/ Audience(pub) # pub.seen.audience
    \/ IsCC0(pub.license) # pub.seen.cc0

(* Without a scene file there is no document to update EDAN with: publish
   skips the update and reports success. *)
HasDocument(pub) == pub.assets["svx"] # Absent

Ended(pub, ok, updated) ==
    [ok |-> ok, version |-> pub.version, intended |-> pub.intended, license |-> pub.license,
     raced |-> pub.raced, skewed |-> pub.skewed, document |-> HasDocument(pub),
     updated |-> updated]

Updated(pub) ==
    [audience |-> Audience(pub), content |-> pub.assets["svx"],
     downloads |-> Resources(pub), cc0 |-> IsCC0(pub.license)]

(* updateEdan3DPackage, when there are downloads or something differs from
   what createEdan3DPackage answered. *)
UpdatePackage(p) ==
    LET pub == publications[p]
        updates == NeedsUpdate(pub) /\ HasDocument(pub)
    IN  /\ pub.at = "releasing"
        /\ edan' = IF updates THEN Updated(pub) ELSE edan
        /\ publications' = [publications EXCEPT ![p] = NoPublication]
        /\ last' = Ended(pub, TRUE, updates)
        /\ UNCHANGED <<scene, named, own, inherited, versions, made, tasks, used,
                       expected, lost, unchecked>>

(* A step fails: what the steps before it did stays.  Staging writes the
   files in place, so that one that fails leaves some of them there; edan is
   what EDAN was told of, and no property speaks of the staged files before
   the next publication has staged them all. *)
PublishFails(p) ==
    /\ publications[p].at # "idle" /\ Fails
    /\ publications' = [publications EXCEPT ![p] = NoPublication]
    /\ last' = Ended(publications[p], FALSE, FALSE)
    /\ UNCHANGED <<scene, named, own, inherited, versions, made, edan, tasks,
                   expected, lost, unchecked>>

(* EDAN does what it is told and its answer is lost, or is no JSON: the
   publication fails all the same. *)
AnswerLost(p, audience) ==
    LET pub == publications[p]
    IN  /\ pub.at \in {"staging", "releasing"} /\ Fails
        /\ IF pub.at = "staging"
           THEN /\ pub.assets # NoAssets
                /\ edan # None => audience = edan.audience
                /\ edan' = Created(pub, audience)
           ELSE /\ NeedsUpdate(pub) /\ HasDocument(pub) /\ audience = Audience(pub)
                /\ edan' = Updated(pub)
        /\ publications' = [publications EXCEPT ![p] = NoPublication]
        /\ last' = Ended(pub, FALSE, FALSE)
        /\ UNCHANGED <<scene, named, own, inherited, versions, made, tasks,
                       expected, lost, unchecked>>

(* The version that was read has no assets: nothing can be sent. *)
NothingToPublish(p) ==
    /\ publications[p].at = "staging" /\ publications[p].assets = NoAssets
    /\ publications' = [publications EXCEPT ![p] = NoPublication]
    /\ last' = Ended(publications[p], FALSE, FALSE)
    /\ UNCHANGED <<scene, named, own, inherited, versions, made, edan, tasks, used,
                   expected, lost, unchecked>>

-----------------------------------------------------------------------------
Next ==
    \/ \E t \in Tasks :
          \/ \E how \in {"assign", "clear", "remove", "keep"}, level \in License,
                flags \in SceneFlags \cup {None} : StartEdit(t, how, level, flags)
          \/ ChangeLicense(t)
          \/ ChangeLicenseFails(t)
          \/ ChangeScene(t)
          \/ ChangeSceneFails(t)
          \/ \E u \in Tasks, whole \in BOOLEAN : Ingest(t, u, whole)
          \/ Ask(t)
          \/ IngestModel(t)
          \/ CookEnds(t)
          \/ CookFails(t)
          \/ \E v \in 1 .. Len(versions) : Rollback(t, v)
          \/ ReadMap(t)
          \/ WriteVersion(t)
          \/ \E a \in Assets : WriteVersionFails(t, a)
          \/ CreateVersionFails(t)
    \/ \E l \in License : InheritLicense(l)
    \/ \E p \in Publications :
          \/ \E s \in Requested : FetchScene(p, s)
          \/ NameScene(p)
          \/ CollectAssets(p)
          \/ \E audience \in States : CreatePackage(p, audience) \/ AnswerLost(p, audience)
          \/ RecordState(p)
          \/ UpdatePackage(p)
          \/ PublishFails(p)
          \/ NothingToPublish(p)

Spec == Init /\ [][Next]_vars

-----------------------------------------------------------------------------
\* Properties.

AssetMap == [Assets -> Nat]

(* Type invariant. *)
TypeOK ==
    /\ scene \in Flags /\ named \in BOOLEAN
    /\ own \in License /\ inherited \in License
    /\ versions \in Seq([state : States, assets : AssetMap])
    /\ made \in AssetMap
    /\ edan \in Package \cup {None}
    /\ \A p \in Publications :
          /\ publications[p].at \in {"idle", "naming", "collecting", "staging", "recording",
                                    "releasing"}
          /\ publications[p].version \in 0 .. Len(versions)
          /\ publications[p].assets \in AssetMap
    /\ \A t \in Tasks :
          /\ tasks[t].at \in {"idle", "licensing", "updating", "asking", "cooking", "copying", "writing"}
          /\ tasks[t].base \in AssetMap
    /\ expected \in AssetMap /\ lost \subseteq Assets /\ unchecked \in BOOLEAN

Settled == last # None /\ last.ok /\ last.document /\ ~ last.raced
           /\ \A p \in Publications : publications[p].at = "idle"

(* After a publication that reported success, EDAN shows the package to those
   the version's PublishedState names, whatever failed in the publications
   before it: a retry repairs a row that says Published of a package EDAN
   still hides.  Left out are two publications at a time, a version without
   a scene file, which EDAN is not told of, and a license that prevents
   publishing (RestrictedNotShown). *)
RowTellsEdan ==
    Settled /\ ~ LicensePreventsPublishing(last.license)
        => edan.audience = versions[last.version].state

(* publish sends no update for a version without downloads when neither the
   audience nor the usage (CC0 or not) differs from what EDAN has: it does not
   look whether EDAN still serves downloads that were removed. *)
Overlooked(assets) ==
    assets["download"] = Absent /\ last.intended # "NotPublished" /\ ~ last.updated

(* After such a publication EDAN serves the scene file of its version and the
   downloads of that version, the old ones gone, and none once withdrawn;
   whatever failed in the publications before it.  Left out are removed
   downloads that publish overlooks, and a publication between whose two
   reads a version was made. *)
ContentAsRecorded ==
    Settled /\ ~ last.skewed
        => LET assets == versions[last.version].assets
           IN  /\ edan.content = assets["svx"]
               /\ \/ Overlooked(assets)
                  \/ edan.downloads = IF last.intended = "NotPublished" THEN Absent
                                      ELSE assets["download"]

(* A version holds downloads only while the scene is posed and its license
   allows them, once the edits are through: handleSceneUpdates finds every
   change, whichever request made it.  The history names what escapes it: an
   ancestor's license, a rollback, a generation that an edit overtook or that
   the ingestion of a model started without a look at the scene, flags that
   the first publication put back, two edits at a time, an edit or a copy that
   failed half-way. *)
DownloadsAllowed ==
    ~ unchecked /\ "download" \notin lost /\ (\A t \in Tasks : ~ Editing(t))
        => (Latest.assets["download"] # Absent
                => scene.posed /\ LicenseAllowsDownloadGeneration(Effective))

(* The latest version holds what the operations decided, each as if it ran
   alone in the order of the writes: the last ingested scene file, the last
   generated download or none once removed.  Only an asset that another task
   wrote between a copy's read and its write may have been put back. *)
NothingLost == \A a \in Assets \ lost : Latest.assets[a] = expected[a]

(* "Determine if licensing prevents publishing" (PublishScene.ts:738): a
   publication under a license that prevents publishing leaves the package
   hidden. *)
RestrictedNotShown ==
    Settled /\ LicensePreventsPublishing(last.license) => edan.audience = "NotPublished"

=============================================================================
