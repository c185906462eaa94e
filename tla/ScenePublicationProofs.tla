----------------------- MODULE ScenePublicationProofs -----------------------
(***************************************************************************)
(* TypeCorrect, NothingLostAlways, RowTellsEdanAlways,                     *)
(* ContentAsRecordedAlways and DownloadsAllowedAlways: for any licenses,   *)
(* any number of publications, edits, ingestions, jobs, rollbacks and      *)
(* failures.                                                               *)
(*                                                                         *)
(* The argument for the versions (CopiesInv): what a task copies is what   *)
(* the operations decided, unless another task has written it since the    *)
(* copy was read.  The argument for EDAN (ReleaseInv): a publication that  *)
(* no other crosses finds the row and the package as it left them at its   *)
(* step before.  The argument for the downloads (DownloadInv): they are    *)
(* permitted, or an edit is under way that will notice that they no longer *)
(* are, or is removing them, or was overtaken and is named unchecked when  *)
(* it ends; and a generation that nothing has overtaken runs only while    *)
(* downloads are permitted and no edit is between its two writes.          *)
(***************************************************************************)
EXTENDS ScenePublication, SequenceTheorems, TLAPS

Version == [state : States, assets : AssetMap]
Overrides == UNION {[S -> Nat] : S \in SUBSET Assets}

Ways == {"assign", "clear", "remove", "keep"}
AskedFlags == Flags \cup {None}

TaskType ==
    [at : {"idle", "licensing", "updating", "asking", "cooking", "copying", "writing"},
     kind : {"edit", "event", "generate", "ingest", "rollback", None},
     how : Ways, level : License,
     flags : AskedFlags, old : License, new : License,
     overrides : Overrides, whole : BOOLEAN, base : AssetMap,
     missed : SUBSET Assets, overtaken : BOOLEAN]

PublicationType ==
    [at : {"idle", "naming", "collecting", "staging", "recording", "releasing"},
     intended : States \cup {None}, flags : AskedFlags, version : Nat, row : States \cup {None},
     assets : AssetMap, seen : Package \cup {None}, license : License,
     raced : BOOLEAN, skewed : BOOLEAN]

-----------------------------------------------------------------------------
(* The type invariant, by the parts that a step can disturb.               *)

SceneTyped == scene \in Flags /\ named \in BOOLEAN /\ own \in License /\ inherited \in License
VersionsTyped == versions \in Seq(Version) /\ Len(versions) > 0
MadeTyped == made \in AssetMap
TasksTyped == tasks \in [Tasks -> TaskType]
EdanTyped == edan \in Package \cup {None}

(* A publication under way works on a version that exists; the package it  *)
(* has created is known to it.                                             *)
PublicationTyped(pub) ==
    /\ pub \in PublicationType
    /\ pub.at /= "idle" => /\ pub.version \in 1 .. Len(versions)
                           /\ pub.intended \in States /\ pub.row \in States
    /\ pub.at = "idle" => pub.version = 0
    /\ pub.at = "naming" => pub.flags \in Flags
    /\ pub.at \in {"recording", "releasing"} => pub.seen \in Package

PublicationsTyped ==
    /\ publications \in [Publications -> PublicationType]
    /\ \A p \in Publications : PublicationTyped(publications[p])

HistoryTyped == expected \in AssetMap /\ lost \subseteq Assets /\ unchecked \in BOOLEAN

TypeInv ==
    /\ SceneTyped /\ VersionsTyped /\ MadeTyped /\ TasksTyped
    /\ EdanTyped /\ PublicationsTyped /\ HistoryTyped

LEMMA TypeInvImplies == TypeInv => TypeOK
  <1> SUFFICES ASSUME TypeInv PROVE TypeOK
    OBVIOUS
  <1>1. /\ scene \in Flags /\ named \in BOOLEAN /\ own \in License /\ inherited \in License
        /\ versions \in Seq([state : States, assets : AssetMap])
        /\ made \in AssetMap
        /\ edan \in Package \cup {None}
        /\ expected \in AssetMap /\ lost \subseteq Assets /\ unchecked \in BOOLEAN
    BY DEF TypeInv, SceneTyped, VersionsTyped, MadeTyped, EdanTyped, HistoryTyped, Version
  <1>2. \A p \in Publications :
          /\ publications[p].at \in {"idle", "naming", "collecting", "staging", "recording", "releasing"}
          /\ publications[p].version \in 0 .. Len(versions)
          /\ publications[p].assets \in AssetMap
    <2> SUFFICES ASSUME NEW p \in Publications, NEW pub, pub = publications[p]
                 PROVE  /\ pub.at \in {"idle", "naming", "collecting", "staging", "recording", "releasing"}
                        /\ pub.version \in 0 .. Len(versions)
                        /\ pub.assets \in AssetMap
      OBVIOUS
    <2>1. pub \in PublicationType /\ PublicationTyped(pub) /\ Len(versions) \in Nat
      BY DEF TypeInv, PublicationsTyped, VersionsTyped
    <2> QED
      BY <2>1 DEF PublicationType, PublicationTyped
  <1>3. \A t \in Tasks :
          /\ tasks[t].at \in {"idle", "licensing", "updating", "asking", "cooking", "copying", "writing"}
          /\ tasks[t].base \in AssetMap
    BY DEF TypeInv, TasksTyped, TaskType
  <1> QED
    BY <1>1, <1>2, <1>3 DEF TypeOK

-----------------------------------------------------------------------------
(* Records of tasks.                                                       *)

LEMMA NoAssetsType == NoAssets \in AssetMap
  BY DEF NoAssets, AssetMap, Absent

LEMMA OnlyType ==
    ASSUME NEW a \in Assets, NEW n \in Nat
    PROVE  Only(a, n) \in Overrides
  <1>1. Only(a, n) \in [{a} -> Nat] /\ {a} \in SUBSET Assets
    BY DEF Only
  <1> QED
    BY <1>1 DEF Overrides

LEMMA NoTaskType == NoTask \in TaskType
  <1>1. <<>> \in [{} -> Nat]
    OBVIOUS
  <1>2. <<>> \in Overrides
    BY <1>1 DEF Overrides
  <1> QED
    BY <1>2, NoAssetsType DEF NoTask, TaskType, License, Ways, AskedFlags

LEMMA OvertakenType ==
    ASSUME NEW task \in TaskType
    PROVE  LET new == [task EXCEPT !.overtaken = TRUE]
           IN  /\ new \in TaskType /\ new.at = task.at /\ new.kind = task.kind
               /\ new.whole = task.whole /\ new.base = task.base
               /\ new.overrides = task.overrides /\ new.missed = task.missed
  BY DEF TaskType

LEMMA MissedType ==
    ASSUME NEW task \in TaskType, NEW more \in SUBSET Assets
    PROVE  LET new == [task EXCEPT !.missed = task.missed \cup more]
           IN  /\ new \in TaskType /\ new.at = task.at /\ new.kind = task.kind
               /\ new.whole = task.whole /\ new.base = task.base
               /\ new.overrides = task.overrides /\ new.missed = task.missed \cup more
  BY DEF TaskType

LEMMA EditType ==
    ASSUME NEW how \in Ways, NEW level \in License, NEW flags \in AskedFlags, NEW old \in License
    PROVE  EditTask(how, level, flags, old) \in TaskType
           /\ EditTask(how, level, flags, old).at = "licensing"
  BY NoTaskType DEF EditTask, TaskType

LEMMA LicensedType ==
    ASSUME NEW task \in TaskType, NEW level \in License
    PROVE  LET new == [task EXCEPT !.at = "updating", !.new = level]
           IN  new \in TaskType /\ new.at = "updating"
  BY DEF TaskType

LEMMA CookingType ==
    ASSUME NEW overtaken \in BOOLEAN
    PROVE  LET new == Generation(overtaken)
           IN  /\ new \in TaskType /\ new.at = "cooking" /\ new.kind = "generate"
               /\ new.overtaken = overtaken
  BY NoTaskType DEF TaskType, Generation

LEMMA EventType == Event \in TaskType /\ Event.at = "asking" /\ Event.kind = "event"
  BY NoTaskType DEF TaskType, Event

LEMMA RemovingType ==
    ASSUME NEW overrides \in Overrides
    PROVE  LET new == [NoTask EXCEPT !.at = "copying", !.kind = "edit", !.overrides = overrides]
           IN  new \in TaskType /\ new.at = "copying"
  BY NoTaskType DEF TaskType

LEMMA IngestType ==
    ASSUME NEW overrides \in Overrides, NEW whole \in BOOLEAN
    PROVE  LET new == [NoTask EXCEPT !.at = "copying", !.kind = "ingest",
                                     !.overrides = overrides, !.whole = whole]
           IN  new \in TaskType /\ new.at = "copying"
  BY NoTaskType DEF TaskType

LEMMA CookedType ==
    ASSUME NEW task \in TaskType, NEW overrides \in Overrides
    PROVE  LET new == [task EXCEPT !.at = "copying", !.overrides = overrides]
           IN  new \in TaskType /\ new.at = "copying"
  BY DEF TaskType

LEMMA CopyType ==
    ASSUME NEW task \in TaskType, NEW base \in AssetMap
    PROVE  LET new == [task EXCEPT !.at = "writing", !.base = base]
           IN  new \in TaskType /\ new.whole = task.whole /\ new.base = base
  BY DEF TaskType

LEMMA RollbackType ==
    ASSUME NEW base \in AssetMap
    PROVE  LET new == [NoTask EXCEPT !.at = "writing", !.kind = "rollback", !.base = base]
           IN  new \in TaskType /\ new.kind = "rollback"
  BY NoTaskType DEF TaskType

LEMMA OverriddenType ==
    ASSUME NEW base \in AssetMap, NEW overrides \in Overrides
    PROVE  Overridden(base, overrides) \in AssetMap
  BY DEF Overridden, Overrides, AssetMap

LEMMA EffectiveType == ASSUME SceneTyped PROVE Effective \in License
  BY DEF SceneTyped, Effective, License

LEMMA LatestType == ASSUME VersionsTyped PROVE Latest \in Version /\ Latest.assets \in AssetMap
  <1>1. Len(versions) \in 1 .. Len(versions) /\ \A i \in 1 .. Len(versions) : versions[i] \in Version
    BY DEF VersionsTyped
  <1> QED
    BY <1>1 DEF Latest, Version

-----------------------------------------------------------------------------
(* Most steps begin no write: a task that writes afterwards did before,    *)
(* and what it writes is the same.                                         *)

Carries(old, new) ==
    new.at = "writing" =>
        /\ old.at = "writing"
        /\ new.kind = old.kind /\ new.whole = old.whole /\ new.overrides = old.overrides
        /\ new.base = old.base /\ new.missed = old.missed

LEMMA OneTask ==
    ASSUME TasksTyped, NEW t \in Tasks, NEW new \in TaskType, new.at /= "writing",
           tasks' = [tasks EXCEPT ![t] = new]
    PROVE  TasksTyped' /\ \A u \in Tasks : Carries(tasks[u], tasks'[u])
  <1>1. TasksTyped'
    BY DEF TasksTyped
  <1>2. tasks'[t] = new /\ \A u \in Tasks \ {t} : tasks'[u] = tasks[u]
    BY DEF TasksTyped
  <1> QED
    BY <1>1, <1>2 DEF Carries

LEMMA OvertakingTasks ==
    ASSUME TasksTyped, NEW t, NEW new \in TaskType, new.at /= "writing",
           tasks' = Overtaking(t, new)
    PROVE  TasksTyped' /\ \A u \in Tasks : Carries(tasks[u], tasks'[u])
  <1>1. ASSUME NEW u \in Tasks
        PROVE  tasks'[u] \in TaskType /\ Carries(tasks[u], tasks'[u])
    <2>1. tasks[u] \in TaskType
      BY DEF TasksTyped
    <2>2. CASE u = t
      BY <2>2 DEF Overtaking, Carries
    <2>3. CASE u /= t /\ tasks[u].kind \in {"edit", "generate"}
      <3>1. tasks'[u] = [tasks[u] EXCEPT !.overtaken = TRUE]
        BY <2>3 DEF Overtaking
      <3> QED
        BY <2>1, <3>1, OvertakenType DEF Carries
    <2>4. CASE u /= t /\ tasks[u].kind \notin {"edit", "generate"}
      BY <2>1, <2>4 DEF Overtaking, Carries
    <2> QED
      BY <2>2, <2>3, <2>4
  <1>2. tasks' = [u \in Tasks |-> tasks'[u]]
    BY DEF Overtaking
  <1> QED
    BY <1>1, <1>2 DEF TasksTyped

-----------------------------------------------------------------------------
(* What each step does to the tasks.                                       *)

LEMMA StartEditTasks ==
    ASSUME TypeInv, NEW t \in Tasks, NEW how \in Ways,
           NEW level \in License, NEW flags \in SceneFlags \cup {None},
           StartEdit(t, how, level, flags)
    PROVE  TasksTyped' /\ \A u \in Tasks : Carries(tasks[u], tasks'[u])
  <1>1. flags \in AskedFlags /\ Effective \in License
    BY EffectiveType, PublicationAssumption DEF TypeInv, AskedFlags
  <1>2. PICK new \in TaskType :
            new = EditTask(how, level, flags, Effective) /\ new.at = "licensing"
    BY <1>1, EditType
  <1>3. tasks' = [tasks EXCEPT ![t] = new]
    BY <1>2 DEF StartEdit
  <1> QED
    BY <1>2, <1>3, OneTask DEF TypeInv

LEMMA ChangeLicenseTasks ==
    ASSUME TypeInv, NEW t \in Tasks, ChangeLicense(t)
    PROVE  TasksTyped' /\ \A u \in Tasks : Carries(tasks[u], tasks'[u])
  <1>1. PICK task \in TaskType : task = tasks[t]
    BY DEF TypeInv, TasksTyped
  <1>2. PICK level \in License :
            level = CASE task.how = "keep" -> task.old
                      [] task.how = "clear" -> inherited
                      [] OTHER -> task.level
    BY DEF TypeInv, SceneTyped, TaskType
  <1>3. PICK new \in TaskType :
            new = [task EXCEPT !.at = "updating", !.new = level] /\ new.at = "updating"
    BY LicensedType, Zenon
  <1>4. tasks' = Overtaking(t, new)
    BY <1>1, <1>2, <1>3 DEF ChangeLicense
  <1> QED
    BY <1>3, <1>4, OvertakingTasks DEF TypeInv

LEMMA ChangeSceneTasks ==
    ASSUME TypeInv, NEW t \in Tasks, ChangeScene(t)
    PROVE  TasksTyped' /\ \A u \in Tasks : Carries(tasks[u], tasks'[u])
  <1>1. PICK task \in TaskType : task = tasks[t]
    BY DEF TypeInv, TasksTyped
  <1>2. PICK overtaken \in BOOLEAN : overtaken = task.overtaken
    BY DEF TaskType
  <1>3. PICK cooking \in TaskType :
            cooking = Generation(overtaken) /\ cooking.at = "cooking"
    BY CookingType
  <1>4. Absent \in Nat /\ "download" \in Assets
    BY DEF Absent, Assets
  <1>5. PICK overrides \in Overrides : overrides = Only("download", Absent)
    BY <1>4, OnlyType
  <1>6. PICK removing \in TaskType :
            /\ removing = [NoTask EXCEPT !.at = "copying", !.kind = "edit", !.overrides = overrides]
            /\ removing.at = "copying"
    BY RemovingType, Zenon
  <1>7. NoTask.at = "idle"
    BY DEF NoTask
  <1>8. \E new \in {NoTask, cooking, removing} : tasks' = Overtaking(t, new)
    BY <1>1, <1>2, <1>3, <1>5, <1>6 DEF ChangeScene
  <1>9. ASSUME NEW new \in {NoTask, cooking, removing}, tasks' = Overtaking(t, new)
        PROVE  TasksTyped' /\ \A u \in Tasks : Carries(tasks[u], tasks'[u])
    <2>1. new \in TaskType /\ new.at /= "writing"
      BY <1>3, <1>6, <1>7, NoTaskType
    <2> QED
      BY <1>9, <2>1, OvertakingTasks DEF TypeInv
  <1> QED
    BY <1>8, <1>9

LEMMA NoTaskTasks ==
    ASSUME TypeInv, NEW t, tasks' = Overtaking(t, NoTask) \/ tasks' = [tasks EXCEPT ![t] = NoTask],
           t \in Tasks \/ tasks' = Overtaking(t, NoTask)
    PROVE  TasksTyped' /\ \A u \in Tasks : Carries(tasks[u], tasks'[u])
  <1>1. NoTask.at = "idle"
    BY DEF NoTask
  <1> QED
    BY <1>1, NoTaskType, OneTask, OvertakingTasks DEF TypeInv

LEMMA IngestTasks ==
    ASSUME TypeInv, NEW t \in Tasks, NEW u \in Tasks, NEW whole \in BOOLEAN, Ingest(t, u, whole)
    PROVE  TasksTyped' /\ \A x \in Tasks : Carries(tasks[x], tasks'[x])
  <1>1. made["svx"] + 1 \in Nat /\ "svx" \in Assets
    BY DEF TypeInv, MadeTyped, AssetMap, Assets
  <1>2. PICK overrides \in Overrides : overrides = Only("svx", made["svx"] + 1)
    BY <1>1, OnlyType
  <1>3. PICK new \in TaskType :
            /\ new = [NoTask EXCEPT !.at = "copying", !.kind = "ingest",
                                    !.overrides = overrides, !.whole = whole]
            /\ new.at = "copying"
    BY IngestType, Zenon
  <1>4. tasks' = [tasks EXCEPT ![u] = Event, ![t] = new]
    BY <1>2, <1>3 DEF Ingest
  <1>5. tasks \in [Tasks -> TaskType] /\ Event \in TaskType /\ Event.at = "asking"
    BY EventType DEF TypeInv, TasksTyped
  <1>6. /\ tasks' \in [Tasks -> TaskType] /\ tasks'[t] = new
        /\ \A x \in Tasks \ {t} : tasks'[x] \in {tasks[x], Event}
    BY <1>3, <1>4, <1>5
  <1> QED
    BY <1>3, <1>5, <1>6 DEF TasksTyped, Carries

LEMMA AskTasks ==
    ASSUME TypeInv, NEW t \in Tasks, Ask(t) \/ IngestModel(t)
    PROVE  TasksTyped' /\ \A u \in Tasks : Carries(tasks[u], tasks'[u])
  <1>1. PICK editing \in BOOLEAN : editing = \E u \in Tasks : Editing(u)
    OBVIOUS
  <1>2. NoTask.at = "idle"
    BY DEF NoTask
  <1>3. \A overtaken \in BOOLEAN : Generation(overtaken) \in TaskType
                                 /\ Generation(overtaken).at = "cooking"
    BY CookingType
  <1>4. PICK new \in TaskType : tasks' = [tasks EXCEPT ![t] = new] /\ new.at /= "writing"
    BY <1>1, <1>2, <1>3, NoTaskType DEF Ask, IngestModel
  <1> QED
    BY <1>4, OneTask DEF TypeInv

LEMMA CookEndsTasks ==
    ASSUME TypeInv, NEW t \in Tasks, CookEnds(t)
    PROVE  TasksTyped' /\ \A u \in Tasks : Carries(tasks[u], tasks'[u])
  <1>1. made["download"] + 1 \in Nat /\ "download" \in Assets
    BY DEF TypeInv, MadeTyped, AssetMap, Assets
  <1>2. PICK overrides \in Overrides : overrides = Only("download", made["download"] + 1)
    BY <1>1, OnlyType
  <1>3. PICK task \in TaskType : task = tasks[t]
    BY DEF TypeInv, TasksTyped
  <1>4. PICK new \in TaskType :
            new = [task EXCEPT !.at = "copying", !.overrides = overrides] /\ new.at = "copying"
    BY CookedType, Zenon
  <1>5. tasks' = [tasks EXCEPT ![t] = new]
    BY <1>2, <1>3, <1>4 DEF CookEnds
  <1> QED
    BY <1>4, <1>5, OneTask DEF TypeInv

(* A task that begins to write: a copy of the latest version, or of an     *)
(* older one.                                                              *)
LEMMA BeginTasks ==
    ASSUME TypeInv, NEW t \in Tasks,
           ReadMap(t) \/ \E v \in 1 .. Len(versions) : Rollback(t, v)
    PROVE  \E new \in TaskType :
              /\ tasks' = [tasks EXCEPT ![t] = new]
              /\ \/ new.kind = "rollback" \/ new.whole
                 \/ new.base = Latest.assets
  <1>1. CASE ReadMap(t)
    <2>1. PICK task \in TaskType : task = tasks[t]
      BY DEF TypeInv, TasksTyped
    <2>2. PICK base \in AssetMap : base = IF task.whole THEN NoAssets ELSE Latest.assets
      BY NoAssetsType, LatestType DEF TypeInv
    <2>3. PICK new \in TaskType :
              /\ new = [task EXCEPT !.at = "writing", !.base = base]
              /\ new.whole = task.whole /\ new.base = base
      BY CopyType, Zenon
    <2>4. tasks' = [tasks EXCEPT ![t] = new]
      BY <1>1, <2>1, <2>2, <2>3 DEF ReadMap, LatestMap
    <2>5. new.whole \/ new.base = Latest.assets
      BY <2>2, <2>3
    <2> QED
      BY <2>4, <2>5
  <1>2. ASSUME NEW v \in 1 .. Len(versions), Rollback(t, v)
        PROVE  \E new \in TaskType :
                  tasks' = [tasks EXCEPT ![t] = new] /\ new.kind = "rollback"
    <2>1. versions[v] \in Version
      BY DEF TypeInv, VersionsTyped
    <2>2. PICK base \in AssetMap : base = versions[v].assets
      BY <2>1 DEF Version
    <2>3. PICK new \in TaskType :
              /\ new = [NoTask EXCEPT !.at = "writing", !.kind = "rollback", !.base = base]
              /\ new.kind = "rollback"
      BY RollbackType, Zenon
    <2>4. tasks' = [tasks EXCEPT ![t] = new]
      BY <1>2, <2>2, <2>3 DEF Rollback
    <2> QED
      BY <2>3, <2>4
  <1> QED
    BY <1>1, <1>2

(* A version is written: the other writers have missed it.                 *)
LEMMA MissingTasks ==
    ASSUME TasksTyped, NEW t \in Tasks, NEW new \in TaskType, new.at /= "writing",
           tasks' = [Missing(t) EXCEPT ![t] = new]
    PROVE  /\ TasksTyped' /\ tasks'[t] = new
           /\ \A u \in Tasks \ {t} : tasks'[u].at = "writing" =>
                 /\ tasks[u].at = "writing"
                 /\ tasks'[u].kind = tasks[u].kind /\ tasks'[u].whole = tasks[u].whole
                 /\ tasks'[u].overrides = tasks[u].overrides /\ tasks'[u].base = tasks[u].base
                 /\ tasks'[u].missed = tasks[u].missed \cup Decides(tasks[t])
  <1>0. Decides(tasks[t]) \in SUBSET Assets
    <2>1. tasks[t].overrides \in Overrides
      BY DEF TasksTyped, TaskType
    <2>2. DOMAIN tasks[t].overrides \subseteq Assets
      BY <2>1 DEF Overrides
    <2> QED
      BY <2>2 DEF Decides
  <1>1. PICK more \in SUBSET Assets : more = Decides(tasks[t])
    BY <1>0
  <1>2. ASSUME NEW u \in Tasks \ {t}
        PROVE  /\ tasks'[u] \in TaskType
               /\ tasks'[u].at = "writing" =>
                     /\ tasks[u].at = "writing"
                     /\ tasks'[u].kind = tasks[u].kind /\ tasks'[u].whole = tasks[u].whole
                     /\ tasks'[u].overrides = tasks[u].overrides /\ tasks'[u].base = tasks[u].base
                     /\ tasks'[u].missed = tasks[u].missed \cup more
    <2>1. PICK task \in TaskType : task = tasks[u]
      BY DEF TasksTyped
    <2>2. tasks'[u] = IF task.at = "writing" THEN [task EXCEPT !.missed = task.missed \cup more] ELSE task
      BY <1>1, <2>1 DEF Missing
    <2>3. CASE task.at = "writing"
      <3> DEFINE told == [task EXCEPT !.missed = task.missed \cup more]
      <3>1. /\ told \in TaskType /\ told.at = task.at /\ told.kind = task.kind
            /\ told.whole = task.whole /\ told.base = task.base
            /\ told.overrides = task.overrides /\ told.missed = task.missed \cup more
        BY MissedType, Zenon
      <3>2. tasks'[u] = told
        BY <2>2, <2>3
      <3> HIDE DEF told
      <3> QED
        BY <2>1, <2>3, <3>1, <3>2
    <2>4. CASE task.at /= "writing"
      BY <2>1, <2>2, <2>4
    <2> QED
      BY <2>3, <2>4
  <1>3. tasks'[t] = new /\ tasks' = [u \in Tasks |-> tasks'[u]]
    BY DEF Missing
  <1>4. TasksTyped'
    BY <1>2, <1>3 DEF TasksTyped
  <1> QED
    BY <1>1, <1>2, <1>3, <1>4

-----------------------------------------------------------------------------
(* The list of versions only grows; a version keeps its assets.            *)

LEMMA AppendVersion ==
    ASSUME VersionsTyped, NEW assets \in AssetMap,
           versions' = Append(versions, [state |-> "NotPublished", assets |-> assets])
    PROVE  /\ VersionsTyped'
           /\ Len(versions') = Len(versions) + 1
           /\ \A v \in 1 .. Len(versions) : versions'[v] = versions[v]
           /\ Latest'.assets = assets
  <1>1. PICK version \in Version : version = [state |-> "NotPublished", assets |-> assets]
    BY DEF Version, States
  <1>2. versions \in Seq(Version) /\ Len(versions) \in Nat
    BY DEF VersionsTyped
  <1>3. /\ versions' \in Seq(Version) /\ Len(versions') = Len(versions) + 1
        /\ \A v \in 1 .. Len(versions) : versions'[v] = versions[v]
        /\ versions'[Len(versions) + 1] = version
    BY <1>1, <1>2, AppendProperties
  <1>4. Latest'.assets = assets
    BY <1>1, <1>3 DEF Latest
  <1> QED
    BY <1>2, <1>3, <1>4 DEF VersionsTyped

LEMMA StateType ==
    ASSUME NEW version \in Version, NEW state \in States
    PROVE  LET new == [version EXCEPT !.state = state]
           IN  new \in Version /\ new.state = state /\ new.assets = version.assets
  BY DEF Version

LEMMA RecordVersion ==
    ASSUME VersionsTyped, NEW v \in 1 .. Len(versions), NEW state \in States,
           versions' = [versions EXCEPT ![v] = [@ EXCEPT !.state = state]]
    PROVE  /\ VersionsTyped'
           /\ Len(versions') = Len(versions)
           /\ \A w \in 1 .. Len(versions) : versions'[w].assets = versions[w].assets
           /\ \A w \in 1 .. Len(versions) \ {v} : versions'[w] = versions[w]
           /\ versions'[v].state = state
  <1>1. versions \in Seq(Version) /\ Len(versions) \in Nat
    BY DEF VersionsTyped
  <1>2. versions[v] \in Version
    BY <1>1
  <1>3. PICK old \in Version : old = versions[v]
    BY <1>2
  <1>4. PICK new \in Version :
            new = [old EXCEPT !.state = state] /\ new.state = state /\ new.assets = old.assets
    BY StateType, Zenon
  <1>5. versions' = [versions EXCEPT ![v] = new]
    BY <1>3, <1>4
  <1>6. /\ versions' \in Seq(Version) /\ Len(versions') = Len(versions)
        /\ \A w \in 1 .. Len(versions) : versions'[w] = IF w = v THEN new ELSE versions[w]
    BY <1>1, <1>5, ExceptSeq
  <1> QED
    BY <1>1, <1>3, <1>4, <1>6 DEF VersionsTyped

-----------------------------------------------------------------------------
(* Records of publications.                                                *)

LEMMA NoPublicationType == NoPublication \in PublicationType /\ PublicationTyped(NoPublication)
  BY NoAssetsType DEF NoPublication, PublicationType, PublicationTyped, License, AskedFlags

LEMMA RacedType ==
    ASSUME NEW pub \in PublicationType
    PROVE  LET new == [pub EXCEPT !.raced = TRUE]
           IN  /\ new \in PublicationType /\ new.raced
               /\ new.at = pub.at /\ new.intended = pub.intended /\ new.version = pub.version
               /\ new.row = pub.row /\ new.assets = pub.assets /\ new.seen = pub.seen
               /\ new.skewed = pub.skewed /\ new.flags = pub.flags
  BY DEF PublicationType

FetchedBy(at, s, flags, version, state, raced) ==
    [NoPublication EXCEPT !.at = at, !.intended = s, !.flags = flags, !.version = version,
                          !.row = state, !.raced = raced]

LEMMA FetchedType ==
    ASSUME NEW at \in {"naming", "collecting"}, NEW s \in States, NEW flags \in AskedFlags,
           NEW version \in Nat, NEW state \in States, NEW raced \in BOOLEAN
    PROVE  LET new == FetchedBy(at, s, flags, version, state, raced)
           IN  /\ new \in PublicationType /\ new.at = at
               /\ new.intended = s /\ new.flags = flags /\ new.version = version
               /\ new.row = state /\ new.raced = raced
  BY NoPublicationType DEF FetchedBy, PublicationType

LEMMA NamedType ==
    ASSUME NEW pub \in PublicationType
    PROVE  LET new == [pub EXCEPT !.at = "collecting", !.flags = None]
           IN  /\ new \in PublicationType /\ new.at = "collecting"
               /\ new.intended = pub.intended /\ new.version = pub.version
               /\ new.row = pub.row /\ new.assets = pub.assets /\ new.raced = pub.raced
  BY DEF PublicationType, AskedFlags

Collected(pub, assets, skewed) ==
    [pub EXCEPT !.at = "staging", !.assets = assets, !.skewed = skewed]

LEMMA CollectedType ==
    ASSUME NEW pub \in PublicationType, NEW assets \in AssetMap, NEW skewed \in BOOLEAN
    PROVE  LET new == Collected(pub, assets, skewed)
           IN  /\ new \in PublicationType /\ new.at = "staging"
               /\ new.assets = assets /\ new.skewed = skewed
               /\ new.intended = pub.intended /\ new.version = pub.version
               /\ new.row = pub.row /\ new.raced = pub.raced
  BY DEF Collected, PublicationType

LEMMA CreatedType ==
    ASSUME NEW pub \in PublicationType, NEW package \in Package
    PROVE  LET new == [pub EXCEPT !.at = "recording", !.seen = package]
           IN  /\ new \in PublicationType /\ new.at = "recording" /\ new.seen = package
               /\ new.intended = pub.intended /\ new.version = pub.version
               /\ new.row = pub.row /\ new.assets = pub.assets
               /\ new.raced = pub.raced /\ new.skewed = pub.skewed
  BY DEF PublicationType

LEMMA RecordedType ==
    ASSUME NEW pub \in PublicationType, NEW license \in License
    PROVE  LET new == [pub EXCEPT !.at = "releasing", !.license = license]
           IN  /\ new \in PublicationType /\ new.at = "releasing" /\ new.license = license
               /\ new.intended = pub.intended /\ new.version = pub.version
               /\ new.row = pub.row /\ new.assets = pub.assets /\ new.seen = pub.seen
               /\ new.raced = pub.raced /\ new.skewed = pub.skewed
  BY DEF PublicationType

LEMMA PackageType ==
    ASSUME EdanTyped, NEW pub \in PublicationType, NEW audience \in States,
           edan /= None => audience = edan.audience
    PROVE  /\ Created(pub, audience) \in Package
           /\ Created(pub, audience).audience = audience
           /\ Created(pub, audience).content = pub.assets["svx"]
           /\ edan /= None => Created(pub, audience).downloads = edan.downloads
           /\ edan = None => Created(pub, audience).downloads = Absent
  <1>1. pub.assets["svx"] \in Nat
    BY DEF PublicationType, AssetMap, Assets
  <1>2. CASE edan = None
    BY <1>1, <1>2 DEF Created, Package, Absent
  <1>3. CASE edan /= None
    <2>1. edan \in Package
      BY <1>3 DEF EdanTyped
    <2> QED
      BY <1>1, <1>3, <2>1 DEF Created, Package
  <1> QED
    BY <1>2, <1>3

LEMMA UpdatedType ==
    ASSUME NEW pub \in PublicationType, pub.intended \in States
    PROVE  /\ Updated(pub) \in Package
           /\ Updated(pub).audience = pub.intended
           /\ Updated(pub).content = pub.assets["svx"]
           /\ Updated(pub).downloads = IF pub.intended = "NotPublished" THEN Absent
                                       ELSE pub.assets["download"]
  <1>1. pub.assets["svx"] \in Nat /\ pub.assets["download"] \in Nat /\ Absent \in Nat
    BY DEF PublicationType, AssetMap, Assets, Absent
  <1>2. IsCC0(pub.license) \in BOOLEAN
    BY DEF IsCC0
  <1> QED
    BY <1>1, <1>2 DEF Updated, Audience, Resources, Package

-----------------------------------------------------------------------------
(* What each step does to the publications.                                *)

LEMMA VersionsLonger ==
    ASSUME VersionsTyped, PublicationsTyped, UNCHANGED publications,
           VersionsTyped', Len(versions) <= Len(versions')
    PROVE  PublicationsTyped'
  <1>1. Len(versions) \in Nat /\ Len(versions') \in Nat
    BY DEF VersionsTyped
  <1>2. \A pub : PublicationTyped(pub) => PublicationTyped(pub)'
    BY <1>1 DEF PublicationTyped
  <1> QED
    BY <1>2 DEF PublicationsTyped

LEMMA OnePublication ==
    ASSUME VersionsTyped, PublicationsTyped, VersionsTyped', Len(versions') = Len(versions),
           NEW p \in Publications, NEW new \in PublicationType, PublicationTyped(new),
           publications' = [publications EXCEPT ![p] = new]
    PROVE  /\ PublicationsTyped' /\ publications'[p] = new
           /\ \A q \in Publications \ {p} : publications'[q] = publications[q]
  <1>1. \A pub : PublicationTyped(pub) => PublicationTyped(pub)'
    BY DEF PublicationTyped
  <1>2. /\ publications' \in [Publications -> PublicationType] /\ publications'[p] = new
        /\ \A q \in Publications \ {p} : publications'[q] = publications[q]
    BY DEF PublicationsTyped
  <1>3. \A q \in Publications : PublicationTyped(publications'[q])
    BY <1>2 DEF PublicationsTyped
  <1> QED
    BY <1>1, <1>2, <1>3 DEF PublicationsTyped

(* A publication begins: those under way are raced, and so is it if there  *)
(* are any.                                                                *)
LEMMA FetchScenePublications ==
    ASSUME TypeInv, NEW p \in Publications, NEW s \in States, FetchScene(p, s)
    PROVE  /\ PublicationsTyped'
           /\ LET new == publications'[p]
              IN  /\ new.at \in {"naming", "collecting"} /\ new.version = Len(versions)
                  /\ new.row = Latest.state
                  /\ ~ new.raced => \A q \in Publications \ {p} : publications'[q].at = "idle"
           /\ \A q \in Publications \ {p} :
                 publications'[q].at /= "idle" => publications'[q].raced
           /\ \A q \in Publications \ {p} :
                 /\ publications'[q].at = publications[q].at
                 /\ publications'[q].assets = publications[q].assets
                 /\ publications'[q].version = publications[q].version
                 /\ publications'[q].skewed = publications[q].skewed
  <1>0. /\ publications \in [Publications -> PublicationType]
        /\ \A q \in Publications : PublicationTyped(publications[q])
        /\ Latest.state \in States /\ Len(versions) \in Nat /\ Len(versions) \in 1 .. Len(versions)
        /\ UNCHANGED versions
    <2>1. Len(versions) \in Nat /\ Len(versions) \in 1 .. Len(versions)
      BY DEF TypeInv, VersionsTyped
    <2>2. Latest.state \in States
      BY LatestType DEF TypeInv, Version
    <2> QED
      BY <2>1, <2>2 DEF TypeInv, PublicationsTyped, FetchScene
  <1> DEFINE others == {q \in Publications \ {p} : publications[q].at # "idle"}
  <1>1. PICK raced \in BOOLEAN : raced <=> others # {}
    <2>1. (others # {}) \in BOOLEAN
      OBVIOUS
    <2> QED
      BY <2>1
  <1>a. PICK at \in {"naming", "collecting"} : at = IF named THEN "collecting" ELSE "naming"
    OBVIOUS
  <1>b. PICK flags \in AskedFlags :
            flags = (IF named THEN None ELSE scene) /\ (at = "naming" => flags \in Flags)
    BY <1>a DEF TypeInv, SceneTyped, AskedFlags
  <1>2. PICK fetched \in PublicationType :
            /\ fetched = FetchedBy(at, s, flags, Len(versions), Latest.state, raced)
            /\ fetched.at = at /\ fetched.intended = s /\ fetched.flags = flags
            /\ fetched.version = Len(versions) /\ fetched.row = Latest.state
            /\ fetched.raced = raced
    BY <1>0, FetchedType
  <1>3. publications' = [q \in Publications |->
            IF q = p THEN fetched
            ELSE IF q \in others THEN [publications[q] EXCEPT !.raced = TRUE]
            ELSE publications[q]]
    BY <1>1, <1>a, <1>b, <1>2 DEF FetchScene, FetchedBy
  <1>4. publications'[p] = fetched
    BY <1>3
  <1>5. PublicationTyped(fetched)
    BY <1>0, <1>b, <1>2 DEF PublicationTyped
  <1>6. ASSUME NEW q \in Publications \ {p}
        PROVE  /\ publications'[q] \in PublicationType /\ PublicationTyped(publications'[q])
               /\ publications'[q].at /= "idle" => publications'[q].raced
               /\ publications'[q].at = publications[q].at
               /\ publications'[q].assets = publications[q].assets
               /\ publications'[q].version = publications[q].version
               /\ publications'[q].skewed = publications[q].skewed
    <2>1. PICK pub \in PublicationType : pub = publications[q] /\ PublicationTyped(pub)
      BY <1>0
    <2>2. CASE pub.at = "idle"
      <3>1. publications'[q] = pub
        BY <1>3, <2>1, <2>2
      <3> QED
        BY <2>1, <2>2, <3>1
    <2>3. CASE pub.at /= "idle"
      <3> DEFINE new == [pub EXCEPT !.raced = TRUE]
      <3>1. publications'[q] = new
        BY <1>3, <2>1, <2>3
      <3>2. /\ new \in PublicationType /\ new.raced
            /\ new.at = pub.at /\ new.intended = pub.intended /\ new.version = pub.version
            /\ new.row = pub.row /\ new.assets = pub.assets /\ new.seen = pub.seen
            /\ new.skewed = pub.skewed /\ new.flags = pub.flags
        BY RacedType, Zenon
      <3> HIDE DEF new
      <3>3. PublicationTyped(new)
        BY <2>1, <3>2 DEF PublicationTyped
      <3> QED
        BY <2>1, <3>1, <3>2, <3>3
    <2> QED
      BY <2>2, <2>3
  <1>7. \A q \in Publications :
            publications'[q] \in PublicationType /\ PublicationTyped(publications'[q])
    BY <1>2, <1>4, <1>5, <1>6
  <1>8. PublicationsTyped'
    BY <1>0, <1>3, <1>7 DEF PublicationsTyped, PublicationTyped
  <1>9. ~ fetched.raced => \A q \in Publications \ {p} : publications'[q].at = "idle"
    BY <1>1, <1>2, <1>6
  <1> QED
    BY <1>2, <1>4, <1>6, <1>8, <1>9

LEMMA NameScenePublications ==
    ASSUME TypeInv, NEW p \in Publications, NameScene(p)
    PROVE  /\ scene' \in Flags
           /\ \E new \in PublicationType :
                 /\ publications' = [publications EXCEPT ![p] = new] /\ PublicationTyped(new)
                 /\ new.at = "collecting" /\ new.version = publications[p].version
                 /\ new.row = publications[p].row /\ new.raced = publications[p].raced
  <1>1. PICK pub \in PublicationType :
            pub = publications[p] /\ PublicationTyped(pub) /\ pub.at = "naming"
    BY DEF TypeInv, PublicationsTyped, NameScene
  <1> DEFINE new == [pub EXCEPT !.at = "collecting", !.flags = None]
  <1>2. /\ new \in PublicationType /\ new.at = "collecting"
        /\ new.intended = pub.intended /\ new.version = pub.version
        /\ new.row = pub.row /\ new.assets = pub.assets /\ new.raced = pub.raced
    BY NamedType, Zenon
  <1>3. publications' = [publications EXCEPT ![p] = new] /\ scene' = pub.flags
    BY <1>1 DEF NameScene
  <1> HIDE DEF new
  <1>4. PublicationTyped(new)
    BY <1>1, <1>2 DEF PublicationTyped
  <1>5. scene' \in Flags
    BY <1>1, <1>3 DEF PublicationTyped
  <1> QED
    BY <1>1, <1>2, <1>3, <1>4, <1>5

LEMMA CollectAssetsPublications ==
    ASSUME TypeInv, NEW p \in Publications, CollectAssets(p)
    PROVE  \E new \in PublicationType :
              /\ publications' = [publications EXCEPT ![p] = new] /\ PublicationTyped(new)
              /\ new.at = "staging" /\ new.assets = Latest.assets
              /\ new.version = publications[p].version /\ new.row = publications[p].row
              /\ new.raced = publications[p].raced
              /\ ~ new.skewed => new.version = Len(versions)
  <1>1. PICK pub \in PublicationType :
            pub = publications[p] /\ PublicationTyped(pub) /\ pub.at = "collecting"
    BY DEF TypeInv, PublicationsTyped, CollectAssets
  <1>2. PICK assets \in AssetMap : assets = Latest.assets
    BY LatestType DEF TypeInv
  <1>3. PICK skewed \in BOOLEAN : skewed <=> pub.version # Len(versions)
    <2>1. (pub.version # Len(versions)) \in BOOLEAN
      OBVIOUS
    <2> QED
      BY <2>1
  <1>4. PICK new \in PublicationType :
        /\ new = Collected(pub, assets, skewed) /\ new.at = "staging"
        /\ new.assets = assets /\ new.skewed = skewed
        /\ new.intended = pub.intended /\ new.version = pub.version
        /\ new.row = pub.row /\ new.raced = pub.raced
    BY CollectedType
  <1>5. publications' = [publications EXCEPT ![p] = new]
    BY <1>1, <1>2, <1>3, <1>4 DEF CollectAssets, Collected
  <1>6. PublicationTyped(new)
    BY <1>1, <1>4 DEF PublicationTyped
  <1> QED
    BY <1>1, <1>2, <1>3, <1>4, <1>5, <1>6

LEMMA CreatePackagePublications ==
    ASSUME TypeInv, NEW p \in Publications, NEW audience \in States, CreatePackage(p, audience)
    PROVE  /\ edan' \in Package /\ edan'.content = publications[p].assets["svx"]
           /\ edan'.audience = audience
           /\ edan /= None => edan'.audience = edan.audience /\ edan'.downloads = edan.downloads
           /\ edan = None => edan'.downloads = Absent
           /\ \E new \in PublicationType :
                 /\ publications' = [publications EXCEPT ![p] = new] /\ PublicationTyped(new)
                 /\ new.at = "recording" /\ new.seen = edan'
                 /\ new.assets = publications[p].assets
                 /\ new.version = publications[p].version /\ new.row = publications[p].row
                 /\ new.raced = publications[p].raced /\ new.skewed = publications[p].skewed
  <1>1. PICK pub \in PublicationType :
            pub = publications[p] /\ PublicationTyped(pub) /\ pub.at = "staging"
    BY DEF TypeInv, PublicationsTyped, CreatePackage
  <1>2. edan /= None => audience = edan.audience
    BY DEF CreatePackage
  <1>3. PICK package \in Package :
            /\ package = Created(pub, audience)
            /\ package.content = pub.assets["svx"] /\ package.audience = audience
            /\ edan /= None => package.downloads = edan.downloads
            /\ edan = None => package.downloads = Absent
    BY <1>2, PackageType DEF TypeInv
  <1>4. edan' = package
    BY <1>1, <1>3 DEF CreatePackage
  <1> DEFINE new == [pub EXCEPT !.at = "recording", !.seen = package]
  <1>5. /\ new \in PublicationType /\ new.at = "recording" /\ new.seen = package
        /\ new.intended = pub.intended /\ new.version = pub.version
        /\ new.row = pub.row /\ new.assets = pub.assets
        /\ new.raced = pub.raced /\ new.skewed = pub.skewed
    BY CreatedType, Zenon
  <1>6. publications' = [publications EXCEPT ![p] = new]
    BY <1>1, <1>3 DEF CreatePackage
  <1> HIDE DEF new
  <1>7. PublicationTyped(new)
    BY <1>1, <1>5 DEF PublicationTyped
  <1> QED
    BY <1>1, <1>2, <1>3, <1>4, <1>5, <1>6, <1>7

LEMMA RecordStatePublications ==
    ASSUME TypeInv, NEW p \in Publications, RecordState(p)
    PROVE  \E new \in PublicationType :
              /\ publications' = [publications EXCEPT ![p] = new] /\ PublicationTyped(new)
              /\ new.at = "releasing" /\ new.license = Effective
              /\ new.intended = publications[p].intended
              /\ new.assets = publications[p].assets /\ new.seen = publications[p].seen
              /\ new.version = publications[p].version
              /\ new.raced = publications[p].raced /\ new.skewed = publications[p].skewed
  <1>1. PICK pub \in PublicationType :
            pub = publications[p] /\ PublicationTyped(pub) /\ pub.at = "recording"
    BY DEF TypeInv, PublicationsTyped, RecordState
  <1>2. PICK license \in License : license = Effective
    BY EffectiveType DEF TypeInv
  <1> DEFINE new == [pub EXCEPT !.at = "releasing", !.license = license]
  <1>3. /\ new \in PublicationType /\ new.at = "releasing" /\ new.license = license
        /\ new.intended = pub.intended /\ new.version = pub.version
        /\ new.row = pub.row /\ new.assets = pub.assets /\ new.seen = pub.seen
        /\ new.raced = pub.raced /\ new.skewed = pub.skewed
    BY RecordedType, Zenon
  <1>4. publications' = [publications EXCEPT ![p] = new]
    BY <1>1, <1>2 DEF RecordState
  <1> HIDE DEF new
  <1>5. PublicationTyped(new)
    BY <1>1, <1>3 DEF PublicationTyped
  <1> QED
    BY <1>1, <1>2, <1>3, <1>4, <1>5

(* The version it records the state in.                                    *)
LEMMA RecordStateVersions ==
    ASSUME TypeInv, NEW p \in Publications, RecordState(p)
    PROVE  /\ VersionsTyped' /\ Len(versions') = Len(versions)
           /\ \A w \in 1 .. Len(versions) : versions'[w].assets = versions[w].assets
           /\ LET pub == publications[p]
              IN  versions[pub.version].state = pub.row
                      => versions'[pub.version].state = StateAllowed(pub.intended, Effective)
  <1>1. PICK pub \in PublicationType :
            pub = publications[p] /\ PublicationTyped(pub) /\ pub.at = "recording"
    BY DEF TypeInv, PublicationsTyped, RecordState
  <1>2. PICK v \in 1 .. Len(versions) : v = pub.version
    BY <1>1 DEF PublicationTyped
  <1>3. PICK state \in States : state = StateAllowed(pub.intended, Effective)
    BY <1>1 DEF PublicationTyped, StateAllowed, States
  <1>4. versions' = IF state = pub.row THEN versions
                    ELSE [versions EXCEPT ![v] = [@ EXCEPT !.state = state]]
    BY <1>1, <1>2, <1>3 DEF RecordState
  <1>5. CASE state = pub.row
    BY <1>1, <1>2, <1>3, <1>4, <1>5 DEF TypeInv, VersionsTyped
  <1>6. CASE state /= pub.row
    <2>1. versions' = [versions EXCEPT ![v] = [@ EXCEPT !.state = state]]
      BY <1>4, <1>6
    <2>2. /\ VersionsTyped' /\ Len(versions') = Len(versions)
          /\ \A w \in 1 .. Len(versions) : versions'[w].assets = versions[w].assets
          /\ versions'[v].state = state
      BY <2>1, RecordVersion DEF TypeInv
    <2> QED
      BY <1>1, <1>2, <1>3, <2>2
  <1> QED
    BY <1>5, <1>6

LEMMA EndedPublications ==
    ASSUME TypeInv, NEW p \in Publications, UNCHANGED versions,
           publications' = [publications EXCEPT ![p] = NoPublication]
    PROVE  /\ PublicationsTyped' /\ publications'[p] = NoPublication
           /\ \A q \in Publications \ {p} : publications'[q] = publications[q]
  <1>1. VersionsTyped /\ VersionsTyped'
    BY DEF TypeInv, VersionsTyped
  <1> QED
    BY <1>1, NoPublicationType, OnePublication DEF TypeInv

-----------------------------------------------------------------------------
(* Each step keeps the types.                                              *)

(* A step of a task that writes no version.                                *)
LEMMA QuietTaskType ==
    ASSUME TypeInv, TasksTyped', SceneTyped', MadeTyped', unchecked' \in BOOLEAN,
           UNCHANGED <<versions, edan, publications, expected, lost>>
    PROVE  TypeInv'
  <1>1. VersionsTyped' /\ EdanTyped'
    BY DEF TypeInv, VersionsTyped, EdanTyped
  <1>2. PublicationsTyped'
    BY DEF TypeInv, PublicationsTyped, PublicationTyped
  <1>3. HistoryTyped'
    BY DEF TypeInv, HistoryTyped
  <1> QED
    BY <1>1, <1>2, <1>3 DEF TypeInv

(* These are the steps that write no version.                              *)
QuietTask(t) ==
    \/ \E how \in Ways, level \in License, flags \in SceneFlags \cup {None} :
          StartEdit(t, how, level, flags)
    \/ ChangeLicense(t) \/ ChangeLicenseFails(t) \/ ChangeScene(t) \/ ChangeSceneFails(t)
    \/ (\E u \in Tasks, whole \in BOOLEAN : Ingest(t, u, whole))
    \/ Ask(t) \/ IngestModel(t)
    \/ CookEnds(t) \/ CookFails(t) \/ CreateVersionFails(t)

Quiet == (\E t \in Tasks : QuietTask(t)) \/ (\E l \in License : InheritLicense(l))

LEMMA QuietTasks ==
    ASSUME TypeInv, Quiet
    PROVE  TasksTyped' /\ \A u \in Tasks : Carries(tasks[u], tasks'[u])
  <1>1. ASSUME NEW t \in Tasks,
               ChangeLicenseFails(t) \/ ChangeSceneFails(t) \/ CookFails(t) \/ CreateVersionFails(t)
        PROVE  tasks' = Overtaking(t, NoTask) \/ tasks' = [tasks EXCEPT ![t] = NoTask]
    BY <1>1 DEF ChangeLicenseFails, ChangeSceneFails, CookFails, CreateVersionFails
  <1>2. ASSUME NEW t \in Tasks, QuietTask(t)
        PROVE  TasksTyped' /\ \A u \in Tasks : Carries(tasks[u], tasks'[u])
    BY <1>1, <1>2, StartEditTasks, ChangeLicenseTasks, ChangeSceneTasks, IngestTasks, AskTasks,
       CookEndsTasks, NoTaskTasks DEF QuietTask
  <1>3. ASSUME NEW l \in License, InheritLicense(l)
        PROVE  TasksTyped' /\ \A u \in Tasks : Carries(tasks[u], tasks'[u])
    <2>1. tasks' = Overtaking(None, NoTask)
      BY <1>3 DEF InheritLicense
    <2> QED
      BY <2>1, NoTaskTasks
  <1> QED
    BY <1>2, <1>3 DEF Quiet

LEMMA QuietLeaves ==
    ASSUME TypeInv, Quiet
    PROVE  UNCHANGED <<versions, edan, publications, last, expected, lost>>
  <1>1. ASSUME NEW t \in Tasks, QuietTask(t)
        PROVE  UNCHANGED <<versions, edan, publications, last, expected, lost>>
    BY <1>1 DEF QuietTask, StartEdit, ChangeLicense, ChangeLicenseFails, ChangeScene,
                ChangeSceneFails, Ingest, Ask, IngestModel, CookEnds, CookFails, CreateVersionFails
  <1>2. ASSUME NEW l \in License, InheritLicense(l)
        PROVE  UNCHANGED <<versions, edan, publications, last, expected, lost>>
    BY <1>2 DEF InheritLicense
  <1> QED
    BY <1>1, <1>2 DEF Quiet

LEMMA QuietScene ==
    ASSUME TypeInv, Quiet
    PROVE  SceneTyped' /\ MadeTyped' /\ unchecked' \in BOOLEAN
  <1>0. SceneTyped /\ MadeTyped /\ TasksTyped /\ unchecked \in BOOLEAN
    BY DEF TypeInv, HistoryTyped
  <1>1. ASSUME NEW t \in Tasks, QuietTask(t)
        PROVE  SceneTyped' /\ MadeTyped' /\ unchecked' \in BOOLEAN
    <2>0. tasks[t] \in TaskType
      BY <1>0 DEF TasksTyped
    <2>1. ASSUME NEW how \in Ways, NEW level \in License, NEW flags \in SceneFlags \cup {None},
                 StartEdit(t, how, level, flags)
          PROVE  SceneTyped' /\ MadeTyped' /\ unchecked' \in BOOLEAN
      BY <1>0, <2>1 DEF StartEdit, SceneTyped, MadeTyped
    <2>2. CASE ChangeLicense(t)
      <3>1. own' \in License
        BY <1>0, <2>0, <2>2 DEF ChangeLicense, SceneTyped, TaskType, License
      <3> QED
        BY <1>0, <2>2, <3>1 DEF ChangeLicense, SceneTyped, MadeTyped
    <2>3. CASE ChangeLicenseFails(t)
      BY <1>0, <2>3 DEF ChangeLicenseFails, SceneTyped, MadeTyped, License
    <2>4. CASE ChangeScene(t)
      <3>1. scene' \in Flags
        BY <1>0, <2>0, <2>4 DEF ChangeScene, SceneTyped, TaskType, AskedFlags
      <3>2. unchecked' \in BOOLEAN
        BY <1>0, <2>4 DEF ChangeScene
      <3> QED
        BY <1>0, <2>4, <3>1, <3>2 DEF ChangeScene, SceneTyped, MadeTyped
    <2>5. CASE ChangeSceneFails(t)
      BY <1>0, <2>5 DEF ChangeSceneFails, SceneTyped, MadeTyped
    <2>6. ASSUME NEW u \in Tasks, NEW whole \in BOOLEAN, Ingest(t, u, whole)
          PROVE  SceneTyped' /\ MadeTyped' /\ unchecked' \in BOOLEAN
      <3>1. made' = [made EXCEPT !["svx"] = made["svx"] + 1]
            /\ UNCHANGED <<scene, named, own, inherited, unchecked>>
        BY <2>6 DEF Ingest
      <3>2. MadeTyped'
        BY <1>0, <3>1 DEF MadeTyped, AssetMap, Assets
      <3> QED
        BY <1>0, <3>1, <3>2 DEF SceneTyped
    <2>7. CASE CookEnds(t)
      <3>1. made' = [made EXCEPT !["download"] = made["download"] + 1]
            /\ UNCHANGED <<scene, named, own, inherited, unchecked>>
        BY <2>7 DEF CookEnds
      <3>2. MadeTyped'
        BY <1>0, <3>1 DEF MadeTyped, AssetMap, Assets
      <3> QED
        BY <1>0, <3>1, <3>2 DEF SceneTyped
    <2>8. CASE Ask(t) \/ IngestModel(t) \/ CookFails(t) \/ CreateVersionFails(t)
      BY <1>0, <2>8 DEF Ask, IngestModel, CookFails, CreateVersionFails, SceneTyped, MadeTyped
    <2> QED
      BY <1>1, <2>1, <2>2, <2>3, <2>4, <2>5, <2>6, <2>7, <2>8 DEF QuietTask
  <1>2. ASSUME NEW l \in License, InheritLicense(l)
        PROVE  SceneTyped' /\ MadeTyped' /\ unchecked' \in BOOLEAN
    BY <1>0, <1>2 DEF InheritLicense, SceneTyped, MadeTyped
  <1> QED
    BY <1>1, <1>2 DEF Quiet

LEMMA QuietType == ASSUME TypeInv, Quiet PROVE TypeInv'
  BY QuietTasks, QuietLeaves, QuietScene, QuietTaskType

LEMMA BeginType ==
    ASSUME TypeInv, NEW t \in Tasks,
           ReadMap(t) \/ \E v \in 1 .. Len(versions) : Rollback(t, v)
    PROVE  TypeInv'
  <1>1. TasksTyped'
    BY BeginTasks DEF TypeInv, TasksTyped
  <1>2. UNCHANGED <<scene, named, own, inherited, versions, made, edan, publications, expected, lost, unchecked>>
    BY DEF ReadMap, Rollback
  <1>3. SceneTyped' /\ MadeTyped' /\ unchecked' \in BOOLEAN
    BY <1>2 DEF TypeInv, SceneTyped, MadeTyped, HistoryTyped
  <1> QED
    BY <1>1, <1>2, <1>3, QuietTaskType

(* What the two ways to write a version have in common.                    *)
Writes(t, assets) ==
    /\ tasks[t].at = "writing"
    /\ versions' = Append(versions, [state |-> "NotPublished", assets |-> assets])
    /\ expected' = [a \in Assets |-> IF a \in Decides(tasks[t]) THEN assets[a] ELSE expected[a]]
    /\ \A a \in Assets \ Decides(tasks[t]) :
          /\ a \in lost \cup tasks[t].missed => a \in lost'
          /\ a \notin lost' => assets[a] = tasks[t].base[a]
    /\ UNCHANGED <<scene, named, own, inherited, made, edan, publications, last>>

LEMMA WritesVersion ==
    ASSUME TypeInv, NEW t \in Tasks, WriteVersion(t) \/ \E a \in Assets : WriteVersionFails(t, a)
    PROVE  /\ \E assets \in AssetMap : Writes(t, assets)
           /\ \E new \in TaskType : new.at /= "writing" /\ tasks' = [Missing(t) EXCEPT ![t] = new]
           /\ lost' \subseteq Assets /\ unchecked' \in BOOLEAN
  <1>1. PICK task \in TaskType : task = tasks[t]
    BY DEF TypeInv, TasksTyped
  <1>2. task.base \in AssetMap /\ task.overrides \in Overrides /\ task.missed \subseteq Assets
        /\ task.whole \in BOOLEAN /\ task.overtaken \in BOOLEAN
    BY DEF TaskType
  <1>3. PICK copy \in AssetMap : copy = Overridden(task.base, task.overrides)
    BY <1>2, OverriddenType
  <1>4. \A a \in Assets \ Decides(task) : copy[a] = task.base[a]
    BY <1>3 DEF Decides, Overridden
  <1>5. lost \subseteq Assets /\ unchecked \in BOOLEAN
    BY DEF TypeInv, HistoryTyped
  <1>6. CASE WriteVersion(t)
    <2>1. Writes(t, copy)
      BY <1>1, <1>3, <1>4, <1>6 DEF WriteVersion, Writes
    <2>2. tasks' = [Missing(t) EXCEPT ![t] = NoTask]
      BY <1>1, <1>6 DEF WriteVersion
    <2>3. NoTask \in TaskType /\ NoTask.at /= "writing"
      BY NoTaskType DEF NoTask
    <2>4. lost' \subseteq Assets
      BY <1>1, <1>2, <1>5, <1>6 DEF WriteVersion
    <2>5. unchecked' \in BOOLEAN
      <3>1. unchecked' = CASE task.kind = "edit" -> FALSE
                          [] task.kind = "ingest" /\ task.whole -> FALSE
                          [] task.kind = "rollback" -> TRUE
                          [] OTHER -> unchecked \/ task.overtaken
        BY <1>1, <1>6 DEF WriteVersion
      <3> QED
        BY <3>1
    <2> QED
      BY <2>1, <2>2, <2>3, <2>4, <2>5
  <1>7. ASSUME NEW a \in Assets, WriteVersionFails(t, a)
        PROVE  /\ \E assets \in AssetMap : Writes(t, assets)
               /\ tasks' = [Missing(t) EXCEPT ![t] = NoTask]
               /\ lost' \subseteq Assets /\ unchecked' = TRUE
    <2>1. PICK assets \in AssetMap :
              /\ assets = [copy EXCEPT ![a] = Absent]
              /\ \A b \in Assets \ {a} : assets[b] = copy[b]
      BY DEF AssetMap, Absent
    <2>2. /\ task.at = "writing"
          /\ versions' = Append(versions, [state |-> "NotPublished", assets |-> assets])
          /\ tasks' = [Missing(t) EXCEPT ![t] = NoTask]
          /\ expected' = [b \in Assets |-> IF b \in Decides(task) THEN assets[b] ELSE expected[b]]
          /\ lost' = ((lost \cup task.missed) \ Decides(task)) \cup {a}
          /\ unchecked' = TRUE
          /\ UNCHANGED <<scene, named, own, inherited, made, edan, publications, last>>
      BY <1>1, <1>3, <1>7, <2>1 DEF WriteVersionFails
    <2>3. Writes(t, assets)
      BY <1>1, <1>4, <2>1, <2>2 DEF Writes
    <2>4. lost' \subseteq Assets
      BY <1>2, <1>5, <2>2
    <2> QED
      BY <2>2, <2>3, <2>4
  <1>8. NoTask \in TaskType /\ NoTask.at /= "writing"
    BY NoTaskType DEF NoTask
  <1> QED
    BY <1>6, <1>7, <1>8

LEMMA WriteType ==
    ASSUME TypeInv, NEW t \in Tasks, WriteVersion(t) \/ \E a \in Assets : WriteVersionFails(t, a)
    PROVE  TypeInv'
  <1>1. PICK assets \in AssetMap : Writes(t, assets)
    BY WritesVersion
  <1>2. /\ VersionsTyped' /\ Len(versions') = Len(versions) + 1
    BY <1>1, AppendVersion DEF Writes, TypeInv
  <1>3. PublicationsTyped'
    BY <1>1, <1>2, VersionsLonger DEF Writes, TypeInv, VersionsTyped
  <1>4. TasksTyped'
    BY WritesVersion, MissingTasks DEF TypeInv
  <1>5. expected' \in AssetMap
    BY <1>1 DEF Writes, TypeInv, HistoryTyped, AssetMap
  <1>6. HistoryTyped'
    BY <1>5, WritesVersion DEF HistoryTyped
  <1>7. SceneTyped' /\ MadeTyped' /\ EdanTyped'
    BY <1>1 DEF Writes, TypeInv, SceneTyped, MadeTyped, EdanTyped
  <1> QED
    BY <1>2, <1>3, <1>4, <1>6, <1>7 DEF TypeInv

(* The steps of a publication.                                             *)
Ends(p) ==
    UpdatePackage(p) \/ PublishFails(p) \/ NothingToPublish(p)
    \/ \E audience \in States : AnswerLost(p, audience)

PublicationStep(p) ==
    \/ \E s \in Requested : FetchScene(p, s)
    \/ CollectAssets(p) \/ (\E audience \in States : CreatePackage(p, audience))
    \/ RecordState(p) \/ Ends(p)

LEMMA PublicationLeaves ==
    ASSUME NEW p \in Publications, PublicationStep(p)
    PROVE  /\ UNCHANGED <<scene, named, own, inherited, made, tasks, expected, lost, unchecked>>
           /\ ~ RecordState(p) => UNCHANGED versions
  BY DEF PublicationStep, Ends, FetchScene, CollectAssets, CreatePackage, RecordState,
         UpdatePackage, PublishFails, NothingToPublish, AnswerLost

LEMMA EndsLeaves ==
    ASSUME TypeInv, NEW p \in Publications, Ends(p)
    PROVE  /\ publications[p].at /= "idle" /\ UNCHANGED versions
           /\ publications' = [publications EXCEPT ![p] = NoPublication]
           /\ EdanTyped'
  <1>1. PICK pub \in PublicationType : pub = publications[p] /\ PublicationTyped(pub)
    BY DEF TypeInv, PublicationsTyped
  <1>2. pub.at /= "idle" => Updated(pub) \in Package
    BY <1>1, UpdatedType DEF PublicationTyped
  <1>3. EdanTyped
    BY DEF TypeInv
  <1>4. CASE UpdatePackage(p)
    BY <1>1, <1>2, <1>3, <1>4 DEF UpdatePackage, EdanTyped
  <1>5. CASE PublishFails(p)
    BY <1>3, <1>5 DEF PublishFails, EdanTyped
  <1>6. CASE NothingToPublish(p)
    BY <1>3, <1>6 DEF NothingToPublish, EdanTyped
  <1>7. ASSUME NEW audience \in States, AnswerLost(p, audience)
        PROVE  /\ publications[p].at /= "idle" /\ UNCHANGED versions
               /\ publications' = [publications EXCEPT ![p] = NoPublication]
               /\ EdanTyped'
    <2>1. edan' = Updated(pub)
          \/ (edan' = Created(pub, audience) /\ (edan /= None => audience = edan.audience))
      BY <1>1, <1>7 DEF AnswerLost
    <2>2. pub.at /= "idle"
      BY <1>1, <1>7 DEF AnswerLost
    <2>3. edan' \in Package
      BY <1>2, <1>3, <2>1, <2>2, PackageType
    <2> QED
      BY <1>7, <2>3 DEF AnswerLost, EdanTyped
  <1> QED
    BY <1>4, <1>5, <1>6, <1>7 DEF Ends

(* The one step of a publication that concerns the tasks too.              *)
LEMMA NameSceneTasks ==
    ASSUME TypeInv, NEW p \in Publications, NameScene(p)
    PROVE  TasksTyped' /\ \A u \in Tasks : Carries(tasks[u], tasks'[u])
  <1>1. tasks' = Overtaking(None, NoTask) \/ tasks' = tasks
    BY DEF NameScene
  <1>2. CASE tasks' = Overtaking(None, NoTask)
    BY <1>2, NoTaskTasks
  <1>3. CASE tasks' = tasks
    BY <1>3 DEF TypeInv, TasksTyped, Carries
  <1> QED
    BY <1>1, <1>2, <1>3

LEMMA NameSceneType ==
    ASSUME TypeInv, NEW p \in Publications, NameScene(p)
    PROVE  TypeInv'
  <1>1. /\ named' = TRUE /\ unchecked' = (unchecked \/ publications[p].flags # scene)
        /\ UNCHANGED <<own, inherited, versions, made, edan, expected, lost>>
    BY DEF NameScene
  <1>2. PICK new \in PublicationType :
            publications' = [publications EXCEPT ![p] = new] /\ PublicationTyped(new)
    BY NameScenePublications
  <1>3. SceneTyped' /\ MadeTyped' /\ EdanTyped' /\ VersionsTyped' /\ HistoryTyped'
    BY <1>1, NameScenePublications
    DEF TypeInv, SceneTyped, MadeTyped, EdanTyped, VersionsTyped, HistoryTyped
  <1>4. PublicationsTyped'
    BY <1>1, <1>2, <1>3, OnePublication DEF TypeInv
  <1> QED
    BY <1>3, <1>4, NameSceneTasks DEF TypeInv

LEMMA PublicationStepType ==
    ASSUME TypeInv, NEW p \in Publications, PublicationStep(p)
    PROVE  TypeInv'
  <1>1. SceneTyped' /\ MadeTyped' /\ TasksTyped' /\ HistoryTyped'
    BY PublicationLeaves DEF TypeInv, SceneTyped, MadeTyped, TasksTyped, HistoryTyped
  <1>2. VersionsTyped' /\ Len(versions') = Len(versions)
    BY PublicationLeaves, RecordStateVersions DEF TypeInv, VersionsTyped
  <1>3. ASSUME NEW new \in PublicationType, PublicationTyped(new),
               publications' = [publications EXCEPT ![p] = new]
        PROVE  PublicationsTyped'
    BY <1>2, <1>3, OnePublication DEF TypeInv
  <1>4. ASSUME NEW s \in Requested, FetchScene(p, s) PROVE TypeInv'
    <2>1. s \in States
      BY PublicationAssumption
    <2>2. PublicationsTyped' /\ EdanTyped'
      BY <1>4, <2>1, FetchScenePublications DEF TypeInv, EdanTyped, FetchScene
    <2> QED
      BY <1>1, <1>2, <2>2 DEF TypeInv
  <1>5. CASE CollectAssets(p)
    <2>1. PublicationsTyped' /\ EdanTyped'
      BY <1>3, <1>5, CollectAssetsPublications DEF TypeInv, EdanTyped, CollectAssets
    <2> QED
      BY <1>1, <1>2, <2>1 DEF TypeInv
  <1>6. ASSUME NEW audience \in States, CreatePackage(p, audience) PROVE TypeInv'
    <2>1. PublicationsTyped' /\ EdanTyped'
      BY <1>3, <1>6, CreatePackagePublications DEF EdanTyped
    <2> QED
      BY <1>1, <1>2, <2>1 DEF TypeInv
  <1>7. CASE RecordState(p)
    <2>1. PublicationsTyped' /\ EdanTyped'
      BY <1>3, <1>7, RecordStatePublications DEF TypeInv, EdanTyped, RecordState
    <2> QED
      BY <1>1, <1>2, <2>1 DEF TypeInv
  <1>8. CASE Ends(p)
    <2>1. PublicationsTyped' /\ EdanTyped'
      BY <1>8, EndsLeaves, EndedPublications
    <2> QED
      BY <1>1, <1>2, <2>1 DEF TypeInv
  <1> QED
    BY <1>4, <1>5, <1>6, <1>7, <1>8 DEF PublicationStep

(* The next-state relation, sorted by what the steps do.                   *)
LEMMA NextSorted ==
    ASSUME Next
    PROVE  \/ Quiet
           \/ \E t \in Tasks : \/ ReadMap(t) \/ \E v \in 1 .. Len(versions) : Rollback(t, v)
           \/ \E t \in Tasks : WriteVersion(t) \/ \E a \in Assets : WriteVersionFails(t, a)
           \/ \E p \in Publications : NameScene(p) \/ PublicationStep(p)
  BY DEF Next, Quiet, QuietTask, PublicationStep, Ends, Ways

LEMMA StutterType == ASSUME TypeInv, UNCHANGED vars PROVE TypeInv'
  <1>1. SceneTyped' /\ VersionsTyped' /\ MadeTyped' /\ TasksTyped' /\ EdanTyped' /\ HistoryTyped'
    BY DEF TypeInv, vars, SceneTyped, VersionsTyped, MadeTyped, TasksTyped, EdanTyped, HistoryTyped
  <1>2. PublicationsTyped'
    BY DEF TypeInv, vars, PublicationsTyped, PublicationTyped
  <1> QED
    BY <1>1, <1>2 DEF TypeInv

LEMMA NextType == TypeInv /\ [Next]_vars => TypeInv'
  <1> SUFFICES ASSUME TypeInv, [Next]_vars PROVE TypeInv'
    OBVIOUS
  <1>1. CASE Quiet
    BY <1>1, QuietType
  <1>2. ASSUME NEW t \in Tasks, ReadMap(t) \/ \E v \in 1 .. Len(versions) : Rollback(t, v)
        PROVE  TypeInv'
    BY <1>2, BeginType
  <1>3. ASSUME NEW t \in Tasks, WriteVersion(t) \/ \E a \in Assets : WriteVersionFails(t, a)
        PROVE  TypeInv'
    BY <1>3, WriteType
  <1>4. ASSUME NEW p \in Publications, NameScene(p) \/ PublicationStep(p) PROVE TypeInv'
    BY <1>4, NameSceneType, PublicationStepType
  <1>5. CASE UNCHANGED vars
    BY <1>5, StutterType
  <1> QED
    BY <1>1, <1>2, <1>3, <1>4, <1>5, NextSorted

LEMMA InitType == Init => TypeInv
  <1> SUFFICES ASSUME Init PROVE TypeInv
    OBVIOUS
  <1>1. SceneTyped /\ MadeTyped /\ EdanTyped
    BY PublicationAssumption, NoAssetsType
    DEF Init, SceneTyped, MadeTyped, EdanTyped, Flags, License, AssetMap, Assets
  <1>2. PICK version \in Version :
            version = [state |-> "NotPublished", assets |-> [NoAssets EXCEPT !["svx"] = 1]]
    BY NoAssetsType DEF Version, States, AssetMap, Assets
  <1>3. versions = <<version>>
    BY <1>2 DEF Init
  <1>4. VersionsTyped
    BY <1>3 DEF VersionsTyped
  <1>5. TasksTyped
    BY NoTaskType DEF Init, TasksTyped
  <1>6. PublicationsTyped
    BY NoPublicationType DEF Init, PublicationsTyped
  <1>7. HistoryTyped
    BY <1>4, LatestType DEF Init, HistoryTyped
  <1> QED
    BY <1>1, <1>4, <1>5, <1>6, <1>7 DEF TypeInv

(* Every variable of ScenePublication keeps its type, and publications     *)
(* work on versions that exist.                                            *)
THEOREM TypeCorrect == Spec => []TypeOK
  <1>1. Spec => []TypeInv
    BY InitType, NextType, PTL DEF Spec
  <1> QED
    BY <1>1, TypeInvImplies, PTL

-----------------------------------------------------------------------------
(* The versions.                                                           *)

(* A task between its read and its write: what it will copy is what was    *)
(* decided, or was written meanwhile, or was put back before.              *)
CopyKept(task) ==
    task.at = "writing" =>
        \A a \in Assets : \/ a \in Decides(task) \/ a \in task.missed \/ a \in lost
                          \/ task.base[a] = expected[a]

CopiesInv == NothingLost /\ \A t \in Tasks : CopyKept(tasks[t])

LEMMA QuietCopies ==
    ASSUME CopiesInv, \A u \in Tasks : Carries(tasks[u], tasks'[u]),
           UNCHANGED <<lost, expected>>, Latest'.assets = Latest.assets
    PROVE  CopiesInv'
  <1>1. NothingLost'
    BY DEF CopiesInv, NothingLost
  <1>2. \A t \in Tasks : CopyKept(tasks[t])'
    BY DEF CopiesInv, CopyKept, Carries, Decides
  <1> QED
    BY <1>1, <1>2 DEF CopiesInv

LEMMA BeginCopies ==
    ASSUME TypeInv, CopiesInv, NEW t \in Tasks,
           ReadMap(t) \/ \E v \in 1 .. Len(versions) : Rollback(t, v)
    PROVE  CopiesInv'
  <1>1. PICK new \in TaskType :
            /\ tasks' = [tasks EXCEPT ![t] = new]
            /\ new.kind = "rollback" \/ new.whole \/ new.base = Latest.assets
    BY BeginTasks
  <1>2. UNCHANGED <<versions, lost, expected>>
    BY DEF ReadMap, Rollback
  <1>3. NothingLost'
    BY <1>2 DEF CopiesInv, NothingLost, Latest
  <1>4. CopyKept(new)'
    BY <1>1, <1>2 DEF CopiesInv, NothingLost, CopyKept, Decides
  <1>5. \A u \in Tasks \ {t} : CopyKept(tasks[u])'
    BY <1>1, <1>2 DEF TypeInv, TasksTyped, CopiesInv, CopyKept, Decides
  <1>6. tasks'[t] = new
    BY <1>1 DEF TypeInv, TasksTyped
  <1> QED
    BY <1>3, <1>4, <1>5, <1>6 DEF CopiesInv, CopyKept

LEMMA WriteCopies ==
    ASSUME TypeInv, CopiesInv, NEW t \in Tasks,
           WriteVersion(t) \/ \E a \in Assets : WriteVersionFails(t, a)
    PROVE  CopiesInv'
  <1>1. PICK assets \in AssetMap : Writes(t, assets)
    BY WritesVersion
  <1>2. Latest'.assets = assets
    BY <1>1, AppendVersion DEF Writes, TypeInv
  <1>3. PICK new \in TaskType : new.at /= "writing" /\ tasks' = [Missing(t) EXCEPT ![t] = new]
    BY WritesVersion
  <1>4. /\ tasks'[t] = new
        /\ \A u \in Tasks \ {t} : tasks'[u].at = "writing" =>
              /\ tasks[u].at = "writing"
              /\ tasks'[u].kind = tasks[u].kind /\ tasks'[u].whole = tasks[u].whole
              /\ tasks'[u].overrides = tasks[u].overrides /\ tasks'[u].base = tasks[u].base
              /\ tasks'[u].missed = tasks[u].missed \cup Decides(tasks[t])
    BY <1>3, MissingTasks DEF TypeInv
  <1>5. \A a \in Assets : expected'[a] = IF a \in Decides(tasks[t]) THEN assets[a] ELSE expected[a]
    BY <1>1 DEF Writes
  <1>6. \A a \in Assets \ Decides(tasks[t]) :
            /\ a \in lost \cup tasks[t].missed => a \in lost'
            /\ a \notin lost' => assets[a] = tasks[t].base[a]
    BY <1>1 DEF Writes
  <1>7. ASSUME NEW a \in Assets, a \notin lost' PROVE Latest'.assets[a] = expected'[a]
    <2>1. CASE a \in Decides(tasks[t])
      BY <1>2, <1>5, <2>1
    <2>2. CASE a \notin Decides(tasks[t])
      <3>1. a \notin lost /\ a \notin tasks[t].missed /\ assets[a] = tasks[t].base[a]
        BY <1>6, <1>7, <2>2
      <3>2. tasks[t].base[a] = expected[a]
        BY <1>1, <2>2, <3>1 DEF Writes, CopiesInv, CopyKept
      <3> QED
        BY <1>2, <1>5, <2>2, <3>1, <3>2
    <2> QED
      BY <2>1, <2>2
  <1>8. NothingLost'
    BY <1>7 DEF NothingLost
  <1>9. ASSUME NEW u \in Tasks PROVE CopyKept(tasks[u])'
    <2> SUFFICES ASSUME tasks'[u].at = "writing", NEW a \in Assets,
                        a \notin Decides(tasks'[u]), a \notin tasks'[u].missed, a \notin lost'
                 PROVE  tasks'[u].base[a] = expected'[a]
      BY DEF CopyKept, Decides
    <2>1. u /= t
      BY <1>3, <1>4
    <2>2. /\ tasks[u].at = "writing" /\ tasks'[u].base = tasks[u].base
          /\ a \notin Decides(tasks[u]) /\ a \notin tasks[u].missed
          /\ a \notin Decides(tasks[t])
      BY <1>4, <2>1 DEF Decides
    <2>3. a \notin lost
      BY <1>6, <2>2
    <2>4. tasks[u].base[a] = expected[a]
      BY <2>2, <2>3 DEF CopiesInv, CopyKept
    <2> QED
      BY <1>5, <2>2, <2>4
  <1> QED
    BY <1>8, <1>9 DEF CopiesInv

LEMMA PublicationCopies ==
    ASSUME TypeInv, CopiesInv, NEW p \in Publications, PublicationStep(p)
    PROVE  CopiesInv'
  <1>1. UNCHANGED <<tasks, expected, lost>>
    BY PublicationLeaves
  <1>2. Latest'.assets = Latest.assets
    <2>1. CASE RecordState(p)
      <3>1. Len(versions') = Len(versions) /\ Len(versions) \in 1 .. Len(versions)
        BY <2>1, RecordStateVersions DEF TypeInv, VersionsTyped
      <3> QED
        BY <2>1, <3>1, RecordStateVersions DEF Latest
    <2>2. CASE ~ RecordState(p)
      BY <2>2, PublicationLeaves DEF Latest
    <2> QED
      BY <2>1, <2>2
  <1>3. \A u \in Tasks : Carries(tasks[u], tasks'[u])
    BY <1>1 DEF Carries
  <1> QED
    BY <1>1, <1>2, <1>3, QuietCopies

LEMMA NameSceneCopies ==
    ASSUME TypeInv, CopiesInv, NEW p \in Publications, NameScene(p)
    PROVE  CopiesInv'
  <1>1. UNCHANGED <<expected, lost>> /\ Latest' = Latest
    BY DEF NameScene, Latest
  <1> QED
    BY <1>1, NameSceneTasks, QuietCopies

LEMMA NextCopies == TypeInv /\ CopiesInv /\ [Next]_vars => CopiesInv'
  <1> SUFFICES ASSUME TypeInv, CopiesInv, [Next]_vars PROVE CopiesInv'
    OBVIOUS
  <1>1. CASE Quiet
    <2>1. Latest' = Latest /\ UNCHANGED <<lost, expected>>
      BY <1>1, QuietLeaves DEF Latest
    <2> QED
      BY <1>1, <2>1, QuietTasks, QuietCopies
  <1>2. ASSUME NEW t \in Tasks, ReadMap(t) \/ \E v \in 1 .. Len(versions) : Rollback(t, v)
        PROVE  CopiesInv'
    BY <1>2, BeginCopies
  <1>3. ASSUME NEW t \in Tasks, WriteVersion(t) \/ \E a \in Assets : WriteVersionFails(t, a)
        PROVE  CopiesInv'
    BY <1>3, WriteCopies
  <1>4. ASSUME NEW p \in Publications, NameScene(p) \/ PublicationStep(p) PROVE CopiesInv'
    BY <1>4, NameSceneCopies, PublicationCopies
  <1>5. CASE UNCHANGED vars
    <2>1. Latest' = Latest /\ UNCHANGED <<lost, expected, tasks>>
      BY <1>5 DEF vars, Latest
    <2>2. \A u \in Tasks : Carries(tasks[u], tasks'[u])
      BY <2>1 DEF Carries
    <2> QED
      BY <2>1, <2>2, QuietCopies
  <1> QED
    BY <1>1, <1>2, <1>3, <1>4, <1>5, NextSorted

LEMMA InitCopies == Init => CopiesInv
  BY DEF Init, CopiesInv, NothingLost, CopyKept, NoTask

(* The latest version holds what the operations decided, whatever tasks    *)
(* copy at a time (SystemObjectVersion.cloneObjectAndXrefs), but for the   *)
(* assets that are named lost.                                             *)
THEOREM NothingLostAlways == Spec => []NothingLost
  <1>1. Init => TypeInv /\ CopiesInv
    BY InitType, InitCopies
  <1>2. (TypeInv /\ CopiesInv) /\ [Next]_vars => (TypeInv /\ CopiesInv)'
    BY NextType, NextCopies
  <1>3. CopiesInv => NothingLost
    BY DEF CopiesInv
  <1> QED
    BY <1>1, <1>2, <1>3, PTL DEF Spec

-----------------------------------------------------------------------------
(* The package in EDAN.                                                    *)

StateOf(v) == versions[v].state
AssetsOf(v) == versions[v].assets
AllIdle == \A p \in Publications : publications[p].at = "idle"

(* A publication that none crosses is alone, and finds what it left.       *)
AloneKept(p) ==
    publications[p].at /= "idle" /\ ~ publications[p].raced
        => /\ \A q \in Publications \ {p} : publications[q].at = "idle"
           /\ publications[p].at \in {"naming", "collecting", "staging", "recording"}
                  => StateOf(publications[p].version) = publications[p].row
           /\ publications[p].at \in {"recording", "releasing"}
                  => /\ edan = publications[p].seen
                     /\ edan.content = publications[p].assets["svx"]
           /\ publications[p].at = "releasing"
                  => StateOf(publications[p].version)
                        = StateAllowed(publications[p].intended, publications[p].license)

(* It holds the assets of its version, unless one was made between.        *)
AssetsKept(p) ==
    publications[p].at \in {"staging", "recording", "releasing"} /\ ~ publications[p].skewed
        => publications[p].assets = AssetsOf(publications[p].version)

(* A package that EDAN hides has no downloads.                             *)
HiddenKept == edan /= None /\ edan.audience = "NotPublished" => edan.downloads = Absent

(* What the last publication left.                                         *)
LastKept ==
    last /= None /\ last.ok /\ last.document /\ ~ last.raced /\ AllIdle
        => /\ last.version \in 1 .. Len(versions)
           /\ edan.audience = last.intended
           /\ StateOf(last.version) = StateAllowed(last.intended, last.license)
           /\ ~ last.skewed =>
                 LET assets == AssetsOf(last.version)
                 IN  /\ edan.content = assets["svx"]
                     /\ \/ Overlooked(assets)
                        \/ edan.downloads = IF last.intended = "NotPublished" THEN Absent
                                            ELSE assets["download"]

ReleaseInv ==
    /\ \A p \in Publications : AloneKept(p) /\ AssetsKept(p)
    /\ HiddenKept /\ LastKept

(* The steps of the tasks only append versions.                            *)
LEMMA TaskRelease ==
    ASSUME TypeInv, ReleaseInv, UNCHANGED <<publications, edan, last>>,
           VersionsTyped', Len(versions) <= Len(versions'),
           \A v \in 1 .. Len(versions) : versions'[v] = versions[v]
    PROVE  ReleaseInv'
  <1>0. Len(versions) \in Nat /\ Len(versions') \in Nat
    BY DEF TypeInv, VersionsTyped
  <1>1. \A p \in Publications : publications[p].at /= "idle" => publications[p].version \in 1 .. Len(versions)
    BY DEF TypeInv, PublicationsTyped, PublicationTyped
  <1>2. \A p \in Publications : AloneKept(p)'
    BY <1>1 DEF ReleaseInv, AloneKept, StateOf
  <1>3. \A p \in Publications : AssetsKept(p)'
    BY <1>1 DEF ReleaseInv, AssetsKept, AssetsOf
  <1>4. HiddenKept'
    BY DEF ReleaseInv, HiddenKept
  <1>5. LastKept'
    <2>1. AllIdle' = AllIdle /\ LastKept
      BY DEF ReleaseInv, AllIdle
    <2>2. ASSUME last.version \in 1 .. Len(versions)
          PROVE  /\ last.version \in 1 .. Len(versions')
                 /\ StateOf(last.version)' = StateOf(last.version)
                 /\ AssetsOf(last.version)' = AssetsOf(last.version)
      BY <1>0, <2>2 DEF StateOf, AssetsOf
    <2> QED
      BY <2>1, <2>2 DEF LastKept, Overlooked
  <1> QED
    BY <1>2, <1>3, <1>4, <1>5 DEF ReleaseInv

(* Beside a publication under way that is not raced, none is; beside any,  *)
(* the others that are under way are raced.                                *)
LEMMA OthersRaced ==
    ASSUME ReleaseInv, NEW p \in Publications, publications[p].at /= "idle",
           NEW q \in Publications \ {p}, publications[q].at /= "idle"
    PROVE  publications[q].raced
  BY DEF ReleaseInv, AloneKept

LEMMA FetchSceneRelease ==
    ASSUME TypeInv, ReleaseInv, NEW p \in Publications, NEW s \in States, FetchScene(p, s)
    PROVE  ReleaseInv'
  <1>1. UNCHANGED <<versions, edan, last>>
    BY DEF FetchScene
  <1>2. /\ publications'[p].at \in {"naming", "collecting"}
        /\ publications'[p].version = Len(versions)
        /\ publications'[p].row = Latest.state
        /\ ~ publications'[p].raced
               => \A q \in Publications \ {p} : publications'[q].at = "idle"
        /\ \A q \in Publications \ {p} : publications'[q].at /= "idle" => publications'[q].raced
        /\ \A q \in Publications \ {p} :
              /\ publications'[q].at = publications[q].at
              /\ publications'[q].assets = publications[q].assets
              /\ publications'[q].version = publications[q].version
              /\ publications'[q].skewed = publications[q].skewed
    BY FetchScenePublications
  <1>3. AloneKept(p)'
    BY <1>1, <1>2 DEF AloneKept, StateOf, Latest
  <1>4. \A q \in Publications \ {p} : AloneKept(q)'
    BY <1>2 DEF AloneKept
  <1>5. \A q \in Publications : AssetsKept(q)'
    BY <1>1, <1>2 DEF ReleaseInv, AssetsKept, AssetsOf
  <1>6. HiddenKept' /\ LastKept'
    BY <1>1, <1>2 DEF ReleaseInv, HiddenKept, LastKept, AllIdle
  <1> QED
    BY <1>3, <1>4, <1>5, <1>6 DEF ReleaseInv

(* A step in the middle of a publication, after which it goes on.          *)
LEMMA GoesOnRelease ==
    ASSUME TypeInv, ReleaseInv, NEW p \in Publications, publications[p].at /= "idle",
           NEW new \in PublicationType, new.at /= "idle",
           publications' = [publications EXCEPT ![p] = new],
           Len(versions') = Len(versions),
           \A w \in 1 .. Len(versions) : versions'[w].assets = versions[w].assets,
           AloneKept(p)', AssetsKept(p)', HiddenKept'
    PROVE  ReleaseInv'
  <1>1. /\ publications'[p] = new
        /\ \A q \in Publications \ {p} : publications'[q] = publications[q]
    BY DEF TypeInv, PublicationsTyped
  <1>2. \A q \in Publications \ {p} : AloneKept(q)'
    BY <1>1, OthersRaced DEF AloneKept
  <1>3. ASSUME NEW q \in Publications \ {p} PROVE AssetsKept(q)'
    <2>1. publications[q].at /= "idle" => publications[q].version \in 1 .. Len(versions)
      BY DEF TypeInv, PublicationsTyped, PublicationTyped
    <2> QED
      BY <1>1, <2>1 DEF ReleaseInv, AssetsKept, AssetsOf
  <1>4. LastKept'
    BY <1>1 DEF LastKept, AllIdle
  <1> QED
    BY <1>2, <1>3, <1>4 DEF ReleaseInv

LEMMA NameSceneRelease ==
    ASSUME TypeInv, ReleaseInv, NEW p \in Publications, NameScene(p)
    PROVE  ReleaseInv'
  <1>1. PICK pub \in PublicationType :
            pub = publications[p] /\ PublicationTyped(pub) /\ pub.at = "naming"
    BY DEF TypeInv, PublicationsTyped, NameScene
  <1>2. PICK new \in PublicationType :
            /\ publications' = [publications EXCEPT ![p] = new]
            /\ new.at = "collecting"
            /\ new.version = pub.version /\ new.row = pub.row /\ new.raced = pub.raced
    BY <1>1, NameScenePublications
  <1>3. UNCHANGED <<versions, edan, last>>
    BY DEF NameScene
  <1>4. /\ publications'[p] = new
        /\ \A q \in Publications \ {p} : publications'[q] = publications[q]
    BY <1>2 DEF TypeInv, PublicationsTyped
  <1>5. AloneKept(p)'
    BY <1>1, <1>2, <1>3, <1>4 DEF ReleaseInv, AloneKept, StateOf
  <1>6. AssetsKept(p)' /\ HiddenKept'
    BY <1>2, <1>3, <1>4 DEF ReleaseInv, AssetsKept, HiddenKept
  <1> QED
    BY <1>1, <1>2, <1>3, <1>5, <1>6, GoesOnRelease

LEMMA CollectAssetsRelease ==
    ASSUME TypeInv, ReleaseInv, NEW p \in Publications, CollectAssets(p)
    PROVE  ReleaseInv'
  <1>1. PICK pub \in PublicationType :
            pub = publications[p] /\ PublicationTyped(pub) /\ pub.at = "collecting"
    BY DEF TypeInv, PublicationsTyped, CollectAssets
  <1>2. PICK new \in PublicationType :
            /\ publications' = [publications EXCEPT ![p] = new]
            /\ new.at = "staging" /\ new.assets = Latest.assets
            /\ new.version = pub.version /\ new.row = pub.row /\ new.raced = pub.raced
            /\ ~ new.skewed => new.version = Len(versions)
    BY <1>1, CollectAssetsPublications
  <1>3. UNCHANGED <<versions, edan, last>>
    BY DEF CollectAssets
  <1>4. /\ publications'[p] = new
        /\ \A q \in Publications \ {p} : publications'[q] = publications[q]
    BY <1>2 DEF TypeInv, PublicationsTyped
  <1>5. AloneKept(p)'
    BY <1>1, <1>2, <1>3, <1>4 DEF ReleaseInv, AloneKept, StateOf
  <1>6. AssetsKept(p)'
    BY <1>2, <1>3, <1>4 DEF AssetsKept, AssetsOf, Latest
  <1>7. HiddenKept'
    BY <1>3 DEF ReleaseInv, HiddenKept
  <1> QED
    BY <1>1, <1>2, <1>3, <1>5, <1>6, <1>7, GoesOnRelease

LEMMA CreatePackageRelease ==
    ASSUME TypeInv, ReleaseInv, NEW p \in Publications, NEW audience \in States,
           CreatePackage(p, audience)
    PROVE  ReleaseInv'
  <1>1. PICK pub \in PublicationType :
            pub = publications[p] /\ PublicationTyped(pub) /\ pub.at = "staging"
    BY DEF TypeInv, PublicationsTyped, CreatePackage
  <1>2. /\ edan' \in Package /\ edan'.content = pub.assets["svx"]
        /\ edan /= None => edan'.audience = edan.audience /\ edan'.downloads = edan.downloads
        /\ edan = None => edan'.downloads = Absent
    BY <1>1, CreatePackagePublications
  <1>3. PICK new \in PublicationType :
            /\ publications' = [publications EXCEPT ![p] = new]
            /\ new.at = "recording" /\ new.seen = edan' /\ new.assets = pub.assets
            /\ new.version = pub.version /\ new.row = pub.row
            /\ new.raced = pub.raced /\ new.skewed = pub.skewed
    BY <1>1, CreatePackagePublications
  <1>4. UNCHANGED versions
    BY DEF CreatePackage
  <1>5. /\ publications'[p] = new
        /\ \A q \in Publications \ {p} : publications'[q] = publications[q]
    BY <1>3 DEF TypeInv, PublicationsTyped
  <1>6. AloneKept(p)'
    BY <1>1, <1>2, <1>3, <1>4, <1>5 DEF ReleaseInv, AloneKept, StateOf
  <1>7. AssetsKept(p)'
    BY <1>1, <1>3, <1>4, <1>5 DEF ReleaseInv, AssetsKept, AssetsOf
  <1>8. HiddenKept'
    BY <1>2 DEF ReleaseInv, HiddenKept
  <1> QED
    BY <1>1, <1>3, <1>4, <1>6, <1>7, <1>8, GoesOnRelease

LEMMA RecordStateRelease ==
    ASSUME TypeInv, ReleaseInv, NEW p \in Publications, RecordState(p)
    PROVE  ReleaseInv'
  <1>1. PICK pub \in PublicationType :
            pub = publications[p] /\ PublicationTyped(pub) /\ pub.at = "recording"
    BY DEF TypeInv, PublicationsTyped, RecordState
  <1>2. PICK new \in PublicationType :
            /\ publications' = [publications EXCEPT ![p] = new]
            /\ new.at = "releasing" /\ new.license = Effective
            /\ new.intended = pub.intended
            /\ new.assets = pub.assets /\ new.seen = pub.seen
            /\ new.version = pub.version
            /\ new.raced = pub.raced /\ new.skewed = pub.skewed
    BY <1>1, RecordStatePublications
  <1>3. /\ Len(versions') = Len(versions)
        /\ \A w \in 1 .. Len(versions) : versions'[w].assets = versions[w].assets
        /\ versions[pub.version].state = pub.row
               => versions'[pub.version].state = StateAllowed(pub.intended, Effective)
    BY <1>1, RecordStateVersions
  <1>4. UNCHANGED <<edan, last>>
    BY DEF RecordState
  <1>5. /\ publications'[p] = new
        /\ \A q \in Publications \ {p} : publications'[q] = publications[q]
    BY <1>2 DEF TypeInv, PublicationsTyped
  <1>6. AloneKept(p)'
    BY <1>1, <1>2, <1>3, <1>4, <1>5 DEF ReleaseInv, AloneKept, StateOf
  <1>7. pub.version \in 1 .. Len(versions)
    BY <1>1 DEF PublicationTyped
  <1>8. AssetsKept(p)'
    BY <1>1, <1>2, <1>3, <1>5, <1>7 DEF ReleaseInv, AssetsKept, AssetsOf
  <1>9. HiddenKept'
    BY <1>4 DEF ReleaseInv, HiddenKept
  <1> QED
    BY <1>1, <1>2, <1>3, <1>6, <1>8, <1>9, GoesOnRelease

(* A publication ends; if it claims success, what it left is as claimed.   *)
LEMMA EndsRelease ==
    ASSUME TypeInv, ReleaseInv, NEW p \in Publications, Ends(p), HiddenKept', LastKept'
    PROVE  ReleaseInv'
  <1>1. /\ publications[p].at /= "idle" /\ UNCHANGED versions
        /\ publications' = [publications EXCEPT ![p] = NoPublication]
    BY EndsLeaves
  <1>2. /\ publications'[p] = NoPublication
        /\ \A q \in Publications \ {p} : publications'[q] = publications[q]
    BY <1>1, EndedPublications
  <1>3. NoPublication.at = "idle"
    BY DEF NoPublication
  <1>4. \A q \in Publications : AloneKept(q)'
    BY <1>1, <1>2, <1>3, OthersRaced DEF AloneKept
  <1>5. \A q \in Publications : AssetsKept(q)'
    BY <1>1, <1>2, <1>3 DEF ReleaseInv, AssetsKept, AssetsOf
  <1> QED
    BY <1>4, <1>5 DEF ReleaseInv

LEMMA UpdatePackageRelease ==
    ASSUME TypeInv, ReleaseInv, NEW p \in Publications, UpdatePackage(p)
    PROVE  ReleaseInv'
  <1>1. PICK pub \in PublicationType :
            pub = publications[p] /\ PublicationTyped(pub) /\ pub.at = "releasing"
    BY DEF TypeInv, PublicationsTyped, UpdatePackage
  <1>2. /\ pub.version \in 1 .. Len(versions) /\ pub.intended \in States /\ pub.seen \in Package
    BY <1>1 DEF PublicationTyped
  <1>3. /\ Updated(pub) \in Package
        /\ Updated(pub).audience = pub.intended
        /\ Updated(pub).content = pub.assets["svx"]
        /\ Updated(pub).downloads = IF pub.intended = "NotPublished" THEN Absent
                                    ELSE pub.assets["download"]
    BY <1>2, UpdatedType
  <1>4. /\ edan' = IF NeedsUpdate(pub) /\ HasDocument(pub) THEN Updated(pub) ELSE edan
        /\ last' = Ended(pub, TRUE, NeedsUpdate(pub) /\ HasDocument(pub))
        /\ UNCHANGED versions
    BY <1>1 DEF UpdatePackage
  <1>5. HiddenKept'
    BY <1>3, <1>4 DEF ReleaseInv, HiddenKept
  <1>6. /\ last'.version = pub.version /\ last'.intended = pub.intended
        /\ last'.license = pub.license
    BY <1>4 DEF Ended
  <1>7. /\ last'.raced = pub.raced /\ last'.skewed = pub.skewed
        /\ last'.document = HasDocument(pub)
        /\ last'.updated = (NeedsUpdate(pub) /\ HasDocument(pub))
    BY <1>4, Zenon DEF Ended
  <1>8. ASSUME ~ pub.raced, HasDocument(pub)
        PROVE  /\ edan'.audience = pub.intended
               /\ edan'.content = pub.assets["svx"]
               /\ \/ /\ pub.assets["download"] = Absent /\ pub.intended /= "NotPublished"
                     /\ ~ NeedsUpdate(pub)
                  \/ edan'.downloads = IF pub.intended = "NotPublished" THEN Absent
                                       ELSE pub.assets["download"]
               /\ StateOf(pub.version) = StateAllowed(pub.intended, pub.license)
    <2>1. /\ edan = pub.seen /\ edan.content = pub.assets["svx"]
          /\ StateOf(pub.version) = StateAllowed(pub.intended, pub.license)
      BY <1>1, <1>8 DEF ReleaseInv, AloneKept
    <2>2. CASE NeedsUpdate(pub)
      BY <1>3, <1>4, <1>8, <2>1, <2>2
    <2>3. CASE ~ NeedsUpdate(pub)
      <3>1. edan' = edan
        BY <1>4, <2>3
      <3>2. pub.assets["download"] = Absent /\ edan.audience = pub.intended
        BY <2>1, <2>3 DEF NeedsUpdate, Audience
      <3>3. edan /= None
        BY <1>2, <2>1, PublicationAssumption
      <3>4. pub.intended = "NotPublished" => edan'.downloads = Absent
        BY <3>1, <3>2, <3>3 DEF ReleaseInv, HiddenKept
      <3> QED
        BY <2>1, <2>3, <3>1, <3>2, <3>4
    <2> QED
      BY <2>2, <2>3
  <1>9. ~ pub.skewed => pub.assets = AssetsOf(pub.version)
    BY <1>1 DEF ReleaseInv, AssetsKept
  <1>10. LastKept'
    <2> SUFFICES ASSUME last'.document, ~ last'.raced
                 PROVE  LastKept'
      BY DEF LastKept
    <2>1. ~ pub.raced /\ HasDocument(pub)
      BY <1>7, Zenon
    <2>2. ~ last'.skewed => pub.assets = AssetsOf(pub.version)
      BY <1>7, <1>9, Zenon
    <2>3. ~ NeedsUpdate(pub) => ~ last'.updated
      BY <1>7, Zenon
    <2>4. \/ /\ pub.assets["download"] = Absent /\ last'.intended /= "NotPublished"
             /\ ~ last'.updated
          \/ edan'.downloads = IF last'.intended = "NotPublished" THEN Absent
                               ELSE pub.assets["download"]
      BY <1>6, <1>8, <2>1, <2>3
    <2>5. /\ edan'.audience = pub.intended /\ edan'.content = pub.assets["svx"]
          /\ StateOf(pub.version) = StateAllowed(pub.intended, pub.license)
      BY <1>8, <2>1
    <2> QED
      BY <1>2, <1>4, <1>6, <2>2, <2>4, <2>5 DEF LastKept, Overlooked, StateOf, AssetsOf
  <1> QED
    BY <1>5, <1>10, EndsRelease DEF Ends

(* A publication that fails claims nothing.                                *)
LEMMA FailsRelease ==
    ASSUME TypeInv, ReleaseInv, NEW p \in Publications, Ends(p), ~ UpdatePackage(p)
    PROVE  ReleaseInv'
  <1>1. PICK pub \in PublicationType : pub = publications[p] /\ PublicationTyped(pub)
    BY DEF TypeInv, PublicationsTyped
  <1>2. last' = Ended(pub, FALSE, FALSE)
    BY <1>1 DEF Ends, PublishFails, NothingToPublish, AnswerLost
  <1>3. LastKept'
    BY <1>2 DEF LastKept, Ended
  <1>4. HiddenKept'
    <2>1. CASE UNCHANGED edan
      BY <2>1 DEF ReleaseInv, HiddenKept
    <2>2. ASSUME NEW audience \in States, AnswerLost(p, audience) PROVE HiddenKept'
      <3>1. CASE pub.at = "staging"
        <4>1. edan' = Created(pub, audience) /\ (edan /= None => audience = edan.audience)
          BY <1>1, <2>2, <3>1 DEF AnswerLost
        <4>2. /\ edan'.audience = audience
              /\ edan /= None => edan'.downloads = edan.downloads
              /\ edan = None => edan'.downloads = Absent
          BY <4>1, PackageType DEF TypeInv
        <4> QED
          BY <4>1, <4>2 DEF ReleaseInv, HiddenKept
      <3>2. CASE pub.at = "releasing"
        <4>1. edan' = Updated(pub)
          BY <1>1, <2>2, <3>2 DEF AnswerLost
        <4>2. /\ Updated(pub).audience = pub.intended
              /\ Updated(pub).downloads = IF pub.intended = "NotPublished" THEN Absent
                                          ELSE pub.assets["download"]
          BY <1>1, <3>2, UpdatedType DEF PublicationTyped
        <4> QED
          BY <4>1, <4>2 DEF HiddenKept
      <3> QED
        BY <1>1, <2>2, <3>1, <3>2 DEF AnswerLost
    <2> QED
      BY <2>1, <2>2 DEF Ends, PublishFails, NothingToPublish
  <1> QED
    BY <1>3, <1>4, EndsRelease

LEMMA NextRelease == TypeInv /\ ReleaseInv /\ [Next]_vars => ReleaseInv'
  <1> SUFFICES ASSUME TypeInv, ReleaseInv, [Next]_vars PROVE ReleaseInv'
    OBVIOUS
  <1>0. Len(versions) \in Nat
    BY DEF TypeInv, VersionsTyped
  <1>1. ASSUME UNCHANGED <<versions, publications, edan, last>> PROVE ReleaseInv'
    <2>1. VersionsTyped'
      BY <1>1 DEF TypeInv, VersionsTyped
    <2> QED
      BY <1>0, <1>1, <2>1, TaskRelease
  <1>2. CASE Quiet
    BY <1>1, <1>2, QuietLeaves
  <1>3. ASSUME NEW t \in Tasks, ReadMap(t) \/ \E v \in 1 .. Len(versions) : Rollback(t, v)
        PROVE  ReleaseInv'
    BY <1>1, <1>3 DEF ReadMap, Rollback
  <1>4. ASSUME NEW t \in Tasks, WriteVersion(t) \/ \E a \in Assets : WriteVersionFails(t, a)
        PROVE  ReleaseInv'
    <2>1. PICK assets \in AssetMap : Writes(t, assets)
      BY <1>4, WritesVersion
    <2>2. /\ VersionsTyped' /\ Len(versions') = Len(versions) + 1
          /\ \A v \in 1 .. Len(versions) : versions'[v] = versions[v]
      BY <2>1, AppendVersion DEF Writes, TypeInv
    <2> QED
      BY <1>0, <2>1, <2>2, TaskRelease DEF Writes
  <1>5. ASSUME NEW p \in Publications, NameScene(p) PROVE ReleaseInv'
    BY <1>5, NameSceneRelease
  <1>6. ASSUME NEW p \in Publications, PublicationStep(p) PROVE ReleaseInv'
    <2>1. ASSUME NEW s \in Requested, FetchScene(p, s) PROVE ReleaseInv'
      BY <2>1, PublicationAssumption, FetchSceneRelease
    <2>2. ASSUME NEW audience \in States, CreatePackage(p, audience) PROVE ReleaseInv'
      BY <2>2, CreatePackageRelease
    <2>3. CASE Ends(p)
      BY <2>3, UpdatePackageRelease, FailsRelease
    <2> QED
      BY <1>6, <2>1, <2>2, <2>3, CollectAssetsRelease, RecordStateRelease DEF PublicationStep
  <1>7. CASE UNCHANGED vars
    BY <1>1, <1>7 DEF vars
  <1> QED
    BY <1>2, <1>3, <1>4, <1>5, <1>6, <1>7, NextSorted

LEMMA InitRelease == Init => ReleaseInv
  BY DEF Init, ReleaseInv, AloneKept, AssetsKept, HiddenKept, LastKept, NoPublication

LEMMA ReleaseAlways == Spec => []ReleaseInv
  <1>1. Init => TypeInv /\ ReleaseInv
    BY InitType, InitRelease
  <1>2. (TypeInv /\ ReleaseInv) /\ [Next]_vars => (TypeInv /\ ReleaseInv)'
    BY NextType, NextRelease
  <1> QED
    BY <1>1, <1>2, PTL DEF Spec

(* After a publication that reported success (PublishScene.publish), EDAN  *)
(* shows the package to those the version's PublishedState names, whatever *)
(* failed before, unless the license prevents publishing.                  *)
THEOREM RowTellsEdanAlways == Spec => []RowTellsEdan
  <1>1. ReleaseInv => RowTellsEdan
    BY DEF ReleaseInv, LastKept, RowTellsEdan, Settled, AllIdle, StateOf, StateAllowed
  <1> QED
    BY <1>1, ReleaseAlways, PTL

(* After such a publication EDAN serves the scene file of that version and *)
(* its downloads, and none once withdrawn, whatever failed before; but for *)
(* removed downloads that publish overlooks, having nothing else to tell.  *)
THEOREM ContentAsRecordedAlways == Spec => []ContentAsRecorded
  <1>1. ReleaseInv => ContentAsRecorded
    BY DEF ReleaseInv, LastKept, ContentAsRecorded, Settled, AllIdle, AssetsOf
  <1> QED
    BY <1>1, ReleaseAlways, PTL

-----------------------------------------------------------------------------
(* The downloads.                                                          *)

(* What tasks look like.                                                   *)
Shaped(task) ==
    /\ task.at \in {"licensing", "updating"} => task.kind = "edit"
    /\ task.at = "licensing" => (task.level /= None <=> task.how = "assign")
    /\ task.at = "cooking" => task.kind = "generate"
    /\ task.at \in {"copying", "writing"} =>
          /\ task.kind \in {"edit", "generate", "ingest", "rollback"}
          /\ task.kind = "edit" => task.overrides = Only("download", Absent)
          /\ task.kind = "ingest" => DOMAIN task.overrides = {"svx"}
    /\ task.at = "writing" /\ task.kind = "ingest" /\ task.whole => task.base = NoAssets

Permitted == DownloadState(scene.posed, Effective)

(* What an edit that nothing has overtaken knows of the license.           *)
Informed(task, license) ==
    ~ task.overtaken =>
       /\ task.at = "licensing" => task.old = license
       /\ task.at = "updating" /\ LicenseAllowsDownloadGeneration(task.new)
             => LicenseAllowsDownloadGeneration(license)

(* An edit between its two writes; one that will notice what it did to the *)
(* downloads, one that removes them, and one that may not notice.          *)
Changing(task) == task.at = "updating" /\ ~ task.overtaken
Notices(task, posed) == Changing(task) /\ DownloadState(posed, task.old)
Removes(task) == task.kind = "edit" /\ task.at \in {"copying", "writing"}
Slips(task) == task.at \in {"licensing", "updating"} /\ task.overtaken

Undisturbed == Permitted /\ \A t \in Tasks : ~ Changing(tasks[t])

Generates(task) == task.kind = "generate" /\ task.at /= "idle" /\ ~ task.overtaken

(* Downloads are permitted, or an edit that is not through will see to it. *)
DownloadKept ==
    ~ unchecked /\ expected["download"] /= Absent =>
        \/ \E t \in Tasks : \/ Removes(tasks[t]) \/ Slips(tasks[t])
                            \/ Notices(tasks[t], scene.posed)
        \/ Undisturbed

DownloadInv ==
    /\ \A t \in Tasks : /\ Shaped(tasks[t]) /\ Informed(tasks[t], Effective)
                        /\ Generates(tasks[t]) => Undisturbed
    /\ DownloadKept

LEMMA NoTaskShaped ==
    /\ Shaped(NoTask) /\ ~ Changing(NoTask) /\ ~ Generates(NoTask)
    /\ \A license : Informed(NoTask, license)
  BY DEF NoTask, Shaped, Changing, Generates, Informed

LEMMA InitDownload == Init => DownloadInv
  <1> SUFFICES ASSUME Init PROVE DownloadInv
    OBVIOUS
  <1>1. expected["download"] = Absent
    <2>1. Len(versions) = 1 /\ versions[1].assets = [NoAssets EXCEPT !["svx"] = 1]
      BY DEF Init
    <2>2. expected = [NoAssets EXCEPT !["svx"] = 1]
      BY <2>1 DEF Init, Latest
    <2> QED
      BY <2>2 DEF NoAssets, Assets
  <1>2. \A t \in Tasks : tasks[t] = NoTask
    BY DEF Init
  <1> QED
    BY <1>1, <1>2, NoTaskShaped DEF DownloadInv, DownloadKept

(* What a task that is only told of a write keeps; and beside it, an idle  *)
(* one may take the event of an ingestion.                                 *)
Same(task, new) ==
    /\ new.at = task.at /\ new.kind = task.kind /\ new.how = task.how /\ new.level = task.level
    /\ new.old = task.old /\ new.new = task.new /\ new.overrides = task.overrides
    /\ new.whole = task.whole /\ new.base = task.base /\ new.overtaken = task.overtaken

Alike(task, new) == Same(task, new) \/ (task.at = "idle" /\ new = Event)

LEMMA AlikeKeeps ==
    ASSUME NEW task, NEW new, Alike(task, new)
    PROVE  /\ Shaped(task) => Shaped(new)
           /\ \A license : Informed(task, license) => Informed(new, license)
           /\ Changing(new) = Changing(task) /\ Removes(new) = Removes(task)
           /\ Slips(new) = Slips(task) /\ Generates(new) = Generates(task)
           /\ \A posed : Notices(new, posed) = Notices(task, posed)
  <1>1. CASE Same(task, new)
    <2> USE <1>1 DEF Same
    <2>1. Shaped(task) => Shaped(new)
      BY DEF Shaped
    <2>2. \A license : Informed(task, license) => Informed(new, license)
      BY DEF Informed
    <2>3. Changing(new) = Changing(task) /\ Removes(new) = Removes(task)
          /\ Slips(new) = Slips(task) /\ Generates(new) = Generates(task)
      BY DEF Changing, Removes, Slips, Generates
    <2>4. \A posed : Notices(new, posed) = Notices(task, posed)
      BY DEF Changing, Notices
    <2> QED
      BY <2>1, <2>2, <2>3, <2>4
  <1>2. CASE task.at = "idle" /\ new = Event
    <2> USE <1>2
    <2>1. new.at = "asking" /\ new.kind = "event"
      BY EventType
    <2>2. Shaped(new) /\ \A license : Informed(new, license)
      BY <2>1 DEF Shaped, Informed
    <2>3. Changing(new) = FALSE /\ Removes(new) = FALSE
          /\ Slips(new) = FALSE /\ Generates(new) = FALSE
      BY <2>1 DEF Changing, Removes, Slips, Generates
    <2>4. Changing(task) = FALSE /\ Removes(task) = FALSE
          /\ Slips(task) = FALSE /\ Generates(task) = FALSE
      BY DEF Changing, Removes, Slips, Generates
    <2>5. \A posed : Notices(new, posed) = FALSE /\ Notices(task, posed) = FALSE
      BY <2>3, <2>4 DEF Notices
    <2> QED
      BY <2>2, <2>3, <2>4, <2>5
  <1> QED
    BY <1>1, <1>2 DEF Alike

(* A task takes a step of its own, under the license and the pose there    *)
(* are.                                                                    *)
LEMMA OwnStep ==
    ASSUME DownloadInv, UNCHANGED <<scene, own, inherited>>,
           NEW t \in Tasks, NEW new, tasks'[t] = new,
           \A u \in Tasks \ {t} : Alike(tasks[u], tasks'[u]),
           Shaped(new), Informed(new, Effective), ~ Changing(new),
           Generates(new) => Undisturbed,
           \/ unchecked'
           \/ expected'["download"] = Absent
           \/ Undisturbed
           \/ /\ ~ unchecked /\ expected'["download"] = expected["download"]
              /\ ~ Slips(tasks[t]) /\ ~ Changing(tasks[t])
              /\ Removes(tasks[t]) => Removes(new)
    PROVE  DownloadInv'
  <1>1. Effective' = Effective /\ Permitted' = Permitted
    BY DEF Effective, Permitted
  <1>2. \A u \in Tasks : Shaped(tasks'[u]) /\ Informed(tasks'[u], Effective)
    BY AlikeKeeps DEF DownloadInv
  <1>3. \A u \in Tasks \ {t} : /\ Changing(tasks'[u]) = Changing(tasks[u])
                               /\ Removes(tasks'[u]) = Removes(tasks[u])
                               /\ Slips(tasks'[u]) = Slips(tasks[u])
                               /\ Generates(tasks'[u]) = Generates(tasks[u])
                               /\ Notices(tasks'[u], scene.posed) = Notices(tasks[u], scene.posed)
    BY AlikeKeeps
  <1>4. Undisturbed => Undisturbed'
    BY <1>1, <1>3 DEF Undisturbed
  <1>5. \A u \in Tasks : Generates(tasks'[u]) => Undisturbed'
    BY <1>3, <1>4 DEF DownloadInv
  <1>6. DownloadKept'
    <2>1. CASE unchecked' \/ expected'["download"] = Absent
      BY <2>1 DEF DownloadKept
    <2>2. CASE Undisturbed
      BY <1>4, <2>2 DEF DownloadKept
    <2>3. ASSUME ~ unchecked, expected'["download"] = expected["download"],
                 ~ Slips(tasks[t]), ~ Changing(tasks[t]), Removes(tasks[t]) => Removes(new),
                 expected["download"] /= Absent
          PROVE  DownloadKept'
      <3>1. ~ Notices(tasks[t], scene.posed)
        BY <2>3 DEF Notices
      <3>2. ASSUME NEW u \in Tasks,
                   Removes(tasks[u]) \/ Slips(tasks[u]) \/ Notices(tasks[u], scene.posed)
            PROVE  \/ Removes(tasks'[u]) \/ Slips(tasks'[u])
                   \/ Notices(tasks'[u], scene.posed)
        BY <1>3, <2>3, <3>1, <3>2
      <3>3. \/ \E u \in Tasks : \/ Removes(tasks[u]) \/ Slips(tasks[u])
                                \/ Notices(tasks[u], scene.posed)
            \/ Undisturbed
        BY <2>3 DEF DownloadInv, DownloadKept
      <3>4. CASE Undisturbed
        BY <1>4, <3>4 DEF DownloadKept
      <3>5. CASE \E u \in Tasks : \/ Removes(tasks[u]) \/ Slips(tasks[u])
                                  \/ Notices(tasks[u], scene.posed)
        <4>1. \E u \in Tasks : \/ Removes(tasks'[u]) \/ Slips(tasks'[u])
                               \/ Notices(tasks'[u], scene.posed)
          BY <3>2, <3>5
        <4> QED
          BY <4>1 DEF DownloadKept
      <3> QED
        BY <3>3, <3>4, <3>5
    <2> QED
      BY <2>1, <2>2, <2>3
  <1> QED
    BY <1>1, <1>2, <1>5, <1>6 DEF DownloadInv

(* A change of the license or of the pose: the other edits and generations *)
(* are overtaken.                                                          *)
LEMMA OvertakingKeeps ==
    ASSUME DownloadInv, TasksTyped, NEW t, NEW new, tasks' = Overtaking(t, new)
    PROVE  /\ t \in Tasks => tasks'[t] = new
           /\ \A u \in Tasks \ {t} :
                 /\ Shaped(tasks'[u]) /\ ~ Changing(tasks'[u]) /\ ~ Generates(tasks'[u])
                 /\ \A license : Informed(tasks'[u], license)
                 /\ Removes(tasks[u]) => Removes(tasks'[u])
                 /\ Slips(tasks[u]) \/ Changing(tasks[u]) => Slips(tasks'[u])
  <1>1. t \in Tasks => tasks'[t] = new
    BY DEF Overtaking
  <1>2. ASSUME NEW u \in Tasks \ {t}
        PROVE  /\ Shaped(tasks'[u]) /\ ~ Changing(tasks'[u]) /\ ~ Generates(tasks'[u])
               /\ \A license : Informed(tasks'[u], license)
               /\ Removes(tasks[u]) => Removes(tasks'[u])
               /\ Slips(tasks[u]) \/ Changing(tasks[u]) => Slips(tasks'[u])
    <2>1. PICK task \in TaskType : task = tasks[u] /\ Shaped(task)
      BY DEF TasksTyped, DownloadInv
    <2>2. CASE task.kind \in {"edit", "generate"}
      <3> DEFINE marked == [task EXCEPT !.overtaken = TRUE]
      <3>1. tasks'[u] = marked
        BY <2>1, <2>2 DEF Overtaking
      <3>2. /\ marked.at = task.at /\ marked.kind = task.kind /\ marked.how = task.how
            /\ marked.level = task.level /\ marked.overrides = task.overrides
            /\ marked.whole = task.whole /\ marked.base = task.base /\ marked.overtaken = TRUE
        BY <2>1 DEF TaskType
      <3> HIDE DEF marked
      <3>3. Shaped(marked)
        BY <2>1, <3>2 DEF Shaped
      <3>4. /\ ~ Changing(marked) /\ ~ Generates(marked)
            /\ \A license : Informed(marked, license)
            /\ Removes(task) => Removes(marked)
            /\ Slips(task) \/ Changing(task) => Slips(marked)
        BY <3>2 DEF Changing, Generates, Informed, Removes, Slips
      <3> QED
        BY <2>1, <3>1, <3>3, <3>4
    <2>3. CASE task.kind \notin {"edit", "generate"}
      <3>1. tasks'[u] = task
        BY <2>1, <2>3 DEF Overtaking
      <3>2. task.at \notin {"licensing", "updating"} /\ task.kind /= "generate"
        BY <2>1, <2>3 DEF Shaped
      <3> QED
        BY <2>1, <3>1, <3>2 DEF Changing, Generates, Informed, Removes, Slips
    <2> QED
      BY <2>2, <2>3
  <1> QED
    BY <1>1, <1>2

(* The steps of edits.                                                     *)
LEMMA StartEditDownload ==
    ASSUME TypeInv, DownloadInv, NEW t \in Tasks, NEW how \in Ways,
           NEW level \in License, NEW flags \in SceneFlags \cup {None},
           StartEdit(t, how, level, flags)
    PROVE  DownloadInv'
  <1> DEFINE new == EditTask(how, level, flags, Effective)
  <1>1. /\ new.at = "licensing" /\ new.kind = "edit" /\ new.how = how /\ new.level = level
        /\ new.old = Effective /\ ~ new.overtaken
    BY DEF EditTask, NoTask
  <1>2. /\ tasks[t].at = "idle" /\ (level # None <=> how = "assign")
        /\ tasks' = [tasks EXCEPT ![t] = new]
        /\ UNCHANGED <<scene, named, own, inherited, expected>>
        /\ ~ unchecked' => ~ unchecked
    BY DEF StartEdit
  <1> HIDE DEF new
  <1>3. Shaped(new)
    BY <1>1, <1>2 DEF Shaped
  <1>4. Informed(new, Effective) /\ ~ Changing(new) /\ ~ Generates(new)
    BY <1>1 DEF Informed, Changing, Generates
  <1>5. ~ Slips(tasks[t]) /\ ~ Changing(tasks[t]) /\ ~ Removes(tasks[t])
    BY <1>2 DEF Slips, Changing, Removes
  <1>6. tasks'[t] = new /\ \A u \in Tasks \ {t} : Alike(tasks[u], tasks'[u])
    BY <1>2 DEF TypeInv, TasksTyped, Alike, Same
  <1> QED
    BY <1>2, <1>3, <1>4, <1>5, <1>6, OwnStep

LEMMA ChangeLicenseDownload ==
    ASSUME TypeInv, DownloadInv, NEW t \in Tasks, ChangeLicense(t)
    PROVE  DownloadInv'
  <1>1. PICK task \in TaskType : task = tasks[t] /\ Shaped(task) /\ Informed(task, Effective)
    BY DEF TypeInv, TasksTyped, DownloadInv
  <1>2. PICK license \in License :
            license = CASE task.how = "keep" -> task.old
                        [] task.how = "clear" -> inherited
                        [] OTHER -> task.level
    BY DEF TypeInv, SceneTyped, TaskType
  <1>3. PICK newOwn \in License :
            newOwn = CASE task.how = "keep" -> own
                       [] task.how = "assign" -> task.level
                       [] OTHER -> None
    BY DEF TypeInv, SceneTyped, TaskType, License
  <1> DEFINE new == [task EXCEPT !.at = "updating", !.new = license]
  <1>4. /\ new.at = "updating" /\ new.kind = task.kind /\ new.new = license
        /\ new.old = task.old /\ new.overtaken = task.overtaken
    BY DEF TaskType
  <1>5. /\ task.at = "licensing" /\ own' = newOwn /\ tasks' = Overtaking(t, new)
        /\ UNCHANGED <<scene, named, inherited, expected, unchecked>>
    BY <1>1, <1>2, <1>3 DEF ChangeLicense
  <1> HIDE DEF new
  <1>6. /\ tasks'[t] = new
        /\ \A u \in Tasks \ {t} :
              /\ Shaped(tasks'[u]) /\ ~ Changing(tasks'[u]) /\ ~ Generates(tasks'[u])
              /\ \A l : Informed(tasks'[u], l)
              /\ Removes(tasks[u]) => Removes(tasks'[u])
              /\ Slips(tasks[u]) \/ Changing(tasks[u]) => Slips(tasks'[u])
    BY <1>5, OvertakingKeeps DEF TypeInv
  <1>7. task.kind = "edit" /\ (task.level /= None <=> task.how = "assign")
    BY <1>1, <1>5 DEF Shaped
  <1>8. Shaped(new) /\ ~ Generates(new)
    BY <1>4, <1>7 DEF Shaped, Generates
  <1>9. ~ task.overtaken /\ LicenseAllowsDownloadGeneration(license)
           => LicenseAllowsDownloadGeneration(Effective')
    <2> SUFFICES ASSUME ~ task.overtaken, LicenseAllowsDownloadGeneration(license)
                 PROVE  LicenseAllowsDownloadGeneration(Effective')
      OBVIOUS
    <2>1. license /= None
      BY DEF LicenseAllowsDownloadGeneration
    <2>2. Effective' = IF newOwn /= None THEN newOwn ELSE inherited
      BY <1>5 DEF Effective
    <2>3. CASE task.how = "keep"
      <3>1. task.old = Effective
        BY <1>1, <1>5 DEF Informed
      <3>2. newOwn = own /\ license = Effective
        BY <1>2, <1>3, <2>3, <3>1
      <3>3. Effective' = Effective
        BY <2>2, <3>2 DEF Effective
      <3> QED
        BY <3>2, <3>3
    <2>4. CASE task.how = "assign"
      <3>1. newOwn = task.level /\ license = task.level /\ task.level /= None
        BY <1>2, <1>3, <1>7, <2>4
      <3> QED
        BY <2>2, <3>1
    <2>5. CASE task.how = "clear"
      <3>1. newOwn = None /\ license = inherited
        BY <1>2, <1>3, <2>5
      <3> QED
        BY <2>2, <3>1
    <2>6. CASE task.how = "remove"
      <3>1. license = task.level /\ task.level = None
        BY <1>2, <1>7, <2>6
      <3> QED
        BY <2>1, <3>1
    <2> QED
      BY <2>3, <2>4, <2>5, <2>6 DEF TaskType, Ways
  <1>10. Informed(new, Effective')
    BY <1>4, <1>9 DEF Informed
  <1>11. \A u \in Tasks : /\ Shaped(tasks'[u]) /\ Informed(tasks'[u], Effective')
                          /\ ~ Generates(tasks'[u])
    BY <1>6, <1>8, <1>10
  <1>12. DownloadKept'
    <2> SUFFICES ASSUME ~ unchecked, expected["download"] /= Absent
                 PROVE  \E u \in Tasks : \/ Removes(tasks'[u]) \/ Slips(tasks'[u])
                                         \/ Notices(tasks'[u], scene.posed)
      BY <1>5 DEF DownloadKept
    <2>1. CASE task.overtaken
      BY <1>4, <1>6, <2>1 DEF Slips
    <2>2. ASSUME NEW u \in Tasks \ {t},
                 \/ Removes(tasks[u]) \/ Slips(tasks[u]) \/ Notices(tasks[u], scene.posed)
          PROVE  Removes(tasks'[u]) \/ Slips(tasks'[u])
      BY <1>6, <2>2 DEF Notices
    <2>3. ASSUME ~ task.overtaken,
                 \/ Removes(tasks[t]) \/ Slips(tasks[t]) \/ Notices(tasks[t], scene.posed)
          PROVE  FALSE
      BY <1>1, <1>5, <2>3 DEF Removes, Slips, Notices, Changing
    <2>4. ASSUME Undisturbed, ~ task.overtaken PROVE Notices(tasks'[t], scene.posed)
      <3>1. task.old = Effective
        BY <1>1, <1>5, <2>4 DEF Informed
      <3> QED
        BY <1>4, <1>6, <2>4, <3>1 DEF Undisturbed, Permitted, Notices, Changing
    <2>5. \/ \E u \in Tasks : \/ Removes(tasks[u]) \/ Slips(tasks[u])
                              \/ Notices(tasks[u], scene.posed)
          \/ Undisturbed
      BY DEF DownloadInv, DownloadKept
    <2> QED
      BY <2>1, <2>2, <2>3, <2>4, <2>5
  <1> QED
    BY <1>11, <1>12 DEF DownloadInv

(* When the history says that downloads may be there without permission,   *)
(* only the tasks matter.                                                  *)
LEMMA UncheckedDownload ==
    ASSUME DownloadInv, TasksTyped, NEW t, tasks' = Overtaking(t, NoTask), unchecked'
    PROVE  DownloadInv'
  <1>1. /\ t \in Tasks => tasks'[t] = NoTask
        /\ \A u \in Tasks \ {t} :
              /\ Shaped(tasks'[u]) /\ ~ Generates(tasks'[u])
              /\ \A l : Informed(tasks'[u], l)
    BY OvertakingKeeps
  <1>2. \A u \in Tasks : Shaped(tasks'[u]) /\ Informed(tasks'[u], Effective') /\ ~ Generates(tasks'[u])
    BY <1>1, NoTaskShaped
  <1>3. DownloadKept'
    BY DEF DownloadKept
  <1> QED
    BY <1>2, <1>3 DEF DownloadInv

LEMMA ChangeSceneDownload ==
    ASSUME TypeInv, DownloadInv, NEW t \in Tasks, ChangeScene(t)
    PROVE  DownloadInv'
  <1>1. PICK task \in TaskType : task = tasks[t] /\ Shaped(task) /\ Informed(task, Effective)
    BY DEF TypeInv, TasksTyped, DownloadInv
  <1>2. PICK flags \in Flags : flags = IF task.flags = None THEN scene ELSE task.flags
    BY DEF TypeInv, SceneTyped, TaskType, AskedFlags
  <1> DEFINE before == DownloadState(scene.posed, task.old)
             after == DownloadState(flags.posed, task.new)
             cooking == Generation(task.overtaken)
             removing == [NoTask EXCEPT !.at = "copying", !.kind = "edit",
                                        !.overrides = Only("download", Absent)]
  <1>3. PICK new : new = IF after = before THEN NoTask ELSE IF after THEN cooking ELSE removing
    OBVIOUS
  <1>4. /\ task.at = "updating" /\ scene' = flags /\ tasks' = Overtaking(t, new)
        /\ unchecked' = (unchecked \/ task.overtaken)
        /\ UNCHANGED <<own, inherited, expected>>
    BY <1>1, <1>2, <1>3 DEF ChangeScene
  <1>5. /\ cooking.at = "cooking" /\ cooking.kind = "generate"
        /\ cooking.overtaken = task.overtaken
        /\ removing.at = "copying" /\ removing.kind = "edit"
        /\ removing.overrides = Only("download", Absent)
    BY DEF NoTask, Generation
  <1> HIDE DEF cooking, removing, before, after
  <1>6. Shaped(cooking) /\ Shaped(removing) /\ ~ Changing(cooking) /\ ~ Changing(removing)
        /\ ~ Generates(removing) /\ Removes(removing)
        /\ \A l : Informed(cooking, l) /\ Informed(removing, l)
    BY <1>5 DEF Shaped, Changing, Generates, Removes, Informed
  <1>7. Shaped(new) /\ ~ Changing(new) /\ \A l : Informed(new, l)
    BY <1>3, <1>6, NoTaskShaped
  <1>8. /\ tasks'[t] = new
        /\ \A u \in Tasks \ {t} :
              /\ Shaped(tasks'[u]) /\ ~ Changing(tasks'[u]) /\ ~ Generates(tasks'[u])
              /\ \A l : Informed(tasks'[u], l)
              /\ Removes(tasks[u]) => Removes(tasks'[u])
              /\ Slips(tasks[u]) \/ Changing(tasks[u]) => Slips(tasks'[u])
    BY <1>4, OvertakingKeeps DEF TypeInv
  <1>9. Effective' = Effective
    BY <1>4 DEF Effective
  <1>10. ASSUME after, ~ task.overtaken PROVE Undisturbed'
    <2>1. DownloadState(flags.posed, Effective)
      BY <1>1, <1>4, <1>10 DEF Informed, DownloadState, after
    <2>2. Permitted'
      BY <1>4, <1>9, <2>1 DEF Permitted
    <2>3. \A u \in Tasks : ~ Changing(tasks'[u])
      BY <1>7, <1>8
    <2> QED
      BY <2>2, <2>3 DEF Undisturbed
  <1>11. Generates(new) => Undisturbed'
    <2>1. Generates(new) => new = cooking /\ after
      BY <1>3, <1>6, NoTaskShaped
    <2>2. Generates(new) => ~ task.overtaken
      BY <1>5, <2>1 DEF Generates
    <2> QED
      BY <1>10, <2>1, <2>2
  <1>12. \A u \in Tasks : /\ Shaped(tasks'[u]) /\ Informed(tasks'[u], Effective')
                          /\ Generates(tasks'[u]) => Undisturbed'
    BY <1>7, <1>8, <1>11
  <1>13. DownloadKept'
    <2> SUFFICES ASSUME ~ unchecked, ~ task.overtaken, expected["download"] /= Absent
                 PROVE  \/ \E u \in Tasks : Removes(tasks'[u]) \/ Slips(tasks'[u])
                        \/ Undisturbed'
      BY <1>4 DEF DownloadKept
    <2>1. ASSUME NEW u \in Tasks \ {t},
                 \/ Removes(tasks[u]) \/ Slips(tasks[u]) \/ Notices(tasks[u], scene.posed)
          PROVE  Removes(tasks'[u]) \/ Slips(tasks'[u])
      BY <1>8, <2>1 DEF Notices
    <2>2. ~ Removes(tasks[t]) /\ ~ Slips(tasks[t]) /\ Changing(tasks[t])
      BY <1>1, <1>4 DEF Removes, Slips, Changing
    <2>3. ASSUME Notices(tasks[t], scene.posed) PROVE Undisturbed' \/ Removes(tasks'[t])
      <3>1. before
        BY <1>1, <2>3 DEF Notices, before
      <3>2. CASE after
        BY <1>10, <3>2
      <3>3. CASE ~ after
        <4>1. new = removing
          BY <1>3, <3>1, <3>3
        <4> QED
          BY <1>6, <1>8, <4>1
      <3> QED
        BY <3>2, <3>3
    <2>4. ~ Undisturbed
      BY <2>2 DEF Undisturbed
    <2>5. \E u \in Tasks : \/ Removes(tasks[u]) \/ Slips(tasks[u])
                           \/ Notices(tasks[u], scene.posed)
      BY <2>4 DEF DownloadInv, DownloadKept
    <2> QED
      BY <2>1, <2>2, <2>3, <2>5
  <1> QED
    BY <1>12, <1>13 DEF DownloadInv

LEMMA InheritLicenseDownload ==
    ASSUME TypeInv, DownloadInv, NEW l \in License, InheritLicense(l)
    PROVE  DownloadInv'
  <1>1. /\ tasks' = Overtaking(None, NoTask) /\ unchecked' = (unchecked \/ own = None)
        /\ inherited' = l /\ UNCHANGED <<scene, named, own, expected>>
    BY DEF InheritLicense
  <1>2. \A u \in Tasks :
              /\ Shaped(tasks'[u]) /\ ~ Changing(tasks'[u]) /\ ~ Generates(tasks'[u])
              /\ \A license : Informed(tasks'[u], license)
              /\ Removes(tasks[u]) => Removes(tasks'[u])
              /\ Slips(tasks[u]) \/ Changing(tasks[u]) => Slips(tasks'[u])
    BY <1>1, OvertakingKeeps, PublicationAssumption DEF TypeInv
  <1>3. DownloadKept'
    <2> SUFFICES ASSUME ~ unchecked, own /= None, expected["download"] /= Absent
                 PROVE  \/ \E u \in Tasks : Removes(tasks'[u]) \/ Slips(tasks'[u])
                        \/ Undisturbed'
      BY <1>1 DEF DownloadKept
    <2>1. Undisturbed => Undisturbed'
      BY <1>1, <1>2 DEF Undisturbed, Permitted, Effective
    <2>2. \A u \in Tasks : \/ Removes(tasks[u]) \/ Slips(tasks[u]) \/ Notices(tasks[u], scene.posed)
                => Removes(tasks'[u]) \/ Slips(tasks'[u])
      BY <1>2 DEF Notices
    <2>3. \/ \E u \in Tasks : \/ Removes(tasks[u]) \/ Slips(tasks[u])
                              \/ Notices(tasks[u], scene.posed)
          \/ Undisturbed
      BY DEF DownloadInv, DownloadKept
    <2> QED
      BY <2>1, <2>2, <2>3
  <1> QED
    BY <1>2, <1>3 DEF DownloadInv

(* The steps that only concern the task that takes them.                   *)
LEMMA AloneAlike ==
    ASSUME TasksTyped, NEW t \in Tasks, NEW new, tasks' = [tasks EXCEPT ![t] = new]
    PROVE  tasks'[t] = new /\ \A u \in Tasks \ {t} : Alike(tasks[u], tasks'[u])
  BY DEF TasksTyped, Alike, Same

LEMMA FailureDownload ==
    ASSUME TypeInv, DownloadInv, NEW t \in Tasks, 
           \/ ChangeLicenseFails(t) \/ ChangeSceneFails(t) \/ CookFails(t) \/ CreateVersionFails(t)
    PROVE  DownloadInv'
  <1>1. CASE ChangeLicenseFails(t)
    <2>1. tasks' = Overtaking(t, NoTask) /\ unchecked'
      BY <1>1 DEF ChangeLicenseFails
    <2> QED
      BY <2>1, UncheckedDownload DEF TypeInv
  <1>2. ASSUME tasks' = [tasks EXCEPT ![t] = NoTask], UNCHANGED <<scene, named, own, inherited>>,
               \/ unchecked'
               \/ tasks[t].at = "cooking" /\ UNCHANGED <<expected, unchecked>>
        PROVE  DownloadInv'
    <2>1. tasks'[t] = NoTask /\ \A u \in Tasks \ {t} : Alike(tasks[u], tasks'[u])
      BY <1>2, AloneAlike DEF TypeInv
    <2>2. Shaped(NoTask) /\ Informed(NoTask, Effective) /\ ~ Changing(NoTask) /\ ~ Generates(NoTask)
      BY NoTaskShaped
    <2>3. tasks[t].at = "cooking"
             => ~ Slips(tasks[t]) /\ ~ Changing(tasks[t]) /\ ~ Removes(tasks[t])
      BY DEF Slips, Changing, Removes
    <2>4. \/ unchecked'
          \/ /\ ~ unchecked /\ expected'["download"] = expected["download"]
             /\ ~ Slips(tasks[t]) /\ ~ Changing(tasks[t])
             /\ Removes(tasks[t]) => Removes(NoTask)
      BY <1>2, <2>3
    <2> QED
      BY <1>2, <2>1, <2>2, <2>4, OwnStep
  <1>3. CASE ChangeSceneFails(t) \/ CookFails(t) \/ CreateVersionFails(t)
    BY <1>2, <1>3 DEF ChangeSceneFails, CookFails, CreateVersionFails
  <1> QED
    BY <1>1, <1>3

(* A task goes on, or begins, and neither the downloads nor what the       *)
(* history says of them changes.                                           *)
LEMMA GoesOnDownload ==
    ASSUME TypeInv, DownloadInv, NEW t \in Tasks, NEW new, tasks' = [tasks EXCEPT ![t] = new],
           UNCHANGED <<scene, named, own, inherited, expected, unchecked>>,
           tasks[t].at \in {"idle", "cooking", "copying"},
           new.at \in {"copying", "writing"},
           Shaped(new), Generates(new) => Generates(tasks[t]), Removes(tasks[t]) => Removes(new)
    PROVE  DownloadInv'
  <1>1. tasks'[t] = new /\ \A u \in Tasks \ {t} : Alike(tasks[u], tasks'[u])
    BY AloneAlike DEF TypeInv
  <1>2. Informed(new, Effective) /\ ~ Changing(new)
    BY DEF Informed, Changing
  <1>3. ~ Slips(tasks[t]) /\ ~ Changing(tasks[t])
    BY DEF Slips, Changing
  <1>4. Generates(new) => Undisturbed
    BY DEF DownloadInv
  <1>5. \/ unchecked'
        \/ /\ ~ unchecked /\ expected'["download"] = expected["download"]
           /\ ~ Slips(tasks[t]) /\ ~ Changing(tasks[t])
           /\ Removes(tasks[t]) => Removes(new)
    BY <1>3
  <1> QED
    BY <1>1, <1>2, <1>4, <1>5, OwnStep

(* What OwnStep asks of a task that was idle or was an event.              *)
LEMMA EarlyTask ==
    ASSUME NEW task, task.at \in {"idle", "asking"}
    PROVE  ~ Slips(task) /\ ~ Changing(task) /\ ~ Removes(task)
  BY DEF Slips, Changing, Removes

LEMMA IngestDownload ==
    ASSUME TypeInv, DownloadInv, NEW t \in Tasks, NEW u \in Tasks, NEW whole \in BOOLEAN,
           Ingest(t, u, whole)
    PROVE  DownloadInv'
  <1>1. PICK overrides : overrides = Only("svx", made["svx"] + 1)
    OBVIOUS
  <1>2. DOMAIN overrides = {"svx"}
    BY <1>1 DEF Only
  <1> DEFINE new == [NoTask EXCEPT !.at = "copying", !.kind = "ingest",
                                   !.overrides = overrides, !.whole = whole]
  <1>3. new.at = "copying" /\ new.kind = "ingest" /\ new.overrides = overrides
    BY DEF NoTask
  <1>4. /\ tasks[t].at = "idle" /\ tasks[u].at = "idle"
        /\ tasks' = [tasks EXCEPT ![u] = Event, ![t] = new]
        /\ UNCHANGED <<scene, named, own, inherited, expected, unchecked>>
    BY <1>1 DEF Ingest
  <1> HIDE DEF new
  <1>5. Shaped(new) /\ ~ Generates(new) /\ Informed(new, Effective) /\ ~ Changing(new)
    BY <1>2, <1>3 DEF Shaped, Generates, Informed, Changing
  <1>6. tasks'[t] = new /\ \A x \in Tasks \ {t} : Alike(tasks[x], tasks'[x])
    BY <1>4 DEF TypeInv, TasksTyped, Alike, Same
  <1>7. ~ Slips(tasks[t]) /\ ~ Changing(tasks[t]) /\ ~ Removes(tasks[t])
    BY <1>4, EarlyTask
  <1>8. \/ unchecked'
        \/ /\ ~ unchecked /\ expected'["download"] = expected["download"]
           /\ ~ Slips(tasks[t]) /\ ~ Changing(tasks[t])
           /\ Removes(tasks[t]) => Removes(new)
    BY <1>4, <1>7
  <1> QED
    BY <1>4, <1>5, <1>6, <1>8, OwnStep

(* A generation that an event starts while no edit is under way, or that   *)
(* the ingestion of a model starts, marked as nobody's to vouch for.       *)
LEMMA AskDownload ==
    ASSUME TypeInv, DownloadInv, NEW t \in Tasks, Ask(t) \/ IngestModel(t)
    PROVE  DownloadInv'
  <1>1. PICK editing \in BOOLEAN : editing = \E u \in Tasks : Editing(u)
    OBVIOUS
  <1>2. /\ tasks[t].at \in {"idle", "asking"}
        /\ UNCHANGED <<scene, named, own, inherited, expected, unchecked>>
    BY DEF Ask, IngestModel
  <1>3. PICK overtaken \in BOOLEAN, new \in {NoTask, Generation(TRUE), Generation(FALSE)} :
            /\ new = NoTask \/ new = Generation(overtaken)
            /\ tasks' = [tasks EXCEPT ![t] = new]
            /\ ~ overtaken => ~ editing /\ DownloadState(scene.posed, Effective)
    <2>1. CASE Ask(t) /\ DownloadState(scene.posed, Effective)
      BY <1>1, <2>1 DEF Ask
    <2>2. CASE Ask(t) /\ ~ DownloadState(scene.posed, Effective)
      <3>1. tasks' = [tasks EXCEPT ![t] = NoTask] /\ TRUE \in BOOLEAN
        BY <2>2 DEF Ask
      <3> QED
        BY <3>1
    <2>3. CASE IngestModel(t)
      <3>1. tasks' = [tasks EXCEPT ![t] = Generation(TRUE)] /\ TRUE \in BOOLEAN
        BY <2>3 DEF IngestModel
      <3> QED
        BY <3>1
    <2> QED
      BY <2>1, <2>2, <2>3
  <1>4. /\ Generation(overtaken).at = "cooking" /\ Generation(overtaken).kind = "generate"
        /\ Generation(overtaken).overtaken = overtaken
    BY CookingType
  <1>5. /\ Shaped(Generation(overtaken)) /\ Informed(Generation(overtaken), Effective)
        /\ ~ Changing(Generation(overtaken))
        /\ Generates(Generation(overtaken)) => ~ overtaken
    BY <1>4 DEF Shaped, Informed, Changing, Generates
  <1>6. ASSUME ~ overtaken PROVE Undisturbed
    <2>1. ~ editing /\ DownloadState(scene.posed, Effective)
      BY <1>3, <1>6
    <2>2. \A u \in Tasks : ~ Changing(tasks[u])
      BY <1>1, <2>1 DEF DownloadInv, Shaped, Changing, Editing
    <2> QED
      BY <2>1, <2>2 DEF Undisturbed, Permitted
  <1>7. /\ Shaped(new) /\ Informed(new, Effective) /\ ~ Changing(new)
        /\ Generates(new) => Undisturbed
    BY <1>3, <1>5, <1>6, NoTaskShaped
  <1>8. tasks'[t] = new /\ \A u \in Tasks \ {t} : Alike(tasks[u], tasks'[u])
    BY <1>3, AloneAlike DEF TypeInv
  <1>9. ~ Slips(tasks[t]) /\ ~ Changing(tasks[t]) /\ ~ Removes(tasks[t])
    BY <1>2, EarlyTask
  <1>10. \/ unchecked'
         \/ /\ ~ unchecked /\ expected'["download"] = expected["download"]
            /\ ~ Slips(tasks[t]) /\ ~ Changing(tasks[t])
            /\ Removes(tasks[t]) => Removes(new)
    BY <1>2, <1>9
  <1> QED
    BY <1>2, <1>7, <1>8, <1>10, OwnStep

LEMMA CookEndsDownload ==
    ASSUME TypeInv, DownloadInv, NEW t \in Tasks, CookEnds(t)
    PROVE  DownloadInv'
  <1>1. PICK task \in TaskType : task = tasks[t] /\ Shaped(task)
    BY DEF TypeInv, TasksTyped, DownloadInv
  <1>2. PICK overrides : overrides = Only("download", made["download"] + 1)
    OBVIOUS
  <1> DEFINE new == [task EXCEPT !.at = "copying", !.overrides = overrides]
  <1>3. new.at = "copying" /\ new.kind = task.kind /\ new.overtaken = task.overtaken
    BY DEF TaskType
  <1>4. /\ task.at = "cooking" /\ tasks' = [tasks EXCEPT ![t] = new]
        /\ UNCHANGED <<scene, named, own, inherited, expected, unchecked>>
    BY <1>1, <1>2 DEF CookEnds
  <1> HIDE DEF new
  <1>5. task.kind = "generate"
    BY <1>1, <1>4 DEF Shaped
  <1>6. Shaped(new) /\ (Generates(new) => Generates(task)) /\ ~ Removes(task)
    BY <1>3, <1>4, <1>5 DEF Shaped, Generates, Removes
  <1> QED
    BY <1>1, <1>3, <1>4, <1>6, GoesOnDownload

LEMMA ReadMapDownload ==
    ASSUME TypeInv, DownloadInv, NEW t \in Tasks, ReadMap(t)
    PROVE  DownloadInv'
  <1>1. PICK task \in TaskType : task = tasks[t] /\ Shaped(task)
    BY DEF TypeInv, TasksTyped, DownloadInv
  <1>2. PICK base : base = IF task.whole THEN NoAssets ELSE LatestMap
    OBVIOUS
  <1> DEFINE new == [task EXCEPT !.at = "writing", !.base = base]
  <1>3. /\ new.at = "writing" /\ new.kind = task.kind /\ new.overtaken = task.overtaken
        /\ new.overrides = task.overrides /\ new.whole = task.whole /\ new.base = base
    BY DEF TaskType
  <1>4. /\ task.at = "copying" /\ tasks' = [tasks EXCEPT ![t] = new]
        /\ UNCHANGED <<scene, named, own, inherited, expected, unchecked>>
    BY <1>1, <1>2 DEF ReadMap
  <1> HIDE DEF new
  <1>5. Shaped(new)
    BY <1>1, <1>2, <1>3, <1>4 DEF Shaped
  <1>6. (Generates(new) => Generates(task)) /\ (Removes(task) => Removes(new))
    BY <1>3, <1>4 DEF Generates, Removes
  <1> QED
    BY <1>1, <1>3, <1>4, <1>5, <1>6, GoesOnDownload

LEMMA RollbackDownload ==
    ASSUME TypeInv, DownloadInv, NEW t \in Tasks, NEW v \in 1 .. Len(versions), Rollback(t, v)
    PROVE  DownloadInv'
  <1>1. PICK base : base = versions[v].assets
    OBVIOUS
  <1> DEFINE new == [NoTask EXCEPT !.at = "writing", !.kind = "rollback", !.base = base]
  <1>2. new.at = "writing" /\ new.kind = "rollback"
    BY DEF NoTask
  <1>3. /\ tasks[t].at = "idle" /\ tasks' = [tasks EXCEPT ![t] = new]
        /\ UNCHANGED <<scene, named, own, inherited, expected, unchecked>>
    BY <1>1 DEF Rollback
  <1> HIDE DEF new
  <1>4. Shaped(new) /\ ~ Generates(new)
    BY <1>2 DEF Shaped, Generates
  <1>5. ~ Removes(tasks[t])
    BY <1>3 DEF Removes
  <1> QED
    BY <1>2, <1>3, <1>4, <1>5, GoesOnDownload

(* The steps that write a version.                                         *)
LEMMA MissingAlike ==
    ASSUME TasksTyped, NEW t \in Tasks, NEW new, tasks' = [Missing(t) EXCEPT ![t] = new]
    PROVE  tasks'[t] = new /\ \A u \in Tasks \ {t} : Alike(tasks[u], tasks'[u])
  <1>1. ASSUME NEW u \in Tasks \ {t} PROVE Alike(tasks[u], tasks'[u])
    <2>1. PICK task \in TaskType : task = tasks[u]
      BY DEF TasksTyped
    <2>2. PICK more : more = Decides(tasks[t])
      OBVIOUS
    <2>3. tasks'[u] = IF task.at = "writing"
                      THEN [task EXCEPT !.missed = task.missed \cup more] ELSE task
      BY <2>1, <2>2 DEF Missing
    <2>4. Alike(task, [task EXCEPT !.missed = task.missed \cup more])
      BY DEF TaskType, Alike, Same
    <2>5. Alike(task, task)
      BY DEF Alike, Same
    <2> QED
      BY <2>1, <2>3, <2>4, <2>5
  <1>2. tasks'[t] = new
    BY DEF Missing
  <1> QED
    BY <1>1, <1>2

LEMMA WriteVersionDownload ==
    ASSUME TypeInv, DownloadInv, NEW t \in Tasks, WriteVersion(t)
    PROVE  DownloadInv'
  <1>1. PICK task \in TaskType : task = tasks[t] /\ Shaped(task)
    BY DEF TypeInv, TasksTyped, DownloadInv
  <1>2. tasks' = [Missing(t) EXCEPT ![t] = NoTask]
    BY <1>1 DEF WriteVersion
  <1>3. PICK assets : assets = Overridden(task.base, task.overrides)
    OBVIOUS
  <1>4. /\ task.at = "writing" /\ UNCHANGED <<scene, named, own, inherited>>
        /\ expected' = [a \in Assets |-> IF a \in Decides(task) THEN assets[a] ELSE expected[a]]
        /\ unchecked' = CASE task.kind = "edit" -> FALSE
                          [] task.kind = "ingest" /\ task.whole -> FALSE
                          [] task.kind = "rollback" -> TRUE
                          [] OTHER -> unchecked \/ task.overtaken
    BY <1>1, <1>3 DEF WriteVersion
  <1>5. tasks'[t] = NoTask /\ \A u \in Tasks \ {t} : Alike(tasks[u], tasks'[u])
    BY <1>2, MissingAlike DEF TypeInv
  <1>6. /\ Shaped(NoTask) /\ Informed(NoTask, Effective) /\ ~ Changing(NoTask)
        /\ ~ Generates(NoTask)
    BY NoTaskShaped
  <1>7. "download" \in Assets /\ "svx" /= "download"
    BY DEF Assets
  <1>8. \/ unchecked'
        \/ expected'["download"] = Absent
        \/ Undisturbed
        \/ /\ ~ unchecked /\ expected'["download"] = expected["download"]
           /\ ~ Slips(tasks[t]) /\ ~ Changing(tasks[t])
           /\ Removes(tasks[t]) => Removes(NoTask)
    <2>1. CASE task.kind = "edit"
      <3>1. task.overrides = Only("download", Absent)
        BY <1>1, <1>4, <2>1 DEF Shaped
      <3>2. DOMAIN task.overrides = {"download"} /\ task.overrides["download"] = Absent
        BY <3>1 DEF Only
      <3>3. assets["download"] = Absent /\ "download" \in Decides(task)
        BY <1>3, <1>7, <3>2 DEF Overridden, Decides
      <3> QED
        BY <1>4, <1>7, <3>3
    <2>2. CASE task.kind = "ingest"
      <3>1. DOMAIN task.overrides = {"svx"}
        BY <1>1, <1>4, <2>2 DEF Shaped
      <3>2. CASE task.whole
        <4>1. task.base = NoAssets
          BY <1>1, <1>4, <2>2, <3>2 DEF Shaped
        <4>2. assets["download"] = Absent /\ "download" \in Decides(task)
          BY <1>3, <1>7, <3>1, <3>2, <4>1 DEF Overridden, Decides, NoAssets
        <4> QED
          BY <1>4, <1>7, <4>2
      <3>3. CASE ~ task.whole
        <4>1. "download" \notin Decides(task)
          BY <1>7, <2>2, <3>1, <3>3 DEF Decides
        <4>2. expected'["download"] = expected["download"]
          BY <1>4, <1>7, <4>1
        <4>3. unchecked' = (unchecked \/ task.overtaken)
          BY <1>4, <2>2, <3>3
        <4>4. ~ Slips(tasks[t]) /\ ~ Changing(tasks[t]) /\ ~ Removes(tasks[t])
          BY <1>1, <1>4, <2>2 DEF Slips, Changing, Removes
        <4> QED
          BY <4>2, <4>3, <4>4
      <3> QED
        BY <3>2, <3>3
    <2>3. CASE task.kind = "rollback"
      BY <1>4, <2>3
    <2>4. CASE task.kind = "generate"
      <3>1. unchecked' = (unchecked \/ task.overtaken)
        BY <1>4, <2>4
      <3>2. ~ task.overtaken => Undisturbed
        BY <1>1, <1>4, <2>4 DEF DownloadInv, Generates
      <3> QED
        BY <3>1, <3>2
    <2> QED
      BY <1>1, <1>4, <2>1, <2>2, <2>3, <2>4 DEF Shaped
  <1> QED
    BY <1>4, <1>5, <1>6, <1>8, OwnStep

LEMMA WriteVersionFailsDownload ==
    ASSUME TypeInv, DownloadInv, NEW t \in Tasks, NEW a \in Assets, WriteVersionFails(t, a)
    PROVE  DownloadInv'
  <1>1. /\ tasks' = [Missing(t) EXCEPT ![t] = NoTask] /\ unchecked'
        /\ UNCHANGED <<scene, named, own, inherited>>
    BY DEF WriteVersionFails
  <1>2. tasks'[t] = NoTask /\ \A u \in Tasks \ {t} : Alike(tasks[u], tasks'[u])
    BY <1>1, MissingAlike DEF TypeInv
  <1> QED
    BY <1>1, <1>2, NoTaskShaped, OwnStep

LEMMA QuietDownload == ASSUME TypeInv, DownloadInv, Quiet PROVE DownloadInv'
  <1>1. ASSUME NEW t \in Tasks, QuietTask(t) PROVE DownloadInv'
    BY <1>1, StartEditDownload, ChangeLicenseDownload, ChangeSceneDownload, IngestDownload,
       AskDownload,
       CookEndsDownload, FailureDownload DEF QuietTask
  <1> QED
    BY <1>1, InheritLicenseDownload DEF Quiet

LEMMA LeavesDownload ==
    ASSUME DownloadInv, UNCHANGED <<scene, own, inherited, tasks, expected, unchecked>>
    PROVE  DownloadInv'
  <1>1. Effective' = Effective /\ Permitted' = Permitted
    BY DEF Effective, Permitted
  <1>2. Undisturbed' = Undisturbed
    BY <1>1 DEF Undisturbed
  <1>3. DownloadKept' = DownloadKept
    BY <1>2 DEF DownloadKept
  <1> QED
    BY <1>1, <1>2, <1>3 DEF DownloadInv

(* The row is written back as the publication had read it.                 *)
LEMMA NameSceneDownload ==
    ASSUME TypeInv, DownloadInv, NEW p \in Publications, NameScene(p)
    PROVE  DownloadInv'
  <1>1. CASE publications[p].flags = scene
    <2>1. UNCHANGED <<scene, own, inherited, tasks, expected>>
      BY <1>1 DEF NameScene
    <2>2. unchecked' = unchecked
      BY <1>1 DEF NameScene, TypeInv, HistoryTyped
    <2> QED
      BY <2>1, <2>2, LeavesDownload
  <1>2. CASE publications[p].flags /= scene
    <2>1. tasks' = Overtaking(None, NoTask) /\ unchecked'
      BY <1>2 DEF NameScene
    <2> QED
      BY <2>1, UncheckedDownload DEF TypeInv
  <1> QED
    BY <1>1, <1>2

LEMMA NextDownload == TypeInv /\ DownloadInv /\ [Next]_vars => DownloadInv'
  <1> SUFFICES ASSUME TypeInv, DownloadInv, [Next]_vars PROVE DownloadInv'
    OBVIOUS
  <1>1. CASE Quiet
    BY <1>1, QuietDownload
  <1>2. ASSUME NEW t \in Tasks, ReadMap(t) \/ \E v \in 1 .. Len(versions) : Rollback(t, v)
        PROVE  DownloadInv'
    BY <1>2, ReadMapDownload, RollbackDownload
  <1>3. ASSUME NEW t \in Tasks, WriteVersion(t) \/ \E a \in Assets : WriteVersionFails(t, a)
        PROVE  DownloadInv'
    BY <1>3, WriteVersionDownload, WriteVersionFailsDownload
  <1>4. ASSUME NEW p \in Publications, NameScene(p) \/ PublicationStep(p) PROVE DownloadInv'
    BY <1>4, NameSceneDownload, PublicationLeaves, LeavesDownload
  <1>5. CASE UNCHANGED vars
    BY <1>5, LeavesDownload DEF vars
  <1> QED
    BY <1>1, <1>2, <1>3, <1>4, <1>5, NextSorted

(* Once the edits are through, a scene has downloads only while it is      *)
(* posed and its license allows them (handleSceneUpdates), but for what    *)
(* the history names as escaping it.                                       *)
THEOREM DownloadsAllowedAlways == Spec => []DownloadsAllowed
  <1>1. Init => TypeInv /\ CopiesInv /\ DownloadInv
    BY InitType, InitCopies, InitDownload
  <1>2. (TypeInv /\ CopiesInv /\ DownloadInv) /\ [Next]_vars
            => (TypeInv /\ CopiesInv /\ DownloadInv)'
    BY NextType, NextCopies, NextDownload
  <1>3. CopiesInv /\ DownloadInv => DownloadsAllowed
    <2> SUFFICES ASSUME CopiesInv, DownloadInv, ~ unchecked, "download" \notin lost,
                        \A t \in Tasks : ~ Editing(t), Latest.assets["download"] /= Absent
                 PROVE  scene.posed /\ LicenseAllowsDownloadGeneration(Effective)
      BY DEF DownloadsAllowed
    <2>1. expected["download"] /= Absent
      BY DEF CopiesInv, NothingLost, Assets
    <2>2. ASSUME NEW t \in Tasks
          PROVE  ~ Removes(tasks[t]) /\ ~ Slips(tasks[t]) /\ ~ Notices(tasks[t], scene.posed)
      BY DEF DownloadInv, Shaped, Removes, Slips, Notices, Changing, Editing
    <2>3. Undisturbed
      BY <2>1, <2>2 DEF DownloadInv, DownloadKept
    <2> QED
      BY <2>3 DEF Undisturbed, Permitted, DownloadState
  <1> QED
    BY <1>1, <1>2, <1>3, PTL DEF Spec

=============================================================================
