---------------------------- MODULE ObjectGraph ----------------------------
(***************************************************************************)
(* How Packrat walks the hierarchy of its system objects (ObjectGraph,      *)
(* db/api/composite), collects it (ObjectGraphDatabase) and spreads what     *)
(* is known of each object over it (ObjectGraphDataEntry).                   *)
(*                                                                         *)
(* SystemObjectXref rows may link any two objects, so that the graph may     *)
(* have cycles, several paths to an object, and links between kinds of       *)
(* objects that do not belong together.  The walk is recursive and keeps     *)
(* what it gathers in members of one object; the recursion is modelled by    *)
(* its stack.                                                                *)
(***************************************************************************)
EXTENDS Naturals, Sequences, SequencesExt, FiniteSets

CONSTANTS
    Objects,        \* system objects
    Kind,           \* the eObjectType of each
    Facts,          \* what applyGraphData passes up: type, purpose, file type, ...
    Owned,          \* links by foreign keys, <<parent, child>>: an asset's owner, ...
    Thumbnails,     \* links found on the way down only: idAssetThumbnail
    Xrefs,          \* the links a SystemObjectXref row may make
    FetchOrder,     \* the order in which ObjectGraphDatabase.fetch takes objects
    FullDepth,      \* 32: how deep all walks but one, and applyGraphData, may go
    MaxPushCount,   \* 250000: the calls of fetchWorker that one ObjectGraph may make
    None            \* no related object

Tasks == {"ancestors", "descendents", "children", "all", "index", "full"}
Modes == {"eAncestors", "eDescendents"}

ASSUME ConstantsAssumption ==
    /\ IsFiniteSet(Objects)
    /\ None \notin Objects
    /\ Kind \in [Objects -> {"unit", "project", "subject", "item", "captureData", "model", "scene",
                             "intermediaryFile", "projectDocumentation", "asset", "assetVersion",
                             "actor", "stakeholder"}]
    /\ Owned \cup Thumbnails \cup Xrefs \subseteq Objects \X Objects
    /\ FetchOrder \in Seq(Objects) \ {<<>>}
    /\ FullDepth \in Nat \ {0}
    /\ MaxPushCount \in Nat \ {0}

VARIABLES
    xref,           \* the SystemObjectXref rows
    task,           \* what the caller asks for
    walks,          \* the calls of fetchWorker at the top that are still to be made
    root,           \* idSystemObject of the ObjectGraph
    mode,           \* eMode of the current walk
    stack,          \* the calls of fetchWorker that are under way
    list,           \* systemObjectList
    processed,      \* systemObjectProcessed
    added,          \* systemObjectAdded
    valid,          \* validHierarchy
    acyclic,        \* noCycles
    pushCount,      \* calls of fetchWorker since the ObjectGraph was made
    entries,        \* the keys of objectMap, in the order of their insertion
    recorded,       \* the links in the childMaps and parentMaps
    applied,        \* the number of entries applyGraphData is done with
    work,           \* the calls of applyGraphStateRecursive that are still to be made
    ancestors,      \* ancestorObjectMap of each entry
    below           \* childrenObjectTypes, childrenModelPurposes, ... of each entry

walkVars == <<walks, root, mode, stack, list, processed, added, valid, acyclic, pushCount, entries, recorded>>
applyVars == <<applied, work, ancestors, below>>
vars == <<xref, task, walkVars, applyVars>>

-----------------------------------------------------------------------------
(* Links *)

\* The children a walk looks for: xrefs, foreign keys, thumbnails.
Down == xref \cup Owned \cup Thumbnails

\* On the way up, an asset leads to its owner only.
Up == xref \cup Owned

Ends(o, m, links) ==
    IF m = "eDescendents" THEN {c \in Objects : <<o, c>> \in links}
                          ELSE {p \in Objects : <<p, o>> \in links}

Related(o, m) == Ends(o, m, IF m = "eDescendents" THEN Down ELSE Up)

\* What fetchWorker gathers: an asset that an object owns and has as its
\* thumbnail comes twice, and so does any object linked in two ways.
Gathered(o, m) ==
    SetToSeq(Ends(o, m, IF m = "eDescendents" THEN Thumbnails ELSE {}))
        \o SetToSeq(Ends(o, m, xref)) \o SetToSeq(Ends(o, m, Owned))

\* The links a walk can meet, one by one.
LinkCount == Cardinality(xref) + Cardinality(Owned) + Cardinality(Thumbnails)

\* The children an object of a kind may be reached from, going up.
AllowedChildren == [
    unit                 |-> {"subject", "actor", "stakeholder"},
    project              |-> {"item", "projectDocumentation", "stakeholder"},
    subject              |-> {"asset", "item"},
    item                 |-> {"asset", "captureData", "model", "scene", "intermediaryFile"},
    captureData          |-> {"asset", "model", "actor", "captureData"},
    model                |-> {"asset", "scene", "model", "actor"},
    scene                |-> {"asset", "model", "actor"},
    intermediaryFile     |-> {"asset", "actor"},
    projectDocumentation |-> {"asset"},
    asset                |-> {"assetVersion"},
    assetVersion |-> {}, actor |-> {}, stakeholder |-> {}]

\* The parents an object of a kind may be reached from, going down.
AllowedParents == [
    unit |-> {}, project |-> {},
    subject              |-> {"unit"},
    item                 |-> {"project", "subject"},
    captureData          |-> {"item", "captureData"},
    model                |-> {"item", "captureData", "model", "scene"},
    scene                |-> {"item", "model"},
    intermediaryFile     |-> {"item"},
    projectDocumentation |-> {"project"},
    asset                |-> DOMAIN AllowedChildren,
    assetVersion         |-> {"asset"},
    actor                |-> {"captureData", "model", "scene", "intermediaryFile", "unit"},
    stakeholder          |-> {"unit", "project"}]

\* The check at the head of each push method.
Legal(o, related, m) ==
    \/ related = None
    \/ /\ m = "eAncestors"
       /\ Kind[related] \in AllowedChildren[Kind[o]]
    \/ /\ m = "eDescendents"
       /\ Kind[related] \in AllowedParents[Kind[o]]

\* The link between an object and the one it was reached from.
Link(o, related, m) == IF m = "eAncestors" THEN <<o, related>> ELSE <<related, o>>

-----------------------------------------------------------------------------
(* Callers *)

\* An ObjectGraphDatabase is filled by indexObject and by a full index.
WithDatabase == task \in {"index", "full"}

Depth == IF task = "children" THEN 1 ELSE FullDepth

Walk(o, m) == [object |-> o, mode |-> m]

\* ObjectGraph.fetch goes up, then down; the full index goes down from every object.
WalksFor(t, o) ==
    CASE t = "ancestors"               -> <<Walk(o, "eAncestors")>>
      [] t \in {"descendents", "children"} -> <<Walk(o, "eDescendents")>>
      [] t \in {"all", "index"}        -> <<Walk(o, "eAncestors"), Walk(o, "eDescendents")>>
      [] t = "full"                    -> [i \in DOMAIN FetchOrder |-> Walk(FetchOrder[i], "eDescendents")]

Init ==
    /\ xref \in SUBSET Xrefs
    /\ task \in Tasks
    /\ root \in IF task = "full" THEN {Head(FetchOrder)} ELSE Objects
    /\ walks = WalksFor(task, root)
    /\ mode = "eAncestors" /\ stack = <<>> /\ list = <<>>
    /\ processed = {} /\ added = {} /\ valid = TRUE /\ acyclic = TRUE /\ pushCount = 0
    /\ entries = <<>> /\ recorded = {}
    /\ applied = 0 /\ work = <<>>
    /\ ancestors = [o \in Objects |-> {}]
    /\ below = [o \in Objects |-> {}]

-----------------------------------------------------------------------------
(* fetchWorker *)

Frame(source, todo, depth) == [source |-> source, todo |-> todo, depth |-> depth]

\* A mutant: the second walk keeps what the first one processed.
StartWalkUncleared ==
    /\ stack = <<>> /\ walks /= <<>>
    /\ stack' = <<Frame(None, <<Head(walks).object>>, Depth + 1)>>
    /\ root' = Head(walks).object
    /\ mode' = Head(walks).mode
    /\ walks' = Tail(walks)
    /\ UNCHANGED <<xref, task, list, processed, added, valid, acyclic, pushCount, entries, recorded, applyVars>>

\* A walk begins.  Each object of a full index has an ObjectGraph of its own;
\* the second walk of eAll continues with the first one's, less what it processed.
StartWalk ==
    /\ stack = <<>> /\ walks /= <<>>
    /\ stack' = <<Frame(None, <<Head(walks).object>>, Depth + 1)>>
    /\ root' = Head(walks).object
    /\ mode' = Head(walks).mode
    /\ walks' = Tail(walks)
    /\ processed' = {}
    /\ IF task = "full"
       THEN added' = {} /\ list' = <<>> /\ valid' = TRUE /\ acyclic' = TRUE /\ pushCount' = 0
       ELSE UNCHANGED <<added, list, valid, acyclic, pushCount>>
    /\ UNCHANGED <<xref, task, entries, recorded, applyVars>>

\* The object the innermost call of fetchWorker is about, and how it was reached.
Calling == stack /= <<>> /\ Last(stack).todo /= <<>>
Allowed == pushCount < MaxPushCount
Object == Head(Last(stack).todo)
RelatedType == Last(stack).source
Rest == [stack EXCEPT ![Len(stack)].todo = Tail(@)]

EntrySet == ToSet(entries)

\* A mutant: a map entry for each link.
AddEntryAgain(os, o) == Append(os, o)

AddEntry(os, o) == IF o \in ToSet(os) THEN os ELSE Append(os, o)

\* recordRelationship puts both ends into objectMap, the parent first.
RecordRelationship(o) ==
    IF WithDatabase /\ RelatedType /= None
    THEN LET l == Link(o, RelatedType, mode) IN
         /\ recorded' = recorded \cup {l}
         /\ entries' = AddEntry(AddEntry(entries, l[1]), l[2])
    ELSE UNCHANGED <<entries, recorded>>

\* Only a link back to the object the walk began with counts as a cycle.
IsCycle == RelatedType /= None /\ Object = root

DetectCycle ==
    /\ Calling /\ IsCycle
    /\ acyclic' = FALSE /\ valid' = FALSE
    /\ stack' = Rest
    /\ UNCHANGED <<xref, task, walks, root, mode, list, processed, added, pushCount, entries, recorded, applyVars>>

\* A call too many does nothing, and reports success.
GiveUp ==
    /\ Calling /\ ~IsCycle /\ ~Allowed
    /\ pushCount' = pushCount + 1
    /\ stack' = Rest
    /\ UNCHANGED <<xref, task, walks, root, mode, list, processed, added, valid, acyclic, entries, recorded, applyVars>>

\* The short-circuit for objects that are in the database already.
AlreadyProcessed ==
    /\ WithDatabase
    /\ Object \in EntrySet
    /\ RelatedType \in EntrySet \cup {None}

\* A mutant: a short-circuit that records nothing.
ShortCircuitOnly ==
    /\ Calling /\ ~IsCycle /\ Allowed /\ AlreadyProcessed
    /\ pushCount' = pushCount + 1
    /\ stack' = Rest
    /\ UNCHANGED <<xref, task, walks, root, mode, list, processed, added, valid, acyclic, entries, recorded, applyVars>>

ShortCircuit ==
    /\ Calling /\ ~IsCycle /\ Allowed /\ AlreadyProcessed
    /\ pushCount' = pushCount + 1
    /\ RecordRelationship(Object)
    /\ stack' = Rest
    /\ UNCHANGED <<xref, task, walks, root, mode, list, processed, added, valid, acyclic, applyVars>>

\* A mutant: the first link to an object is checked, but no other.
PushAgainUnchecked ==
    /\ Calling /\ ~IsCycle /\ Allowed /\ ~AlreadyProcessed
    /\ Object \in processed
    /\ pushCount' = pushCount + 1
    /\ stack' = Rest
    /\ UNCHANGED <<xref, task, walks, root, mode, list, processed, added, valid, acyclic, entries, recorded, applyVars>>

\* A push method checks the link in any case, but goes on for new objects only.
PushAgain ==
    /\ Calling /\ ~IsCycle /\ Allowed /\ ~AlreadyProcessed
    /\ Object \in processed
    /\ pushCount' = pushCount + 1
    /\ valid' = (valid /\ Legal(Object, RelatedType, mode))
    /\ stack' = Rest
    /\ UNCHANGED <<xref, task, walks, root, mode, list, processed, added, acyclic, entries, recorded, applyVars>>

\* A mutant: an object met again is walked again.
PushEach ==
    /\ Calling /\ ~IsCycle /\ Allowed /\ ~AlreadyProcessed
    /\ pushCount' = pushCount + 1
    /\ valid' = (valid /\ Legal(Object, RelatedType, mode))
    /\ added' = added \cup {Object}
    /\ RecordRelationship(Object)
    /\ LET gathered == list \o Gathered(Object, mode)
           depth == Last(stack).depth - 1
       IN IF depth > 0
          THEN list' = <<>> /\ stack' = Append(Rest, Frame(Object, gathered, depth))
          ELSE list' = gathered /\ stack' = Rest
    /\ UNCHANGED <<xref, task, walks, root, mode, processed, acyclic, applyVars>>

\* systemObjectList is one list for all calls: what is gathered where the walk
\* may not go deeper stays there, for the next call that may.
Push ==
    /\ Calling /\ ~IsCycle /\ Allowed /\ ~AlreadyProcessed
    /\ Object \notin processed
    /\ pushCount' = pushCount + 1
    /\ valid' = (valid /\ Legal(Object, RelatedType, mode))
    /\ processed' = processed \cup {Object}
    /\ added' = added \cup {Object}
    /\ RecordRelationship(Object)
    /\ LET gathered == list \o Gathered(Object, mode)
           depth == Last(stack).depth - 1
       IN IF depth > 0
          THEN list' = <<>> /\ stack' = Append(Rest, Frame(Object, gathered, depth))
          ELSE list' = gathered /\ stack' = Rest
    /\ UNCHANGED <<xref, task, walks, root, mode, acyclic, applyVars>>

\* A call returns; when ObjectGraph.fetch is over, its object is in the database
\* even if it has no links.
Return ==
    /\ stack /= <<>> /\ ~Calling
    /\ stack' = Front(stack)
    /\ IF WithDatabase /\ Len(stack) = 1 /\ (task = "full" \/ walks = <<>>)
       THEN entries' = AddEntry(entries, root)
       ELSE UNCHANGED entries
    /\ UNCHANGED <<xref, task, walks, root, mode, list, processed, added, valid, acyclic, pushCount, recorded, applyVars>>

FetchWorker == DetectCycle \/ GiveUp \/ ShortCircuit \/ PushAgain \/ Push

-----------------------------------------------------------------------------
(* applyGraphData *)

WalksDone == walks = <<>> /\ stack = <<>>

Children(o) == SetToSeq({c \in Objects : <<o, c>> \in recorded})
Parents(o) == SetToSeq({p \in Objects : <<p, o>> \in recorded})

\* The calls of applyGraphStateRecursive for the relations os; none at depth 0.
Spread(dir, os, depth) ==
    IF depth = 0 THEN <<>>
    ELSE [i \in DOMAIN os |-> [dir |-> dir, object |-> os[i], depth |-> depth - 1]]

\* applyGraphState with eSelf; its result is not looked at.
ApplySelf ==
    /\ WithDatabase /\ WalksDone /\ work = <<>> /\ applied < Len(entries)
    /\ LET e == entries[applied + 1] IN
       /\ ancestors' = [ancestors EXCEPT ![e] = @ \cup {e}]
       /\ below' = [below EXCEPT ![e] = @ \cup Facts[e]]
       /\ work' = Spread("eChild", Children(e), FullDepth) \o Spread("eParent", Parents(e), FullDepth)
                      \o <<[dir |-> "done", object |-> e, depth |-> 0]>>
    /\ UNCHANGED <<xref, task, applied, walkVars>>

\* The state of entry e reaches a descendant, which passes it on if it is news.
ApplyToChild ==
    /\ work /= <<>> /\ Head(work).dir = "eChild"
    /\ LET e == entries[applied + 1]
           o == Head(work).object
           changed == e \notin ancestors[o]
       IN /\ ancestors' = [ancestors EXCEPT ![o] = @ \cup {e}]
          /\ work' = (IF changed THEN Spread("eChild", Children(o), Head(work).depth) ELSE <<>>) \o Tail(work)
    /\ UNCHANGED <<xref, task, applied, below, walkVars>>

\* A mutant: an ancestor that learns only a part of the state does not pass it on.
ApplyToParentUnlessKnown ==
    /\ work /= <<>> /\ Head(work).dir = "eParent"
    /\ LET e == entries[applied + 1]
           o == Head(work).object
           changed == Facts[e] \cap below[o] = {}
       IN /\ below' = [below EXCEPT ![o] = @ \cup Facts[e]]
          /\ work' = (IF changed THEN Spread("eParent", Parents(o), Head(work).depth) ELSE <<>>) \o Tail(work)
    /\ UNCHANGED <<xref, task, applied, ancestors, walkVars>>

\* The state of entry e reaches an ancestor.  What an ancestor knows already may
\* come from another entry.
ApplyToParent ==
    /\ work /= <<>> /\ Head(work).dir = "eParent"
    /\ LET e == entries[applied + 1]
           o == Head(work).object
           changed == ~(Facts[e] \subseteq below[o])
       IN /\ below' = [below EXCEPT ![o] = @ \cup Facts[e]]
          /\ work' = (IF changed THEN Spread("eParent", Parents(o), Head(work).depth) ELSE <<>>) \o Tail(work)
    /\ UNCHANGED <<xref, task, applied, ancestors, walkVars>>

EndApply ==
    /\ work /= <<>> /\ Head(work).dir = "done"
    /\ work' = <<>>
    /\ applied' = applied + 1
    /\ UNCHANGED <<xref, task, ancestors, below, walkVars>>

ApplyGraphData == ApplySelf \/ ApplyToChild \/ ApplyToParent \/ EndApply

Next == StartWalk \/ FetchWorker \/ Return \/ ApplyGraphData

Spec == Init /\ [][Next]_vars

-----------------------------------------------------------------------------
(* Properties *)

\* Every variable has its type.
TypeOK ==
    /\ xref \subseteq Xrefs
    /\ task \in Tasks
    /\ walks \in Seq([object : Objects, mode : Modes])
    /\ root \in Objects
    /\ mode \in Modes
    /\ stack \in Seq([source : Objects \cup {None}, todo : Seq(Objects), depth : 1..(FullDepth + 1)])
    /\ list \in Seq(Objects)
    /\ processed \subseteq Objects /\ added \subseteq Objects
    /\ valid \in BOOLEAN /\ acyclic \in BOOLEAN /\ pushCount \in Nat
    /\ entries \in Seq(Objects) /\ IsInjective(entries)
    /\ recorded \subseteq Objects \X Objects
    /\ applied \in 0..Len(entries)
    /\ work \in Seq([dir : {"eChild", "eParent", "done"}, object : Objects, depth : 0..FullDepth])
    /\ ancestors \in [Objects -> SUBSET Objects]
    /\ below \in [Objects -> SUBSET UNION {Facts[o] : o \in Objects}]

\* What follows is meant for links that form no path of more than FullDepth
\* objects: beyond it a walk goes no deeper and data are not passed on.
Done == WalksDone /\ (WithDatabase => applied = Len(entries))

Successors(os, links) == {l[2] : l \in {k \in links : k[1] \in os}}

\* The objects at the end of a path of links that starts at o.
Reach(o, links) ==
    LET step[n \in 0 .. Cardinality(Objects)] ==
            IF n = 0 THEN Successors({o}, links)
                     ELSE step[n - 1] \cup Successors(step[n - 1], links)
    IN step[Cardinality(Objects)]

Inverted(links) == {<<l[2], l[1]>> : l \in links}

Ancestors(o) == Reach(o, Inverted(Up))
Descendents(o) == Reach(o, Down)

\* What a walk finds is what is there, unless it gives up: the object and all its
\* ancestors, all its descendants, or only its children, whatever cycles and
\* shortcuts the links form.  Repositories are browsed, names computed and metadata stored by this
\* (NavigationDB.getChildren, nameHelpers, AssetStorageAdapter).
WalkFindsAll ==
    Done /\ ~WithDatabase /\ pushCount <= MaxPushCount =>
        added = {root} \cup
            CASE task = "ancestors"   -> Ancestors(root)
              [] task = "descendents" -> Descendents(root)
              [] task = "children"    -> Related(root, "eDescendents")
              [] task = "all"         -> Ancestors(root) \cup Descendents(root)

\* Any object can have an asset, but only assets of these are expected going up.
AssetOwners == {k \in DOMAIN AllowedChildren : "asset" \in AllowedChildren[k]}

\* A walk reports a cycle exactly when the object it began with is on one (not
\* when it meets another), and a hierarchy as valid exactly when it reports none
\* and each link among what it visited joins a child to a parent of a kind that
\* may have it.  A walk up and a walk down judge a link alike, but for the assets
\* of units, projects and the like, which a walk up takes for invalid.
HierarchyJudged ==
    Done /\ task \in {"ancestors", "descendents"} /\ pushCount <= MaxPushCount =>
        LET links == IF task = "ancestors"
                     THEN {l \in Up : l[2] \in added}
                     ELSE {l \in Down : l[1] \in added}
        IN /\ acyclic = (root \notin Reach(root, links))
           /\ valid = (/\ acyclic
                       /\ \A l \in links :
                              /\ Kind[l[1]] \in AllowedParents[Kind[l[2]]]
                              /\ task = "ancestors" /\ Kind[l[2]] = "asset" => Kind[l[1]] \in AssetOwners)

\* A full index knows every object it fetches or finds below one it fetches (not a
\* unit without subjects), and every link below an object it knows that is on no
\* cycle: short-circuits skip only what has been recorded.  (The link that closes a
\* cycle at the object a walk began with is not recorded, then or later.)
FullGraphComplete ==
    Done /\ task = "full" /\ 1 + LinkCount <= MaxPushCount =>
        /\ EntrySet = UNION {{o} \cup Descendents(o) : o \in ToSet(FetchOrder)}
        /\ recorded \subseteq Down
        /\ \A l \in Down \ recorded : l[1] \in EntrySet => l[1] \in Reach(l[2], Down)

\* When the data of all entries have been applied, each entry has exactly its
\* recorded ancestors, and knows the facts of all its recorded descendants and
\* itself, although an entry that learns nothing new does not pass on what it
\* was told.
GraphDataApplied ==
    Done /\ WithDatabase => \A o \in EntrySet :
        /\ ancestors[o] = {o} \cup Reach(o, Inverted(recorded))
        /\ below[o] = UNION {Facts[d] : d \in {o} \cup Reach(o, recorded)}

\* A walk makes at most one call of fetchWorker for each link there is, counting
\* those that join the same two objects each, so that neither cycles nor diamonds
\* bring it near maxPushCount, where it gives up and still reports success.
WalkIsLinear ==
    pushCount <= Cardinality({w \in Modes : task \in {"all", "index"} \/ w = mode}) * (1 + LinkCount)

\* "Compute full object graph for object" (IndexSolr.ts:65): the entry from which
\* an object is indexed has all its parents and all its children.
IndexEntryComplete ==
    Done /\ task = "index" =>
        /\ {l \in Up : l[2] = root} \subseteq recorded
        /\ {l \in Down : l[1] = root} \subseteq recorded

=============================================================================
