------------------------------ MODULE Licenses ------------------------------
(***************************************************************************)
(* Which license applies to an object (LicenseManager, LicenseResolver and *)
(* LicenseCache).  An object has its own license, or inherits the one of   *)
(* its ancestors.  The answers are cached per object; setting or clearing  *)
(* a license changes the rows one by one and then deletes the answers of   *)
(* the object's descendants, while lookups that missed the cache read the  *)
(* same rows in steps of their own and store what they found.              *)
(*                                                                         *)
(* A license is its RestrictLevel, a positive number; NoLicense is the 0   *)
(* pickMostRestrictiveLicense starts from.                                 *)
(***************************************************************************)
EXTENDS Naturals, FiniteSets, FiniteSetsExt

CONSTANTS
    Objects,
    Links,          \* the hierarchy, as pairs <<parent, child>>
    Levels,         \* the RestrictLevels of the licenses
    MaxDepth,       \* how far fetchParentsLicense climbs (32 in the code)
    Assignable,     \* the objects whose license may be set or cleared
    LookedUp,       \* the objects whose license is asked for
    Requests,       \* requests that set or clear a license, one call each
    Lookups,        \* the slots of concurrent lookups
    MaxFailures,    \* how many database writes may fail
    None

ASSUME LicensesAssumption ==
    /\ Links \subseteq Objects \X Objects
    /\ Levels \subseteq Nat \ {0}
    /\ Assignable \subseteq Objects /\ LookedUp \subseteq Objects
    /\ MaxFailures \in Nat
    /\ IsFiniteSet(Objects) /\ MaxDepth \in Nat

VARIABLES
    active,         \* the LicenseAssignment rows that are active
    cache,          \* licenseResolverMap: object -> resolver, or None
    requests,       \* the calls of setAssignment and clearAssignment
    lookups,        \* the calls of getLicenseResolver that missed the cache
    failures,
    crossed,        \* history: objects two requests worked on at a time
    excused         \* history: objects whose cached answer may be out of date

vars == <<active, cache, requests, lookups, failures, crossed, excused>>

NoLicense == 0
Initially == "initially"    \* stands for the request that made a first row

Row == [object : Objects, level : Levels, by : Requests \cup {Initially}]
Resolver == [level : Levels, inherited : BOOLEAN]

ASSUME NoneAssumption == None \notin Resolver

Steps == {"new", "ending", "creating", "recording", "done"}

-----------------------------------------------------------------------------
\* The hierarchy.

Parents(o) == {p \in Objects : <<p, o>> \in Links}
Children(o) == {c \in Objects : <<o, c>> \in Links}

Closed(S) == \A link \in Links : link[1] \in S => link[2] \in S
Descendants ==
    [o \in Objects |-> {d \in Objects : \A S \in SUBSET Objects :
                            Closed(S) /\ Children(o) \subseteq S => d \in S}]

(* No way up has more objects than the walk for the ancestors and
   fetchParentsLicense go through, and none leads back to where it began.
   fetchParentsLicense notes in LRMap what it found for an object; where it
   turns back at depth 0, it would note and use again what it found half-way. *)
ASSUME ShortClimbs ==
    \E height \in [Objects -> 0 .. MaxDepth - 1] :
        \A link \in Links : height[link[1]] < height[link[2]]

(* The keys of objectMap after the descendents of o were walked: a link
   enters both its ends, so that an object without children enters none,
   not even itself. *)
ObjectMap(o) == IF Children(o) = {} THEN {} ELSE {o} \cup Descendants[o]

-----------------------------------------------------------------------------
\* LicenseResolver.

Strictest(levels) == Max(levels \cup {NoLicense})
SpecificLicense(rows, o) == Strictest({r.level : r \in {x \in rows : x.object = o}})

ParentsLicenseOfAll(rows) ==
    LET At[depth \in 0 .. MaxDepth] ==
            [o \in Objects |->
                Strictest({Strictest({SpecificLicense(rows, p),
                                      IF depth = 0 THEN NoLicense ELSE At[depth - 1][p]})
                           : p \in Parents(o)})]
    IN  At[MaxDepth]

(* fetchParentsLicense, when above[p] is what its call for p returns.      *)
FromParents(rows, above) ==
    [o \in Objects |->
        Strictest({IF SpecificLicense(rows, p) # NoLicense
                   THEN SpecificLicense(rows, p) ELSE above[p] : p \in Parents(o)})]

ParentsLicense(rows) ==
    LET At[depth \in 0 .. MaxDepth] ==
            FromParents(rows, IF depth = 0 THEN [o \in Objects |-> NoLicense]
                                           ELSE At[depth - 1])
    IN  At[MaxDepth]

FoundUnchecked(level, inherited) == [level |-> level, inherited |-> inherited]
Found(level, inherited) ==
    IF level = NoLicense THEN None ELSE [level |-> level, inherited |-> inherited]

(* LicenseResolver.fetch, all at once. *)
Resolve(rows, o) ==
    LET own == Found(SpecificLicense(rows, o), FALSE)
    IN  IF own # None THEN own ELSE Found(ParentsLicense(rows)[o], TRUE)

-----------------------------------------------------------------------------
NoRequest == [at |-> "new", clear |-> FALSE, object |-> None, level |-> None,
              ending |-> {}, ok |-> TRUE]
NoLookup == [at |-> "idle", object |-> None, found |-> None, overtaken |-> FALSE]

Init ==
    /\ active \in {rows \in SUBSET [object : Assignable, level : Levels, by : {Initially}] :
                      \A r1, r2 \in rows : r1.object = r2.object => r1 = r2}
    /\ cache = [o \in Objects |-> None]
    /\ requests = [r \in Requests |-> NoRequest]
    /\ lookups = [l \in Lookups |-> NoLookup]
    /\ failures = 0
    /\ crossed = {}
    /\ excused = {}

UnderWay(r) == requests[r].at \notin {"new", "done"}
Fail == failures < MaxFailures /\ failures' = failures + 1

-----------------------------------------------------------------------------
\* LicenseManager.

(* clearAssignment reads the rows of the object: setAssignment begins with
   the same call. *)
Start(r, o, clear, level) ==
    /\ requests[r].at = "new"
    /\ requests' = [requests EXCEPT ![r] =
           [at |-> "ending", clear |-> clear, object |-> o, level |-> level,
            ending |-> {x \in active : x.object = o}, ok |-> TRUE]]
    /\ crossed' = IF \E q \in Requests \ {r} : UnderWay(q) /\ requests[q].object = o
                  THEN crossed \cup {o} ELSE crossed
    /\ UNCHANGED <<active, cache, lookups, failures, excused>>

(* One row gets its DateEnd, or its update fails and the others go on. *)
EndAssignment(r, row) ==
    /\ requests[r].at = "ending" /\ row \in requests[r].ending
    /\ \/ /\ active' = active \ {row}
          /\ requests' = [requests EXCEPT ![r] = [@ EXCEPT !.ending = requests[r].ending \ {row}]]
          /\ UNCHANGED failures
       \/ /\ Fail
          /\ requests' = [requests EXCEPT ![r] =
                           [@ EXCEPT !.ending = requests[r].ending \ {row}, !.ok = FALSE]]
          /\ UNCHANGED active
    /\ UNCHANGED <<cache, lookups, crossed, excused>>

FlushedChildren(o) == IF Children(o) = {} THEN {} ELSE {o} \cup Children(o)
Flushed(o) == ObjectMap(o)

(* The lookups in flight for the objects a request has just settled will
   store what they read before. *)
Overtake(o) ==
    lookups' = [l \in Lookups |->
        IF lookups[l].at # "idle" /\ lookups[l].object \in {o} \cup Descendants[o]
        THEN [lookups[l] EXCEPT !.overtaken = TRUE] ELSE lookups[l]]

GoesOnAnyway(q) == ~ q.clear
GoesOn(q) == ~ q.clear /\ q.ok

(* LicenseCache.clearAssignment: the answers of the object map are deleted.
   What an object without children had cached stays. *)
ClearCached(r) ==
    LET q == requests[r] IN
    /\ q.at = "ending" /\ q.ending = {}
    /\ cache' = [o \in Objects |-> IF o \in Flushed(q.object) THEN None ELSE cache[o]]
    /\ excused' = (excused \ ObjectMap(q.object))
                  \cup (IF ObjectMap(q.object) = {} /\ cache[q.object] # None
                         THEN {q.object} ELSE {})
    /\ Overtake(q.object)
    /\ requests' = [requests EXCEPT ![r] = [@ EXCEPT !.at = IF GoesOn(q) THEN "creating" ELSE "done"]]
    /\ UNCHANGED <<active, failures, crossed>>

(* The graph of the descendants cannot be read: the call gives up, with the
   rows ended and the cache as it was. *)
ClearCachedFails(r) ==
    LET q == requests[r] IN
    /\ q.at = "ending" /\ q.ending = {}
    /\ Fail
    /\ requests' = [requests EXCEPT ![r] = [@ EXCEPT !.at = "done", !.ok = FALSE]]
    /\ excused' = excused \cup {q.object} \cup Descendants[q.object]
    /\ Overtake(q.object)
    /\ UNCHANGED <<active, cache, crossed>>

(* The new row is created; if that fails the cache is told of it all the
   same. *)
CreateAssignment(r) ==
    LET q == requests[r] IN
    /\ q.at = "creating"
    /\ \/ /\ active' = active \cup {[object |-> q.object, level |-> q.level, by |-> r]}
          /\ requests' = [requests EXCEPT ![r] = [@ EXCEPT !.at = "recording"]]
          /\ UNCHANGED failures
       \/ /\ Fail
          /\ requests' = [requests EXCEPT ![r] = [@ EXCEPT !.at = "recording", !.ok = FALSE]]
          /\ UNCHANGED active
    /\ UNCHANGED <<cache, lookups, crossed, excused>>

(* LicenseCache.setAssignment: clearAssignment again, then the new answer. *)
RecordCached(r) ==
    LET q == requests[r] IN
    /\ q.at = "recording"
    /\ cache' = [o \in Objects |->
                    CASE o = q.object         -> [level |-> q.level, inherited |-> FALSE]
                      [] o \in Flushed(q.object) /\ o # q.object -> None
                      [] OTHER                -> cache[o]]
    /\ excused' = (excused \ ({q.object} \cup ObjectMap(q.object)))
                  \cup (IF q.ok THEN {} ELSE {q.object})
    /\ Overtake(q.object)
    /\ requests' = [requests EXCEPT ![r] = [@ EXCEPT !.at = "done"]]
    /\ UNCHANGED <<active, failures, crossed>>

-----------------------------------------------------------------------------
\* LicenseCache.getLicenseResolver.

(* A hit is answered at once and changes nothing.  A miss reads the rows of
   the object itself ... *)
Miss(l, o) ==
    /\ lookups[l].at = "idle" /\ cache[o] = None
    /\ LET own == Found(SpecificLicense(active, o), FALSE)
       IN  lookups' = [lookups EXCEPT ![l] =
               [at |-> IF own = None THEN "climbing" ELSE "found",
                object |-> o, found |-> own, overtaken |-> FALSE]]
    /\ UNCHANGED <<active, cache, requests, failures, crossed, excused>>

(* ... then, when it has none, those of its ancestors ... *)
Climb(l) ==
    /\ lookups[l].at = "climbing"
    /\ lookups' = [lookups EXCEPT ![l].at = "found",
                       ![l].found = Found(ParentsLicense(active)[lookups[l].object], TRUE)]
    /\ UNCHANGED <<active, cache, requests, failures, crossed, excused>>

(* ... and stores what it found: an object without a license is not cached. *)
StoreFound(l) ==
    LET k == lookups[l] IN
    /\ k.at = "found"
    /\ lookups' = [lookups EXCEPT ![l] = NoLookup]
    /\ IF k.found = None
       THEN UNCHANGED <<cache, excused>>
       ELSE /\ cache' = [cache EXCEPT ![k.object] = k.found]
            /\ excused' = IF k.overtaken THEN excused \cup {k.object}
                                         ELSE excused \ {k.object}
    /\ UNCHANGED <<active, requests, failures, crossed>>

-----------------------------------------------------------------------------
Next ==
    \/ \E r \in Requests, o \in Assignable :
          \/ \E level \in Levels : Start(r, o, FALSE, level)
          \/ Start(r, o, TRUE, None)
    \/ \E r \in Requests :
          \/ \E row \in requests[r].ending : EndAssignment(r, row)
          \/ ClearCached(r)
          \/ ClearCachedFails(r)
          \/ CreateAssignment(r)
          \/ RecordCached(r)
    \/ \E l \in Lookups :
          \/ \E o \in LookedUp : Miss(l, o)
          \/ Climb(l)
          \/ StoreFound(l)

Spec == Init /\ [][Next]_vars

-----------------------------------------------------------------------------
\* Properties.

(* Type invariant. *)
TypeOK ==
    /\ active \subseteq Row
    /\ cache \in [Objects -> Resolver \cup {None}]
    /\ requests \in [Requests -> [at : Steps, clear : BOOLEAN, object : Objects \cup {None},
                                  level : Levels \cup {None}, ending : SUBSET Row, ok : BOOLEAN]]
    /\ lookups \in [Lookups -> [at : {"idle", "climbing", "found"}, object : Objects \cup {None},
                                found : Resolver \cup {None}, overtaken : BOOLEAN]]
    /\ failures \in 0 .. MaxFailures
    /\ crossed \subseteq Objects /\ excused \subseteq Objects

(* The ancestors an object can inherit from: those reached from it upwards
   through objects that have no license of their own. *)
Nearest(rows, o) ==
    LET Unlicensed(x) == x = o \/ SpecificLicense(rows, x) = NoLicense
        ClosedUpwards(S) == \A link \in Links :
                                link[2] \in S /\ Unlicensed(link[2]) => link[1] \in S
        Ancestors == {a \in Objects : o \in Descendants[a]}
    IN  {a \in Ancestors : \A S \in SUBSET Ancestors :
                               ClosedUpwards(S) /\ Parents(o) \subseteq S => a \in S}

(* LicenseResolver's recursion over the parents computes what it is for: the
   object's own license, or else the strictest among the nearest licensed
   ancestors, one for each way up; a license further up the same way does not
   count, however strict it is. *)
InheritsNearest ==
    \A o \in Objects :
        LET own == SpecificLicense(active, o)
        IN  Resolve(active, o) =
                IF own # NoLicense THEN Found(own, FALSE)
                ELSE Found(Strictest({SpecificLicense(active, a) : a \in Nearest(active, o)}), TRUE)

(* The object has at most one active license once the requests are done, a
   failed update or creation among them, unless two requests worked on the
   object at a time: setAssignment ends what it found before it creates its
   row, and gives up when it could not end one. *)
OneAssignment ==
    \A o \in Objects \ crossed : Cardinality({x \in active : x.object = o}) <= 1

(* A cached answer is the one the rows give, when no request is at work on the
   object or an ancestor: what was cached under the former license is gone
   from every descendant, on both sides of a diamond.  The answers that may be
   out of date are named by the history: one stored by a lookup that a request
   overtook, one of an object without children whose license was cleared, one
   of a row whose creation failed, and those of a flush that failed. *)
CacheCurrent ==
    \A o \in Objects \ (excused \cup crossed) :
        (\A r \in Requests : UnderWay(r) => o \notin {requests[r].object} \cup Descendants[requests[r].object])
            => cache[o] \in {None, Resolve(active, o)}

=============================================================================
