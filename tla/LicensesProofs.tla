---------------------------- MODULE LicensesProofs ----------------------------
(***************************************************************************)
(* OneAssignmentAlways: for any number of requests and lookups and any     *)
(* failed calls, an object that no two requests worked on at a time has at *)
(* most one active license.                                                *)
(*                                                                         *)
(* The argument: the only request at work on such an object has read all   *)
(* of its rows.  As long as each update succeeded, the rows that are still *)
(* active are among those it has yet to end (EndingKept), so that none is  *)
(* left when it goes on to create its own (CreatingKept).                  *)
(*                                                                         *)
(* CacheCurrentAlways: a cached answer is the current one, or excused.  An *)
(* answer depends on the rows of the object and its ancestors alone, and a *)
(* request at its end deletes the answers of all below.  Until then they   *)
(* are those of an object it works on (CacheKept); what a lookup in flight *)
(* has found is current, or the lookup was overtaken (LookupKept).         *)
(*                                                                         *)
(* InheritsNearestAlways: fetchParentsLicense finds what is nearest.  Both *)
(* are characterized by what is reached in d steps, by induction on d; and *)
(* the height of an object (ShortClimbs) bounds the steps there are to go. *)
(***************************************************************************)
EXTENDS Licenses, FiniteSetTheorems, WellFoundedInduction, TLAPS

(* Rows and requests, as far as the argument needs their types.            *)
AnyRow == [object : Objects, level : Levels \cup {None}, by : Requests \cup {Initially}]
Request == [at : Steps, clear : BOOLEAN, object : Objects \cup {None},
            level : Levels \cup {None}, ending : SUBSET AnyRow, ok : BOOLEAN]

RowsOf(o) == {x \in active : x.object = o}

(* What the step needs of the types.                                       *)
RequestsTyped ==
    /\ active \subseteq AnyRow
    /\ requests \in [Requests -> Request]
    /\ \A r \in Requests : UnderWay(r) => requests[r].object \in Objects

AtMostOne(o) == \A x, y \in RowsOf(o) : x = y

(* Nobody else is at work on the object of a request.                      *)
AloneKept(r) ==
    \A q \in Requests : UnderWay(q) /\ requests[q].object = requests[r].object => q = r

(* What a request that ends rows has left to do.                           *)
EndingKept(r) ==
    requests[r].at = "ending" /\ requests[r].ok
        => RowsOf(requests[r].object) \subseteq requests[r].ending

(* A request that creates a row has ended all others.                      *)
CreatingKept(r) ==
    requests[r].at = "creating" => RowsOf(requests[r].object) = {}

RequestKept(r) ==
    UnderWay(r) /\ requests[r].object \notin crossed
        => AloneKept(r) /\ EndingKept(r) /\ CreatingKept(r)

AssignmentInv ==
    /\ RequestsTyped
    /\ \A o \in Objects \ crossed : AtMostOne(o)
    /\ \A r \in Requests : RequestKept(r)

-----------------------------------------------------------------------------
LEMMA InitAssignment == Init => AssignmentInv
  <1> SUFFICES ASSUME Init PROVE AssignmentInv
    OBVIOUS
  <1> USE LicensesAssumption
  <1>1. /\ active \in SUBSET [object : Assignable, level : Levels, by : {Initially}]
        /\ \A r1, r2 \in active : r1.object = r2.object => r1 = r2
    BY DEF Init
  <1>2. active \subseteq AnyRow
    BY <1>1 DEF AnyRow
  <1>3. requests \in [Requests -> Request]
    BY DEF Init, NoRequest, Request, Steps
  <1>4. \A r \in Requests : ~ UnderWay(r)
    BY DEF Init, NoRequest, UnderWay
  <1>5. \A o \in Objects : AtMostOne(o)
    BY <1>1 DEF AtMostOne, RowsOf
  <1> QED
    BY <1>2, <1>3, <1>4, <1>5 DEF AssignmentInv, RequestsTyped, RequestKept

(* A step that changes neither rows nor requests changes nothing here: the  *)
(* lookups are no part of the argument.                                     *)
LEMMA UnchangedAssignment ==
    ASSUME AssignmentInv, UNCHANGED <<active, requests, crossed>>
    PROVE  AssignmentInv'
  BY DEF AssignmentInv, RequestsTyped, AtMostOne, RequestKept, AloneKept, EndingKept,
         CreatingKept, RowsOf, UnderWay

LEMMA StartAssignment ==
    ASSUME AssignmentInv, NEW r \in Requests, NEW o \in Assignable, NEW clear \in BOOLEAN,
           NEW level \in Levels \cup {None}, Start(r, o, clear, level)
    PROVE  AssignmentInv'
  <1> USE LicensesAssumption
  <1> DEFINE new == [at |-> "ending", clear |-> clear, object |-> o, level |-> level,
                     ending |-> RowsOf(o), ok |-> TRUE]
  <1>1. /\ requests[r].at = "new" /\ requests' = [requests EXCEPT ![r] = new]
        /\ active' = active /\ crossed \subseteq crossed'
        /\ (\E q \in Requests \ {r} : UnderWay(q) /\ requests[q].object = o) => o \in crossed'
    BY DEF Start, RowsOf
  <1>2. /\ active \subseteq AnyRow /\ requests \in [Requests -> Request]
        /\ \A q \in Requests : UnderWay(q) => requests[q].object \in Objects
    BY DEF AssignmentInv, RequestsTyped
  <1>3. new \in Request /\ o \in Objects
    BY <1>2 DEF Request, Steps, RowsOf
  <1>4. /\ requests' \in [Requests -> Request]
        /\ requests'[r] = new
        /\ \A q \in Requests \ {r} : requests'[q] = requests[q]
    BY <1>1, <1>2, <1>3
  <1> HIDE DEF new
  <1>5. new.at = "ending" /\ new.object = o /\ new.ending = RowsOf(o)
    BY DEF new
  <1>6. RequestsTyped'
    BY <1>1, <1>2, <1>3, <1>4, <1>5 DEF RequestsTyped, UnderWay
  <1>7. \A p \in Objects : RowsOf(p)' = RowsOf(p)
    BY <1>1 DEF RowsOf
  <1>8. \A p \in Objects \ crossed' : AtMostOne(p)'
    BY <1>1, <1>7 DEF AssignmentInv, AtMostOne
  <1>9. ASSUME NEW q \in Requests, UnderWay(q)', (requests[q].object \notin crossed)'
        PROVE  (AloneKept(q) /\ EndingKept(q) /\ CreatingKept(q))'
    <2>1. CASE q = r
      <3>1. \A s \in Requests \ {r} : ~ (UnderWay(s) /\ requests[s].object = o)
        BY <1>1, <1>4, <1>5, <1>9, <2>1
      <3>2. AloneKept(q)'
        BY <2>1, <3>1, <1>4, <1>5 DEF AloneKept, UnderWay
      <3> QED
        BY <2>1, <3>2, <1>3, <1>4, <1>5, <1>7 DEF EndingKept, CreatingKept
    <2>2. CASE q # r
      <3>1. UnderWay(q) /\ requests[q].object \notin crossed' /\ requests[q].object \in Objects
        BY <1>9, <2>2, <1>2, <1>4 DEF UnderWay
      <3>2. requests[q].object # o
        BY <3>1, <2>2, <1>1
      <3>3. AloneKept(q) /\ EndingKept(q) /\ CreatingKept(q)
        BY <3>1, <1>1 DEF AssignmentInv, RequestKept
      <3>4. AloneKept(q)'
        BY <3>2, <3>3, <2>2, <1>4, <1>5 DEF AloneKept, UnderWay
      <3> QED
        BY <3>1, <3>3, <3>4, <2>2, <1>4, <1>7 DEF EndingKept, CreatingKept
    <2> QED
      BY <2>1, <2>2
  <1> QED
    BY <1>6, <1>8, <1>9 DEF AssignmentInv, RequestKept

(* A request takes a step of its own: it stays at work on its object, or is *)
(* done, and adds no row to another one.                                    *)
LEMMA OwnStepAssignment ==
    ASSUME AssignmentInv, NEW r \in Requests, UnderWay(r),
           NEW o \in Objects, o = requests[r].object,
           NEW new \in Request, new.object = o, new.at # "new",
           requests' = [requests EXCEPT ![r] = new],
           crossed' = crossed, active' \subseteq AnyRow,
           \A p \in Objects \ {o} : RowsOf(p)' \subseteq RowsOf(p),
           o \notin crossed => (AtMostOne(o) /\ EndingKept(r) /\ CreatingKept(r))'
    PROVE  AssignmentInv'
  <1>1. /\ requests \in [Requests -> Request]
        /\ \A q \in Requests : UnderWay(q) => requests[q].object \in Objects
    BY DEF AssignmentInv, RequestsTyped
  <1>2. /\ requests' \in [Requests -> Request]
        /\ requests'[r] = new
        /\ \A q \in Requests \ {r} : requests'[q] = requests[q]
    BY <1>1
  <1>3. RequestsTyped'
    BY <1>1, <1>2 DEF RequestsTyped, UnderWay
  <1>4. \A p \in Objects \ crossed' : AtMostOne(p)'
    <2> SUFFICES ASSUME NEW p \in Objects \ crossed PROVE AtMostOne(p)'
      OBVIOUS
    <2>1. CASE p = o
      BY <2>1
    <2>2. CASE p # o
      BY <2>2 DEF AssignmentInv, AtMostOne
    <2> QED
      BY <2>1, <2>2
  <1>5. ASSUME NEW q \in Requests, UnderWay(q)', (requests[q].object \notin crossed)'
        PROVE  (AloneKept(q) /\ EndingKept(q) /\ CreatingKept(q))'
    <2>1. UnderWay(q) /\ requests'[q].object = requests[q].object /\ requests[q].object \notin crossed
      BY <1>2, <1>5 DEF UnderWay
    <2>2. AloneKept(q) /\ EndingKept(q) /\ CreatingKept(q)
      BY <2>1 DEF AssignmentInv, RequestKept
    <2>3. AloneKept(q)'
      BY <2>1, <2>2, <1>2 DEF AloneKept, UnderWay
    <2>4. CASE q = r
      BY <2>1, <2>3, <2>4
    <2>5. CASE q # r
      <3>1. requests[q].object # o /\ requests[q].object \in Objects
        BY <2>1, <2>2, <2>5, <1>1 DEF AloneKept
      <3>2. /\ requests'[q] = requests[q]
            /\ {x \in active' : x.object = requests[q].object} \subseteq RowsOf(requests[q].object)
        BY <3>1, <2>5, <1>2 DEF RowsOf
      <3> QED
        BY <2>2, <2>3, <3>2 DEF EndingKept, CreatingKept, RowsOf
    <2> QED
      BY <2>4, <2>5
  <1> QED
    BY <1>3, <1>4, <1>5 DEF AssignmentInv, RequestKept

-----------------------------------------------------------------------------
(* The steps of a request that is at work.                                  *)
LEMMA AtWork ==
    ASSUME AssignmentInv, NEW r \in Requests, UnderWay(r)
    PROVE  /\ requests \in [Requests -> Request] /\ active \subseteq AnyRow
           /\ requests[r] \in Request /\ requests[r].object \in Objects
           /\ requests[r].object \notin crossed =>
                  /\ AtMostOne(requests[r].object)
                  /\ EndingKept(r) /\ CreatingKept(r)
  BY DEF AssignmentInv, RequestsTyped, RequestKept

(* Changing what a request has left to end, where it is, and whether all    *)
(* went well leaves it a request for the same object.                       *)
LEMMA Left ==
    ASSUME NEW q \in Request, NEW row
    PROVE  LET left == [q EXCEPT !.ending = q.ending \ {row}]
           IN  /\ left \in Request /\ left.object = q.object /\ left.at = q.at
               /\ left.ending = q.ending \ {row} /\ left.ok = q.ok
  BY DEF Request

LEMMA LeftFailing ==
    ASSUME NEW q \in Request, NEW row
    PROVE  LET left == [q EXCEPT !.ending = q.ending \ {row}, !.ok = FALSE]
           IN  /\ left \in Request /\ left.object = q.object /\ left.at = q.at
               /\ left.ok = FALSE
  BY DEF Request

LEMMA Moved ==
    ASSUME NEW q \in Request, NEW at \in Steps
    PROVE  LET moved == [q EXCEPT !.at = at]
           IN  moved \in Request /\ moved.object = q.object /\ moved.at = at
  BY DEF Request

LEMMA MovedFailing ==
    ASSUME NEW q \in Request, NEW at \in Steps
    PROVE  LET moved == [q EXCEPT !.at = at, !.ok = FALSE]
           IN  moved \in Request /\ moved.object = q.object /\ moved.at = at
  BY DEF Request

LEMMA AllSteps == {"ending", "creating", "recording", "done"} \subseteq Steps
  BY DEF Steps

LEMMA EndAssignmentStep ==
    ASSUME AssignmentInv, NEW r \in Requests, NEW row \in requests[r].ending,
           EndAssignment(r, row)
    PROVE  AssignmentInv'
  <1>1. requests[r].at = "ending" /\ UnderWay(r) /\ crossed' = crossed
    BY DEF EndAssignment, UnderWay
  <1>2. PICK q \in Request, o \in Objects :
            /\ q = requests[r] /\ o = q.object
            /\ requests \in [Requests -> Request] /\ active \subseteq AnyRow
            /\ o \notin crossed => AtMostOne(o) /\ EndingKept(r)
    BY <1>1, AtWork
  <1>3. PICK new \in Request :
            /\ requests' = [requests EXCEPT ![r] = new]
            /\ new.at = "ending" /\ new.object = o
            /\ active' \subseteq active
            /\ new.ok => active' = active \ {row} /\ q.ok /\ new.ending = q.ending \ {row}
    <2>1. CASE active' = active \ {row}
               /\ requests' = [requests EXCEPT ![r] = [@ EXCEPT !.ending = requests[r].ending \ {row}]]
      <3> DEFINE left == [requests[r] EXCEPT !.ending = requests[r].ending \ {row}]
      <3>1. /\ left \in Request /\ left.object = o /\ left.at = "ending"
            /\ left.ending = q.ending \ {row} /\ left.ok = q.ok
        BY <1>1, <1>2, Left
      <3>2. requests' = [requests EXCEPT ![r] = left]
        BY <2>1, Zenon
      <3> HIDE DEF left
      <3> QED
        BY <3>1, <3>2, <2>1
    <2>2. CASE active' = active
               /\ requests' = [requests EXCEPT ![r] =
                                   [@ EXCEPT !.ending = requests[r].ending \ {row}, !.ok = FALSE]]
      <3> DEFINE failed == [requests[r] EXCEPT !.ending = requests[r].ending \ {row}, !.ok = FALSE]
      <3>1. failed \in Request /\ failed.object = o /\ failed.at = "ending" /\ failed.ok = FALSE
        BY <1>1, <1>2, LeftFailing
      <3>2. requests' = [requests EXCEPT ![r] = failed]
        BY <2>2, Zenon
      <3> HIDE DEF failed
      <3> QED
        BY <3>1, <3>2, <2>2
    <2> QED
      BY <2>1, <2>2 DEF EndAssignment
  <1>4. requests'[r] = new
    BY <1>2, <1>3
  <1>5. \A p \in Objects : RowsOf(p)' \subseteq RowsOf(p)
    BY <1>3 DEF RowsOf
  <1>6. ASSUME o \notin crossed
        PROVE  (AtMostOne(o) /\ EndingKept(r) /\ CreatingKept(r))'
    <2>1. AtMostOne(o)'
      BY <1>2, <1>5, <1>6 DEF AtMostOne
    <2>2. ASSUME new.ok PROVE RowsOf(o)' \subseteq new.ending
      <3>1. RowsOf(o) \subseteq q.ending
        BY <1>1, <1>2, <1>3, <1>6, <2>2 DEF EndingKept
      <3> QED
        BY <3>1, <1>3, <2>2 DEF RowsOf
    <2>3. EndingKept(r)'
      BY <2>2, <1>3, <1>4 DEF EndingKept
    <2>4. CreatingKept(r)'
      BY <1>3, <1>4 DEF CreatingKept
    <2> QED
      BY <2>1, <2>3, <2>4
  <1> QED
    BY <1>1, <1>2, <1>3, <1>5, <1>6, OwnStepAssignment

LEMMA ClearCachedStep ==
    ASSUME AssignmentInv, NEW r \in Requests, ClearCached(r) \/ ClearCachedFails(r)
    PROVE  AssignmentInv'
  <1>1. /\ requests[r].at = "ending" /\ requests[r].ending = {} /\ UnderWay(r)
        /\ crossed' = crossed /\ active' = active
    BY DEF ClearCached, ClearCachedFails, UnderWay
  <1>2. PICK q \in Request, o \in Objects :
            /\ q = requests[r] /\ o = q.object
            /\ requests \in [Requests -> Request] /\ active \subseteq AnyRow
            /\ o \notin crossed => AtMostOne(o) /\ EndingKept(r)
    BY <1>1, AtWork
  <1>3. PICK new \in Request :
            /\ requests' = [requests EXCEPT ![r] = new]
            /\ new.object = o /\ new.at \in {"creating", "done"}
            /\ new.at = "creating" => q.ok
    <2>1. CASE ClearCached(r)
      <3> DEFINE at == IF GoesOn(requests[r]) THEN "creating" ELSE "done"
                 moved == [requests[r] EXCEPT !.at = at]
      <3>1. at \in Steps /\ at \in {"creating", "done"} /\ (at = "creating" => q.ok)
        BY <1>2 DEF Steps, GoesOn
      <3>2. requests' = [requests EXCEPT ![r] = moved]
        BY <2>1, <1>2 DEF ClearCached
      <3> HIDE DEF at
      <3>3. moved \in Request /\ moved.object = o /\ moved.at = at
        BY <3>1, <1>2, Moved
      <3> HIDE DEF moved
      <3> QED
        BY <3>1, <3>2, <3>3
    <2>2. CASE ClearCachedFails(r)
      <3> DEFINE stopped == [requests[r] EXCEPT !.at = "done", !.ok = FALSE]
      <3>1. requests' = [requests EXCEPT ![r] = stopped]
        BY <2>2, <1>2 DEF ClearCachedFails
      <3>2. stopped \in Request /\ stopped.object = o /\ stopped.at = "done"
        BY <1>2, AllSteps, MovedFailing
      <3> HIDE DEF stopped
      <3> QED
        BY <3>1, <3>2
    <2> QED
      BY <2>1, <2>2
  <1>4. requests'[r] = new
    BY <1>2, <1>3
  <1>5. \A p \in Objects : RowsOf(p)' = RowsOf(p)
    BY <1>1 DEF RowsOf
  <1>6. ASSUME o \notin crossed
        PROVE  (AtMostOne(o) /\ EndingKept(r) /\ CreatingKept(r))'
    <2>1. AtMostOne(o)'
      BY <1>2, <1>5, <1>6 DEF AtMostOne
    <2>2. q.ok => RowsOf(o) = {}
      BY <1>1, <1>2, <1>6 DEF EndingKept
    <2>3. CreatingKept(r)'
      BY <2>2, <1>3, <1>4, <1>5 DEF CreatingKept
    <2>4. EndingKept(r)'
      BY <1>3, <1>4 DEF EndingKept
    <2> QED
      BY <2>1, <2>3, <2>4
  <1> QED
    BY <1>1, <1>2, <1>3, <1>5, <1>6, OwnStepAssignment

LEMMA CreateAssignmentStep ==
    ASSUME AssignmentInv, NEW r \in Requests, CreateAssignment(r)
    PROVE  AssignmentInv'
  <1>1. requests[r].at = "creating" /\ UnderWay(r) /\ crossed' = crossed
    BY DEF CreateAssignment, UnderWay
  <1>2. PICK q \in Request, o \in Objects :
            /\ q = requests[r] /\ o = q.object
            /\ requests \in [Requests -> Request] /\ active \subseteq AnyRow
            /\ o \notin crossed => CreatingKept(r)
    BY <1>1, AtWork
  <1>3. PICK row : row = [object |-> o, level |-> q.level, by |-> r]
    OBVIOUS
  <1>4. row.object = o /\ row \in AnyRow
    BY <1>2, <1>3 DEF AnyRow, Request
  <1>5. PICK new \in Request :
            /\ requests' = [requests EXCEPT ![r] = new]
            /\ new.object = o /\ new.at = "recording"
            /\ active' = active \cup {row} \/ active' = active
    <2>1. CASE active' = active \cup {row}
               /\ requests' = [requests EXCEPT ![r] = [@ EXCEPT !.at = "recording"]]
      <3> DEFINE moved == [requests[r] EXCEPT !.at = "recording"]
      <3>1. moved \in Request /\ moved.object = o /\ moved.at = "recording"
        BY <1>2, AllSteps, Moved
      <3>2. requests' = [requests EXCEPT ![r] = moved]
        BY <2>1, Zenon
      <3> HIDE DEF moved
      <3> QED
        BY <3>1, <3>2, <2>1
    <2>2. CASE active' = active
               /\ requests' = [requests EXCEPT ![r] = [@ EXCEPT !.at = "recording", !.ok = FALSE]]
      <3> DEFINE stopped == [requests[r] EXCEPT !.at = "recording", !.ok = FALSE]
      <3>1. stopped \in Request /\ stopped.object = o /\ stopped.at = "recording"
        BY <1>2, AllSteps, MovedFailing
      <3>2. requests' = [requests EXCEPT ![r] = stopped]
        BY <2>2, Zenon
      <3> HIDE DEF stopped
      <3> QED
        BY <3>1, <3>2, <2>2
    <2> QED
      BY <2>1, <2>2, <1>2, <1>3 DEF CreateAssignment
  <1>6. requests'[r] = new
    BY <1>2, <1>5
  <1>7. \A p \in Objects \ {o} : RowsOf(p)' \subseteq RowsOf(p)
    BY <1>4, <1>5 DEF RowsOf
  <1>8. o \notin crossed => AtMostOne(o)'
    <2>1. o \notin crossed => RowsOf(o) = {}
      BY <1>1, <1>2 DEF CreatingKept
    <2> QED
      BY <2>1, <1>4, <1>5 DEF AtMostOne, RowsOf
  <1>9. EndingKept(r)' /\ CreatingKept(r)'
    BY <1>5, <1>6 DEF EndingKept, CreatingKept
  <1>10. active' \subseteq AnyRow
    BY <1>2, <1>4, <1>5
  <1> QED
    BY <1>1, <1>2, <1>5, <1>7, <1>8, <1>9, <1>10, OwnStepAssignment

LEMMA RecordCachedStep ==
    ASSUME AssignmentInv, NEW r \in Requests, RecordCached(r)
    PROVE  AssignmentInv'
  <1>1. /\ requests[r].at = "recording" /\ UnderWay(r) /\ crossed' = crossed /\ active' = active
        /\ requests' = [requests EXCEPT ![r] = [@ EXCEPT !.at = "done"]]
    BY DEF RecordCached, UnderWay
  <1>2. PICK q \in Request, o \in Objects :
            /\ q = requests[r] /\ o = q.object
            /\ requests \in [Requests -> Request] /\ active \subseteq AnyRow
            /\ o \notin crossed => AtMostOne(o)
    BY <1>1, AtWork
  <1>3. PICK new \in Request :
            requests' = [requests EXCEPT ![r] = new] /\ new.object = o /\ new.at = "done"
    <2> DEFINE moved == [requests[r] EXCEPT !.at = "done"]
    <2>1. moved \in Request /\ moved.object = o /\ moved.at = "done"
      BY <1>2, AllSteps, Moved
    <2>2. requests' = [requests EXCEPT ![r] = moved]
      BY <1>1, Zenon
    <2> HIDE DEF moved
    <2> QED
      BY <2>1, <2>2
  <1>4. requests'[r] = new
    BY <1>2, <1>3
  <1>5. \A p \in Objects : RowsOf(p)' = RowsOf(p)
    BY <1>1 DEF RowsOf
  <1>6. o \notin crossed => AtMostOne(o)'
    BY <1>2, <1>5 DEF AtMostOne
  <1>7. EndingKept(r)' /\ CreatingKept(r)'
    BY <1>3, <1>4 DEF EndingKept, CreatingKept
  <1> QED
    BY <1>1, <1>2, <1>3, <1>5, <1>6, <1>7, OwnStepAssignment

LEMMA LookupStep ==
    ASSUME AssignmentInv, NEW l \in Lookups,
           (\E o \in LookedUp : Miss(l, o)) \/ Climb(l) \/ StoreFound(l)
    PROVE  AssignmentInv'
  <1>1. UNCHANGED <<active, requests, crossed>>
    BY DEF Miss, Climb, StoreFound
  <1> QED
    BY <1>1, UnchangedAssignment

-----------------------------------------------------------------------------
LEMMA NextAssignment == AssignmentInv /\ [Next]_vars => AssignmentInv'
  <1> SUFFICES ASSUME AssignmentInv, [Next]_vars PROVE AssignmentInv'
    OBVIOUS
  <1>1. ASSUME NEW r \in Requests, NEW o \in Assignable, NEW level \in Levels, Start(r, o, FALSE, level)
        PROVE  AssignmentInv'
    BY <1>1, StartAssignment
  <1>2. ASSUME NEW r \in Requests, NEW o \in Assignable, Start(r, o, TRUE, None)
        PROVE  AssignmentInv'
    BY <1>2, StartAssignment
  <1>3. ASSUME NEW r \in Requests, NEW row \in requests[r].ending, EndAssignment(r, row)
        PROVE  AssignmentInv'
    BY <1>3, EndAssignmentStep
  <1>4. ASSUME NEW r \in Requests, ClearCached(r) \/ ClearCachedFails(r)
        PROVE  AssignmentInv'
    BY <1>4, ClearCachedStep
  <1>5. ASSUME NEW r \in Requests, CreateAssignment(r) PROVE AssignmentInv'
    BY <1>5, CreateAssignmentStep
  <1>6. ASSUME NEW r \in Requests, RecordCached(r) PROVE AssignmentInv'
    BY <1>6, RecordCachedStep
  <1>7. ASSUME NEW l \in Lookups, (\E o \in LookedUp : Miss(l, o)) \/ Climb(l) \/ StoreFound(l)
        PROVE  AssignmentInv'
    BY <1>7, LookupStep
  <1>8. CASE UNCHANGED vars
    BY <1>8, UnchangedAssignment DEF vars
  <1> QED
    BY <1>1, <1>2, <1>3, <1>4, <1>5, <1>6, <1>7, <1>8 DEF Next

LEMMA AssignmentInvImplies == AssignmentInv => OneAssignment
  <1> SUFFICES ASSUME AssignmentInv, NEW o \in Objects \ crossed
               PROVE  Cardinality(RowsOf(o)) <= 1
    BY DEF OneAssignment, RowsOf
  <1>1. \A x, y \in RowsOf(o) : x = y
    BY DEF AssignmentInv, AtMostOne
  <1>2. CASE RowsOf(o) = {}
    BY <1>2, FS_EmptySet
  <1>3. CASE RowsOf(o) # {}
    <2>1. PICK x \in RowsOf(o) : TRUE
      BY <1>3
    <2>2. RowsOf(o) = {x}
      BY <1>1, <2>1
    <2> QED
      BY <2>2, FS_Singleton
  <1> QED
    BY <1>2, <1>3

(* An object that no two requests worked on at a time has at most one      *)
(* active license (LicenseManager.setAssignment), whatever else happens.   *)
THEOREM OneAssignmentAlways == Spec => []OneAssignment
  <1>1. Spec => []AssignmentInv
    BY InitAssignment, NextAssignment, PTL DEF Spec
  <1> QED
    BY <1>1, AssignmentInvImplies, PTL

-----------------------------------------------------------------------------
(* Numbers: induction, and the largest of finitely many.                    *)

LEMMA NaturalsFromZero ==
    ASSUME NEW S, 0 \in S, \A n \in Nat : n \in S => n + 1 \in S
    PROVE  Nat \subseteq S
  <1> DEFINE T == Nat \ S
  <1>1. SUFFICES ASSUME T # {} PROVE FALSE
    OBVIOUS
  <1>2. \E x \in T : \A y \in T : ~ (<<y, x>> \in OpToRel(<, Nat))
    <2>1. T \subseteq Nat
      OBVIOUS
    <2> HIDE DEF T
    <2> QED
      BY <1>1, <2>1, NatLessThanWellFounded, WFMin
  <1>3. PICK x \in T : \A y \in Nat : y < x => y \in S
    BY <1>2 DEF OpToRel
  <1>4. x \in Nat /\ x # 0
    BY <1>3
  <1>5. x - 1 \in Nat /\ x - 1 < x /\ (x - 1) + 1 = x
    BY <1>4
  <1> QED
    BY <1>3, <1>4, <1>5

LEMMA FiniteBounded ==
    ASSUME NEW S \in SUBSET Nat, IsFiniteSet(S)
    PROVE  \E b \in Nat : \A x \in S : x <= b
  <1>1. PICK n, f : /\ n \in Nat /\ f \in [1 .. n -> S]
                    /\ \A x \in S : \E i \in 1 .. n : f[i] = x
    <2>1. PICK n \in Nat : ExistsSurjection(1 .. n, S)
      BY FS_NatSurjection
    <2> QED
      BY <2>1 DEF ExistsSurjection, Surjection
  <1> DEFINE K == {k \in Nat : \E b \in Nat : \A i \in 1 .. n : i <= k => f[i] <= b}
  <1>2. 0 \in K
    BY <1>1
  <1>3. ASSUME NEW k \in Nat, k \in K PROVE k + 1 \in K
    <2>1. PICK b \in Nat : \A i \in 1 .. n : i <= k => f[i] <= b
      BY <1>3
    <2>2. CASE k + 1 \in 1 .. n /\ f[k + 1] > b
      <3>1. f[k + 1] \in Nat
        BY <1>1, <2>2
      <3>2. \A i \in 1 .. n : i <= k + 1 => f[i] <= f[k + 1]
        <4> SUFFICES ASSUME NEW i \in 1 .. n, i <= k + 1 PROVE f[i] <= f[k + 1]
          OBVIOUS
        <4>1. f[i] \in Nat
          BY <1>1
        <4>2. i \in Nat /\ (i <= k \/ i = k + 1)
          BY <1>1
        <4> QED
          BY <4>1, <4>2, <3>1, <2>1, <2>2
      <3>3. k + 1 \in Nat
        OBVIOUS
      <3> QED
        BY <3>1, <3>2, <3>3
    <2>3. CASE ~ (k + 1 \in 1 .. n /\ f[k + 1] > b)
      <3>1. \A i \in 1 .. n : i <= k + 1 => f[i] <= b
        <4> SUFFICES ASSUME NEW i \in 1 .. n, i <= k + 1 PROVE f[i] <= b
          OBVIOUS
        <4>1. f[i] \in Nat
          BY <1>1
        <4>2. i \in Nat /\ (i <= k \/ i = k + 1)
          BY <1>1
        <4> QED
          BY <4>1, <4>2, <2>1, <2>3
      <3> QED
        BY <3>1
    <2> QED
      BY <2>2, <2>3
  <1>4. n \in K
    <2> HIDE DEF K
    <2> QED
      BY <1>1, <1>2, <1>3, NaturalsFromZero
  <1>5. PICK b \in Nat : \A i \in 1 .. n : i <= n => f[i] <= b
    BY <1>4
  <1>6. ASSUME NEW x \in S PROVE x <= b
    <2>1. PICK i \in 1 .. n : f[i] = x
      BY <1>1
    <2>2. i <= n
      BY <1>1
    <2> QED
      BY <2>1, <2>2, <1>5
  <1> QED
    BY <1>6

LEMMA MaxExists ==
    ASSUME NEW S \in SUBSET Nat, S # {}, IsFiniteSet(S)
    PROVE  Max(S) \in S /\ \A x \in S : x <= Max(S)
  <1> DEFINE T == {n \in Nat : \E x \in S : x >= n}
  <1>1. PICK m \in Nat : m \in T /\ m + 1 \notin T
    <2>1. 0 \in T
      <3>1. PICK x \in S : TRUE
        OBVIOUS
      <3> QED
        BY <3>1
    <2>2. PICK b \in Nat : \A x \in S : x <= b
      BY FiniteBounded
    <2>3. b + 1 \notin T /\ b + 1 \in Nat
      BY <2>2
    <2> HIDE DEF T
    <2> QED
      BY <2>1, <2>3, NaturalsFromZero
  <1>2. PICK x \in S : x >= m
    BY <1>1
  <1>3. \A y \in S : ~ (y >= m + 1)
    BY <1>1
  <1>4. \A y \in S : x >= y
    BY <1>2, <1>3
  <1>5. Max(S) \in S /\ \A y \in S : Max(S) >= y
    BY <1>4 DEF Max
  <1> QED
    BY <1>5

(* The image of a finite set is finite.                                     *)
LEMMA FiniteImage ==
    ASSUME NEW S, IsFiniteSet(S), NEW f, DOMAIN f = S
    PROVE  IsFiniteSet({f[x] : x \in S})
  <1> DEFINE T == {f[x] : x \in S}
             g == [x \in S |-> f[x]]
  <1>1. g \in Surjection(S, T)
    BY DEF Surjection
  <1> QED
    BY <1>1, FS_Surjection

-----------------------------------------------------------------------------
(* The hierarchy.                                                           *)

(* What is not below an object has its parents there as well.               *)
LEMMA NotBelow ==
    ASSUME NEW x \in Objects, NEW o \in Objects, o \notin {x} \cup Descendants[x],
           NEW p \in Parents(o)
    PROVE  p \in Objects /\ p \notin {x} \cup Descendants[x]
  <1> USE LicensesAssumption
  <1>1. p \in Objects /\ <<p, o>> \in Links
    BY DEF Parents
  <1>2. Descendants[x] = {d \in Objects : \A S \in SUBSET Objects :
                              Closed(S) /\ Children(x) \subseteq S => d \in S}
    BY DEF Descendants
  <1>3. p # x
    BY <1>1, <1>2 DEF Children
  <1>4. ASSUME p \in Descendants[x] PROVE FALSE
    <2>1. PICK S \in SUBSET Objects : Closed(S) /\ Children(x) \subseteq S /\ o \notin S
      BY <1>2
    <2>2. p \in S
      BY <1>2, <1>4, <2>1
    <2>3. o \in S
      BY <1>1, <2>1, <2>2 DEF Closed
    <2> QED
      BY <2>1, <2>3
  <1> QED
    BY <1>1, <1>3, <1>4

LEMMA NothingBelow ==
    ASSUME NEW x \in Objects, Children(x) = {}
    PROVE  Descendants[x] = {}
  <1>1. Descendants[x] = {d \in Objects : \A S \in SUBSET Objects :
                              Closed(S) /\ Children(x) \subseteq S => d \in S}
    BY DEF Descendants
  <1>2. Closed({}) /\ Children(x) \subseteq {}
    BY DEF Closed
  <1> QED
    BY <1>1, <1>2

-----------------------------------------------------------------------------
(* The recursion over the parents.                                          *)

Unlicensed == [o \in Objects |-> NoLicense]

(* The answers of fetchParentsLicense, by depth: what the recursion defines *)
(* exists, for any rows.                                                    *)
Climbing(rows, At) ==
    At = [depth \in 0 .. MaxDepth |->
             FromParents(rows, IF depth = 0 THEN Unlicensed ELSE At[depth - 1])]

LEMMA ClimbExists == ASSUME NEW rows PROVE \E At : Climbing(rows, At)
  <1> DEFINE Upto(n, At) ==
                 At = [depth \in 0 .. n |->
                          FromParents(rows, IF depth = 0 THEN Unlicensed ELSE At[depth - 1])]
             S == {n \in Nat : \E At : Upto(n, At)}
  <1>1. 0 \in S
    <2> DEFINE At == [depth \in 0 .. 0 |-> FromParents(rows, Unlicensed)]
    <2>1. At = [depth \in 0 .. 0 |->
                   FromParents(rows, IF depth = 0 THEN Unlicensed ELSE At[depth - 1])]
      OBVIOUS
    <2> HIDE DEF At
    <2> QED
      BY <2>1
  <1>2. ASSUME NEW n \in Nat, n \in S PROVE n + 1 \in S
    <2>1. PICK At : Upto(n, At)
      BY <1>2
    <2> DEFINE Longer == [depth \in 0 .. n + 1 |->
                             FromParents(rows, IF depth = 0 THEN Unlicensed ELSE At[depth - 1])]
    <2>2. \A d \in 0 .. n : Longer[d] = At[d]
      BY <2>1
    <2>3. \A d \in 0 .. n + 1 : d # 0 => d - 1 \in 0 .. n
      OBVIOUS
    <2>4. \A d \in 0 .. n + 1 :
             (IF d = 0 THEN Unlicensed ELSE At[d - 1])
               = (IF d = 0 THEN Unlicensed ELSE Longer[d - 1])
      <3> HIDE DEF Longer
      <3> QED
        BY <2>2, <2>3
    <2>5. Upto(n + 1, Longer)
      BY <2>4
    <2> HIDE DEF Longer, Upto
    <2> QED
      BY <2>5
  <1>3. MaxDepth \in S
    <2> HIDE DEF S
    <2> QED
      BY <1>1, <1>2, NaturalsFromZero, LicensesAssumption
  <1> QED
    BY <1>3 DEF Climbing

LEMMA ParentsLicenseIs ==
    ASSUME NEW rows
    PROVE  \E At : Climbing(rows, At) /\ ParentsLicense(rows) = At[MaxDepth]
  <1> DEFINE At == CHOOSE At : Climbing(rows, At)
  <1>1. Climbing(rows, At)
    BY ClimbExists
  <1>2. ParentsLicense(rows) = At[MaxDepth]
    BY DEF ParentsLicense, Climbing, Unlicensed
  <1> HIDE DEF At
  <1> QED
    BY <1>1, <1>2

(* What an object inherits depends on the rows of its ancestors alone:      *)
(* within objects that have all their parents among them, rows that agree   *)
(* give the same answers.                                                   *)
LEMMA SameRowsSameAnswer ==
    ASSUME NEW before, NEW after, NEW A \in SUBSET Objects,
           \A o \in A : Parents(o) \subseteq A,
           \A o \in A : {x \in before : x.object = o} = {x \in after : x.object = o}
    PROVE  \A o \in A : Resolve(before, o) = Resolve(after, o)
  <1>1. \A o \in A : SpecificLicense(before, o) = SpecificLicense(after, o)
    BY DEF SpecificLicense
  <1>2. PICK At : Climbing(before, At) /\ ParentsLicense(before) = At[MaxDepth]
    BY ParentsLicenseIs
  <1>3. PICK Bt : Climbing(after, Bt) /\ ParentsLicense(after) = Bt[MaxDepth]
    BY ParentsLicenseIs
  <1>4. ASSUME NEW above, NEW upon, \A o \in A : above[o] = upon[o]
        PROVE  \A o \in A : FromParents(before, above)[o] = FromParents(after, upon)[o]
    <2> SUFFICES ASSUME NEW o \in A
                 PROVE  FromParents(before, above)[o] = FromParents(after, upon)[o]
      OBVIOUS
    <2>1. \A p \in Parents(o) :
             (IF SpecificLicense(before, p) # NoLicense
              THEN SpecificLicense(before, p) ELSE above[p])
           = (IF SpecificLicense(after, p) # NoLicense
              THEN SpecificLicense(after, p) ELSE upon[p])
      BY <1>1, <1>4
    <2>2. {IF SpecificLicense(before, p) # NoLicense
           THEN SpecificLicense(before, p) ELSE above[p] : p \in Parents(o)}
        = {IF SpecificLicense(after, p) # NoLicense
           THEN SpecificLicense(after, p) ELSE upon[p] : p \in Parents(o)}
      BY <2>1
    <2> QED
      BY <2>2 DEF FromParents
  <1> DEFINE S == {n \in Nat : n <= MaxDepth => \A o \in A : At[n][o] = Bt[n][o]}
  <1>5. /\ At[0] = FromParents(before, Unlicensed) /\ Bt[0] = FromParents(after, Unlicensed)
        /\ \A n \in Nat : n + 1 <= MaxDepth =>
              At[n + 1] = FromParents(before, At[n]) /\ Bt[n + 1] = FromParents(after, Bt[n])
    BY <1>2, <1>3, LicensesAssumption DEF Climbing
  <1>6. 0 \in S
    BY <1>4, <1>5
  <1>7. ASSUME NEW n \in Nat, n \in S PROVE n + 1 \in S
    <2> SUFFICES ASSUME n + 1 <= MaxDepth PROVE \A o \in A : At[n + 1][o] = Bt[n + 1][o]
      OBVIOUS
    <2>1. \A o \in A : At[n][o] = Bt[n][o]
      BY <1>7, LicensesAssumption
    <2> QED
      BY <2>1, <1>4, <1>5
  <1>8. MaxDepth \in S
    <2> HIDE DEF S
    <2> QED
      BY <1>6, <1>7, NaturalsFromZero, LicensesAssumption
  <1>9. \A o \in A : ParentsLicense(before)[o] = ParentsLicense(after)[o]
    BY <1>2, <1>3, <1>8, LicensesAssumption
  <1> QED
    BY <1>1, <1>9 DEF Resolve

(* A request changes the rows of its object: no answer changes but those of *)
(* the object and what is below it.                                         *)
LEMMA OthersInheritTheSame ==
    ASSUME NEW o \in Objects, \A p \in Objects \ {o} : RowsOf(p)' = RowsOf(p),
           NEW p \in Objects, p \notin {o} \cup Descendants[o]
    PROVE  /\ Resolve(active, p)' = Resolve(active, p)
           /\ Found(SpecificLicense(active, p), FALSE)' = Found(SpecificLicense(active, p), FALSE)
  <1> DEFINE A == {x \in Objects : x \notin {o} \cup Descendants[o]}
  <1>1. \A x \in A : Parents(x) \subseteq A
    BY NotBelow
  <1>2. \A x \in A : {y \in active : y.object = x} = {y \in active' : y.object = x}
    BY DEF RowsOf
  <1>3. p \in A
    OBVIOUS
  <1> HIDE DEF A
  <1>4. \A before, after :
            (\A x \in A : {y \in before : y.object = x} = {y \in after : y.object = x})
                => Resolve(before, p) = Resolve(after, p)
    <2>1. A \in SUBSET Objects
      BY DEF A
    <2> QED
      BY <1>1, <1>3, <2>1, SameRowsSameAnswer
  <1>5. Resolve(active', p) = Resolve(active, p)
    BY <1>2, <1>4
  <1>6. SpecificLicense(active', p) = SpecificLicense(active, p)
    BY <1>2, <1>3 DEF SpecificLicense
  <1> QED
    BY <1>5, <1>6

-----------------------------------------------------------------------------
(* Types.                                                                   *)

RequestType == [at : Steps, clear : BOOLEAN, object : Objects \cup {None},
                level : Levels \cup {None}, ending : SUBSET Row, ok : BOOLEAN]
LookupType == [at : {"idle", "climbing", "found"}, object : Objects \cup {None},
               found : Resolver \cup {None}, overtaken : BOOLEAN]

(* What a request knows of its object and of its rows.                      *)
RequestSane(r) ==
    LET q == requests[r] IN
    /\ UnderWay(r) => q.object \in Objects /\ \A x \in q.ending : x.object = q.object
    /\ UnderWay(r) /\ ~ q.clear => q.level \in Levels
    /\ q.at \in {"creating", "recording"} => ~ q.clear

LookupSane(l) == lookups[l].at # "idle" => lookups[l].object \in Objects

TypeInv ==
    /\ TypeOK
    /\ \A o \in Objects : IsFiniteSet(RowsOf(o))
    /\ \A r \in Requests : RequestSane(r)
    /\ \A l \in Lookups : LookupSane(l)

(* The object has no request at work on it or on an ancestor.               *)
Settled(o) ==
    \A r \in Requests :
        UnderWay(r) => o \notin {requests[r].object} \cup Descendants[requests[r].object]

(* The own license of an object, when it has one row.                       *)
RecordingKept(r) ==
    requests[r].at = "recording" /\ requests[r].ok /\ requests[r].object \notin crossed
        => \E x \in active : /\ RowsOf(requests[r].object) = {x}
                             /\ x.level = requests[r].level

(* A cached answer is the one the rows give, as in CacheCurrent ...         *)
CacheKept ==
    \A o \in Objects \ (excused \cup crossed) :
        Settled(o) => cache[o] \in {None, Resolve(active, o)}

(* ... and so is what a lookup has found, unless a request overtook it.     *)
LookupKept(l) ==
    LET k == lookups[l] IN
    k.at # "idle" /\ ~ k.overtaken /\ Settled(k.object) =>
        /\ k.at = "climbing" => Found(SpecificLicense(active, k.object), FALSE) = None
        /\ k.at = "found" => k.found = Resolve(active, k.object)

CacheInv ==
    /\ TypeInv
    /\ AssignmentInv
    /\ \A r \in Requests : RecordingKept(r)
    /\ CacheKept
    /\ \A l \in Lookups : LookupKept(l)

-----------------------------------------------------------------------------
LEMMA StrictestTyped ==
    ASSUME NEW S \in SUBSET (Levels \cup {NoLicense}), IsFiniteSet(S)
    PROVE  Strictest(S) \in Levels \cup {NoLicense}
  <1> DEFINE T == S \cup {NoLicense}
  <1>1. T \in SUBSET Nat /\ T # {} /\ T \subseteq Levels \cup {NoLicense}
    BY LicensesAssumption DEF NoLicense
  <1>2. IsFiniteSet(T)
    BY FS_AddElement
  <1>3. Max(T) \in T
    <2> HIDE DEF T
    <2> QED
      BY <1>1, <1>2, MaxExists
  <1> QED
    BY <1>1, <1>3 DEF Strictest

LEMMA FoundTyped ==
    ASSUME NEW level \in Levels \cup {NoLicense}, NEW inherited \in BOOLEAN
    PROVE  Found(level, inherited) \in Resolver \cup {None}
  BY DEF Found, Resolver

LEMMA SpecificTyped ==
    ASSUME TypeInv, NEW o \in Objects
    PROVE  SpecificLicense(active, o) \in Levels \cup {NoLicense}
  <1> DEFINE f == [x \in RowsOf(o) |-> x.level]
  <1>1. IsFiniteSet(RowsOf(o)) /\ RowsOf(o) \subseteq Row
    BY DEF TypeInv, TypeOK, RowsOf
  <1>2. DOMAIN f = RowsOf(o) /\ \A x \in RowsOf(o) : f[x] = x.level /\ x.level \in Levels
    BY <1>1 DEF Row
  <1>3. IsFiniteSet({f[x] : x \in RowsOf(o)})
    <2> HIDE DEF f
    <2> QED
      BY <1>1, <1>2, FiniteImage
  <1>4. {f[x] : x \in RowsOf(o)} = {x.level : x \in RowsOf(o)}
    BY <1>2
  <1>5. {x.level : x \in RowsOf(o)} \subseteq Levels \cup {NoLicense}
    BY <1>2
  <1>6. Strictest({x.level : x \in RowsOf(o)}) \in Levels \cup {NoLicense}
    BY <1>3, <1>4, <1>5, StrictestTyped
  <1> QED
    BY <1>6 DEF SpecificLicense, RowsOf

LEMMA ParentsTyped ==
    ASSUME TypeInv, NEW o \in Objects
    PROVE  ParentsLicense(active)[o] \in Levels \cup {NoLicense}
  <1>1. PICK At : Climbing(active, At) /\ ParentsLicense(active) = At[MaxDepth]
    BY ParentsLicenseIs
  <1>2. ASSUME NEW above, \A x \in Objects : above[x] \in Levels \cup {NoLicense}
        PROVE  \A x \in Objects : FromParents(active, above)[x] \in Levels \cup {NoLicense}
    <2> SUFFICES ASSUME NEW x \in Objects
                 PROVE  FromParents(active, above)[x] \in Levels \cup {NoLicense}
      OBVIOUS
    <2> DEFINE f == [p \in Parents(x) |-> IF SpecificLicense(active, p) # NoLicense
                                          THEN SpecificLicense(active, p) ELSE above[p]]
    <2>1. IsFiniteSet(Parents(x)) /\ Parents(x) \subseteq Objects
      BY LicensesAssumption, FS_Subset DEF Parents
    <2>2. \A p \in Parents(x) : f[p] \in Levels \cup {NoLicense}
      BY <1>2, <2>1, SpecificTyped
    <2>3. DOMAIN f = Parents(x)
      OBVIOUS
    <2>4. {IF SpecificLicense(active, p) # NoLicense
           THEN SpecificLicense(active, p) ELSE above[p] : p \in Parents(x)}
          = {f[p] : p \in Parents(x)}
      OBVIOUS
    <2>5. FromParents(active, above)[x] = Strictest({f[p] : p \in Parents(x)})
      BY <2>4 DEF FromParents
    <2> HIDE DEF f
    <2>6. IsFiniteSet({f[p] : p \in Parents(x)})
      BY <2>1, <2>3, FiniteImage
    <2> QED
      BY <2>2, <2>5, <2>6, StrictestTyped
  <1> DEFINE S == {n \in Nat : n <= MaxDepth =>
                      \A x \in Objects : At[n][x] \in Levels \cup {NoLicense}}
  <1>3. /\ At[0] = FromParents(active, Unlicensed)
        /\ \A n \in Nat : n + 1 <= MaxDepth => At[n + 1] = FromParents(active, At[n])
    BY <1>1, LicensesAssumption DEF Climbing
  <1>4. 0 \in S
    BY <1>2, <1>3 DEF Unlicensed
  <1>5. ASSUME NEW n \in Nat, n \in S PROVE n + 1 \in S
    <2> SUFFICES ASSUME n + 1 <= MaxDepth
                 PROVE  \A x \in Objects : At[n + 1][x] \in Levels \cup {NoLicense}
      OBVIOUS
    <2>1. \A x \in Objects : At[n][x] \in Levels \cup {NoLicense}
      BY <1>5, LicensesAssumption
    <2> QED
      BY <2>1, <1>2, <1>3
  <1>6. MaxDepth \in S
    <2> HIDE DEF S
    <2> QED
      BY <1>4, <1>5, NaturalsFromZero, LicensesAssumption
  <1> QED
    BY <1>1, <1>6, LicensesAssumption

LEMMA InitTyped == Init => TypeInv
  <1> SUFFICES ASSUME Init PROVE TypeInv
    OBVIOUS
  <1> USE LicensesAssumption
  <1>1. /\ active \in SUBSET [object : Assignable, level : Levels, by : {Initially}]
        /\ \A r1, r2 \in active : r1.object = r2.object => r1 = r2
    BY DEF Init
  <1>2. active \subseteq Row
    BY <1>1 DEF Row
  <1>3. \A o \in Objects : IsFiniteSet(RowsOf(o))
    <2> SUFFICES ASSUME NEW o \in Objects PROVE IsFiniteSet(RowsOf(o))
      OBVIOUS
    <2>1. CASE RowsOf(o) = {}
      BY <2>1, FS_EmptySet
    <2>2. CASE RowsOf(o) # {}
      <3>1. PICK x \in RowsOf(o) : TRUE
        BY <2>2
      <3>2. RowsOf(o) = {x}
        BY <3>1, <1>1 DEF RowsOf
      <3>3. IsFiniteSet({x})
        BY FS_Singleton
      <3> QED
        BY <3>2, <3>3
    <2> QED
      BY <2>1, <2>2
  <1>4. requests \in [Requests -> RequestType]
    BY DEF Init, NoRequest, RequestType, Steps
  <1>5. lookups \in [Lookups -> LookupType]
    BY DEF Init, NoLookup, LookupType
  <1>6. (\A r \in Requests : RequestSane(r)) /\ \A l \in Lookups : LookupSane(l)
    BY DEF Init, NoRequest, NoLookup, RequestSane, LookupSane, UnderWay
  <1>7. /\ cache \in [Objects -> Resolver \cup {None}] /\ failures \in 0 .. MaxFailures
        /\ crossed \subseteq Objects /\ excused \subseteq Objects
    BY DEF Init
  <1> QED
    BY <1>2, <1>3, <1>4, <1>5, <1>6, <1>7 DEF TypeInv, TypeOK, RequestType, LookupType

(* The parts of TypeInv, for a request, a lookup and the rows.              *)
LEMMA Typed ==
    ASSUME TypeInv
    PROVE  /\ active \subseteq Row /\ cache \in [Objects -> Resolver \cup {None}]
           /\ requests \in [Requests -> RequestType] /\ lookups \in [Lookups -> LookupType]
           /\ failures \in 0 .. MaxFailures /\ crossed \subseteq Objects /\ excused \subseteq Objects
  BY DEF TypeInv, TypeOK, RequestType, LookupType

LEMMA LeftTyped ==
    ASSUME NEW q \in RequestType, NEW row
    PROVE  LET left == [q EXCEPT !.ending = q.ending \ {row}]
           IN  /\ left \in RequestType /\ left.object = q.object /\ left.at = q.at
               /\ left.ending = q.ending \ {row} /\ left.clear = q.clear /\ left.level = q.level
  BY DEF RequestType

LEMMA LeftFailingTyped ==
    ASSUME NEW q \in RequestType, NEW row
    PROVE  LET left == [q EXCEPT !.ending = q.ending \ {row}, !.ok = FALSE]
           IN  /\ left \in RequestType /\ left.object = q.object /\ left.at = q.at
               /\ left.ending = q.ending \ {row} /\ left.clear = q.clear /\ left.level = q.level
  BY DEF RequestType

LEMMA MovedTyped ==
    ASSUME NEW q \in RequestType, NEW at \in Steps
    PROVE  LET moved == [q EXCEPT !.at = at]
           IN  /\ moved \in RequestType /\ moved.object = q.object /\ moved.at = at
               /\ moved.ending = q.ending /\ moved.clear = q.clear /\ moved.level = q.level
               /\ moved.ok = q.ok
  BY DEF RequestType

LEMMA MovedFailingTyped ==
    ASSUME NEW q \in RequestType, NEW at \in Steps
    PROVE  LET moved == [q EXCEPT !.at = at, !.ok = FALSE]
           IN  /\ moved \in RequestType /\ moved.object = q.object /\ moved.at = at
               /\ moved.ending = q.ending /\ moved.clear = q.clear /\ moved.level = q.level
               /\ moved.ok = FALSE
  BY DEF RequestType

(* A request goes on, with the same or a new operation.                     *)
LEMMA RequestMoves ==
    ASSUME TypeInv, NEW r \in Requests, NEW new \in RequestType,
           requests' = [requests EXCEPT ![r] = new],
           new.object \in Objects, \A x \in new.ending : x.object = new.object,
           ~ new.clear => new.level \in Levels,
           new.at \in {"creating", "recording"} => ~ new.clear
    PROVE  /\ requests' \in [Requests -> RequestType] /\ requests'[r] = new
           /\ \A q \in Requests \ {r} : requests'[q] = requests[q]
           /\ \A q \in Requests : RequestSane(q)'
  <1>1. /\ requests' \in [Requests -> RequestType] /\ requests'[r] = new
        /\ \A q \in Requests \ {r} : requests'[q] = requests[q]
    BY Typed
  <1>2. RequestSane(r)'
    BY <1>1 DEF RequestSane
  <1>3. \A q \in Requests \ {r} : RequestSane(q)'
    BY <1>1 DEF RequestSane, TypeInv, UnderWay
  <1> QED
    BY <1>1, <1>2, <1>3

LEMMA RowsStayFinite ==
    ASSUME TypeInv, NEW row, active' \subseteq active \cup {row}
    PROVE  \A o \in Objects : IsFiniteSet(RowsOf(o)')
  <1> SUFFICES ASSUME NEW o \in Objects PROVE IsFiniteSet(RowsOf(o)')
    OBVIOUS
  <1>1. IsFiniteSet(RowsOf(o) \cup {row})
    BY FS_AddElement DEF TypeInv
  <1>2. RowsOf(o)' \subseteq RowsOf(o) \cup {row}
    BY DEF RowsOf
  <1> QED
    BY <1>1, <1>2, FS_Subset

(* Overtaking marks the lookups below the object, and changes nothing else. *)
LEMMA Overtaken ==
    ASSUME TypeInv, NEW o \in Objects, Overtake(o)
    PROVE  /\ lookups' \in [Lookups -> LookupType]
           /\ \A l \in Lookups : LookupSane(l)'
           /\ \A l \in Lookups : \/ lookups'[l] = lookups[l]
                                 \/ lookups'[l].overtaken
           /\ \A l \in Lookups : lookups'[l].at = lookups[l].at /\ lookups'[l].object = lookups[l].object
           /\ \A l \in Lookups : lookups[l].at # "idle" /\ lookups[l].object \in {o} \cup Descendants[o]
                                     => lookups'[l].overtaken
  <1>1. ASSUME NEW k \in LookupType
        PROVE  LET late == [k EXCEPT !.overtaken = TRUE]
               IN  late \in LookupType /\ late.at = k.at /\ late.object = k.object /\ late.overtaken
    BY DEF LookupType
  <1>2. \A l \in Lookups : lookups[l] \in LookupType
    BY Typed
  <1>3. \A l \in Lookups :
           lookups'[l] = IF lookups[l].at # "idle" /\ lookups[l].object \in {o} \cup Descendants[o]
                         THEN [lookups[l] EXCEPT !.overtaken = TRUE] ELSE lookups[l]
    BY DEF Overtake
  <1>4. \A l \in Lookups :
           /\ lookups'[l] \in LookupType
           /\ lookups'[l] = lookups[l] \/ lookups'[l].overtaken
           /\ lookups'[l].at = lookups[l].at /\ lookups'[l].object = lookups[l].object
           /\ lookups[l].at # "idle" /\ lookups[l].object \in {o} \cup Descendants[o]
                  => lookups'[l].overtaken
    BY <1>1, <1>2, <1>3
  <1>5. lookups' \in [Lookups -> LookupType]
    BY <1>4 DEF Overtake
  <1>6. \A l \in Lookups : LookupSane(l)'
    BY <1>4 DEF LookupSane, TypeInv
  <1> QED
    BY <1>4, <1>5, <1>6

LEMMA Assembled ==
    ASSUME active' \subseteq Row, cache' \in [Objects -> Resolver \cup {None}],
           requests' \in [Requests -> RequestType], lookups' \in [Lookups -> LookupType],
           failures' \in 0 .. MaxFailures, crossed' \subseteq Objects, excused' \subseteq Objects,
           \A o \in Objects : IsFiniteSet(RowsOf(o)'),
           \A r \in Requests : RequestSane(r)', \A l \in Lookups : LookupSane(l)'
    PROVE  TypeInv'
  BY DEF TypeInv, TypeOK, RequestType, LookupType

LEMMA FailTyped == ASSUME TypeInv, Fail PROVE failures' \in 0 .. MaxFailures
  <1>1. failures \in Nat /\ failures < MaxFailures /\ failures' = failures + 1
    BY Typed DEF Fail
  <1> QED
    BY <1>1, LicensesAssumption

(* Rows and lookups that stay keep their types.                             *)
LEMMA SameRowsTyped ==
    ASSUME TypeInv, active' = active
    PROVE  \A o \in Objects : IsFiniteSet(RowsOf(o)')
  BY DEF TypeInv, RowsOf

LEMMA SameLookupsTyped ==
    ASSUME TypeInv, lookups' = lookups
    PROVE  \A l \in Lookups : LookupSane(l)'
  BY DEF TypeInv, LookupSane

LEMMA SameRequestsTyped ==
    ASSUME TypeInv, requests' = requests
    PROVE  \A r \in Requests : RequestSane(r)'
  BY DEF TypeInv, RequestSane, UnderWay

(* A request at work.                                                       *)
LEMMA RequestOf ==
    ASSUME TypeInv, NEW r \in Requests, UnderWay(r)
    PROVE  /\ requests[r] \in RequestType /\ requests[r].object \in Objects
           /\ \A x \in requests[r].ending : x.object = requests[r].object
           /\ ~ requests[r].clear => requests[r].level \in Levels
           /\ requests[r].at \in {"creating", "recording"} => ~ requests[r].clear
           /\ Descendants[requests[r].object] \subseteq Objects
           /\ ObjectMap(requests[r].object) \subseteq Objects
  <1>1. /\ requests[r] \in RequestType /\ requests[r].object \in Objects
        /\ \A x \in requests[r].ending : x.object = requests[r].object
        /\ ~ requests[r].clear => requests[r].level \in Levels
        /\ requests[r].at \in {"creating", "recording"} => ~ requests[r].clear
    BY Typed DEF TypeInv, RequestSane
  <1>2. Descendants[requests[r].object] \subseteq Objects
    BY <1>1 DEF Descendants
  <1> QED
    BY <1>1, <1>2 DEF ObjectMap

LEMMA StartTyped ==
    ASSUME TypeInv, NEW r \in Requests, NEW o \in Assignable, NEW clear \in BOOLEAN,
           NEW level \in Levels \cup {None}, ~ clear => level \in Levels,
           Start(r, o, clear, level)
    PROVE  TypeInv'
  <1> DEFINE new == [at |-> "ending", clear |-> clear, object |-> o, level |-> level,
                     ending |-> RowsOf(o), ok |-> TRUE]
  <1>1. /\ requests' = [requests EXCEPT ![r] = new] /\ crossed' \subseteq crossed \cup {o}
        /\ UNCHANGED <<active, cache, lookups, failures, excused>>
    BY DEF Start, RowsOf
  <1>2. /\ o \in Objects /\ new \in RequestType /\ new.object = o /\ new.clear = clear
        /\ new.level = level /\ new.ending = RowsOf(o) /\ new.at = "ending"
    BY LicensesAssumption, Typed DEF RequestType, Steps, RowsOf
  <1> HIDE DEF new
  <1>3. \A x \in new.ending : x.object = new.object
    BY <1>2 DEF RowsOf
  <1>4. requests' \in [Requests -> RequestType] /\ \A q \in Requests : RequestSane(q)'
    BY <1>1, <1>2, <1>3, RequestMoves
  <1>5. crossed' \subseteq Objects
    BY <1>1, <1>2, Typed
  <1> QED
    BY <1>1, <1>4, <1>5, Typed, SameRowsTyped, SameLookupsTyped, Assembled

LEMMA EndAssignmentTyped ==
    ASSUME TypeInv, NEW r \in Requests, NEW row \in requests[r].ending, EndAssignment(r, row)
    PROVE  TypeInv'
  <1>1. UnderWay(r) /\ requests[r].at = "ending" /\ UNCHANGED <<cache, lookups, crossed, excused>>
    BY DEF EndAssignment, UnderWay
  <1>2. PICK q : q = requests[r]
    OBVIOUS
  <1>3. /\ q \in RequestType /\ q.object \in Objects /\ \A x \in q.ending : x.object = q.object
        /\ ~ q.clear => q.level \in Levels
    BY <1>1, <1>2, RequestOf
  <1>4. PICK new \in RequestType :
            /\ requests' = [requests EXCEPT ![r] = new]
            /\ new.object = q.object /\ new.at = "ending" /\ new.ending = q.ending \ {row}
            /\ new.clear = q.clear /\ new.level = q.level
    <2>1. CASE requests' = [requests EXCEPT ![r] = [@ EXCEPT !.ending = requests[r].ending \ {row}]]
      <3> DEFINE left == [q EXCEPT !.ending = q.ending \ {row}]
      <3>1. requests' = [requests EXCEPT ![r] = left]
        BY <2>1, <1>2
      <3>2. /\ left \in RequestType /\ left.object = q.object /\ left.at = q.at
            /\ left.ending = q.ending \ {row} /\ left.clear = q.clear /\ left.level = q.level
        BY <1>3, LeftTyped
      <3> HIDE DEF left
      <3> QED
        BY <3>1, <3>2, <1>1, <1>2
    <2>2. CASE requests' = [requests EXCEPT ![r] =
                               [@ EXCEPT !.ending = requests[r].ending \ {row}, !.ok = FALSE]]
      <3> DEFINE left == [q EXCEPT !.ending = q.ending \ {row}, !.ok = FALSE]
      <3>1. requests' = [requests EXCEPT ![r] = left]
        BY <2>2, <1>2
      <3>2. /\ left \in RequestType /\ left.object = q.object /\ left.at = q.at
            /\ left.ending = q.ending \ {row} /\ left.clear = q.clear /\ left.level = q.level
        BY <1>3, LeftFailingTyped
      <3> HIDE DEF left
      <3> QED
        BY <3>1, <3>2, <1>1, <1>2
    <2> QED
      BY <2>1, <2>2 DEF EndAssignment
  <1>5. requests' \in [Requests -> RequestType] /\ \A p \in Requests : RequestSane(p)'
    BY <1>3, <1>4, RequestMoves
  <1>6. active' \subseteq active
    BY DEF EndAssignment
  <1>7. active' \subseteq Row /\ \A o \in Objects : IsFiniteSet(RowsOf(o)')
    BY <1>6, Typed, RowsStayFinite
  <1>8. failures' \in 0 .. MaxFailures
    BY FailTyped, Typed DEF EndAssignment
  <1> QED
    BY <1>1, <1>5, <1>7, <1>8, Typed, SameLookupsTyped, Assembled

(* The moves that change a request's place, and how things went.            *)
LEMMA MoveTyped ==
    ASSUME TypeInv, NEW r \in Requests, UnderWay(r),
           NEW at \in {"creating", "recording", "done"},
           at \in {"creating", "recording"} => ~ requests[r].clear,
           \/ requests' = [requests EXCEPT ![r] = [@ EXCEPT !.at = at]]
           \/ requests' = [requests EXCEPT ![r] = [@ EXCEPT !.at = at, !.ok = FALSE]]
    PROVE  /\ requests' \in [Requests -> RequestType] /\ \A q \in Requests : RequestSane(q)'
           /\ \A q \in Requests \ {r} : requests'[q] = requests[q]
           /\ requests'[r].at = at /\ requests'[r].object = requests[r].object
           /\ requests'[r].level = requests[r].level
           /\ requests'[r].ok => /\ requests[r].ok
                                 /\ requests' = [requests EXCEPT ![r] = [@ EXCEPT !.at = at]]
  <1>1. PICK q : q = requests[r]
    OBVIOUS
  <1>2. /\ q \in RequestType /\ q.object \in Objects /\ \A x \in q.ending : x.object = q.object
        /\ ~ q.clear => q.level \in Levels
    BY <1>1, RequestOf
  <1>3. at \in Steps
    BY DEF Steps
  <1>4. PICK new \in RequestType :
            /\ requests' = [requests EXCEPT ![r] = new]
            /\ new.object = q.object /\ new.at = at /\ new.ending = q.ending
            /\ new.clear = q.clear /\ new.level = q.level
            /\ new.ok => q.ok /\ requests' = [requests EXCEPT ![r] = [@ EXCEPT !.at = at]]
    <2>1. CASE requests' = [requests EXCEPT ![r] = [@ EXCEPT !.at = at]]
      <3> DEFINE moved == [q EXCEPT !.at = at]
      <3>1. requests' = [requests EXCEPT ![r] = moved]
        BY <2>1, <1>1
      <3>2. /\ moved \in RequestType /\ moved.object = q.object /\ moved.at = at
            /\ moved.ending = q.ending /\ moved.clear = q.clear /\ moved.level = q.level
            /\ moved.ok = q.ok
        BY <1>2, <1>3, MovedTyped
      <3> HIDE DEF moved
      <3> QED
        BY <2>1, <3>1, <3>2
    <2>2. CASE requests' = [requests EXCEPT ![r] = [@ EXCEPT !.at = at, !.ok = FALSE]]
      <3> DEFINE moved == [q EXCEPT !.at = at, !.ok = FALSE]
      <3>1. requests' = [requests EXCEPT ![r] = moved]
        BY <2>2, <1>1
      <3>2. /\ moved \in RequestType /\ moved.object = q.object /\ moved.at = at
            /\ moved.ending = q.ending /\ moved.clear = q.clear /\ moved.level = q.level
            /\ moved.ok = FALSE
        BY <1>2, <1>3, MovedFailingTyped
      <3> HIDE DEF moved
      <3> QED
        BY <3>1, <3>2
    <2> QED
      BY <2>1, <2>2
  <1>5. /\ requests' \in [Requests -> RequestType] /\ requests'[r] = new
        /\ \A p \in Requests \ {r} : requests'[p] = requests[p]
        /\ \A p \in Requests : RequestSane(p)'
    <2>1. /\ new.object \in Objects /\ \A x \in new.ending : x.object = new.object
          /\ ~ new.clear => new.level \in Levels
      BY <1>2, <1>4
    <2>2. new.at \in {"creating", "recording"} => ~ new.clear
      BY <1>1, <1>4
    <2> QED
      BY <2>1, <2>2, <1>4, RequestMoves
  <1> QED
    BY <1>1, <1>4, <1>5

LEMMA ClearCachedTyped ==
    ASSUME TypeInv, NEW r \in Requests, ClearCached(r)
    PROVE  TypeInv'
  <1>1. /\ UnderWay(r) /\ UNCHANGED <<active, failures, crossed>>
        /\ Overtake(requests[r].object)
    BY DEF ClearCached, UnderWay
  <1>2. requests' \in [Requests -> RequestType] /\ \A q \in Requests : RequestSane(q)'
    <2> DEFINE at == IF GoesOn(requests[r]) THEN "creating" ELSE "done"
    <2>1. at \in {"creating", "recording", "done"} /\ (at \in {"creating", "recording"} => ~ requests[r].clear)
      BY DEF GoesOn
    <2>2. requests' = [requests EXCEPT ![r] = [@ EXCEPT !.at = at]]
      BY DEF ClearCached
    <2> HIDE DEF at
    <2> QED
      BY <2>1, <2>2, <1>1, MoveTyped
  <1>3. cache' \in [Objects -> Resolver \cup {None}]
    BY Typed DEF ClearCached
  <1>4. excused' \subseteq Objects
    <2>1. excused' \subseteq excused \cup {requests[r].object}
      BY DEF ClearCached
    <2> QED
      BY <2>1, <1>1, RequestOf, Typed
  <1>5. lookups' \in [Lookups -> LookupType] /\ \A l \in Lookups : LookupSane(l)'
    BY <1>1, RequestOf, Overtaken
  <1> QED
    BY <1>1, <1>2, <1>3, <1>4, <1>5, Typed, SameRowsTyped, Assembled

LEMMA ClearCachedFailsTyped ==
    ASSUME TypeInv, NEW r \in Requests, ClearCachedFails(r)
    PROVE  TypeInv'
  <1>1. /\ UnderWay(r) /\ UNCHANGED <<active, cache, crossed>> /\ Fail
        /\ Overtake(requests[r].object)
        /\ requests' = [requests EXCEPT ![r] = [@ EXCEPT !.at = "done", !.ok = FALSE]]
        /\ excused' = excused \cup {requests[r].object} \cup Descendants[requests[r].object]
    BY DEF ClearCachedFails, UnderWay
  <1>2. requests' \in [Requests -> RequestType] /\ \A q \in Requests : RequestSane(q)'
    BY <1>1, MoveTyped
  <1>4. excused' \subseteq Objects
    BY <1>1, RequestOf, Typed
  <1>5. lookups' \in [Lookups -> LookupType] /\ \A l \in Lookups : LookupSane(l)'
    BY <1>1, RequestOf, Overtaken
  <1> QED
    BY <1>1, <1>2, <1>4, <1>5, Typed, SameRowsTyped, FailTyped, Assembled

LEMMA CreateAssignmentTyped ==
    ASSUME TypeInv, NEW r \in Requests, CreateAssignment(r)
    PROVE  TypeInv'
  <1>1. UnderWay(r) /\ requests[r].at = "creating" /\ UNCHANGED <<cache, lookups, crossed, excused>>
    BY DEF CreateAssignment, UnderWay
  <1>2. /\ requests[r].object \in Objects /\ requests[r].level \in Levels /\ ~ requests[r].clear
    BY <1>1, RequestOf
  <1>3. requests' \in [Requests -> RequestType] /\ \A q \in Requests : RequestSane(q)'
    <2>1. \/ requests' = [requests EXCEPT ![r] = [@ EXCEPT !.at = "recording"]]
          \/ requests' = [requests EXCEPT ![r] = [@ EXCEPT !.at = "recording", !.ok = FALSE]]
      BY DEF CreateAssignment
    <2> QED
      BY <1>1, <1>2, <2>1, MoveTyped
  <1>4. PICK row : row = [object |-> requests[r].object, level |-> requests[r].level, by |-> r]
    OBVIOUS
  <1>5. row \in Row
    BY <1>2, <1>4 DEF Row
  <1>6. active' \subseteq active \cup {row}
    BY <1>4 DEF CreateAssignment
  <1>7. active' \subseteq Row /\ \A o \in Objects : IsFiniteSet(RowsOf(o)')
    BY <1>5, <1>6, Typed, RowsStayFinite
  <1>8. failures' \in 0 .. MaxFailures
    BY FailTyped, Typed DEF CreateAssignment
  <1> QED
    BY <1>1, <1>3, <1>7, <1>8, Typed, SameLookupsTyped, Assembled

LEMMA RecordCachedTyped ==
    ASSUME TypeInv, NEW r \in Requests, RecordCached(r)
    PROVE  TypeInv'
  <1>1. /\ UnderWay(r) /\ requests[r].at = "recording" /\ UNCHANGED <<active, failures, crossed>>
        /\ Overtake(requests[r].object)
        /\ requests' = [requests EXCEPT ![r] = [@ EXCEPT !.at = "done"]]
    BY DEF RecordCached, UnderWay
  <1>2. requests' \in [Requests -> RequestType] /\ \A q \in Requests : RequestSane(q)'
    BY <1>1, MoveTyped
  <1>3. cache' \in [Objects -> Resolver \cup {None}]
    <2> DEFINE own == [level |-> requests[r].level, inherited |-> FALSE]
    <2>1. own \in Resolver
      BY <1>1, RequestOf DEF Resolver
    <2>2. cache' = [o \in Objects |->
                        CASE o = requests[r].object -> own
                          [] o \in Flushed(requests[r].object) /\ o # requests[r].object -> None
                          [] OTHER -> cache[o]]
      BY DEF RecordCached
    <2> HIDE DEF own
    <2> QED
      BY <2>1, <2>2, Typed
  <1>4. excused' \subseteq Objects
    <2>1. excused' \subseteq excused \cup {requests[r].object}
      BY DEF RecordCached
    <2> QED
      BY <2>1, <1>1, RequestOf, Typed
  <1>5. lookups' \in [Lookups -> LookupType] /\ \A l \in Lookups : LookupSane(l)'
    BY <1>1, RequestOf, Overtaken
  <1> QED
    BY <1>1, <1>2, <1>3, <1>4, <1>5, Typed, SameRowsTyped, Assembled

LEMMA LookupTyped ==
    ASSUME TypeInv, NEW l \in Lookups,
           \/ \E o \in LookedUp : Miss(l, o)
           \/ Climb(l)
           \/ StoreFound(l)
    PROVE  TypeInv'
  <1>1. UNCHANGED <<active, requests, failures, crossed>>
    BY DEF Miss, Climb, StoreFound
  <1>2. lookups[l] \in LookupType
    BY Typed
  <1>3. PICK k \in LookupType :
            lookups' = [lookups EXCEPT ![l] = k] /\ (k.at # "idle" => k.object \in Objects)
    <2>1. ASSUME NEW o \in LookedUp, Miss(l, o)
          PROVE  \E k \in LookupType :
                     lookups' = [lookups EXCEPT ![l] = k] /\ (k.at # "idle" => k.object \in Objects)
      <3>1. PICK own : own = Found(SpecificLicense(active, o), FALSE)
        OBVIOUS
      <3>2. own \in Resolver \cup {None} /\ o \in Objects
        BY <3>1, SpecificTyped, FoundTyped, LicensesAssumption
      <3> DEFINE k == [at |-> IF own = None THEN "climbing" ELSE "found",
                       object |-> o, found |-> own, overtaken |-> FALSE]
      <3>3. k \in LookupType /\ k.object = o
        BY <3>2 DEF LookupType
      <3>4. lookups' = [lookups EXCEPT ![l] = k]
        BY <2>1, <3>1 DEF Miss
      <3> HIDE DEF k
      <3> QED
        BY <3>2, <3>3, <3>4
    <2>2. CASE Climb(l)
      <3>1. PICK found : found = Found(ParentsLicense(active)[lookups[l].object], TRUE)
        OBVIOUS
      <3>2. lookups[l].at = "climbing" /\ lookups[l].object \in Objects
        BY <2>2 DEF Climb, TypeInv, LookupSane
      <3>3. found \in Resolver \cup {None}
        BY <3>1, <3>2, ParentsTyped, FoundTyped
      <3> DEFINE k == [lookups[l] EXCEPT !.at = "found", !.found = found]
      <3>4. k \in LookupType /\ k.object = lookups[l].object
        BY <1>2, <3>3 DEF LookupType
      <3>5. lookups' = [lookups EXCEPT ![l] = k]
        BY <2>2, <3>1 DEF Climb
      <3> HIDE DEF k
      <3> QED
        BY <3>2, <3>4, <3>5
    <2>3. CASE StoreFound(l)
      <3>1. NoLookup \in LookupType /\ NoLookup.at = "idle"
        BY DEF NoLookup, LookupType
      <3> QED
        BY <2>3, <3>1 DEF StoreFound
    <2> QED
      BY <2>1, <2>2, <2>3
  <1>4. lookups' \in [Lookups -> LookupType] /\ \A m \in Lookups : LookupSane(m)'
    <2>1. lookups' \in [Lookups -> LookupType] /\ lookups'[l] = k
          /\ \A m \in Lookups \ {l} : lookups'[m] = lookups[m]
      BY <1>3, Typed
    <2> QED
      BY <2>1, <1>3 DEF LookupSane, TypeInv
  <1>5. cache' \in [Objects -> Resolver \cup {None}] /\ excused' \subseteq Objects
    <2>1. CASE UNCHANGED <<cache, excused>>
      BY <2>1, Typed
    <2>2. CASE StoreFound(l)
      <3>1. lookups[l].found \in Resolver \cup {None} /\ lookups[l].object \in Objects
        BY <1>2, <2>2 DEF LookupType, StoreFound, TypeInv, LookupSane
      <3>2. UNCHANGED <<cache, excused>>
            \/ /\ cache' = [cache EXCEPT ![lookups[l].object] = lookups[l].found]
               /\ excused' \subseteq excused \cup {lookups[l].object}
        BY <2>2 DEF StoreFound
      <3> QED
        BY <3>1, <3>2, Typed
    <2> QED
      BY <2>1, <2>2 DEF Miss, Climb
  <1> QED
    BY <1>1, <1>4, <1>5, Typed, SameRowsTyped, SameRequestsTyped, Assembled

LEMMA NextTyped == TypeInv /\ [Next]_vars => TypeInv'
  <1> SUFFICES ASSUME TypeInv, [Next]_vars PROVE TypeInv'
    OBVIOUS
  <1>1. ASSUME NEW r \in Requests, NEW o \in Assignable, NEW level \in Levels, Start(r, o, FALSE, level)
        PROVE  TypeInv'
    BY <1>1, StartTyped
  <1>2. ASSUME NEW r \in Requests, NEW o \in Assignable, Start(r, o, TRUE, None)
        PROVE  TypeInv'
    BY <1>2, StartTyped
  <1>3. ASSUME NEW r \in Requests, NEW row \in requests[r].ending, EndAssignment(r, row)
        PROVE  TypeInv'
    BY <1>3, EndAssignmentTyped
  <1>4. ASSUME NEW r \in Requests,
               ClearCached(r) \/ ClearCachedFails(r) \/ CreateAssignment(r) \/ RecordCached(r)
        PROVE  TypeInv'
    BY <1>4, ClearCachedTyped, ClearCachedFailsTyped, CreateAssignmentTyped, RecordCachedTyped
  <1>5. ASSUME NEW l \in Lookups, (\E o \in LookedUp : Miss(l, o)) \/ Climb(l) \/ StoreFound(l)
        PROVE  TypeInv'
    BY <1>5, LookupTyped
  <1>6. CASE UNCHANGED vars
    BY <1>6, Typed, SameRowsTyped, SameRequestsTyped, SameLookupsTyped, Assembled DEF vars
  <1> QED
    BY <1>1, <1>2, <1>3, <1>4, <1>5, <1>6 DEF Next

(* Every variable of Licenses keeps its type: the licenses that are cached  *)
(* or found are ones that exist (LicenseResolver, LicenseCache).            *)
THEOREM TypeCorrect == Spec => []TypeOK
  <1>1. TypeInv => TypeOK
    BY DEF TypeInv
  <1> QED
    BY <1>1, InitTyped, NextTyped, PTL DEF Spec

-----------------------------------------------------------------------------
(* The cache.                                                               *)

LEMMA InitCached == Init => CacheInv
  <1> SUFFICES ASSUME Init PROVE CacheInv
    OBVIOUS
  <1>1. \A r \in Requests : RecordingKept(r)
    BY DEF Init, NoRequest, RecordingKept
  <1>2. CacheKept
    BY DEF Init, CacheKept
  <1>3. \A l \in Lookups : LookupKept(l)
    BY DEF Init, NoLookup, LookupKept
  <1> QED
    BY <1>1, <1>2, <1>3, InitTyped, InitAssignment DEF CacheInv

(* Rows, cache and lookups are as before, and whatever is settled now was   *)
(* settled before: nothing is lost, whichever requests are at work.         *)
LEMMA NothingStored ==
    ASSUME CacheInv, lookups' = lookups, cache' = cache, excused \subseteq excused',
           crossed \subseteq crossed',
           \A o \in Objects : Settled(o)' =>
               /\ Settled(o)
               /\ Resolve(active, o)' = Resolve(active, o)
               /\ Found(SpecificLicense(active, o), FALSE)' = Found(SpecificLicense(active, o), FALSE)
    PROVE  CacheKept' /\ \A l \in Lookups : LookupKept(l)'
  <1>1. CacheKept'
    <2> SUFFICES ASSUME NEW o \in Objects \ (excused' \cup crossed'), Settled(o)'
                 PROVE  cache'[o] \in {None, Resolve(active, o)'}
      BY DEF CacheKept
    <2>1. cache[o] \in {None, Resolve(active, o)}
      BY DEF CacheInv, CacheKept
    <2> QED
      BY <2>1
  <1>2. ASSUME NEW l \in Lookups PROVE LookupKept(l)'
    <2>1. lookups[l].at # "idle" => lookups[l].object \in Objects
      BY DEF CacheInv, TypeInv, LookupSane
    <2>2. LookupKept(l)
      BY DEF CacheInv
    <2> SUFFICES ASSUME lookups[l].at # "idle", ~ lookups[l].overtaken, Settled(lookups[l].object)'
                 PROVE  /\ lookups[l].at = "climbing" =>
                               Found(SpecificLicense(active, lookups[l].object), FALSE)' = None
                        /\ lookups[l].at = "found" =>
                               lookups[l].found = Resolve(active, lookups[l].object)'
      BY DEF LookupKept
    <2>3. PICK o \in Objects : o = lookups[l].object
      BY <2>1
    <2>4. Settled(o)'
      BY <2>3
    <2>5. /\ Settled(o)
          /\ Resolve(active, o)' = Resolve(active, o)
          /\ Found(SpecificLicense(active, o), FALSE)' = Found(SpecificLicense(active, o), FALSE)
      BY <2>4
    <2> QED
      BY <2>2, <2>3, <2>5 DEF LookupKept
  <1> QED
    BY <1>1, <1>2

(* A request that is at work on an object and goes on: nothing below the    *)
(* object is settled.                                                       *)
LEMMA UnsettledBelow ==
    ASSUME TypeInv, NEW r \in Requests, UnderWay(r)', NEW o, requests'[r].object = o,
           NEW p, p \in {o} \cup Descendants[o]
    PROVE  ~ Settled(p)'
  BY DEF Settled

LEMMA SettledElsewhere ==
    ASSUME NEW r \in Requests, UnderWay(r), \A q \in Requests \ {r} : requests'[q] = requests[q],
           NEW p, p \notin {requests[r].object} \cup Descendants[requests[r].object], Settled(p)'
    PROVE  Settled(p)
  BY DEF Settled, UnderWay

(* A request changes rows of its object and goes on.                        *)
LEMMA RowsChange ==
    ASSUME CacheInv, NEW r \in Requests, UnderWay(r), UnderWay(r)',
           requests'[r].object = requests[r].object,
           \A q \in Requests \ {r} : requests'[q] = requests[q],
           \A p \in Objects \ {requests[r].object} : RowsOf(p)' = RowsOf(p),
           UNCHANGED <<cache, lookups, crossed, excused>>
    PROVE  CacheKept' /\ \A l \in Lookups : LookupKept(l)'
  <1> DEFINE o == requests[r].object
  <1>1. o \in Objects
    BY RequestOf DEF CacheInv
  <1>2. ASSUME NEW p \in Objects, Settled(p)'
        PROVE  /\ Settled(p)
               /\ Resolve(active, p)' = Resolve(active, p)
               /\ Found(SpecificLicense(active, p), FALSE)' = Found(SpecificLicense(active, p), FALSE)
    <2>1. p \notin {o} \cup Descendants[o]
      BY <1>2, UnsettledBelow DEF CacheInv
    <2>2. Settled(p)
      BY <1>2, <2>1, SettledElsewhere
    <2> HIDE DEF o
    <2>3. \A x \in Objects \ {o} : RowsOf(x)' = RowsOf(x)
      BY DEF o
    <2> QED
      BY <1>1, <2>1, <2>2, <2>3, OthersInheritTheSame
  <1> QED
    BY <1>2, NothingStored

(* A request flushes the cache: what it leaves below its object is right,   *)
(* or excused, and the lookups there are overtaken.                         *)
LEMMA Flushes ==
    ASSUME CacheInv, NEW r \in Requests, UnderWay(r), active' = active, crossed' = crossed,
           \A q \in Requests \ {r} : requests'[q] = requests[q],
           Overtake(requests[r].object),
           \A p \in Objects \ ({requests[r].object} \cup Descendants[requests[r].object]) :
               cache'[p] = cache[p] /\ (p \in excused => p \in excused'),
           \A p \in {requests[r].object} \cup Descendants[requests[r].object] :
               p \notin excused' \cup crossed => cache'[p] \in {None, Resolve(active, p)}
    PROVE  CacheKept' /\ \A l \in Lookups : LookupKept(l)'
  <1> DEFINE o == requests[r].object
  <1>1. o \in Objects
    BY RequestOf DEF CacheInv
  <1>2. CacheKept'
    <2> SUFFICES ASSUME NEW p \in Objects \ (excused' \cup crossed'), Settled(p)'
                 PROVE  cache'[p] \in {None, Resolve(active', p)}
      BY DEF CacheKept
    <2>1. CASE p \in {o} \cup Descendants[o]
      BY <2>1
    <2>2. CASE p \notin {o} \cup Descendants[o]
      <3>1. Settled(p)
        BY <2>2, SettledElsewhere
      <3>2. p \notin excused \cup crossed /\ cache'[p] = cache[p]
        BY <2>2
      <3> QED
        BY <3>1, <3>2 DEF CacheInv, CacheKept
    <2> QED
      BY <2>1, <2>2
  <1>3. ASSUME NEW l \in Lookups PROVE LookupKept(l)'
    <2>1. /\ lookups'[l] = lookups[l] \/ lookups'[l].overtaken
          /\ lookups[l].at # "idle" /\ lookups[l].object \in {o} \cup Descendants[o]
                 => lookups'[l].overtaken
      BY <1>1, Overtaken DEF CacheInv
    <2>2. LookupKept(l)
      BY DEF CacheInv
    <2>3. CASE lookups'[l].overtaken
      BY <2>3 DEF LookupKept
    <2>4. CASE lookups'[l] = lookups[l] /\ ~ lookups'[l].overtaken
      <3> SUFFICES ASSUME lookups[l].at # "idle", Settled(lookups[l].object)'
                   PROVE  /\ lookups[l].at = "climbing" =>
                                 Found(SpecificLicense(active', lookups[l].object), FALSE) = None
                          /\ lookups[l].at = "found" =>
                                 lookups[l].found = Resolve(active', lookups[l].object)
        BY <2>4 DEF LookupKept
      <3>1. PICK p : p = lookups[l].object
        OBVIOUS
      <3>2. p \notin {o} \cup Descendants[o] /\ Settled(p)'
        BY <2>1, <2>4, <3>1
      <3>3. Settled(p)
        BY <3>2, SettledElsewhere
      <3> QED
        BY <2>2, <2>4, <3>1, <3>3 DEF LookupKept
    <2> QED
      BY <2>1, <2>3, <2>4
  <1> QED
    BY <1>2, <1>3

(* What the flush of an object deletes covers all below it, unless there is *)
(* nothing below it.                                                        *)
LEMMA FlushCovers ==
    ASSUME NEW o \in Objects
    PROVE  /\ Flushed(o) = ObjectMap(o) /\ ObjectMap(o) \subseteq {o} \cup Descendants[o]
           /\ ObjectMap(o) # {} => ObjectMap(o) = {o} \cup Descendants[o]
           /\ ObjectMap(o) = {} => Descendants[o] = {}
  <1>1. CASE Children(o) = {}
    BY <1>1, NothingBelow DEF Flushed, ObjectMap
  <1>2. CASE Children(o) # {}
    BY <1>2 DEF Flushed, ObjectMap
  <1> QED
    BY <1>1, <1>2

-----------------------------------------------------------------------------
LEMMA StartCached ==
    ASSUME CacheInv, NEW r \in Requests, NEW o \in Assignable, NEW clear \in BOOLEAN,
           NEW level \in Levels \cup {None}, ~ clear => level \in Levels,
           Start(r, o, clear, level)
    PROVE  CacheKept' /\ (\A l \in Lookups : LookupKept(l)') /\ \A q \in Requests : RecordingKept(q)'
  <1> DEFINE new == [at |-> "ending", clear |-> clear, object |-> o, level |-> level,
                     ending |-> RowsOf(o), ok |-> TRUE]
  <1>1. /\ requests[r].at = "new" /\ requests' = [requests EXCEPT ![r] = new]
        /\ crossed \subseteq crossed' /\ UNCHANGED <<active, cache, lookups, excused>>
    BY DEF Start, RowsOf
  <1>2. new.at = "ending"
    OBVIOUS
  <1> HIDE DEF new
  <1>3. requests'[r] = new /\ \A q \in Requests \ {r} : requests'[q] = requests[q]
    BY <1>1, Typed DEF CacheInv
  <1>4. \A p : Settled(p)' => Settled(p)
    BY <1>1, <1>3 DEF Settled, UnderWay
  <1>5. /\ \A p : Resolve(active, p)' = Resolve(active, p)
        /\ \A p : Found(SpecificLicense(active, p), FALSE)' = Found(SpecificLicense(active, p), FALSE)
    BY <1>1
  <1>6. CacheKept' /\ \A l \in Lookups : LookupKept(l)'
    BY <1>1, <1>4, <1>5, NothingStored
  <1>7. RecordingKept(r)'
    BY <1>2, <1>3 DEF RecordingKept
  <1>8. ASSUME NEW q \in Requests \ {r} PROVE RecordingKept(q)'
    <2>1. RecordingKept(q) /\ requests'[q] = requests[q] /\ active' = active /\ crossed \subseteq crossed'
      BY <1>1, <1>3 DEF CacheInv
    <2> QED
      BY <2>1 DEF RecordingKept, RowsOf
  <1> QED
    BY <1>6, <1>7, <1>8

(* What a request does to its rows leaves the others' alone.                *)
LEMMA OthersRecording ==
    ASSUME CacheInv, NEW r \in Requests, UnderWay(r), crossed' = crossed,
           \A q \in Requests \ {r} : requests'[q] = requests[q],
           \A p \in Objects \ {requests[r].object} : RowsOf(p)' = RowsOf(p)
    PROVE  \A q \in Requests \ {r} : RecordingKept(q)'
  <1> SUFFICES ASSUME NEW q \in Requests \ {r}, requests[q].at = "recording", requests[q].ok,
                      requests[q].object \notin crossed
               PROVE  \E x \in active' : /\ RowsOf(requests[q].object)' = {x}
                                         /\ x.level = requests[q].level
    BY DEF RecordingKept
  <1>1. UnderWay(q) /\ requests[q].object \in Objects
    BY RequestOf DEF CacheInv, UnderWay
  <1>2. AloneKept(q)
    BY <1>1 DEF CacheInv, AssignmentInv, RequestKept
  <1>3. requests[r].object # requests[q].object
    BY <1>1, <1>2 DEF AloneKept
  <1>4. PICK x \in active : RowsOf(requests[q].object) = {x} /\ x.level = requests[q].level
    BY DEF CacheInv, RecordingKept
  <1>5. RowsOf(requests[q].object)' = {x}
    <2>1. PICK p \in Objects : p = requests[q].object
      BY <1>1
    <2>2. RowsOf(p)' = RowsOf(p)
      BY <2>1, <1>3
    <2>3. requests'[q].object = requests[q].object
      OBVIOUS
    <2> QED
      BY <2>1, <2>2, <2>3, <1>4
  <1>6. x \in active'
    BY <1>5 DEF RowsOf
  <1> QED
    BY <1>4, <1>5, <1>6

LEMMA EndAssignmentCached ==
    ASSUME CacheInv, NEW r \in Requests, NEW row \in requests[r].ending, EndAssignment(r, row)
    PROVE  CacheKept' /\ (\A l \in Lookups : LookupKept(l)') /\ \A q \in Requests : RecordingKept(q)'
  <1>1. /\ UnderWay(r) /\ requests[r].at = "ending" /\ UNCHANGED <<cache, lookups, crossed, excused>>
        /\ active' = active \/ active' = active \ {row}
    BY DEF EndAssignment, UnderWay
  <1>2. PICK q : q = requests[r]
    OBVIOUS
  <1>3. q \in RequestType /\ q.object \in Objects /\ \A x \in q.ending : x.object = q.object
    BY <1>1, <1>2, RequestOf DEF CacheInv
  <1>4. PICK new : /\ requests' = [requests EXCEPT ![r] = new]
                   /\ new.object = q.object /\ new.at = "ending"
    <2>1. CASE requests' = [requests EXCEPT ![r] = [@ EXCEPT !.ending = requests[r].ending \ {row}]]
      <3> DEFINE left == [q EXCEPT !.ending = q.ending \ {row}]
      <3>1. requests' = [requests EXCEPT ![r] = left]
        BY <2>1, <1>2
      <3>2. left.object = q.object /\ left.at = q.at
        BY <1>3, LeftTyped
      <3> HIDE DEF left
      <3> QED
        BY <3>1, <3>2, <1>1, <1>2
    <2>2. CASE requests' = [requests EXCEPT ![r] =
                               [@ EXCEPT !.ending = requests[r].ending \ {row}, !.ok = FALSE]]
      <3> DEFINE left == [q EXCEPT !.ending = q.ending \ {row}, !.ok = FALSE]
      <3>1. requests' = [requests EXCEPT ![r] = left]
        BY <2>2, <1>2
      <3>2. left.object = q.object /\ left.at = q.at
        BY <1>3, LeftFailingTyped
      <3> HIDE DEF left
      <3> QED
        BY <3>1, <3>2, <1>1, <1>2
    <2> QED
      BY <2>1, <2>2 DEF EndAssignment
  <1>5. requests'[r] = new /\ \A p \in Requests \ {r} : requests'[p] = requests[p]
    BY <1>4, Typed DEF CacheInv
  <1>6. row.object = requests[r].object
    BY <1>2, <1>3
  <1>7. \A p \in Objects \ {requests[r].object} : RowsOf(p)' = RowsOf(p)
    BY <1>1, <1>6 DEF RowsOf
  <1>8. UnderWay(r)' /\ requests'[r].object = requests[r].object
    BY <1>2, <1>4, <1>5 DEF UnderWay
  <1>9. CacheKept' /\ \A l \in Lookups : LookupKept(l)'
    BY <1>1, <1>5, <1>7, <1>8, RowsChange
  <1>10. RecordingKept(r)'
    BY <1>4, <1>5 DEF RecordingKept
  <1> QED
    BY <1>1, <1>5, <1>7, <1>9, <1>10, OthersRecording

LEMMA ClearCachedCached ==
    ASSUME CacheInv, NEW r \in Requests, ClearCached(r)
    PROVE  CacheKept' /\ (\A l \in Lookups : LookupKept(l)') /\ \A q \in Requests : RecordingKept(q)'
  <1> DEFINE o == requests[r].object
             at == IF GoesOn(requests[r]) THEN "creating" ELSE "done"
  <1>1. /\ UnderWay(r) /\ UNCHANGED <<active, crossed>> /\ Overtake(o)
        /\ cache' = [p \in Objects |-> IF p \in Flushed(o) THEN None ELSE cache[p]]
        /\ excused' = (excused \ ObjectMap(o))
                        \cup (IF ObjectMap(o) = {} /\ cache[o] # None THEN {o} ELSE {})
        /\ requests' = [requests EXCEPT ![r] = [@ EXCEPT !.at = at]]
    BY DEF ClearCached, UnderWay
  <1>2. at \in {"creating", "done"} /\ (at = "creating" => ~ requests[r].clear)
    BY DEF GoesOn
  <1>3. o \in Objects /\ Descendants[o] \subseteq Objects
    BY <1>1, RequestOf DEF CacheInv
  <1>4. requests'[r].at = at /\ \A q \in Requests \ {r} : requests'[q] = requests[q]
    <2> HIDE DEF at
    <2> QED
      BY <1>1, <1>2, MoveTyped DEF CacheInv
  <1> HIDE DEF at
  <1>5. \A p \in Objects \ ({o} \cup Descendants[o]) :
           cache'[p] = cache[p] /\ (p \in excused => p \in excused')
    <2> HIDE DEF o
    <2> QED
      BY <1>1, <1>3, FlushCovers
  <1>6. ASSUME NEW p \in {o} \cup Descendants[o], p \notin excused'
        PROVE  cache'[p] = None
    <2> HIDE DEF o
    <2>1. CASE ObjectMap(o) # {}
      BY <2>1, <1>1, <1>3, FlushCovers
    <2>2. CASE ObjectMap(o) = {}
      <3>1. p = o /\ Flushed(o) = {}
        BY <2>2, <1>3, FlushCovers
      <3>2. cache[o] = None
        BY <2>2, <3>1, <1>1, <1>6
      <3> QED
        BY <3>1, <3>2, <1>1, <1>3
    <2> QED
      BY <2>1, <2>2
  <1>7. CacheKept' /\ \A l \in Lookups : LookupKept(l)'
    BY <1>1, <1>4, <1>5, <1>6, Flushes
  <1>8. RecordingKept(r)'
    BY <1>2, <1>4 DEF RecordingKept
  <1>9. \A p \in Objects \ {o} : RowsOf(p)' = RowsOf(p)
    BY <1>1 DEF RowsOf
  <1> QED
    BY <1>1, <1>4, <1>7, <1>8, <1>9, OthersRecording

LEMMA ClearCachedFailsCached ==
    ASSUME CacheInv, NEW r \in Requests, ClearCachedFails(r)
    PROVE  CacheKept' /\ (\A l \in Lookups : LookupKept(l)') /\ \A q \in Requests : RecordingKept(q)'
  <1> DEFINE o == requests[r].object
  <1>1. /\ UnderWay(r) /\ UNCHANGED <<active, cache, crossed>> /\ Overtake(o)
        /\ excused' = excused \cup {o} \cup Descendants[o]
        /\ requests' = [requests EXCEPT ![r] = [@ EXCEPT !.at = "done", !.ok = FALSE]]
    BY DEF ClearCachedFails, UnderWay
  <1>2. requests'[r].at = "done" /\ \A q \in Requests \ {r} : requests'[q] = requests[q]
    BY <1>1, MoveTyped DEF CacheInv
  <1>3. CacheKept' /\ \A l \in Lookups : LookupKept(l)'
    BY <1>1, <1>2, Flushes
  <1>4. RecordingKept(r)'
    BY <1>2 DEF RecordingKept
  <1>5. \A p \in Objects \ {o} : RowsOf(p)' = RowsOf(p)
    BY <1>1 DEF RowsOf
  <1> QED
    BY <1>1, <1>2, <1>3, <1>4, <1>5, OthersRecording

LEMMA CreateAssignmentCached ==
    ASSUME CacheInv, NEW r \in Requests, CreateAssignment(r)
    PROVE  CacheKept' /\ (\A l \in Lookups : LookupKept(l)') /\ \A q \in Requests : RecordingKept(q)'
  <1> DEFINE o == requests[r].object
  <1>1. /\ UnderWay(r) /\ requests[r].at = "creating" /\ UNCHANGED <<cache, lookups, crossed, excused>>
        /\ \/ requests' = [requests EXCEPT ![r] = [@ EXCEPT !.at = "recording"]]
           \/ /\ requests' = [requests EXCEPT ![r] = [@ EXCEPT !.at = "recording", !.ok = FALSE]]
              /\ active' = active
    BY DEF CreateAssignment, UnderWay
  <1>2. PICK row : row = [object |-> o, level |-> requests[r].level, by |-> r]
    OBVIOUS
  <1>3. row.object = o /\ row.level = requests[r].level
    BY <1>2
  <1>4. active' = active \/ active' = active \cup {row}
    BY <1>2 DEF CreateAssignment
  <1>5. ~ requests[r].clear
    BY <1>1, RequestOf DEF CacheInv
  <1>6. /\ requests'[r].at = "recording" /\ requests'[r].object = o
        /\ requests'[r].level = requests[r].level
        /\ \A q \in Requests \ {r} : requests'[q] = requests[q]
    BY <1>1, <1>5, MoveTyped DEF CacheInv
  <1>7. \A p \in Objects \ {o} : RowsOf(p)' = RowsOf(p)
    BY <1>3, <1>4 DEF RowsOf
  <1>8. UnderWay(r)'
    BY <1>6 DEF UnderWay
  <1>9. CacheKept' /\ \A l \in Lookups : LookupKept(l)'
    BY <1>1, <1>6, <1>7, <1>8, RowsChange
  <1>10. RecordingKept(r)'
    <2> SUFFICES ASSUME requests'[r].ok, o \notin crossed
                 PROVE  \E x \in active' : RowsOf(o)' = {x} /\ x.level = requests[r].level
      BY <1>1, <1>6 DEF RecordingKept
    <2>1. RowsOf(o) = {}
      BY <1>1 DEF CacheInv, AssignmentInv, RequestKept, CreatingKept
    <2>2. active' = active \cup {row}
      <3>1. CASE requests' = [requests EXCEPT ![r] = [@ EXCEPT !.at = "recording", !.ok = FALSE]]
        <4>1. requests[r] \in RequestType
          BY <1>1, RequestOf DEF CacheInv
        <4>2. requests'[r] = [requests[r] EXCEPT !.at = "recording", !.ok = FALSE]
          BY <3>1, Typed DEF CacheInv
        <4>3. ~ requests'[r].ok
          BY <4>1, <4>2, MovedFailingTyped DEF Steps
        <4> QED
          BY <4>3
      <3>2. CASE ~ (requests' = [requests EXCEPT ![r] = [@ EXCEPT !.at = "recording", !.ok = FALSE]])
        BY <3>2, <1>2 DEF CreateAssignment
      <3> QED
        BY <3>1, <3>2
    <2>3. RowsOf(o)' = {row}
      BY <2>1, <2>2, <1>3, <1>6 DEF RowsOf
    <2> QED
      BY <2>2, <2>3, <1>3
  <1> QED
    BY <1>1, <1>6, <1>7, <1>9, <1>10, OthersRecording

(* The answer for an object with one row is that row.                       *)
LEMMA OneRowResolves ==
    ASSUME NEW o \in Objects, NEW x, RowsOf(o) = {x}, x.level \in Levels
    PROVE  Resolve(active, o) = [level |-> x.level, inherited |-> FALSE]
  <1>1. {y.level : y \in {z \in active : z.object = o}} = {x.level}
    BY DEF RowsOf
  <1>2. x.level \in Nat /\ x.level # 0
    BY LicensesAssumption
  <1>3. SpecificLicense(active, o) = x.level
    <2>1. SpecificLicense(active, o) = Max({x.level, 0})
      BY <1>1 DEF SpecificLicense, Strictest, NoLicense
    <2>2. \A m \in {x.level, 0} : (\A y \in {x.level, 0} : m >= y) <=> m = x.level
      BY <1>2
    <2> QED
      BY <2>1, <2>2, <1>2 DEF Max
  <1>4. Found(SpecificLicense(active, o), FALSE) = [level |-> x.level, inherited |-> FALSE]
    BY <1>2, <1>3 DEF Found, NoLicense
  <1>5. [level |-> x.level, inherited |-> FALSE] \in Resolver
    BY DEF Resolver
  <1>6. [level |-> x.level, inherited |-> FALSE] # None
    BY <1>5, NoneAssumption
  <1> QED
    BY <1>4, <1>6 DEF Resolve

LEMMA RecordCachedCached ==
    ASSUME CacheInv, NEW r \in Requests, RecordCached(r)
    PROVE  CacheKept' /\ (\A l \in Lookups : LookupKept(l)') /\ \A q \in Requests : RecordingKept(q)'
  <1> DEFINE o == requests[r].object
             own == [level |-> requests[r].level, inherited |-> FALSE]
  <1>1. /\ UnderWay(r) /\ requests[r].at = "recording" /\ UNCHANGED <<active, crossed>> /\ Overtake(o)
        /\ cache' = [p \in Objects |->
                        CASE p = o -> own
                          [] p \in Flushed(o) /\ p # o -> None
                          [] OTHER -> cache[p]]
        /\ excused' = (excused \ ({o} \cup ObjectMap(o))) \cup (IF requests[r].ok THEN {} ELSE {o})
        /\ requests' = [requests EXCEPT ![r] = [@ EXCEPT !.at = "done"]]
    BY DEF RecordCached, UnderWay
  <1>2. o \in Objects /\ Descendants[o] \subseteq Objects /\ requests[r].level \in Levels
    BY <1>1, RequestOf DEF CacheInv
  <1>3. requests'[r].at = "done" /\ \A q \in Requests \ {r} : requests'[q] = requests[q]
    BY <1>1, MoveTyped DEF CacheInv
  <1>4. ASSUME requests[r].ok, o \notin crossed PROVE Resolve(active, o) = own
    <2>1. PICK x \in active : RowsOf(o) = {x} /\ x.level = requests[r].level
      BY <1>1, <1>4 DEF CacheInv, RecordingKept
    <2> QED
      BY <2>1, <1>2, OneRowResolves
  <1> HIDE DEF own
  <1>5. \A p \in Objects \ ({o} \cup Descendants[o]) :
           cache'[p] = cache[p] /\ (p \in excused => p \in excused')
    <2> HIDE DEF o
    <2> QED
      BY <1>1, <1>2, FlushCovers
  <1>6. ASSUME NEW p \in {o} \cup Descendants[o], p \notin excused' \cup crossed
        PROVE  cache'[p] \in {None, Resolve(active, p)}
    <2>1. CASE p = o
      <3>1. requests[r].ok
        BY <2>1, <1>1, <1>6
      <3>2. cache'[o] = own
        BY <1>1, <1>2
      <3> QED
        BY <2>1, <3>1, <3>2, <1>4, <1>6
    <2>2. CASE p # o
      <3> HIDE DEF o
      <3>1. p \in Flushed(o) /\ p \in Objects
        BY <2>2, <1>2, <1>6, FlushCovers
      <3> QED
        BY <2>2, <3>1, <1>1
    <2> QED
      BY <2>1, <2>2
  <1>7. CacheKept' /\ \A l \in Lookups : LookupKept(l)'
    BY <1>1, <1>3, <1>5, <1>6, Flushes
  <1>8. RecordingKept(r)'
    BY <1>3 DEF RecordingKept
  <1>9. \A p \in Objects \ {o} : RowsOf(p)' = RowsOf(p)
    BY <1>1 DEF RowsOf
  <1> QED
    BY <1>1, <1>3, <1>7, <1>8, <1>9, OthersRecording

(* A lookup goes on: what it has found since it began is right.             *)
LEMMA LookupMoves ==
    ASSUME CacheInv, NEW l \in Lookups, NEW k, lookups' = [lookups EXCEPT ![l] = k],
           UNCHANGED <<active, requests, crossed>>,
           k.at # "idle" /\ ~ k.overtaken /\ Settled(k.object) =>
               /\ k.at = "climbing" => Found(SpecificLicense(active, k.object), FALSE) = None
               /\ k.at = "found" => k.found = Resolve(active, k.object)
    PROVE  (\A m \in Lookups : LookupKept(m)') /\ \A q \in Requests : RecordingKept(q)'
  <1>1. lookups'[l] = k /\ \A m \in Lookups \ {l} : lookups'[m] = lookups[m]
    BY Typed DEF CacheInv
  <1>2. \A p : Settled(p)' <=> Settled(p)
    BY DEF Settled, UnderWay
  <1>3. LookupKept(l)'
    <2> SUFFICES ASSUME k.at # "idle", ~ k.overtaken, Settled(k.object)
                 PROVE  /\ k.at = "climbing" => Found(SpecificLicense(active, k.object), FALSE) = None
                        /\ k.at = "found" => k.found = Resolve(active, k.object)
      BY <1>1, <1>2 DEF LookupKept
    <2> QED
      OBVIOUS
  <1>4. ASSUME NEW m \in Lookups \ {l} PROVE LookupKept(m)'
    <2>1. LookupKept(m) /\ lookups'[m] = lookups[m]
      BY <1>1 DEF CacheInv
    <2>2. Settled(lookups[m].object)' <=> Settled(lookups[m].object)
      BY <2>1, <1>2
    <2> QED
      BY <2>1, <2>2 DEF LookupKept
  <1>5. \A q \in Requests : RecordingKept(q)'
    BY DEF CacheInv, RecordingKept, RowsOf
  <1> QED
    BY <1>3, <1>4, <1>5

LEMMA SameCache ==
    ASSUME CacheKept, UNCHANGED <<active, requests, crossed, cache, excused>>
    PROVE  CacheKept'
  <1>1. \A p : Settled(p)' <=> Settled(p)
    BY DEF Settled, UnderWay
  <1> QED
    BY <1>1 DEF CacheKept

LEMMA MissCached ==
    ASSUME CacheInv, NEW l \in Lookups, NEW o \in LookedUp, Miss(l, o)
    PROVE  CacheKept' /\ (\A m \in Lookups : LookupKept(m)') /\ \A q \in Requests : RecordingKept(q)'
  <1>1. PICK own : own = Found(SpecificLicense(active, o), FALSE)
    OBVIOUS
  <1> DEFINE k == [at |-> IF own = None THEN "climbing" ELSE "found",
                   object |-> o, found |-> own, overtaken |-> FALSE]
  <1>2. lookups' = [lookups EXCEPT ![l] = k] /\ UNCHANGED <<active, requests, crossed, cache, excused>>
    BY <1>1 DEF Miss
  <1>3. /\ k.at = "climbing" => Found(SpecificLicense(active, k.object), FALSE) = None
        /\ k.at = "found" => k.found = Resolve(active, k.object)
    BY <1>1 DEF Resolve
  <1>4. CacheKept'
    BY <1>2, SameCache DEF CacheInv
  <1> HIDE DEF k
  <1> QED
    BY <1>2, <1>3, <1>4, LookupMoves

LEMMA ClimbCached ==
    ASSUME CacheInv, NEW l \in Lookups, Climb(l)
    PROVE  CacheKept' /\ (\A m \in Lookups : LookupKept(m)') /\ \A q \in Requests : RecordingKept(q)'
  <1>1. PICK found : found = Found(ParentsLicense(active)[lookups[l].object], TRUE)
    OBVIOUS
  <1>2. lookups[l] \in LookupType /\ lookups[l].at = "climbing" /\ LookupKept(l)
    BY Typed DEF CacheInv, Climb
  <1> DEFINE k == [lookups[l] EXCEPT !.at = "found", !.found = found]
  <1>3. lookups' = [lookups EXCEPT ![l] = k] /\ UNCHANGED <<active, requests, crossed, cache, excused>>
    BY <1>1 DEF Climb
  <1>4. /\ k.at = "found" /\ k.found = found /\ k.object = lookups[l].object
        /\ k.overtaken = lookups[l].overtaken
    BY <1>2 DEF LookupType
  <1> HIDE DEF k
  <1>5. ~ k.overtaken /\ Settled(k.object) => k.found = Resolve(active, k.object)
    <2> SUFFICES ASSUME ~ k.overtaken, Settled(k.object) PROVE k.found = Resolve(active, k.object)
      OBVIOUS
    <2>1. Found(SpecificLicense(active, k.object), FALSE) = None
      BY <1>2, <1>4 DEF LookupKept
    <2> QED
      BY <2>1, <1>1, <1>4 DEF Resolve
  <1>6. CacheKept'
    BY <1>3, SameCache DEF CacheInv
  <1> QED
    BY <1>3, <1>4, <1>5, <1>6, LookupMoves

LEMMA StoreFoundCached ==
    ASSUME CacheInv, NEW l \in Lookups, StoreFound(l)
    PROVE  CacheKept' /\ (\A m \in Lookups : LookupKept(m)') /\ \A q \in Requests : RecordingKept(q)'
  <1> DEFINE k == lookups[l]
  <1>1. /\ k.at = "found" /\ lookups' = [lookups EXCEPT ![l] = NoLookup]
        /\ UNCHANGED <<active, requests, crossed>>
        /\ \/ UNCHANGED <<cache, excused>>
           \/ /\ cache' = [cache EXCEPT ![k.object] = k.found]
              /\ k.overtaken => excused' = excused \cup {k.object}
              /\ ~ k.overtaken => excused' = excused \ {k.object}
    BY DEF StoreFound
  <1>2. NoLookup.at = "idle"
    BY DEF NoLookup
  <1>3. k.object \in Objects /\ LookupKept(l)
    BY <1>1 DEF CacheInv, TypeInv, LookupSane
  <1>4. \A p : Settled(p)' <=> Settled(p)
    BY <1>1 DEF Settled, UnderWay
  <1>5. CacheKept'
    <2> SUFFICES ASSUME NEW p \in Objects \ (excused' \cup crossed), Settled(p)
                 PROVE  cache'[p] \in {None, Resolve(active, p)}
      BY <1>1, <1>4 DEF CacheKept
    <2>1. CASE UNCHANGED <<cache, excused>>
      BY <2>1 DEF CacheInv, CacheKept
    <2>2. CASE p # k.object /\ cache' = [cache EXCEPT ![k.object] = k.found]
      <3>1. cache'[p] = cache[p] /\ p \notin excused
        BY <2>2, <1>1, Typed DEF CacheInv
      <3> QED
        BY <3>1 DEF CacheInv, CacheKept
    <2>3. CASE p = k.object /\ cache' = [cache EXCEPT ![k.object] = k.found]
               /\ (k.overtaken => excused' = excused \cup {k.object})
      <3>1. cache'[p] = k.found /\ ~ k.overtaken
        BY <2>3, <1>3, Typed DEF CacheInv
      <3>2. k.found = Resolve(active, p)
        BY <2>3, <3>1, <1>1, <1>3 DEF LookupKept
      <3> QED
        BY <3>1, <3>2
    <2> QED
      BY <2>1, <2>2, <2>3, <1>1
  <1>6. (\A m \in Lookups : LookupKept(m)') /\ \A q \in Requests : RecordingKept(q)'
    BY <1>1, <1>2, LookupMoves
  <1> QED
    BY <1>5, <1>6

-----------------------------------------------------------------------------
LEMMA NextCached == CacheInv /\ [Next]_vars => CacheInv'
  <1> SUFFICES ASSUME CacheInv, [Next]_vars PROVE CacheInv'
    OBVIOUS
  <1> DEFINE Goal == CacheKept' /\ (\A m \in Lookups : LookupKept(m)')
                       /\ \A q \in Requests : RecordingKept(q)'
  <1>1. ASSUME NEW r \in Requests, NEW o \in Assignable, NEW level \in Levels, Start(r, o, FALSE, level)
        PROVE  Goal
    BY <1>1, StartCached
  <1>2. ASSUME NEW r \in Requests, NEW o \in Assignable, Start(r, o, TRUE, None)
        PROVE  Goal
    BY <1>2, StartCached
  <1>3. ASSUME NEW r \in Requests, NEW row \in requests[r].ending, EndAssignment(r, row)
        PROVE  Goal
    BY <1>3, EndAssignmentCached
  <1>4. ASSUME NEW r \in Requests,
               ClearCached(r) \/ ClearCachedFails(r) \/ CreateAssignment(r) \/ RecordCached(r)
        PROVE  Goal
    BY <1>4, ClearCachedCached, ClearCachedFailsCached, CreateAssignmentCached, RecordCachedCached
  <1>5. ASSUME NEW l \in Lookups, (\E o \in LookedUp : Miss(l, o)) \/ Climb(l) \/ StoreFound(l)
        PROVE  Goal
    BY <1>5, MissCached, ClimbCached, StoreFoundCached
  <1>6. ASSUME UNCHANGED vars PROVE Goal
    <2>1. CacheKept'
      BY <1>6, SameCache DEF CacheInv, vars
    <2>2. \A p : Settled(p)' <=> Settled(p)
      BY <1>6 DEF Settled, UnderWay, vars
    <2>3. \A m \in Lookups : LookupKept(m)'
      <3> SUFFICES ASSUME NEW m \in Lookups PROVE LookupKept(m)'
        OBVIOUS
      <3>1. LookupKept(m) /\ lookups'[m] = lookups[m] /\ active' = active
        BY <1>6 DEF CacheInv, vars
      <3>2. Settled(lookups[m].object)' <=> Settled(lookups[m].object)
        BY <3>1, <2>2
      <3> QED
        BY <3>1, <3>2 DEF LookupKept
    <2>4. \A q \in Requests : RecordingKept(q)'
      BY <1>6 DEF CacheInv, RecordingKept, RowsOf, vars
    <2> QED
      BY <2>1, <2>3, <2>4
  <1>7. Goal
    BY <1>1, <1>2, <1>3, <1>4, <1>5, <1>6 DEF Next
  <1>8. TypeInv' /\ AssignmentInv'
    BY NextTyped, NextAssignment DEF CacheInv
  <1> QED
    BY <1>7, <1>8 DEF CacheInv

(* A cached license is the one the rows give, for every object no request   *)
(* is settling (LicenseCache.setAssignment and clearAssignment, against     *)
(* getLicenseResolver), with any number of requests, lookups and failures.  *)
(* Excused are the objects that two requests worked on at a time, and those *)
(* whose answer a lookup stored that a request had overtaken, whose license *)
(* was cleared while they had no children, whose new row could not be       *)
(* created, or that a failed flush was for.                                 *)
THEOREM CacheCurrentAlways == Spec => []CacheCurrent
  <1>1. CacheInv => CacheCurrent
    BY DEF CacheInv, CacheKept, CacheCurrent, Settled
  <1> QED
    BY <1>1, InitCached, NextCached, PTL DEF Spec

-----------------------------------------------------------------------------
(* Inheritance.  R[d][o] are the objects found from o upwards in d + 1      *)
(* steps, stopping at objects that have a license of their own.             *)

Upwards(above) ==
    [o \in Objects |->
        Parents(o) \cup UNION {above[p] : p \in {x \in Parents(o) :
                                  SpecificLicense(active, x) = NoLicense}}]

NothingAbove == [o \in Objects |-> {}]

Reaching(R) ==
    R = [depth \in 0 .. MaxDepth + 1 |->
            Upwards(IF depth = 0 THEN NothingAbove ELSE R[depth - 1])]

LEMMA ReachExists == \E R : Reaching(R)
  <1> DEFINE Upto(m, R) ==
                 R = [depth \in 0 .. m |->
                         Upwards(IF depth = 0 THEN NothingAbove ELSE R[depth - 1])]
             S == {n \in Nat : \E R : Upto(n, R)}
  <1>1. 0 \in S
    <2> DEFINE R == [depth \in 0 .. 0 |-> Upwards(NothingAbove)]
    <2>1. R = [depth \in 0 .. 0 |-> Upwards(IF depth = 0 THEN NothingAbove ELSE R[depth - 1])]
      OBVIOUS
    <2> HIDE DEF R
    <2> QED
      BY <2>1
  <1>2. ASSUME NEW n \in Nat, n \in S PROVE n + 1 \in S
    <2>1. PICK R : Upto(n, R)
      BY <1>2
    <2> DEFINE Longer == [depth \in 0 .. n + 1 |->
                             Upwards(IF depth = 0 THEN NothingAbove ELSE R[depth - 1])]
    <2>2. \A d \in 0 .. n : Longer[d] = R[d]
      BY <2>1
    <2>3. \A d \in 0 .. n + 1 : d # 0 => d - 1 \in 0 .. n
      OBVIOUS
    <2>4. \A d \in 0 .. n + 1 :
             (IF d = 0 THEN NothingAbove ELSE R[d - 1])
               = (IF d = 0 THEN NothingAbove ELSE Longer[d - 1])
      <3> HIDE DEF Longer
      <3> QED
        BY <2>2, <2>3
    <2>5. Upto(n + 1, Longer)
      BY <2>4
    <2> HIDE DEF Longer, Upto
    <2> QED
      BY <2>5
  <1>3. MaxDepth + 1 \in S
    <2> HIDE DEF S
    <2> QED
      BY <1>1, <1>2, NaturalsFromZero, LicensesAssumption
  <1> QED
    BY <1>3 DEF Reaching

(* One more step, spelled out.                                              *)
LEMMA ReachIs ==
    ASSUME NEW R, Reaching(R)
    PROVE  /\ \A o \in Objects : R[0][o] = Parents(o)
           /\ \A d \in Nat, o \in Objects : \A a : d <= MaxDepth =>
                 (a \in R[d + 1][o] <=>
                     \/ a \in Parents(o)
                     \/ \E p \in Parents(o) : SpecificLicense(active, p) = NoLicense /\ a \in R[d][p])
  <1>1. R[0] = Upwards(NothingAbove)
    BY LicensesAssumption DEF Reaching
  <1>2. \A d \in Nat : d <= MaxDepth => R[d + 1] = Upwards(R[d])
    BY LicensesAssumption DEF Reaching
  <1>3. \A o \in Objects : Upwards(NothingAbove)[o] = Parents(o)
    BY DEF Upwards, NothingAbove, Parents
  <1>4. \A above, a : \A o \in Objects :
           a \in Upwards(above)[o] <=>
               \/ a \in Parents(o)
               \/ \E p \in Parents(o) : SpecificLicense(active, p) = NoLicense /\ a \in above[p]
    BY DEF Upwards
  <1> QED
    BY <1>1, <1>2, <1>3, <1>4

(* A set that holds the parents of each of its unlicensed members, and of   *)
(* an object, holds whatever is reached from the object.                    *)
LEMMA ReachStaysIn ==
    ASSUME NEW R, Reaching(R), NEW o \in Objects, NEW S \in SUBSET Objects,
           Parents(o) \subseteq S,
           \A x \in S : SpecificLicense(active, x) = NoLicense => Parents(x) \subseteq S
    PROVE  \A d \in Nat : d <= MaxDepth + 1 => R[d][o] \subseteq S
  <1> DEFINE U == {x \in S : SpecificLicense(active, x) = NoLicense} \cup {o}
             D == {d \in Nat : d <= MaxDepth + 1 => \A x \in U : R[d][x] \subseteq S}
  <1>1. \A x \in U : x \in Objects /\ Parents(x) \subseteq S
    OBVIOUS
  <1>2. 0 \in D
    BY <1>1, ReachIs
  <1>3. ASSUME NEW d \in Nat, d \in D PROVE d + 1 \in D
    <2> SUFFICES ASSUME d + 1 <= MaxDepth + 1, NEW x \in U, NEW a \in R[d + 1][x] PROVE a \in S
      OBVIOUS
    <2>1. d <= MaxDepth /\ d <= MaxDepth + 1
      BY LicensesAssumption
    <2>2. CASE a \in Parents(x)
      BY <2>2, <1>1
    <2>3. ASSUME NEW p \in Parents(x), SpecificLicense(active, p) = NoLicense, a \in R[d][p]
          PROVE  a \in S
      <3>1. p \in U
        BY <2>3, <1>1
      <3> QED
        BY <3>1, <2>1, <2>3, <1>3
    <2> QED
      BY <2>1, <2>2, <2>3, <1>1, ReachIs
  <1>4. Nat \subseteq D
    <2> HIDE DEF D
    <2> QED
      BY <1>2, <1>3, NaturalsFromZero
  <1> QED
    BY <1>4

(* More steps reach no less, and the parents of what is reached.            *)
LEMMA ReachGrows ==
    ASSUME NEW R, Reaching(R)
    PROVE  \A d \in Nat : d <= MaxDepth =>
              \A o \in Objects :
                 /\ R[d][o] \subseteq R[d + 1][o]
                 /\ \A x \in R[d][o] : SpecificLicense(active, x) = NoLicense
                                           => Parents(x) \subseteq R[d + 1][o]
  <1> DEFINE Grows(d) == \A o \in Objects : R[d][o] \subseteq R[d + 1][o]
             Climbs(d) == \A o \in Objects : \A x \in R[d][o] :
                             SpecificLicense(active, x) = NoLicense => Parents(x) \subseteq R[d + 1][o]
             D == {d \in Nat : d <= MaxDepth =>
                      /\ Grows(d) /\ Climbs(d) /\ \A o \in Objects : Parents(o) \subseteq R[d][o]}
  <1>1. \A o \in Objects : Parents(o) \subseteq Objects
    BY DEF Parents
  <1>2. 0 \in D
    <2>1. 0 <= MaxDepth /\ \A o \in Objects : Parents(o) = R[0][o]
      BY ReachIs, LicensesAssumption
    <2>2. \A o \in Objects : \A a :
             a \in R[0 + 1][o] <=>
                     \/ a \in Parents(o)
                     \/ \E p \in Parents(o) : SpecificLicense(active, p) = NoLicense /\ a \in R[0][p]
      BY <2>1, ReachIs
    <2> QED
      BY <2>1, <2>2, <1>1
  <1>3. ASSUME NEW d \in Nat, d \in D PROVE d + 1 \in D
    <2> SUFFICES ASSUME d + 1 <= MaxDepth
                 PROVE  /\ Grows(d + 1) /\ Climbs(d + 1)
                        /\ \A o \in Objects : Parents(o) \subseteq R[d + 1][o]
      OBVIOUS
    <2>1. d <= MaxDepth /\ d + 1 \in Nat
      BY LicensesAssumption
    <2>2. Grows(d) /\ Climbs(d) /\ \A o \in Objects : Parents(o) \subseteq R[d][o]
      BY <2>1, <1>3
    <2>3. \A o \in Objects : \A a :
             a \in R[d + 1][o] <=>
                     \/ a \in Parents(o)
                     \/ \E p \in Parents(o) : SpecificLicense(active, p) = NoLicense /\ a \in R[d][p]
      BY <2>1, ReachIs
    <2>4. \A o \in Objects : \A a :
             a \in R[d + 1 + 1][o] <=>
                     \/ a \in Parents(o)
                     \/ \E p \in Parents(o) : SpecificLicense(active, p) = NoLicense /\ a \in R[d + 1][p]
      BY <2>1, ReachIs
    <2>5. Grows(d + 1)
      BY <2>2, <2>3, <2>4, <1>1
    <2>6. \A o \in Objects : Parents(o) \subseteq R[d + 1][o]
      BY <2>3
    <2>7. Climbs(d + 1)
      <3> SUFFICES ASSUME NEW o \in Objects, NEW x \in R[d + 1][o],
                          SpecificLicense(active, x) = NoLicense, NEW q \in Parents(x)
                   PROVE  q \in R[d + 1 + 1][o]
        OBVIOUS
      <3>1. CASE x \in Parents(o)
        <4>1. x \in Objects /\ q \in R[d + 1][x]
          BY <3>1, <2>6, <1>1
        <4> QED
          BY <3>1, <4>1, <2>4
      <3>2. ASSUME NEW p \in Parents(o), SpecificLicense(active, p) = NoLicense, x \in R[d][p]
            PROVE  q \in R[d + 1 + 1][o]
        <4>1. p \in Objects
          BY <1>1
        <4>2. q \in R[d + 1][p]
          BY <4>1, <3>2, <2>2
        <4> QED
          BY <3>2, <4>2, <2>4
      <3> QED
        BY <3>1, <3>2, <2>3
    <2> QED
      BY <2>5, <2>6, <2>7
  <1>4. Nat \subseteq D
    <2> HIDE DEF D
    <2> QED
      BY <1>2, <1>3, NaturalsFromZero
  <1> QED
    BY <1>4

(* What is above an object of height d + 1 is found in d steps.             *)
LEMMA ReachSettles ==
    ASSUME NEW R, Reaching(R), NEW height \in [Objects -> Nat],
           \A link \in Links : height[link[1]] < height[link[2]]
    PROVE  \A d \in Nat : d <= MaxDepth =>
              \A o \in Objects : height[o] <= d + 1 => R[d + 1][o] = R[d][o]
  <1> DEFINE D == {d \in Nat : d <= MaxDepth =>
                      \A o \in Objects : height[o] <= d + 1 => R[d + 1][o] = R[d][o]}
  <1>1. \A o \in Objects : \A p \in Parents(o) :
            p \in Objects /\ height[p] \in Nat /\ height[o] \in Nat /\ height[p] < height[o]
    <2> SUFFICES ASSUME NEW o \in Objects, NEW p \in Parents(o) PROVE height[p] < height[o]
      BY DEF Parents
    <2>1. <<p, o>> \in Links /\ <<p, o>>[1] = p /\ <<p, o>>[2] = o
      BY DEF Parents
    <2> QED
      BY <2>1
  <1>2. \A o \in Objects : R[0][o] = Parents(o)
    BY ReachIs
  <1>3. \A d \in Nat, o \in Objects : d <= MaxDepth => R[d + 1][o] \subseteq Objects
    <2>1. \A d \in Nat : d <= MaxDepth => d + 1 \in Nat /\ d + 1 <= MaxDepth + 1
      BY LicensesAssumption
    <2> QED
      BY <2>1, ReachStaysIn DEF Parents
  <1>4. \A d \in Nat, o \in Objects : \A a : d <= MaxDepth =>
            (a \in R[d + 1][o] <=>
                \/ a \in Parents(o)
                \/ \E p \in Parents(o) : SpecificLicense(active, p) = NoLicense /\ a \in R[d][p])
    BY ReachIs
  <1>5. 0 \in D
    <2> SUFFICES ASSUME NEW o \in Objects, height[o] <= 0 + 1 PROVE R[0 + 1][o] = R[0][o]
      OBVIOUS
    <2>1. ASSUME NEW p \in Parents(o) PROVE p \in Objects /\ Parents(p) = {}
      BY <1>1
    <2>2. \A a : a \in R[0 + 1][o] <=> a \in Parents(o)
      BY <2>1, <1>2, <1>4, LicensesAssumption
    <2> QED
      BY <2>2, <1>2
  <1>6. ASSUME NEW d \in Nat, d \in D PROVE d + 1 \in D
    <2> SUFFICES ASSUME d + 1 <= MaxDepth, NEW o \in Objects, height[o] <= (d + 1) + 1
                 PROVE  R[(d + 1) + 1][o] = R[d + 1][o]
      OBVIOUS
    <2>1. d <= MaxDepth /\ d + 1 \in Nat
      BY LicensesAssumption
    <2>2. ASSUME NEW p \in Parents(o) PROVE R[d + 1][p] = R[d][p]
      <3>1. p \in Objects /\ height[p] <= d + 1
        BY <1>1
      <3> QED
        BY <3>1, <2>1, <1>6
    <2>3. \A a : a \in R[(d + 1) + 1][o] <=> a \in R[d + 1][o]
      BY <2>1, <2>2, <1>4
    <2> QED
      BY <2>3
  <1>7. ASSUME NEW d \in Nat PROVE d \in D
    <2> HIDE DEF D
    <2> QED
      BY <1>5, <1>6, NaturalsFromZero
  <1> QED
    BY <1>7

(* So within MaxDepth steps everything is found.                            *)
LEMMA ReachEnds ==
    ASSUME NEW R, Reaching(R), NEW o \in Objects
    PROVE  R[MaxDepth + 1][o] = R[MaxDepth][o]
  <1>1. PICK height \in [Objects -> 0 .. MaxDepth - 1] :
            \A link \in Links : height[link[1]] < height[link[2]]
    BY ShortClimbs
  <1>2. height \in [Objects -> Nat] /\ height[o] <= MaxDepth + 1 /\ MaxDepth \in Nat
    BY LicensesAssumption
  <1> QED
    BY <1>1, <1>2, ReachSettles

(* What is above an ancestor is an ancestor.                                *)
LEMMA AboveStays ==
    ASSUME NEW o \in Objects, NEW x \in Objects, x = o \/ o \in Descendants[x], NEW q \in Parents(x)
    PROVE  q \in Objects /\ o \in Descendants[q]
  <1>1. q \in Objects /\ <<q, x>> \in Links
    BY DEF Parents
  <1>2. \A y \in Objects : Descendants[y] = {d \in Objects : \A S \in SUBSET Objects :
                              Closed(S) /\ Children(y) \subseteq S => d \in S}
    BY DEF Descendants
  <1>3. ASSUME NEW S \in SUBSET Objects, Closed(S), Children(q) \subseteq S PROVE o \in S
    <2>1. x \in S
      BY <1>1, <1>3 DEF Children
    <2>2. Children(x) \subseteq S
      BY <2>1, <1>3 DEF Children, Closed
    <2> QED
      BY <2>1, <2>2, <1>2, <1>3
  <1> QED
    BY <1>1, <1>2, <1>3

(* What is reached are the nearest ancestors.                               *)
LEMMA ReachesNearest ==
    ASSUME NEW R, Reaching(R), NEW o \in Objects, SpecificLicense(active, o) = NoLicense
    PROVE  R[MaxDepth][o] = Nearest(active, o)
  <1> USE LicensesAssumption
  <1> DEFINE Licenseless(x) == SpecificLicense(active, x) = NoLicense
             Up(S) == \A x \in S : Licenseless(x) => Parents(x) \subseteq S
             Ancestors == {a \in Objects : o \in Descendants[a]}
  <1>1. Nearest(active, o) = {a \in Ancestors : \A S \in SUBSET Ancestors :
                                 Up(S) /\ Parents(o) \subseteq S => a \in S}
    <2>1. \A S \in SUBSET Ancestors :
             Up(S) <=> \A link \in Links :
                           link[2] \in S /\ (link[2] = o \/ Licenseless(link[2])) => link[1] \in S
      <3> SUFFICES ASSUME NEW S \in SUBSET Ancestors
                   PROVE  Up(S) <=> \A link \in Links :
                              link[2] \in S /\ (link[2] = o \/ Licenseless(link[2])) => link[1] \in S
        OBVIOUS
      <3>1. ASSUME Up(S), NEW link \in Links, link[2] \in S, link[2] = o \/ Licenseless(link[2])
            PROVE  link[1] \in S
        <4>1. link = <<link[1], link[2]>> /\ link[1] \in Objects
          OBVIOUS
        <4>2. link[1] \in Parents(link[2])
          BY <4>1 DEF Parents
        <4> QED
          BY <3>1, <4>2
      <3>2. ASSUME \A link \in Links :
                      link[2] \in S /\ (link[2] = o \/ Licenseless(link[2])) => link[1] \in S,
                   NEW x \in S, Licenseless(x), NEW q \in Parents(x)
            PROVE  q \in S
        <4>1. <<q, x>> \in Links
          BY DEF Parents
        <4>2. <<q, x>>[1] = q /\ <<q, x>>[2] = x
          OBVIOUS
        <4> QED
          BY <3>2, <4>1, <4>2
      <3> QED
        BY <3>1, <3>2
    <2> HIDE DEF Up, Ancestors
    <2> QED
      BY <2>1 DEF Nearest, Ancestors
  <1>2. Parents(o) \subseteq Ancestors /\ \A x \in Ancestors : Parents(x) \subseteq Ancestors
    <2>1. ASSUME NEW x \in Objects, x = o \/ o \in Descendants[x], NEW q \in Parents(x)
          PROVE  q \in Objects /\ o \in Descendants[q]
      BY <2>1, AboveStays
    <2> QED
      BY <2>1
  <1>3. MaxDepth \in Nat /\ MaxDepth <= MaxDepth + 1
    OBVIOUS
  <1>4. ASSUME NEW S \in SUBSET Ancestors, Up(S), Parents(o) \subseteq S
        PROVE  R[MaxDepth][o] \subseteq S
    BY <1>3, <1>4, ReachStaysIn
  <1>5. R[MaxDepth][o] \subseteq Nearest(active, o)
    <2>1. R[MaxDepth][o] \subseteq Ancestors
      BY <1>2, <1>4
    <2> HIDE DEF Up, Ancestors
    <2> QED
      BY <2>1, <1>1, <1>4
  <1>6. Nearest(active, o) \subseteq R[MaxDepth][o]
    <2> DEFINE k == MaxDepth
    <2>1. R[k + 1][o] = R[k][o] /\ k \in Nat /\ k <= MaxDepth
      BY ReachEnds, LicensesAssumption
    <2>2. R[k][o] \subseteq Ancestors
      <3>1. k \in Nat /\ k <= MaxDepth + 1
        OBVIOUS
      <3> QED
        BY <3>1, <1>2, ReachStaysIn
    <2>3. Up(R[k][o])
      BY <2>1, ReachGrows
    <2>4. Parents(o) \subseteq R[k][o]
      <3>1. \A a : a \in R[k + 1][o] <=>
                     \/ a \in Parents(o)
                     \/ \E p \in Parents(o) : SpecificLicense(active, p) = NoLicense /\ a \in R[k][p]
        BY ReachIs
      <3> QED
        BY <3>1, <2>1
    <2> HIDE DEF Up, Ancestors
    <2> QED
      BY <2>1, <2>2, <2>3, <2>4, <1>1
  <1> QED
    BY <1>5, <1>6

(* The largest of finitely many levels.                                     *)
LEMMA StrictestIs ==
    ASSUME NEW S \in SUBSET (Levels \cup {NoLicense}), IsFiniteSet(S)
    PROVE  /\ Strictest(S) \in Nat /\ (Strictest(S) \in S \/ Strictest(S) = 0)
           /\ \A x \in S : x <= Strictest(S)
           /\ \A m \in Nat : (m \in S \/ m = 0) /\ (\A x \in S : x <= m) => Strictest(S) = m
  <1> DEFINE T == S \cup {NoLicense}
  <1>1. T \in SUBSET Nat /\ T # {} /\ S \subseteq Nat
    BY LicensesAssumption DEF NoLicense
  <1>2. IsFiniteSet(T)
    BY FS_AddElement
  <1>3. Max(T) \in T /\ \A x \in T : x <= Max(T)
    <2> HIDE DEF T
    <2> QED
      BY <1>1, <1>2, MaxExists
  <1>4. Strictest(S) = Max(T)
    BY DEF Strictest
  <1>5. /\ Max(T) \in Nat /\ (Max(T) \in S \/ Max(T) = 0)
        /\ \A x \in S : x <= Max(T)
    BY <1>1, <1>3 DEF NoLicense
  <1>6. ASSUME NEW m \in Nat, m \in S \/ m = 0, \A x \in S : x <= m PROVE Max(T) = m
    <2>1. m <= Max(T)
      BY <1>3, <1>6 DEF NoLicense
    <2>2. Max(T) <= m
      BY <1>5, <1>6
    <2> QED
      BY <2>1, <2>2, <1>5
  <1> HIDE DEF T
  <1> QED
    BY <1>4, <1>5, <1>6

LEMMA LevelsOf ==
    ASSUME TypeInv, NEW A \in SUBSET Objects
    PROVE  /\ {SpecificLicense(active, a) : a \in A} \in SUBSET (Levels \cup {NoLicense})
           /\ IsFiniteSet({SpecificLicense(active, a) : a \in A})
  <1> DEFINE f == [a \in A |-> SpecificLicense(active, a)]
  <1>1. IsFiniteSet(A)
    BY LicensesAssumption, FS_Subset
  <1>2. DOMAIN f = A /\ {f[a] : a \in A} = {SpecificLicense(active, a) : a \in A}
    OBVIOUS
  <1> HIDE DEF f
  <1>3. IsFiniteSet({f[a] : a \in A})
    BY <1>1, <1>2, FiniteImage
  <1>4. {SpecificLicense(active, a) : a \in A} \in SUBSET (Levels \cup {NoLicense})
    BY SpecificTyped
  <1> QED
    BY <1>2, <1>3, <1>4

(* The recursion finds the strictest license among what is reached.         *)
LEMMA ClimbsToStrictest ==
    ASSUME TypeInv, NEW R, Reaching(R), NEW At, Climbing(active, At)
    PROVE  \A d \in Nat : d <= MaxDepth => \A o \in Objects :
              At[d][o] = Strictest({SpecificLicense(active, a) : a \in R[d][o]})
  <1> DEFINE Own(p) == SpecificLicense(active, p)
             Of(A) == {SpecificLicense(active, a) : a \in A}
             Asked(above, o) == {IF Own(p) # NoLicense THEN Own(p) ELSE above[p] : p \in Parents(o)}
             D == {d \in Nat : d <= MaxDepth => \A o \in Objects : At[d][o] = Strictest(Of(R[d][o]))}
  <1>1. /\ \A o \in Objects : At[0][o] = Strictest(Asked(Unlicensed, o))
        /\ \A d \in Nat : d <= MaxDepth /\ d + 1 <= MaxDepth =>
              \A o \in Objects : At[d + 1][o] = Strictest(Asked(At[d], o))
    <2>1. /\ At[0] = FromParents(active, Unlicensed)
          /\ \A d \in Nat : d <= MaxDepth /\ d + 1 <= MaxDepth => At[d + 1] = FromParents(active, At[d])
      BY LicensesAssumption DEF Climbing
    <2>2. \A above : \A o \in Objects : FromParents(active, above)[o] = Strictest(Asked(above, o))
      BY DEF FromParents
    <2> HIDE DEF Asked
    <2> QED
      BY <2>1, <2>2
  <1>2. \A o \in Objects : Parents(o) \subseteq Objects /\ IsFiniteSet(Parents(o))
    BY LicensesAssumption, FS_Subset DEF Parents
  <1>3. \A d \in Nat, o \in Objects : d <= MaxDepth + 1 => R[d][o] \in SUBSET Objects
    BY <1>2, ReachStaysIn
  <1>4. 0 \in D
    <2> SUFFICES ASSUME NEW o \in Objects PROVE At[0][o] = Strictest(Of(R[0][o]))
      OBVIOUS
    <2>1. R[0][o] = Parents(o)
      BY ReachIs
    <2>2. Asked(Unlicensed, o) = Of(Parents(o))
      BY <1>2 DEF Unlicensed
    <2> HIDE DEF Asked, Of
    <2> QED
      BY <2>1, <2>2, <1>1
  <1>5. ASSUME NEW d \in Nat, d \in D PROVE d + 1 \in D
    <2> SUFFICES ASSUME d + 1 <= MaxDepth, NEW o \in Objects
                 PROVE  At[d + 1][o] = Strictest(Of(R[d + 1][o]))
      OBVIOUS
    <2>1. d <= MaxDepth /\ d <= MaxDepth + 1 /\ d + 1 <= MaxDepth + 1 /\ d + 1 \in Nat
      BY LicensesAssumption
    <2>2. \A p \in Objects : At[d][p] = Strictest(Of(R[d][p]))
      BY <2>1, <1>5
    <2>3. \A a : a \in R[d + 1][o] <=>
                     \/ a \in Parents(o)
                     \/ \E p \in Parents(o) : Own(p) = NoLicense /\ a \in R[d][p]
      BY <2>1, ReachIs
    <2> DEFINE W == Of(R[d + 1][o])
               V == Asked(At[d], o)
               m == Strictest(W)
    <2>4. /\ m \in Nat /\ (m \in W \/ m = 0) /\ \A x \in W : x <= m
      <3>1. W \in SUBSET (Levels \cup {NoLicense}) /\ IsFiniteSet(W)
        BY <2>1, <1>3, LevelsOf
      <3> HIDE DEF W
      <3> QED
        BY <3>1, StrictestIs
    <2>5. \A p \in Objects :
             /\ At[d][p] \in Nat /\ (At[d][p] \in Of(R[d][p]) \/ At[d][p] = 0)
             /\ \A x \in Of(R[d][p]) : x <= At[d][p]
      <3> SUFFICES ASSUME NEW p \in Objects
                   PROVE  /\ At[d][p] \in Nat /\ (At[d][p] \in Of(R[d][p]) \/ At[d][p] = 0)
                          /\ \A x \in Of(R[d][p]) : x <= At[d][p]
        OBVIOUS
      <3>1. Of(R[d][p]) \in SUBSET (Levels \cup {NoLicense}) /\ IsFiniteSet(Of(R[d][p]))
        BY <2>1, <1>3, LevelsOf
      <3>2. At[d][p] = Strictest(Of(R[d][p]))
        BY <2>2
      <3> HIDE DEF Of
      <3> QED
        BY <3>1, <3>2, StrictestIs
    <2>6. ASSUME NEW p \in Parents(o), Own(p) = NoLicense
          PROVE  At[d][p] \in Nat /\ At[d][p] <= m
      <3>1. p \in Objects
        BY <1>2
      <3>2. Of(R[d][p]) \subseteq W
        BY <2>3, <2>6
      <3> HIDE DEF Of, W, m
      <3> QED
        BY <3>1, <3>2, <2>4, <2>5
    <2>7. ASSUME NEW p \in Parents(o) PROVE Own(p) \in Nat /\ Own(p) <= m
      <3>1. Own(p) \in W
        BY <2>3
      <3>2. Own(p) \in Levels \cup {NoLicense}
        BY <1>2, SpecificTyped
      <3>3. Levels \cup {NoLicense} \subseteq Nat
        BY LicensesAssumption DEF NoLicense
      <3>4. Own(p) \in Nat
        <4> HIDE DEF Own
        <4> QED BY <3>2, <3>3
      <3> HIDE DEF W, m, Own
      <3> QED
        BY <3>1, <3>4, <2>4
    <2>8. \A x \in V : x \in Nat /\ x <= m
      BY <2>6, <2>7
    <2>9. m \in V \/ m = 0
      <3> SUFFICES ASSUME m # 0 PROVE m \in V
        OBVIOUS
      <3>1. PICK a \in R[d + 1][o] : m = Own(a)
        BY <2>4
      <3>2. CASE a \in Parents(o)
        BY <3>1, <3>2 DEF NoLicense
      <3>3. ASSUME NEW p \in Parents(o), Own(p) = NoLicense, a \in R[d][p]
            PROVE  m \in V
        <4>1. p \in Objects /\ Own(a) \in Of(R[d][p])
          BY <1>2, <3>3
        <4>2. m <= At[d][p]
          <5> HIDE DEF Of, m
          <5> QED
            BY <4>1, <3>1, <2>5
        <4>3. At[d][p] \in Nat /\ At[d][p] <= m
          BY <2>6, <3>3
        <4>4. m = At[d][p]
          <5> HIDE DEF m
          <5> QED
            BY <4>2, <4>3, <2>4
        <4>5. At[d][p] \in V
          BY <3>3
        <4> QED
          BY <4>4, <4>5
      <3> QED
        BY <3>2, <3>3, <2>3
    <2>10. V \in SUBSET (Levels \cup {NoLicense}) /\ IsFiniteSet(V)
      <3> DEFINE f == [p \in Parents(o) |-> IF Own(p) # NoLicense THEN Own(p) ELSE At[d][p]]
      <3>1. V = {f[p] : p \in Parents(o)} /\ DOMAIN f = Parents(o)
        OBVIOUS
      <3>2. IsFiniteSet({f[p] : p \in Parents(o)})
        <4> HIDE DEF f
        <4> QED
          BY <3>1, <1>2, FiniteImage
      <3>3. \A p \in Parents(o) : Own(p) \in Levels \cup {NoLicense}
        BY <1>2, SpecificTyped
      <3>4. \A p \in Parents(o) : At[d][p] \in Levels \cup {NoLicense}
        <4> SUFFICES ASSUME NEW p \in Parents(o) PROVE At[d][p] \in Levels \cup {NoLicense}
          OBVIOUS
        <4>1. p \in Objects
          BY <1>2
        <4>2. Of(R[d][p]) \in SUBSET (Levels \cup {NoLicense})
          BY <4>1, <2>1, <1>3, LevelsOf
        <4> HIDE DEF Of
        <4> QED
          BY <4>1, <4>2, <2>5 DEF NoLicense
      <3> QED
        BY <3>1, <3>2, <3>3, <3>4
    <2>11. At[d + 1][o] = Strictest(V)
      BY <2>1, <1>1
    <2> HIDE DEF V, m, Asked, Of
    <2>12. Strictest(V) = m
      BY <2>4, <2>8, <2>9, <2>10, StrictestIs
    <2> QED
      BY <2>11, <2>12 DEF m
  <1>6. Nat \subseteq D
    <2> HIDE DEF D
    <2> QED
      BY <1>4, <1>5, NaturalsFromZero
  <1> HIDE DEF Own, Asked
  <1> QED
    BY <1>6

LEMMA InheritsFromNearest == TypeInv => InheritsNearest
  <1> SUFFICES ASSUME TypeInv, NEW o \in Objects
               PROVE  Resolve(active, o) =
                         IF SpecificLicense(active, o) # NoLicense
                         THEN Found(SpecificLicense(active, o), FALSE)
                         ELSE Found(Strictest({SpecificLicense(active, a) : a \in Nearest(active, o)}), TRUE)
    BY DEF InheritsNearest
  <1>1. CASE SpecificLicense(active, o) # NoLicense
    <2>1. Found(SpecificLicense(active, o), FALSE) \in Resolver
      BY <1>1, SpecificTyped DEF Found, Resolver
    <2>2. Found(SpecificLicense(active, o), FALSE) # None
      BY <2>1, NoneAssumption
    <2> QED
      BY <1>1, <2>2 DEF Resolve
  <1>2. CASE SpecificLicense(active, o) = NoLicense
    <2>1. PICK At : Climbing(active, At) /\ ParentsLicense(active) = At[MaxDepth]
      BY ParentsLicenseIs
    <2>2. PICK R : Reaching(R)
      BY ReachExists
    <2>3. MaxDepth \in Nat /\ MaxDepth <= MaxDepth
      BY LicensesAssumption
    <2>4. At[MaxDepth][o] = Strictest({SpecificLicense(active, a) : a \in R[MaxDepth][o]})
      BY <2>1, <2>2, <2>3, ClimbsToStrictest
    <2>5. R[MaxDepth][o] = Nearest(active, o)
      BY <1>2, <2>2, ReachesNearest
    <2>6. Found(SpecificLicense(active, o), FALSE) = None
      BY <1>2 DEF Found
    <2> QED
      BY <1>2, <2>1, <2>4, <2>5, <2>6 DEF Resolve
  <1> QED
    BY <1>1, <1>2

(* An object has its own license, or else the strictest among those of its  *)
(* nearest licensed ancestors (LicenseResolver.fetchParentsLicense), with   *)
(* any assignments, in any hierarchy without cycles whose ways up are no    *)
(* longer than the depth of the climb.                                      *)
THEOREM InheritsNearestAlways == Spec => []InheritsNearest
  <1> QED
    BY InitTyped, NextTyped, InheritsFromNearest, PTL DEF Spec

=============================================================================
