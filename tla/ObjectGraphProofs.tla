---------------------------- MODULE ObjectGraphProofs ----------------------------
(***************************************************************************)
(* Theorems about the walk over the system objects, the map it fills, and    *)
(* the data that are spread over that map (ObjectGraph), for every number    *)
(* of objects and every set of links among them.                             *)
(*                                                                         *)
(* Reach is shown to be the least set that is closed under the links, and    *)
(* every argument about cycles and diamonds uses that.                       *)
(*                                                                         *)
(* The data of the entries (DataInv): an object knows only what it should,   *)
(* and what it knows its neighbours know or are about to be told, whichever  *)
(* entry it had it from.  A call comes about along a chain of objects that   *)
(* were told before (CallPaths), so that only a chain of links longer than    *)
(* the depth that is passed could cut the news short.                        *)
(*                                                                         *)
(* The number of calls (Linear): each call, made or still to be made, is for *)
(* a link of an object that was processed, or begins a walk.                 *)
(*                                                                         *)
(* What is found (DeepInv, FoundKept, KidsKept, JudgedKept, FullKept): the   *)
(* objects of the frames form a path, so that a depth no chain of objects    *)
(* exceeds is never used up, and the list the calls share is empty whenever  *)
(* it is added to; a link of an object that was processed is then either     *)
(* still to be taken by some frame, or was taken.                            *)
(***************************************************************************)
EXTENDS ObjectGraph, SequenceTheorems, FiniteSetTheorems, WellFoundedInduction, TLAPS

AFrame == [source : Objects \cup {None}, todo : Seq(Objects), depth : 1 .. (FullDepth + 1)]
ACall == [dir : {"eChild", "eParent", "done"}, object : Objects, depth : 0 .. FullDepth]
AWalk == [object : Objects, mode : Modes]

(* Data are applied when all walks are over.                                *)
ApplyKept == work # <<>> => WalksDone /\ WithDatabase /\ applied < Len(entries)

TypeInv == TypeOK /\ ApplyKept

-----------------------------------------------------------------------------
(* Numbers, sequences and sets.                                             *)

LEMMA NaturalsFromZero ==
    ASSUME NEW S, 0 \in S, \A n \in Nat : n \in S => n + 1 \in S
    PROVE  Nat \subseteq S
  <1> DEFINE T == Nat \ S
  <1>1. SUFFICES ASSUME T # {} PROVE FALSE
    OBVIOUS
  <1>2. \E x \in T : \A y \in T : ~ (<<y, x>> \in OpToRel(<, Nat))
    <2>1. T \subseteq Nat
      OBVIOUS
    <2> HIDE DEF T
    <2> QED
      BY <1>1, <2>1, NatLessThanWellFounded, WFMin
  <1>3. PICK x \in T : \A y \in Nat : y < x => y \in S
    BY <1>2 DEF OpToRel
  <1>4. x \in Nat /\ x # 0
    BY <1>3
  <1>5. x - 1 \in Nat /\ x - 1 < x /\ (x - 1) + 1 = x
    BY <1>4
  <1> QED
    BY <1>3, <1>4, <1>5

(* The sequence made of a set has each of its members once.                 *)
LEMMA SetToSeqIs ==
    ASSUME NEW S, IsFiniteSet(S)
    PROVE  /\ SetToSeq(S) \in Seq(S)
           /\ Len(SetToSeq(S)) = Cardinality(S)
           /\ Cardinality(S) \in Nat
           /\ ToSet(SetToSeq(S)) = S
           /\ IsInjective(SetToSeq(S))
  <1> DEFINE n == Cardinality(S)
             f == SetToSeq(S)
  <1>1. n \in Nat /\ \E g \in [1 .. n -> S] : IsInjective(g)
    BY FS_CardinalityType DEF ExistsBijection, Bijection, Injection, IsInjective
  <1>2. f \in [1 .. n -> S] /\ IsInjective(f)
    <2> HIDE DEF n
    <2> QED
      BY <1>1 DEF SetToSeq, n
  <1> HIDE DEF f
  <1>3. f \in Injection(1 .. n, S)
    BY <1>2 DEF Injection, IsInjective
  <1>4. IsFiniteSet(1 .. n) /\ Cardinality(1 .. n) = n
    BY <1>1, FS_Interval
  <1>5. f \in Surjection(1 .. n, S)
    BY <1>3, <1>4, FS_Injection
  <1>6. \A x \in S : \E i \in 1 .. n : f[i] = x
    BY <1>5 DEF Surjection
  <1> HIDE DEF n
  <1>7. f \in Seq(S) /\ DOMAIN f = 1 .. n
    BY <1>1, <1>2, SeqDef
  <1>8. Len(f) = n
    BY <1>1, <1>7, LenProperties
  <1>9. ToSet(f) = S
    BY <1>2, <1>6, <1>7 DEF ToSet
  <1> QED
    BY <1>1, <1>2, <1>7, <1>8, <1>9 DEF f, n

LEMMA SomeObjects ==
    ASSUME NEW S \in SUBSET Objects
    PROVE  /\ IsFiniteSet(S)
           /\ SetToSeq(S) \in Seq(Objects)
           /\ ToSet(SetToSeq(S)) = S
           /\ IsInjective(SetToSeq(S))
           /\ Len(SetToSeq(S)) = Cardinality(S) /\ Cardinality(S) \in Nat
  <1>1. IsFiniteSet(S)
    BY ConstantsAssumption, FS_Subset
  <1>2. SetToSeq(S) \in Seq(S)
    BY <1>1, SetToSeqIs
  <1>3. SetToSeq(S) \in Seq(Objects)
    BY <1>2, SeqMonotonic
  <1> QED
    BY <1>1, <1>3, SetToSeqIs

LEMMA ConcatIs ==
    ASSUME NEW S, NEW s \in Seq(S), NEW t \in Seq(S)
    PROVE  s \o t \in Seq(S) /\ ToSet(s \o t) = ToSet(s) \cup ToSet(t)
  <1> DEFINE u == s \o t
  <1>1. /\ u \in Seq(S) /\ Len(u) = Len(s) + Len(t)
        /\ \A i \in 1 .. Len(s) + Len(t) : u[i] = IF i <= Len(s) THEN s[i] ELSE t[i - Len(s)]
    BY ConcatProperties
  <1>2. Len(s) \in Nat /\ Len(t) \in Nat /\ DOMAIN s = 1 .. Len(s) /\ DOMAIN t = 1 .. Len(t)
    BY LenProperties
  <1>3. DOMAIN u = 1 .. Len(s) + Len(t)
    BY <1>1, LenProperties
  <1> HIDE DEF u
  <1>4. ToSet(u) \subseteq ToSet(s) \cup ToSet(t)
    <2> SUFFICES ASSUME NEW i \in 1 .. Len(s) + Len(t) PROVE u[i] \in ToSet(s) \cup ToSet(t)
      BY <1>3 DEF ToSet
    <2>1. CASE i <= Len(s)
      BY <2>1, <1>1, <1>2 DEF ToSet
    <2>2. CASE ~ (i <= Len(s))
      <3>1. i - Len(s) \in 1 .. Len(t) /\ u[i] = t[i - Len(s)]
        BY <2>2, <1>1, <1>2
      <3> QED
        BY <3>1, <1>2 DEF ToSet
    <2> QED
      BY <2>1, <2>2
  <1>5. ToSet(s) \subseteq ToSet(u)
    <2> SUFFICES ASSUME NEW i \in 1 .. Len(s) PROVE s[i] \in ToSet(u)
      BY <1>2 DEF ToSet
    <2>1. i \in 1 .. Len(s) + Len(t) /\ i <= Len(s)
      BY <1>2
    <2>2. u[i] = s[i]
      BY <2>1, <1>1
    <2> QED
      BY <2>1, <2>2, <1>3 DEF ToSet
  <1>6. ToSet(t) \subseteq ToSet(u)
    <2> SUFFICES ASSUME NEW i \in 1 .. Len(t) PROVE t[i] \in ToSet(u)
      BY <1>2 DEF ToSet
    <2>1. i + Len(s) \in 1 .. Len(s) + Len(t) /\ ~ (i + Len(s) <= Len(s)) /\ (i + Len(s)) - Len(s) = i
      BY <1>2
    <2>2. u[i + Len(s)] = t[i]
      BY <2>1, <1>1
    <2> QED
      BY <2>1, <2>2, <1>3 DEF ToSet
  <1> QED
    BY <1>1, <1>4, <1>5, <1>6 DEF u

(* Each object is a key of the map once.                                    *)
LEMMA AddEntryIs ==
    ASSUME NEW os \in Seq(Objects), IsInjective(os), NEW o \in Objects
    PROVE  /\ AddEntry(os, o) \in Seq(Objects)
           /\ IsInjective(AddEntry(os, o))
           /\ ToSet(AddEntry(os, o)) = ToSet(os) \cup {o}
           /\ Len(os) <= Len(AddEntry(os, o))
  <1>1. CASE o \in ToSet(os)
    BY <1>1 DEF AddEntry
  <1>2. CASE o \notin ToSet(os)
    <2> DEFINE t == Append(os, o)
    <2>1. AddEntry(os, o) = t
      BY <1>2 DEF AddEntry
    <2>2. /\ t \in Seq(Objects) /\ Len(t) = Len(os) + 1 /\ Len(os) \in Nat
          /\ \A i \in 1 .. Len(os) : t[i] = os[i]
          /\ t[Len(os) + 1] = o
      BY AppendProperties
    <2> HIDE DEF t
    <2>3. DOMAIN t = 1 .. Len(os) + 1 /\ DOMAIN os = 1 .. Len(os)
      BY <2>2
    <2>4. ToSet(t) = ToSet(os) \cup {o}
      <3>1. \A i \in 1 .. Len(os) + 1 : i \in 1 .. Len(os) \/ i = Len(os) + 1
        BY <2>2
      <3>2. ToSet(t) \subseteq ToSet(os) \cup {o}
        BY <3>1, <2>2, <2>3 DEF ToSet
      <3>3. ToSet(os) \subseteq ToSet(t)
        BY <2>2, <2>3 DEF ToSet
      <3>4. o \in ToSet(t)
        BY <2>2, <2>3 DEF ToSet
      <3> QED
        BY <3>2, <3>3, <3>4
    <2>5. IsInjective(t)
      <3> SUFFICES ASSUME NEW a \in 1 .. Len(os) + 1, NEW b \in 1 .. Len(os) + 1, t[a] = t[b]
                   PROVE  a = b
        BY <2>3 DEF IsInjective
      <3>1. \A i \in 1 .. Len(os) : t[i] = os[i] /\ os[i] # o
        BY <1>2, <2>2, <2>3 DEF ToSet
      <3>2. CASE a \in 1 .. Len(os) /\ b \in 1 .. Len(os)
        BY <3>1, <3>2, <2>3 DEF IsInjective
      <3> QED
        BY <3>1, <3>2, <2>2
    <2> QED
      BY <2>1, <2>2, <2>4, <2>5
  <1> QED
    BY <1>1, <1>2

-----------------------------------------------------------------------------
(* The stack.                                                               *)

LEMMA FrameWith ==
    ASSUME NEW f \in AFrame, NEW t \in Seq(Objects)
    PROVE  /\ [f EXCEPT !.todo = t] \in AFrame
           /\ [f EXCEPT !.todo = t] = [source |-> f.source, todo |-> t, depth |-> f.depth]
  BY DEF AFrame

LEMMA Called ==
    ASSUME TypeInv, Calling
    PROVE  /\ Len(stack) \in Nat \ {0}
           /\ Last(stack) = stack[Len(stack)] /\ Last(stack) \in AFrame
           /\ Object \in Objects /\ RelatedType \in Objects \cup {None}
           /\ Rest \in Seq(AFrame) /\ Len(Rest) = Len(stack)
           /\ \A i \in 1 .. Len(stack) - 1 : Rest[i] = stack[i]
           /\ Rest[Len(stack)] = [source |-> RelatedType, todo |-> Tail(Last(stack).todo),
                                  depth |-> Last(stack).depth]
  <1> DEFINE n == Len(stack)
             f == stack[n]
  <1>1. stack \in Seq(AFrame) /\ stack # <<>>
    BY DEF TypeInv, TypeOK, AFrame, Calling
  <1>2. n \in Nat \ {0} /\ n \in 1 .. n
    BY <1>1
  <1>3. Last(stack) = f /\ f \in AFrame
    BY <1>1, <1>2, ElementOfSeq DEF Last
  <1>4. f.todo \in Seq(Objects) /\ f.todo # <<>> /\ f.source \in Objects \cup {None}
    BY <1>3 DEF AFrame, Calling
  <1>5. Head(f.todo) \in Objects /\ Tail(f.todo) \in Seq(Objects)
    BY <1>4, HeadTailProperties
  <1>11. Object = Head(f.todo) /\ RelatedType = f.source
    BY <1>3 DEF Object, RelatedType
  <1> DEFINE g == [f EXCEPT !.todo = Tail(f.todo)]
  <1>7. Rest = [stack EXCEPT ![n] = g]
    BY DEF Rest
  <1> HIDE DEF f
  <1>6. g \in AFrame /\ g = [source |-> f.source, todo |-> Tail(f.todo), depth |-> f.depth]
    BY <1>3, <1>5, FrameWith
  <1> HIDE DEF g
  <1>8. /\ Rest \in Seq(AFrame) /\ Len(Rest) = n
        /\ \A j \in 1 .. n : Rest[j] = IF j = n THEN g ELSE stack[j]
    BY <1>1, <1>2, <1>6, <1>7, ExceptSeq
  <1>9. \A j \in 1 .. n - 1 : Rest[j] = stack[j]
    BY <1>2, <1>8
  <1>10. Rest[n] = g
    BY <1>2, <1>8
  <1> QED
    BY <1>2, <1>3, <1>4, <1>5, <1>6, <1>8, <1>9, <1>10, <1>11 DEF f

LEMMA Returned ==
    ASSUME TypeInv, stack # <<>>
    PROVE  /\ Len(stack) \in Nat \ {0}
           /\ Last(stack) = stack[Len(stack)] /\ Last(stack) \in AFrame
           /\ Front(stack) \in Seq(AFrame) /\ Len(Front(stack)) = Len(stack) - 1
           /\ \A i \in 1 .. Len(stack) - 1 : Front(stack)[i] = stack[i]
  <1> DEFINE n == Len(stack)
  <1>1. stack \in Seq(AFrame)
    BY DEF TypeInv, TypeOK, AFrame
  <1>2. n \in Nat \ {0} /\ n \in 1 .. n /\ n - 1 \in Int /\ \A i \in 1 .. n - 1 : i \in 1 .. n
    BY <1>1
  <1>3. \A i \in 1 .. n : stack[i] \in AFrame
    BY <1>1, ElementOfSeq
  <1>4. \A i \in 1 .. n - 1 : stack[i] \in AFrame
    BY <1>2, <1>3
  <1>5. /\ SubSeq(stack, 1, n - 1) \in Seq(AFrame)
        /\ Len(SubSeq(stack, 1, n - 1)) = IF 1 <= n - 1 THEN n - 1 - 1 + 1 ELSE 0
        /\ \A i \in 1 .. n - 1 - 1 + 1 : SubSeq(stack, 1, n - 1)[i] = stack[1 + i - 1]
    BY <1>2, <1>4, SubSeqProperties
  <1>6. \A i \in 1 .. n - 1 : i \in 1 .. n - 1 - 1 + 1 /\ 1 + i - 1 = i
    BY <1>2
  <1>7. (IF 1 <= n - 1 THEN n - 1 - 1 + 1 ELSE 0) = n - 1
    <2> HIDE DEF n
    <2> QED
      BY <1>2
  <1> QED
    BY <1>2, <1>3, <1>5, <1>6, <1>7 DEF Front, Last

LEMMA Appended ==
    ASSUME NEW s \in Seq(AFrame), NEW f \in AFrame
    PROVE  /\ Append(s, f) \in Seq(AFrame) /\ Append(s, f) # <<>>
           /\ Len(Append(s, f)) = Len(s) + 1 /\ Len(s) \in Nat
           /\ \A i \in 1 .. Len(s) : Append(s, f)[i] = s[i]
           /\ Append(s, f)[Len(s) + 1] = f
  BY AppendProperties

LEMMA RelatedTyped ==
    ASSUME NEW o, NEW m
    PROVE  Related(o, m) \in SUBSET Objects
  BY DEF Related, Ends

(* What fetchWorker gathers of an object, in the order of its links.        *)
ThumbnailLinks(m) == IF m = "eDescendents" THEN Thumbnails ELSE {}
ThumbnailEnds(o, m) == Ends(o, m, ThumbnailLinks(m))

LEMMA GatheredIs ==
    ASSUME NEW o, NEW m
    PROVE  /\ Gathered(o, m) \in Seq(Objects)
           /\ ToSet(Gathered(o, m)) = Related(o, m)
           /\ Cardinality(ThumbnailEnds(o, m)) \in Nat
           /\ Cardinality(Ends(o, m, xref)) \in Nat /\ Cardinality(Ends(o, m, Owned)) \in Nat
           /\ Len(Gathered(o, m)) = Cardinality(ThumbnailEnds(o, m)) + Cardinality(Ends(o, m, xref))
                                       + Cardinality(Ends(o, m, Owned))
  <1> DEFINE T == ThumbnailEnds(o, m)
             X == Ends(o, m, xref)
             W == Ends(o, m, Owned)
             t == SetToSeq(T)
             x == SetToSeq(X)
             w == SetToSeq(W)
             tx == t \o x
  <1>1. T \in SUBSET Objects /\ X \in SUBSET Objects /\ W \in SUBSET Objects
    BY DEF Ends, ThumbnailEnds
  <1>2. Related(o, m) = T \cup X \cup W
    BY DEF Related, Ends, ThumbnailEnds, ThumbnailLinks, Down, Up
  <1>3. Gathered(o, m) = tx \o w
    BY DEF Gathered, ThumbnailEnds, ThumbnailLinks
  <1> HIDE DEF T, X, W
  <1>4. /\ t \in Seq(Objects) /\ ToSet(t) = T /\ Len(t) = Cardinality(T) /\ Cardinality(T) \in Nat
        /\ x \in Seq(Objects) /\ ToSet(x) = X /\ Len(x) = Cardinality(X) /\ Cardinality(X) \in Nat
        /\ w \in Seq(Objects) /\ ToSet(w) = W /\ Len(w) = Cardinality(W) /\ Cardinality(W) \in Nat
    BY <1>1, SomeObjects
  <1> HIDE DEF t, x, w
  <1>5. tx \in Seq(Objects) /\ ToSet(tx) = T \cup X
    BY <1>4, ConcatIs
  <1>7. Len(tx) = Cardinality(T) + Cardinality(X)
    BY <1>4, ConcatProperties
  <1> HIDE DEF tx
  <1>6. tx \o w \in Seq(Objects) /\ ToSet(tx \o w) = (T \cup X) \cup W
    BY <1>4, <1>5, ConcatIs
  <1>8. Len(tx \o w) = Len(tx) + Len(w)
    BY <1>4, <1>5, ConcatProperties
  <1> QED
    BY <1>2, <1>3, <1>4, <1>6, <1>7, <1>8 DEF T, X, W

(* What a walk goes on with.                                                *)
LEMMA GatheredTyped ==
    ASSUME TypeInv, NEW o, NEW m
    PROVE  list \o Gathered(o, m) \in Seq(Objects)
  <1>1. list \in Seq(Objects)
    BY DEF TypeInv, TypeOK
  <1>2. Gathered(o, m) \in Seq(Objects)
    BY GatheredIs
  <1> QED
    BY <1>1, <1>2, ConcatProperties

LEMMA Recorded ==
    ASSUME TypeInv, Calling, RecordRelationship(Object)
    PROVE  /\ entries' \in Seq(Objects) /\ IsInjective(entries') /\ Len(entries) <= Len(entries')
           /\ recorded' \subseteq Objects \X Objects
           /\ (WithDatabase /\ RelatedType # None) =>
                 /\ recorded' = recorded \cup {Link(Object, RelatedType, mode)}
                 /\ ToSet(entries') = ToSet(entries) \cup {Object, RelatedType}
           /\ ~ (WithDatabase /\ RelatedType # None) => UNCHANGED <<entries, recorded>>
  <1>1. /\ entries \in Seq(Objects) /\ IsInjective(entries) /\ recorded \subseteq Objects \X Objects
        /\ Len(entries) \in Nat
    BY DEF TypeInv, TypeOK
  <1>2. CASE ~ (WithDatabase /\ RelatedType # None)
    <2>1. UNCHANGED <<entries, recorded>>
      BY <1>2 DEF RecordRelationship
    <2> QED
      BY <1>1, <1>2, <2>1
  <1>3. CASE WithDatabase /\ RelatedType # None
    <2> DEFINE l == Link(Object, RelatedType, mode)
               t == AddEntry(entries, l[1])
    <2>1. recorded' = recorded \cup {l} /\ entries' = AddEntry(t, l[2])
      BY <1>3 DEF RecordRelationship
    <2>2. Object \in Objects /\ RelatedType \in Objects
      BY <1>3, Called
    <2>3. \/ l = <<Object, RelatedType>>
          \/ l = <<RelatedType, Object>>
      BY DEF Link
    <2>4. l[1] \in Objects /\ l[2] \in Objects /\ {l[1], l[2]} = {Object, RelatedType}
          /\ l \in Objects \X Objects
      BY <2>2, <2>3
    <2> HIDE DEF l
    <2>5. /\ t \in Seq(Objects) /\ IsInjective(t) /\ Len(entries) <= Len(t)
          /\ ToSet(t) = ToSet(entries) \cup {l[1]}
      BY <1>1, <2>4, AddEntryIs
    <2> HIDE DEF t
    <2>6. /\ AddEntry(t, l[2]) \in Seq(Objects) /\ IsInjective(AddEntry(t, l[2]))
          /\ Len(t) <= Len(AddEntry(t, l[2]))
          /\ ToSet(AddEntry(t, l[2])) = ToSet(t) \cup {l[2]}
      BY <2>5, <2>4, AddEntryIs
    <2>7. Len(t) \in Nat /\ Len(AddEntry(t, l[2])) \in Nat
      BY <2>5, <2>6, LenProperties
    <2>8. Len(entries) <= Len(entries')
      BY <1>1, <2>1, <2>5, <2>6, <2>7
    <2>9. ToSet(entries') = ToSet(entries) \cup {Object, RelatedType}
      BY <2>1, <2>4, <2>5, <2>6
    <2> QED
      BY <1>1, <1>3, <2>1, <2>4, <2>6, <2>8, <2>9 DEF l
  <1> QED
    BY <1>2, <1>3

-----------------------------------------------------------------------------
(* Types.                                                                   *)

LEMMA WalksTyped ==
    ASSUME NEW t \in Tasks, NEW o \in Objects
    PROVE  WalksFor(t, o) \in Seq(AWalk)
  <1>1. \A x \in Objects, m \in Modes : Walk(x, m) \in AWalk
    BY DEF Walk, AWalk
  <1>2. "eAncestors" \in Modes /\ "eDescendents" \in Modes
    BY DEF Modes
  <1>3. Walk(o, "eAncestors") \in AWalk /\ Walk(o, "eDescendents") \in AWalk
    BY <1>1, <1>2
  <1>4. CASE t = "ancestors"
    BY <1>3, <1>4 DEF WalksFor
  <1>5. CASE t \in {"descendents", "children"}
    BY <1>3, <1>5 DEF WalksFor
  <1>6. CASE t \in {"all", "index"}
    BY <1>3, <1>6 DEF WalksFor
  <1>7. CASE t = "full"
    <2> DEFINE n == Len(FetchOrder)
               s == [i \in DOMAIN FetchOrder |-> Walk(FetchOrder[i], "eDescendents")]
    <2>1. n \in Nat /\ DOMAIN FetchOrder = 1 .. n /\ \A i \in 1 .. n : FetchOrder[i] \in Objects
      BY ConstantsAssumption, LenProperties, ElementOfSeq
    <2>2. s \in [1 .. n -> AWalk]
      BY <2>1, <1>1, <1>2
    <2>3. s \in Seq(AWalk)
      BY <2>1, <2>2, SeqDef
    <2> QED
      BY <1>7, <2>3 DEF WalksFor
  <1> QED
    BY <1>4, <1>5, <1>6, <1>7 DEF Tasks

LEMMA InitTyped == Init => TypeInv
  <1> SUFFICES ASSUME Init PROVE TypeInv
    OBVIOUS
  <1>1. Head(FetchOrder) \in Objects
    BY ConstantsAssumption, HeadTailProperties
  <1>2. task \in Tasks /\ root \in Objects
    BY <1>1 DEF Init
  <1>3. walks \in Seq(AWalk)
    BY <1>2, WalksTyped DEF Init
  <1>4. stack = <<>> /\ list = <<>> /\ entries = <<>> /\ work = <<>> /\ applied = 0
    BY DEF Init
  <1>5. /\ stack \in Seq(AFrame) /\ list \in Seq(Objects) /\ entries \in Seq(Objects)
        /\ work \in Seq(ACall)
    BY <1>4, EmptySeq
  <1>6. IsInjective(entries) /\ applied \in 0 .. Len(entries)
    BY <1>4 DEF IsInjective
  <1>7. /\ processed = {} /\ added = {} /\ valid = TRUE /\ acyclic = TRUE /\ pushCount = 0
        /\ recorded = {} /\ mode = "eAncestors" /\ xref \subseteq Xrefs
    BY DEF Init
  <1>8. ancestors \in [Objects -> SUBSET Objects]
    BY DEF Init
  <1>9. below \in [Objects -> SUBSET UNION {Facts[o] : o \in Objects}]
    BY DEF Init
  <1> QED
    BY <1>2, <1>3, <1>4, <1>5, <1>6, <1>7, <1>8, <1>9
    DEF TypeInv, TypeOK, ApplyKept, AFrame, AWalk, ACall, Modes

LEMMA WalkTyped ==
    ASSUME TypeInv, ~ WalksDone, UNCHANGED <<xref, task, applyVars>>,
           walks' \in Seq(AWalk), root' \in Objects, mode' \in Modes,
           stack' \in Seq(AFrame), list' \in Seq(Objects),
           processed' \subseteq Objects, added' \subseteq Objects,
           valid' \in BOOLEAN, acyclic' \in BOOLEAN, pushCount' \in Nat,
           entries' \in Seq(Objects), IsInjective(entries'), Len(entries) <= Len(entries'),
           recorded' \subseteq Objects \X Objects
    PROVE  TypeInv'
  <1>1. Len(entries) \in Nat /\ Len(entries') \in Nat
    BY DEF TypeInv, TypeOK
  <1>2. applied' \in 0 .. Len(entries')
    BY <1>1 DEF TypeInv, TypeOK, applyVars
  <1>3. work = <<>> /\ work' = <<>>
    BY DEF TypeInv, ApplyKept, applyVars
  <1>4. /\ work' \in Seq(ACall) /\ ancestors' \in [Objects -> SUBSET Objects]
        /\ below' \in [Objects -> SUBSET UNION {Facts[o] : o \in Objects}]
        /\ xref' \subseteq Xrefs /\ task' \in Tasks
    BY DEF TypeInv, TypeOK, applyVars, ACall
  <1> QED
    BY <1>2, <1>3, <1>4 DEF TypeInv, TypeOK, ApplyKept, AFrame, AWalk, ACall

(* The walk under way is not the last thing to be done.                     *)
LEMMA Walking ==
    ASSUME TypeInv
    PROVE  /\ walks \in Seq(AWalk) /\ root \in Objects /\ mode \in Modes
           /\ stack \in Seq(AFrame) /\ list \in Seq(Objects)
           /\ processed \subseteq Objects /\ added \subseteq Objects
           /\ valid \in BOOLEAN /\ acyclic \in BOOLEAN /\ pushCount \in Nat
           /\ entries \in Seq(Objects) /\ IsInjective(entries) /\ Len(entries) <= Len(entries)
           /\ recorded \subseteq Objects \X Objects
           /\ (stack # <<>> \/ walks # <<>>) => ~ WalksDone
  <1>1. Len(entries) <= Len(entries)
    BY DEF TypeInv, TypeOK
  <1> QED
    BY <1>1 DEF TypeInv, TypeOK, AFrame, AWalk, WalksDone

LEMMA StartWalkTyped == ASSUME TypeInv, StartWalk PROVE TypeInv'
  <1>1. walks \in Seq(AWalk) /\ walks # <<>>
    BY Walking DEF StartWalk
  <1>2. Head(walks) \in AWalk /\ Tail(walks) \in Seq(AWalk)
    BY <1>1, HeadTailProperties
  <1>3. Head(walks).object \in Objects /\ Head(walks).mode \in Modes
    BY <1>2 DEF AWalk
  <1> DEFINE todo == <<Head(walks).object>>
             f == Frame(None, todo, Depth + 1)
  <1>4. todo \in Seq(Objects)
    BY <1>3
  <1>5. Depth + 1 \in 1 .. (FullDepth + 1)
    BY ConstantsAssumption DEF Depth
  <1>6. f \in AFrame
    <2> HIDE DEF todo
    <2> QED
      BY <1>4, <1>5 DEF AFrame, Frame
  <1>7. stack' = <<f>>
    BY DEF StartWalk
  <1>8. stack' \in Seq(AFrame)
    <2> HIDE DEF f
    <2> QED
      BY <1>6, <1>7
  <1>9. /\ root' \in Objects /\ mode' \in Modes /\ walks' \in Seq(AWalk)
        /\ processed' \subseteq Objects
        /\ UNCHANGED <<xref, task, entries, recorded, applyVars>>
    BY <1>2, <1>3 DEF StartWalk
  <1>10. /\ added' \subseteq Objects /\ valid' \in BOOLEAN /\ acyclic' \in BOOLEAN
         /\ pushCount' \in Nat /\ list' \in Seq(Objects)
    <2>1. CASE task = "full"
      BY <2>1, EmptySeq DEF StartWalk
    <2>2. CASE task # "full"
      BY <2>2, Walking DEF StartWalk
    <2> QED
      BY <2>1, <2>2
  <1> QED
    BY <1>1, <1>8, <1>9, <1>10, Walking, WalkTyped

LEMMA DetectCycleTyped == ASSUME TypeInv, DetectCycle PROVE TypeInv'
  <1>1. stack' \in Seq(AFrame) /\ stack # <<>>
    BY Called DEF DetectCycle, Calling
  <1>2. /\ UNCHANGED <<xref, task, walks, root, mode, list, processed, added, pushCount, entries, recorded, applyVars>>
        /\ acyclic' = FALSE /\ valid' = FALSE
    BY DEF DetectCycle
  <1> QED
    BY <1>1, <1>2, Walking, WalkTyped

LEMMA GiveUpTyped == ASSUME TypeInv, GiveUp PROVE TypeInv'
  <1>1. stack' \in Seq(AFrame) /\ stack # <<>>
    BY Called DEF GiveUp, Calling
  <1>2. /\ UNCHANGED <<xref, task, walks, root, mode, list, processed, added, valid, acyclic, entries, recorded, applyVars>>
        /\ pushCount' = pushCount + 1
    BY DEF GiveUp
  <1>3. pushCount' \in Nat
    BY <1>2, Walking
  <1> QED
    BY <1>1, <1>2, <1>3, Walking, WalkTyped

LEMMA ShortCircuitTyped == ASSUME TypeInv, ShortCircuit PROVE TypeInv'
  <1>1. stack' \in Seq(AFrame) /\ stack # <<>>
    BY Called DEF ShortCircuit, Calling
  <1>2. /\ UNCHANGED <<xref, task, walks, root, mode, list, processed, added, valid, acyclic, applyVars>>
        /\ pushCount' = pushCount + 1
    BY DEF ShortCircuit
  <1>3. pushCount' \in Nat
    BY <1>2, Walking
  <1>4. /\ entries' \in Seq(Objects) /\ IsInjective(entries') /\ Len(entries) <= Len(entries')
        /\ recorded' \subseteq Objects \X Objects
    BY Recorded DEF ShortCircuit
  <1> QED
    BY <1>1, <1>2, <1>3, <1>4, Walking, WalkTyped

LEMMA PushAgainTyped == ASSUME TypeInv, PushAgain PROVE TypeInv'
  <1>1. stack' \in Seq(AFrame) /\ stack # <<>>
    BY Called DEF PushAgain, Calling
  <1>2. /\ UNCHANGED <<xref, task, walks, root, mode, list, processed, added, acyclic, entries, recorded, applyVars>>
        /\ pushCount' = pushCount + 1 /\ valid' = (valid /\ Legal(Object, RelatedType, mode))
    BY DEF PushAgain
  <1>3. pushCount' \in Nat
    BY <1>2, Walking
  <1>4. valid' \in BOOLEAN
    BY <1>2
  <1> QED
    BY <1>1, <1>2, <1>3, <1>4, Walking, WalkTyped

(* A call that goes deeper, and one that may not.                           *)
LEMMA Pushes ==
    ASSUME TypeInv, Push
    PROVE  LET gathered == list \o Gathered(Object, mode)
               depth == Last(stack).depth - 1
           IN /\ gathered \in Seq(Objects)
              /\ depth \in 0 .. FullDepth
              /\ depth > 0 => /\ list' = <<>> /\ stack' = Append(Rest, Frame(Object, gathered, depth))
                              /\ Frame(Object, gathered, depth) \in AFrame
              /\ depth = 0 => list' = gathered /\ stack' = Rest
  <1> DEFINE gathered == list \o Gathered(Object, mode)
             depth == Last(stack).depth - 1
  <1>1. gathered \in Seq(Objects)
    BY GatheredTyped
  <1>2. Last(stack) \in AFrame /\ Object \in Objects
    BY Called DEF Push
  <1>3. Last(stack).depth \in 1 .. (FullDepth + 1) /\ FullDepth \in Nat
    BY <1>2, ConstantsAssumption DEF AFrame
  <1>4. depth \in 0 .. FullDepth
    BY <1>3
  <1>5. /\ depth > 0 => list' = <<>> /\ stack' = Append(Rest, Frame(Object, gathered, depth))
        /\ ~ (depth > 0) => list' = gathered /\ stack' = Rest
    BY DEF Push
  <1> HIDE DEF gathered, depth
  <1>6. depth > 0 => Frame(Object, gathered, depth) \in AFrame
    BY <1>1, <1>2, <1>3, <1>4 DEF AFrame, Frame
  <1>7. depth = 0 => ~ (depth > 0)
    OBVIOUS
  <1> QED
    BY <1>1, <1>4, <1>5, <1>6, <1>7 DEF gathered, depth

LEMMA PushTyped == ASSUME TypeInv, Push PROVE TypeInv'
  <1> DEFINE gathered == list \o Gathered(Object, mode)
             depth == Last(stack).depth - 1
  <1>1. /\ stack # <<>> /\ Rest \in Seq(AFrame) /\ Object \in Objects
    BY Called DEF Push, Calling
  <1>2. /\ UNCHANGED <<xref, task, walks, root, mode, acyclic, applyVars>>
        /\ pushCount' = pushCount + 1 /\ valid' = (valid /\ Legal(Object, RelatedType, mode))
        /\ processed' = processed \cup {Object} /\ added' = added \cup {Object}
    BY DEF Push
  <1>3. pushCount' \in Nat
    BY <1>2, Walking
  <1>4. valid' \in BOOLEAN
    BY <1>2
  <1>5. processed' \subseteq Objects /\ added' \subseteq Objects
    BY <1>1, <1>2, Walking
  <1>6. /\ entries' \in Seq(Objects) /\ IsInjective(entries') /\ Len(entries) <= Len(entries')
        /\ recorded' \subseteq Objects \X Objects
    BY Recorded DEF Push
  <1>7. /\ gathered \in Seq(Objects)
        /\ depth \in 0 .. FullDepth
        /\ depth > 0 => /\ list' = <<>> /\ stack' = Append(Rest, Frame(Object, gathered, depth))
                        /\ Frame(Object, gathered, depth) \in AFrame
        /\ depth = 0 => list' = gathered /\ stack' = Rest
    BY Pushes
  <1> HIDE DEF gathered, depth
  <1>8. list' \in Seq(Objects) /\ stack' \in Seq(AFrame)
    <2>1. CASE depth > 0
      BY <2>1, <1>7, <1>1, Appended, EmptySeq
    <2>2. CASE depth = 0
      BY <2>2, <1>7, <1>1
    <2> QED
      BY <2>1, <2>2, <1>7, ConstantsAssumption
  <1> QED
    BY <1>1, <1>2, <1>3, <1>4, <1>5, <1>6, <1>8, Walking, WalkTyped

(* What the end of a call does to the map.                                  *)
LEMMA ReturnRecords ==
    ASSUME TypeInv, Return
    PROVE  /\ entries' \in Seq(Objects) /\ IsInjective(entries') /\ Len(entries) <= Len(entries')
           /\ LET over == WithDatabase /\ Len(stack) = 1 /\ (task = "full" \/ walks = <<>>)
              IN /\ over => ToSet(entries') = ToSet(entries) \cup {root}
                 /\ ~ over => entries' = entries
  <1> DEFINE over == WithDatabase /\ Len(stack) = 1 /\ (task = "full" \/ walks = <<>>)
  <1>1. /\ over => entries' = AddEntry(entries, root)
        /\ ~ over => entries' = entries
    BY DEF Return
  <1>2. entries \in Seq(Objects) /\ IsInjective(entries) /\ root \in Objects /\ Len(entries) <= Len(entries)
    BY Walking
  <1> HIDE DEF over
  <1>3. /\ AddEntry(entries, root) \in Seq(Objects) /\ IsInjective(AddEntry(entries, root))
        /\ ToSet(AddEntry(entries, root)) = ToSet(entries) \cup {root}
        /\ Len(entries) <= Len(AddEntry(entries, root))
    BY <1>2, AddEntryIs
  <1> QED
    BY <1>1, <1>2, <1>3 DEF over

LEMMA ReturnTyped == ASSUME TypeInv, Return PROVE TypeInv'
  <1>1. stack' \in Seq(AFrame) /\ stack # <<>>
    BY Returned DEF Return
  <1>2. UNCHANGED <<xref, task, walks, root, mode, list, processed, added, valid, acyclic, pushCount, recorded, applyVars>>
    BY DEF Return
  <1>3. entries' \in Seq(Objects) /\ IsInjective(entries') /\ Len(entries) <= Len(entries')
    BY ReturnRecords
  <1> QED
    BY <1>1, <1>2, <1>3, Walking, WalkTyped

-----------------------------------------------------------------------------
(* The types of what applyGraphData does.                                   *)

LEMMA ApplyTyped ==
    ASSUME TypeInv, UNCHANGED <<xref, task, walkVars>>, WithDatabase, WalksDone,
           applied' \in 0 .. Len(entries), work' \in Seq(ACall),
           work' # <<>> => applied' < Len(entries),
           ancestors' \in [Objects -> SUBSET Objects],
           below' \in [Objects -> SUBSET UNION {Facts[o] : o \in Objects}]
    PROVE  TypeInv'
  <1>1. ApplyKept'
    BY DEF ApplyKept, WalksDone, WithDatabase, walkVars
  <1> QED
    BY <1>1 DEF TypeInv, TypeOK, walkVars, ACall

LEMMA EntryTyped ==
    ASSUME TypeInv, applied < Len(entries)
    PROVE  /\ applied \in Nat /\ Len(entries) \in Nat
           /\ applied + 1 \in 1 .. Len(entries)
           /\ entries[applied + 1] \in Objects
           /\ entries[applied + 1] \in EntrySet
  <1>1. applied \in 0 .. Len(entries) /\ entries \in Seq(Objects) /\ Len(entries) \in Nat
    BY DEF TypeInv, TypeOK
  <1>2. applied + 1 \in 1 .. Len(entries) /\ DOMAIN entries = 1 .. Len(entries)
    BY <1>1
  <1> QED
    BY <1>1, <1>2, ElementOfSeq DEF EntrySet, ToSet

(* The calls made for an object's children or parents.                      *)
LEMMA SpreadIs ==
    ASSUME NEW S \in SUBSET Objects, NEW dir \in {"eChild", "eParent"}, NEW depth \in 0 .. FullDepth
    PROVE  /\ Spread(dir, SetToSeq(S), depth) \in Seq(ACall)
           /\ depth = 0 => ToSet(Spread(dir, SetToSeq(S), depth)) = {}
           /\ depth # 0 => ToSet(Spread(dir, SetToSeq(S), depth))
                              = {[dir |-> dir, object |-> o, depth |-> depth - 1] : o \in S}
  <1> DEFINE os == SetToSeq(S)
             s == Spread(dir, os, depth)
             n == Len(os)
  <1>1. os \in Seq(Objects) /\ ToSet(os) = S
    BY SomeObjects
  <1> HIDE DEF os
  <1>2. n \in Nat /\ DOMAIN os = 1 .. n /\ \A i \in 1 .. n : os[i] \in Objects
    BY <1>1, LenProperties, ElementOfSeq
  <1>3. CASE depth = 0
    <2>1. s = <<>>
      BY <1>3 DEF Spread
    <2> HIDE DEF s
    <2>2. ToSet(<<>>) = {}
      BY DEF ToSet
    <2> QED
      BY <1>3, <2>1, <2>2, EmptySeq DEF s, os
  <1>4. CASE depth # 0
    <2>1. s = [i \in 1 .. n |-> [dir |-> dir, object |-> os[i], depth |-> depth - 1]]
      BY <1>2, <1>4 DEF Spread
    <2>2. depth - 1 \in 0 .. FullDepth
      BY <1>4, ConstantsAssumption
    <2>3. s \in [1 .. n -> ACall]
      BY <1>2, <2>1, <2>2 DEF ACall
    <2>4. s \in Seq(ACall)
      BY <1>2, <2>3, SeqDef
    <2>5. ToSet(s) = {[dir |-> dir, object |-> o, depth |-> depth - 1] : o \in S}
      BY <1>1, <1>2, <2>1 DEF ToSet
    <2> QED
      BY <1>4, <2>4, <2>5 DEF os
  <1> QED
    BY <1>3, <1>4

ChildrenOf(o) == {c \in Objects : <<o, c>> \in recorded}
ParentsOf(o) == {p \in Objects : <<p, o>> \in recorded}

ChildCall(o, d) == [dir |-> "eChild", object |-> o, depth |-> d]
ParentCall(o, d) == [dir |-> "eParent", object |-> o, depth |-> d]

LEMMA SpreadChildren ==
    ASSUME NEW o, NEW d \in 0 .. FullDepth
    PROVE  /\ Spread("eChild", Children(o), d) \in Seq(ACall)
           /\ d = 0 => ToSet(Spread("eChild", Children(o), d)) = {}
           /\ d # 0 => ToSet(Spread("eChild", Children(o), d)) = {ChildCall(c, d - 1) : c \in ChildrenOf(o)}
  BY SpreadIs DEF Children, ChildrenOf, ChildCall

LEMMA SpreadParents ==
    ASSUME NEW o, NEW d \in 0 .. FullDepth
    PROVE  /\ Spread("eParent", Parents(o), d) \in Seq(ACall)
           /\ d = 0 => ToSet(Spread("eParent", Parents(o), d)) = {}
           /\ d # 0 => ToSet(Spread("eParent", Parents(o), d)) = {ParentCall(p, d - 1) : p \in ParentsOf(o)}
  BY SpreadIs DEF Parents, ParentsOf, ParentCall

-----------------------------------------------------------------------------
(* What is reached from an object is the least set that holds what the      *)
(* object, and each member, is linked to.                                   *)

Further(s, links) == s \cup Successors(s, links)

Stepping(o, links, R) ==
    R = [n \in 0 .. Cardinality(Objects) |->
            IF n = 0 THEN Successors({o}, links) ELSE Further(R[n - 1], links)]

LEMMA SteppingExists == ASSUME NEW o, NEW links PROVE \E R : Stepping(o, links, R)
  <1> DEFINE Start == Successors({o}, links)
             Upto(m, R) == R = [n \in 0 .. m |-> IF n = 0 THEN Start ELSE Further(R[n - 1], links)]
             S == {m \in Nat : \E R : Upto(m, R)}
  <1> HIDE DEF Start
  <1>1. 0 \in S
    <2> DEFINE R == [n \in 0 .. 0 |-> Start]
    <2>1. R = [n \in 0 .. 0 |-> IF n = 0 THEN Start ELSE Further(R[n - 1], links)]
      OBVIOUS
    <2> HIDE DEF R
    <2> QED
      BY <2>1
  <1>2. ASSUME NEW m \in Nat, m \in S PROVE m + 1 \in S
    <2>1. PICK R : Upto(m, R)
      BY <1>2
    <2> DEFINE Longer == [n \in 0 .. m + 1 |-> IF n = 0 THEN Start ELSE Further(R[n - 1], links)]
    <2>2. \A n \in 0 .. m : Longer[n] = R[n]
      BY <2>1
    <2>3. \A n \in 0 .. m + 1 : n # 0 => n - 1 \in 0 .. m
      OBVIOUS
    <2>4. \A n \in 0 .. m + 1 :
             (IF n = 0 THEN Start ELSE Further(R[n - 1], links))
               = (IF n = 0 THEN Start ELSE Further(Longer[n - 1], links))
      <3> HIDE DEF Longer
      <3> QED
        BY <2>2, <2>3
    <2>5. Upto(m + 1, Longer)
      BY <2>4
    <2> HIDE DEF Longer, Upto
    <2> QED
      BY <2>5
  <1>3. Cardinality(Objects) \in S
    <2> HIDE DEF S
    <2> QED
      BY <1>1, <1>2, NaturalsFromZero, ConstantsAssumption, FS_CardinalityType
  <1> QED
    BY <1>3 DEF Stepping, Start

LEMMA ReachIsLast ==
    ASSUME NEW o, NEW links
    PROVE  \E R : Stepping(o, links, R) /\ Reach(o, links) = R[Cardinality(Objects)]
  <1> DEFINE R == CHOOSE R : Stepping(o, links, R)
  <1>1. Stepping(o, links, R)
    BY SteppingExists
  <1>2. Reach(o, links) = R[Cardinality(Objects)]
    BY DEF Reach, Stepping, Further
  <1> HIDE DEF R
  <1> QED
    BY <1>1, <1>2

(* As long as a step finds something new there are more objects than steps. *)
LEMMA ReachIsLeast ==
    ASSUME NEW o \in Objects, NEW links \in SUBSET (Objects \X Objects)
    PROVE  /\ Reach(o, links) \in SUBSET Objects
           /\ \A l \in links : l[1] = o \/ l[1] \in Reach(o, links) => l[2] \in Reach(o, links)
           /\ \A S \in SUBSET Objects :
                 (\A l \in links : l[1] = o \/ l[1] \in S => l[2] \in S) => Reach(o, links) \subseteq S
  <1> DEFINE N == Cardinality(Objects)
             Start == Successors({o}, links)
  <1>1. PICK R : Stepping(o, links, R) /\ Reach(o, links) = R[N]
    BY ReachIsLast
  <1>2. N \in Nat /\ IsFiniteSet(Objects)
    BY ConstantsAssumption, FS_CardinalityType
  <1>3. Start \in SUBSET Objects /\ \A l \in links : l[1] = o => l[2] \in Start
    BY DEF Successors
  <1>4. R = [n \in 0 .. N |-> IF n = 0 THEN Start ELSE Further(R[n - 1], links)]
    BY <1>1 DEF Stepping
  <1>5. \A s : /\ s \subseteq Further(s, links)
               /\ s \in SUBSET Objects => Further(s, links) \in SUBSET Objects
               /\ \A l \in links : l[1] \in s => l[2] \in Further(s, links)
    BY DEF Further, Successors
  <1>6. \A s, S : s \subseteq S /\ (\A l \in links : l[1] \in S => l[2] \in S)
                     => Further(s, links) \subseteq S
    BY DEF Further, Successors
  <1>7. \A S : (\A l \in links : l[1] = o => l[2] \in S) => Start \subseteq S
    BY DEF Successors
  <1> HIDE DEF N, Start
  <1>8. R[0] = Start /\ \A n \in 0 .. N - 1 : R[n + 1] = Further(R[n], links)
    BY <1>2, <1>4
  <1>9. \A n \in 0 .. N : R[n] \in SUBSET Objects /\ Start \subseteq R[n]
    <2> DEFINE D == {n \in Nat : n <= N => R[n] \in SUBSET Objects /\ Start \subseteq R[n]}
    <2>1. 0 \in D
      BY <1>3, <1>8
    <2>2. ASSUME NEW n \in Nat, n \in D PROVE n + 1 \in D
      <3> SUFFICES ASSUME n + 1 <= N PROVE R[n + 1] \in SUBSET Objects /\ Start \subseteq R[n + 1]
        OBVIOUS
      <3>1. n \in 0 .. N - 1 /\ n <= N
        BY <1>2
      <3>2. R[n] \in SUBSET Objects /\ Start \subseteq R[n]
        BY <3>1, <2>2
      <3> QED
        BY <3>1, <3>2, <1>5, <1>8
    <2>3. Nat \subseteq D
      <3> HIDE DEF D
      <3> QED
        BY <2>1, <2>2, NaturalsFromZero
    <2> QED
      BY <2>3, <1>2
  <1>10. ASSUME NEW S \in SUBSET Objects, \A l \in links : l[1] = o \/ l[1] \in S => l[2] \in S
         PROVE  R[N] \subseteq S
    <2> DEFINE D == {n \in Nat : n <= N => R[n] \subseteq S}
    <2>1. 0 \in D
      BY <1>7, <1>8, <1>10
    <2>2. ASSUME NEW n \in Nat, n \in D PROVE n + 1 \in D
      <3> SUFFICES ASSUME n + 1 <= N PROVE R[n + 1] \subseteq S
        OBVIOUS
      <3>1. n \in 0 .. N - 1 /\ n <= N
        BY <1>2
      <3>2. R[n] \subseteq S
        BY <3>1, <2>2
      <3> QED
        BY <3>1, <3>2, <1>6, <1>8, <1>10
    <2>3. N \in D
      <3> HIDE DEF D
      <3> QED
        BY <2>1, <2>2, NaturalsFromZero, <1>2
    <2> QED
      BY <2>3
  <1>11. \A n \in 0 .. N : \/ Further(R[n], links) = R[n]
                           \/ IsFiniteSet(R[n]) /\ Cardinality(R[n]) \in Nat /\ n + 1 <= Cardinality(R[n])
    <2> DEFINE Grown(n) == \/ Further(R[n], links) = R[n]
                           \/ IsFiniteSet(R[n]) /\ Cardinality(R[n]) \in Nat /\ n + 1 <= Cardinality(R[n])
               D == {n \in Nat : n <= N => Grown(n)}
    <2>0. \A n \in 0 .. N : IsFiniteSet(R[n]) /\ Cardinality(R[n]) \in Nat
      BY <1>2, <1>9, FS_Subset, FS_CardinalityType
    <2>1. 0 \in D
      <3>1. CASE R[0] = {}
        <4>1. Further({}, links) = {}
          BY DEF Further, Successors
        <4> QED
          BY <3>1, <4>1
      <3>2. CASE R[0] # {}
        <4>1. 0 \in 0 .. N
          BY <1>2
        <4>2. Cardinality(R[0]) # 0 /\ Cardinality(R[0]) \in Nat /\ IsFiniteSet(R[0])
          BY <4>1, <3>2, <2>0, FS_EmptySet
        <4> QED
          BY <4>2
      <3> QED
        BY <3>1, <3>2
    <2>2. ASSUME NEW n \in Nat, n \in D PROVE n + 1 \in D
      <3> SUFFICES ASSUME n + 1 <= N PROVE Grown(n + 1)
        OBVIOUS
      <3>1. n \in 0 .. N - 1 /\ n \in 0 .. N /\ n + 1 \in 0 .. N /\ n <= N
        BY <1>2
      <3>2. Grown(n)
        BY <3>1, <2>2
      <3>3. R[n + 1] = Further(R[n], links)
        BY <3>1, <1>8
      <3>4. CASE Further(R[n], links) = R[n]
        BY <3>3, <3>4
      <3>5. CASE Further(R[n], links) # R[n] /\ n + 1 <= Cardinality(R[n])
        <4>1. R[n] \in SUBSET R[n + 1] /\ R[n] # R[n + 1]
          BY <3>3, <3>5, <1>5
        <4>2. /\ IsFiniteSet(R[n + 1])
              /\ Cardinality(R[n]) \in Nat /\ Cardinality(R[n + 1]) \in Nat
          BY <3>1, <2>0
        <4>3. Cardinality(R[n]) <= Cardinality(R[n + 1]) /\ Cardinality(R[n]) # Cardinality(R[n + 1])
          BY <4>1, <4>2, FS_Subset
        <4>4. (n + 1) + 1 <= Cardinality(R[n + 1])
          BY <4>2, <4>3, <3>5
        <4> QED
          BY <4>2, <4>4
      <3> QED
        BY <3>2, <3>4, <3>5
    <2>3. Nat \subseteq D
      <3> HIDE DEF D
      <3> QED
        BY <2>1, <2>2, NaturalsFromZero
    <2> QED
      BY <2>3, <1>2
  <1>12. Further(R[N], links) = R[N]
    <2>1. N \in 0 .. N
      BY <1>2
    <2>2. R[N] \in SUBSET Objects
      BY <2>1, <1>9
    <2>3. Cardinality(R[N]) <= N
      BY <2>2, <1>2, FS_Subset DEF N
    <2> QED
      BY <2>1, <2>3, <1>2, <1>11
  <1>13. N \in 0 .. N
    BY <1>2
  <1>14. R[N] \in SUBSET Objects /\ Start \subseteq R[N]
    BY <1>9, <1>13
  <1>15. \A l \in links : l[1] = o \/ l[1] \in R[N] => l[2] \in R[N]
    BY <1>3, <1>5, <1>12, <1>14
  <1> QED
    BY <1>1, <1>10, <1>14, <1>15

(* What is reached from what is reached is reached.                         *)
LEMMA ReachTransitive ==
    ASSUME NEW o \in Objects, NEW links \in SUBSET (Objects \X Objects), NEW x \in Reach(o, links)
    PROVE  x \in Objects /\ Reach(x, links) \subseteq Reach(o, links)
  <1>1. x \in Objects /\ Reach(o, links) \in SUBSET Objects
    BY ReachIsLeast
  <1>2. \A l \in links : l[1] = x \/ l[1] \in Reach(o, links) => l[2] \in Reach(o, links)
    BY ReachIsLeast
  <1> QED
    BY <1>1, <1>2, ReachIsLeast

LEMMA InvertedTyped ==
    ASSUME NEW links \in SUBSET (Objects \X Objects)
    PROVE  /\ Inverted(links) \in SUBSET (Objects \X Objects)
           /\ \A a, b : <<a, b>> \in Inverted(links) <=> <<b, a>> \in links
           /\ Inverted(Inverted(links)) = links
  <1>1. Inverted(links) \in SUBSET (Objects \X Objects)
    BY DEF Inverted
  <1>2. \A a, b : <<a, b>> \in Inverted(links) <=> <<b, a>> \in links
    <2> SUFFICES ASSUME NEW a, NEW b PROVE <<a, b>> \in Inverted(links) <=> <<b, a>> \in links
      OBVIOUS
    <2>1. ASSUME <<a, b>> \in Inverted(links) PROVE <<b, a>> \in links
      <3>1. PICK l \in links : <<a, b>> = <<l[2], l[1]>>
        BY <2>1 DEF Inverted
      <3>2. l = <<l[1], l[2]>>
        BY <3>1
      <3> QED
        BY <3>1, <3>2
    <2>2. ASSUME <<b, a>> \in links PROVE <<a, b>> \in Inverted(links)
      <3>1. <<b, a>>[2] = a /\ <<b, a>>[1] = b
        OBVIOUS
      <3> QED
        BY <2>2, <3>1 DEF Inverted
    <2> QED
      BY <2>1, <2>2
  <1>3. \A a, b : <<a, b>> \in Inverted(Inverted(links)) <=> <<a, b>> \in links
    <2> SUFFICES ASSUME NEW a, NEW b
                 PROVE  <<a, b>> \in Inverted(Inverted(links)) <=> <<b, a>> \in Inverted(links)
      BY <1>2
    <2>1. ASSUME <<a, b>> \in Inverted(Inverted(links)) PROVE <<b, a>> \in Inverted(links)
      <3>1. PICK l \in Inverted(links) : <<a, b>> = <<l[2], l[1]>>
        BY <2>1 DEF Inverted
      <3>2. l = <<l[1], l[2]>>
        BY <3>1, <1>1
      <3> QED
        BY <3>1, <3>2
    <2>2. ASSUME <<b, a>> \in Inverted(links) PROVE <<a, b>> \in Inverted(Inverted(links))
      <3>1. <<b, a>>[2] = a /\ <<b, a>>[1] = b
        OBVIOUS
      <3> QED
        BY <2>2, <3>1 DEF Inverted
    <2> QED
      BY <2>1, <2>2
  <1>4. Inverted(Inverted(links)) \in SUBSET (Objects \X Objects)
    BY <1>1 DEF Inverted
  <1>5. Inverted(Inverted(links)) = links
    BY <1>3, <1>4
  <1> QED
    BY <1>1, <1>2, <1>5

LEMMA ReachInvertedOne ==
    ASSUME NEW o \in Objects, NEW e \in Objects, NEW links \in SUBSET (Objects \X Objects),
           o \in Reach(e, links)
    PROVE  e \in Reach(o, Inverted(links))
  <1> DEFINE inv == Inverted(links)
             S == {x \in Objects : e \in Reach(x, inv)}
  <1>1. inv \in SUBSET (Objects \X Objects) /\ \A a, b : <<a, b>> \in inv <=> <<b, a>> \in links
    BY InvertedTyped
  <1> HIDE DEF inv
  <1>2. \A x \in Objects : Reach(x, inv) \in SUBSET Objects
    BY <1>1, ReachIsLeast
  <1>3. ASSUME NEW l \in links, l[1] = e \/ l[1] \in S PROVE l[2] \in S
    <2> DEFINE x == l[1]
               y == l[2]
    <2>1. l = <<x, y>> /\ x \in Objects /\ y \in Objects
      OBVIOUS
    <2> HIDE DEF x, y
    <2>2. <<y, x>> \in inv /\ <<y, x>>[1] = y /\ <<y, x>>[2] = x
      BY <2>1, <1>1
    <2>3. x \in Reach(y, inv)
      BY <2>1, <2>2, <1>1, ReachIsLeast
    <2>4. CASE x = e
      BY <2>1, <2>3, <2>4 DEF y
    <2>5. CASE x \in S
      <3>1. e \in Reach(x, inv)
        BY <2>5
      <3>2. Reach(x, inv) \subseteq Reach(y, inv)
        BY <2>1, <2>3, <1>1, ReachTransitive
      <3> QED
        BY <2>1, <3>1, <3>2 DEF y
    <2> QED
      BY <1>3, <2>4, <2>5 DEF x
  <1>4. S \in SUBSET Objects
    OBVIOUS
  <1>5. Reach(e, links) \subseteq S
    <2> HIDE DEF S
    <2> QED
      BY <1>3, <1>4, ReachIsLeast
  <1> QED
    BY <1>5 DEF inv

LEMMA ReachInverted ==
    ASSUME NEW o \in Objects, NEW e \in Objects, NEW links \in SUBSET (Objects \X Objects)
    PROVE  o \in Reach(e, links) <=> e \in Reach(o, Inverted(links))
  <1>1. Inverted(links) \in SUBSET (Objects \X Objects) /\ Inverted(Inverted(links)) = links
    BY InvertedTyped
  <1> QED
    BY <1>1, ReachInvertedOne

-----------------------------------------------------------------------------
(* The calls that are still to be made.                                     *)

ChildCalled(w, o) == \E d \in 0 .. FullDepth : ChildCall(o, d) \in ToSet(w)
ParentCalled(w, o) == \E d \in 0 .. FullDepth : ParentCall(o, d) \in ToSet(w)
Current == entries[applied + 1]

LEMMA HeadAndTail ==
    ASSUME NEW S, NEW s \in Seq(S), s # <<>>
    PROVE  /\ Head(s) \in S /\ Tail(s) \in Seq(S)
           /\ ToSet(s) = {Head(s)} \cup ToSet(Tail(s))
           /\ Len(Tail(s)) = Len(s) - 1 /\ Len(s) \in Nat \ {0}
           /\ Head(s) = s[1]
           /\ \A i \in 1 .. Len(s) - 1 : Tail(s)[i] = s[i + 1]
  <1> DEFINE t == Tail(s)
  <1>1. /\ Head(s) \in S /\ t \in Seq(S) /\ Len(t) = Len(s) - 1
        /\ \A i \in 1 .. Len(t) : t[i] = s[i + 1]
    BY HeadTailProperties
  <1>2. Len(s) \in Nat \ {0} /\ DOMAIN s = 1 .. Len(s)
    BY EmptySeq, LenProperties
  <1>3. Head(s) = s[1]
    OBVIOUS
  <1>4. DOMAIN t = 1 .. Len(s) - 1 /\ \A i \in 1 .. Len(s) - 1 : t[i] = s[i + 1]
    BY <1>1, LenProperties
  <1> HIDE DEF t
  <1>5. ToSet(t) \subseteq ToSet(s)
    <2> SUFFICES ASSUME NEW i \in 1 .. Len(s) - 1 PROVE t[i] \in ToSet(s)
      BY <1>4 DEF ToSet
    <2>1. i + 1 \in 1 .. Len(s)
      BY <1>2
    <2> QED
      BY <2>1, <1>2, <1>4 DEF ToSet
  <1>6. s[1] \in ToSet(s)
    BY <1>2 DEF ToSet
  <1>7. ToSet(s) \subseteq {s[1]} \cup ToSet(t)
    <2> SUFFICES ASSUME NEW i \in 1 .. Len(s), i # 1 PROVE s[i] \in ToSet(t)
      BY <1>2 DEF ToSet
    <2>1. i - 1 \in 1 .. Len(s) - 1 /\ (i - 1) + 1 = i
      BY <1>2
    <2>2. t[i - 1] = s[i]
      BY <2>1, <1>4
    <2> QED
      BY <2>1, <2>2, <1>4 DEF ToSet
  <1> QED
    BY <1>1, <1>2, <1>3, <1>4, <1>5, <1>6, <1>7 DEF t

(* The end of the calls for an entry, and nothing before it, is marked.     *)
WorkEnds(w) == \A i \in 1 .. Len(w) : w[i].dir = "done" <=> i = Len(w)

LEMMA EndsTail ==
    ASSUME NEW w \in Seq(ACall), w # <<>>, WorkEnds(w), Head(w).dir # "done"
    PROVE  Tail(w) # <<>> /\ WorkEnds(Tail(w))
  <1> DEFINE t == Tail(w)
  <1>1. /\ t \in Seq(ACall) /\ Len(t) = Len(w) - 1 /\ Len(w) \in Nat \ {0} /\ Head(w) = w[1]
        /\ \A i \in 1 .. Len(w) - 1 : t[i] = w[i + 1]
    BY HeadAndTail
  <1> HIDE DEF t
  <1>2. Len(w) # 1
    <2>1. 1 \in 1 .. Len(w)
      BY <1>1
    <2>2. w[1].dir = "done" <=> 1 = Len(w)
      BY <2>1 DEF WorkEnds
    <2> QED
      BY <2>2, <1>1
  <1>3. t # <<>>
    <2>1. Len(t) # 0
      BY <1>1, <1>2
    <2> QED
      BY <2>1, EmptySeq
  <1>4. ASSUME NEW i \in 1 .. Len(t) PROVE t[i].dir = "done" <=> i = Len(t)
    <2>1. i + 1 \in 1 .. Len(w) /\ t[i] = w[i + 1] /\ (i + 1 = Len(w) <=> i = Len(t))
      BY <1>1
    <2> QED
      BY <2>1 DEF WorkEnds
  <1> QED
    BY <1>3, <1>4 DEF WorkEnds, t

LEMMA EndsConcat ==
    ASSUME NEW s \in Seq(ACall), NEW t \in Seq(ACall), t # <<>>, WorkEnds(t),
           \A c \in ToSet(s) : c.dir # "done"
    PROVE  s \o t # <<>> /\ WorkEnds(s \o t)
  <1> DEFINE u == s \o t
  <1>1. /\ u \in Seq(ACall) /\ Len(u) = Len(s) + Len(t)
        /\ \A i \in 1 .. Len(s) + Len(t) : u[i] = IF i <= Len(s) THEN s[i] ELSE t[i - Len(s)]
    BY ConcatProperties
  <1>2. Len(s) \in Nat /\ Len(t) \in Nat \ {0} /\ DOMAIN s = 1 .. Len(s)
    BY EmptySeq, LenProperties
  <1>3. u # <<>>
    BY <1>1, <1>2, EmptySeq
  <1> HIDE DEF u
  <1>4. ASSUME NEW i \in 1 .. Len(u) PROVE u[i].dir = "done" <=> i = Len(u)
    <2>1. CASE i <= Len(s)
      <3>1. u[i] = s[i] /\ i \in DOMAIN s /\ i # Len(u)
        BY <2>1, <1>1, <1>2
      <3>2. s[i] \in ToSet(s)
        BY <3>1 DEF ToSet
      <3> QED
        BY <3>1, <3>2
    <2>2. CASE ~ (i <= Len(s))
      <3>1. /\ u[i] = t[i - Len(s)] /\ i - Len(s) \in 1 .. Len(t)
            /\ (i - Len(s) = Len(t) <=> i = Len(u))
        BY <2>2, <1>1, <1>2
      <3> QED
        BY <3>1 DEF WorkEnds
    <2> QED
      BY <2>1, <2>2
  <1> QED
    BY <1>3, <1>4 DEF WorkEnds, u

(* The calls made for the entry itself.                                     *)
LEMMA SelfCalls ==
    ASSUME TypeInv, ApplySelf
    PROVE  /\ work = <<>> /\ Current \in Objects /\ applied < Len(entries)
           /\ work' \in Seq(ACall) /\ work' # <<>> /\ WorkEnds(work')
           /\ \A c \in ChildrenOf(Current) : ChildCall(c, FullDepth - 1) \in ToSet(work')
           /\ \A p \in ParentsOf(Current) : ParentCall(p, FullDepth - 1) \in ToSet(work')
           /\ \A t \in ToSet(work') : \/ \E c \in ChildrenOf(Current) : t = ChildCall(c, FullDepth - 1)
                                      \/ \E p \in ParentsOf(Current) : t = ParentCall(p, FullDepth - 1)
                                      \/ t.dir = "done"
  <1> DEFINE e == entries[applied + 1]
             s == Spread("eChild", Children(e), FullDepth)
             t == Spread("eParent", Parents(e), FullDepth)
             d == <<[dir |-> "done", object |-> e, depth |-> 0]>>
  <1>1. work = <<>> /\ applied < Len(entries) /\ work' = s \o t \o d
    BY DEF ApplySelf
  <1>2. e \in Objects
    BY <1>1, EntryTyped
  <1>16. FullDepth \in 0 .. FullDepth /\ FullDepth # 0
    BY ConstantsAssumption
  <1>3. s \in Seq(ACall) /\ ToSet(s) = {ChildCall(c, FullDepth - 1) : c \in ChildrenOf(e)}
    BY <1>16, SpreadChildren
  <1>4. t \in Seq(ACall) /\ ToSet(t) = {ParentCall(p, FullDepth - 1) : p \in ParentsOf(e)}
    BY <1>16, SpreadParents
  <1>5. Current = e
    BY DEF Current
  <1> HIDE DEF e, s, t
  <1>6. [dir |-> "done", object |-> e, depth |-> 0] \in ACall
    BY <1>2, <1>16 DEF ACall
  <1>7. d \in Seq(ACall) /\ d # <<>> /\ Len(d) = 1 /\ d[1] = [dir |-> "done", object |-> e, depth |-> 0]
    BY <1>6
  <1>8. WorkEnds(d) /\ ToSet(d) = {[dir |-> "done", object |-> e, depth |-> 0]}
    <2>1. DOMAIN d = 1 .. 1 /\ 1 .. 1 = {1}
      OBVIOUS
    <2> QED
      BY <2>1, <1>7 DEF WorkEnds, ToSet
  <1> HIDE DEF d
  <1>9. s \o t \in Seq(ACall) /\ ToSet(s \o t) = ToSet(s) \cup ToSet(t)
    BY <1>3, <1>4, ConcatIs
  <1> DEFINE st == s \o t
  <1>10. work' = st \o d /\ st \in Seq(ACall) /\ ToSet(st) = ToSet(s) \cup ToSet(t)
    BY <1>1, <1>9
  <1> HIDE DEF st
  <1>11. work' \in Seq(ACall) /\ ToSet(work') = ToSet(st) \cup ToSet(d)
    BY <1>7, <1>10, ConcatIs
  <1>12. \A c, x : ChildCall(c, x).dir # "done" /\ ParentCall(c, x).dir # "done"
    BY DEF ChildCall, ParentCall
  <1>13. \A c \in ToSet(st) : c.dir # "done"
    BY <1>3, <1>4, <1>10, <1>12
  <1>14. work' # <<>> /\ WorkEnds(work')
    BY <1>7, <1>8, <1>10, <1>13, EndsConcat
  <1>15. \A x \in ToSet(work') : \/ \E c \in ChildrenOf(e) : x = ChildCall(c, FullDepth - 1)
                                 \/ \E p \in ParentsOf(e) : x = ParentCall(p, FullDepth - 1)
                                 \/ x.dir = "done"
    BY <1>3, <1>4, <1>8, <1>10, <1>11
  <1> QED
    BY <1>1, <1>2, <1>3, <1>4, <1>5, <1>10, <1>11, <1>14, <1>15

(* The next call, and those that are left after it.                         *)
LEMMA NextCall ==
    ASSUME TypeInv, work # <<>>
    PROVE  /\ WalksDone /\ WithDatabase /\ applied < Len(entries)
           /\ Current \in Objects
           /\ Head(work) \in ACall /\ Head(work).object \in Objects /\ Head(work).depth \in 0 .. FullDepth
           /\ Tail(work) \in Seq(ACall) /\ work \in Seq(ACall)
           /\ ToSet(work) = {Head(work)} \cup ToSet(Tail(work))
  <1>1. work \in Seq(ACall)
    BY DEF TypeInv, TypeOK, ACall
  <1>2. WalksDone /\ WithDatabase /\ applied < Len(entries)
    BY DEF TypeInv, ApplyKept
  <1>3. Current \in Objects
    BY <1>2, EntryTyped DEF Current
  <1>4. Head(work) \in ACall /\ Tail(work) \in Seq(ACall) /\ ToSet(work) = {Head(work)} \cup ToSet(Tail(work))
    BY <1>1, HeadAndTail
  <1> QED
    BY <1>1, <1>2, <1>3, <1>4 DEF ACall

LEMMA ChildCalls ==
    ASSUME TypeInv, ApplyToChild
    PROVE  LET o == Head(work).object
               d == Head(work).depth IN
           /\ work # <<>> /\ Head(work) = ChildCall(o, d) /\ o \in Objects /\ d \in 0 .. FullDepth /\ Current \in Objects
           /\ work' \in Seq(ACall)
           /\ WorkEnds(work) => work' # <<>> /\ WorkEnds(work')
           /\ ToSet(Tail(work)) \subseteq ToSet(work')
           /\ Current \notin ancestors[o] /\ d # 0 => \A c \in ChildrenOf(o) : ChildCall(c, d - 1) \in ToSet(work')
           /\ \A t \in ToSet(work') : \/ t \in ToSet(work)
                                      \/ /\ d # 0 /\ Current \notin ancestors[o]
                                         /\ \E c \in ChildrenOf(o) : t = ChildCall(c, d - 1)
  <1> DEFINE o == Head(work).object
             d == Head(work).depth
             s == IF Current \notin ancestors[o] THEN Spread("eChild", Children(o), d) ELSE <<>>
             r == Tail(work)
  <1>1. work # <<>> /\ Head(work).dir = "eChild" /\ work' = s \o r
    BY DEF ApplyToChild, Current
  <1>2. /\ Head(work) \in ACall /\ o \in Objects /\ d \in 0 .. FullDepth /\ r \in Seq(ACall) /\ work \in Seq(ACall)
        /\ Current \in Objects /\ ToSet(work) = {Head(work)} \cup ToSet(r)
    BY <1>1, NextCall
  <1>3. Head(work) = ChildCall(o, d)
    BY <1>1, <1>2 DEF ChildCall, ACall
  <1>4. /\ s \in Seq(ACall)
        /\ \A t \in ToSet(s) : d # 0 /\ Current \notin ancestors[o] /\ \E c \in ChildrenOf(o) : t = ChildCall(c, d - 1)
        /\ Current \notin ancestors[o] /\ d # 0 => \A c \in ChildrenOf(o) : ChildCall(c, d - 1) \in ToSet(s)
    <2>1. CASE Current \notin ancestors[o]
      <3>1. s = Spread("eChild", Children(o), d)
        BY <2>1
      <3> HIDE DEF s, o, d
      <3> QED
        BY <2>1, <3>1, <1>2, SpreadChildren
    <2>2. CASE Current \in ancestors[o]
      <3>1. s = <<>>
        BY <2>2
      <3> HIDE DEF s, o, d
      <3>2. ToSet(<<>>) = {}
        BY DEF ToSet
      <3> QED
        BY <2>2, <3>1, <3>2, EmptySeq
    <2> QED
      BY <2>1, <2>2
  <1> HIDE DEF s, o, d, r
  <1>5. work' \in Seq(ACall) /\ ToSet(work') = ToSet(s) \cup ToSet(r)
    BY <1>1, <1>2, <1>4, ConcatIs
  <1>6. \A t \in ToSet(s) : t.dir # "done"
    BY <1>4 DEF ChildCall
  <1>7. ASSUME WorkEnds(work) PROVE work' # <<>> /\ WorkEnds(work')
    <2>1. r # <<>> /\ WorkEnds(r)
      BY <1>1, <1>2, <1>7, EndsTail DEF r
    <2> QED
      BY <2>1, <1>1, <1>2, <1>4, <1>6, EndsConcat
  <1> QED
    BY <1>1, <1>2, <1>3, <1>4, <1>5, <1>7 DEF o, d, r

LEMMA ParentCalls ==
    ASSUME TypeInv, ApplyToParent
    PROVE  LET o == Head(work).object
               d == Head(work).depth IN
           /\ work # <<>> /\ Head(work) = ParentCall(o, d) /\ o \in Objects /\ d \in 0 .. FullDepth /\ Current \in Objects
           /\ work' \in Seq(ACall)
           /\ WorkEnds(work) => work' # <<>> /\ WorkEnds(work')
           /\ ToSet(Tail(work)) \subseteq ToSet(work')
           /\ ~ (Facts[Current] \subseteq below[o]) /\ d # 0 => \A p \in ParentsOf(o) : ParentCall(p, d - 1) \in ToSet(work')
           /\ \A t \in ToSet(work') : \/ t \in ToSet(work)
                                      \/ /\ d # 0 /\ ~ (Facts[Current] \subseteq below[o])
                                         /\ \E p \in ParentsOf(o) : t = ParentCall(p, d - 1)
  <1> DEFINE o == Head(work).object
             d == Head(work).depth
             news == ~ (Facts[Current] \subseteq below[o])
             s == IF news THEN Spread("eParent", Parents(o), d) ELSE <<>>
             r == Tail(work)
  <1>1. work # <<>> /\ Head(work).dir = "eParent" /\ work' = s \o r
    BY DEF ApplyToParent, Current
  <1>2. /\ Head(work) \in ACall /\ o \in Objects /\ d \in 0 .. FullDepth /\ r \in Seq(ACall) /\ work \in Seq(ACall)
        /\ Current \in Objects /\ ToSet(work) = {Head(work)} \cup ToSet(r)
    BY <1>1, NextCall
  <1>3. Head(work) = ParentCall(o, d)
    BY <1>1, <1>2 DEF ParentCall, ACall
  <1> HIDE DEF news
  <1>4. /\ s \in Seq(ACall)
        /\ \A t \in ToSet(s) : d # 0 /\ news /\ \E p \in ParentsOf(o) : t = ParentCall(p, d - 1)
        /\ news /\ d # 0 => \A p \in ParentsOf(o) : ParentCall(p, d - 1) \in ToSet(s)
    <2>1. CASE news
      <3>1. s = Spread("eParent", Parents(o), d)
        BY <2>1
      <3> HIDE DEF s, o, d
      <3> QED
        BY <2>1, <3>1, <1>2, SpreadParents
    <2>2. CASE ~ news
      <3>1. s = <<>>
        BY <2>2
      <3> HIDE DEF s, o, d
      <3>2. ToSet(<<>>) = {}
        BY DEF ToSet
      <3> QED
        BY <2>2, <3>1, <3>2, EmptySeq
    <2> QED
      BY <2>1, <2>2
  <1> HIDE DEF s, o, d, r
  <1>5. work' \in Seq(ACall) /\ ToSet(work') = ToSet(s) \cup ToSet(r)
    BY <1>1, <1>2, <1>4, ConcatIs
  <1>6. \A t \in ToSet(s) : t.dir # "done"
    BY <1>4 DEF ParentCall
  <1>7. ASSUME WorkEnds(work) PROVE work' # <<>> /\ WorkEnds(work')
    <2>1. r # <<>> /\ WorkEnds(r)
      BY <1>1, <1>2, <1>7, EndsTail DEF r
    <2> QED
      BY <2>1, <1>1, <1>2, <1>4, <1>6, EndsConcat
  <1> QED
    BY <1>1, <1>2, <1>3, <1>4, <1>5, <1>7 DEF o, d, r, news

-----------------------------------------------------------------------------
LEMMA SomeFacts == ASSUME NEW e \in Objects PROVE Facts[e] \subseteq UNION {Facts[o] : o \in Objects}
  OBVIOUS

(* What applyGraphData changes at one object.                               *)
LEMMA LearnsAncestor ==
    ASSUME TypeInv, NEW o \in Objects, NEW e \in Objects,
           ancestors' = [ancestors EXCEPT ![o] = @ \cup {e}]
    PROVE  /\ ancestors' \in [Objects -> SUBSET Objects]
           /\ ancestors'[o] = ancestors[o] \cup {e}
           /\ \A x \in Objects : x # o => ancestors'[x] = ancestors[x]
  <1>1. ancestors \in [Objects -> SUBSET Objects]
    BY DEF TypeInv, TypeOK
  <1> QED
    BY <1>1

LEMMA LearnsFacts ==
    ASSUME TypeInv, NEW o \in Objects, NEW e \in Objects,
           below' = [below EXCEPT ![o] = @ \cup Facts[e]]
    PROVE  /\ below' \in [Objects -> SUBSET UNION {Facts[x] : x \in Objects}]
           /\ below'[o] = below[o] \cup Facts[e]
           /\ \A x \in Objects : x # o => below'[x] = below[x]
  <1> DEFINE All == UNION {Facts[x] : x \in Objects}
  <1>1. below \in [Objects -> SUBSET All] /\ Facts[e] \subseteq All
    BY SomeFacts DEF TypeInv, TypeOK
  <1> HIDE DEF All
  <1>2. /\ below' \in [Objects -> SUBSET All]
        /\ below'[o] = below[o] \cup Facts[e]
        /\ \A x \in Objects : x # o => below'[x] = below[x]
    BY <1>1
  <1> QED
    BY <1>2 DEF All

LEMMA ApplySelfTyped == ASSUME TypeInv, ApplySelf PROVE TypeInv'
  <1>1. /\ WithDatabase /\ WalksDone /\ UNCHANGED <<xref, task, applied, walkVars>>
        /\ ancestors' = [ancestors EXCEPT ![Current] = @ \cup {Current}]
        /\ below' = [below EXCEPT ![Current] = @ \cup Facts[Current]]
    BY DEF ApplySelf, Current
  <1>2. Current \in Objects /\ applied < Len(entries) /\ work' \in Seq(ACall)
    BY SelfCalls
  <1>3. /\ ancestors' \in [Objects -> SUBSET Objects]
        /\ below' \in [Objects -> SUBSET UNION {Facts[x] : x \in Objects}]
    BY <1>1, <1>2, LearnsAncestor, LearnsFacts
  <1>4. applied' \in 0 .. Len(entries)
    BY <1>1 DEF TypeInv, TypeOK
  <1> QED
    BY <1>1, <1>2, <1>3, <1>4, ApplyTyped

LEMMA ApplyToChildTyped == ASSUME TypeInv, ApplyToChild PROVE TypeInv'
  <1> DEFINE o == Head(work).object
  <1>1. /\ UNCHANGED <<xref, task, applied, below, walkVars>>
        /\ ancestors' = [ancestors EXCEPT ![o] = @ \cup {Current}]
    BY DEF ApplyToChild, Current
  <1>2. work # <<>> /\ o \in Objects /\ Current \in Objects /\ work' \in Seq(ACall)
    BY ChildCalls
  <1>3. WithDatabase /\ WalksDone /\ applied < Len(entries)
    BY <1>2, NextCall
  <1> HIDE DEF o
  <1>4. ancestors' \in [Objects -> SUBSET Objects]
    BY <1>1, <1>2, LearnsAncestor
  <1>5. applied' \in 0 .. Len(entries) /\ below' \in [Objects -> SUBSET UNION {Facts[x] : x \in Objects}]
    BY <1>1 DEF TypeInv, TypeOK
  <1> QED
    BY <1>1, <1>2, <1>3, <1>4, <1>5, ApplyTyped

LEMMA ApplyToParentTyped == ASSUME TypeInv, ApplyToParent PROVE TypeInv'
  <1> DEFINE o == Head(work).object
  <1>1. /\ UNCHANGED <<xref, task, applied, ancestors, walkVars>>
        /\ below' = [below EXCEPT ![o] = @ \cup Facts[Current]]
    BY DEF ApplyToParent, Current
  <1>2. work # <<>> /\ o \in Objects /\ Current \in Objects /\ work' \in Seq(ACall)
    BY ParentCalls
  <1>3. WithDatabase /\ WalksDone /\ applied < Len(entries)
    BY <1>2, NextCall
  <1> HIDE DEF o
  <1>4. below' \in [Objects -> SUBSET UNION {Facts[x] : x \in Objects}]
    BY <1>1, <1>2, LearnsFacts
  <1>5. applied' \in 0 .. Len(entries) /\ ancestors' \in [Objects -> SUBSET Objects]
    BY <1>1 DEF TypeInv, TypeOK
  <1> QED
    BY <1>1, <1>2, <1>3, <1>4, <1>5, ApplyTyped

LEMMA EndApplyTyped == ASSUME TypeInv, EndApply PROVE TypeInv'
  <1>1. /\ work # <<>> /\ work' = <<>> /\ applied' = applied + 1
        /\ UNCHANGED <<xref, task, ancestors, below, walkVars>>
    BY DEF EndApply
  <1>2. WithDatabase /\ WalksDone /\ applied < Len(entries)
    BY <1>1, NextCall
  <1>3. applied' \in 0 .. Len(entries)
    BY <1>1, <1>2, EntryTyped
  <1>4. /\ ancestors' \in [Objects -> SUBSET Objects]
        /\ below' \in [Objects -> SUBSET UNION {Facts[x] : x \in Objects}]
    BY <1>1 DEF TypeInv, TypeOK
  <1> QED
    BY <1>1, <1>2, <1>3, <1>4, EmptySeq, ApplyTyped

LEMMA NextTyped == TypeInv /\ [Next]_vars => TypeInv'
  <1> SUFFICES ASSUME TypeInv, [Next]_vars PROVE TypeInv'
    OBVIOUS
  <1>1. CASE FetchWorker
    BY <1>1, DetectCycleTyped, GiveUpTyped, ShortCircuitTyped, PushAgainTyped, PushTyped DEF FetchWorker
  <1>2. CASE ApplyGraphData
    BY <1>2, ApplySelfTyped, ApplyToChildTyped, ApplyToParentTyped, EndApplyTyped DEF ApplyGraphData
  <1>3. CASE UNCHANGED vars
    BY <1>3 DEF TypeInv, TypeOK, ApplyKept, WalksDone, WithDatabase, vars, walkVars, applyVars
  <1> QED
    BY <1>1, <1>2, <1>3, StartWalkTyped, ReturnTyped DEF Next

(* Every variable has its type, in walks of any graph.                      *)
THEOREM TypeCorrect == Spec => []TypeOK
  <1>1. TypeInv => TypeOK
    BY DEF TypeInv
  <1> QED
    BY <1>1, InitTyped, NextTyped, PTL DEF Spec

-----------------------------------------------------------------------------
(* Spreading the data.                                                      *)

(* Both ends of a recorded link are in the map.                             *)
LinksOfEntries == \A l \in recorded : l[1] \in EntrySet /\ l[2] \in EntrySet

(* Nothing is applied before the walks are over.                            *)
NothingApplied ==
    ~ WalksDone =>
        /\ applied = 0 /\ work = <<>>
        /\ \A o \in Objects : ancestors[o] = {} /\ below[o] = {}

(* An object learns of its ancestors, and of the facts of its descendants,  *)
(* only; and so do those that are still to be told.                         *)
AncestorsSound ==
    \A o \in Objects : \A e \in ancestors[o] : e = o \/ o \in Reach(e, recorded)

FactsSound ==
    \A o \in Objects : \A x \in below[o] : \E d \in Objects :
        x \in Facts[d] /\ (d = o \/ d \in Reach(o, recorded))

CallsSound ==
    \A o \in Objects :
        /\ ChildCalled(work, o) => o \in Reach(Current, recorded)
        /\ ParentCalled(work, o) => Current \in Reach(o, recorded)

(* An entry that was applied knows itself.                                  *)
OwnApplied ==
    \A i \in 1 .. Len(entries) :
        i <= applied \/ (i = applied + 1 /\ work # <<>>)
            => entries[i] \in ancestors[entries[i]] /\ Facts[entries[i]] \subseteq below[entries[i]]

(* What an object knows its children, or its parents, know too, or they are *)
(* about to be told.  This does not depend on which entry the object had it *)
(* from, and so an entry may stop where it is no news.                      *)
AncestorsPassed ==
    \A l \in recorded : \A x \in ancestors[l[1]] :
        x \in ancestors[l[2]] \/ (x = Current /\ ChildCalled(work, l[2]))

FactsPassed ==
    \A l \in recorded : \A x \in below[l[2]] :
        x \in below[l[1]] \/ (x \in Facts[Current] /\ ParentCalled(work, l[1]))

DataKept == AncestorsSound /\ FactsSound /\ CallsSound /\ OwnApplied /\ AncestorsPassed /\ FactsPassed

DataInv == TypeInv /\ LinksOfEntries /\ NothingApplied /\ WorkEnds(work) /\ DataKept

NoCalls(w) == \A o : ~ ChildCalled(w, o) /\ ~ ParentCalled(w, o)

(* News is passed on: it does not come at the depth allowed.                *)
NewsGoesOn ==
    work # <<>> =>
        LET o == Head(work).object IN
        /\ Head(work).dir = "eChild" /\ Current \notin ancestors[o] => Head(work).depth # 0
        /\ Head(work).dir = "eParent" /\ ~ (Facts[Current] \subseteq below[o]) => Head(work).depth # 0

LEMMA InitData == Init => DataInv
  <1> SUFFICES ASSUME Init PROVE DataInv
    OBVIOUS
  <1>1. TypeInv
    BY InitTyped
  <1>2. /\ recorded = {} /\ applied = 0 /\ work = <<>> /\ entries = <<>>
        /\ \A o \in Objects : ancestors[o] = {} /\ below[o] = {}
    BY DEF Init
  <1>3. NoCalls(work) /\ WorkEnds(work)
    BY <1>2 DEF NoCalls, ChildCalled, ParentCalled, ToSet, WorkEnds
  <1>4. DataKept
    BY <1>2, <1>3 DEF NoCalls, DataKept, AncestorsSound, FactsSound, CallsSound, OwnApplied, AncestorsPassed, FactsPassed
  <1> QED
    BY <1>1, <1>2, <1>3, <1>4 DEF DataInv, LinksOfEntries, NothingApplied

(* A step of a walk: nothing is known yet.                                  *)
LEMMA WalkData ==
    ASSUME DataInv, TypeInv', ~ WalksDone, UNCHANGED applyVars, LinksOfEntries'
    PROVE  DataInv'
  <1>1. /\ applied = 0 /\ work = <<>>
        /\ \A o \in Objects : ancestors[o] = {} /\ below[o] = {}
    BY DEF DataInv, NothingApplied
  <1>2. /\ applied' = 0 /\ work' = <<>>
        /\ \A o \in Objects : ancestors'[o] = {} /\ below'[o] = {}
    BY <1>1 DEF applyVars
  <1>3. NoCalls(work') /\ WorkEnds(work')
    BY <1>2 DEF NoCalls, ChildCalled, ParentCalled, ToSet, WorkEnds
  <1>4. NothingApplied'
    BY <1>2 DEF NothingApplied
  <1>5. AncestorsSound' /\ FactsSound' /\ CallsSound'
    BY <1>2, <1>3 DEF NoCalls, AncestorsSound, FactsSound, CallsSound
  <1>6. OwnApplied'
    <2>1. \A i \in 1 .. Len(entries') : ~ (i <= applied')
      BY <1>2
    <2> QED
      BY <2>1, <1>2 DEF OwnApplied
  <1>7. \A l \in recorded' : l[1] \in Objects /\ l[2] \in Objects
    BY DEF TypeInv, TypeOK
  <1>8. AncestorsPassed' /\ FactsPassed'
    BY <1>2, <1>7 DEF AncestorsPassed, FactsPassed
  <1> QED
    BY <1>3, <1>4, <1>5, <1>6, <1>8 DEF DataInv, DataKept

LEMMA RecordsLinks ==
    ASSUME TypeInv, LinksOfEntries, Calling, RecordRelationship(Object)
    PROVE  LinksOfEntries'
  <1>1. CASE WithDatabase /\ RelatedType # None
    <2>1. /\ recorded' = recorded \cup {Link(Object, RelatedType, mode)}
          /\ EntrySet' = EntrySet \cup {Object, RelatedType}
      BY <1>1, Recorded DEF EntrySet
    <2> DEFINE l == Link(Object, RelatedType, mode)
    <2>2. l[1] \in EntrySet' /\ l[2] \in EntrySet'
      BY <2>1 DEF Link
    <2> QED
      BY <2>1, <2>2 DEF LinksOfEntries
  <1>2. CASE ~ (WithDatabase /\ RelatedType # None)
    <2>1. UNCHANGED <<entries, recorded>>
      BY <1>2, Recorded
    <2> QED
      BY <2>1 DEF LinksOfEntries, EntrySet
  <1> QED
    BY <1>1, <1>2

LEMMA WalkStepData ==
    ASSUME DataInv, StartWalk \/ FetchWorker \/ Return
    PROVE  DataInv'
  <1>1. TypeInv /\ LinksOfEntries
    BY DEF DataInv
  <1>2. TypeInv'
    BY <1>1, NextTyped DEF Next
  <1>3. CASE StartWalk
    <2>1. UNCHANGED applyVars /\ UNCHANGED <<entries, recorded>> /\ ~ WalksDone
      BY <1>3 DEF StartWalk, WalksDone
    <2>2. LinksOfEntries'
      BY <2>1, <1>1 DEF LinksOfEntries, EntrySet
    <2> QED
      BY <2>1, <2>2, <1>2, WalkData
  <1>4. CASE DetectCycle \/ GiveUp \/ PushAgain
    <2>1. UNCHANGED applyVars /\ UNCHANGED <<entries, recorded>> /\ ~ WalksDone
      BY <1>4 DEF DetectCycle, GiveUp, PushAgain, Calling, WalksDone
    <2>2. LinksOfEntries'
      BY <2>1, <1>1 DEF LinksOfEntries, EntrySet
    <2> QED
      BY <2>1, <2>2, <1>2, WalkData
  <1>5. CASE ShortCircuit \/ Push
    <2>1. UNCHANGED applyVars /\ Calling /\ RecordRelationship(Object)
      BY <1>5 DEF ShortCircuit, Push
    <2>2. ~ WalksDone
      BY <2>1 DEF Calling, WalksDone
    <2>3. LinksOfEntries'
      BY <2>1, <1>1, RecordsLinks
    <2> QED
      BY <2>1, <2>2, <2>3, <1>2, WalkData
  <1>6. CASE Return
    <2>1. UNCHANGED applyVars /\ recorded' = recorded /\ ~ WalksDone
      BY <1>6 DEF Return, WalksDone
    <2>2. EntrySet \subseteq EntrySet'
      BY <1>1, <1>6, ReturnRecords DEF EntrySet
    <2>3. LinksOfEntries'
      BY <2>1, <2>2, <1>1 DEF LinksOfEntries
    <2> QED
      BY <2>1, <2>3, <1>2, WalkData
  <1> QED
    BY <1>3, <1>4, <1>5, <1>6 DEF FetchWorker

-----------------------------------------------------------------------------
(* Steps of applyGraphData.                                                 *)

LEMMA ApplyStep ==
    ASSUME DataInv, TypeInv', UNCHANGED walkVars, WalksDone, WorkEnds(work'), DataKept'
    PROVE  DataInv'
  <1>1. LinksOfEntries'
    BY DEF DataInv, LinksOfEntries, EntrySet, walkVars
  <1>2. NothingApplied'
    BY DEF NothingApplied, WalksDone, walkVars
  <1> QED
    BY <1>1, <1>2 DEF DataInv

LEMMA DataTypes ==
    ASSUME DataInv
    PROVE  /\ TypeInv
           /\ recorded \in SUBSET (Objects \X Objects)
           /\ \A l \in recorded : l = <<l[1], l[2]>> /\ l[1] \in Objects /\ l[2] \in Objects
           /\ \A o \in Objects : \A c \in ChildrenOf(o) : c \in Objects /\ c \in Reach(o, recorded)
           /\ \A o \in Objects : \A p \in ParentsOf(o) : p \in Objects /\ o \in Reach(p, recorded)
           /\ \A l \in recorded : l[2] \in ChildrenOf(l[1]) /\ l[1] \in ParentsOf(l[2])
           /\ \A o \in Objects, x \in Objects : \A y \in Objects :
                 x \in Reach(o, recorded) /\ y \in Reach(x, recorded) => y \in Reach(o, recorded)
  <1>1. TypeInv /\ recorded \in SUBSET (Objects \X Objects)
    BY DEF DataInv, TypeInv, TypeOK
  <1>2. \A l \in recorded : l = <<l[1], l[2]>> /\ l[1] \in Objects /\ l[2] \in Objects
    BY <1>1
  <1>3. ASSUME NEW o \in Objects, NEW c \in Objects, <<o, c>> \in recorded PROVE c \in Reach(o, recorded)
    <2>1. <<o, c>>[1] = o /\ <<o, c>>[2] = c
      OBVIOUS
    <2> QED
      BY <1>1, <1>3, <2>1, ReachIsLeast
  <1>4. \A o \in Objects, x \in Objects : \A y \in Objects :
           x \in Reach(o, recorded) /\ y \in Reach(x, recorded) => y \in Reach(o, recorded)
    BY <1>1, ReachTransitive
  <1>5. \A o \in Objects : \A c \in ChildrenOf(o) : c \in Objects /\ c \in Reach(o, recorded)
    BY <1>3 DEF ChildrenOf
  <1>6. \A o \in Objects : \A p \in ParentsOf(o) : p \in Objects /\ o \in Reach(p, recorded)
    BY <1>3 DEF ParentsOf
  <1>7. \A l \in recorded : l[2] \in ChildrenOf(l[1]) /\ l[1] \in ParentsOf(l[2])
    BY <1>2 DEF ChildrenOf, ParentsOf
  <1> QED
    BY <1>1, <1>2, <1>4, <1>5, <1>6, <1>7

(* Who is told by a step, and who is still to be told.                      *)
LEMMA SelfTells ==
    ASSUME TypeInv, ApplySelf
    PROVE  /\ work = <<>> /\ Current \in Objects /\ applied < Len(entries)
           /\ work' # <<>> /\ WorkEnds(work')
           /\ \A c \in ChildrenOf(Current) : ChildCalled(work', c)
           /\ \A p \in ParentsOf(Current) : ParentCalled(work', p)
           /\ \A x : ChildCalled(work', x) => x \in ChildrenOf(Current)
           /\ \A x : ParentCalled(work', x) => x \in ParentsOf(Current)
  <1>1. FullDepth - 1 \in 0 .. FullDepth
    BY ConstantsAssumption
  <1>2. /\ \A c \in ChildrenOf(Current) : ChildCalled(work', c)
        /\ \A p \in ParentsOf(Current) : ParentCalled(work', p)
    BY <1>1, SelfCalls DEF ChildCalled, ParentCalled
  <1>3. \A x : ChildCalled(work', x) => x \in ChildrenOf(Current)
    BY SelfCalls DEF ChildCalled, ChildCall, ParentCall
  <1>4. \A x : ParentCalled(work', x) => x \in ParentsOf(Current)
    BY SelfCalls DEF ParentCalled, ChildCall, ParentCall
  <1> QED
    BY <1>2, <1>3, <1>4, SelfCalls

LEMMA ChildTells ==
    ASSUME TypeInv, WorkEnds(work), NewsGoesOn, ApplyToChild
    PROVE  LET o == Head(work).object IN
           /\ work # <<>> /\ ChildCalled(work, o) /\ o \in Objects /\ Current \in Objects
           /\ work' # <<>> /\ WorkEnds(work')
           /\ Current \notin ancestors[o] => \A c \in ChildrenOf(o) : ChildCalled(work', c)
           /\ \A x : ChildCalled(work, x) => x = o \/ ChildCalled(work', x)
           /\ \A x : ChildCalled(work', x) => ChildCalled(work, x) \/ x \in ChildrenOf(o)
           /\ \A x : ParentCalled(work', x) <=> ParentCalled(work, x)
  <1> DEFINE o == Head(work).object
             d == Head(work).depth
  <1>1. /\ work # <<>> /\ Head(work) = ChildCall(o, d) /\ o \in Objects /\ d \in 0 .. FullDepth /\ Current \in Objects
        /\ work' # <<>> /\ WorkEnds(work')
        /\ ToSet(Tail(work)) \subseteq ToSet(work')
        /\ Current \notin ancestors[o] /\ d # 0 => \A c \in ChildrenOf(o) : ChildCall(c, d - 1) \in ToSet(work')
        /\ \A t \in ToSet(work') : \/ t \in ToSet(work)
                                   \/ \E c \in ChildrenOf(o) : t = ChildCall(c, d - 1)
    BY ChildCalls
  <1>2. ToSet(work) = {Head(work)} \cup ToSet(Tail(work))
    BY <1>1, NextCall
  <1>3. Current \notin ancestors[o] => d # 0
    <2>1. Head(work).dir = "eChild"
      BY DEF ApplyToChild
    <2> QED
      BY <1>1, <2>1 DEF NewsGoesOn
  <1> HIDE DEF o, d
  <1>4. ChildCalled(work, o)
    BY <1>1, <1>2 DEF ChildCalled
  <1>5. d # 0 => d - 1 \in 0 .. FullDepth
    BY <1>1, ConstantsAssumption
  <1>6. Current \notin ancestors[o] => \A c \in ChildrenOf(o) : ChildCalled(work', c)
    BY <1>1, <1>3, <1>5 DEF ChildCalled
  <1>7. ASSUME NEW x, ChildCalled(work, x) PROVE x = o \/ ChildCalled(work', x)
    <2>1. PICK y \in 0 .. FullDepth : ChildCall(x, y) \in ToSet(work)
      BY <1>7 DEF ChildCalled
    <2>2. CASE ChildCall(x, y) = Head(work)
      BY <2>2, <1>1 DEF ChildCall
    <2>3. CASE ChildCall(x, y) \in ToSet(Tail(work))
      BY <2>3, <1>1 DEF ChildCalled
    <2> QED
      BY <2>1, <2>2, <2>3, <1>2
  <1>8. ASSUME NEW x, ChildCalled(work', x) PROVE ChildCalled(work, x) \/ x \in ChildrenOf(o)
    <2>1. PICK y \in 0 .. FullDepth : ChildCall(x, y) \in ToSet(work')
      BY <1>8 DEF ChildCalled
    <2>2. CASE ChildCall(x, y) \in ToSet(work)
      BY <2>2 DEF ChildCalled
    <2>3. CASE \E c \in ChildrenOf(o) : ChildCall(x, y) = ChildCall(c, d - 1)
      BY <2>3 DEF ChildCall
    <2> QED
      BY <2>1, <2>2, <2>3, <1>1
  <1>9. ASSUME NEW x, NEW y PROVE ParentCall(x, y) \in ToSet(work') <=> ParentCall(x, y) \in ToSet(work)
    <2>1. \A c, z : ParentCall(x, y) # ChildCall(c, z)
      BY DEF ChildCall, ParentCall
    <2> QED
      BY <2>1, <1>1, <1>2
  <1>10. \A x : ParentCalled(work', x) <=> ParentCalled(work, x)
    BY <1>9 DEF ParentCalled
  <1> QED
    BY <1>1, <1>4, <1>6, <1>7, <1>8, <1>10 DEF o

LEMMA ParentTells ==
    ASSUME TypeInv, WorkEnds(work), NewsGoesOn, ApplyToParent
    PROVE  LET o == Head(work).object IN
           /\ work # <<>> /\ ParentCalled(work, o) /\ o \in Objects /\ Current \in Objects
           /\ work' # <<>> /\ WorkEnds(work')
           /\ ~ (Facts[Current] \subseteq below[o]) => \A p \in ParentsOf(o) : ParentCalled(work', p)
           /\ \A x : ParentCalled(work, x) => x = o \/ ParentCalled(work', x)
           /\ \A x : ParentCalled(work', x) => ParentCalled(work, x) \/ x \in ParentsOf(o)
           /\ \A x : ChildCalled(work', x) <=> ChildCalled(work, x)
  <1> DEFINE o == Head(work).object
             d == Head(work).depth
             news == ~ (Facts[Current] \subseteq below[o])
  <1>1. /\ work # <<>> /\ Head(work) = ParentCall(o, d) /\ o \in Objects /\ d \in 0 .. FullDepth /\ Current \in Objects
        /\ work' # <<>> /\ WorkEnds(work')
        /\ ToSet(Tail(work)) \subseteq ToSet(work')
        /\ news /\ d # 0 => \A p \in ParentsOf(o) : ParentCall(p, d - 1) \in ToSet(work')
        /\ \A t \in ToSet(work') : \/ t \in ToSet(work)
                                   \/ \E p \in ParentsOf(o) : t = ParentCall(p, d - 1)
    BY ParentCalls
  <1>2. ToSet(work) = {Head(work)} \cup ToSet(Tail(work))
    BY <1>1, NextCall
  <1>3. news => d # 0
    <2>1. Head(work).dir = "eParent"
      BY DEF ApplyToParent
    <2> QED
      BY <1>1, <2>1 DEF NewsGoesOn
  <1> HIDE DEF o, d, news
  <1>4. ParentCalled(work, o)
    BY <1>1, <1>2 DEF ParentCalled
  <1>5. d # 0 => d - 1 \in 0 .. FullDepth
    BY <1>1, ConstantsAssumption
  <1>6. news => \A p \in ParentsOf(o) : ParentCalled(work', p)
    BY <1>1, <1>3, <1>5 DEF ParentCalled
  <1>7. ASSUME NEW x, ParentCalled(work, x) PROVE x = o \/ ParentCalled(work', x)
    <2>1. PICK y \in 0 .. FullDepth : ParentCall(x, y) \in ToSet(work)
      BY <1>7 DEF ParentCalled
    <2>2. CASE ParentCall(x, y) = Head(work)
      BY <2>2, <1>1 DEF ParentCall
    <2>3. CASE ParentCall(x, y) \in ToSet(Tail(work))
      BY <2>3, <1>1 DEF ParentCalled
    <2> QED
      BY <2>1, <2>2, <2>3, <1>2
  <1>8. ASSUME NEW x, ParentCalled(work', x) PROVE ParentCalled(work, x) \/ x \in ParentsOf(o)
    <2>1. PICK y \in 0 .. FullDepth : ParentCall(x, y) \in ToSet(work')
      BY <1>8 DEF ParentCalled
    <2>2. CASE ParentCall(x, y) \in ToSet(work)
      BY <2>2 DEF ParentCalled
    <2>3. CASE \E p \in ParentsOf(o) : ParentCall(x, y) = ParentCall(p, d - 1)
      BY <2>3 DEF ParentCall
    <2> QED
      BY <2>1, <2>2, <2>3, <1>1
  <1>9. ASSUME NEW x, NEW y PROVE ChildCall(x, y) \in ToSet(work') <=> ChildCall(x, y) \in ToSet(work)
    <2>1. \A c, z : ChildCall(x, y) # ParentCall(c, z)
      BY DEF ChildCall, ParentCall
    <2> QED
      BY <2>1, <1>1, <1>2
  <1>10. \A x : ChildCalled(work', x) <=> ChildCalled(work, x)
    BY <1>9 DEF ChildCalled
  <1> QED
    BY <1>1, <1>4, <1>6, <1>7, <1>8, <1>10 DEF o, news

(* The mark at the end is all that is left.                                 *)
LEMMA LastCall == ASSUME TypeInv, WorkEnds(work), EndApply PROVE NoCalls(work)
  <1>1. work # <<>> /\ Head(work).dir = "done"
    BY DEF EndApply
  <1>2. work \in Seq(ACall)
    BY <1>1, NextCall
  <1>3. Len(work) \in Nat \ {0} /\ Head(work) = work[1]
    BY <1>1, <1>2, HeadAndTail
  <1>4. Len(work) = 1
    <2>1. 1 \in 1 .. Len(work)
      BY <1>3
    <2>2. work[1].dir = "done" <=> 1 = Len(work)
      BY <2>1 DEF WorkEnds
    <2> QED
      BY <2>2, <1>1, <1>3
  <1>5. DOMAIN work = 1 .. 1 /\ 1 .. 1 = {1}
    BY <1>2, <1>4, LenProperties
  <1>6. ToSet(work) = {Head(work)}
    BY <1>3, <1>5 DEF ToSet
  <1>7. \A o, d : ChildCall(o, d).dir # "done" /\ ParentCall(o, d).dir # "done"
    BY DEF ChildCall, ParentCall
  <1>8. \A o, d : ChildCall(o, d) \notin ToSet(work) /\ ParentCall(o, d) \notin ToSet(work)
    BY <1>1, <1>6, <1>7
  <1> QED
    BY <1>8 DEF NoCalls, ChildCalled, ParentCalled

LEMMA ApplySelfData == ASSUME DataInv, ApplySelf PROVE DataInv'
  <1> DEFINE e == Current
  <1>1. /\ WalksDone /\ UNCHANGED applied /\ UNCHANGED walkVars /\ UNCHANGED <<entries, recorded>>
        /\ ancestors' = [ancestors EXCEPT ![e] = @ \cup {e}]
        /\ below' = [below EXCEPT ![e] = @ \cup Facts[e]]
    BY DEF ApplySelf, Current, walkVars
  <1>2. /\ work = <<>> /\ e \in Objects /\ applied < Len(entries)
        /\ work' # <<>> /\ WorkEnds(work')
        /\ \A c \in ChildrenOf(e) : ChildCalled(work', c)
        /\ \A p \in ParentsOf(e) : ParentCalled(work', p)
        /\ \A x : ChildCalled(work', x) => x \in ChildrenOf(e)
        /\ \A x : ParentCalled(work', x) => x \in ParentsOf(e)
    BY SelfTells DEF DataInv
  <1>3. Current' = e /\ e = entries[applied + 1] /\ applied \in Nat
    BY <1>1, <1>2, EntryTyped DEF Current, DataInv
  <1> HIDE DEF e
  <1>4. /\ ancestors'[e] = ancestors[e] \cup {e}
        /\ \A x \in Objects : x # e => ancestors'[x] = ancestors[x]
        /\ below'[e] = below[e] \cup Facts[e]
        /\ \A x \in Objects : x # e => below'[x] = below[x]
    BY <1>1, <1>2, LearnsAncestor, LearnsFacts DEF DataInv
  <1>5. NoCalls(work)
    BY <1>2 DEF NoCalls, ChildCalled, ParentCalled, ToSet
  <1>6. AncestorsSound'
    BY <1>1, <1>2, <1>4 DEF DataInv, DataKept, AncestorsSound
  <1>7. FactsSound'
    <2> SUFFICES ASSUME NEW o \in Objects, NEW x \in below'[o]
                 PROVE  \E d \in Objects : x \in Facts[d] /\ (d = o \/ d \in Reach(o, recorded))
      BY <1>1 DEF FactsSound
    <2>1. CASE x \in below[o]
      BY <2>1 DEF DataInv, DataKept, FactsSound
    <2>2. CASE o = e /\ x \in Facts[e]
      BY <2>2, <1>2
    <2> QED
      BY <2>1, <2>2, <1>4
  <1>8. CallsSound'
    <2> SUFFICES ASSUME NEW o \in Objects
                 PROVE  /\ ChildCalled(work', o) => o \in Reach(e, recorded)
                        /\ ParentCalled(work', o) => e \in Reach(o, recorded)
      BY <1>1, <1>3 DEF CallsSound
    <2>1. ASSUME ChildCalled(work', o) PROVE o \in ChildrenOf(e)
      BY <1>2, <2>1
    <2>2. ASSUME ParentCalled(work', o) PROVE o \in ParentsOf(e)
      BY <1>2, <2>2
    <2> QED
      BY <2>1, <2>2, <1>2, DataTypes
  <1>9. OwnApplied'
    <2> SUFFICES ASSUME NEW i \in 1 .. Len(entries), i <= applied \/ i = applied + 1
                 PROVE  entries[i] \in ancestors'[entries[i]] /\ Facts[entries[i]] \subseteq below'[entries[i]]
      BY <1>1 DEF OwnApplied
    <2>1. entries[i] \in Objects
      BY ElementOfSeq DEF DataInv, TypeInv, TypeOK
    <2>2. CASE i <= applied
      <3>1. entries[i] \in ancestors[entries[i]] /\ Facts[entries[i]] \subseteq below[entries[i]]
        BY <2>2 DEF DataInv, DataKept, OwnApplied
      <3> QED
        BY <3>1, <2>1, <1>4
    <2>3. CASE i = applied + 1
      BY <2>3, <1>3, <1>4
    <2> QED
      BY <2>2, <2>3
  <1>10. AncestorsPassed'
    <2> SUFFICES ASSUME NEW l \in recorded, NEW x \in ancestors'[l[1]]
                 PROVE  x \in ancestors'[l[2]] \/ (x = e /\ ChildCalled(work', l[2]))
      BY <1>1, <1>3 DEF AncestorsPassed
    <2>1. l[1] \in Objects /\ l[2] \in Objects /\ l[2] \in ChildrenOf(l[1])
      BY DataTypes
    <2>2. CASE x \in ancestors[l[1]]
      <3>1. x \in ancestors[l[2]]
        BY <2>2, <1>5 DEF NoCalls, DataInv, DataKept, AncestorsPassed
      <3> QED
        BY <3>1, <2>1, <1>4
    <2>3. CASE l[1] = e /\ x = e
      BY <2>1, <2>3, <1>2
    <2> QED
      BY <2>1, <2>2, <2>3, <1>4
  <1>11. FactsPassed'
    <2> SUFFICES ASSUME NEW l \in recorded, NEW x \in below'[l[2]]
                 PROVE  x \in below'[l[1]] \/ (x \in Facts[e] /\ ParentCalled(work', l[1]))
      BY <1>1, <1>3 DEF FactsPassed
    <2>1. l[1] \in Objects /\ l[2] \in Objects /\ l[1] \in ParentsOf(l[2])
      BY DataTypes
    <2>2. CASE x \in below[l[2]]
      <3>1. x \in below[l[1]]
        BY <2>2, <1>5 DEF NoCalls, DataInv, DataKept, FactsPassed
      <3> QED
        BY <3>1, <2>1, <1>4
    <2>3. CASE l[2] = e /\ x \in Facts[e]
      BY <2>1, <2>3, <1>2
    <2> QED
      BY <2>1, <2>2, <2>3, <1>4
  <1>12. TypeInv'
    BY ApplySelfTyped DEF DataInv
  <1>13. DataKept'
    BY <1>6, <1>7, <1>8, <1>9, <1>10, <1>11 DEF DataKept
  <1> QED
    BY <1>1, <1>2, <1>12, <1>13, ApplyStep

LEMMA ApplyToChildData == ASSUME DataInv, NewsGoesOn, ApplyToChild PROVE DataInv'
  <1> DEFINE e == Current
             o == Head(work).object
  <1>1. /\ UNCHANGED <<applied, below>> /\ UNCHANGED walkVars /\ UNCHANGED <<entries, recorded>>
        /\ ancestors' = [ancestors EXCEPT ![o] = @ \cup {e}]
    BY DEF ApplyToChild, Current, walkVars
  <1>2. /\ work # <<>> /\ ChildCalled(work, o) /\ o \in Objects /\ e \in Objects
        /\ work' # <<>> /\ WorkEnds(work')
        /\ e \notin ancestors[o] => \A c \in ChildrenOf(o) : ChildCalled(work', c)
        /\ \A x : ChildCalled(work, x) => x = o \/ ChildCalled(work', x)
        /\ \A x : ChildCalled(work', x) => ChildCalled(work, x) \/ x \in ChildrenOf(o)
        /\ \A x : ParentCalled(work', x) <=> ParentCalled(work, x)
    BY ChildTells DEF DataInv
  <1>3. WalksDone
    BY <1>2, NextCall DEF DataInv
  <1>4. Current' = e
    BY <1>1 DEF Current
  <1> HIDE DEF e, o
  <1>5. /\ ancestors'[o] = ancestors[o] \cup {e}
        /\ \A x \in Objects : x # o => ancestors'[x] = ancestors[x]
    BY <1>1, <1>2, LearnsAncestor DEF DataInv
  <1>6. o \in Reach(e, recorded)
    <2> QED
      BY <1>2 DEF DataInv, DataKept, CallsSound, e
  <1>7. AncestorsSound'
    BY <1>1, <1>2, <1>5, <1>6 DEF DataInv, DataKept, AncestorsSound
  <1>8. FactsSound'
    BY <1>1 DEF DataInv, DataKept, FactsSound
  <1>9. CallsSound'
    <2> SUFFICES ASSUME NEW x \in Objects
                 PROVE  /\ ChildCalled(work', x) => x \in Reach(e, recorded)
                        /\ ParentCalled(work', x) => e \in Reach(x, recorded)
      BY <1>1, <1>4 DEF CallsSound
    <2>1. ASSUME ChildCalled(work', x) PROVE x \in ChildrenOf(o) \/ ChildCalled(work, x)
      BY <1>2, <2>1
    <2>2. ASSUME ParentCalled(work', x) PROVE ParentCalled(work, x)
      BY <1>2, <2>2
    <2>3. ASSUME x \in ChildrenOf(o) PROVE x \in Reach(e, recorded)
      BY <2>3, <1>2, <1>6, DataTypes
    <2>4. /\ ChildCalled(work, x) => x \in Reach(e, recorded)
          /\ ParentCalled(work, x) => e \in Reach(x, recorded)
      BY DEF DataInv, DataKept, CallsSound, e
    <2> QED
      BY <2>1, <2>2, <2>3, <2>4
  <1>10. OwnApplied'
    <2> SUFFICES ASSUME NEW i \in 1 .. Len(entries), i <= applied \/ i = applied + 1
                 PROVE  entries[i] \in ancestors'[entries[i]] /\ Facts[entries[i]] \subseteq below[entries[i]]
      BY <1>1 DEF OwnApplied
    <2>1. entries[i] \in Objects
      BY ElementOfSeq DEF DataInv, TypeInv, TypeOK
    <2>2. entries[i] \in ancestors[entries[i]] /\ Facts[entries[i]] \subseteq below[entries[i]]
      BY <1>2 DEF DataInv, DataKept, OwnApplied
    <2> QED
      BY <2>1, <2>2, <1>5
  <1>11. AncestorsPassed'
    <2> SUFFICES ASSUME NEW l \in recorded, NEW x \in ancestors'[l[1]]
                 PROVE  x \in ancestors'[l[2]] \/ (x = e /\ ChildCalled(work', l[2]))
      BY <1>1, <1>4 DEF AncestorsPassed
    <2>1. l[1] \in Objects /\ l[2] \in Objects /\ l[2] \in ChildrenOf(l[1])
      BY DataTypes
    <2>2. CASE x \in ancestors[l[1]]
      <3>1. x \in ancestors[l[2]] \/ (x = e /\ ChildCalled(work, l[2]))
        BY <2>2 DEF DataInv, DataKept, AncestorsPassed, e
      <3>2. CASE x \in ancestors[l[2]]
        BY <3>2, <2>1, <1>5
      <3>3. CASE x = e /\ l[2] = o
        BY <3>3, <1>5
      <3>4. CASE x = e /\ ChildCalled(work', l[2])
        BY <3>4
      <3> QED
        BY <3>1, <3>2, <3>3, <3>4, <1>2
    <2>3. CASE l[1] = o /\ x = e /\ e \notin ancestors[o]
      BY <2>1, <2>3, <1>2
    <2> QED
      BY <2>1, <2>2, <2>3, <1>5
  <1>12. FactsPassed'
    <2> SUFFICES ASSUME NEW l \in recorded, NEW x \in below[l[2]]
                 PROVE  x \in below[l[1]] \/ (x \in Facts[e] /\ ParentCalled(work', l[1]))
      BY <1>1, <1>4 DEF FactsPassed
    <2>1. x \in below[l[1]] \/ (x \in Facts[e] /\ ParentCalled(work, l[1]))
      BY DEF DataInv, DataKept, FactsPassed, e
    <2> QED
      BY <2>1, <1>2
  <1>13. TypeInv'
    BY ApplyToChildTyped DEF DataInv
  <1>14. DataKept'
    BY <1>7, <1>8, <1>9, <1>10, <1>11, <1>12 DEF DataKept
  <1>15. WorkEnds(work')
    BY <1>2
  <1> QED
    BY <1>1, <1>3, <1>13, <1>14, <1>15, ApplyStep

LEMMA ApplyToParentData == ASSUME DataInv, NewsGoesOn, ApplyToParent PROVE DataInv'
  <1> DEFINE e == Current
             o == Head(work).object
  <1>1. /\ UNCHANGED <<applied, ancestors>> /\ UNCHANGED walkVars /\ UNCHANGED <<entries, recorded>>
        /\ below' = [below EXCEPT ![o] = @ \cup Facts[e]]
    BY DEF ApplyToParent, Current, walkVars
  <1>2. /\ work # <<>> /\ ParentCalled(work, o) /\ o \in Objects /\ e \in Objects
        /\ work' # <<>> /\ WorkEnds(work')
        /\ ~ (Facts[e] \subseteq below[o]) => \A p \in ParentsOf(o) : ParentCalled(work', p)
        /\ \A x : ParentCalled(work, x) => x = o \/ ParentCalled(work', x)
        /\ \A x : ParentCalled(work', x) => ParentCalled(work, x) \/ x \in ParentsOf(o)
        /\ \A x : ChildCalled(work', x) <=> ChildCalled(work, x)
    BY ParentTells DEF DataInv
  <1>3. WalksDone
    BY <1>2, NextCall DEF DataInv
  <1>4. Current' = e
    BY <1>1 DEF Current
  <1> HIDE DEF e, o
  <1>5. /\ below'[o] = below[o] \cup Facts[e]
        /\ \A x \in Objects : x # o => below'[x] = below[x]
    BY <1>1, <1>2, LearnsFacts DEF DataInv
  <1>6. e \in Reach(o, recorded)
    <2> QED
      BY <1>2 DEF DataInv, DataKept, CallsSound, e
  <1>7. AncestorsSound'
    BY <1>1 DEF DataInv, DataKept, AncestorsSound
  <1>8. FactsSound'
    <2> SUFFICES ASSUME NEW p \in Objects, NEW x \in below'[p]
                 PROVE  \E d \in Objects : x \in Facts[d] /\ (d = p \/ d \in Reach(p, recorded))
      BY <1>1 DEF FactsSound
    <2>1. CASE x \in below[p]
      BY <2>1 DEF DataInv, DataKept, FactsSound
    <2>2. CASE p = o /\ x \in Facts[e]
      BY <2>2, <1>2, <1>6
    <2> QED
      BY <2>1, <2>2, <1>5
  <1>9. CallsSound'
    <2> SUFFICES ASSUME NEW x \in Objects
                 PROVE  /\ ChildCalled(work', x) => x \in Reach(e, recorded)
                        /\ ParentCalled(work', x) => e \in Reach(x, recorded)
      BY <1>1, <1>4 DEF CallsSound
    <2>1. ASSUME ParentCalled(work', x) PROVE x \in ParentsOf(o) \/ ParentCalled(work, x)
      BY <1>2, <2>1
    <2>2. ASSUME ChildCalled(work', x) PROVE ChildCalled(work, x)
      BY <1>2, <2>2
    <2>3. ASSUME x \in ParentsOf(o) PROVE e \in Reach(x, recorded)
      BY <2>3, <1>2, <1>6, DataTypes
    <2>4. /\ ChildCalled(work, x) => x \in Reach(e, recorded)
          /\ ParentCalled(work, x) => e \in Reach(x, recorded)
      BY DEF DataInv, DataKept, CallsSound, e
    <2> QED
      BY <2>1, <2>2, <2>3, <2>4
  <1>10. OwnApplied'
    <2> SUFFICES ASSUME NEW i \in 1 .. Len(entries), i <= applied \/ i = applied + 1
                 PROVE  entries[i] \in ancestors[entries[i]] /\ Facts[entries[i]] \subseteq below'[entries[i]]
      BY <1>1 DEF OwnApplied
    <2>1. entries[i] \in Objects
      BY ElementOfSeq DEF DataInv, TypeInv, TypeOK
    <2>2. entries[i] \in ancestors[entries[i]] /\ Facts[entries[i]] \subseteq below[entries[i]]
      BY <1>2 DEF DataInv, DataKept, OwnApplied
    <2> QED
      BY <2>1, <2>2, <1>5
  <1>11. AncestorsPassed'
    <2> SUFFICES ASSUME NEW l \in recorded, NEW x \in ancestors[l[1]]
                 PROVE  x \in ancestors[l[2]] \/ (x = e /\ ChildCalled(work', l[2]))
      BY <1>1, <1>4 DEF AncestorsPassed
    <2>1. x \in ancestors[l[2]] \/ (x = e /\ ChildCalled(work, l[2]))
      BY DEF DataInv, DataKept, AncestorsPassed, e
    <2> QED
      BY <2>1, <1>2
  <1>12. FactsPassed'
    <2> SUFFICES ASSUME NEW l \in recorded, NEW x \in below'[l[2]]
                 PROVE  x \in below'[l[1]] \/ (x \in Facts[e] /\ ParentCalled(work', l[1]))
      BY <1>1, <1>4 DEF FactsPassed
    <2>1. l[1] \in Objects /\ l[2] \in Objects /\ l[1] \in ParentsOf(l[2])
      BY DataTypes
    <2>2. CASE x \in below[l[2]]
      <3>1. x \in below[l[1]] \/ (x \in Facts[e] /\ ParentCalled(work, l[1]))
        BY <2>2 DEF DataInv, DataKept, FactsPassed, e
      <3>2. CASE x \in below[l[1]]
        BY <3>2, <2>1, <1>5
      <3>3. CASE x \in Facts[e] /\ l[1] = o
        BY <3>3, <1>5
      <3>4. CASE x \in Facts[e] /\ ParentCalled(work', l[1])
        BY <3>4
      <3> QED
        BY <3>1, <3>2, <3>3, <3>4, <1>2
    <2>3. CASE l[2] = o /\ x \in Facts[e] /\ x \notin below[o]
      BY <2>1, <2>3, <1>2
    <2> QED
      BY <2>1, <2>2, <2>3, <1>5
  <1>13. TypeInv'
    BY ApplyToParentTyped DEF DataInv
  <1>14. DataKept'
    BY <1>7, <1>8, <1>9, <1>10, <1>11, <1>12 DEF DataKept
  <1>15. WorkEnds(work')
    BY <1>2
  <1> QED
    BY <1>1, <1>3, <1>13, <1>14, <1>15, ApplyStep

LEMMA EndApplyData == ASSUME DataInv, EndApply PROVE DataInv'
  <1>1. /\ work # <<>> /\ Head(work).dir = "done" /\ work' = <<>> /\ applied' = applied + 1
        /\ UNCHANGED <<ancestors, below>> /\ UNCHANGED walkVars /\ UNCHANGED <<entries, recorded>>
    BY DEF EndApply, walkVars
  <1>2. WalksDone
    BY <1>1, NextCall DEF DataInv
  <1>4. NoCalls(work)
    BY LastCall DEF DataInv
  <1>5. NoCalls(work') /\ WorkEnds(work')
    BY <1>1 DEF NoCalls, ChildCalled, ParentCalled, ToSet, WorkEnds
  <1>6. AncestorsSound' /\ FactsSound' /\ CallsSound'
    BY <1>1, <1>5 DEF NoCalls, DataInv, DataKept, AncestorsSound, FactsSound, CallsSound
  <1>7. OwnApplied'
    <2>1. applied \in Nat
      BY DEF DataInv, TypeInv, TypeOK
    <2>2. \A i \in 1 .. Len(entries) : i <= applied + 1 => i <= applied \/ i = applied + 1
      BY <2>1
    <2> QED
      BY <2>2, <1>1 DEF DataInv, DataKept, OwnApplied
  <1>8. AncestorsPassed' /\ FactsPassed'
    BY <1>1, <1>4 DEF NoCalls, DataInv, DataKept, AncestorsPassed, FactsPassed
  <1>9. TypeInv'
    BY EndApplyTyped DEF DataInv
  <1>10. DataKept'
    BY <1>6, <1>7, <1>8 DEF DataKept
  <1> QED
    BY <1>1, <1>2, <1>5, <1>9, <1>10, ApplyStep

LEMMA NextData == DataInv /\ NewsGoesOn /\ [Next]_vars => DataInv'
  <1> SUFFICES ASSUME DataInv, NewsGoesOn, [Next]_vars PROVE DataInv'
    OBVIOUS
  <1>1. CASE UNCHANGED vars
    <2>1. UNCHANGED walkVars /\ UNCHANGED applyVars
      BY <1>1 DEF vars
    <2>2. TypeInv'
      BY NextTyped DEF DataInv
    <2>3. /\ LinksOfEntries' /\ NothingApplied' /\ WorkEnds(work')
      BY <2>1 DEF DataInv, LinksOfEntries, NothingApplied, EntrySet, WalksDone, walkVars, applyVars
    <2>4. DataKept'
      BY <2>1 DEF DataInv, DataKept, AncestorsSound, FactsSound, CallsSound, OwnApplied, AncestorsPassed,
                  FactsPassed, Current, walkVars, applyVars
    <2> QED
      BY <2>2, <2>3, <2>4 DEF DataInv
  <1>2. CASE ApplyGraphData
    BY <1>2, ApplySelfData, ApplyToChildData, ApplyToParentData, EndApplyData DEF ApplyGraphData
  <1> QED
    BY <1>1, <1>2, WalkStepData DEF Next

(* How a call comes about: along a chain of objects that were told before.  *)
Chain(p, links) == IsInjective(p) /\ \A i \in 1 .. Len(p) - 1 : <<p[i], p[i + 1]>> \in links

ToldBy(links, told, o, d) ==
    \E p \in Seq(told) :
        Chain(p, links) /\ Len(p) = FullDepth - d /\ Len(p) # 0 /\ <<p[Len(p)], o>> \in links

ToldOf(e) == {x \in Objects : e \in ancestors[x]}
InformedOf(e) == {x \in Objects : Facts[e] \subseteq below[x]}

CallPaths ==
    \A o \in Objects, d \in 0 .. FullDepth :
        /\ ChildCall(o, d) \in ToSet(work) => ToldBy(recorded, ToldOf(Current), o, d)
        /\ ParentCall(o, d) \in ToSet(work) => ToldBy(Inverted(recorded), InformedOf(Current), o, d)

(* No chain of links in the map is longer than the depth that is passed.    *)
ShortRecorded ==
    \A p \in Seq(Objects) : Chain(p, recorded) \/ Chain(p, Inverted(recorded)) => Len(p) <= FullDepth

LEMMA ChainOn ==
    ASSUME NEW S, NEW p \in Seq(S), NEW links, NEW o, o \notin S,
           Chain(p, links), Len(p) # 0, <<p[Len(p)], o>> \in links
    PROVE  /\ Append(p, o) \in Seq(S \cup {o}) /\ Len(Append(p, o)) = Len(p) + 1
           /\ Append(p, o)[Len(p) + 1] = o
           /\ Chain(Append(p, o), links)
  <1> DEFINE q == Append(p, o)
             n == Len(p)
  <1>1. n \in Nat \ {0} /\ DOMAIN p = 1 .. n /\ \A i \in 1 .. n : p[i] \in S
    BY LenProperties, ElementOfSeq
  <1>2. p \in Seq(S \cup {o}) /\ o \in S \cup {o}
    BY SeqMonotonic
  <1>3. /\ q \in Seq(S \cup {o}) /\ Len(q) = n + 1 /\ q[n + 1] = o
        /\ \A i \in 1 .. n : q[i] = p[i]
    BY <1>2, AppendProperties
  <1>4. DOMAIN q = 1 .. n + 1
    BY <1>3, LenProperties
  <1> HIDE DEF q, n
  <1>5. IsInjective(q)
    <2> SUFFICES ASSUME NEW a \in 1 .. n + 1, NEW b \in 1 .. n + 1, q[a] = q[b]
                 PROVE  a = b
      BY <1>4 DEF IsInjective
    <2>1. \A i \in 1 .. n + 1 : i = n + 1 \/ (i \in 1 .. n /\ q[i] = p[i] /\ q[i] # o)
      BY <1>1, <1>3
    <2>2. CASE a = n + 1 \/ b = n + 1
      BY <2>1, <2>2, <1>3
    <2>3. CASE a \in 1 .. n /\ b \in 1 .. n
      BY <2>3, <1>1, <1>3 DEF Chain, IsInjective
    <2> QED
      BY <2>1, <2>2, <2>3
  <1>6. ASSUME NEW i \in 1 .. n PROVE <<q[i], q[i + 1]>> \in links
    <2>1. CASE i = n
      BY <2>1, <1>3 DEF n
    <2>2. CASE i # n
      <3>1. i \in 1 .. n - 1 /\ i \in 1 .. n /\ i + 1 \in 1 .. n
        BY <2>2, <1>1
      <3>2. <<p[i], p[i + 1]>> \in links
        BY <3>1 DEF Chain, n
      <3> QED
        BY <3>1, <3>2, <1>3
    <2> QED
      BY <2>1, <2>2
  <1>7. (n + 1) - 1 = n
    BY <1>1
  <1>8. Chain(q, links)
    BY <1>3, <1>5, <1>6, <1>7 DEF Chain
  <1> QED
    BY <1>3, <1>8 DEF q, n

LEMMA ToldMore ==
    ASSUME NEW links, NEW told, NEW more, told \subseteq more, NEW o, NEW d, ToldBy(links, told, o, d)
    PROVE  ToldBy(links, more, o, d)
  <1>1. Seq(told) \subseteq Seq(more)
    BY SeqMonotonic
  <1> QED
    BY <1>1 DEF ToldBy

LEMMA ToldFirst ==
    ASSUME NEW links, NEW told, NEW e \in told, NEW c, <<e, c>> \in links
    PROVE  ToldBy(links, told, c, FullDepth - 1)
  <1> DEFINE p == <<e>>
  <1>1. p \in Seq(told) /\ Len(p) = 1 /\ p[1] = e /\ DOMAIN p = 1 .. 1
    OBVIOUS
  <1> HIDE DEF p
  <1>2. IsInjective(p)
    BY <1>1 DEF IsInjective
  <1>3. Chain(p, links)
    BY <1>1, <1>2 DEF Chain
  <1>4. FullDepth - (FullDepth - 1) = 1
    BY ConstantsAssumption
  <1>5. Len(p) = FullDepth - (FullDepth - 1) /\ Len(p) # 0 /\ <<p[Len(p)], c>> \in links
    BY <1>1, <1>4
  <1> QED
    BY <1>1, <1>3, <1>5, Zenon DEF ToldBy

LEMMA ToldFurther ==
    ASSUME NEW links, NEW told, NEW o, o \notin told, NEW d \in 0 .. FullDepth, d # 0, ToldBy(links, told, o, d),
           NEW c, <<o, c>> \in links
    PROVE  ToldBy(links, told \cup {o}, c, d - 1)
  <1>1. PICK p \in Seq(told) :
           Chain(p, links) /\ Len(p) = FullDepth - d /\ Len(p) # 0 /\ <<p[Len(p)], o>> \in links
    BY DEF ToldBy
  <1> DEFINE q == Append(p, o)
  <1>5. p \in Seq(told) /\ Chain(p, links) /\ <<p[Len(p)], o>> \in links
    BY <1>1
  <1>6. Len(p) # 0 /\ o \notin told
    BY <1>1
  <1>2. q \in Seq(told \cup {o}) /\ Len(q) = Len(p) + 1 /\ Chain(q, links)
    BY <1>5, <1>6, ChainOn
  <1>7. q[Len(p) + 1] = o
    BY <1>5
  <1> HIDE DEF q
  <1>3. Len(p) + 1 = FullDepth - (d - 1) /\ Len(p) + 1 # 0
    BY <1>1, ConstantsAssumption
  <1> QED
    BY <1>2, <1>3, <1>7 DEF ToldBy

LEMMA ToldShort ==
    ASSUME NEW links, NEW told \in SUBSET Objects, NEW o \in Objects, o \notin told, NEW d,
           ToldBy(links, told, o, d), \A p \in Seq(Objects) : Chain(p, links) => Len(p) <= FullDepth
    PROVE  d # 0
  <1> SUFFICES ASSUME d = 0 PROVE FALSE
    OBVIOUS
  <1>1. PICK p \in Seq(told) :
           Chain(p, links) /\ Len(p) = FullDepth - d /\ Len(p) # 0 /\ <<p[Len(p)], o>> \in links
    BY DEF ToldBy
  <1> DEFINE q == Append(p, o)
  <1>5. p \in Seq(told) /\ Chain(p, links) /\ <<p[Len(p)], o>> \in links
    BY <1>1
  <1>6. Len(p) # 0 /\ o \notin told
    BY <1>1
  <1>2. q \in Seq(told \cup {o}) /\ Len(q) = Len(p) + 1 /\ Chain(q, links)
    BY <1>5, <1>6, ChainOn
  <1> HIDE DEF q
  <1>3. told \cup {o} \subseteq Objects
    OBVIOUS
  <1>4. q \in Seq(Objects)
    BY <1>2, <1>3, SeqMonotonic
  <1> QED
    BY <1>1, <1>2, <1>4, ConstantsAssumption

LEMMA CallsGoOn == ASSUME TypeInv, CallPaths, ShortRecorded PROVE NewsGoesOn
  <1> SUFFICES ASSUME work # <<>>
               PROVE  LET o == Head(work).object IN
                      /\ Head(work).dir = "eChild" /\ Current \notin ancestors[o] => Head(work).depth # 0
                      /\ Head(work).dir = "eParent" /\ ~ (Facts[Current] \subseteq below[o]) => Head(work).depth # 0
    BY DEF NewsGoesOn
  <1> DEFINE o == Head(work).object
             d == Head(work).depth
  <1>1. /\ Head(work) \in ACall /\ o \in Objects /\ d \in 0 .. FullDepth
        /\ Head(work) \in ToSet(work)
    BY NextCall
  <1>2. ToldOf(Current) \in SUBSET Objects /\ InformedOf(Current) \in SUBSET Objects
    BY DEF ToldOf, InformedOf
  <1>3. ASSUME Head(work).dir = "eChild", Current \notin ancestors[o] PROVE d # 0
    <2>1. Head(work) = ChildCall(o, d)
      BY <1>1, <1>3 DEF ACall, ChildCall
    <2>2. ToldBy(recorded, ToldOf(Current), o, d)
      BY <1>1, <2>1 DEF CallPaths
    <2>3. o \notin ToldOf(Current)
      BY <1>3 DEF ToldOf
    <2>4. \A p \in Seq(Objects) : Chain(p, recorded) => Len(p) <= FullDepth
      BY DEF ShortRecorded
    <2> HIDE DEF o, d
    <2> QED
      BY <1>1, <1>2, <2>2, <2>3, <2>4, ToldShort
  <1>4. ASSUME Head(work).dir = "eParent", ~ (Facts[Current] \subseteq below[o]) PROVE d # 0
    <2>1. Head(work) = ParentCall(o, d)
      BY <1>1, <1>4 DEF ACall, ParentCall
    <2>2. ToldBy(Inverted(recorded), InformedOf(Current), o, d)
      BY <1>1, <2>1 DEF CallPaths
    <2>3. o \notin InformedOf(Current)
      BY <1>4 DEF InformedOf
    <2>4. \A p \in Seq(Objects) : Chain(p, Inverted(recorded)) => Len(p) <= FullDepth
      BY DEF ShortRecorded
    <2> HIDE DEF o, d
    <2> QED
      BY <1>1, <1>2, <2>2, <2>3, <2>4, ToldShort
  <1> QED
    BY <1>3, <1>4

LEMMA NoCallPaths == ASSUME work = <<>> PROVE CallPaths
  BY DEF CallPaths, ToSet

(* An entry tells its relations first.                                      *)
LEMMA ApplySelfPaths == ASSUME TypeInv, ApplySelf PROVE CallPaths'
  <1> DEFINE e == Current
  <1>1. /\ UNCHANGED applied /\ UNCHANGED <<entries, recorded>>
        /\ ancestors' = [ancestors EXCEPT ![e] = @ \cup {e}]
        /\ below' = [below EXCEPT ![e] = @ \cup Facts[e]]
    BY DEF ApplySelf, Current, walkVars
  <1>2. /\ e \in Objects
        /\ \A t \in ToSet(work') : \/ \E c \in ChildrenOf(e) : t = ChildCall(c, FullDepth - 1)
                                   \/ \E p \in ParentsOf(e) : t = ParentCall(p, FullDepth - 1)
                                   \/ t.dir = "done"
    BY SelfCalls
  <1>3. Current' = e
    BY <1>1 DEF Current
  <1> HIDE DEF e
  <1>4. e \in ancestors'[e] /\ Facts[e] \subseteq below'[e]
    BY <1>1, <1>2, LearnsAncestor, LearnsFacts
  <1>5. e \in ToldOf(e)' /\ e \in InformedOf(e)'
    BY <1>2, <1>4, <1>3, <1>1 DEF ToldOf, InformedOf, e, Current
  <1>6. \A a, b : <<a, b>> \in Inverted(recorded) <=> <<b, a>> \in recorded
    BY InvertedTyped DEF TypeInv, TypeOK
  <1>7. ASSUME NEW o \in Objects, NEW d \in 0 .. FullDepth, ChildCall(o, d) \in ToSet(work')
        PROVE  o \in ChildrenOf(e) /\ d = FullDepth - 1
    BY <1>2, <1>7 DEF ChildCall, ParentCall
  <1>8. ASSUME NEW o \in Objects, NEW d \in 0 .. FullDepth, ParentCall(o, d) \in ToSet(work')
        PROVE  o \in ParentsOf(e) /\ d = FullDepth - 1
    BY <1>2, <1>8 DEF ChildCall, ParentCall
  <1>9. \A o \in ChildrenOf(e) : \A told : e \in told => ToldBy(recorded, told, o, FullDepth - 1)
    BY ToldFirst DEF ChildrenOf
  <1>10. \A o \in ParentsOf(e) : \A told : e \in told => ToldBy(Inverted(recorded), told, o, FullDepth - 1)
    BY <1>6, ToldFirst DEF ParentsOf
  <1> SUFFICES ASSUME NEW o \in Objects, NEW d \in 0 .. FullDepth
               PROVE  /\ ChildCall(o, d) \in ToSet(work') => ToldBy(recorded, ToldOf(e)', o, d)
                      /\ ParentCall(o, d) \in ToSet(work') => ToldBy(Inverted(recorded), InformedOf(e)', o, d)
    <2>1. ToldOf(Current)' = ToldOf(e)' /\ InformedOf(Current)' = InformedOf(e)'
      BY <1>1, <1>3 DEF ToldOf, InformedOf, e, Current
    <2> QED
      BY <1>1, <2>1 DEF CallPaths
  <1>11. ASSUME ChildCall(o, d) \in ToSet(work') PROVE ToldBy(recorded, ToldOf(e)', o, d)
    BY <1>5, <1>7, <1>9, <1>11
  <1>12. ASSUME ParentCall(o, d) \in ToSet(work') PROVE ToldBy(Inverted(recorded), InformedOf(e)', o, d)
    BY <1>5, <1>8, <1>10, <1>12
  <1> QED
    BY <1>11, <1>12

LEMMA ApplyToChildPaths == ASSUME TypeInv, CallPaths, ApplyToChild PROVE CallPaths'
  <1> DEFINE e == Current
             o == Head(work).object
             d == Head(work).depth
  <1>1. /\ UNCHANGED applied /\ UNCHANGED <<entries, recorded>>
        /\ ancestors' = [ancestors EXCEPT ![o] = @ \cup {e}] /\ below' = below
    BY DEF ApplyToChild, Current, walkVars
  <1>2. /\ Head(work) = ChildCall(o, d) /\ Head(work) \in ToSet(work)
        /\ o \in Objects /\ d \in 0 .. FullDepth /\ e \in Objects
        /\ \A t \in ToSet(work') : \/ t \in ToSet(work)
                                   \/ /\ d # 0 /\ e \notin ancestors[o]
                                      /\ \E c \in ChildrenOf(o) : t = ChildCall(c, d - 1)
    <2>1. work # <<>>
      BY DEF ApplyToChild
    <2> QED
      BY <2>1, ChildCalls, NextCall
  <1>3. Current' = e
    BY <1>1 DEF Current
  <1> HIDE DEF e, o, d
  <1>4. ToldOf(e) \cup {o} \subseteq ToldOf(e)' /\ InformedOf(e)' = InformedOf(e)
    <2>1. /\ ancestors'[o] = ancestors[o] \cup {e}
          /\ \A y \in Objects : y # o => ancestors'[y] = ancestors[y]
      BY <1>1, <1>2, LearnsAncestor
    <2>2. \A y \in Objects : e \in ancestors[y] => e \in ancestors'[y]
      BY <2>1
    <2>3. e \in ancestors'[o]
      BY <2>1
    <2>4. InformedOf(e)' = InformedOf(e)
      BY <1>1, <1>3 DEF InformedOf, e, Current
    <2>5. ToldOf(e)' = {y \in Objects : e \in ancestors'[y]}
      BY <1>1 DEF ToldOf, e, Current
    <2> QED
      BY <1>2, <2>2, <2>3, <2>4, <2>5 DEF ToldOf
  <1> SUFFICES ASSUME NEW y \in Objects, NEW z \in 0 .. FullDepth
               PROVE  /\ ChildCall(y, z) \in ToSet(work') => ToldBy(recorded, ToldOf(e)', y, z)
                      /\ ParentCall(y, z) \in ToSet(work') => ToldBy(Inverted(recorded), InformedOf(e)', y, z)
    <2>1. ToldOf(Current)' = ToldOf(e)' /\ InformedOf(Current)' = InformedOf(e)'
      BY <1>1, <1>3 DEF ToldOf, InformedOf, e, Current
    <2> QED
      BY <1>1, <2>1 DEF CallPaths
  <1>5. ASSUME ParentCall(y, z) \in ToSet(work') PROVE ParentCall(y, z) \in ToSet(work)
    BY <1>2, <1>5 DEF ChildCall, ParentCall
  <1>6. /\ ChildCall(y, z) \in ToSet(work) => ToldBy(recorded, ToldOf(e), y, z)
        /\ ParentCall(y, z) \in ToSet(work) => ToldBy(Inverted(recorded), InformedOf(e), y, z)
    BY DEF CallPaths, e
  <1>7. ASSUME ChildCall(y, z) \in ToSet(work), ToldBy(recorded, ToldOf(e), y, z)
        PROVE  ToldBy(recorded, ToldOf(e)', y, z)
    <2>1. ToldOf(e) \subseteq ToldOf(e)'
      BY <1>4
    <2> QED
      BY <1>7, <2>1, ToldMore
  <1>8. ASSUME ChildCall(y, z) \in ToSet(work'), ChildCall(y, z) \notin ToSet(work)
        PROVE  ToldBy(recorded, ToldOf(e)', y, z)
    <2>1. d # 0 /\ e \notin ancestors[o] /\ y \in ChildrenOf(o) /\ z = d - 1
      BY <1>2, <1>8 DEF ChildCall
    <2>2. o \notin ToldOf(e)
      BY <2>1 DEF ToldOf
    <2>3. ToldBy(recorded, ToldOf(e), o, d)
      BY <1>2 DEF CallPaths, e
    <2>4. <<o, y>> \in recorded
      BY <2>1, InvertedTyped DEF TypeInv, TypeOK, ChildrenOf
    <2>5. ToldBy(recorded, ToldOf(e) \cup {o}, y, d - 1)
      BY <1>2, <2>1, <2>2, <2>3, <2>4, ToldFurther
    <2> QED
      BY <1>4, <2>1, <2>5, ToldMore
  <1>9. ASSUME ParentCall(y, z) \in ToSet(work') PROVE ToldBy(Inverted(recorded), InformedOf(e)', y, z)
    BY <1>4, <1>5, <1>6, <1>9
  <1> QED
    BY <1>6, <1>7, <1>8, <1>9

LEMMA ApplyToParentPaths == ASSUME TypeInv, CallPaths, ApplyToParent PROVE CallPaths'
  <1> DEFINE e == Current
             o == Head(work).object
             d == Head(work).depth
  <1>1. /\ UNCHANGED applied /\ UNCHANGED <<entries, recorded>>
        /\ below' = [below EXCEPT ![o] = @ \cup Facts[e]] /\ ancestors' = ancestors
    BY DEF ApplyToParent, Current, walkVars
  <1>2. /\ Head(work) = ParentCall(o, d) /\ Head(work) \in ToSet(work)
        /\ o \in Objects /\ d \in 0 .. FullDepth /\ e \in Objects
        /\ \A t \in ToSet(work') : \/ t \in ToSet(work)
                                   \/ /\ d # 0 /\ ~ (Facts[e] \subseteq below[o])
                                      /\ \E p \in ParentsOf(o) : t = ParentCall(p, d - 1)
    <2>1. work # <<>>
      BY DEF ApplyToParent
    <2> QED
      BY <2>1, ParentCalls, NextCall
  <1>3. Current' = e
    BY <1>1 DEF Current
  <1> HIDE DEF e, o, d
  <1>4. InformedOf(e) \cup {o} \subseteq InformedOf(e)' /\ ToldOf(e)' = ToldOf(e)
    <2>1. /\ below'[o] = below[o] \cup Facts[e]
          /\ \A y \in Objects : y # o => below'[y] = below[y]
      BY <1>1, <1>2, LearnsFacts
    <2>2. \A y \in Objects : Facts[e] \subseteq below[y] => Facts[e] \subseteq below'[y]
      BY <2>1
    <2>3. Facts[e] \subseteq below'[o]
      BY <2>1
    <2>4. ToldOf(e)' = ToldOf(e)
      BY <1>1, <1>3 DEF ToldOf, e, Current
    <2>5. InformedOf(e)' = {y \in Objects : Facts[e] \subseteq below'[y]}
      BY <1>1 DEF InformedOf, e, Current
    <2> QED
      BY <1>2, <2>2, <2>3, <2>4, <2>5 DEF InformedOf
  <1> SUFFICES ASSUME NEW y \in Objects, NEW z \in 0 .. FullDepth
               PROVE  /\ ChildCall(y, z) \in ToSet(work') => ToldBy(recorded, ToldOf(e)', y, z)
                      /\ ParentCall(y, z) \in ToSet(work') => ToldBy(Inverted(recorded), InformedOf(e)', y, z)
    <2>1. ToldOf(Current)' = ToldOf(e)' /\ InformedOf(Current)' = InformedOf(e)'
      BY <1>1, <1>3 DEF ToldOf, InformedOf, e, Current
    <2> QED
      BY <1>1, <2>1 DEF CallPaths
  <1>5. ASSUME ChildCall(y, z) \in ToSet(work') PROVE ChildCall(y, z) \in ToSet(work)
    BY <1>2, <1>5 DEF ChildCall, ParentCall
  <1>6. /\ ChildCall(y, z) \in ToSet(work) => ToldBy(recorded, ToldOf(e), y, z)
        /\ ParentCall(y, z) \in ToSet(work) => ToldBy(Inverted(recorded), InformedOf(e), y, z)
    BY DEF CallPaths, e
  <1>7. ASSUME ParentCall(y, z) \in ToSet(work), ToldBy(Inverted(recorded), InformedOf(e), y, z)
        PROVE  ToldBy(Inverted(recorded), InformedOf(e)', y, z)
    <2>1. InformedOf(e) \subseteq InformedOf(e)'
      BY <1>4
    <2> QED
      BY <1>7, <2>1, ToldMore
  <1>8. ASSUME ParentCall(y, z) \in ToSet(work'), ParentCall(y, z) \notin ToSet(work)
        PROVE  ToldBy(Inverted(recorded), InformedOf(e)', y, z)
    <2>1. d # 0 /\ ~ (Facts[e] \subseteq below[o]) /\ y \in ParentsOf(o) /\ z = d - 1
      BY <1>2, <1>8 DEF ParentCall
    <2>2. o \notin InformedOf(e)
      BY <2>1 DEF InformedOf
    <2>3. ToldBy(Inverted(recorded), InformedOf(e), o, d)
      BY <1>2 DEF CallPaths, e
    <2>4. <<o, y>> \in Inverted(recorded)
      BY <2>1, InvertedTyped DEF TypeInv, TypeOK, ParentsOf
    <2>5. ToldBy(Inverted(recorded), InformedOf(e) \cup {o}, y, d - 1)
      BY <1>2, <2>1, <2>2, <2>3, <2>4, ToldFurther
    <2> QED
      BY <1>4, <2>1, <2>5, ToldMore
  <1>9. ASSUME ChildCall(y, z) \in ToSet(work') PROVE ToldBy(recorded, ToldOf(e)', y, z)
    BY <1>4, <1>5, <1>6, <1>9
  <1> QED
    BY <1>6, <1>7, <1>8, <1>9

LEMMA InitPaths == Init => CallPaths
  BY NoCallPaths DEF Init

LEMMA NextPaths == TypeInv /\ CallPaths /\ [Next]_vars => CallPaths'
  <1> SUFFICES ASSUME TypeInv, CallPaths, [Next]_vars PROVE CallPaths'
    OBVIOUS
  <1>1. CASE UNCHANGED vars
    BY <1>1 DEF CallPaths, ToldOf, InformedOf, Current, vars, walkVars, applyVars
  <1>2. CASE StartWalk \/ FetchWorker \/ Return
    <2>1. UNCHANGED applyVars /\ ~ WalksDone
      BY <1>2 DEF StartWalk, FetchWorker, DetectCycle, GiveUp, ShortCircuit, PushAgain, Push, Return, Calling,
                  WalksDone
    <2>2. work' = <<>>
      BY <2>1 DEF TypeInv, ApplyKept, applyVars
    <2> QED
      BY <2>2 DEF CallPaths, ToSet
  <1>3. CASE EndApply
    <2>1. work' = <<>>
      BY <1>3 DEF EndApply
    <2> QED
      BY <2>1 DEF CallPaths, ToSet
  <1> QED
    BY <1>1, <1>2, <1>3, ApplySelfPaths, ApplyToChildPaths, ApplyToParentPaths DEF Next, ApplyGraphData

(* An object without recorded links reaches nothing; so what reaches, or is *)
(* reached, is in the map.                                                  *)
LEMMA ReachedInMap ==
    ASSUME DataInv, NEW o \in Objects
    PROVE  Reach(o, recorded) \subseteq EntrySet /\ Reach(o, Inverted(recorded)) \subseteq EntrySet
  <1> DEFINE S == EntrySet \cap Objects
             inv == Inverted(recorded)
  <1>1. recorded \in SUBSET (Objects \X Objects) /\ inv \in SUBSET (Objects \X Objects)
    BY DataTypes, InvertedTyped
  <1>2. \A l \in recorded : l[1] \in S /\ l[2] \in S
    BY DataTypes DEF DataInv, LinksOfEntries
  <1>3. \A l \in inv : l[1] \in S /\ l[2] \in S
    BY <1>2 DEF Inverted
  <1> HIDE DEF inv
  <1>4. S \in SUBSET Objects
    OBVIOUS
  <1>5. Reach(o, recorded) \subseteq S /\ Reach(o, inv) \subseteq S
    <2> HIDE DEF S
    <2> QED
      BY <1>1, <1>2, <1>3, <1>4, ReachIsLeast
  <1> QED
    BY <1>5 DEF inv

LEMMA DataApplied == DataInv => GraphDataApplied
  <1> SUFFICES ASSUME DataInv, Done, WithDatabase, NEW o \in EntrySet
               PROVE  /\ ancestors[o] = {o} \cup Reach(o, Inverted(recorded))
                      /\ below[o] = UNION {Facts[d] : d \in {o} \cup Reach(o, recorded)}
    BY DEF GraphDataApplied
  <1>1. /\ applied = Len(entries) /\ work = <<>> /\ entries \in Seq(Objects)
        /\ ancestors \in [Objects -> SUBSET Objects]
    BY DEF Done, DataInv, TypeInv, TypeOK, ApplyKept
  <1>2. DOMAIN entries = 1 .. Len(entries) /\ Len(entries) \in Nat
    BY <1>1, LenProperties
  <1>3. \A x \in EntrySet : x \in Objects /\ x \in ancestors[x] /\ Facts[x] \subseteq below[x]
    <2> SUFFICES ASSUME NEW i \in 1 .. Len(entries)
                 PROVE  /\ entries[i] \in Objects /\ entries[i] \in ancestors[entries[i]]
                        /\ Facts[entries[i]] \subseteq below[entries[i]]
      BY <1>2 DEF EntrySet, ToSet
    <2>1. i <= applied
      BY <1>1, <1>2
    <2> QED
      BY <2>1, <1>1, ElementOfSeq DEF DataInv, DataKept, OwnApplied
  <1>4. o \in Objects /\ recorded \in SUBSET (Objects \X Objects)
    BY <1>3, DataTypes
  <1>5. NoCalls(work)
    BY <1>1 DEF NoCalls, ChildCalled, ParentCalled, ToSet
  <1>6. /\ \A l \in recorded : \A x \in ancestors[l[1]] : x \in ancestors[l[2]]
        /\ \A l \in recorded : \A x \in below[l[2]] : x \in below[l[1]]
    BY <1>5 DEF NoCalls, DataInv, DataKept, AncestorsPassed, FactsPassed
  <1>7. ASSUME NEW e \in ancestors[o] PROVE e \in {o} \cup Reach(o, Inverted(recorded))
    <2>1. e \in Objects /\ (e = o \/ o \in Reach(e, recorded))
      BY <1>1, <1>4 DEF DataInv, DataKept, AncestorsSound
    <2> QED
      BY <2>1, <1>4, ReachInverted
  <1>8. ASSUME NEW e \in Reach(o, Inverted(recorded)) PROVE e \in ancestors[o]
    <2>1. e \in EntrySet
      BY <1>4, ReachedInMap
    <2>2. e \in Objects /\ e \in ancestors[e]
      BY <2>1, <1>3
    <2>3. o \in Reach(e, recorded)
      BY <2>2, <1>4, ReachInverted
    <2> DEFINE S == {x \in Objects : e \in ancestors[x]}
    <2>4. S \in SUBSET Objects
      OBVIOUS
    <2>5. \A l \in recorded : l[1] = e \/ l[1] \in S => l[2] \in S
      BY <2>2, <1>6, DataTypes
    <2>6. Reach(e, recorded) \subseteq S
      <3> HIDE DEF S
      <3> QED
        BY <2>2, <2>4, <2>5, <1>4, ReachIsLeast
    <2> QED
      BY <2>3, <2>6
  <1>9. ancestors[o] = {o} \cup Reach(o, Inverted(recorded))
    BY <1>3, <1>7, <1>8
  <1>10. ASSUME NEW x \in below[o] PROVE x \in UNION {Facts[d] : d \in {o} \cup Reach(o, recorded)}
    BY <1>4 DEF DataInv, DataKept, FactsSound
  <1>11. ASSUME NEW d \in Reach(o, recorded) PROVE Facts[d] \subseteq below[o]
    <2>1. d \in EntrySet
      BY <1>4, ReachedInMap
    <2>2. d \in Objects /\ Facts[d] \subseteq below[d]
      BY <2>1, <1>3
    <2> DEFINE inv == Inverted(recorded)
               S == {x \in Objects : Facts[d] \subseteq below[x]}
    <2>3. o \in Reach(d, inv)
      BY <2>2, <1>4, ReachInverted
    <2>4. inv \in SUBSET (Objects \X Objects) /\ \A a, b : <<a, b>> \in inv <=> <<b, a>> \in recorded
      BY <1>4, InvertedTyped
    <2> HIDE DEF inv
    <2>5. S \in SUBSET Objects
      OBVIOUS
    <2>6. ASSUME NEW l \in inv, l[1] = d \/ l[1] \in S PROVE l[2] \in S
      <3>1. l = <<l[1], l[2]>> /\ l[1] \in Objects /\ l[2] \in Objects
        BY <2>4
      <3>2. <<l[2], l[1]>> \in recorded
        BY <3>1, <2>4
      <3>3. <<l[2], l[1]>>[1] = l[2] /\ <<l[2], l[1]>>[2] = l[1]
        OBVIOUS
      <3>4. below[l[1]] \subseteq below[l[2]]
        BY <3>2, <3>3, <1>6
      <3>5. Facts[d] \subseteq below[l[1]]
        BY <2>2, <2>6
      <3> QED
        BY <3>1, <3>4, <3>5
    <2>7. Reach(d, inv) \subseteq S
      <3> HIDE DEF S
      <3> QED
        BY <2>2, <2>4, <2>5, <2>6, ReachIsLeast
    <2> QED
      BY <2>3, <2>7
  <1>12. below[o] = UNION {Facts[d] : d \in {o} \cup Reach(o, recorded)}
    BY <1>3, <1>10, <1>11
  <1> QED
    BY <1>9, <1>12

-----------------------------------------------------------------------------
(* The walks that are made.                                                 *)

Single == task \in {"ancestors", "descendents", "children"}
Double == task \in {"all", "index"}
ModeFor == IF task = "ancestors" THEN "eAncestors" ELSE "eDescendents"

(* No walk has begun.                                                       *)
Fresh ==
    /\ stack = <<>> /\ list = <<>> /\ processed = {} /\ added = {} /\ pushCount = 0
    /\ valid = TRUE /\ acyclic = TRUE

WalksKept ==
    /\ Single =>
          \/ walks = <<Walk(root, ModeFor)>> /\ Fresh
          \/ walks = <<>> /\ mode = ModeFor
    /\ Double =>
          \/ walks = <<Walk(root, "eAncestors"), Walk(root, "eDescendents")>> /\ Fresh
          \/ walks = <<Walk(root, "eDescendents")>> /\ mode = "eAncestors"
          \/ walks = <<>> /\ mode = "eDescendents"
    /\ task = "full" =>
          /\ \A w \in ToSet(walks) : w.mode = "eDescendents"
          /\ stack # <<>> => mode = "eDescendents"

LEMMA OneOfTasks ==
    ASSUME TypeInv
    PROVE  /\ Single \/ Double \/ task = "full"
           /\ ~ (Single /\ Double) /\ (Single => task # "full") /\ (Double => task # "full")
  BY DEF TypeInv, TypeOK, Tasks, Single, Double

LEMMA InitWalks == Init => WalksKept
  <1> SUFFICES ASSUME Init PROVE WalksKept
    OBVIOUS
  <1>1. Fresh /\ walks = WalksFor(task, root) /\ stack = <<>>
    BY DEF Init, Fresh
  <1>2. ASSUME Single PROVE walks = <<Walk(root, ModeFor)>>
    BY <1>1, <1>2 DEF WalksFor, Single, ModeFor
  <1>3. ASSUME Double PROVE walks = <<Walk(root, "eAncestors"), Walk(root, "eDescendents")>>
    BY <1>1, <1>3 DEF WalksFor, Double
  <1>4. ASSUME task = "full" PROVE \A w \in ToSet(walks) : w.mode = "eDescendents"
    <2>1. walks = [i \in DOMAIN FetchOrder |-> Walk(FetchOrder[i], "eDescendents")]
      BY <1>1, <1>4 DEF WalksFor
    <2>2. \A x : Walk(x, "eDescendents").mode = "eDescendents"
      BY DEF Walk
    <2>3. \A w \in ToSet(walks) : \E i \in DOMAIN FetchOrder : w = Walk(FetchOrder[i], "eDescendents")
      BY <2>1 DEF ToSet
    <2> QED
      BY <2>2, <2>3
  <1> QED
    BY <1>1, <1>2, <1>3, <1>4 DEF WalksKept

LEMMA SameWalks ==
    ASSUME WalksKept, stack # <<>>, UNCHANGED <<task, walks, root, mode>>
    PROVE  WalksKept'
  <1>1. ~ Fresh
    BY DEF Fresh
  <1> QED
    BY <1>1 DEF WalksKept, Single, Double, ModeFor

(* Which walk begins.                                                       *)
LEMMA WalkBegins ==
    ASSUME TypeInv, WalksKept, StartWalk
    PROVE  /\ WalksKept'
           /\ stack' = <<Frame(None, <<root'>>, Depth + 1)>> /\ processed' = {}
           /\ Single => /\ Fresh /\ root' = root /\ walks' = <<>> /\ mode' = ModeFor
           /\ Double => /\ root' = root
                        /\ \/ Fresh /\ walks' # <<>> /\ mode' = "eAncestors"
                           \/ /\ walks # <<>> /\ walks' = <<>>
                              /\ mode = "eAncestors" /\ mode' = "eDescendents"
           /\ ~ (task = "full") => UNCHANGED <<added, list, valid, acyclic, pushCount>>
           /\ task = "full" => /\ added' = {} /\ list' = <<>> /\ valid' = TRUE /\ acyclic' = TRUE
                               /\ pushCount' = 0 /\ mode' = "eDescendents"
                               /\ \A x : Walk(x, "eDescendents") \in ToSet(walks)
                                     => x = root' \/ Walk(x, "eDescendents") \in ToSet(walks')
  <1> DEFINE h == Head(walks)
  <1>1. /\ stack = <<>> /\ walks # <<>> /\ root' = h.object /\ mode' = h.mode /\ walks' = Tail(walks)
        /\ processed' = {} /\ task' = task /\ stack' = <<Frame(None, <<h.object>>, Depth + 1)>>
    BY DEF StartWalk
  <1>2. /\ ~ (task = "full") => UNCHANGED <<added, list, valid, acyclic, pushCount>>
        /\ task = "full" => added' = {} /\ list' = <<>> /\ valid' = TRUE /\ acyclic' = TRUE /\ pushCount' = 0
    BY DEF StartWalk
  <1>3. \A x, m : Walk(x, m).object = x /\ Walk(x, m).mode = m
    BY DEF Walk
  <1>4. h \in AWalk /\ ToSet(walks) = {h} \cup ToSet(Tail(walks))
    BY <1>1, Walking, HeadAndTail
  <1> HIDE DEF h
  <1>5. ASSUME Single PROVE Fresh /\ root' = root /\ walks' = <<>> /\ mode' = ModeFor
    <2>1. walks = <<Walk(root, ModeFor)>> /\ Fresh
      BY <1>1, <1>5 DEF WalksKept
    <2>2. h = Walk(root, ModeFor) /\ Tail(walks) = <<>>
      BY <2>1 DEF h
    <2> QED
      BY <1>1, <1>3, <2>1, <2>2
  <1>6. ASSUME Double
        PROVE  /\ root' = root
               /\ \/ /\ Fresh /\ walks' = <<Walk(root, "eDescendents")>> /\ mode' = "eAncestors"
                  \/ /\ walks' = <<>>
                     /\ mode = "eAncestors" /\ mode' = "eDescendents"
    <2>1. CASE walks = <<Walk(root, "eAncestors"), Walk(root, "eDescendents")>> /\ Fresh
      <3>1. h = Walk(root, "eAncestors") /\ Tail(walks) = <<Walk(root, "eDescendents")>>
        BY <2>1 DEF h
      <3> QED
        BY <1>1, <1>3, <2>1, <3>1
    <2>2. CASE walks = <<Walk(root, "eDescendents")>> /\ mode = "eAncestors"
      <3>1. h = Walk(root, "eDescendents") /\ Tail(walks) = <<>>
        BY <2>2 DEF h
      <3> QED
        BY <1>1, <1>3, <2>2, <3>1
    <2> QED
      BY <2>1, <2>2, <1>1, <1>6 DEF WalksKept
  <1>7. ASSUME task = "full"
        PROVE  /\ mode' = "eDescendents" /\ h = Walk(h.object, "eDescendents")
               /\ \A w \in ToSet(walks') : w.mode = "eDescendents"
    BY <1>1, <1>4, <1>7 DEF WalksKept, AWalk, Walk
  <1>8. ASSUME task = "full", NEW x, Walk(x, "eDescendents") \in ToSet(walks)
        PROVE  x = root' \/ Walk(x, "eDescendents") \in ToSet(walks')
    <2>1. Walk(x, "eDescendents") = h => x = h.object
      BY <1>3
    <2> QED
      BY <1>1, <1>4, <1>8, <2>1
  <1>9. WalksKept'
    <2>1. Single' = Single /\ Double' = Double /\ ModeFor' = ModeFor
      BY <1>1 DEF Single, Double, ModeFor
    <2> QED
      BY <1>1, <1>5, <1>6, <1>7, <2>1 DEF WalksKept, Single, Double
  <1>10. <<Walk(root, "eDescendents")>> # <<>>
    OBVIOUS
  <1> QED
    BY <1>1, <1>2, <1>5, <1>6, <1>7, <1>8, <1>9, <1>10

LEMMA CallUnchanged ==
    ASSUME FetchWorker \/ Return
    PROVE  /\ stack # <<>>
           /\ UNCHANGED <<xref, task, walks, root, mode>> /\ UNCHANGED applyVars
  BY DEF FetchWorker, DetectCycle, GiveUp, ShortCircuit, PushAgain, Push, Return, Calling

LEMMA NextWalks == TypeInv /\ WalksKept /\ [Next]_vars => WalksKept'
  <1> SUFFICES ASSUME TypeInv, WalksKept, [Next]_vars PROVE WalksKept'
    OBVIOUS
  <1>1. CASE ApplyGraphData \/ UNCHANGED vars
    <2>1. UNCHANGED walkVars /\ task' = task
      BY <1>1 DEF ApplyGraphData, ApplySelf, ApplyToChild, ApplyToParent, EndApply, vars
    <2> QED
      BY <2>1 DEF WalksKept, Single, Double, ModeFor, Fresh, walkVars
  <1> QED
    BY <1>1, WalkBegins, CallUnchanged, SameWalks DEF Next

-----------------------------------------------------------------------------
(* Counting the calls.                                                      *)

(* The objects that calls under way have still to take, frame by frame.     *)
Sums(s, f) == f = [n \in 0 .. Len(s) |-> IF n = 0 THEN 0 ELSE f[n - 1] + Len(s[n].todo)]

Pending(s) == (CHOOSE f : Sums(s, f))[Len(s)]

LEMMA SumsExist == ASSUME NEW s \in Seq(AFrame) PROVE \E f : Sums(s, f)
  <1> DEFINE Upto(m, f) == f = [n \in 0 .. m |-> IF n = 0 THEN 0 ELSE f[n - 1] + Len(s[n].todo)]
             S == {m \in Nat : \E f : Upto(m, f)}
  <1>1. 0 \in S
    <2> DEFINE f == [n \in 0 .. 0 |-> 0]
    <2>1. f = [n \in 0 .. 0 |-> IF n = 0 THEN 0 ELSE f[n - 1] + Len(s[n].todo)]
      OBVIOUS
    <2> HIDE DEF f
    <2> QED
      BY <2>1
  <1>2. ASSUME NEW m \in Nat, m \in S PROVE m + 1 \in S
    <2>1. PICK f : Upto(m, f)
      BY <1>2
    <2> DEFINE Longer == [n \in 0 .. m + 1 |-> IF n = 0 THEN 0 ELSE f[n - 1] + Len(s[n].todo)]
    <2>2. \A n \in 0 .. m : Longer[n] = f[n]
      BY <2>1
    <2>3. \A n \in 0 .. m + 1 : n # 0 => n - 1 \in 0 .. m
      OBVIOUS
    <2>4. \A n \in 0 .. m + 1 :
             (IF n = 0 THEN 0 ELSE f[n - 1] + Len(s[n].todo))
               = (IF n = 0 THEN 0 ELSE Longer[n - 1] + Len(s[n].todo))
      <3> HIDE DEF Longer
      <3> QED
        BY <2>2, <2>3
    <2>5. Upto(m + 1, Longer)
      BY <2>4
    <2> HIDE DEF Longer, Upto
    <2> QED
      BY <2>5
  <1>3. Len(s) \in S
    <2> HIDE DEF S
    <2> QED
      BY <1>1, <1>2, NaturalsFromZero, LenProperties
  <1> QED
    BY <1>3 DEF Sums

LEMMA PendingIs ==
    ASSUME NEW s \in Seq(AFrame)
    PROVE  \E f : /\ f[0] = 0 /\ Pending(s) = f[Len(s)]
                  /\ \A n \in 0 .. Len(s) - 1 : f[n + 1] = f[n] + Len(s[n + 1].todo)
  <1> DEFINE f == CHOOSE f : Sums(s, f)
  <1>1. Sums(s, f) /\ Pending(s) = f[Len(s)] /\ Len(s) \in Nat
    BY SumsExist, LenProperties DEF Pending
  <1> HIDE DEF f
  <1>2. f = [n \in 0 .. Len(s) |-> IF n = 0 THEN 0 ELSE f[n - 1] + Len(s[n].todo)]
    BY <1>1 DEF Sums
  <1>3. f[0] = 0
    BY <1>1, <1>2
  <1>4. ASSUME NEW n \in 0 .. Len(s) - 1 PROVE f[n + 1] = f[n] + Len(s[n + 1].todo)
    <2>1. n + 1 \in 0 .. Len(s) /\ n + 1 # 0 /\ (n + 1) - 1 = n
      BY <1>1
    <2> QED
      BY <1>2, <2>1
  <1> QED
    BY <1>1, <1>3, <1>4

(* What the last frame has to take adds to what those before it have.       *)
LEMMA PendingLast ==
    ASSUME NEW s \in Seq(AFrame), NEW t \in Seq(AFrame), Len(s) = Len(t) + 1,
           \A i \in 1 .. Len(t) : s[i] = t[i]
    PROVE  /\ Pending(s) = Pending(t) + Len(s[Len(s)].todo)
           /\ Pending(t) \in Nat /\ Len(s[Len(s)].todo) \in Nat
  <1> DEFINE k == Len(t)
  <1>1. k \in Nat /\ Len(s) = k + 1
    BY LenProperties
  <1>2. \A i \in 1 .. k + 1 : Len(s[i].todo) \in Nat
    <2> SUFFICES ASSUME NEW i \in 1 .. Len(s) PROVE Len(s[i].todo) \in Nat
      BY <1>1
    <2>1. s[i] \in AFrame
      BY ElementOfSeq
    <2>2. s[i].todo \in Seq(Objects)
      BY <2>1 DEF AFrame
    <2> QED
      BY <2>2, LenProperties
  <1>3. PICK f : /\ f[0] = 0 /\ Pending(s) = f[k + 1]
                 /\ \A n \in 0 .. k : f[n + 1] = f[n] + Len(s[n + 1].todo)
    <2>1. \E f : /\ f[0] = 0 /\ Pending(s) = f[Len(s)]
                 /\ \A n \in 0 .. Len(s) - 1 : f[n + 1] = f[n] + Len(s[n + 1].todo)
      BY PendingIs
    <2>2. Len(s) = k + 1 /\ (k + 1) - 1 = k
      BY <1>1
    <2> QED
      BY <2>1, <2>2
  <1>4. PICK g : /\ g[0] = 0 /\ Pending(t) = g[k]
                 /\ \A n \in 0 .. k - 1 : g[n + 1] = g[n] + Len(t[n + 1].todo)
    BY PendingIs
  <1>5. \A i \in 1 .. k : s[i] = t[i]
    OBVIOUS
  <1>6. Len(s[k + 1].todo) = Len(s[Len(s)].todo)
    BY <1>1
  <1> HIDE DEF k
  <1> DEFINE D == {n \in Nat : n <= k => f[n] = g[n] /\ f[n] \in Nat}
  <1>7. 0 \in D
    BY <1>3, <1>4
  <1>8. ASSUME NEW n \in Nat, n \in D PROVE n + 1 \in D
    <2> SUFFICES ASSUME n + 1 <= k PROVE f[n + 1] = g[n + 1] /\ f[n + 1] \in Nat
      OBVIOUS
    <2>1. n \in 0 .. k - 1 /\ n \in 0 .. k /\ n + 1 \in 1 .. k /\ n + 1 \in 1 .. k + 1 /\ n <= k
      BY <1>1
    <2>2. f[n] = g[n] /\ f[n] \in Nat
      BY <2>1, <1>8
    <2>3. s[n + 1] = t[n + 1] /\ Len(s[n + 1].todo) \in Nat
      BY <2>1, <1>2, <1>5
    <2>4. f[n + 1] = f[n] + Len(s[n + 1].todo) /\ g[n + 1] = g[n] + Len(t[n + 1].todo)
      BY <2>1, <1>3, <1>4
    <2> QED
      BY <2>2, <2>3, <2>4
  <1>9. k \in D
    <2> HIDE DEF D
    <2> QED
      BY <1>1, <1>7, <1>8, NaturalsFromZero
  <1>10. f[k] = Pending(t) /\ f[k] \in Nat
    BY <1>4, <1>9
  <1>11. k \in 0 .. k /\ k + 1 \in 1 .. k + 1
    BY <1>1
  <1>12. f[k + 1] = f[k] + Len(s[k + 1].todo) /\ Len(s[k + 1].todo) \in Nat
    BY <1>2, <1>3, <1>11
  <1> QED
    BY <1>3, <1>6, <1>10, <1>12

LEMMA PendingNone == Pending(<<>>) = 0
  <1>1. <<>> \in Seq(AFrame) /\ Len(<<>>) = 0
    BY EmptySeq
  <1> QED
    BY <1>1, PendingIs

(* A call takes one object, and one that has taken all is over.             *)
LEMMA PendingCall ==
    ASSUME TypeInv, Calling
    PROVE  Pending(stack) \in Nat \ {0} /\ Pending(Rest) = Pending(stack) - 1
  <1> DEFINE n == Len(stack)
             t == Front(stack)
  <1>1. stack # <<>> /\ stack \in Seq(AFrame) /\ Last(stack).todo # <<>>
    BY Walking DEF Calling
  <1>2. /\ n \in Nat \ {0} /\ Last(stack) = stack[n] /\ Last(stack) \in AFrame
        /\ Rest \in Seq(AFrame) /\ Len(Rest) = n
        /\ \A i \in 1 .. n - 1 : Rest[i] = stack[i]
        /\ Rest[n] = [source |-> RelatedType, todo |-> Tail(Last(stack).todo), depth |-> Last(stack).depth]
    BY Called
  <1>3. t \in Seq(AFrame) /\ Len(t) = n - 1 /\ \A i \in 1 .. n - 1 : t[i] = stack[i]
    BY <1>1, Returned
  <1>4. Len(stack) = n /\ Len(stack) = Len(t) + 1 /\ Len(Rest) = Len(t) + 1 /\ n = Len(t) + 1
    BY <1>2, <1>3
  <1> HIDE DEF t, n
  <1>5. /\ Pending(stack) = Pending(t) + Len(stack[Len(stack)].todo)
        /\ Pending(t) \in Nat /\ Len(stack[Len(stack)].todo) \in Nat
    BY <1>1, <1>3, <1>4, PendingLast
  <1>6. \A i \in 1 .. Len(t) : Rest[i] = t[i]
    BY <1>2, <1>3
  <1>7. Pending(Rest) = Pending(t) + Len(Rest[Len(Rest)].todo)
    BY <1>2, <1>3, <1>4, <1>6, PendingLast
  <1>8. Last(stack).todo \in Seq(Objects)
    BY <1>2 DEF AFrame
  <1>9. /\ Len(Tail(Last(stack).todo)) = Len(Last(stack).todo) - 1
        /\ Len(Last(stack).todo) \in Nat \ {0}
    BY <1>1, <1>8, HeadAndTail
  <1>10. Rest[Len(Rest)].todo = Tail(Last(stack).todo) /\ stack[Len(stack)].todo = Last(stack).todo
    BY <1>2, <1>4
  <1> QED
    BY <1>5, <1>7, <1>9, <1>10

LEMMA PendingReturn ==
    ASSUME TypeInv, stack # <<>>, ~ Calling
    PROVE  Pending(Front(stack)) = Pending(stack) /\ Pending(stack) \in Nat
  <1> DEFINE n == Len(stack)
             t == Front(stack)
  <1>1. stack \in Seq(AFrame) /\ Last(stack).todo = <<>>
    BY Walking DEF Calling
  <1>2. /\ n \in Nat \ {0} /\ Last(stack) = stack[n]
        /\ t \in Seq(AFrame) /\ Len(t) = n - 1 /\ \A i \in 1 .. n - 1 : t[i] = stack[i]
    BY Returned
  <1>3. Len(stack) = n /\ Len(stack) = Len(t) + 1
    BY <1>2
  <1> HIDE DEF n, t
  <1>4. /\ Pending(stack) = Pending(t) + Len(stack[Len(stack)].todo)
        /\ Pending(t) \in Nat
    BY <1>1, <1>2, <1>3, PendingLast
  <1>5. Len(stack[Len(stack)].todo) = 0
    BY <1>1, <1>2, <1>3, EmptySeq
  <1> QED
    BY <1>4, <1>5 DEF t

(* The links of the objects that were processed, and those of one kind.     *)
Walked(m, ps) == {l \in Objects \X Objects : l[1] \in ps /\ l[2] \in Related(l[1], m)}
WalkedBy(m, ps, links) == {l \in Objects \X Objects : l[1] \in ps /\ l[2] \in Ends(l[1], m, links)}

(* What was gathered of them: a link of two kinds counts twice.             *)
WalkedCount(m, ps) ==
    Cardinality(WalkedBy(m, ps, ThumbnailLinks(m))) + Cardinality(WalkedBy(m, ps, xref))
        + Cardinality(WalkedBy(m, ps, Owned))

LEMMA LinksFinite ==
    ASSUME NEW links \in SUBSET (Objects \X Objects)
    PROVE  IsFiniteSet(links) /\ Cardinality(links) \in Nat
  <1>1. IsFiniteSet(Objects \X Objects)
    BY ConstantsAssumption, FS_Product
  <1> QED
    BY <1>1, FS_Subset, FS_CardinalityType

LEMMA DownFinite ==
    ASSUME TypeInv
    PROVE  /\ Down \in SUBSET (Objects \X Objects) /\ Up \subseteq Down
           /\ xref \in SUBSET (Objects \X Objects) /\ Owned \in SUBSET (Objects \X Objects)
           /\ Thumbnails \in SUBSET (Objects \X Objects)
           /\ Cardinality(xref) \in Nat /\ Cardinality(Owned) \in Nat /\ Cardinality(Thumbnails) \in Nat
           /\ LinkCount \in Nat
  <1>1. Down \in SUBSET (Objects \X Objects) /\ Up \subseteq Down
    BY ConstantsAssumption DEF Down, Up, TypeInv, TypeOK
  <1>2. /\ xref \in SUBSET (Objects \X Objects) /\ Owned \in SUBSET (Objects \X Objects)
        /\ Thumbnails \in SUBSET (Objects \X Objects)
    BY ConstantsAssumption DEF TypeInv, TypeOK
  <1>3. Cardinality(xref) \in Nat /\ Cardinality(Owned) \in Nat /\ Cardinality(Thumbnails) \in Nat
    BY <1>2, LinksFinite
  <1> QED
    BY <1>1, <1>2, <1>3 DEF LinkCount

LEMMA WalkedByFinite ==
    ASSUME NEW m, NEW ps, NEW links
    PROVE  IsFiniteSet(WalkedBy(m, ps, links)) /\ Cardinality(WalkedBy(m, ps, links)) \in Nat
  <1>1. WalkedBy(m, ps, links) \in SUBSET (Objects \X Objects)
    BY DEF WalkedBy
  <1> QED
    BY <1>1, LinksFinite

LEMMA WalkedCountNat == ASSUME NEW m, NEW ps PROVE WalkedCount(m, ps) \in Nat
  <1>1. /\ Cardinality(WalkedBy(m, ps, ThumbnailLinks(m))) \in Nat
        /\ Cardinality(WalkedBy(m, ps, xref)) \in Nat /\ Cardinality(WalkedBy(m, ps, Owned)) \in Nat
    BY WalkedByFinite
  <1> QED
    BY <1>1 DEF WalkedCount

LEMMA InvertedCardinality ==
    ASSUME NEW links \in SUBSET (Objects \X Objects)
    PROVE  IsFiniteSet(Inverted(links)) /\ Cardinality(Inverted(links)) <= Cardinality(links)
  <1> DEFINE f == [l \in links |-> <<l[2], l[1]>>]
  <1>1. f \in [links -> Inverted(links)] /\ \A y \in Inverted(links) : \E l \in links : f[l] = y
    BY DEF Inverted
  <1> HIDE DEF f
  <1>2. f \in Surjection(links, Inverted(links))
    BY <1>1 DEF Surjection
  <1> QED
    BY <1>2, LinksFinite, FS_Surjection

(* There are no more of them than links, in either direction.               *)
LEMMA WalkedByBound ==
    ASSUME NEW m, NEW ps, NEW links \in SUBSET (Objects \X Objects)
    PROVE  Cardinality(WalkedBy(m, ps, links)) <= Cardinality(links)
  <1>1. CASE m = "eDescendents"
    <2>1. WalkedBy(m, ps, links) \in SUBSET links
      <3> SUFFICES ASSUME NEW l \in WalkedBy(m, ps, links) PROVE l \in links
        OBVIOUS
      <3>1. l = <<l[1], l[2]>> /\ l[2] \in Ends(l[1], m, links)
        BY DEF WalkedBy
      <3> QED
        BY <3>1, <1>1 DEF Ends
    <2> QED
      BY <2>1, LinksFinite, FS_Subset
  <1>2. CASE m # "eDescendents"
    <2>1. WalkedBy(m, ps, links) \in SUBSET Inverted(links)
      <3> SUFFICES ASSUME NEW l \in WalkedBy(m, ps, links) PROVE l \in Inverted(links)
        OBVIOUS
      <3>1. l = <<l[1], l[2]>> /\ l[2] \in Ends(l[1], m, links)
        BY DEF WalkedBy
      <3>2. <<l[2], l[1]>> \in links
        BY <3>1, <1>2 DEF Ends
      <3> QED
        BY <3>1, <3>2, InvertedTyped
    <2>2. Cardinality(WalkedBy(m, ps, links)) <= Cardinality(Inverted(links))
      BY <2>1, InvertedCardinality, FS_Subset
    <2>3. /\ Cardinality(WalkedBy(m, ps, links)) \in Nat /\ Cardinality(Inverted(links)) \in Nat
          /\ Cardinality(links) \in Nat
      BY WalkedByFinite, InvertedCardinality, FS_CardinalityType, LinksFinite
    <2> QED
      BY <2>2, <2>3, InvertedCardinality
  <1> QED
    BY <1>1, <1>2

LEMMA WalkedBound ==
    ASSUME TypeInv, NEW m, NEW ps
    PROVE  WalkedCount(m, ps) <= LinkCount
  <1> DEFINE t == Cardinality(WalkedBy(m, ps, ThumbnailLinks(m)))
             x == Cardinality(WalkedBy(m, ps, xref))
             w == Cardinality(WalkedBy(m, ps, Owned))
  <1>1. t \in Nat /\ x \in Nat /\ w \in Nat
    BY WalkedByFinite
  <1>2. x <= Cardinality(xref) /\ w <= Cardinality(Owned)
    BY WalkedByBound, DownFinite
  <1>3. t <= Cardinality(Thumbnails)
    <2>1. CASE m = "eDescendents"
      BY <2>1, WalkedByBound, DownFinite DEF ThumbnailLinks
    <2>2. CASE m # "eDescendents"
      <3>1. WalkedBy(m, ps, ThumbnailLinks(m)) = {}
        BY <2>2 DEF WalkedBy, ThumbnailLinks, Ends
      <3>2. t = 0
        BY <3>1, FS_EmptySet
      <3> HIDE DEF t
      <3> QED
        BY <3>2, DownFinite
    <2> QED
      BY <2>1, <2>2
  <1>4. WalkedCount(m, ps) = t + x + w
    BY DEF WalkedCount
  <1> HIDE DEF t, x, w
  <1> QED
    BY <1>1, <1>2, <1>3, <1>4, DownFinite DEF LinkCount

(* A new object adds its links.                                             *)
LEMMA WalkedByGrows ==
    ASSUME NEW m, NEW ps, NEW o \in Objects, o \notin ps, NEW links
    PROVE  /\ Cardinality(Ends(o, m, links)) \in Nat
           /\ Cardinality(WalkedBy(m, ps, links)) + Cardinality(Ends(o, m, links))
                 <= Cardinality(WalkedBy(m, ps \cup {o}, links))
  <1> DEFINE W == WalkedBy(m, ps, links)
             E == Ends(o, m, links)
             New == {o} \X E
             V == WalkedBy(m, ps \cup {o}, links)
  <1>1. E \in SUBSET Objects
    BY DEF Ends
  <1>2. IsFiniteSet(E) /\ Cardinality(E) \in Nat
    BY <1>1, SomeObjects
  <1>3. IsFiniteSet({o}) /\ Cardinality({o}) = 1
    BY FS_Singleton
  <1>4. IsFiniteSet(New) /\ Cardinality(New) = Cardinality(E)
    <2>1. IsFiniteSet(New) /\ Cardinality(New) = 1 * Cardinality(E)
      BY <1>2, <1>3, FS_Product
    <2> QED
      BY <2>1, <1>2
  <1>5. IsFiniteSet(W) /\ Cardinality(W) \in Nat /\ IsFiniteSet(V) /\ Cardinality(V) \in Nat
    BY WalkedByFinite
  <1>6. W \cap New = {}
    BY DEF WalkedBy
  <1>7. W \subseteq V
    BY DEF WalkedBy
  <1>8. New \subseteq V
    BY <1>1 DEF WalkedBy
  <1> HIDE DEF W, New, V, E
  <1>9. Cardinality(W \cup New) = Cardinality(W) + Cardinality(New) /\ IsFiniteSet(W \cup New)
    <2>1. Cardinality(W \cup New) = Cardinality(W) + Cardinality(New) - Cardinality({})
      BY <1>4, <1>5, <1>6, FS_Union
    <2>2. IsFiniteSet(W \cup New)
      BY <1>4, <1>5, FS_Union
    <2>3. Cardinality({}) = 0
      BY FS_EmptySet
    <2> QED
      BY <2>1, <2>2, <2>3, <1>2, <1>4, <1>5
  <1>10. W \cup New \in SUBSET V
    BY <1>7, <1>8
  <1>11. Cardinality(W \cup New) <= Cardinality(V)
    BY <1>5, <1>10, FS_Subset
  <1> QED
    BY <1>2, <1>4, <1>5, <1>9, <1>11 DEF W, V, E

LEMMA WalkedGrows ==
    ASSUME NEW m, NEW ps, NEW o \in Objects, o \notin ps
    PROVE  /\ Len(Gathered(o, m)) \in Nat
           /\ WalkedCount(m, ps) + Len(Gathered(o, m)) <= WalkedCount(m, ps \cup {o})
  <1> DEFINE W(links) == Cardinality(WalkedBy(m, ps, links))
             E(links) == Cardinality(Ends(o, m, links))
             V(links) == Cardinality(WalkedBy(m, ps \cup {o}, links))
             t == ThumbnailLinks(m)
  <1>1. \A links : W(links) \in Nat /\ V(links) \in Nat /\ E(links) \in Nat /\ W(links) + E(links) <= V(links)
    BY WalkedByGrows, WalkedByFinite
  <1>2. Len(Gathered(o, m)) = E(t) + E(xref) + E(Owned)
    BY GatheredIs DEF ThumbnailEnds
  <1>3. /\ WalkedCount(m, ps) = W(t) + W(xref) + W(Owned)
        /\ WalkedCount(m, ps \cup {o}) = V(t) + V(xref) + V(Owned)
    BY DEF WalkedCount
  <1> HIDE DEF W, E, V, t
  <1>4. /\ W(t) \in Nat /\ V(t) \in Nat /\ E(t) \in Nat /\ W(t) + E(t) <= V(t)
        /\ W(xref) \in Nat /\ V(xref) \in Nat /\ E(xref) \in Nat /\ W(xref) + E(xref) <= V(xref)
        /\ W(Owned) \in Nat /\ V(Owned) \in Nat /\ E(Owned) \in Nat /\ W(Owned) + E(Owned) <= V(Owned)
    BY <1>1
  <1> QED
    BY <1>2, <1>3, <1>4

-----------------------------------------------------------------------------
(* Each call, made or still to be made, is one for a link of an object that *)
(* was processed, or the one a walk begins with.                            *)
Calls == pushCount + Len(list) + Pending(stack)

FirstWalk == IF Double /\ walks = <<>> THEN 1 + LinkCount ELSE 0

Linear ==
    \/ Fresh
    \/ Calls <= FirstWalk + 1 + WalkedCount(mode, processed)

CountInv == TypeInv /\ WalksKept /\ Linear

LEMMA Numbers ==
    ASSUME TypeInv
    PROVE  /\ pushCount \in Nat /\ Len(list) \in Nat
           /\ LinkCount \in Nat /\ WalkedCount(mode, processed) \in Nat
           /\ FirstWalk \in Nat
  <1>1. pushCount \in Nat /\ list \in Seq(Objects)
    BY Walking
  <1>2. LinkCount \in Nat /\ WalkedCount(mode, processed) \in Nat
    BY DownFinite, WalkedCountNat
  <1>3. FirstWalk \in Nat
    BY <1>2 DEF FirstWalk
  <1> QED
    BY <1>1, <1>2, <1>3, LenProperties

LEMMA PendingNat == ASSUME NEW s \in Seq(AFrame) PROVE Pending(s) \in Nat
  <1>1. PICK f : /\ f[0] = 0 /\ Pending(s) = f[Len(s)]
                 /\ \A n \in 0 .. Len(s) - 1 : f[n + 1] = f[n] + Len(s[n + 1].todo)
    BY PendingIs
  <1>2. \A i \in 1 .. Len(s) : Len(s[i].todo) \in Nat
    <2> SUFFICES ASSUME NEW i \in 1 .. Len(s) PROVE Len(s[i].todo) \in Nat
      OBVIOUS
    <2>1. s[i] \in AFrame
      BY ElementOfSeq
    <2>2. s[i].todo \in Seq(Objects)
      BY <2>1 DEF AFrame
    <2> QED
      BY <2>2, LenProperties
  <1>3. Len(s) \in Nat
    BY LenProperties
  <1> DEFINE D == {n \in Nat : n <= Len(s) => f[n] \in Nat}
  <1>4. 0 \in D
    BY <1>1
  <1>5. ASSUME NEW n \in Nat, n \in D PROVE n + 1 \in D
    <2> SUFFICES ASSUME n + 1 <= Len(s) PROVE f[n + 1] \in Nat
      OBVIOUS
    <2>1. n \in 0 .. Len(s) - 1 /\ n + 1 \in 1 .. Len(s) /\ n <= Len(s)
      BY <1>3
    <2> QED
      BY <2>1, <1>1, <1>2, <1>5
  <1>6. Len(s) \in D
    <2> HIDE DEF D
    <2> QED
      BY <1>3, <1>4, <1>5, NaturalsFromZero
  <1> QED
    BY <1>1, <1>6

LEMMA PendingOfStack == ASSUME TypeInv PROVE Pending(stack) \in Nat
  BY Walking, PendingNat

(* A call that goes no deeper.                                              *)
LEMMA ShallowCount ==
    ASSUME CountInv, TypeInv', Calling, stack' = Rest,
           UNCHANGED <<xref, task, walks, root, mode>>, UNCHANGED <<list, processed>>,
           pushCount' \in {pushCount, pushCount + 1}
    PROVE  CountInv'
  <1>1. TypeInv /\ WalksKept /\ Linear /\ stack # <<>> /\ ~ Fresh
    BY DEF CountInv, Calling, Fresh
  <1>2. WalksKept'
    BY <1>1, SameWalks
  <1>3. Pending(stack) \in Nat \ {0} /\ Pending(stack') = Pending(stack) - 1
    BY <1>1, PendingCall
  <1>4. WalkedCount(mode, processed)' = WalkedCount(mode, processed) /\ FirstWalk' = FirstWalk
    BY DEF WalkedCount, WalkedBy, Ends, ThumbnailLinks, LinkCount, FirstWalk, Double
  <1>5. Calls <= FirstWalk + 1 + WalkedCount(mode, processed)
    BY <1>1 DEF Linear
  <1>6. Calls' <= Calls /\ Calls \in Nat /\ Calls' \in Nat
    BY <1>1, <1>3, Numbers DEF Calls
  <1>7. Linear'
    BY <1>1, <1>4, <1>5, <1>6, Numbers DEF Linear
  <1> QED
    BY <1>2, <1>7 DEF CountInv

LEMMA PushCount == ASSUME CountInv, Push PROVE CountInv'
  <1> DEFINE gathered == list \o Gathered(Object, mode)
             depth == Last(stack).depth - 1
             rel == Len(Gathered(Object, mode))
  <1>1. TypeInv /\ WalksKept /\ Linear /\ stack # <<>> /\ ~ Fresh /\ Calling
    BY DEF CountInv, Push, Calling, Fresh
  <1>2. TypeInv'
    BY <1>1, PushTyped
  <1>3. /\ UNCHANGED <<xref, task, walks, root, mode>> /\ Object \notin processed
        /\ pushCount' = pushCount + 1 /\ processed' = processed \cup {Object}
    BY DEF Push
  <1>4. WalksKept'
    BY <1>1, <1>3, SameWalks
  <1>5. Pending(stack) \in Nat \ {0} /\ Pending(Rest) = Pending(stack) - 1
    BY <1>1, PendingCall
  <1>6. Object \in Objects /\ Rest \in Seq(AFrame)
    BY <1>1, Called
  <1>7. /\ gathered \in Seq(Objects)
        /\ depth \in 0 .. FullDepth
        /\ depth > 0 => /\ list' = <<>> /\ stack' = Append(Rest, Frame(Object, gathered, depth))
                        /\ Frame(Object, gathered, depth) \in AFrame
        /\ depth = 0 => list' = gathered /\ stack' = Rest
    BY <1>1, Pushes
  <1>8. Len(gathered) = Len(list) + rel /\ rel \in Nat
    <2>2. Gathered(Object, mode) \in Seq(Objects)
      BY GatheredIs
    <2>3. list \in Seq(Objects)
      BY <1>1, Walking
    <2> QED
      BY <2>2, <2>3, ConcatProperties, LenProperties
  <1>9. /\ rel \in Nat
        /\ WalkedCount(mode, processed) + rel <= WalkedCount(mode, processed \cup {Object})
    BY <1>1, <1>3, <1>6, WalkedGrows
  <1>10. /\ WalkedCount(mode, processed)' = WalkedCount(mode, processed \cup {Object})
         /\ FirstWalk' = FirstWalk
    BY <1>3 DEF WalkedCount, WalkedBy, Ends, ThumbnailLinks, LinkCount, FirstWalk, Double
  <1> HIDE DEF gathered, depth, rel
  <1>11. Len(list') + Pending(stack') = Len(list) + rel + Pending(stack) - 1
    <2>1. CASE depth > 0
      <3> DEFINE f == Frame(Object, gathered, depth)
      <3>1. stack' = Append(Rest, f) /\ f \in AFrame /\ f.todo = gathered /\ list' = <<>>
        BY <2>1, <1>7 DEF Frame
      <3> HIDE DEF f
      <3>2. /\ stack' \in Seq(AFrame) /\ Len(stack') = Len(Rest) + 1
            /\ \A i \in 1 .. Len(Rest) : stack'[i] = Rest[i]
            /\ stack'[Len(Rest) + 1] = f
        BY <3>1, <1>6, Appended
      <3>3. Pending(stack') = Pending(Rest) + Len(stack'[Len(stack')].todo)
        BY <3>2, <1>6, PendingLast
      <3>4. Len(stack'[Len(stack')].todo) = Len(list) + rel
        BY <3>1, <3>2, <1>8
      <3>5. Len(list') = 0 /\ Len(list) \in Nat
        BY <3>1, <1>1, Numbers
      <3> QED
        BY <3>3, <3>4, <3>5, <1>5, <1>8
    <2>2. CASE depth = 0
      <3>1. list' = gathered /\ stack' = Rest /\ Len(list) \in Nat
        BY <2>2, <1>1, <1>7, Numbers
      <3> QED
        BY <3>1, <1>5, <1>8
    <2> QED
      BY <2>1, <2>2, <1>7, ConstantsAssumption
  <1>12. Calls <= FirstWalk + 1 + WalkedCount(mode, processed)
    BY <1>1 DEF Linear
  <1>13. Calls' = Calls + rel /\ Calls \in Nat
    <2>1. Len(list') \in Nat /\ Pending(stack') \in Nat
      <3>1. list' \in Seq(Objects) /\ stack' \in Seq(AFrame)
        BY <1>2 DEF TypeInv, TypeOK, AFrame
      <3> QED
        BY <3>1, LenProperties, PendingNat
    <2>2. Len(list) \in Nat /\ pushCount \in Nat
      BY <1>1, Numbers
    <2>3. Calls' = pushCount + 1 + (Len(list') + Pending(stack'))
      BY <2>1, <2>2, <1>3 DEF Calls
    <2> QED
      BY <2>2, <2>3, <1>5, <1>8, <1>11 DEF Calls
  <1>14. Linear'
    <2>1. WalkedCount(mode, processed \cup {Object}) \in Nat
      BY WalkedCountNat
    <2>2. Calls' <= FirstWalk + 1 + WalkedCount(mode, processed \cup {Object})
      BY <2>1, <1>1, <1>9, <1>12, <1>13, Numbers
    <2> QED
      BY <2>2, <1>10 DEF Linear
  <1> QED
    BY <1>2, <1>4, <1>14 DEF CountInv

LEMMA ReturnCount == ASSUME CountInv, Return PROVE CountInv'
  <1>1. TypeInv /\ WalksKept /\ Linear /\ stack # <<>> /\ ~ Fresh /\ ~ Calling
    BY DEF CountInv, Return, Fresh
  <1>2. TypeInv'
    BY <1>1, ReturnTyped
  <1>3. /\ UNCHANGED <<xref, task, walks, root, mode>> /\ UNCHANGED <<pushCount, list, processed>>
        /\ stack' = Front(stack)
    BY DEF Return
  <1>4. WalksKept'
    BY <1>1, <1>3, SameWalks
  <1>5. Pending(stack') = Pending(stack)
    BY <1>1, <1>3, PendingReturn
  <1>6. WalkedCount(mode, processed)' = WalkedCount(mode, processed) /\ FirstWalk' = FirstWalk
    BY <1>3 DEF WalkedCount, WalkedBy, Ends, ThumbnailLinks, LinkCount, FirstWalk, Double
  <1>7. Calls' = Calls
    BY <1>3, <1>5 DEF Calls
  <1>8. Linear'
    BY <1>1, <1>6, <1>7 DEF Linear
  <1> QED
    BY <1>2, <1>4, <1>8 DEF CountInv

LEMMA StartWalkCount == ASSUME CountInv, StartWalk PROVE CountInv'
  <1>1. TypeInv /\ WalksKept /\ Linear
    BY DEF CountInv
  <1>2. TypeInv'
    BY <1>1, StartWalkTyped
  <1>3. stack = <<>> /\ UNCHANGED <<xref, task>>
    BY DEF StartWalk
  <1>4. /\ WalksKept'
        /\ stack' = <<Frame(None, <<root'>>, Depth + 1)>> /\ processed' = {}
        /\ Single => /\ Fresh /\ root' = root /\ walks' = <<>> /\ mode' = ModeFor
        /\ Double => /\ root' = root
                     /\ \/ Fresh /\ walks' # <<>> /\ mode' = "eAncestors"
                        \/ walks # <<>> /\ walks' = <<>> /\ mode = "eAncestors" /\ mode' = "eDescendents"
        /\ ~ (task = "full") => UNCHANGED <<added, list, valid, acyclic, pushCount>>
        /\ task = "full" => /\ added' = {} /\ list' = <<>> /\ valid' = TRUE /\ acyclic' = TRUE
                            /\ pushCount' = 0
    BY <1>1, WalkBegins
  <1>5. Pending(stack') = 1
    <2> DEFINE f == Frame(None, <<root'>>, Depth + 1)
    <2>1. stack' = <<f>> /\ f.todo = <<root'>>
      BY <1>4 DEF Frame
    <2> HIDE DEF f
    <2>2. stack' \in Seq(AFrame)
      BY <1>2 DEF TypeInv, TypeOK, AFrame
    <2>3. Len(stack') = 1 /\ stack'[1] = f
      BY <2>1
    <2>4. <<>> \in Seq(AFrame) /\ Len(<<>>) = 0
      BY EmptySeq
    <2>5. Len(stack') = Len(<<>>) + 1 /\ \A i \in 1 .. Len(<<>>) : stack'[i] = (<<>>)[i]
      BY <2>3, <2>4
    <2>6. Pending(stack') = Pending(<<>>) + Len(stack'[Len(stack')].todo)
      BY <2>2, <2>4, <2>5, PendingLast
    <2>7. Len(stack'[Len(stack')].todo) = 1
      BY <2>1, <2>3
    <2> QED
      BY <2>6, <2>7, PendingNone
  <1>6. /\ WalkedCount(mode, processed)' \in Nat /\ FirstWalk' \in Nat
        /\ WalkedCount(mode, processed) \in Nat /\ FirstWalk \in Nat
        /\ LinkCount \in Nat /\ pushCount \in Nat /\ Len(list) \in Nat
    <2>1. /\ WalkedCount(mode, processed) \in Nat /\ FirstWalk \in Nat
          /\ LinkCount \in Nat /\ pushCount \in Nat /\ Len(list) \in Nat
      BY <1>1, Numbers
    <2>2. WalkedCount(mode', processed') \in Nat
      BY WalkedCountNat
    <2>3. WalkedCount(mode, processed)' = WalkedCount(mode', processed')
      BY <1>3 DEF WalkedCount, WalkedBy, Ends, ThumbnailLinks
    <2>4. LinkCount' = LinkCount
      BY <1>3 DEF LinkCount
    <2>5. FirstWalk' \in Nat
      BY <2>1, <2>4 DEF FirstWalk
    <2> QED
      BY <2>1, <2>2, <2>3, <2>5
  <1>7. CASE Fresh \/ task = "full"
    <2>1. pushCount' = 0 /\ list' = <<>>
      BY <1>4, <1>7 DEF Fresh
    <2>2. Calls' = 1
      BY <2>1, <1>5 DEF Calls
    <2> QED
      BY <2>2, <1>2, <1>4, <1>6 DEF CountInv, Linear
  <1>8. CASE ~ Fresh /\ task # "full"
    <2>1. /\ Double /\ walks # <<>> /\ walks' = <<>> /\ mode = "eAncestors"
          /\ UNCHANGED <<list, pushCount>>
      BY <1>1, <1>4, <1>8, OneOfTasks
    <2>2. FirstWalk = 0 /\ FirstWalk' = 1 + LinkCount
      BY <2>1, <1>3 DEF FirstWalk, Double, LinkCount
    <2>3. Calls <= 1 + WalkedCount(mode, processed) /\ Calls = pushCount + Len(list)
      BY <2>2, <1>1, <1>3, <1>6, <1>8, PendingNone DEF Linear, Calls
    <2>4. WalkedCount(mode, processed) <= LinkCount
      BY <1>1, WalkedBound
    <2>5. Calls' = pushCount + Len(list) + 1
      BY <2>1, <1>5 DEF Calls
    <2>6. Linear'
      BY <2>2, <2>3, <2>4, <2>5, <1>6 DEF Linear
    <2> QED
      BY <2>6, <1>2, <1>4 DEF CountInv
  <1> QED
    BY <1>7, <1>8

LEMMA NextCount == CountInv /\ [Next]_vars => CountInv'
  <1> SUFFICES ASSUME CountInv, [Next]_vars PROVE CountInv'
    OBVIOUS
  <1>1. TypeInv' /\ WalksKept'
    BY NextTyped, NextWalks DEF CountInv
  <1>2. CASE DetectCycle \/ GiveUp \/ ShortCircuit \/ PushAgain
    <2>1. /\ Calling /\ stack' = Rest
          /\ UNCHANGED <<xref, task, walks, root, mode>> /\ UNCHANGED <<list, processed>>
          /\ pushCount' \in {pushCount, pushCount + 1}
      BY <1>2 DEF DetectCycle, GiveUp, ShortCircuit, PushAgain
    <2> QED
      BY <2>1, <1>1, ShallowCount
  <1>3. CASE ApplyGraphData \/ UNCHANGED vars
    <2>1. UNCHANGED walkVars /\ UNCHANGED <<xref, task>>
      BY <1>3 DEF ApplyGraphData, ApplySelf, ApplyToChild, ApplyToParent, EndApply, vars
    <2>2. /\ WalkedCount(mode, processed)' = WalkedCount(mode, processed) /\ FirstWalk' = FirstWalk
          /\ Calls' = Calls /\ Fresh' = Fresh
      BY <2>1 DEF WalkedCount, WalkedBy, Ends, ThumbnailLinks, LinkCount, FirstWalk, Double, Calls, Fresh, walkVars
    <2> QED
      BY <2>2, <1>1 DEF CountInv, Linear
  <1> QED
    BY <1>2, <1>3, PushCount, ReturnCount, StartWalkCount DEF Next, FetchWorker

LEMMA CountsLinear == CountInv => WalkIsLinear
  <1> SUFFICES ASSUME CountInv PROVE WalkIsLinear
    OBVIOUS
  <1> DEFINE ms == {w \in Modes : task \in {"all", "index"} \/ w = mode}
             D == LinkCount
             W == WalkedCount(mode, processed)
  <1>1. TypeInv /\ WalksKept /\ Linear
    BY DEF CountInv
  <1>2. mode \in Modes /\ Modes = {"eAncestors", "eDescendents"}
    BY <1>1, Walking DEF Modes
  <1>3. W <= D /\ W \in Nat /\ D \in Nat /\ FirstWalk \in Nat /\ pushCount \in Nat /\ Len(list) \in Nat
    BY <1>1, WalkedBound, Numbers
  <1>4. Pending(stack) \in Nat
    BY <1>1, PendingOfStack
  <1>5. pushCount <= FirstWalk + 1 + D
    <2>1. CASE Fresh
      BY <2>1, <1>3 DEF Fresh
    <2>2. CASE ~ Fresh
      <3>1. Calls <= FirstWalk + 1 + W
        BY <2>2, <1>1 DEF Linear
      <3> HIDE DEF W, D
      <3> QED
        BY <3>1, <1>3, <1>4 DEF Calls
    <2> QED
      BY <2>1, <2>2
  <1>6. CASE Double
    <2>1. ms = {"eAncestors"} \cup {"eDescendents"}
      BY <1>2, <1>6 DEF Double
    <2>2. Cardinality(ms) = 2
      <3>1. IsFiniteSet({"eAncestors"}) /\ Cardinality({"eAncestors"}) = 1
        BY FS_Singleton
      <3>2. "eDescendents" \notin {"eAncestors"}
        OBVIOUS
      <3> HIDE DEF ms
      <3> QED
        BY <2>1, <3>1, <3>2, FS_AddElement
    <2>3. FirstWalk <= 1 + D
      BY <1>3 DEF FirstWalk
    <2>4. pushCount <= 2 * (1 + D)
      <3> HIDE DEF D
      <3> QED
        BY <2>3, <1>3, <1>5
    <2> QED
      BY <2>2, <2>4 DEF WalkIsLinear
  <1>7. CASE ~ Double
    <2>1. ms = {mode}
      BY <1>2, <1>7 DEF Double
    <2>2. Cardinality(ms) = 1
      <3> HIDE DEF ms
      <3> QED
        BY <2>1, FS_Singleton
    <2>3. FirstWalk = 0
      BY <1>7 DEF FirstWalk
    <2>4. pushCount <= 1 * (1 + D)
      <3> HIDE DEF D
      <3> QED
        BY <2>3, <1>3, <1>5
    <2> QED
      BY <2>2, <2>4 DEF WalkIsLinear
  <1> QED
    BY <1>6, <1>7

LEMMA InitCount == Init => CountInv
  BY InitTyped, InitWalks DEF CountInv, Linear, Init, Fresh

(* A walk takes one call of fetchWorker for each link it meets, two for one *)
(* that is both an owner's and a thumbnail's, whatever cycles and diamonds  *)
(* the links form, and even where the depth allowed cuts it short           *)
(* (ObjectGraph.fetchWorker, systemObjectList).                             *)
THEOREM WalkIsLinearAlways == Spec => []WalkIsLinear
  <1> QED
    BY InitCount, NextCount, CountsLinear, PTL DEF Spec

-----------------------------------------------------------------------------
(* The stack of a walk that may go as deep as it needs to.                  *)

AllLinks == Xrefs \cup Owned \cup Thumbnails

(* No chain of objects is longer than the depth that is passed.             *)
ShortPaths ==
    \A s \in Seq(Objects) :
        /\ IsInjective(s)
        /\ \/ \A i \in 1 .. Len(s) - 1 : <<s[i], s[i + 1]>> \in AllLinks
           \/ \A i \in 1 .. Len(s) - 1 : <<s[i + 1], s[i]>> \in AllLinks
        => Len(s) <= FullDepth

(* A frame has links of its object to take, and no object has two frames.   *)
FramesKept(st, m, ps) ==
    /\ \A i \in 2 .. Len(st) :
          /\ st[i].source \in ps
          /\ ToSet(st[i].todo) \subseteq Related(st[i].source, m)
    /\ \A i, j \in 2 .. Len(st) : st[i].source = st[j].source => i = j

(* The links that are still to be taken.                                    *)
Open(st, o, x) == \E i \in 2 .. Len(st) : st[i].source = o /\ x \in ToSet(st[i].todo)

(* The links a walk leads along, from an object to what it is related to.   *)
LinksOf(m) == IF m = "eDescendents" THEN Down ELSE Inverted(Up)

(* The call for the object a walk begins with comes first, and is alone.    *)
FirstKept ==
    stack # <<>> =>
        /\ stack[1].source = None
        /\ \/ stack[1].todo = <<>>
           \/ stack[1].todo = <<root>> /\ Len(stack) = 1 /\ processed = {}

(* The objects of the frames form a path.                                   *)
PathKept ==
    /\ \A i \in 1 .. Len(stack) : stack[i].depth = FullDepth + 2 - i
    /\ \A i \in 2 .. Len(stack) - 1 : stack[i + 1].source \in Related(stack[i].source, mode)

StackKept ==
    /\ list = <<>>
    /\ FirstKept
    /\ PathKept
    /\ FramesKept(stack, mode, processed)
    /\ processed \subseteq {root} \cup Reach(root, LinksOf(mode))

DeepInv == TypeInv /\ WalksKept /\ (task # "children" => StackKept)

LEMMA LinksOfIs ==
    ASSUME TypeInv, NEW m
    PROVE  /\ LinksOf(m) \in SUBSET (Objects \X Objects)
           /\ \A o, x \in Objects : <<o, x>> \in LinksOf(m) <=> x \in Related(o, m)
  <1>1. Down \in SUBSET (Objects \X Objects) /\ Up \in SUBSET (Objects \X Objects)
    BY DownFinite
  <1>2. /\ Inverted(Up) \in SUBSET (Objects \X Objects)
        /\ \A a, b : <<a, b>> \in Inverted(Up) <=> <<b, a>> \in Up
    BY <1>1, InvertedTyped
  <1> QED
    BY <1>1, <1>2 DEF LinksOf, Related, Ends

(* What is related to the object, or to what it reaches, is reached.        *)
LEMMA RelatedReached ==
    ASSUME TypeInv, NEW m, NEW o \in Objects, NEW x \in {o} \cup Reach(o, LinksOf(m)), NEW y \in Related(x, m)
    PROVE  y \in Objects /\ y \in Reach(o, LinksOf(m))
  <1>1. LinksOf(m) \in SUBSET (Objects \X Objects) /\ y \in Objects
    BY LinksOfIs, RelatedTyped
  <1>2. Reach(o, LinksOf(m)) \in SUBSET Objects
    BY <1>1, ReachIsLeast
  <1>3. <<x, y>> \in LinksOf(m) /\ <<x, y>>[1] = x /\ <<x, y>>[2] = y
    BY <1>1, <1>2, LinksOfIs
  <1> QED
    BY <1>1, <1>3, ReachIsLeast

(* A set that holds the object, and what is related to each of its members, *)
(* holds all that is reached.                                               *)
LEMMA ReachWithin ==
    ASSUME TypeInv, NEW m, NEW o \in Objects, NEW S \in SUBSET Objects, o \in S,
           \A x \in S : Related(x, m) \subseteq S
    PROVE  Reach(o, LinksOf(m)) \subseteq S
  <1>1. LinksOf(m) \in SUBSET (Objects \X Objects)
    BY LinksOfIs
  <1>2. ASSUME NEW l \in LinksOf(m), l[1] = o \/ l[1] \in S PROVE l[2] \in S
    <2>1. l = <<l[1], l[2]>> /\ l[1] \in Objects /\ l[2] \in Objects
      BY <1>1
    <2>2. l[2] \in Related(l[1], m)
      BY <2>1, LinksOfIs
    <2> QED
      BY <2>2, <1>2
  <1> QED
    BY <1>1, <1>2, ReachIsLeast

-----------------------------------------------------------------------------
(* What each kind of step does to the frames.                               *)

(* The call for the object the walk begins with.                            *)
LEMMA FirstCall ==
    ASSUME TypeInv, Calling, FirstKept, Len(stack) = 1
    PROVE  /\ RelatedType = None /\ Object = root /\ processed = {}
           /\ stack[1].todo = <<root>>
           /\ Rest[1].source = None /\ Rest[1].todo = <<>> /\ Rest # <<>> /\ Len(Rest) = 1
           /\ \A m, ps : FramesKept(Rest, m, ps)
           /\ \A o, x : ~ Open(stack, o, x) /\ ~ Open(Rest, o, x)
  <1>1. /\ Last(stack) = stack[1] /\ Len(Rest) = 1 /\ Rest \in Seq(AFrame)
        /\ Rest[1] = [source |-> RelatedType, todo |-> Tail(Last(stack).todo), depth |-> Last(stack).depth]
    BY Called
  <1>2. stack # <<>> /\ Last(stack).todo # <<>>
    BY DEF Calling
  <1>3. stack[1].source = None /\ stack[1].todo = <<root>> /\ processed = {}
    BY <1>1, <1>2 DEF FirstKept
  <1>4. RelatedType = None /\ Object = root /\ Tail(Last(stack).todo) = <<>>
    BY <1>1, <1>3 DEF RelatedType, Object
  <1>5. \A i \in 2 .. 1 : FALSE
    OBVIOUS
  <1>6. /\ \A m, ps : FramesKept(Rest, m, ps)
        /\ \A o, x : ~ Open(stack, o, x) /\ ~ Open(Rest, o, x)
    BY <1>1, <1>5 DEF FramesKept, Open
  <1>7. Len(Rest) = 1 /\ Len(<<>>) = 0
    BY <1>1
  <1>8. Rest # <<>>
    BY <1>7
  <1> QED
    BY <1>1, <1>3, <1>4, <1>6, <1>8

(* The call for an object that is related to another one.                   *)
LEMMA LaterCall ==
    ASSUME TypeInv, Calling, NEW m, NEW ps, FramesKept(stack, m, ps), Len(stack) # 1
    PROVE  /\ Len(stack) >= 2 /\ Len(stack) \in Nat
           /\ RelatedType \in ps /\ Object \in Related(RelatedType, m)
           /\ FramesKept(Rest, m, ps)
           /\ Rest # <<>> /\ Len(Rest) = Len(stack) /\ Rest[1] = stack[1]
           /\ Open(stack, RelatedType, Object)
           /\ \A o, x : Open(Rest, o, x) => Open(stack, o, x)
           /\ \A o, x : Open(stack, o, x) => Open(Rest, o, x) \/ (o = RelatedType /\ x = Object)
           /\ \A i \in 1 .. Len(stack) : /\ Rest[i].source = stack[i].source
                                         /\ Rest[i].depth = stack[i].depth
  <1> DEFINE n == Len(stack)
             f == Last(stack)
             g == [source |-> RelatedType, todo |-> Tail(f.todo), depth |-> f.depth]
  <1>1. /\ n \in Nat \ {0} /\ f = stack[n] /\ f \in AFrame
        /\ Rest \in Seq(AFrame) /\ Len(Rest) = n
        /\ \A i \in 1 .. n - 1 : Rest[i] = stack[i]
        /\ Rest[n] = g
    BY Called
  <1>2. n >= 2 /\ n \in 2 .. n /\ 1 \in 1 .. n - 1 /\ \A i \in 1 .. n : i # n => i \in 1 .. n - 1
    BY <1>1
  <1>3. f.todo # <<>> /\ f.todo \in Seq(Objects)
    BY <1>1 DEF Calling, AFrame
  <1>4. RelatedType = f.source /\ Object = Head(f.todo)
    BY DEF RelatedType, Object
  <1>5. /\ f.source \in ps /\ ToSet(f.todo) \subseteq Related(f.source, m)
    BY <1>1, <1>2 DEF FramesKept
  <1>6. ToSet(f.todo) = {Object} \cup ToSet(Tail(f.todo))
    BY <1>3, <1>4, HeadAndTail
  <1>7. g.source = f.source /\ g.todo = Tail(f.todo) /\ g.depth = f.depth
    BY <1>4
  <1>8. \A i, j \in 2 .. n : stack[i].source = stack[j].source => i = j
    BY DEF FramesKept
  <1>9. \A i \in 1 .. n : Rest[i].source = stack[i].source /\ Rest[i].depth = stack[i].depth
    BY <1>1, <1>2, <1>7
  <1> HIDE DEF g, f, n
  <1>10. FramesKept(Rest, m, ps)
    <2>1. ASSUME NEW i \in 2 .. n
          PROVE  /\ Rest[i].source \in ps
                 /\ ToSet(Rest[i].todo) \subseteq Related(Rest[i].source, m)
      <3>1. CASE i = n
        BY <3>1, <1>1, <1>5, <1>6, <1>7
      <3>2. CASE i # n
        <4>1. Rest[i] = stack[i]
          BY <3>2, <1>1, <1>2
        <4> QED
          BY <4>1 DEF FramesKept, n
      <3> QED
        BY <3>1, <3>2
    <2>2. \A i, j \in 2 .. n : i \in 1 .. n /\ j \in 1 .. n
      BY <1>1
    <2>3. \A i, j \in 2 .. n : Rest[i].source = Rest[j].source => i = j
      BY <2>2, <1>8, <1>9
    <2> QED
      BY <2>1, <2>3, <1>1 DEF FramesKept
  <1>11. Open(stack, RelatedType, Object)
    BY <1>1, <1>2, <1>4, <1>6 DEF Open, n
  <1>12. ASSUME NEW o, NEW x, Open(Rest, o, x) PROVE Open(stack, o, x)
    <2>1. PICK i \in 2 .. n : Rest[i].source = o /\ x \in ToSet(Rest[i].todo)
      BY <1>12, <1>1 DEF Open
    <2>2. CASE i = n
      BY <2>1, <2>2, <1>1, <1>2, <1>6, <1>7 DEF Open, n
    <2>3. CASE i # n
      BY <2>1, <2>3, <1>1, <1>2 DEF Open, n
    <2> QED
      BY <2>2, <2>3
  <1>14. ASSUME NEW o, NEW x, Open(stack, o, x), ~ (o = RelatedType /\ x = Object) PROVE Open(Rest, o, x)
    <2>1. PICK i \in 2 .. n : stack[i].source = o /\ x \in ToSet(stack[i].todo)
      BY <1>14 DEF Open, n
    <2>2. CASE i = n
      <3>1. o = RelatedType /\ x \in ToSet(Tail(f.todo))
        BY <2>1, <2>2, <1>14, <1>1, <1>4, <1>6
      <3> QED
        BY <3>1, <1>1, <1>2, <1>4, <1>7 DEF Open
    <2>3. CASE i # n
      <3>1. Rest[i] = stack[i]
        BY <2>3, <1>1, <1>2
      <3> QED
        BY <2>1, <3>1, <1>1 DEF Open
    <2> QED
      BY <2>2, <2>3
  <1>13. Rest # <<>>
    BY <1>1, EmptySeq
  <1> QED
    BY <1>1, <1>2, <1>4, <1>5, <1>6, <1>9, <1>10, <1>11, <1>12, <1>13, <1>14 DEF n

(* A frame is added for a new object, with all its links to take.           *)
LEMMA FrameAdded ==
    ASSUME NEW s \in Seq(AFrame), s # <<>>, NEW m, NEW ps, FramesKept(s, m, ps),
           NEW f \in AFrame, f.source \notin ps,
           ToSet(f.todo) = Related(f.source, m)
    PROVE  /\ FramesKept(Append(s, f), m, ps \cup {f.source})
           /\ \A o, x : Open(Append(s, f), o, x) <=> \/ Open(s, o, x)
                                                     \/ o = f.source /\ x \in Related(o, m)
  <1> DEFINE t == Append(s, f)
             n == Len(s) + 1
  <1>1. /\ t \in Seq(AFrame) /\ Len(t) = n /\ Len(s) \in Nat \ {0}
        /\ \A i \in 1 .. Len(s) : t[i] = s[i]
        /\ t[n] = f
    BY Appended, EmptySeq
  <1>2. n \in 2 .. n /\ \A i \in 2 .. n : i # n => i \in 1 .. Len(s) /\ i \in 2 .. Len(s)
    BY <1>1
  <1>3. \A i \in 2 .. Len(s) : t[i] = s[i] /\ i \in 2 .. n /\ i # n
    BY <1>1
  <1> HIDE DEF t, n
  <1>4. FramesKept(t, m, ps \cup {f.source})
    <2>1. ASSUME NEW i \in 2 .. n
          PROVE  /\ t[i].source \in ps \cup {f.source}
                 /\ ToSet(t[i].todo) \subseteq Related(t[i].source, m)
      <3>1. CASE i = n
        BY <3>1, <1>1
      <3>2. CASE i # n
        <4>1. t[i] = s[i] /\ i \in 2 .. Len(s)
          BY <3>2, <1>1, <1>2
        <4> QED
          BY <4>1 DEF FramesKept
      <3> QED
        BY <3>1, <3>2
    <2>2. ASSUME NEW i \in 2 .. n, NEW j \in 2 .. n, t[i].source = t[j].source PROVE i = j
      <3>1. \A k \in 2 .. Len(s) : t[k].source = s[k].source /\ s[k].source # f.source
        BY <1>3 DEF FramesKept
      <3>2. CASE i # n /\ j # n
        <4>1. i \in 2 .. Len(s) /\ j \in 2 .. Len(s)
          BY <3>2, <1>2
        <4> QED
          BY <4>1, <3>1, <2>2 DEF FramesKept
      <3>3. CASE i # n /\ j = n
        BY <3>1, <3>3, <2>2, <1>1, <1>2
      <3>4. CASE i = n /\ j # n
        BY <3>1, <3>4, <2>2, <1>1, <1>2
      <3> QED
        BY <3>2, <3>3, <3>4
    <2> QED
      BY <2>1, <2>2, <1>1 DEF FramesKept
  <1>5. ASSUME NEW o, NEW x
        PROVE  Open(t, o, x) <=> Open(s, o, x) \/ (o = f.source /\ x \in Related(o, m))
    <2>1. ASSUME Open(t, o, x) PROVE Open(s, o, x) \/ (o = f.source /\ x \in Related(o, m))
      <3>1. PICK i \in 2 .. n : t[i].source = o /\ x \in ToSet(t[i].todo)
        BY <2>1, <1>1 DEF Open
      <3>2. CASE i = n
        BY <3>1, <3>2, <1>1
      <3>3. CASE i # n
        <4>1. t[i] = s[i] /\ i \in 2 .. Len(s)
          BY <3>3, <1>1, <1>2
        <4> QED
          BY <3>1, <4>1 DEF Open
      <3> QED
        BY <3>2, <3>3
    <2>2. ASSUME Open(s, o, x) PROVE Open(t, o, x)
      <3>1. PICK i \in 2 .. Len(s) : s[i].source = o /\ x \in ToSet(s[i].todo)
        BY <2>2 DEF Open
      <3> QED
        BY <3>1, <1>1, <1>3 DEF Open
    <2>3. ASSUME o = f.source, x \in Related(o, m) PROVE Open(t, o, x)
      BY <2>3, <1>1, <1>2 DEF Open
    <2> QED
      BY <2>1, <2>2, <2>3
  <1> QED
    BY <1>4, <1>5 DEF t

(* A frame that has taken all its links is removed.                         *)
LEMMA FrameRemoved ==
    ASSUME TypeInv, stack # <<>>, ~ Calling, NEW m, NEW ps, FramesKept(stack, m, ps)
    PROVE  /\ FramesKept(Front(stack), m, ps)
           /\ \A o, x : Open(Front(stack), o, x) <=> Open(stack, o, x)
  <1> DEFINE n == Len(stack)
             t == Front(stack)
  <1>1. /\ n \in Nat \ {0} /\ Last(stack) = stack[n]
        /\ t \in Seq(AFrame) /\ Len(t) = n - 1 /\ \A i \in 1 .. n - 1 : t[i] = stack[i]
    BY Returned
  <1>2. ToSet(stack[n].todo) = {}
    <2>1. stack[n].todo = <<>>
      BY <1>1 DEF Calling
    <2> QED
      BY <2>1 DEF ToSet
  <1>3. \A i \in 2 .. n - 1 : t[i] = stack[i] /\ i \in 2 .. n
    BY <1>1
  <1>4. \A i \in 2 .. n : i # n => i \in 2 .. n - 1
    BY <1>1
  <1> HIDE DEF t
  <1>5. FramesKept(t, m, ps)
    <2>1. /\ \A i \in 2 .. n - 1 :
                /\ stack[i].source \in ps
                /\ ToSet(stack[i].todo) \subseteq Related(stack[i].source, m)
          /\ \A i, j \in 2 .. n - 1 : stack[i].source = stack[j].source => i = j
      BY <1>3 DEF FramesKept
    <2> QED
      BY <2>1, <1>1, <1>3 DEF FramesKept
  <1>6. \A o, x : Open(t, o, x) <=> Open(stack, o, x)
    <2> HIDE DEF n
    <2>1. \A o, x : Open(stack, o, x) <=> \E i \in 2 .. n : stack[i].source = o /\ x \in ToSet(stack[i].todo)
      BY DEF Open, n
    <2>2. \A o, x : Open(t, o, x) <=> \E i \in 2 .. n - 1 : t[i].source = o /\ x \in ToSet(t[i].todo)
      BY <1>1 DEF Open
    <2> QED
      BY <2>1, <2>2, <1>2, <1>3, <1>4
  <1> QED
    BY <1>5, <1>6 DEF t

-----------------------------------------------------------------------------
(* The depth that is passed is never used up.                               *)

LEMMA SameLinks ==
    ASSUME UNCHANGED xref
    PROVE  /\ \A x, m : Related(x, m)' = Related(x, m)
           /\ \A m : LinksOf(m)' = LinksOf(m)
           /\ Down' = Down /\ Up' = Up
  <1>1. Down' = Down /\ Up' = Up
    BY DEF Down, Up
  <1>2. \A x, m : Related(x, m)' = Related(x, m)
    BY <1>1 DEF Related, Ends
  <1>3. \A m : LinksOf(m)' = LinksOf(m)
    BY <1>1 DEF LinksOf, Inverted
  <1> QED
    BY <1>1, <1>2, <1>3

LEMMA NoFrames ==
    ASSUME NEW s, Len(s) = 0 \/ Len(s) = 1, NEW m, NEW ps
    PROVE  FramesKept(s, m, ps) /\ \A o, x : ~ Open(s, o, x)
  <1> DEFINE n == Len(s)
  <1>0. n = 0 \/ n = 1
    OBVIOUS
  <1> HIDE DEF n
  <1>1. \A i \in 2 .. n : FALSE
    BY <1>0
  <1> QED
    BY <1>1 DEF FramesKept, Open, n

LEMMA SameFrames ==
    ASSUME UNCHANGED xref, NEW s, NEW m, NEW ps, FramesKept(s, m, ps),
           stack' = s, mode' = m, processed' = ps
    PROVE  FramesKept(stack, mode, processed)'
  <1>1. \A x : Related(x, m)' = Related(x, m)
    BY SameLinks
  <1> QED
    BY <1>1 DEF FramesKept

(* The objects of the frames and the object a call is for form a chain.     *)
LEMMA NotTooDeep ==
    ASSUME TypeInv, StackKept, ShortPaths, Calling, Object \notin processed
    PROVE  Len(stack) \in 1 .. FullDepth
  <1> DEFINE n == Len(stack)
             p == [i \in 1 .. n |-> IF i < n THEN stack[i + 1].source ELSE Object]
  <1>1. /\ n \in Nat \ {0} /\ Last(stack) = stack[n] /\ Object \in Objects /\ FullDepth \in Nat \ {0}
        /\ stack \in Seq(AFrame)
    BY Called, Walking, ConstantsAssumption
  <1>2. CASE n = 1
    BY <1>1, <1>2
  <1>3. CASE n # 1
    <2>1. FramesKept(stack, mode, processed) /\ PathKept /\ processed \subseteq Objects
      BY Walking DEF StackKept
    <2>2. RelatedType = stack[n].source /\ Object \in Related(RelatedType, mode) /\ n >= 2
      BY <1>1, <1>3, <2>1, LaterCall DEF RelatedType
    <2>3. \A i \in 2 .. n : stack[i].source \in processed
      BY <2>1 DEF FramesKept
    <2>4. \A i, j \in 2 .. n : stack[i].source = stack[j].source => i = j
      BY <2>1 DEF FramesKept
    <2>5. \A i \in 2 .. n - 1 : stack[i + 1].source \in Related(stack[i].source, mode)
      BY <2>1 DEF PathKept
    <2> HIDE DEF n
    <2>6. \A i \in 1 .. n - 1 : i \in 1 .. n /\ i < n /\ i + 1 \in 2 .. n
      BY <1>1
    <2>7. \A i \in 1 .. n - 1 : p[i] = stack[i + 1].source
      BY <2>6
    <2>8. p[n] = Object
      BY <1>1
    <2> DEFINE q == p
    <2>9. DOMAIN q = 1 .. n
      OBVIOUS
    <2>10. q \in Seq(Objects) /\ Len(q) = n
      <3>1. \A i \in 1 .. n : p[i] \in Objects
        <4> SUFFICES ASSUME NEW i \in 1 .. n PROVE p[i] \in Objects
          OBVIOUS
        <4>1. CASE i = n
          BY <4>1, <2>8, <1>1
        <4>2. CASE i # n
          <5>1. i \in 1 .. n - 1
            BY <4>2, <1>1
          <5> QED
            BY <5>1, <2>7, <2>6, <2>3, <2>1
        <4> QED
          BY <4>1, <4>2
      <3>2. p \in [1 .. n -> Objects]
        BY <3>1
      <3> HIDE DEF p
      <3> QED
        BY <3>2, <1>1, SeqDef, LenProperties
    <2> HIDE DEF p
    <2>11. IsInjective(q)
      <3> SUFFICES ASSUME NEW a \in 1 .. n, NEW b \in 1 .. n, q[a] = q[b] PROVE a = b
        BY <2>9 DEF IsInjective
      <3>1. \A i \in 1 .. n : i # n => i \in 1 .. n - 1 /\ i + 1 \in 2 .. n /\ q[i] = stack[i + 1].source
        BY <2>6, <2>7, <1>1
      <3>2. \A i \in 1 .. n : i # n => q[i] # Object
        BY <3>1, <2>3
      <3>3. CASE a # n /\ b # n
        <4>1. stack[a + 1].source = stack[b + 1].source /\ a + 1 \in 2 .. n /\ b + 1 \in 2 .. n
          BY <3>1, <3>3
        <4>2. a + 1 = b + 1
          BY <4>1, <2>4
        <4> QED
          BY <4>2, <1>1
      <3> QED
        BY <3>2, <3>3, <2>8
    <2>12. ASSUME NEW i \in 1 .. n - 1 PROVE q[i + 1] \in Related(q[i], mode)
      <3>1. CASE i = n - 1
        <4>1. i + 1 = n
          BY <3>1, <1>1
        <4> QED
          BY <4>1, <2>2, <2>7, <2>8
      <3>2. CASE i # n - 1
        <4>1. i + 1 \in 1 .. n - 1 /\ i + 1 \in 2 .. n - 1
          BY <3>2, <1>1
        <4>2. q[i + 1] = stack[i + 1 + 1].source /\ q[i] = stack[i + 1].source
          BY <4>1, <2>7
        <4> QED
          BY <4>1, <4>2, <2>5
      <3> QED
        BY <3>1, <3>2
    <2>13. Down \subseteq AllLinks /\ Up \subseteq AllLinks
      BY Walking DEF Down, Up, AllLinks, TypeInv, TypeOK
    <2>14. \/ \A i \in 1 .. n - 1 : <<q[i], q[i + 1]>> \in AllLinks
           \/ \A i \in 1 .. n - 1 : <<q[i + 1], q[i]>> \in AllLinks
      <3>1. CASE mode = "eDescendents"
        BY <3>1, <2>12, <2>13 DEF Related, Ends
      <3>2. CASE mode # "eDescendents"
        BY <3>2, <2>12, <2>13 DEF Related, Ends
      <3> QED
        BY <3>1, <3>2
    <2>15. Len(q) <= FullDepth
      BY <2>10, <2>11, <2>14 DEF ShortPaths
    <2> QED
      BY <2>10, <2>15, <1>1 DEF n
  <1> QED
    BY <1>2, <1>3

(* So what is gathered for an object is taken next.                         *)
LEMMA DeepPush ==
    ASSUME DeepInv, task # "children", ShortPaths, Push
    PROVE  \E f \in AFrame :
              /\ f.source = Object /\ f.depth = FullDepth + 1 - Len(stack)
              /\ ToSet(f.todo) = Related(Object, mode)
              /\ stack' = Append(Rest, f) /\ list' = <<>>
  <1> DEFINE gathered == list \o Gathered(Object, mode)
             depth == Last(stack).depth - 1
             n == Len(stack)
  <1>1. TypeInv /\ StackKept /\ Calling /\ Object \notin processed
    BY DEF DeepInv, Push
  <1>2. n \in 1 .. FullDepth /\ FullDepth \in Nat
    BY <1>1, NotTooDeep, ConstantsAssumption
  <1>3. Last(stack) = stack[n] /\ n \in 1 .. n
    BY <1>1, <1>2, Called
  <1>4. depth = FullDepth + 1 - n /\ depth > 0
    <2>1. stack[n].depth = FullDepth + 2 - n
      BY <1>1, <1>3 DEF StackKept, PathKept
    <2> QED
      BY <2>1, <1>2, <1>3
  <1>5. list' = <<>> /\ stack' = Append(Rest, Frame(Object, gathered, depth))
        /\ Frame(Object, gathered, depth) \in AFrame
    BY <1>1, <1>4, Pushes
  <1>6. gathered = Gathered(Object, mode)
    <2>1. list = <<>> /\ Gathered(Object, mode) \in Seq(Objects)
      BY <1>1, GatheredIs DEF StackKept
    <2> QED
      BY <2>1, ConcatEmptySeq
  <1>7. ToSet(gathered) = Related(Object, mode)
    BY <1>6, GatheredIs
  <1> HIDE DEF gathered, depth
  <1> DEFINE f == Frame(Object, gathered, depth)
  <1>8. f.source = Object /\ f.todo = gathered /\ f.depth = depth
    BY DEF Frame
  <1> QED
    BY <1>4, <1>5, <1>7, <1>8

LEMMA SameBounds ==
    ASSUME UNCHANGED <<xref, root, mode>>
    PROVE  ({root} \cup Reach(root, LinksOf(mode)))' = {root} \cup Reach(root, LinksOf(mode))
  <1>1. LinksOf(mode)' = LinksOf(mode)
    BY SameLinks
  <1> QED
    BY <1>1 DEF Reach, Successors

LEMMA InitDeep == Init => DeepInv
  <1> SUFFICES ASSUME Init PROVE DeepInv
    OBVIOUS
  <1>1. stack = <<>> /\ list = <<>> /\ processed = {}
    BY DEF Init
  <1>2. FramesKept(stack, mode, processed)
    BY <1>1, NoFrames, EmptySeq
  <1>3. FirstKept /\ PathKept
    BY <1>1 DEF FirstKept, PathKept
  <1> QED
    BY <1>1, <1>2, <1>3, InitTyped, InitWalks DEF DeepInv, StackKept

(* A call that goes no deeper.                                              *)
LEMMA ShallowDeep ==
    ASSUME TypeInv, StackKept, Calling, stack' = Rest,
           UNCHANGED <<xref, root, mode, list, processed>>
    PROVE  StackKept'
  <1>1. /\ list = <<>> /\ FirstKept /\ PathKept /\ FramesKept(stack, mode, processed)
        /\ processed \subseteq {root} \cup Reach(root, LinksOf(mode))
    BY DEF StackKept
  <1>2. /\ Len(stack) \in Nat \ {0} /\ Len(Rest) = Len(stack)
        /\ Last(stack) = stack[Len(stack)] /\ RelatedType = Last(stack).source
        /\ \A i \in 1 .. Len(stack) - 1 : Rest[i] = stack[i]
        /\ Rest[Len(stack)] = [source |-> RelatedType, todo |-> Tail(Last(stack).todo),
                               depth |-> Last(stack).depth]
    BY Called DEF RelatedType
  <1>3. ASSUME NEW i \in 1 .. Len(stack)
        PROVE  Rest[i].source = stack[i].source /\ Rest[i].depth = stack[i].depth
    <2>1. CASE i = Len(stack)
      BY <2>1, <1>2
    <2>2. CASE i # Len(stack)
      BY <2>2, <1>2
    <2> QED
      BY <2>1, <2>2
  <1>4. PathKept'
    <2>1. \A i \in 2 .. Len(stack) - 1 : i \in 1 .. Len(stack) /\ i + 1 \in 1 .. Len(stack)
      BY <1>2
    <2>2. \A x : Related(x, mode)' = Related(x, mode)
      BY SameLinks
    <2>3. \A i \in 1 .. Len(Rest) : Rest[i].depth = FullDepth + 2 - i
      BY <1>1, <1>2, <1>3 DEF PathKept
    <2>4. \A i \in 2 .. Len(Rest) - 1 : Rest[i + 1].source \in Related(Rest[i].source, mode)
      BY <1>1, <1>2, <1>3, <2>1 DEF PathKept
    <2> QED
      BY <2>2, <2>3, <2>4 DEF PathKept
  <1>5. FirstKept' /\ FramesKept(Rest, mode, processed)
    <2>1. CASE Len(stack) = 1
      BY <2>1, <1>1, FirstCall DEF FirstKept
    <2>2. CASE Len(stack) # 1
      <3>1. FramesKept(Rest, mode, processed) /\ Rest[1] = stack[1] /\ stack # <<>>
        BY <2>2, <1>1, LaterCall DEF Calling
      <3>2. Rest[1].source = None /\ Rest[1].todo = <<>>
        BY <3>1, <2>2, <1>1 DEF FirstKept
      <3> QED
        BY <3>1, <3>2 DEF FirstKept
    <2> QED
      BY <2>1, <2>2
  <1>6. FramesKept(stack, mode, processed)'
    BY <1>5, SameFrames
  <1> QED
    BY <1>1, <1>4, <1>5, <1>6, SameBounds DEF StackKept

LEMMA PushDeep ==
    ASSUME DeepInv, task # "children", ShortPaths, Push
    PROVE  StackKept'
  <1> DEFINE n == Len(stack)
  <1>1. /\ TypeInv /\ StackKept /\ Calling /\ Object \notin processed
        /\ UNCHANGED <<xref, task, walks, root, mode>> /\ processed' = processed \cup {Object}
    BY DEF DeepInv, Push
  <1>2. /\ FirstKept /\ PathKept /\ FramesKept(stack, mode, processed)
        /\ processed \subseteq {root} \cup Reach(root, LinksOf(mode))
    BY <1>1 DEF StackKept
  <1>3. PICK f \in AFrame :
              /\ f.source = Object /\ f.depth = FullDepth + 1 - n
              /\ ToSet(f.todo) = Related(Object, mode)
              /\ stack' = Append(Rest, f) /\ list' = <<>>
    BY DeepPush
  <1>4. /\ n \in Nat \ {0} /\ Len(Rest) = n /\ Rest \in Seq(AFrame)
        /\ Object \in Objects
        /\ RelatedType = stack[n].source
        /\ \A i \in 1 .. n - 1 : Rest[i] = stack[i]
        /\ Rest[n].source = RelatedType /\ Rest[n].depth = stack[n].depth
    BY <1>1, Called DEF RelatedType
  <1>5. \A i \in 1 .. n : Rest[i].source = stack[i].source /\ Rest[i].depth = stack[i].depth
    <2> HIDE DEF n
    <2>1. \A i \in 1 .. n : i \in 1 .. n - 1 \/ i = n
      BY <1>4
    <2> QED
      BY <1>4, <2>1
  <1> DEFINE t == Append(Rest, f)
  <1>6. /\ t \in Seq(AFrame) /\ Len(t) = n + 1 /\ t # <<>>
        /\ \A i \in 1 .. n : t[i] = Rest[i]
        /\ t[n + 1] = f
    BY <1>4, Appended
  <1>7. stack' = t
    BY <1>3
  <1>8. FramesKept(Rest, mode, processed) /\ Rest[1].source = None /\ Rest[1].todo = <<>> /\ Rest # <<>>
    <2>1. CASE n = 1
      BY <2>1, <1>1, <1>2, FirstCall
    <2>2. CASE n # 1
      <3>1. FramesKept(Rest, mode, processed) /\ Rest[1] = stack[1] /\ Rest # <<>> /\ stack # <<>>
        BY <2>2, <1>1, <1>2, LaterCall DEF Calling
      <3> QED
        BY <3>1, <2>2, <1>2 DEF FirstKept
    <2> QED
      BY <2>1, <2>2
  <1>9. FramesKept(t, mode, processed \cup {Object})
    BY <1>1, <1>3, <1>4, <1>8, FrameAdded
  <1>10. /\ n = 1 => Object = root
         /\ n # 1 => RelatedType \in processed /\ Object \in Related(RelatedType, mode)
    BY <1>1, <1>2, FirstCall, LaterCall
  <1> HIDE DEF t
  <1>11. FramesKept(stack, mode, processed)'
    BY <1>1, <1>7, <1>9, SameFrames
  <1>12. FirstKept'
    <2>1. 1 \in 1 .. n
      BY <1>4
    <2> QED
      BY <2>1, <1>6, <1>7, <1>8 DEF FirstKept
  <1>13. PathKept'
    <2>1. \A x : Related(x, mode)' = Related(x, mode)
      BY <1>1, SameLinks
    <2>2. \A i \in 1 .. n : stack[i].depth = FullDepth + 2 - i
      BY <1>2 DEF PathKept
    <2>3. ASSUME NEW i \in 1 .. n + 1 PROVE t[i].depth = FullDepth + 2 - i
      <3>1. CASE i = n + 1
        BY <3>1, <1>3, <1>4, <1>6, ConstantsAssumption
      <3>2. CASE i # n + 1
        <4>1. i \in 1 .. n
          BY <3>2, <1>4
        <4> QED
          BY <4>1, <2>2, <1>5, <1>6
      <3> QED
        BY <3>1, <3>2
    <2>4. ASSUME NEW i \in 2 .. n PROVE t[i + 1].source \in Related(t[i].source, mode)
      <3>1. i \in 1 .. n /\ t[i].source = stack[i].source
        BY <1>4, <1>5, <1>6
      <3>2. CASE i = n
        <4>1. n # 1 /\ t[n + 1].source = Object
          BY <3>2, <1>3, <1>6
        <4>2. Object \in Related(RelatedType, mode)
          BY <4>1, <1>10
        <4> QED
          BY <4>1, <4>2, <3>1, <3>2, <1>4
      <3>3. CASE i # n
        <4>1. i \in 2 .. n - 1 /\ i + 1 \in 1 .. n
          BY <3>3, <1>4
        <4>2. stack[i + 1].source \in Related(stack[i].source, mode)
          BY <4>1, <1>2 DEF PathKept
        <4> QED
          BY <4>1, <4>2, <3>1, <1>5, <1>6
      <3> QED
        BY <3>2, <3>3
    <2>5. (n + 1) - 1 = n
      BY <1>4
    <2> QED
      BY <2>1, <2>3, <2>4, <2>5, <1>1, <1>6, <1>7 DEF PathKept
  <1>14. Object \in {root} \cup Reach(root, LinksOf(mode))
    <2>1. root \in Objects
      BY <1>1, Walking
    <2>2. CASE n = 1
      BY <2>2, <1>10
    <2>3. CASE n # 1
      BY <2>1, <2>3, <1>1, <1>2, <1>10, RelatedReached
    <2> QED
      BY <2>2, <2>3
  <1> QED
    BY <1>1, <1>2, <1>3, <1>11, <1>12, <1>13, <1>14, SameBounds DEF StackKept

LEMMA ReturnDeep ==
    ASSUME TypeInv, StackKept, Return
    PROVE  StackKept'
  <1> DEFINE n == Len(stack)
             t == Front(stack)
  <1>1. /\ stack # <<>> /\ ~ Calling /\ stack' = t
        /\ UNCHANGED <<xref, task, walks, root, mode, list, processed>>
    BY DEF Return
  <1>2. /\ list = <<>> /\ FirstKept /\ PathKept /\ FramesKept(stack, mode, processed)
        /\ processed \subseteq {root} \cup Reach(root, LinksOf(mode))
    BY DEF StackKept
  <1>3. /\ n \in Nat \ {0} /\ Last(stack) = stack[n] /\ t \in Seq(AFrame) /\ Len(t) = n - 1
        /\ \A i \in 1 .. n - 1 : t[i] = stack[i]
    BY <1>1, Returned
  <1>4. FramesKept(t, mode, processed)
    BY <1>1, <1>2, FrameRemoved
  <1> HIDE DEF t
  <1>5. FramesKept(stack, mode, processed)'
    BY <1>1, <1>4, SameFrames
  <1>6. FirstKept'
    <2>1. stack[1].source = None
      BY <1>1, <1>2 DEF FirstKept
    <2>2. stack[1].todo = <<>>
      <3>1. CASE n = 1
        BY <3>1, <1>1, <1>3 DEF Calling
      <3>2. CASE n # 1
        BY <3>2, <1>1, <1>2 DEF FirstKept
      <3> QED
        BY <3>1, <3>2
    <2>3. t # <<>> => 1 \in 1 .. n - 1
      <3>1. t # <<>> => n - 1 # 0
        BY <1>3, EmptySeq
      <3> QED
        BY <3>1, <1>3
    <2> QED
      BY <2>1, <2>2, <2>3, <1>1, <1>3 DEF FirstKept
  <1>7. PathKept'
    <2>1. \A x : Related(x, mode)' = Related(x, mode)
      BY <1>1, SameLinks
    <2>2. \A i \in 1 .. n - 1 : i \in 1 .. n
      BY <1>3
    <2>3. \A i \in 2 .. (n - 1) - 1 : i \in 2 .. n - 1 /\ i \in 1 .. n - 1 /\ i + 1 \in 1 .. n - 1
      BY <1>3
    <2>4. \A i \in 1 .. Len(t) : t[i].depth = FullDepth + 2 - i
      BY <2>2, <1>2, <1>3 DEF PathKept
    <2>5. \A i \in 2 .. Len(t) - 1 : t[i + 1].source \in Related(t[i].source, mode)
      BY <2>3, <1>2, <1>3 DEF PathKept
    <2> QED
      BY <2>1, <2>4, <2>5, <1>1 DEF PathKept
  <1> QED
    BY <1>1, <1>2, <1>5, <1>6, <1>7, SameBounds DEF StackKept

LEMMA StartWalkDeep ==
    ASSUME DeepInv, task # "children", StartWalk
    PROVE  StackKept'
  <1>1. TypeInv /\ WalksKept /\ StackKept
    BY DEF DeepInv
  <1> DEFINE f == Frame(None, <<root'>>, Depth + 1)
  <1>2. /\ stack' = <<f>> /\ processed' = {}
        /\ task = "full" => list' = <<>>
        /\ task # "full" => list' = list
    BY <1>1, WalkBegins
  <1>3. list' = <<>>
    BY <1>1, <1>2 DEF StackKept
  <1>4. f.source = None /\ f.todo = <<root'>> /\ f.depth = FullDepth + 1
    BY DEF Frame, Depth
  <1> HIDE DEF f
  <1>5. Len(stack') = 1 /\ stack'[1] = f /\ \A i \in 1 .. 1 : i = 1
    BY <1>2
  <1>6. FirstKept'
    BY <1>2, <1>4, <1>5 DEF FirstKept
  <1>7. PathKept'
    <2>1. \A i \in 2 .. 1 - 1 : FALSE
      OBVIOUS
    <2>2. FullDepth + 1 = FullDepth + 2 - 1
      BY ConstantsAssumption
    <2> QED
      BY <2>1, <2>2, <1>4, <1>5 DEF PathKept
  <1>8. FramesKept(stack, mode, processed)'
    <2>1. \A i \in 2 .. 1 : FALSE
      OBVIOUS
    <2> QED
      BY <2>1, <1>5 DEF FramesKept
  <1> QED
    BY <1>2, <1>3, <1>6, <1>7, <1>8 DEF StackKept

LEMMA NextDeep == ASSUME ShortPaths PROVE DeepInv /\ [Next]_vars => DeepInv'
  <1> SUFFICES ASSUME DeepInv, [Next]_vars PROVE DeepInv'
    OBVIOUS
  <1>1. TypeInv /\ WalksKept /\ TypeInv' /\ WalksKept'
    BY NextTyped, NextWalks DEF DeepInv
  <1>2. task' = task
    BY DEF Next, StartWalk, FetchWorker, DetectCycle, GiveUp, ShortCircuit, PushAgain, Push, Return,
           ApplyGraphData, ApplySelf, ApplyToChild, ApplyToParent, EndApply, vars
  <1>3. ASSUME task # "children" PROVE StackKept'
    <2>1. StackKept
      BY <1>3 DEF DeepInv
    <2>2. CASE StartWalk
      BY <2>2, <1>3, StartWalkDeep
    <2>3. CASE DetectCycle \/ GiveUp \/ ShortCircuit \/ PushAgain
      <3>1. Calling /\ stack' = Rest /\ UNCHANGED <<xref, root, mode, list, processed>>
        BY <2>3 DEF DetectCycle, GiveUp, ShortCircuit, PushAgain
      <3> QED
        BY <3>1, <2>1, <1>1, ShallowDeep
    <2>4. CASE Push
      BY <2>4, <1>3, PushDeep
    <2>5. CASE Return
      BY <2>5, <2>1, <1>1, ReturnDeep
    <2>6. CASE ApplyGraphData \/ UNCHANGED vars
      <3>1. UNCHANGED walkVars /\ xref' = xref
        BY <2>6 DEF ApplyGraphData, ApplySelf, ApplyToChild, ApplyToParent, EndApply, vars
      <3>2. UNCHANGED <<xref, root, mode>> /\ UNCHANGED <<stack, list, processed>>
        BY <3>1 DEF walkVars
      <3>3. FramesKept(stack, mode, processed)'
        BY <2>1, <3>2, SameFrames DEF StackKept
      <3>4. \A x : Related(x, mode)' = Related(x, mode)
        BY <3>2, SameLinks
      <3>5. FirstKept' /\ PathKept'
        BY <2>1, <3>2, <3>4 DEF StackKept, FirstKept, PathKept
      <3> QED
        BY <2>1, <3>2, <3>3, <3>5, SameBounds DEF StackKept
    <2> QED
      BY <2>2, <2>3, <2>4, <2>5, <2>6 DEF Next, FetchWorker
  <1> QED
    BY <1>1, <1>2, <1>3 DEF DeepInv

-----------------------------------------------------------------------------
(* What a walk has seen.                                                    *)

(* The links of the objects that were processed that are no longer to be taken. *)
Taken(st, m, ps) == {l \in Walked(m, ps) : ~ Open(st, l[1], l[2])}

(* The link by which the object of a call was reached.                      *)
NewLink == IF RelatedType = None THEN {} ELSE {<<RelatedType, Object>>}

LEMMA SameTaken ==
    ASSUME UNCHANGED xref, NEW s, NEW m, NEW ps, stack' = s, mode' = m, processed' = ps
    PROVE  Taken(stack, mode, processed)' = Taken(s, m, ps)
  <1>1. \A x : Related(x, m)' = Related(x, m)
    BY SameLinks
  <1>2. Walked(mode, processed)' = Walked(m, ps)
    BY <1>1 DEF Walked
  <1> QED
    BY <1>2 DEF Taken, Open

LEMMA CallTakes ==
    ASSUME TypeInv, StackKept, Calling
    PROVE  /\ Taken(stack, mode, processed) \subseteq Taken(Rest, mode, processed)
           /\ Taken(Rest, mode, processed) \subseteq Taken(stack, mode, processed) \cup NewLink
           /\ NewLink \subseteq Walked(mode, processed)
           /\ RelatedType = None =>
                 /\ Object = root /\ processed = {} /\ Len(stack) = 1
                 /\ Taken(stack, mode, processed) = {}
           /\ RelatedType # None => /\ RelatedType \in processed /\ Len(stack) # 1
                                    /\ Object \in Related(RelatedType, mode)
  <1>1. /\ FirstKept /\ FramesKept(stack, mode, processed)
        /\ processed \subseteq Objects /\ Object \in Objects /\ None \notin Objects
    BY Called, Walking, ConstantsAssumption DEF StackKept
  <1>2. CASE Len(stack) = 1
    <2>1. RelatedType = None /\ Object = root /\ processed = {}
      BY <1>1, <1>2, FirstCall
    <2>2. \A st : Taken(st, mode, processed) = {}
      BY <2>1 DEF Taken, Walked
    <2>3. NewLink = {}
      BY <2>1 DEF NewLink
    <2> QED
      BY <1>2, <2>1, <2>2, <2>3
  <1>3. CASE Len(stack) # 1
    <2>1. /\ RelatedType \in processed /\ Object \in Related(RelatedType, mode)
          /\ \A o, x : Open(Rest, o, x) => Open(stack, o, x)
          /\ \A o, x : Open(stack, o, x) => Open(Rest, o, x) \/ (o = RelatedType /\ x = Object)
      BY <1>1, <1>3, LaterCall
    <2>2. RelatedType # None /\ RelatedType \in Objects
      BY <2>1, <1>1
    <2> DEFINE k == <<RelatedType, Object>>
    <2>3. NewLink = {k}
      BY <2>2 DEF NewLink
    <2>4. k \in Walked(mode, processed)
      BY <2>1, <2>2, <1>1 DEF Walked
    <2>5. \A l \in Walked(mode, processed) : l[1] = RelatedType /\ l[2] = Object => l = k
      BY <2>2, <1>1 DEF Walked
    <2> HIDE DEF k
    <2>6. Taken(stack, mode, processed) \subseteq Taken(Rest, mode, processed)
      BY <2>1 DEF Taken
    <2>7. Taken(Rest, mode, processed) \subseteq Taken(stack, mode, processed) \cup {k}
      BY <2>1, <2>5 DEF Taken
    <2> QED
      BY <1>3, <2>1, <2>2, <2>3, <2>4, <2>6, <2>7
  <1> QED
    BY <1>2, <1>3

(* All the links of an object that is new are still to be taken.            *)
LEMMA PushTakes ==
    ASSUME TypeInv, NEW s \in Seq(AFrame), s # <<>>, NEW m, NEW ps, FramesKept(s, m, ps),
           NEW f \in AFrame, f.source \notin ps,
           ToSet(f.todo) = Related(f.source, m)
    PROVE  Taken(Append(s, f), m, ps \cup {f.source}) = Taken(s, m, ps)
  <1> DEFINE t == Append(s, f)
  <1>1. \A o, x : Open(t, o, x) <=> Open(s, o, x) \/ (o = f.source /\ x \in Related(o, m))
    BY FrameAdded
  <1> HIDE DEF t
  <1>2. ASSUME NEW l \in Taken(t, m, ps \cup {f.source}) PROVE l \in Taken(s, m, ps)
    BY <1>1 DEF Taken, Walked
  <1>3. ASSUME NEW l \in Taken(s, m, ps) PROVE l \in Taken(t, m, ps \cup {f.source})
    BY <1>1 DEF Taken, Walked
  <1> QED
    BY <1>2, <1>3 DEF t

(* Each call takes one link at most, and one that is there.                 *)
LEMMA CallsTake ==
    ASSUME DeepInv, task # "children", ShortPaths, FetchWorker
    PROVE  /\ Taken(stack, mode, processed)' = Taken(Rest, mode, processed)
           /\ Taken(Rest, mode, processed) \subseteq Taken(stack, mode, processed) \cup NewLink
           /\ Taken(stack, mode, processed) \subseteq Taken(Rest, mode, processed)
           /\ NewLink \subseteq Walked(mode, processed)
           /\ RelatedType = None =>
                 /\ Object = root /\ processed = {} /\ Len(stack) = 1
                 /\ Taken(stack, mode, processed) = {}
           /\ RelatedType # None => /\ RelatedType \in processed /\ Len(stack) # 1
                                    /\ Object \in Related(RelatedType, mode)
  <1>1. /\ TypeInv /\ StackKept /\ Calling /\ UNCHANGED <<xref, mode>>
        /\ FramesKept(stack, mode, processed) /\ FirstKept
    BY DEF DeepInv, StackKept, FetchWorker, DetectCycle, GiveUp, ShortCircuit, PushAgain, Push
  <1>3. CASE DetectCycle \/ GiveUp \/ ShortCircuit \/ PushAgain
    <2>1. stack' = Rest /\ processed' = processed
      BY <1>3 DEF DetectCycle, GiveUp, ShortCircuit, PushAgain
    <2> QED
      BY <2>1, <1>1, CallTakes, SameTaken
  <1>4. CASE Push
    <2>1. PICK f \in AFrame :
              /\ f.source = Object
              /\ ToSet(f.todo) = Related(Object, mode)
              /\ stack' = Append(Rest, f)
      BY <1>4, DeepPush
    <2>2. FramesKept(Rest, mode, processed) /\ Rest # <<>> /\ Rest \in Seq(AFrame)
      BY <1>1, FirstCall, LaterCall, Called
    <2>3. Object \notin processed /\ processed' = processed \cup {Object}
      BY <1>4 DEF Push
    <2>4. Taken(Append(Rest, f), mode, processed \cup {Object}) = Taken(Rest, mode, processed)
      BY <2>1, <2>2, <2>3, <1>1, PushTakes
    <2>5. Taken(stack, mode, processed)' = Taken(Append(Rest, f), mode, processed \cup {Object})
      BY <2>1, <2>3, <1>1, SameTaken
    <2> QED
      BY <2>4, <2>5, <1>1, CallTakes
  <1> QED
    BY <1>3, <1>4 DEF FetchWorker

LEMMA ReturnTakes ==
    ASSUME TypeInv, StackKept, Return
    PROVE  Taken(stack, mode, processed)' = Taken(stack, mode, processed)
  <1>1. stack # <<>> /\ ~ Calling /\ stack' = Front(stack) /\ UNCHANGED <<xref, mode, processed>>
    BY DEF Return
  <1>2. \A o, x : Open(Front(stack), o, x) <=> Open(stack, o, x)
    BY <1>1, FrameRemoved DEF StackKept
  <1>3. Taken(Front(stack), mode, processed) = Taken(stack, mode, processed)
    BY <1>2 DEF Taken
  <1> QED
    BY <1>1, <1>3, SameTaken

LEMMA StartTakes ==
    ASSUME TypeInv, WalksKept, StartWalk
    PROVE  Taken(stack, mode, processed)' = {}
  <1>1. processed' = {}
    BY WalkBegins
  <1> QED
    BY <1>1 DEF Taken, Walked

-----------------------------------------------------------------------------
(* What a walk finds.                                                       *)

Begun == root \in processed \/ (stack # <<>> /\ stack[1].todo # <<>>)

FoundKept ==
    /\ \A l \in Taken(stack, mode, processed) : l[2] \in processed
    /\ Begun \/ walks = WalksFor(task, root)
    /\ Single \/ walks # <<>> => added = processed
    /\ task = "all" /\ walks = <<>> => added = processed \cup {root} \cup Ancestors(root)

FoundInv == DeepInv /\ (~ WithDatabase /\ task # "children" /\ pushCount <= MaxPushCount => FoundKept)

(* Only an ObjectGraph of its own begins to count anew, and a walk that     *)
(* gives up has made more calls than it may.                                *)
LEMMA CountGrows ==
    ASSUME TypeInv, task # "full", [Next]_vars, pushCount' <= MaxPushCount
    PROVE  pushCount <= MaxPushCount /\ ~ GiveUp
  <1>1. pushCount \in Nat /\ MaxPushCount \in Nat
    BY Walking, ConstantsAssumption
  <1>2. pushCount' = pushCount \/ pushCount' = pushCount + 1
    BY DEF Next, StartWalk, FetchWorker, DetectCycle, GiveUp, ShortCircuit, PushAgain, Push, Return,
           ApplyGraphData, ApplySelf, ApplyToChild, ApplyToParent, EndApply, vars, walkVars
  <1>3. GiveUp => pushCount' = pushCount + 1 /\ ~ (pushCount < MaxPushCount)
    BY DEF GiveUp, Allowed
  <1> QED
    BY <1>1, <1>2, <1>3

(* A walk that is over has found what can be reached.                       *)
LEMMA WalkOver ==
    ASSUME TypeInv, StackKept, stack = <<>>, root \in processed,
           \A l \in Taken(stack, mode, processed) : l[2] \in processed
    PROVE  processed = {root} \cup Reach(root, LinksOf(mode))
  <1>1. processed \in SUBSET Objects /\ root \in Objects
    BY Walking
  <1>2. \A o, x : ~ Open(stack, o, x)
    BY NoFrames, EmptySeq
  <1>3. ASSUME NEW x \in processed, NEW y \in Related(x, mode) PROVE y \in processed
    <2>1. x \in Objects /\ y \in Objects /\ <<x, y>>[1] = x /\ <<x, y>>[2] = y
      BY <1>1 DEF Related, Ends
    <2>2. <<x, y>> \in Taken(stack, mode, processed)
      BY <2>1, <1>2 DEF Taken, Walked
    <2> QED
      BY <2>1, <2>2
  <1>4. Reach(root, LinksOf(mode)) \subseteq processed
    BY <1>1, <1>3, ReachWithin
  <1> QED
    BY <1>4 DEF StackKept

(* When no walk is left to begin, or one is under way, one has begun.       *)
LEMMA WalkWasBegun ==
    ASSUME TypeInv, WalksKept, ~ WithDatabase, stack # <<>> \/ walks = <<>>
    PROVE  walks # WalksFor(task, root)
  <1>1. Single \/ task = "all"
    BY DEF WithDatabase, TypeInv, TypeOK, Tasks, Single
  <1>2. ASSUME Single PROVE walks # WalksFor(task, root)
    <2>1. WalksFor(task, root) = <<Walk(root, ModeFor)>>
      BY <1>2 DEF WalksFor, Single, ModeFor
    <2>2. <<Walk(root, ModeFor)>> # <<>>
      OBVIOUS
    <2> QED
      BY <2>1, <2>2, <1>2 DEF WalksKept, Fresh
  <1>3. ASSUME task = "all" PROVE walks # WalksFor(task, root)
    <2>1. WalksFor(task, root) = <<Walk(root, "eAncestors"), Walk(root, "eDescendents")>>
      BY <1>3 DEF WalksFor
    <2>2. /\ <<Walk(root, "eAncestors"), Walk(root, "eDescendents")>> # <<>>
          /\ <<Walk(root, "eAncestors"), Walk(root, "eDescendents")>> # <<Walk(root, "eDescendents")>>
      OBVIOUS
    <2> QED
      BY <2>1, <2>2, <1>3 DEF WalksKept, Fresh, Double
  <1> QED
    BY <1>1, <1>2, <1>3

LEMMA InitFound == Init => FoundInv
  <1> SUFFICES ASSUME Init PROVE FoundInv
    OBVIOUS
  <1>1. walks = WalksFor(task, root) /\ processed = {} /\ added = {}
    BY DEF Init
  <1>2. Taken(stack, mode, processed) = {}
    BY <1>1 DEF Taken, Walked
  <1>3. task = "all" => walks # <<>>
    BY <1>1 DEF WalksFor
  <1> QED
    BY <1>1, <1>2, <1>3, InitDeep DEF FoundInv, FoundKept

LEMMA StartWalkFound ==
    ASSUME FoundInv, FoundKept, DeepInv', ~ WithDatabase, task # "children", StartWalk
    PROVE  FoundKept'
  <1>1. TypeInv /\ WalksKept /\ StackKept /\ FoundKept /\ stack = <<>> /\ walks # <<>>
    BY DEF FoundInv, DeepInv, StartWalk
  <1>2. Taken(stack, mode, processed)' = {}
    BY <1>1, StartTakes
  <1>3. /\ stack' = <<Frame(None, <<root'>>, Depth + 1)>> /\ processed' = {}
        /\ Single => Fresh /\ root' = root /\ walks' = <<>>
        /\ Double => /\ root' = root
                     /\ \/ Fresh /\ walks' # <<>>
                        \/ walks # <<>> /\ walks' = <<>> /\ mode = "eAncestors"
        /\ task # "full" => added' = added
    BY <1>1, WalkBegins
  <1>4. task' = task /\ xref' = xref
    BY DEF StartWalk
  <1>5. Begun'
    <2>1. stack'[1].todo = <<root'>> /\ <<root'>> # <<>> /\ stack' # <<>>
      BY <1>3 DEF Frame
    <2> QED
      BY <2>1 DEF Begun
  <1>6. Single' = Single /\ (Single \/ (task = "all" /\ Double)) /\ task # "full" /\ (task = "all" => ~ Single)
    BY <1>1, <1>4 DEF Single, Double, WithDatabase, TypeInv, TypeOK, Tasks
  <1>7. CASE Single
    <2>1. added' = processed'
      BY <1>3, <1>6, <1>7 DEF Fresh
    <2> QED
      BY <2>1, <1>2, <1>4, <1>5, <1>6, <1>7 DEF FoundKept
  <1>8. CASE task = "all" /\ Fresh /\ walks' # <<>>
    <2>1. added' = processed'
      BY <1>3, <1>6, <1>8 DEF Fresh
    <2> QED
      BY <2>1, <1>2, <1>4, <1>5, <1>6, <1>8 DEF FoundKept
  <1>9. CASE task = "all" /\ walks' = <<>> /\ mode = "eAncestors"
    <2>1. walks # WalksFor(task, root)
      <3>1. WalksFor(task, root) = <<Walk(root, "eAncestors"), Walk(root, "eDescendents")>>
        BY <1>9 DEF WalksFor
      <3>2. walks = <<Walk(root, "eDescendents")>>
        <4>1. Tail(<<Walk(root, "eAncestors"), Walk(root, "eDescendents")>>) # <<>>
          OBVIOUS
        <4>2. walks' = Tail(walks)
          BY DEF StartWalk
        <4> QED
          BY <4>1, <4>2, <1>1, <1>9, <1>6 DEF WalksKept
      <3>3. <<Walk(root, "eAncestors"), Walk(root, "eDescendents")>> # <<Walk(root, "eDescendents")>>
        OBVIOUS
      <3> QED
        BY <3>1, <3>2, <3>3
    <2>2. root \in processed
      BY <2>1, <1>1 DEF FoundKept, Begun
    <2>3. processed = {root} \cup Reach(root, LinksOf(mode))
      BY <2>2, <1>1, WalkOver DEF FoundKept
    <2>4. LinksOf(mode) = Inverted(Up)
      BY <1>9 DEF LinksOf
    <2>5. added = processed
      BY <1>1 DEF FoundKept
    <2>6. added' = processed' \cup {root} \cup Ancestors(root)
      BY <2>3, <2>4, <2>5, <1>3, <1>6 DEF Ancestors
    <2>7. root' = root /\ Up' = Up
      BY <1>3, <1>4, <1>6, <1>9, SameLinks
    <2>8. Ancestors(root)' = Ancestors(root)
      BY <2>7 DEF Ancestors, Inverted, Reach, Successors
    <2> QED
      BY <2>6, <2>7, <2>8, <1>2, <1>4, <1>5, <1>6, <1>9 DEF FoundKept
  <1> QED
    BY <1>3, <1>6, <1>7, <1>8, <1>9

LEMMA CallFound ==
    ASSUME FoundInv, FoundKept, ~ WithDatabase, task # "children", ShortPaths,
           FetchWorker, ~ GiveUp
    PROVE  FoundKept'
  <1>1. /\ TypeInv /\ WalksKept /\ StackKept /\ FoundKept /\ FirstKept /\ DeepInv /\ stack # <<>>
        /\ UNCHANGED <<xref, task, walks, root, mode>>
    BY CallUnchanged DEF FoundInv, DeepInv, StackKept
  <1>2. /\ Taken(stack, mode, processed)' \subseteq Taken(stack, mode, processed) \cup NewLink
        /\ RelatedType = None => /\ Object = root /\ processed = {} /\ Len(stack) = 1
        /\ RelatedType # None => RelatedType \in processed
    BY <1>1, CallsTake
  <1>3. walks # WalksFor(task, root) /\ Begun
    BY <1>1, WalkWasBegun DEF FoundKept
  <1>4. RelatedType # None => root \in processed
    BY <1>1, <1>2, <1>3 DEF Begun, FirstKept
  <1>5. ~ ShortCircuit
    BY DEF ShortCircuit, AlreadyProcessed
  <1>6. /\ processed \subseteq processed'
        /\ RelatedType # None => Object \in processed'
        /\ root \in processed'
        /\ added = processed => added' = processed'
        /\ \A S : added = processed \cup S => added' = processed' \cup S
    <2>1. CASE DetectCycle
      BY <2>1, <1>4 DEF DetectCycle, IsCycle
    <2>2. CASE PushAgain
      <3>1. Object \in processed /\ UNCHANGED <<processed, added>>
        BY <2>2 DEF PushAgain
      <3> QED
        BY <3>1, <1>2, <1>4
    <2>3. CASE Push
      <3>1. processed' = processed \cup {Object} /\ added' = added \cup {Object}
        BY <2>3 DEF Push
      <3> QED
        BY <3>1, <1>2, <1>4
    <2> QED
      BY <2>1, <2>2, <2>3, <1>5 DEF FetchWorker
  <1>7. \A l \in NewLink : l[2] \in processed'
    <2>1. <<RelatedType, Object>>[2] = Object
      OBVIOUS
    <2> QED
      BY <2>1, <1>6 DEF NewLink
  <1>8. \A l \in Taken(stack, mode, processed)' : l[2] \in processed'
    BY <1>1, <1>2, <1>6, <1>7 DEF FoundKept
  <1>9. Begun'
    BY <1>1, <1>6 DEF Begun
  <1>10. Single' = Single /\ Ancestors(root)' = Ancestors(root)
    <2>1. Up' = Up /\ root' = root
      BY <1>1, SameLinks
    <2> QED
      BY <2>1, <1>1 DEF Single, Ancestors, Inverted, Reach, Successors
  <1>11. ASSUME task = "all", walks = <<>> PROVE added' = processed' \cup {root} \cup Ancestors(root)
    <2> DEFINE S == {root} \cup Ancestors(root)
    <2>1. added = processed \cup S
      BY <1>1, <1>11 DEF FoundKept
    <2>2. added' = processed' \cup S
      <3> HIDE DEF S
      <3> QED
        BY <2>1, <1>6
    <2> QED
      BY <2>2
  <1>12. Single \/ walks # <<>> => added' = processed'
    BY <1>1, <1>6 DEF FoundKept
  <1> QED
    BY <1>1, <1>8, <1>9, <1>10, <1>11, <1>12 DEF FoundKept

LEMMA ReturnFound ==
    ASSUME FoundInv, FoundKept, ~ WithDatabase, task # "children", Return
    PROVE  FoundKept'
  <1>1. /\ TypeInv /\ WalksKept /\ StackKept /\ FoundKept /\ FirstKept /\ DeepInv
        /\ stack # <<>> /\ ~ Calling
        /\ UNCHANGED <<xref, task, walks, root, mode, processed, added>>
    BY DEF FoundInv, DeepInv, StackKept, Return
  <1>2. Taken(stack, mode, processed)' = Taken(stack, mode, processed)
    BY <1>1, ReturnTakes
  <1>3. root \in processed
    <2>1. walks # WalksFor(task, root) /\ Begun
      BY <1>1, WalkWasBegun DEF FoundKept
    <2>2. SUFFICES ASSUME stack[1].todo # <<>> PROVE FALSE
      BY <2>1 DEF Begun
    <2>3. Len(stack) = 1 /\ Last(stack) = stack[1]
      BY <2>2, <1>1, Returned DEF FirstKept
    <2> QED
      BY <2>2, <2>3, <1>1 DEF Calling
  <1>4. Single' = Single /\ Ancestors(root)' = Ancestors(root)
    <2>1. Up' = Up /\ root' = root
      BY <1>1, SameLinks
    <2> QED
      BY <2>1, <1>1 DEF Single, Ancestors, Inverted, Reach, Successors
  <1> QED
    BY <1>1, <1>2, <1>3, <1>4 DEF FoundKept, Begun

LEMMA NextFound == ASSUME ShortPaths PROVE FoundInv /\ [Next]_vars => FoundInv'
  <1> SUFFICES ASSUME FoundInv, [Next]_vars PROVE FoundInv'
    OBVIOUS
  <1>1. DeepInv /\ DeepInv'
    BY NextDeep DEF FoundInv
  <1>2. task' = task
    BY DEF Next, StartWalk, FetchWorker, DetectCycle, GiveUp, ShortCircuit, PushAgain, Push, Return,
           ApplyGraphData, ApplySelf, ApplyToChild, ApplyToParent, EndApply, vars
  <1>3. ASSUME ~ WithDatabase, task # "children", pushCount' <= MaxPushCount PROVE FoundKept'
    <2>0. FoundKept /\ ~ GiveUp
      BY <1>1, <1>3, CountGrows DEF FoundInv, DeepInv, WithDatabase
    <2>1. CASE ApplyGraphData \/ UNCHANGED vars
      <3>1. UNCHANGED walkVars /\ xref' = xref
        BY <2>1 DEF ApplyGraphData, ApplySelf, ApplyToChild, ApplyToParent, EndApply, vars
      <3>2. UNCHANGED <<walks, root, mode, stack, processed, added>>
        BY <3>1 DEF walkVars
      <3>3. Taken(stack, mode, processed)' = Taken(stack, mode, processed)
        BY <3>1, <3>2, SameTaken
      <3>4. Ancestors(root)' = Ancestors(root)
        <4>1. Up' = Up /\ root' = root
          BY <3>1, <3>2, SameLinks
        <4> QED
          BY <4>1 DEF Ancestors, Inverted, Reach, Successors
      <3>5. Single' = Single /\ Begun' = Begun /\ WalksFor(task, root)' = WalksFor(task, root)
        BY <3>2, <1>2 DEF Single, Begun, WalksFor, Walk
      <3> QED
        BY <3>2, <3>3, <3>4, <3>5, <2>0, <1>2 DEF FoundKept
    <2> QED
      BY <2>0, <2>1, <1>1, <1>3, StartWalkFound, CallFound, ReturnFound DEF Next
  <1>4. WithDatabase' = WithDatabase
    BY <1>2 DEF WithDatabase
  <1> QED
    BY <1>1, <1>2, <1>3, <1>4 DEF FoundInv

-----------------------------------------------------------------------------
(* The walk that goes no further than the children.  All that is gathered   *)
(* for them is left behind in the list.                                     *)

KidsToDo(st) == IF Len(st) = 2 THEN ToSet(st[2].todo) ELSE {}

KidsKept ==
    /\ Len(stack) \in 0 .. 2
    /\ FirstKept
    /\ \A i \in 1 .. Len(stack) : stack[i].depth = 3 - i
    /\ Len(stack) = 2 => stack[2].source = root /\ root \in processed
    /\ processed = {} => list = <<>>
    /\ Begun \/ walks = WalksFor(task, root)
    /\ added = processed
    /\ processed # {} => processed \cup KidsToDo(stack) = {root} \cup Related(root, "eDescendents")

KidsInv == TypeInv /\ WalksKept /\ (task = "children" /\ pushCount <= MaxPushCount => KidsKept)

LEMMA InitKids == Init => KidsInv
  <1> SUFFICES ASSUME Init PROVE KidsInv
    OBVIOUS
  <1>1. stack = <<>> /\ list = <<>> /\ processed = {} /\ added = {} /\ walks = WalksFor(task, root)
    BY DEF Init
  <1>2. Len(stack) = 0 /\ (\A i \in 1 .. 0 : FALSE)
    BY <1>1
  <1> QED
    BY <1>1, <1>2, InitTyped, InitWalks DEF KidsInv, KidsKept, FirstKept

LEMMA StartWalkKids ==
    ASSUME KidsInv, KidsKept, task = "children", StartWalk
    PROVE  KidsKept'
  <1>1. TypeInv /\ WalksKept /\ KidsKept
    BY DEF KidsInv
  <1>2. Single /\ task # "full" /\ Depth = 1
    BY DEF Single, Depth
  <1> DEFINE f == Frame(None, <<root'>>, Depth + 1)
  <1>3. /\ stack' = <<f>> /\ processed' = {} /\ Fresh
        /\ list' = list /\ added' = added
    BY <1>1, <1>2, WalkBegins
  <1>4. f.source = None /\ f.todo = <<root'>> /\ f.depth = 2
    BY <1>2 DEF Frame
  <1> HIDE DEF f
  <1>5. Len(stack') = 1 /\ stack'[1] = f /\ (\A i \in 1 .. 1 : i = 1) /\ stack' # <<>>
    BY <1>3
  <1>6. FirstKept' /\ Begun'
    <2>1. <<root'>> # <<>>
      OBVIOUS
    <2> QED
      BY <2>1, <1>3, <1>4, <1>5 DEF FirstKept, Begun
  <1> QED
    BY <1>3, <1>4, <1>5, <1>6 DEF KidsKept, Fresh

LEMMA CallKids ==
    ASSUME KidsInv, KidsKept, task = "children", FetchWorker, ~ GiveUp
    PROVE  KidsKept'
  <1> DEFINE n == Len(stack)
  <1>1. /\ TypeInv /\ WalksKept /\ KidsKept /\ FirstKept /\ Calling /\ stack # <<>>
        /\ UNCHANGED <<xref, task, walks, root, mode>>
    BY CallUnchanged DEF KidsInv, KidsKept, FetchWorker, DetectCycle, GiveUp, ShortCircuit, PushAgain, Push
  <1>2. /\ n \in Nat \ {0} /\ Last(stack) = stack[n] /\ Last(stack) \in AFrame
        /\ Object \in Objects /\ root \in Objects
        /\ Rest \in Seq(AFrame) /\ Len(Rest) = n
        /\ \A i \in 1 .. n - 1 : Rest[i] = stack[i]
        /\ Rest[n] = [source |-> RelatedType, todo |-> Tail(Last(stack).todo), depth |-> Last(stack).depth]
        /\ RelatedType = Last(stack).source
    BY <1>1, Called, Walking DEF RelatedType
  <1>3. mode = "eDescendents" /\ ~ ShortCircuit
    <2>1. Single /\ ~ Fresh /\ ModeFor = "eDescendents"
      BY <1>1 DEF Single, Fresh, ModeFor
    <2> QED
      BY <2>1, <1>1 DEF WalksKept, ShortCircuit, AlreadyProcessed, WithDatabase
  <1>4. n = 1 \/ n = 2
    BY <1>1, <1>2 DEF KidsKept
  <1>5. stack[n].depth = 3 - n
    BY <1>1, <1>2 DEF KidsKept
  <1>6. \A x, m : Related(x, m)' = Related(x, m)
    BY <1>1, SameLinks
  <1> DEFINE gathered == list \o Gathered(Object, mode)
             depth == Last(stack).depth - 1
  <1>7. Push => /\ processed' = processed \cup {Object} /\ added' = added \cup {Object}
                /\ gathered \in Seq(Objects)
                /\ depth > 0 => /\ stack' = Append(Rest, Frame(Object, gathered, depth)) /\ list' = <<>>
                                /\ Frame(Object, gathered, depth) \in AFrame
                /\ depth = 0 => stack' = Rest
    BY <1>1, Pushes DEF Push
  <1>8. depth = 2 - n
    BY <1>2, <1>4, <1>5
  <1>9. CASE n = 1
    <2>1. /\ RelatedType = None /\ Object = root /\ processed = {}
          /\ Rest[1].source = None /\ Rest[1].todo = <<>> /\ Rest # <<>> /\ Len(Rest) = 1
      BY <1>1, <1>9, FirstCall
    <2>2. Push
      BY <2>1, <1>3 DEF FetchWorker, DetectCycle, IsCycle, PushAgain
    <2>3. list = <<>> /\ added = {}
      BY <2>1, <1>1 DEF KidsKept
    <2>4. ToSet(gathered) = Related(root, "eDescendents")
      <3>1. Gathered(root, "eDescendents") \in Seq(Objects)
        BY GatheredIs
      <3>2. gathered = Gathered(root, "eDescendents")
        BY <2>1, <2>3, <1>3, <3>1, ConcatEmptySeq
      <3> HIDE DEF gathered
      <3> QED
        BY <3>2, GatheredIs
    <2> HIDE DEF gathered, depth
    <2> DEFINE f == Frame(Object, gathered, depth)
               t == Append(Rest, f)
    <2>5. f.source = root /\ f.todo = gathered /\ f.depth = 1 /\ f \in AFrame
      BY <2>1, <2>2, <1>7, <1>8, <1>9 DEF Frame
    <2>6. stack' = t /\ list' = <<>> /\ processed' = {root} /\ added' = {root}
      BY <2>1, <2>2, <2>3, <1>7, <1>8, <1>9
    <2> HIDE DEF f
    <2>7. t \in Seq(AFrame) /\ Len(t) = 2 /\ t[1] = Rest[1] /\ t[2] = f /\ t # <<>>
      <3>1. Rest \in Seq(AFrame) /\ f \in AFrame
        BY <2>5, <1>2
      <3>2. /\ t \in Seq(AFrame) /\ t # <<>> /\ Len(t) = Len(Rest) + 1
            /\ \A i \in 1 .. Len(Rest) : t[i] = Rest[i]
            /\ t[Len(Rest) + 1] = f
        BY <3>1, Appended
      <3> HIDE DEF t
      <3>3. Len(Rest) = 1
        BY <2>1
      <3> QED
        BY <3>2, <3>3
    <2> HIDE DEF t
    <2>8. Rest[1].depth = 2
      BY <1>2, <1>5, <1>9
    <2>9. \A i \in 1 .. 2 : t[i].depth = 3 - i
      BY <2>5, <2>7, <2>8
    <2>10. FirstKept' /\ Begun'
      BY <2>1, <2>6, <2>7, <1>1 DEF FirstKept, Begun
    <2>11. KidsToDo(t) = Related(root, "eDescendents")
      BY <2>4, <2>5, <2>7 DEF KidsToDo
    <2>12. KidsToDo(stack)' = KidsToDo(t)
      BY <2>6 DEF KidsToDo
    <2> QED
      BY <2>5, <2>6, <2>7, <2>9, <2>10, <2>11, <2>12, <1>1, <1>6 DEF KidsKept
  <1>10. CASE n = 2
    <2>1. RelatedType = root /\ root \in processed /\ RelatedType # None
      BY <1>1, <1>2, <1>10, ConstantsAssumption DEF KidsKept
    <2>2. stack' = Rest
      BY <1>3, <1>7, <1>8, <1>10 DEF FetchWorker, DetectCycle, PushAgain
    <2>3. processed' = processed \cup {Object} /\ added' = added \cup {Object}
      <3>1. CASE DetectCycle
        <4>1. Object \in processed /\ UNCHANGED <<processed, added>>
          BY <3>1, <2>1 DEF DetectCycle, IsCycle
        <4> QED
          BY <4>1, <1>1 DEF KidsKept
      <3>2. CASE PushAgain
        <4>1. Object \in processed /\ UNCHANGED <<processed, added>>
          BY <3>2 DEF PushAgain
        <4> QED
          BY <4>1, <1>1 DEF KidsKept
      <3> QED
        BY <3>1, <3>2, <1>3, <1>7 DEF FetchWorker
    <2>4. Rest[1] = stack[1] /\ Rest # <<>> /\ Rest[2].source = root /\ Rest[2].depth = 1
          /\ Rest[2].todo = Tail(stack[2].todo) /\ Rest[1].depth = 2
      <3>1. Rest # <<>>
        BY <1>2, <1>10, EmptySeq
      <3>2. 1 \in 1 .. n - 1 /\ 1 \in 1 .. n
        BY <1>10
      <3>3. Rest[1] = stack[1] /\ stack[1].depth = 2
        BY <3>2, <1>1, <1>2 DEF KidsKept
      <3>4. Rest[2] = [source |-> RelatedType, todo |-> Tail(stack[2].todo), depth |-> stack[2].depth]
        BY <1>2, <1>10
      <3>5. stack[2].depth = 1
        BY <1>5, <1>10
      <3> QED
        BY <3>1, <3>3, <3>4, <3>5, <2>1
    <2>5. stack[1].source = None /\ stack[1].todo = <<>>
      BY <1>1, <1>10 DEF FirstKept
    <2>6. FirstKept' /\ Begun'
      BY <2>1, <2>2, <2>3, <2>4, <2>5, <1>1 DEF FirstKept, Begun
    <2>7. {Object} \cup KidsToDo(Rest) = KidsToDo(stack)
      <3>1. stack[2].todo \in Seq(Objects) /\ stack[2].todo # <<>> /\ Object = Head(stack[2].todo)
        BY <1>1, <1>2, <1>10 DEF AFrame, Calling, Object
      <3>2. ToSet(stack[2].todo) = {Object} \cup ToSet(Tail(stack[2].todo))
        BY <3>1, HeadAndTail
      <3> QED
        BY <3>2, <2>4, <1>2, <1>10 DEF KidsToDo
    <2>8. KidsToDo(stack)' = KidsToDo(Rest)
      BY <2>2 DEF KidsToDo
    <2>9. \A i \in 1 .. 2 : Rest[i].depth = 3 - i
      BY <2>4
    <2>10. processed \cup KidsToDo(stack) = {root} \cup Related(root, "eDescendents")
      BY <2>1, <1>1 DEF KidsKept
    <2>11. processed' \cup KidsToDo(Rest) = {root} \cup Related(root, "eDescendents")
      BY <2>3, <2>7, <2>10
    <2>12. added' = processed' /\ root \in processed'
      BY <2>1, <2>3, <1>1 DEF KidsKept
    <2> QED
      BY <2>2, <2>4, <2>6, <2>8, <2>9, <2>11, <2>12, <1>1, <1>2, <1>6, <1>10 DEF KidsKept
  <1> QED
    BY <1>4, <1>9, <1>10

LEMMA ReturnKids ==
    ASSUME KidsInv, KidsKept, task = "children", Return
    PROVE  KidsKept'
  <1> DEFINE n == Len(stack)
             t == Front(stack)
  <1>1. /\ TypeInv /\ WalksKept /\ KidsKept /\ FirstKept /\ stack # <<>> /\ ~ Calling /\ stack' = t
        /\ UNCHANGED <<xref, task, walks, root, mode, processed, added, list>>
    BY DEF KidsInv, KidsKept, Return
  <1>2. /\ n \in Nat \ {0} /\ Last(stack) = stack[n] /\ t \in Seq(AFrame) /\ Len(t) = n - 1
        /\ \A i \in 1 .. n - 1 : t[i] = stack[i]
    BY <1>1, Returned
  <1>3. stack[n].todo = <<>> /\ (n = 1 \/ n = 2)
    BY <1>1, <1>2 DEF Calling, KidsKept
  <1>4. stack[1].source = None /\ stack[1].todo = <<>>
    BY <1>1, <1>3 DEF FirstKept
  <1> HIDE DEF t
  <1>5. root \in processed
    BY <1>1, <1>4, WalkWasBegun DEF KidsKept, Begun, WithDatabase
  <1>6. KidsToDo(stack) = {} /\ KidsToDo(t) = {}
    <2>1. ToSet(<<>>) = {}
      BY DEF ToSet
    <2> QED
      BY <2>1, <1>2, <1>3 DEF KidsToDo
  <1>7. \A x, m : Related(x, m)' = Related(x, m)
    BY <1>1, SameLinks
  <1>8. KidsToDo(stack)' = KidsToDo(t)
    BY <1>1 DEF KidsToDo
  <1>9. Len(t) \in 0 .. 1 /\ \A i \in 1 .. Len(t) : t[i] = stack[i] /\ i \in 1 .. n
    BY <1>2, <1>3
  <1>10. t # <<>> => t[1] = stack[1]
    <2>1. t # <<>> => n - 1 # 0
      BY <1>2, EmptySeq
    <2> QED
      BY <2>1, <1>2
  <1>11. FirstKept' /\ Begun'
    BY <1>1, <1>4, <1>5, <1>10 DEF FirstKept, Begun
  <1>12. \A i \in 1 .. Len(t) : t[i].depth = 3 - i
    BY <1>1, <1>9 DEF KidsKept
  <1>13. Len(t) \in 0 .. 2 /\ Len(t) # 2
    BY <1>9
  <1> QED
    BY <1>1, <1>5, <1>6, <1>7, <1>8, <1>11, <1>12, <1>13 DEF KidsKept

LEMMA NextKids == KidsInv /\ [Next]_vars => KidsInv'
  <1> SUFFICES ASSUME KidsInv, [Next]_vars PROVE KidsInv'
    OBVIOUS
  <1>1. TypeInv' /\ WalksKept'
    BY NextTyped, NextWalks DEF KidsInv
  <1>2. task' = task
    BY DEF Next, StartWalk, FetchWorker, DetectCycle, GiveUp, ShortCircuit, PushAgain, Push, Return,
           ApplyGraphData, ApplySelf, ApplyToChild, ApplyToParent, EndApply, vars
  <1>3. ASSUME task = "children", pushCount' <= MaxPushCount PROVE KidsKept'
    <2>0. KidsKept /\ ~ GiveUp
      BY <1>3, CountGrows DEF KidsInv
    <2>1. CASE ApplyGraphData \/ UNCHANGED vars
      <3>1. UNCHANGED walkVars /\ xref' = xref
        BY <2>1 DEF ApplyGraphData, ApplySelf, ApplyToChild, ApplyToParent, EndApply, vars
      <3>2. UNCHANGED <<walks, root, mode, stack, list, processed, added>>
        BY <3>1 DEF walkVars
      <3>3. \A x, m : Related(x, m)' = Related(x, m)
        BY <3>1, SameLinks
      <3>4. WalksFor(task, root)' = WalksFor(task, root)
        BY <3>2, <1>2 DEF WalksFor, Walk
      <3>5. FirstKept' /\ Begun' = Begun /\ KidsToDo(stack)' = KidsToDo(stack)
        BY <2>0, <3>2, <1>3 DEF KidsKept, FirstKept, Begun, KidsToDo
      <3> QED
        BY <2>0, <3>2, <3>3, <3>4, <3>5, <1>2, <1>3 DEF KidsKept
    <2> QED
      BY <2>0, <2>1, <1>3, StartWalkKids, CallKids, ReturnKids DEF Next
  <1> QED
    BY <1>1, <1>2, <1>3 DEF KidsInv

LEMMA AllFound == FoundInv /\ KidsInv => WalkFindsAll
  <1> SUFFICES ASSUME FoundInv, KidsInv, Done, ~ WithDatabase, pushCount <= MaxPushCount
               PROVE  added = {root} \cup
                         CASE task = "ancestors"   -> Ancestors(root)
                           [] task = "descendents" -> Descendents(root)
                           [] task = "children"    -> Related(root, "eDescendents")
                           [] task = "all"         -> Ancestors(root) \cup Descendents(root)
    BY DEF WalkFindsAll
  <1>1. /\ TypeInv /\ WalksKept /\ stack = <<>> /\ walks = <<>>
        /\ walks # WalksFor(task, root)
        /\ task \in {"ancestors", "descendents", "children", "all"}
    <2>1. TypeInv /\ WalksKept /\ stack = <<>> /\ walks = <<>>
      BY DEF KidsInv, Done, WalksDone
    <2>2. task \in {"ancestors", "descendents", "children", "all"}
      BY <2>1 DEF TypeInv, TypeOK, Tasks, WithDatabase
    <2> QED
      BY <2>1, <2>2, WalkWasBegun
  <1>2. CASE task = "children"
    <2>1. KidsKept
      BY <1>2 DEF KidsInv
    <2>2. root \in processed
      BY <2>1, <1>1 DEF KidsKept, Begun
    <2>3. KidsToDo(stack) = {}
      <3>1. Len(stack) # 2
        BY <1>1
      <3> QED
        BY <3>1 DEF KidsToDo
    <2>4. added = {root} \cup Related(root, "eDescendents")
      BY <2>1, <2>2, <2>3 DEF KidsKept
    <2> QED
      BY <2>4, <1>2
  <1>3. CASE task # "children"
    <2>1. StackKept /\ FoundKept
      BY <1>3 DEF FoundInv, DeepInv
    <2>2. root \in processed
      BY <2>1, <1>1 DEF FoundKept, Begun
    <2>3. processed = {root} \cup Reach(root, LinksOf(mode))
      BY <2>1, <2>2, <1>1, WalkOver DEF FoundKept
    <2>4. ~ Fresh
      BY <2>2 DEF Fresh
    <2>5. CASE task = "ancestors"
      <3>1. Single /\ mode = "eAncestors"
        BY <2>5, <1>1, <2>4 DEF Single, WalksKept, ModeFor
      <3>2. added = {root} \cup Ancestors(root)
        BY <3>1, <2>1, <2>3 DEF FoundKept, LinksOf, Ancestors
      <3> QED
        BY <3>2, <2>5
    <2>6. CASE task = "descendents"
      <3>1. Single /\ mode = "eDescendents"
        BY <2>6, <1>1, <2>4 DEF Single, WalksKept, ModeFor
      <3>2. added = {root} \cup Descendents(root)
        BY <3>1, <2>1, <2>3 DEF FoundKept, LinksOf, Descendents
      <3> QED
        BY <3>2, <2>6
    <2>7. CASE task = "all"
      <3>1. Double /\ mode = "eDescendents"
        <4>1. Double
          BY <2>7 DEF Double
        <4>2. <<Walk(root, "eDescendents")>> # <<>>
          OBVIOUS
        <4> QED
          BY <4>1, <4>2, <1>1, <2>4 DEF WalksKept
      <3>2. processed = {root} \cup Descendents(root)
        BY <3>1, <2>3 DEF LinksOf, Descendents
      <3>3. added = processed \cup {root} \cup Ancestors(root)
        BY <2>1, <2>7, <1>1 DEF FoundKept
      <3>4. added = {root} \cup (Ancestors(root) \cup Descendents(root))
        BY <3>2, <3>3
      <3> QED
        BY <3>4, <2>7
    <2> QED
      BY <2>5, <2>6, <2>7, <1>1, <1>3
  <1> QED
    BY <1>2, <1>3

(* Whatever the links between the objects, as long as no chain of them is   *)
(* longer than the depth of the walk, a walk that makes no call too many     *)
(* finds the object and all its                                            *)
(* ancestors, all its descendants, or its children: fetchWorker loses        *)
(* nothing by the list that its calls share, nor by going on only for       *)
(* objects that are new (fetchWorker, ObjectGraph.ts:155).                 *)
THEOREM WalkFindsAllAlways ==
    ASSUME ShortPaths
    PROVE  Spec => []WalkFindsAll
  <1>1. FoundInv /\ [Next]_vars => FoundInv'
    BY NextFound
  <1> QED
    BY <1>1, InitFound, InitKids, NextKids, AllFound, PTL DEF Spec

-----------------------------------------------------------------------------
(* What a walk thinks of the hierarchy.                                     *)

(* A walk that reports no cycle, or a valid hierarchy, has met no link that *)
(* says otherwise; one that reports the contrary has met one.               *)
JudgedKept ==
    /\ valid => acyclic
    /\ acyclic => \A l \in Taken(stack, mode, processed) : l[2] # root
    /\ ~ acyclic => \E l \in Walked(mode, processed) : l[2] = root
    /\ valid => \A l \in Taken(stack, mode, processed) : Legal(l[2], l[1], mode)
    /\ acyclic /\ ~ valid => \E l \in Walked(mode, processed) : ~ Legal(l[2], l[1], mode)

JudgedInv == DeepInv /\ (task \in {"ancestors", "descendents"} /\ pushCount <= MaxPushCount => JudgedKept)

LEMMA InitJudged == Init => JudgedInv
  <1> SUFFICES ASSUME Init PROVE JudgedInv
    OBVIOUS
  <1>1. processed = {} /\ valid = TRUE /\ acyclic = TRUE
    BY DEF Init
  <1>2. Taken(stack, mode, processed) = {}
    BY <1>1 DEF Taken, Walked
  <1> QED
    BY <1>1, <1>2, InitDeep DEF JudgedInv, JudgedKept

LEMMA StartWalkJudged ==
    ASSUME JudgedInv, task \in {"ancestors", "descendents"}, StartWalk
    PROVE  JudgedKept'
  <1>1. TypeInv /\ WalksKept /\ Single /\ task # "full"
    BY DEF JudgedInv, DeepInv, Single
  <1>2. Taken(stack, mode, processed)' = {}
    BY <1>1, StartTakes
  <1>3. valid' = TRUE /\ acyclic' = TRUE
    BY <1>1, WalkBegins DEF Fresh
  <1> QED
    BY <1>2, <1>3 DEF JudgedKept

LEMMA CallJudged ==
    ASSUME JudgedInv, JudgedKept, task \in {"ancestors", "descendents"}, ShortPaths,
           FetchWorker, ~ GiveUp
    PROVE  JudgedKept'
  <1>1. /\ DeepInv /\ TypeInv /\ ~ ShortCircuit /\ task # "children"
        /\ UNCHANGED <<xref, task, walks, root, mode>>
        /\ acyclic \in BOOLEAN /\ valid \in BOOLEAN
    BY CallUnchanged DEF JudgedInv, DeepInv, ShortCircuit, AlreadyProcessed, WithDatabase, TypeInv, TypeOK
  <1> DEFINE T == Taken(stack, mode, processed)
             T2 == Taken(stack, mode, processed)'
             W == Walked(mode, processed)
             W2 == Walked(mode, processed)'
             k == <<RelatedType, Object>>
  <1>2. T2 \subseteq T \cup NewLink /\ NewLink \subseteq W
    BY <1>1, CallsTake
  <1>3. /\ RelatedType = None => NewLink = {}
        /\ RelatedType # None => NewLink = {k}
        /\ k[1] = RelatedType /\ k[2] = Object
    BY DEF NewLink
  <1>4. W \subseteq W2
    <2>1. \A x, m : Related(x, m)' = Related(x, m)
      BY <1>1, SameLinks
    <2>2. processed \subseteq processed'
      BY DEF FetchWorker, DetectCycle, GiveUp, ShortCircuit, PushAgain, Push
    <2> QED
      BY <2>1, <2>2, <1>1 DEF Walked
  <1>5. \A l : Legal(l[2], l[1], mode)' <=> Legal(l[2], l[1], mode)
    BY <1>1 DEF Legal
  <1>6. /\ valid => acyclic
        /\ acyclic => \A l \in T : l[2] # root
        /\ ~ acyclic => \E l \in W : l[2] = root
        /\ valid => \A l \in T : Legal(l[2], l[1], mode)
        /\ acyclic /\ ~ valid => \E l \in W : ~ Legal(l[2], l[1], mode)
    BY DEF JudgedKept
  <1>7. SUFFICES /\ valid' => acyclic'
                 /\ acyclic' => \A l \in T2 : l[2] # root
                 /\ ~ acyclic' => \E l \in W2 : l[2] = root
                 /\ valid' => \A l \in T2 : Legal(l[2], l[1], mode)
                 /\ acyclic' /\ ~ valid' => \E l \in W2 : ~ Legal(l[2], l[1], mode)
    BY <1>1, <1>5 DEF JudgedKept
  <1> HIDE DEF T, T2, W, W2, k
  <1>8. CASE DetectCycle
    <2>1. RelatedType # None /\ Object = root /\ acyclic' = FALSE /\ valid' = FALSE
      BY <1>8 DEF DetectCycle, IsCycle
    <2>2. k \in W2
      BY <2>1, <1>2, <1>3, <1>4
    <2> QED
      BY <2>1, <2>2, <1>3
  <1>9. CASE PushAgain \/ Push
    <2>1. ~ IsCycle /\ acyclic' = acyclic /\ valid' = (valid /\ Legal(Object, RelatedType, mode))
      BY <1>9 DEF PushAgain, Push
    <2>2. CASE RelatedType = None
      <3>1. Legal(Object, RelatedType, mode)
        BY <2>2 DEF Legal
      <3>2. valid' <=> valid
        BY <3>1, <2>1
      <3>3. T2 \subseteq T
        BY <2>2, <1>2, <1>3
      <3> QED
        BY <3>2, <3>3, <2>1, <1>4, <1>6
    <2>3. CASE RelatedType # None
      <3>1. Object # root
        BY <2>1, <2>3 DEF IsCycle
      <3>2. k \in W2 /\ T2 \subseteq T \cup {k}
        BY <2>3, <1>2, <1>3, <1>4
      <3>3. valid' => acyclic'
        BY <2>1, <1>6
      <3>4. acyclic' => \A l \in T2 : l[2] # root
        BY <3>1, <3>2, <2>1, <1>3, <1>6
      <3>5. ~ acyclic' => \E l \in W2 : l[2] = root
        BY <2>1, <1>4, <1>6
      <3>6. valid' => \A l \in T2 : Legal(l[2], l[1], mode)
        BY <3>2, <2>1, <1>3, <1>6
      <3>7. acyclic' /\ ~ valid' => \E l \in W2 : ~ Legal(l[2], l[1], mode)
        BY <3>2, <2>1, <1>3, <1>4, <1>6
      <3> QED
        BY <3>3, <3>4, <3>5, <3>6, <3>7
    <2> QED
      BY <2>2, <2>3
  <1> QED
    BY <1>1, <1>8, <1>9 DEF FetchWorker

LEMMA NextJudged == ASSUME ShortPaths PROVE JudgedInv /\ [Next]_vars => JudgedInv'
  <1> SUFFICES ASSUME JudgedInv, [Next]_vars PROVE JudgedInv'
    OBVIOUS
  <1>1. DeepInv /\ DeepInv'
    BY NextDeep DEF JudgedInv
  <1>2. task' = task
    BY DEF Next, StartWalk, FetchWorker, DetectCycle, GiveUp, ShortCircuit, PushAgain, Push, Return,
           ApplyGraphData, ApplySelf, ApplyToChild, ApplyToParent, EndApply, vars
  <1>3. ASSUME task \in {"ancestors", "descendents"}, pushCount' <= MaxPushCount PROVE JudgedKept'
    <2>1. JudgedKept /\ ~ GiveUp
      BY <1>1, <1>3, CountGrows DEF JudgedInv, DeepInv
    <2>2. CASE Return \/ ApplyGraphData \/ UNCHANGED vars
      <3>1. UNCHANGED <<xref, root, mode, valid, acyclic>>
        BY <2>2 DEF Return, ApplyGraphData, ApplySelf, ApplyToChild, ApplyToParent, EndApply, vars, walkVars
      <3>2. Taken(stack, mode, processed)' = Taken(stack, mode, processed)
        <4>1. CASE Return
          BY <4>1, <1>1, <1>3, ReturnTakes DEF DeepInv
        <4>2. CASE ApplyGraphData \/ UNCHANGED vars
          <5>1. UNCHANGED <<stack, processed>>
            BY <4>2 DEF ApplyGraphData, ApplySelf, ApplyToChild, ApplyToParent, EndApply, vars, walkVars
          <5> QED
            BY <5>1, <3>1, SameTaken
        <4> QED
          BY <2>2, <4>1, <4>2
      <3>3. \A l : Legal(l[2], l[1], mode)' <=> Legal(l[2], l[1], mode)
        BY <3>1 DEF Legal
      <3>4. Walked(mode, processed)' = Walked(mode, processed)
        <4>1. processed' = processed
          BY <2>2 DEF Return, ApplyGraphData, ApplySelf, ApplyToChild, ApplyToParent, EndApply, vars, walkVars
        <4>2. \A y, m : Related(y, m)' = Related(y, m)
          BY <3>1, SameLinks
        <4> QED
          BY <4>1, <4>2, <3>1 DEF Walked
      <3> QED
        BY <2>1, <3>1, <3>2, <3>3, <3>4 DEF JudgedKept
    <2> QED
      BY <2>1, <2>2, <1>3, StartWalkJudged, CallJudged DEF Next
  <1> QED
    BY <1>1, <1>2, <1>3 DEF JudgedInv

(* An object is reached from itself when a link leads back to it.           *)
LEMMA ReachesItself ==
    ASSUME NEW o \in Objects, NEW links \in SUBSET (Objects \X Objects),
           NEW A, A = {o} \cup Reach(o, links)
    PROVE  LET own == {l \in links : l[1] \in A}
           IN /\ own \in SUBSET (Objects \X Objects)
              /\ o \in Reach(o, own) <=> \E l \in own : l[2] = o
  <1> DEFINE own == {l \in links : l[1] \in A}
             R == Reach(o, own)
  <1>1. own \in SUBSET (Objects \X Objects)
    OBVIOUS
  <1>2. /\ R \in SUBSET Objects
        /\ \A l \in own : l[1] = o \/ l[1] \in R => l[2] \in R
        /\ \A S \in SUBSET Objects : (\A l \in own : l[1] = o \/ l[1] \in S => l[2] \in S) => R \subseteq S
    <2> HIDE DEF own
    <2> QED
      BY <1>1, ReachIsLeast
  <1>3. /\ Reach(o, links) \in SUBSET Objects
        /\ \A l \in links : l[1] = o \/ l[1] \in Reach(o, links) => l[2] \in Reach(o, links)
        /\ \A S \in SUBSET Objects :
              (\A l \in links : l[1] = o \/ l[1] \in S => l[2] \in S) => Reach(o, links) \subseteq S
    BY ReachIsLeast
  <1> HIDE DEF R
  <1>4. R \subseteq Reach(o, links)
    <2>1. \A l \in own : l[1] = o \/ l[1] \in Reach(o, links) => l[2] \in Reach(o, links)
      BY <1>3
    <2> QED
      BY <2>1, <1>2, <1>3
  <1>5. Reach(o, links) \subseteq R
    <2>1. \A l \in links : l[1] = o \/ l[1] \in R => l \in own
      BY <1>4
    <2>2. \A l \in links : l[1] = o \/ l[1] \in R => l[2] \in R
      BY <2>1, <1>2
    <2> QED
      BY <2>2, <1>2, <1>3
  <1>6. ASSUME NEW l \in own, l[2] = o PROVE o \in R
    <2>1. l[1] \in {o} \cup R
      BY <1>5
    <2> QED
      BY <2>1, <1>2, <1>6
  <1>7. ASSUME o \in R, \A l \in own : l[2] # o PROVE FALSE
    <2> DEFINE S == R \ {o}
    <2>1. S \in SUBSET Objects /\ \A l \in own : l[1] = o \/ l[1] \in S => l[2] \in S
      BY <1>2, <1>7
    <2> HIDE DEF S
    <2>2. R \subseteq S
      BY <2>1, <1>2
    <2> QED
      BY <2>2, <1>7 DEF S
  <1> QED
    BY <1>1, <1>6, <1>7 DEF R

(* What may be a child going up may be a parent going down.                 *)
LEMMA KindsAgree ==
    ASSUME NEW p \in Objects, NEW c \in Objects, Kind[c] # "asset"
    PROVE  Kind[c] \in AllowedChildren[Kind[p]] <=> Kind[p] \in AllowedParents[Kind[c]]
  <1> DEFINE Kinds == {"unit", "project", "subject", "item", "captureData", "model", "scene",
                       "intermediaryFile", "projectDocumentation", "asset", "assetVersion",
                       "actor", "stakeholder"}
  <1>1. Kind[p] \in Kinds /\ Kind[c] \in Kinds
    BY ConstantsAssumption
  <1>2. ASSUME NEW k \in Kinds, NEW j \in Kinds, k # "asset"
        PROVE  k \in AllowedChildren[j] <=> j \in AllowedParents[k]
    BY <1>2 DEF AllowedChildren, AllowedParents
  <1> QED
    BY <1>1, <1>2

LEMMA AssetParents ==
    ASSUME NEW p \in Objects
    PROVE  Kind[p] \in AllowedParents["asset"]
  BY ConstantsAssumption DEF AllowedParents, AllowedChildren

LEMMA OwnersOfAssets ==
    ASSUME NEW p \in Objects
    PROVE  Kind[p] \in AssetOwners <=> "asset" \in AllowedChildren[Kind[p]]
  BY ConstantsAssumption DEF AssetOwners, AllowedChildren

LEMMA AllJudged == FoundInv /\ JudgedInv => HierarchyJudged
  <1> DEFINE Good(p, c) == /\ Kind[p] \in AllowedParents[Kind[c]]
                           /\ task = "ancestors" /\ Kind[c] = "asset" => Kind[p] \in AssetOwners
  <1> SUFFICES ASSUME FoundInv, JudgedInv, Done, task \in {"ancestors", "descendents"},
                      pushCount <= MaxPushCount
               PROVE  LET links == IF task = "ancestors"
                                   THEN {l \in Up : l[2] \in added}
                                   ELSE {l \in Down : l[1] \in added}
                      IN /\ acyclic = (root \notin Reach(root, links))
                         /\ valid = (acyclic /\ \A l \in links : Good(l[1], l[2]))
    BY DEF HierarchyJudged
  <1>1. /\ TypeInv /\ WalksKept /\ StackKept /\ FoundKept /\ JudgedKept
        /\ stack = <<>> /\ walks = <<>> /\ ~ WithDatabase /\ Single
        /\ acyclic \in BOOLEAN /\ valid \in BOOLEAN
        /\ root \in Objects
    BY Walking DEF FoundInv, JudgedInv, DeepInv, Done, WalksDone, WithDatabase, Single, TypeInv, TypeOK
  <1>2. root \in processed
    BY <1>1, WalkWasBegun DEF FoundKept, Begun
  <1>3. added = processed /\ added = {root} \cup Reach(root, LinksOf(mode)) /\ added \subseteq Objects
    BY <1>1, <1>2, WalkOver, Walking DEF FoundKept
  <1>4. mode = ModeFor
    BY <1>1, <1>2 DEF WalksKept, Fresh
  <1> DEFINE own == {l \in LinksOf(mode) : l[1] \in added}
  <1>5. LinksOf(mode) \in SUBSET (Objects \X Objects)
    BY <1>1, LinksOfIs
  <1>6. own \in SUBSET (Objects \X Objects) /\ (root \in Reach(root, own) <=> \E l \in own : l[2] = root)
    BY <1>1, <1>3, <1>5, ReachesItself
  <1>7. Taken(stack, mode, processed) = own
    <2>1. \A o, x : ~ Open(stack, o, x)
      BY <1>1, NoFrames, EmptySeq
    <2>2. Taken(stack, mode, processed) = Walked(mode, processed)
      BY <2>1 DEF Taken
    <2>3. ASSUME NEW l PROVE l \in Walked(mode, processed) <=> l \in own
      <3>1. ASSUME l \in Objects \X Objects PROVE l \in LinksOf(mode) <=> l[2] \in Related(l[1], mode)
        <4>1. l = <<l[1], l[2]>> /\ l[1] \in Objects /\ l[2] \in Objects
          BY <3>1
        <4> QED
          BY <4>1, <1>1, LinksOfIs
      <3> QED
        BY <3>1, <1>3, <1>5 DEF Walked
    <2> QED
      BY <2>2, <2>3
  <1> HIDE DEF own
  <1>14. Walked(mode, processed) = own
    <2>1. ASSUME NEW l \in Objects \X Objects PROVE l \in LinksOf(mode) <=> l[2] \in Related(l[1], mode)
      <3>1. l = <<l[1], l[2]>> /\ l[1] \in Objects /\ l[2] \in Objects
        OBVIOUS
      <3> QED
        BY <3>1, <1>1, LinksOfIs
    <2> QED
      BY <2>1, <1>3, <1>5 DEF Walked, own
  <1>8. /\ acyclic <=> root \notin Reach(root, own)
        /\ valid <=> acyclic /\ \A l \in own : Legal(l[2], l[1], mode)
    BY <1>1, <1>6, <1>7, <1>14 DEF JudgedKept
  <1>9. None \notin Objects
    BY ConstantsAssumption
  <1>10. CASE task = "descendents"
    <2> DEFINE links == {l \in Down : l[1] \in added}
    <2>1. mode = "eDescendents" /\ own = links
      BY <1>4, <1>10 DEF ModeFor, LinksOf, own
    <2> HIDE DEF links
    <2>2. ASSUME NEW l \in own PROVE Legal(l[2], l[1], mode) <=> Good(l[1], l[2])
      <3>1. l[1] \in Objects
        BY <1>6
      <3> QED
        BY <3>1, <2>1, <1>9, <1>10 DEF Legal
    <2> HIDE DEF Good
    <2>3. acyclic = (root \notin Reach(root, links))
      BY <2>1, <1>1, <1>8
    <2>4. valid = (acyclic /\ \A l \in links : Good(l[1], l[2]))
      BY <2>1, <2>2, <1>1, <1>8
    <2> QED
      BY <2>3, <2>4, <1>10 DEF links
  <1>11. CASE task = "ancestors"
    <2> DEFINE links == {l \in Up : l[2] \in added}
    <2>1. mode = "eAncestors" /\ LinksOf(mode) = Inverted(Up)
      BY <1>4, <1>11 DEF ModeFor, LinksOf
    <2>2. Up \in SUBSET (Objects \X Objects)
      BY <1>1, DownFinite
    <2>3. links \in SUBSET (Objects \X Objects)
      BY <2>2
    <2>4. \A a, b : <<a, b>> \in own <=> <<b, a>> \in links
      <3> SUFFICES ASSUME NEW a, NEW b PROVE <<a, b>> \in own <=> <<b, a>> \in links
        OBVIOUS
      <3>1. <<a, b>> \in Inverted(Up) <=> <<b, a>> \in Up
        BY <2>2, InvertedTyped
      <3>2. <<a, b>>[1] = a /\ <<b, a>>[2] = a
        OBVIOUS
      <3> QED
        BY <3>1, <3>2, <2>1 DEF own
    <2> HIDE DEF links
    <2>5. own = Inverted(links)
      <3>1. Inverted(links) \in SUBSET (Objects \X Objects) /\ \A a, b : <<a, b>> \in Inverted(links) <=> <<b, a>> \in links
        BY <2>3, InvertedTyped
      <3>2. own \in SUBSET (Objects \X Objects)
        BY <1>6
      <3>3. \A a, b : <<a, b>> \in own <=> <<a, b>> \in Inverted(links)
        BY <3>1, <2>4
      <3>4. Inverted(links) \in SUBSET (Objects \X Objects)
        BY <3>1
      <3> QED
        BY <3>2, <3>3, <3>4
    <2>6. root \in Reach(root, links) <=> root \in Reach(root, own)
      BY <2>3, <2>5, <1>1, ReachInverted
    <2>7. ASSUME NEW p \in Objects, NEW c \in Objects, <<p, c>> \in links
          PROVE  Legal(p, c, mode) <=> Good(p, c)
      <3>1. Legal(p, c, mode) <=> Kind[c] \in AllowedChildren[Kind[p]]
        BY <2>1, <1>9 DEF Legal
      <3>2. CASE Kind[c] = "asset"
        <4>1. Kind[p] \in AllowedParents[Kind[c]]
          BY <3>2, AssetParents
        <4>2. Kind[p] \in AssetOwners <=> Kind[c] \in AllowedChildren[Kind[p]]
          BY <3>2, OwnersOfAssets
        <4> QED
          BY <4>1, <4>2, <3>1, <3>2, <1>11
      <3>3. CASE Kind[c] # "asset"
        BY <3>1, <3>3, KindsAgree
      <3> QED
        BY <3>2, <3>3
    <2> HIDE DEF Good
    <2>8. (\A l \in own : Legal(l[2], l[1], mode))
             <=> \A l \in links : Good(l[1], l[2])
      <3>1. ASSUME \A l \in own : Legal(l[2], l[1], mode), NEW l \in links
            PROVE  Good(l[1], l[2])
        <4>1. l = <<l[1], l[2]>> /\ l[1] \in Objects /\ l[2] \in Objects
          BY <2>3
        <4> DEFINE k == <<l[2], l[1]>>
        <4>2. k \in own /\ k[1] = l[2] /\ k[2] = l[1]
          BY <4>1, <2>4
        <4>3. Legal(k[2], k[1], mode)
          BY <4>2, <3>1
        <4>4. Legal(l[1], l[2], mode)
          BY <4>2, <4>3
        <4> QED
          BY <4>1, <4>4, <2>7
      <3>2. ASSUME \A l \in links : Good(l[1], l[2]), NEW l \in own
            PROVE  Legal(l[2], l[1], mode)
        <4>1. l = <<l[1], l[2]>> /\ l[1] \in Objects /\ l[2] \in Objects
          BY <1>6
        <4> DEFINE k == <<l[2], l[1]>>
        <4>2. k \in links /\ k[1] = l[2] /\ k[2] = l[1]
          BY <4>1, <2>4
        <4>3. Good(k[1], k[2])
          BY <4>2, <3>2
        <4>4. Good(l[2], l[1])
          BY <4>2, <4>3
        <4> QED
          BY <4>1, <4>2, <4>4, <2>7
      <3> QED
        BY <3>1, <3>2
    <2>9. acyclic = (root \notin Reach(root, links))
      BY <2>6, <1>1, <1>8
    <2>10. valid = (acyclic /\ \A l \in links : Good(l[1], l[2]))
      BY <2>8, <1>1, <1>8
    <2> QED
      BY <2>9, <2>10, <1>11 DEF links
  <1> QED
    BY <1>10, <1>11

(* As long as no chain of links is longer than the depth of the walk, what   *)
(* a walk that makes no call too many reports is exact: a cycle when the     *)
(* object it began with is on one, and an invalid hierarchy when there is    *)
(* such a cycle, or a link it met joins kinds that do not belong together    *)
(* (validHierarchy, noCycles and the push methods, ObjectGraph.ts).          *)
THEOREM HierarchyJudgedAlways ==
    ASSUME ShortPaths
    PROVE  Spec => []HierarchyJudged
  <1>1. FoundInv /\ [Next]_vars => FoundInv'
    BY NextFound
  <1>2. JudgedInv /\ [Next]_vars => JudgedInv'
    BY NextJudged
  <1>3. FoundInv /\ JudgedInv => HierarchyJudged
    BY AllJudged
  <1> QED
    BY <1>1, <1>2, <1>3, InitFound, InitJudged, PTL DEF Spec

-----------------------------------------------------------------------------
(* The full index.                                                          *)

LinksInv == DeepInv /\ LinksOfEntries /\ recorded \subseteq AllLinks

LEMMA InitLinks == Init => LinksInv
  BY InitDeep DEF Init, LinksInv, LinksOfEntries

LEMMA NextLinks == ASSUME ShortPaths PROVE LinksInv /\ [Next]_vars => LinksInv'
  <1> SUFFICES ASSUME LinksInv, [Next]_vars PROVE LinksInv'
    OBVIOUS
  <1>1. DeepInv' /\ DeepInv /\ TypeInv /\ LinksOfEntries /\ recorded \subseteq AllLinks
    BY NextDeep DEF LinksInv, DeepInv
  <1>2. CASE ShortCircuit \/ Push
    <2>1. RecordRelationship(Object) /\ Calling /\ FetchWorker
      BY <1>2 DEF ShortCircuit, Push, FetchWorker
    <2>2. LinksOfEntries'
      BY <2>1, <1>1, RecordsLinks
    <2>3. CASE WithDatabase /\ RelatedType # None
      <3>1. recorded' = recorded \cup {Link(Object, RelatedType, mode)}
        BY <2>1, <2>3, <1>1, Recorded
      <3>2. Object \in Related(RelatedType, mode)
        BY <2>1, <2>3, <1>1, CallsTake DEF WithDatabase
      <3>3. Down \subseteq AllLinks /\ Up \subseteq AllLinks /\ mode \in Modes
        BY <1>1, Walking DEF Down, Up, AllLinks, TypeInv, TypeOK
      <3>4. Link(Object, RelatedType, mode) \in AllLinks
        BY <3>2, <3>3 DEF Related, Ends, Link, Modes
      <3> QED
        BY <3>1, <3>4, <2>2, <1>1 DEF LinksInv
    <2>4. CASE ~ (WithDatabase /\ RelatedType # None)
      BY <2>1, <2>2, <2>4, <1>1, Recorded DEF LinksInv
    <2> QED
      BY <2>3, <2>4
  <1>3. CASE Return
    <2>1. EntrySet \subseteq EntrySet' /\ recorded' = recorded
      BY <1>1, <1>3, ReturnRecords DEF EntrySet, Return
    <2> QED
      BY <2>1, <1>1 DEF LinksInv, LinksOfEntries
  <1>4. CASE StartWalk \/ DetectCycle \/ GiveUp \/ PushAgain \/ ApplyGraphData \/ UNCHANGED vars
    <2>1. UNCHANGED <<entries, recorded>>
      BY <1>4 DEF StartWalk, DetectCycle, GiveUp, PushAgain, ApplyGraphData, ApplySelf, ApplyToChild,
                  ApplyToParent, EndApply, vars, walkVars
    <2> QED
      BY <2>1, <1>1 DEF LinksInv, LinksOfEntries, EntrySet
  <1> QED
    BY <1>2, <1>3, <1>4 DEF Next, FetchWorker

(* The objects that are fetched, and all that is below them.                *)
Covered == UNION {{o} \cup Reach(o, Down) : o \in ToSet(FetchOrder)}

CoverKept ==
    /\ root \in ToSet(FetchOrder)
    /\ \A w \in ToSet(walks) : w.object \in ToSet(FetchOrder)
    /\ EntrySet \subseteq Covered

CoverInv == DeepInv /\ (task = "full" => CoverKept)

LEMMA InitCover == Init => CoverInv
  <1> SUFFICES ASSUME Init PROVE CoverInv
    OBVIOUS
  <1>1. entries = <<>> /\ walks = WalksFor(task, root)
    BY DEF Init
  <1>2. EntrySet = {}
    BY <1>1 DEF EntrySet, ToSet
  <1>3. FetchOrder \in Seq(Objects) /\ FetchOrder # <<>>
    BY ConstantsAssumption
  <1>4. ASSUME task = "full" PROVE root \in ToSet(FetchOrder)
    <2>1. root = Head(FetchOrder)
      BY <1>4 DEF Init
    <2> QED
      BY <2>1, <1>3, HeadAndTail
  <1>5. ASSUME task = "full", NEW w \in ToSet(walks) PROVE w.object \in ToSet(FetchOrder)
    <2>1. walks = [i \in DOMAIN FetchOrder |-> Walk(FetchOrder[i], "eDescendents")]
      BY <1>1, <1>5 DEF WalksFor
    <2>2. PICK i \in DOMAIN FetchOrder : w = Walk(FetchOrder[i], "eDescendents")
      BY <2>1, <1>5 DEF ToSet
    <2>3. w.object = FetchOrder[i]
      BY <2>2 DEF Walk
    <2> QED
      BY <2>3 DEF ToSet
  <1> QED
    BY <1>2, <1>4, <1>5, InitDeep DEF CoverInv, CoverKept

LEMMA NextCover == ASSUME ShortPaths PROVE CoverInv /\ [Next]_vars => CoverInv'
  <1> SUFFICES ASSUME CoverInv, [Next]_vars PROVE CoverInv'
    OBVIOUS
  <1>1. DeepInv /\ DeepInv' /\ TypeInv /\ WalksKept
    BY NextDeep DEF CoverInv, DeepInv
  <1>2. task' = task /\ xref' = xref
    BY DEF Next, StartWalk, FetchWorker, DetectCycle, GiveUp, ShortCircuit, PushAgain, Push, Return,
           ApplyGraphData, ApplySelf, ApplyToChild, ApplyToParent, EndApply, vars
  <1>3. Covered' = Covered
    <2>1. Down' = Down
      BY <1>2, SameLinks
    <2> QED
      BY <2>1 DEF Covered, Reach, Successors
  <1>4. ASSUME task = "full" PROVE CoverKept'
    <2>1. CoverKept /\ StackKept /\ WithDatabase
      BY <1>1, <1>4 DEF CoverInv, DeepInv, WithDatabase
    <2>2. CASE StartWalk
      <3>1. walks # <<>> /\ root' = Head(walks).object /\ walks' = Tail(walks) /\ entries' = entries
        BY <2>2 DEF StartWalk
      <3>2. walks \in Seq(AWalk)
        BY <1>1, Walking
      <3>3. ToSet(walks) = {Head(walks)} \cup ToSet(Tail(walks))
        BY <3>1, <3>2, HeadAndTail
      <3> QED
        BY <3>1, <3>3, <2>1, <1>3 DEF CoverKept, EntrySet
    <2>3. CASE ShortCircuit \/ Push
      <3>1. RecordRelationship(Object) /\ Calling /\ FetchWorker /\ UNCHANGED <<walks, root>>
        BY <2>3 DEF ShortCircuit, Push, FetchWorker
      <3>2. CASE RelatedType = None
        <4>1. EntrySet' = EntrySet
          BY <3>1, <3>2, <1>1, Recorded DEF EntrySet
        <4> QED
          BY <4>1, <3>1, <2>1, <1>3 DEF CoverKept
      <3>3. CASE RelatedType # None
        <4>1. EntrySet' = EntrySet \cup {Object, RelatedType}
          BY <3>1, <3>3, <2>1, <1>1, Recorded DEF EntrySet
        <4>2. /\ RelatedType \in processed /\ Object \in Related(RelatedType, mode)
              /\ mode = "eDescendents" /\ root \in Objects
          BY <3>1, <3>3, <1>1, <1>4, CallsTake, Walking DEF WalksKept, Calling
        <4>3. LinksOf(mode) = Down
          BY <4>2 DEF LinksOf
        <4>4. RelatedType \in {root} \cup Reach(root, LinksOf(mode))
          BY <4>2, <2>1 DEF StackKept
        <4>5. Object \in Reach(root, LinksOf(mode))
          BY <4>2, <4>4, <1>1, RelatedReached
        <4>6. {Object, RelatedType} \subseteq Covered
          BY <4>3, <4>4, <4>5, <2>1 DEF Covered, CoverKept
        <4> QED
          BY <4>1, <4>6, <3>1, <2>1, <1>3 DEF CoverKept
      <3> QED
        BY <3>2, <3>3
    <2>4. CASE Return
      <3>1. EntrySet' \subseteq EntrySet \cup {root} /\ UNCHANGED <<walks, root>>
        BY <2>4, <1>1, ReturnRecords DEF EntrySet, Return
      <3>2. root \in Covered
        BY <2>1 DEF Covered, CoverKept
      <3> QED
        BY <3>1, <3>2, <2>1, <1>3 DEF CoverKept
    <2>5. CASE DetectCycle \/ GiveUp \/ PushAgain \/ ApplyGraphData \/ UNCHANGED vars
      <3>1. UNCHANGED <<entries, walks, root>>
        BY <2>5 DEF DetectCycle, GiveUp, PushAgain, ApplyGraphData, ApplySelf, ApplyToChild,
                    ApplyToParent, EndApply, vars, walkVars
      <3> QED
        BY <3>1, <2>1, <1>3 DEF CoverKept, EntrySet
    <2> QED
      BY <2>2, <2>3, <2>4, <2>5 DEF Next, FetchWorker
  <1> QED
    BY <1>1, <1>2, <1>4 DEF CoverInv

(* A link of an object that is known is recorded, or still to be taken, or  *)
(* it closed a cycle at the object a walk began with.                       *)
LinksKept ==
    \A o \in EntrySet \cup processed : \A y \in Related(o, "eDescendents") :
        \/ <<o, y>> \in recorded
        \/ Open(stack, o, y)
        \/ o \in Reach(y, Down) /\ y \in EntrySet \cup processed

FullKept ==
    /\ processed \subseteq EntrySet \cup (IF stack = <<>> THEN {} ELSE {root})
    /\ processed \subseteq {root} \/ root \in EntrySet
    /\ stack # <<>> /\ stack[1].todo = <<>> => root \in EntrySet \cup processed
    /\ recorded \subseteq Down
    /\ LinksKept
    /\ \A o \in ToSet(FetchOrder) :
          \/ o \in EntrySet
          \/ stack # <<>> /\ o = root
          \/ Walk(o, "eDescendents") \in ToSet(walks)

(* As long as there are not too many links.                                 *)
FullInv == DeepInv /\ (task = "full" /\ 1 + LinkCount <= MaxPushCount => FullKept)

LEMMA NeverTooMany ==
    ASSUME CountInv, task = "full", 1 + LinkCount <= MaxPushCount
    PROVE  ~ GiveUp
  <1> SUFFICES ASSUME GiveUp PROVE FALSE
    OBVIOUS
  <1>1. TypeInv /\ Linear /\ Calling /\ ~ (pushCount < MaxPushCount) /\ stack # <<>> /\ ~ Double
    BY DEF CountInv, GiveUp, Allowed, Calling, Double
  <1>2. Pending(stack) \in Nat \ {0} /\ WalkedCount(mode, processed) <= LinkCount
    BY <1>1, PendingCall, WalkedBound
  <1>3. pushCount + Len(list) + Pending(stack) <= 0 + 1 + WalkedCount(mode, processed)
    BY <1>1 DEF Linear, Fresh, Calls, FirstWalk
  <1>4. /\ pushCount \in Nat /\ Len(list) \in Nat
        /\ LinkCount \in Nat /\ WalkedCount(mode, processed) \in Nat /\ MaxPushCount \in Nat
    BY <1>1, Numbers, ConstantsAssumption
  <1> QED
    BY <1>1, <1>2, <1>3, <1>4

(* What a call opens and closes.                                            *)
LEMMA CallsOpen ==
    ASSUME DeepInv, task # "children", ShortPaths, FetchWorker
    PROVE  /\ stack' # <<>>
           /\ \A o, x : Open(stack, o, x) => Open(stack', o, x) \/ (o = RelatedType /\ x = Object)
           /\ \A x : Push /\ x \in Related(Object, mode) => Open(stack', Object, x)
  <1>1. /\ TypeInv /\ StackKept /\ Calling /\ FirstKept /\ FramesKept(stack, mode, processed)
    BY DEF DeepInv, StackKept, FetchWorker, DetectCycle, GiveUp, ShortCircuit, PushAgain, Push
  <1>2. /\ FramesKept(Rest, mode, processed) /\ Rest # <<>> /\ Rest \in Seq(AFrame)
        /\ \A o, x : Open(stack, o, x) => Open(Rest, o, x) \/ (o = RelatedType /\ x = Object)
    <2>1. CASE Len(stack) = 1
      BY <2>1, <1>1, FirstCall, Called
    <2>2. CASE Len(stack) # 1
      BY <2>2, <1>1, LaterCall, Called
    <2> QED
      BY <2>1, <2>2
  <1>3. CASE Push
    <2>1. PICK f \in AFrame :
              /\ f.source = Object
              /\ ToSet(f.todo) = Related(Object, mode)
              /\ stack' = Append(Rest, f)
      BY <1>3, DeepPush
    <2>2. Object \notin processed
      BY <1>3 DEF Push
    <2>3. \A o, x : Open(Append(Rest, f), o, x) <=> \/ Open(Rest, o, x)
                                                    \/ o = f.source /\ x \in Related(o, mode)
      BY <2>1, <2>2, <1>2, FrameAdded
    <2>4. stack' # <<>>
      BY <2>1, <1>2, Appended
    <2> QED
      BY <2>1, <2>3, <2>4, <1>2
  <1>4. CASE ~ Push
    <2>1. stack' = Rest
      BY <1>4 DEF FetchWorker, DetectCycle, GiveUp, ShortCircuit, PushAgain
    <2> QED
      BY <2>1, <1>2, <1>4
  <1> QED
    BY <1>3, <1>4

LEMMA InitFull == Init => FullInv
  <1> SUFFICES ASSUME Init PROVE FullInv
    OBVIOUS
  <1>1. processed = {} /\ entries = <<>> /\ recorded = {} /\ stack = <<>> /\ walks = WalksFor(task, root)
    BY DEF Init
  <1>2. EntrySet = {}
    BY <1>1 DEF EntrySet, ToSet
  <1>3. ASSUME task = "full", NEW o \in ToSet(FetchOrder) PROVE Walk(o, "eDescendents") \in ToSet(walks)
    <2>1. walks = [i \in DOMAIN FetchOrder |-> Walk(FetchOrder[i], "eDescendents")]
      BY <1>1, <1>3 DEF WalksFor
    <2> QED
      BY <2>1, <1>3 DEF ToSet
  <1> QED
    BY <1>1, <1>2, <1>3, InitDeep DEF FullInv, FullKept, LinksKept

LEMMA SameReach ==
    ASSUME UNCHANGED xref
    PROVE  /\ \A x, y : (x \in Reach(y, Down))' <=> x \in Reach(y, Down)
           /\ Down' = Down
  <1>1. Down' = Down
    BY SameLinks
  <1> QED
    BY <1>1 DEF Reach, Successors

(* To be shown of a step: only the links that a call takes are closed.      *)
LEMMA FullPassed ==
    ASSUME LinksKept, UNCHANGED xref,
           recorded \subseteq recorded',
           EntrySet \cup processed \subseteq EntrySet' \cup processed',
           NEW S, EntrySet' \cup processed' \subseteq EntrySet \cup processed \cup S,
           \A o \in S : \A y \in Related(o, "eDescendents") : Open(stack', o, y),
           \A o \in EntrySet \cup processed : \A y \in Related(o, "eDescendents") :
              Open(stack, o, y) => \/ <<o, y>> \in recorded'
                                   \/ Open(stack', o, y)
                                   \/ o \in Reach(y, Down) /\ y \in EntrySet' \cup processed'
    PROVE  LinksKept'
  <1>1. ASSUME NEW o \in EntrySet' \cup processed', NEW y \in Related(o, "eDescendents")
        PROVE  \/ <<o, y>> \in recorded'
               \/ Open(stack', o, y)
               \/ o \in Reach(y, Down) /\ y \in EntrySet' \cup processed'
    <2>1. CASE o \in S
      BY <2>1
    <2>2. CASE o \in EntrySet \cup processed
      <3>1. \/ <<o, y>> \in recorded
            \/ Open(stack, o, y)
            \/ o \in Reach(y, Down) /\ y \in EntrySet \cup processed
        BY <2>2 DEF LinksKept
      <3> QED
        BY <2>2, <3>1
    <2> QED
      BY <2>1, <2>2
  <1>2. \A o : Related(o, "eDescendents")' = Related(o, "eDescendents")
    BY SameLinks
  <1>3. \A x, y : (x \in Reach(y, Down))' <=> x \in Reach(y, Down)
    BY SameReach
  <1>4. \A o, y : Open(stack, o, y)' <=> Open(stack', o, y)
    BY DEF Open
  <1> QED
    BY <1>1, <1>2, <1>3, <1>4 DEF LinksKept

LEMMA CallFull ==
    ASSUME DeepInv, FullKept, task = "full", ShortPaths, FetchWorker, ~ GiveUp
    PROVE  FullKept'
  <1>1. /\ DeepInv /\ TypeInv /\ WalksKept /\ StackKept /\ FirstKept /\ FullKept /\ stack # <<>>
        /\ WithDatabase /\ Calling
        /\ UNCHANGED <<xref, task, walks, root, mode>>
    BY CallUnchanged DEF DeepInv, StackKept, WithDatabase, FetchWorker, DetectCycle, GiveUp,
                         ShortCircuit, PushAgain, Push
  <1>2. mode = "eDescendents" /\ Object \in Objects /\ root \in Objects /\ processed \subseteq Objects
    BY <1>1, Called, Walking DEF WalksKept
  <1>3. /\ RelatedType = None => Object = root /\ processed = {} /\ Len(stack) = 1
        /\ RelatedType # None => /\ RelatedType \in processed /\ Len(stack) # 1
                                 /\ Object \in Related(RelatedType, "eDescendents")
    BY <1>1, <1>2, CallsTake
  <1>4. /\ stack' # <<>>
        /\ \A o, x : Open(stack, o, x) => Open(stack', o, x) \/ (o = RelatedType /\ x = Object)
        /\ \A x : Push /\ x \in Related(Object, mode) => Open(stack', Object, x)
    BY <1>1, CallsOpen
  <1>5. ~ PushAgain
    <2> SUFFICES ASSUME PushAgain PROVE FALSE
      OBVIOUS
    <2>1. Object \in processed /\ ~ IsCycle /\ ~ AlreadyProcessed
      BY DEF PushAgain
    <2>2. RelatedType # None /\ Object # root
      BY <2>1, <1>3 DEF IsCycle
    <2>3. RelatedType \in processed /\ root \in EntrySet
      BY <2>1, <2>2, <1>1, <1>3 DEF FullKept
    <2>4. Object \in EntrySet /\ RelatedType \in EntrySet
      BY <2>1, <2>2, <2>3, <1>1 DEF FullKept
    <2> QED
      BY <2>1, <2>4, <1>1 DEF AlreadyProcessed
  <1>6. CASE DetectCycle
    <2>1. /\ RelatedType # None /\ Object = root /\ UNCHANGED <<processed, entries, recorded>>
          /\ ~ Push
      BY <1>6 DEF DetectCycle, IsCycle, Push
    <2>2. EntrySet' = EntrySet
      BY <2>1 DEF EntrySet
    <2>3. RelatedType \in Reach(root, Down)
      <3>1. LinksOf("eDescendents") = Down
        BY DEF LinksOf
      <3>2. RelatedType \in {root} \cup Reach(root, Down)
        BY <3>1, <2>1, <1>1, <1>2, <1>3 DEF StackKept
      <3>3. RelatedType = root => root \in Reach(root, Down)
        BY <3>1, <2>1, <1>1, <1>2, <1>3, RelatedReached
      <3> QED
        BY <3>2, <3>3
    <2>4. root \in EntrySet \cup processed
      BY <2>1, <1>1, <1>3 DEF FullKept, FirstKept
    <2> DEFINE S == {}
    <2>5. \A o \in EntrySet \cup processed : \A y \in Related(o, "eDescendents") :
              Open(stack, o, y) => \/ <<o, y>> \in recorded'
                                   \/ Open(stack', o, y)
                                   \/ o \in Reach(y, Down) /\ y \in EntrySet' \cup processed'
      BY <2>1, <2>2, <2>3, <2>4, <1>4
    <2>6. LinksKept'
      <3>1. \A o \in S : \A y \in Related(o, "eDescendents") : Open(stack', o, y)
        OBVIOUS
      <3>2. /\ EntrySet' \cup processed' \subseteq EntrySet \cup processed \cup S
            /\ EntrySet \cup processed \subseteq EntrySet' \cup processed' /\ recorded \subseteq recorded'
        BY <2>1, <2>2
      <3>3. LinksKept
        BY <1>1 DEF FullKept
      <3> HIDE DEF S
      <3> QED
        BY <3>1, <3>2, <3>3, <2>5, <1>1, FullPassed
    <2>7. Down' = Down
      BY <1>1, SameLinks
    <2> QED
      BY <2>1, <2>2, <2>4, <2>6, <2>7, <1>1, <1>4 DEF FullKept
  <1>7. CASE ShortCircuit \/ Push
    <2> DEFINE k == <<RelatedType, Object>>
    <2>1. RecordRelationship(Object)
      BY <1>7 DEF ShortCircuit, Push
    <2>2. /\ RelatedType # None => /\ recorded' = recorded \cup {k}
                                   /\ EntrySet' = EntrySet \cup {Object, RelatedType}
          /\ RelatedType = None => recorded' = recorded /\ EntrySet' = EntrySet
      <3>1. Link(Object, RelatedType, mode) = k
        BY <1>2 DEF Link
      <3> QED
        BY <3>1, <2>1, <1>1, Recorded DEF EntrySet
    <2>3. /\ ShortCircuit => Object \in EntrySet /\ processed' = processed
          /\ Push => processed' = processed \cup {Object}
      BY DEF ShortCircuit, Push, AlreadyProcessed
    <2>4. recorded' \subseteq Down'
      <3>1. RelatedType # None => k \in Down
        BY <1>3 DEF Related, Ends
      <3>2. Down' = Down
        BY <1>1, SameLinks
      <3> QED
        BY <3>1, <3>2, <2>2, <1>1 DEF FullKept
    <2>5. root \in EntrySet' \cup processed'
      <3>1. CASE RelatedType = None
        BY <3>1, <2>2, <2>3, <1>3, <1>7
      <3>2. CASE RelatedType # None
        <4>1. root \in EntrySet \cup processed
          BY <3>2, <1>1, <1>3 DEF FullKept, FirstKept
        <4> QED
          BY <4>1, <2>2, <2>3, <1>7
      <3> QED
        BY <3>1, <3>2
    <2>6. processed' \subseteq EntrySet' \cup {root}
      <3>1. processed \subseteq EntrySet \cup {root}
        BY <1>1 DEF FullKept
      <3> QED
        BY <3>1, <2>2, <2>3, <1>3, <1>7
    <2>7. processed' \subseteq {root} \/ root \in EntrySet'
      <3>1. processed \subseteq {root} \/ root \in EntrySet
        BY <1>1 DEF FullKept
      <3>2. CASE RelatedType = None
        BY <3>2, <2>3, <1>3, <1>7
      <3>3. CASE RelatedType # None
        BY <3>1, <3>3, <2>2, <1>3
      <3> QED
        BY <3>2, <3>3
    <2> DEFINE S == IF Push THEN {Object} ELSE {}
    <2>8. EntrySet' \cup processed' \subseteq EntrySet \cup processed \cup S
      BY <2>2, <2>3, <1>3, <1>7
    <2>9. \A o \in S : \A y \in Related(o, "eDescendents") : Open(stack', o, y)
      BY <1>2, <1>4
    <2>10. \A o \in EntrySet \cup processed : \A y \in Related(o, "eDescendents") :
              Open(stack, o, y) => \/ <<o, y>> \in recorded'
                                   \/ Open(stack', o, y)
                                   \/ o \in Reach(y, Down) /\ y \in EntrySet' \cup processed'
      <3> SUFFICES ASSUME NEW o \in EntrySet \cup processed, NEW y, Open(stack, o, y)
                   PROVE  <<o, y>> \in recorded' \/ Open(stack', o, y)
        OBVIOUS
      <3>1. CASE o = RelatedType /\ y = Object
        <4>1. RelatedType # None
          <5>1. RelatedType = None => \A a, b : ~ Open(stack, a, b)
            BY <1>3, NoFrames
          <5> QED
            BY <5>1
        <4> QED
          BY <4>1, <3>1, <2>2
      <3>2. CASE ~ (o = RelatedType /\ y = Object)
        BY <3>2, <1>4
      <3> QED
        BY <3>1, <3>2
    <2>11. recorded \subseteq recorded' /\ EntrySet \subseteq EntrySet' /\ processed \subseteq processed'
      BY <2>2, <2>3, <1>7
    <2>13. EntrySet \cup processed \subseteq EntrySet' \cup processed' /\ LinksKept
      BY <2>11, <1>1 DEF FullKept
    <2> HIDE DEF S, k
    <2>12. LinksKept'
      BY <2>8, <2>9, <2>10, <2>11, <2>13, <1>1, FullPassed
    <2> QED
      BY <2>4, <2>5, <2>6, <2>7, <2>11, <2>12, <1>1, <1>4 DEF FullKept
  <1> QED
    BY <1>5, <1>6, <1>7 DEF FetchWorker

LEMMA ReturnFull ==
    ASSUME DeepInv, FullKept, task = "full", Return
    PROVE  FullKept'
  <1> DEFINE n == Len(stack)
             t == Front(stack)
  <1>1. /\ TypeInv /\ StackKept /\ FirstKept /\ FullKept /\ stack # <<>> /\ WithDatabase
        /\ ~ Calling /\ stack' = t
        /\ UNCHANGED <<xref, task, walks, root, mode, processed, recorded>>
    BY DEF DeepInv, StackKept, WithDatabase, Return
  <1>2. /\ n \in Nat \ {0} /\ Last(stack) = stack[n] /\ t \in Seq(AFrame) /\ Len(t) = n - 1
        /\ \A i \in 1 .. n - 1 : t[i] = stack[i]
    BY <1>1, Returned
  <1>3. \A o, x : Open(t, o, x) <=> Open(stack, o, x)
    BY <1>1, FrameRemoved DEF StackKept
  <1>4. /\ n = 1 => EntrySet' = EntrySet \cup {root}
        /\ n # 1 => EntrySet' = EntrySet
    BY <1>1, ReturnRecords DEF EntrySet
  <1>5. root \in EntrySet \cup processed
    <2>1. stack[1].todo = <<>>
      <3>1. CASE n = 1
        BY <3>1, <1>1, <1>2 DEF Calling
      <3>2. CASE n # 1
        BY <3>2, <1>1 DEF FirstKept
      <3> QED
        BY <3>1, <3>2
    <2> QED
      BY <2>1, <1>1 DEF FullKept
  <1> HIDE DEF t
  <1>6. /\ n = 1 => t = <<>>
        /\ n # 1 => t # <<>>
    BY <1>2, EmptySeq
  <1> HIDE DEF n
  <1> DEFINE S == {}
  <1>7. LinksKept'
    <2>1. /\ EntrySet' \cup processed' \subseteq EntrySet \cup processed \cup S
          /\ EntrySet \cup processed \subseteq EntrySet' \cup processed'
          /\ recorded \subseteq recorded' /\ LinksKept
      BY <1>1, <1>4, <1>5 DEF FullKept
    <2>2. \A o \in S : \A y \in Related(o, "eDescendents") : Open(stack', o, y)
      OBVIOUS
    <2>3. \A o \in EntrySet \cup processed : \A y \in Related(o, "eDescendents") :
              Open(stack, o, y) => \/ <<o, y>> \in recorded'
                                   \/ Open(stack', o, y)
                                   \/ o \in Reach(y, Down) /\ y \in EntrySet' \cup processed'
      BY <1>1, <1>3
    <2> HIDE DEF S
    <2> QED
      BY <2>1, <2>2, <2>3, <1>1, FullPassed
  <1>8. processed \subseteq EntrySet \cup {root}
    BY <1>1 DEF FullKept
  <1>9. Down' = Down
    BY <1>1, SameLinks
  <1>10. CASE n = 1
    BY <1>1, <1>4, <1>6, <1>7, <1>8, <1>9, <1>10 DEF FullKept
  <1>11. CASE n # 1
    BY <1>1, <1>4, <1>5, <1>6, <1>7, <1>8, <1>9, <1>11 DEF FullKept
  <1> QED
    BY <1>10, <1>11

LEMMA StartWalkFull ==
    ASSUME DeepInv, FullKept, task = "full", StartWalk
    PROVE  FullKept'
  <1>1. TypeInv /\ WalksKept /\ FullKept /\ stack = <<>>
    BY DEF DeepInv, StartWalk
  <1>2. UNCHANGED <<xref, task, entries, recorded>>
    BY DEF StartWalk
  <1>3. /\ stack' = <<Frame(None, <<root'>>, Depth + 1)>> /\ processed' = {}
        /\ \A x : Walk(x, "eDescendents") \in ToSet(walks)
                     => x = root' \/ Walk(x, "eDescendents") \in ToSet(walks')
    BY <1>1, WalkBegins
  <1>4. EntrySet' = EntrySet
    BY <1>2 DEF EntrySet
  <1>5. stack' # <<>> /\ stack'[1].todo # <<>>
    <2>1. stack'[1].todo = <<root'>> /\ stack' # <<>> /\ <<root'>> # <<>>
      BY <1>3 DEF Frame
    <2> QED
      BY <2>1
  <1> DEFINE S == {}
  <1>6. LinksKept'
    <2>1. /\ EntrySet' \cup processed' \subseteq EntrySet \cup processed \cup S
          /\ EntrySet \cup processed \subseteq EntrySet' \cup processed'
          /\ recorded \subseteq recorded' /\ LinksKept
      BY <1>1, <1>2, <1>3, <1>4 DEF FullKept
    <2>2. \A o \in S : \A y \in Related(o, "eDescendents") : Open(stack', o, y)
      OBVIOUS
    <2>3. \A o, y : ~ Open(stack, o, y)
      BY <1>1, NoFrames, EmptySeq
    <2>4. \A o \in EntrySet \cup processed : \A y \in Related(o, "eDescendents") :
              Open(stack, o, y) => \/ <<o, y>> \in recorded'
                                   \/ Open(stack', o, y)
                                   \/ o \in Reach(y, Down) /\ y \in EntrySet' \cup processed'
      BY <2>3
    <2> HIDE DEF S
    <2> QED
      BY <2>1, <2>2, <2>4, <1>1, <1>2, FullPassed
  <1>7. Down' = Down
    BY <1>2, SameLinks
  <1> QED
    BY <1>1, <1>2, <1>3, <1>4, <1>5, <1>6, <1>7 DEF FullKept

LEMMA NextFull == ASSUME ShortPaths PROVE FullInv /\ CountInv /\ [Next]_vars => FullInv'
  <1> SUFFICES ASSUME FullInv, CountInv, [Next]_vars PROVE FullInv'
    OBVIOUS
  <1>1. DeepInv /\ DeepInv'
    BY NextDeep DEF FullInv
  <1>2. task' = task /\ xref' = xref
    BY DEF Next, StartWalk, FetchWorker, DetectCycle, GiveUp, ShortCircuit, PushAgain, Push, Return,
           ApplyGraphData, ApplySelf, ApplyToChild, ApplyToParent, EndApply, vars
  <1>4. LinkCount' = LinkCount
    BY <1>2 DEF LinkCount
  <1>3. ASSUME task = "full", 1 + LinkCount <= MaxPushCount PROVE FullKept'
    <2>0. FullKept /\ ~ GiveUp
      BY <1>3, NeverTooMany DEF FullInv
    <2>1. CASE ApplyGraphData \/ UNCHANGED vars
      <3>1. UNCHANGED walkVars /\ xref' = xref
        BY <2>1 DEF ApplyGraphData, ApplySelf, ApplyToChild, ApplyToParent, EndApply, vars
      <3>2. UNCHANGED <<walks, root, mode, stack, processed, entries, recorded>>
        BY <3>1 DEF walkVars
      <3>3. FullKept
        BY <2>0
      <3>4. EntrySet' = EntrySet /\ Down' = Down
        BY <3>1, <3>2, SameLinks DEF EntrySet
      <3> DEFINE S == {}
      <3>5. LinksKept'
        <4>1. \A o \in S : \A y \in Related(o, "eDescendents") : Open(stack', o, y)
          OBVIOUS
        <4>2. \A o \in EntrySet \cup processed : \A y \in Related(o, "eDescendents") :
                  Open(stack, o, y) => \/ <<o, y>> \in recorded'
                                       \/ Open(stack', o, y)
                                       \/ o \in Reach(y, Down) /\ y \in EntrySet' \cup processed'
          BY <3>2
        <4>3. /\ EntrySet' \cup processed' \subseteq EntrySet \cup processed \cup S
              /\ EntrySet \cup processed \subseteq EntrySet' \cup processed'
              /\ recorded \subseteq recorded' /\ LinksKept
          BY <3>2, <3>3, <3>4 DEF FullKept
        <4> HIDE DEF S
        <4> QED
          BY <4>1, <4>2, <4>3, <3>1, <3>3, FullPassed
      <3> QED
        BY <3>2, <3>3, <3>4, <3>5 DEF FullKept
    <2> QED
      BY <2>0, <2>1, <1>1, <1>3, StartWalkFull, CallFull, ReturnFull DEF Next
  <1> QED
    BY <1>1, <1>2, <1>3, <1>4 DEF FullInv

LEMMA FullComplete == FullInv /\ LinksInv /\ CoverInv => FullGraphComplete
  <1> SUFFICES ASSUME FullInv, LinksInv, CoverInv, Done, task = "full", 1 + LinkCount <= MaxPushCount
               PROVE  /\ EntrySet = Covered
                      /\ recorded \subseteq Down
                      /\ \A l \in Down \ recorded : l[1] \in EntrySet => l[1] \in Reach(l[2], Down)
    BY DEF FullGraphComplete, Covered, Descendents
  <1>1. TypeInv /\ FullKept /\ LinksKept /\ stack = <<>> /\ walks = <<>> /\ LinksOfEntries /\ CoverKept
    BY DEF FullInv, FullKept, DeepInv, Done, WalksDone, LinksInv, CoverInv
  <1>2. EntrySet \subseteq Objects
    BY <1>1, Walking DEF EntrySet, ToSet
  <1>3. ToSet(walks) = {}
    BY <1>1 DEF ToSet
  <1>4. ToSet(FetchOrder) \subseteq EntrySet /\ processed \subseteq EntrySet
    BY <1>1, <1>3 DEF FullKept
  <1>5. \A o, y : ~ Open(stack, o, y)
    BY <1>1, NoFrames, EmptySeq
  <1>6. ASSUME NEW l \in Down \ recorded, l[1] \in EntrySet PROVE l[1] \in Reach(l[2], Down)
    <2>1. l = <<l[1], l[2]>> /\ l[1] \in Objects /\ l[2] \in Objects
      BY <1>1, DownFinite
    <2>2. l[2] \in Related(l[1], "eDescendents")
      BY <2>1 DEF Related, Ends
    <2>3. <<l[1], l[2]>> \notin recorded
      BY <2>1
    <2> QED
      BY <2>1, <2>2, <2>3, <1>1, <1>5, <1>6 DEF LinksKept
  <1>7. ASSUME NEW x \in EntrySet, NEW y \in Related(x, "eDescendents") PROVE y \in EntrySet
    <2>1. <<x, y>> \in recorded \/ y \in EntrySet \cup processed
      BY <1>1, <1>5, <1>7 DEF LinksKept
    <2>2. <<x, y>>[2] = y
      OBVIOUS
    <2> QED
      BY <2>1, <2>2, <1>1, <1>4 DEF LinksOfEntries
  <1>8. ASSUME NEW o \in ToSet(FetchOrder) PROVE {o} \cup Reach(o, Down) \subseteq EntrySet
    <2>1. o \in EntrySet /\ o \in Objects /\ EntrySet \in SUBSET Objects
      BY <1>2, <1>4
    <2>2. LinksOf("eDescendents") = Down
      BY DEF LinksOf
    <2>3. Reach(o, LinksOf("eDescendents")) \subseteq EntrySet
      BY <2>1, <1>1, <1>7, ReachWithin
    <2> QED
      BY <2>1, <2>2, <2>3
  <1>9. EntrySet = Covered
    BY <1>1, <1>8 DEF Covered, CoverKept
  <1> QED
    BY <1>1, <1>6, <1>9 DEF FullKept

(* When no chain of links is longer than the depth of the walk, and there    *)
(* are not more links than calls that may be made, a full index knows every  *)
(* object it fetches or finds below one, and every link below an object it   *)
(* knows that is on no cycle: a call may be cut short for an object the       *)
(* database has, since the links of such an object have been recorded, or     *)
(* will be by a call that is under way (ObjectGraph.ts:177-195).             *)
THEOREM FullGraphCompleteAlways ==
    ASSUME ShortPaths
    PROVE  Spec => []FullGraphComplete
  <1>1. FullInv /\ CountInv /\ [Next]_vars => FullInv'
    BY NextFull
  <1>2. LinksInv /\ [Next]_vars => LinksInv'
    BY NextLinks
  <1>3. CoverInv /\ [Next]_vars => CoverInv'
    BY NextCover
  <1> QED
    BY <1>1, <1>2, <1>3, InitFull, InitCount, NextCount, InitLinks, InitCover, FullComplete, PTL DEF Spec

-----------------------------------------------------------------------------
(* The data of the entries.                                                 *)

LEMMA ShortEnough == ASSUME ShortPaths, LinksInv PROVE ShortRecorded
  <1>1. recorded \subseteq AllLinks /\ recorded \in SUBSET (Objects \X Objects)
    BY Walking DEF LinksInv, DeepInv
  <1>2. \A a, b : <<a, b>> \in Inverted(recorded) <=> <<b, a>> \in recorded
    BY <1>1, InvertedTyped
  <1> SUFFICES ASSUME NEW p \in Seq(Objects), Chain(p, recorded) \/ Chain(p, Inverted(recorded))
               PROVE  Len(p) <= FullDepth
    BY DEF ShortRecorded
  <1>3. IsInjective(p)
    BY DEF Chain
  <1>4. CASE Chain(p, recorded)
    <2>1. \A i \in 1 .. Len(p) - 1 : <<p[i], p[i + 1]>> \in AllLinks
      BY <1>1, <1>4 DEF Chain
    <2> QED
      BY <2>1, <1>3 DEF ShortPaths
  <1>5. CASE Chain(p, Inverted(recorded))
    <2>1. \A i \in 1 .. Len(p) - 1 : <<p[i + 1], p[i]>> \in AllLinks
      BY <1>1, <1>2, <1>5 DEF Chain
    <2> QED
      BY <2>1, <1>3 DEF ShortPaths
  <1> QED
    BY <1>4, <1>5

(* When no chain of links is longer than the depth that                      *)
(* applyGraphStateRecursive is given, the data of all entries end up where    *)
(* they belong: each entry has exactly its recorded ancestors and the facts   *)
(* of its recorded descendants, although an entry that learns nothing new    *)
(* passes nothing on, and one that is reached late has little depth left     *)
(* (applyGraphData, ObjectGraphDatabase.ts:268-368).                         *)
THEOREM GraphDataAppliedAlways ==
    ASSUME ShortPaths
    PROVE  Spec => []GraphDataApplied
  <1>1. LinksInv /\ [Next]_vars => LinksInv'
    BY NextLinks
  <1>2. CallPaths /\ DataInv /\ [Next]_vars => CallPaths'
    BY NextPaths DEF DataInv
  <1>3. LinksInv /\ CallPaths /\ DataInv => NewsGoesOn
    BY ShortEnough, CallsGoOn DEF DataInv
  <1>4. DataInv /\ NewsGoesOn /\ [Next]_vars => DataInv'
    BY NextData
  <1> QED
    BY <1>1, <1>2, <1>3, <1>4, InitLinks, InitPaths, InitData, DataApplied, PTL DEF Spec
=============================================================================
