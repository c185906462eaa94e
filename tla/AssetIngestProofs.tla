-------------------------- MODULE AssetIngestProofs --------------------------
(***************************************************************************)
(* AssetIngest: rows, staged files and stored versions of assets keep      *)
(* their types and, while one request at a time works on the versions of   *)
(* an asset, agree.                                                        *)
(*                                                                         *)
(* A promotion appends a version and only then asks the table of rows for  *)
(* its number, which is read in one step and written in another.  The      *)
(* number is right because the ingested rows of an asset always have the   *)
(* versions from 1 up to its newest, one each (Numbered), or up to the one *)
(* before while the request that stored the newest has not yet written its *)
(* row (PromotedKept).  Beside it the invariant says that what a request   *)
(* remembers of a row is still true when it writes the whole row back      *)
(* (CopyKept), that a staging key is never given out twice (KeyOk), and    *)
(* that the assets of two requests are apart.                              *)
(*                                                                         *)
(* The largest version number is a CHOOSE: that it exists is proved by     *)
(* induction, as the well-foundedness of < over an explicit set.           *)
(*                                                                         *)
(* For staged files two invariants are added to it.  While an upload is    *)
(* under way all rows that lead to its file are its own, and no copy held  *)
(* by another request does (OwnInv).  A file that is gone while a version  *)
(* waits for it is owed by a request that holds the version and will       *)
(* retire it or has promoted it, and what is about to remove a file holds  *)
(* all that waits for it (FileInv).                                        *)
(***************************************************************************)
EXTENDS AssetIngest, WellFoundedInduction, SequenceTheorems, FiniteSetTheorems, TLAPS

-----------------------------------------------------------------------------
(* Numbers: induction, for sets of naturals, and the largest of them.      *)

LEMMA NaturalsFromZero ==
    ASSUME NEW S, 0 \in S, \A n \in Nat : n \in S => n + 1 \in S
    PROVE  Nat \subseteq S
  <1> DEFINE T == Nat \ S
  <1>1. SUFFICES ASSUME T # {} PROVE FALSE
    OBVIOUS
  <1>2. \E x \in T : \A y \in T : ~ (<<y, x>> \in OpToRel(<, Nat))
    <2>1. T \subseteq Nat
      OBVIOUS
    <2> HIDE DEF T
    <2> QED
      BY <1>1, <2>1, NatLessThanWellFounded, WFMin
  <1>3. PICK x \in T : \A y \in Nat : y < x => y \in S
    BY <1>2 DEF OpToRel
  <1>4. x \in Nat /\ x # 0
    BY <1>3
  <1>5. x - 1 \in Nat /\ x - 1 < x /\ (x - 1) + 1 = x
    BY <1>4
  <1> QED
    BY <1>3, <1>4, <1>5

LEMMA MaxExists ==
    ASSUME NEW S \in SUBSET Nat, S # {}, NEW b \in Nat, \A x \in S : x <= b
    PROVE  Max(S) \in S /\ \A x \in S : x <= Max(S)
  <1> DEFINE T == {n \in Nat : \E x \in S : x >= n}
  <1>1. PICK m \in Nat : m \in T /\ m + 1 \notin T
    <2>1. 0 \in T
      <3>1. PICK x \in S : TRUE
        OBVIOUS
      <3> QED
        BY <3>1
    <2>2. b + 1 \notin T /\ b + 1 \in Nat
      OBVIOUS
    <2> HIDE DEF T
    <2> QED
      BY <2>1, <2>2, NaturalsFromZero
  <1>2. PICK x \in S : x >= m
    BY <1>1
  <1>3. \A y \in S : ~ (y >= m + 1)
    BY <1>1
  <1>4. \A y \in S : x >= y
    BY <1>2, <1>3
  <1>5. Max(S) \in S /\ \A y \in S : Max(S) >= y
    BY <1>4 DEF Max
  <1> QED
    BY <1>5

LEMMA Bounded ==
    ASSUME NEW n \in Nat, NEW f \in [1 .. n -> Nat]
    PROVE  \E b \in Nat : \A i \in 1 .. n : f[i] <= b
  <1> DEFINE S == {k \in Nat : \E b \in Nat : \A i \in 1 .. n : i <= k => f[i] <= b}
  <1>1. 0 \in S
    OBVIOUS
  <1>2. ASSUME NEW k \in Nat, k \in S PROVE k + 1 \in S
    <2>1. PICK b \in Nat : \A i \in 1 .. n : i <= k => f[i] <= b
      BY <1>2
    <2>2. CASE k + 1 \in 1 .. n /\ f[k + 1] > b
      <3>1. f[k + 1] \in Nat
        BY <2>2
      <3>2. \A i \in 1 .. n : i <= k + 1 => f[i] <= f[k + 1]
        <4> SUFFICES ASSUME NEW i \in 1 .. n, i <= k + 1 PROVE f[i] <= f[k + 1]
          OBVIOUS
        <4>1. f[i] \in Nat /\ (i <= k \/ i = k + 1)
          OBVIOUS
        <4> QED
          BY <4>1, <3>1, <2>1, <2>2
      <3>3. k + 1 \in Nat
        OBVIOUS
      <3> QED
        BY <3>1, <3>2, <3>3
    <2>3. CASE ~ (k + 1 \in 1 .. n /\ f[k + 1] > b)
      <3>1. \A i \in 1 .. n : i <= k + 1 => f[i] <= b
        BY <2>1, <2>3
      <3> QED
        BY <3>1
    <2> QED
      BY <2>2, <2>3
  <1>3. n \in S
    <2> HIDE DEF S
    <2> QED
      BY <1>1, <1>2, NaturalsFromZero
  <1> QED
    BY <1>3

(* The version numbers of an asset have a largest one.                     *)
LEMMA NextNumber ==
    ASSUME rows \in Seq(AssetVersion), NEW a
    PROVE  /\ ComputeNextVersionNumber(a) \in Nat \ {0}
           /\ \A r \in RowsOf(a) : rows[r].version < ComputeNextVersionNumber(a)
           /\ \/ ComputeNextVersionNumber(a) = 1
              \/ \E r \in RowsOf(a) : ComputeNextVersionNumber(a) = rows[r].version + 1
  <1> DEFINE n == Len(rows)
             f == [i \in 1 .. n |-> rows[i].version]
             S == {rows[r].version : r \in RowsOf(a)} \cup {0}
  <1>1. n \in Nat /\ DOMAIN rows = 1 .. n /\ \A i \in 1 .. n : rows[i] \in AssetVersion
    BY LenProperties
  <1>2. \A i \in 1 .. n : rows[i].version \in Nat
    BY <1>1 DEF AssetVersion
  <1>3. f \in [1 .. n -> Nat]
    BY <1>2
  <1>4. PICK b \in Nat : \A i \in 1 .. n : f[i] <= b
    <2> HIDE DEF f, n
    <2> QED
      BY <1>1, <1>3, Bounded
  <1>5. S \in SUBSET Nat /\ S # {} /\ \A x \in S : x <= b
    BY <1>1, <1>2, <1>4 DEF RowsOf
  <1>6. Max(S) \in S /\ \A x \in S : x <= Max(S)
    <2> HIDE DEF S
    <2> QED
      BY <1>5, MaxExists
  <1>7. Max(S) \in Nat /\ ComputeNextVersionNumber(a) = Max(S) + 1
    BY <1>5, <1>6 DEF ComputeNextVersionNumber
  <1>8. \A r \in RowsOf(a) : rows[r].version \in Nat /\ rows[r].version <= Max(S)
    BY <1>1, <1>2, <1>6 DEF RowsOf
  <1>9. Max(S) = 0 \/ \E r \in RowsOf(a) : Max(S) = rows[r].version
    BY <1>6
  <1> HIDE DEF S, f
  <1> QED
    BY <1>7, <1>8, <1>9

-----------------------------------------------------------------------------
(* The type invariant, by the parts that a step can disturb.               *)

(* A row that is ingested has a version and no staged file.                *)
Row == {x \in AssetVersion : x.ingested = "true" => x.version > 0 /\ x.key = NoKey}

RowsTyped == rows \in Seq(Row)

StoreTyped ==
    /\ stored \subseteq Assets
    /\ retired \subseteq Assets
    /\ staging \in [Keys -> Bits \cup {NoBits}]
    /\ uploads \in 0..MaxUploads
    /\ object \in [Assets -> Seq(Bits)]
    /\ failures \subseteq FailSteps

(* The places of a request that works on a row, and those at which it has  *)
(* a copy of it.                                                           *)
AtRow == PCs \ {"idle", "create"}
WithCopy == AtRow \ {"validate"}

Held(j) == \A i \in 1 .. Len(j.list) : j.list[i] \in 1 .. Len(rows)

CopyTyped(j) == j.mem \in Row /\ j.mem.asset = rows[j.list[j.at]].asset

JobTyped(place, j) ==
    /\ j \in Job /\ place \in PCs
    /\ Held(j)
    /\ place = "idle" => j = NoJob
    /\ place = "create" => /\ j.todo # <<>> /\ j.key \in Keys /\ j.bits \in Bits
                           /\ j.back # "validate" => j.list = <<>> /\ Len(j.todo) = 1
    /\ place # "create" => j.todo = <<>>
    /\ place \in AtRow => j.at \in 1 .. Len(j.list)
    /\ place \in WithCopy => CopyTyped(j)
    /\ j.back \in {"validate", "retire"} => j.key \in Keys /\ j.bits \in Bits
    /\ place \in {"validate", "verdict"} => j.back = "validate"
    /\ place = "create" => j.back # "retire"
    /\ place = "updateRow" => j.mem.version > 0

JobsTyped ==
    /\ pc \in [Requests -> PCs] /\ job \in [Requests -> Job]
    /\ \A q \in Requests : JobTyped(pc[q], job[q])

TypeInv == RowsTyped /\ StoreTyped /\ JobsTyped

LEMMA RowsLength ==
    ASSUME RowsTyped
    PROVE  /\ Len(rows) \in Nat /\ DOMAIN rows = 1 .. Len(rows)
           /\ \A r \in DOMAIN rows : rows[r] \in Row
           /\ rows \in Seq(AssetVersion)
  <1>1. Row \subseteq AssetVersion
    BY DEF Row
  <1> QED
    BY <1>1, LenProperties, SeqMonotonic DEF RowsTyped

LEMMA TypeInvImplies == TypeInv => TypeOK
  BY RowsLength DEF TypeInv, RowsTyped, StoreTyped, JobsTyped, TypeOK, Row

-----------------------------------------------------------------------------
(* What the steps do to rows and to what a request holds.                  *)

(* Rows are added at the end and never change their asset.                 *)
RowsStay ==
    /\ Len(rows') >= Len(rows)
    /\ \A r \in 1 .. Len(rows) : rows'[r].asset = rows[r].asset

LEMMA JobFrame ==
    ASSUME RowsTyped, RowsTyped', RowsStay, NEW place, NEW j, JobTyped(place, j)
    PROVE  JobTyped(place, j)'
  <1>1. Len(rows) \in Nat /\ Len(rows') \in Nat
    BY LenProperties DEF RowsTyped
  <1>2. Held(j)'
    BY <1>1 DEF JobTyped, Held, RowsStay
  <1>3. place \in WithCopy => CopyTyped(j)'
    BY <1>1 DEF JobTyped, Held, RowsStay, CopyTyped, WithCopy
  <1> QED
    BY <1>2, <1>3 DEF JobTyped

LEMMA EnterTyped ==
    ASSUME TypeInv, NEW q \in Requests, NEW place, NEW j, Enter(q, place, j),
           RowsTyped', RowsStay, StoreTyped', JobTyped(place, j)'
    PROVE  TypeInv'
  <1>1. j \in Job /\ place \in PCs
    BY DEF JobTyped
  <1>2. \A p \in Requests : pc'[p] = (IF p = q THEN place ELSE pc[p])
                            /\ job'[p] = (IF p = q THEN j ELSE job[p])
    BY DEF TypeInv, JobsTyped, Enter
  <1>3. pc' \in [Requests -> PCs] /\ job' \in [Requests -> Job]
    BY <1>1 DEF TypeInv, JobsTyped, Enter
  <1>4. ASSUME NEW p \in Requests \ {q} PROVE JobTyped(pc[p], job[p])'
    <2>1. PICK place2, j2 : place2 = pc[p] /\ j2 = job[p]
      OBVIOUS
    <2>2. JobTyped(place2, j2)
      BY <2>1 DEF TypeInv, JobsTyped
    <2>3. JobTyped(place2, j2)'
      BY <2>2, JobFrame DEF TypeInv
    <2>4. pc'[p] = place2 /\ job'[p] = j2
      BY <2>1, <1>2
    <2> QED
      BY <2>3, <2>4
  <1>5. JobTyped(pc[q], job[q])'
    BY <1>2
  <1>6. \A p \in Requests : JobTyped(pc[p], job[p])'
    BY <1>4, <1>5
  <1> QED
    BY <1>3, <1>6 DEF TypeInv, JobsTyped

(* A step that leaves the rows alone.                                      *)
LEMMA MoveTyped ==
    ASSUME TypeInv, NEW q \in Requests, NEW place, NEW j, Enter(q, place, j),
           rows' = rows, StoreTyped', JobTyped(place, j)
    PROVE  TypeInv'
  <1>1. Len(rows) \in Nat
    BY LenProperties DEF TypeInv, RowsTyped
  <1>2. RowsTyped' /\ RowsStay
    BY <1>1 DEF TypeInv, RowsTyped, RowsStay
  <1>3. JobTyped(place, j)'
    BY <1>2, JobFrame DEF TypeInv
  <1> QED
    BY <1>2, <1>3, EnterTyped

(* A step that writes one row.                                             *)
LEMMA SavedRows ==
    ASSUME RowsTyped, NEW r \in 1 .. Len(rows), NEW x \in Row, x.asset = rows[r].asset,
           rows' = [rows EXCEPT ![r] = x]
    PROVE  RowsTyped' /\ RowsStay
  <1>1. /\ Len(rows) \in Nat /\ rows' \in Seq(Row) /\ Len(rows') = Len(rows)
        /\ \A i \in 1 .. Len(rows) : rows'[i] = IF i = r THEN x ELSE rows[i]
    BY LenProperties, ExceptSeq DEF RowsTyped
  <1> QED
    BY <1>1 DEF RowsTyped, RowsStay

LEMMA SaveRowTyped ==
    ASSUME RowsTyped, NEW r \in 1 .. Len(rows), NEW m \in Row, m.asset = rows[r].asset,
           SaveRow(r, m)
    PROVE  RowsTyped' /\ RowsStay
  <1>1. rows[r] \in Row
    BY RowsLength
  <1>2. PICK x : x = [m EXCEPT !.retired = rows[r].retired]
    OBVIOUS
  <1>3. x \in Row /\ x.asset = m.asset
    BY <1>1, <1>2 DEF Row, AssetVersion
  <1>4. rows' = [rows EXCEPT ![r] = x]
    BY <1>2 DEF SaveRow
  <1> QED
    BY <1>3, <1>4, SavedRows

LEMMA NewRowType ==
    ASSUME NEW a \in Assets, NEW k \in Keys, NEW b \in Bits, NEW bulk \in BOOLEAN
    PROVE  NewRow(a, k, b, bulk) \in Row /\ NewRow(a, k, b, bulk).asset = a
  BY DEF NewRow, Row, AssetVersion, Ingestions

LEMMA NoJobType == NoJob \in Job /\ JobTyped("idle", NoJob)
  <1>1. <<>> \in Seq(Assets) /\ <<>> \in Seq(Nat) /\ Len(<<>>) = 0
    BY EmptySeq
  <1>2. NoJob \in Job
    BY <1>1 DEF NoJob, Job
  <1>3. NoJob.list = <<>> /\ NoJob.todo = <<>> /\ NoJob.back = "end"
    BY DEF NoJob
  <1> QED
    BY <1>1, <1>2, <1>3 DEF JobTyped, Held, AtRow, WithCopy, PCs

LEMMA InitType == Init => TypeInv
  <1> SUFFICES ASSUME Init PROVE TypeInv
    OBVIOUS
  <1>1. RowsTyped
    BY EmptySeq DEF Init, RowsTyped
  <1>2. StoreTyped
    <2>1. <<>> \in Seq(Bits)
      BY EmptySeq
    <2> QED
      BY <2>1, ConstantsAssumption DEF Init, StoreTyped
  <1>3. JobsTyped
    BY NoJobType DEF Init, JobsTyped, PCs
  <1> QED
    BY <1>1, <1>2, <1>3 DEF TypeInv

(* At the i-th row.                                                         *)
LEMMA AtType ==
    ASSUME NEW j \in Job, NEW i \in Nat, NEW m \in AssetVersion \cup {NoRow}
    PROVE  LET new == At(j, i, m)
           IN  /\ new \in Job /\ new.at = i /\ new.mem = m /\ new.list = j.list
               /\ new.todo = j.todo /\ new.key = j.key /\ new.bits = j.bits
               /\ new.back = j.back /\ new.failed = j.failed /\ new.bulk = j.bulk
               /\ new.skipped = j.skipped
  BY DEF Job, At

(* Where a request goes on to.                                             *)
LEMMA RetiringType ==
    ASSUME RowsTyped, NEW place, NEW j, JobTyped(place, j), j.todo = <<>>,
           j.key \in Keys, j.bits \in Bits, NEW i \in 1 .. Len(j.list)
    PROVE  JobTyped("count", Retiring(j, i))
  <1>1. j \in Job /\ Held(j)
    BY DEF JobTyped
  <1>2. j.list[i] \in 1 .. Len(rows) /\ rows[j.list[i]] \in Row /\ j.bulk \in BOOLEAN
    BY <1>1, RowsLength DEF Held, Job
  <1>3. PICK m \in Row : m = NewRow(rows[j.list[i]].asset, j.key, j.bits, j.bulk)
                         /\ m.asset = rows[j.list[i]].asset
    BY <1>2, NewRowType DEF Row, AssetVersion
  <1>4. PICK new : new = [j EXCEPT !.at = i, !.back = "retire", !.mem = m]
    OBVIOUS
  <1>5. Retiring(j, i) = new
    BY <1>3, <1>4 DEF Retiring
  <1>6. i \in Nat /\ m \in AssetVersion
    BY <1>1, LenProperties DEF Job, Row
  <1>7. /\ new \in Job /\ new.list = j.list /\ new.todo = j.todo /\ new.at = i
        /\ new.mem = m /\ new.key = j.key /\ new.bits = j.bits /\ new.back = "retire"
    BY <1>1, <1>4, <1>6 DEF Job
  <1> QED
    BY <1>1, <1>3, <1>5, <1>7 DEF JobTyped, Held, CopyTyped, AtRow, WithCopy, PCs

LEMMA ContinueType ==
    ASSUME RowsTyped, NEW q \in Requests, NEW here, here \in AtRow, NEW j, JobTyped(here, j),
           Continue(q, j)
    PROVE  \E place, new : Enter(q, place, new) /\ JobTyped(place, new)
  <1>0. j \in Job /\ j.todo = <<>> /\ j.at \in 1 .. Len(j.list) /\ Len(j.list) \in Nat
    BY LenProperties DEF JobTyped, AtRow, PCs, Job
  <1>1. CASE j.back = "validate" /\ j.at < Len(j.list)
             /\ Enter(q, "validate", At(j, j.at + 1, NoRow))
    <2>1. PICK new : new = At(j, j.at + 1, NoRow)
      OBVIOUS
    <2>2. /\ new \in Job /\ new.list = j.list /\ new.todo = j.todo /\ new.at = j.at + 1
          /\ new.key = j.key /\ new.bits = j.bits /\ new.back = j.back
      BY <1>0, <2>1, AtType
    <2>3. JobTyped("validate", new)
      BY <1>0, <1>1, <2>2 DEF JobTyped, Held, CopyTyped, AtRow, WithCopy, PCs
    <2> QED
      BY <1>1, <2>1, <2>3
  <1>2. CASE j.back = "validate" /\ Enter(q, "count", Retiring(j, 1))
    <2>1. JobTyped("count", Retiring(j, 1))
      BY <1>0, <1>2, RetiringType DEF JobTyped
    <2> QED
      BY <1>2, <2>1
  <1>3. CASE j.back = "retire" /\ j.at < Len(j.list) /\ Enter(q, "count", Retiring(j, j.at + 1))
    <2>1. j.at + 1 \in 1 .. Len(j.list)
      BY <1>0, <1>3
    <2>2. JobTyped("count", Retiring(j, j.at + 1))
      BY <1>0, <1>3, <2>1, RetiringType DEF JobTyped
    <2> QED
      BY <1>3, <2>2
  <1>4. CASE Finish(q)
    BY <1>4, NoJobType DEF Finish
  <1> QED
    BY <1>1, <1>2, <1>3, <1>4 DEF Continue

-----------------------------------------------------------------------------
(* The records a request starts with.                                      *)

LEMMA UploadType ==
    ASSUME NEW list \in Seq(Assets), list # <<>>, NEW k \in Keys, NEW b \in Bits,
           NEW bulk \in BOOLEAN, NEW back \in {"validate", "ingest", "end"},
           back = "validate" \/ Len(list) = 1, NEW j, j = Upload(list, bulk, k, b, back)
    PROVE  JobTyped("create", j)
  <1>1. <<>> \in Seq(Nat) /\ Len(<<>>) = 0
    BY EmptySeq
  <1>2. j = [todo |-> list, bulk |-> bulk, key |-> k, bits |-> b, list |-> <<>>,
             at |-> 0, skipped |-> {}, mem |-> NoRow, failed |-> FALSE, back |-> back]
    BY DEF Upload, NoJob
  <1>3. j \in Job /\ j.list = <<>> /\ j.todo = list /\ j.key = k /\ j.bits = b
        /\ j.back = back
    BY <1>1, <1>2 DEF Job
  <1>4. Held(j)
    BY <1>1, <1>3 DEF Held
  <1> QED
    BY <1>2, <1>3, <1>4 DEF JobTyped, AtRow, WithCopy, PCs

LEMMA ListType ==
    ASSUME NEW list \in {<<a>> : a \in Assets} \cup Bulks
    PROVE  list \in Seq(Assets) /\ list # <<>>
  <1>1. CASE list \in {<<a>> : a \in Assets}
    <2>1. PICK a \in Assets : list = <<a>>
      BY <1>1
    <2> QED
      BY <2>1
  <1>2. CASE list \in Bulks
    BY <1>2, ConstantsAssumption
  <1> QED
    BY <1>1, <1>2

(* A request that takes up a row the user was offered.                     *)
LEMMA OfferedType ==
    ASSUME RowsTyped, NEW r \in DOMAIN rows, NEW back \in {"ingest", "end"},
           NEW place \in {"count", "promote"},
           NEW j, j = Offer(r, back)
    PROVE  /\ JobTyped(place, j)
           /\ j.list = <<r>> /\ j.mem = rows[r] /\ j.at = 1 /\ j.back = back
           /\ j.key = NoKey /\ j.todo = <<>>
  <1>1. r \in Nat /\ r \in 1 .. Len(rows) /\ rows[r] \in Row
    BY RowsLength
  <1>2. <<r>> \in Seq(Nat) /\ Len(<<r>>) = 1 /\ <<r>>[1] = r /\ <<>> \in Seq(Assets)
    BY <1>1, EmptySeq
  <1>3. /\ j \in Job /\ j.list = <<r>> /\ j.todo = <<>> /\ j.back = back /\ j.mem = rows[r]
        /\ j.at = 1 /\ j.key = NoKey
    <2>1. j = [todo |-> <<>>, bulk |-> FALSE, key |-> NoKey, bits |-> NoBits,
               list |-> <<r>>, at |-> 1, skipped |-> {}, mem |-> rows[r], failed |-> FALSE, back |-> back]
      BY DEF Offer, NoJob
    <2> QED
      BY <1>1, <1>2, <2>1 DEF Job, Row
  <1>4. Held(j) /\ CopyTyped(j)
    BY <1>1, <1>2, <1>3 DEF Held, CopyTyped
  <1> QED
    BY <1>2, <1>3, <1>4 DEF JobTyped, AtRow, WithCopy, PCs

LEMMA JobOf ==
    ASSUME TypeInv, NEW q \in Requests
    PROVE  JobTyped(pc[q], job[q]) /\ RowsTyped /\ StoreTyped /\ job[q] \in Job
  BY DEF TypeInv, JobsTyped

(* Bits that can be read are bits.                                         *)
LEMMA ReadAssetType ==
    ASSUME RowsTyped, StoreTyped, NEW r \in DOMAIN rows
    PROVE  ReadAsset(r) \in Bits \cup {NoBits}
  <1>1. rows[r] \in Row
    BY RowsLength
  <1>2. object[rows[r].asset] \in Seq(Bits)
    BY <1>1 DEF StoreTyped, Row, AssetVersion
  <1>3. \A v \in DOMAIN object[rows[r].asset] : object[rows[r].asset][v] \in Bits
    BY <1>2, LenProperties
  <1> QED
    BY <1>1, <1>3 DEF ReadAsset, StoreTyped

LEMMA UploadAssetType ==
    ASSUME TypeInv, NEW q \in Requests, UploadAsset(q)
    PROVE  TypeInv'
  <1>1. PICK list \in {<<a>> : a \in Assets} \cup Bulks, b \in Bits :
            /\ staging' = [staging EXCEPT ![uploads + 1] = b]
            /\ Enter(q, "create", Upload(list, list \in Bulks, uploads + 1, b, "validate"))
    BY DEF UploadAsset
  <1>2. uploads' = uploads + 1 /\ uploads + 1 \in Keys /\ uploads + 1 \in 0 .. MaxUploads
    BY ConstantsAssumption DEF UploadAsset, TypeInv, StoreTyped, Keys
  <1>3. (list \in Bulks) \in BOOLEAN
    OBVIOUS
  <1>4. PICK bulk : bulk = (list \in Bulks)
    OBVIOUS
  <1>5. PICK j : j = Upload(list, bulk, uploads + 1, b, "validate")
    OBVIOUS
  <1>6. JobTyped("create", j)
    <2>1. list \in Seq(Assets) /\ list # <<>>
      BY ListType
    <2>2. PICK k \in Keys : k = uploads + 1
      BY <1>2
    <2> QED
      BY <1>3, <1>4, <1>5, <2>1, <2>2, UploadType
  <1>7. StoreTyped' /\ rows' = rows
    BY <1>1, <1>2 DEF UploadAsset, TypeInv, StoreTyped
  <1> QED
    BY <1>1, <1>4, <1>5, <1>6, <1>7, MoveTyped

LEMMA RollbackAssetVersionType ==
    ASSUME TypeInv, NEW q \in Requests, RollbackAssetVersion(q)
    PROVE  TypeInv'
  <1>1. PICK r \in DOMAIN rows :
            /\ ReadAsset(r) # NoBits
            /\ staging' = [staging EXCEPT ![uploads + 1] = ReadAsset(r)]
            /\ IF ReadAsset(r) = rows[r].bits
               THEN Enter(q, "create", Upload(<<rows[r].asset>>, FALSE, uploads + 1, rows[r].bits,
                                              IF rows[r].asset \in stored THEN "ingest" ELSE "end"))
               ELSE Finish(q)
    BY DEF RollbackAssetVersion
  <1>2. uploads' = uploads + 1 /\ uploads + 1 \in Keys /\ uploads + 1 \in 0 .. MaxUploads
    BY ConstantsAssumption DEF RollbackAssetVersion, TypeInv, StoreTyped, Keys
  <1>3. StoreTyped' /\ rows' = rows
    BY <1>1, <1>2, ReadAssetType DEF RollbackAssetVersion, TypeInv, StoreTyped
  <1>4. CASE ReadAsset(r) = rows[r].bits
    <2>1. rows[r] \in Row /\ rows[r].asset \in Assets /\ rows[r].bits \in Bits
      BY RowsLength DEF TypeInv, Row, AssetVersion
    <2>2. PICK back \in {"ingest", "end"} : back = IF rows[r].asset \in stored
                                                   THEN "ingest" ELSE "end"
      OBVIOUS
    <2>3. PICK j : j = Upload(<<rows[r].asset>>, FALSE, uploads + 1, rows[r].bits, back)
      OBVIOUS
    <2>4. Enter(q, "create", j)
      BY <1>1, <1>4, <2>2, <2>3
    <2>5. /\ <<rows[r].asset>> \in Seq(Assets) /\ <<rows[r].asset>> # <<>>
          /\ Len(<<rows[r].asset>>) = 1
      BY <2>1
    <2>6. JobTyped("create", j)
      <3>1. PICK k \in Keys : k = uploads + 1
        BY <1>2
      <3>2. PICK list : list = <<rows[r].asset>>
        OBVIOUS
      <3>3. j = Upload(list, FALSE, k, rows[r].bits, back)
        BY <2>3, <3>1, <3>2
      <3> HIDE <2>3
      <3> QED
        BY <2>1, <2>5, <3>2, <3>3, UploadType
    <2> QED
      BY <1>3, <2>4, <2>6, MoveTyped
  <1>5. CASE Finish(q)
    BY <1>3, <1>5, NoJobType, MoveTyped DEF Finish
  <1> QED
    BY <1>1, <1>4, <1>5

LEMMA AppendedRows ==
    ASSUME RowsTyped, NEW x \in Row, rows' = Append(rows, x)
    PROVE  /\ RowsTyped' /\ RowsStay
           /\ Len(rows) \in Nat /\ Len(rows') = Len(rows) + 1 /\ rows'[Len(rows) + 1] = x
           /\ \A r \in 1 .. Len(rows) : rows'[r] = rows[r]
  <1>1. /\ rows' \in Seq(Row) /\ Len(rows) \in Nat /\ Len(rows') = Len(rows) + 1
        /\ rows'[Len(rows) + 1] = x /\ \A i \in 1 .. Len(rows) : rows'[i] = rows[i]
    BY AppendProperties, LenProperties DEF RowsTyped
  <1> QED
    BY <1>1 DEF RowsTyped, RowsStay

(* The new row joins the list.                                             *)
LEMMA MadeType ==
    ASSUME RowsTyped, NEW j, JobTyped("create", j), NEW made, made = Made(j)
    PROVE  /\ made \in Job
           /\ made.todo = Tail(j.todo) /\ made.todo \in Seq(Assets)
           /\ made.list = Append(j.list, Len(rows) + 1)
           /\ Len(j.list) \in Nat /\ Len(made.list) = Len(j.list) + 1
           /\ \A i \in 1 .. Len(j.list) : made.list[i] = j.list[i]
           /\ made.list[Len(j.list) + 1] = Len(rows) + 1
           /\ made.key = j.key /\ made.bits = j.bits /\ made.bulk = j.bulk
           /\ made.back = j.back /\ made.failed = j.failed /\ made.at = j.at
           /\ made.mem = j.mem
  <1>1. j \in Job /\ j.todo # <<>> /\ j.todo \in Seq(Assets) /\ j.list \in Seq(Nat)
    BY DEF JobTyped, Job
  <1>2. Len(rows) + 1 \in Nat
    BY RowsLength
  <1>3. PICK todo, list : todo = Tail(j.todo) /\ list = Append(j.list, Len(rows) + 1)
    OBVIOUS
  <1>4. todo \in Seq(Assets) /\ list \in Seq(Nat)
    BY <1>1, <1>2, <1>3, HeadTailProperties, AppendProperties
  <1>5. made = [j EXCEPT !.todo = todo, !.list = list]
    BY <1>3 DEF Made
  <1>6. /\ made \in Job /\ made.todo = todo /\ made.list = list
        /\ made.key = j.key /\ made.bits = j.bits /\ made.bulk = j.bulk
        /\ made.back = j.back /\ made.failed = j.failed /\ made.at = j.at
        /\ made.mem = j.mem
    BY <1>1, <1>4, <1>5 DEF Job
  <1>7. /\ Len(j.list) \in Nat /\ Len(list) = Len(j.list) + 1
        /\ \A i \in 1 .. Len(j.list) : list[i] = j.list[i]
        /\ list[Len(j.list) + 1] = Len(rows) + 1
    BY <1>1, <1>2, <1>3, AppendProperties, LenProperties
  <1> QED
    BY <1>3, <1>4, <1>6, <1>7

LEMMA CreateRowType ==
    ASSUME TypeInv, NEW q \in Requests, CreateRow(q)
    PROVE  TypeInv'
  <1>1. PICK j : j = job[q]
    OBVIOUS
  <1>2. PICK row, made : row = NewRow(Head(j.todo), j.key, j.bits, j.bulk)
                         /\ made = Made(j)
    OBVIOUS
  <1>3. JobTyped("create", j) /\ RowsTyped /\ StoreTyped
    BY <1>1, JobOf DEF CreateRow
  <1>4. Head(j.todo) \in Assets /\ j.bulk \in BOOLEAN
    BY <1>3, HeadTailProperties DEF JobTyped, Job
  <1>5. row \in Row /\ row.asset = Head(j.todo)
    BY <1>2, <1>3, <1>4, NewRowType DEF JobTyped
  <1>6. UNCHANGED <<stored, retired, staging, uploads, object>>
    BY DEF CreateRow
  <1>7. CASE Fails("createRow") /\ Finish(q) /\ UNCHANGED rows
    <2>1. StoreTyped'
      BY <1>3, <1>6, <1>7, ConstantsAssumption DEF StoreTyped, Fails
    <2> QED
      BY <2>1, <1>7, NoJobType, MoveTyped DEF Finish
  <1>8. CASE rows' = Append(rows, row) /\ (UNCHANGED failures \/ Fails("storeMetadata"))
    <2>1. /\ RowsTyped' /\ RowsStay /\ Len(rows) \in Nat /\ Len(rows') = Len(rows) + 1
          /\ rows'[Len(rows) + 1] = row
      BY <1>3, <1>5, <1>8, AppendedRows
    <2>2. StoreTyped'
      BY <1>3, <1>6, <1>8 DEF StoreTyped, Fails
    <2>3. /\ made \in Job /\ made.todo \in Seq(Assets)
          /\ Len(j.list) \in Nat /\ Len(made.list) = Len(j.list) + 1
          /\ \A i \in 1 .. Len(j.list) : made.list[i] = j.list[i]
          /\ made.list[Len(j.list) + 1] = Len(rows) + 1
          /\ made.key = j.key /\ made.bits = j.bits /\ made.back = j.back
          /\ made.todo = Tail(j.todo)
      BY <1>2, <1>3, MadeType
    <2>4. Held(made)'
      <3>1. \A i \in 1 .. Len(j.list) : j.list[i] \in 1 .. Len(rows)
        BY <1>3 DEF JobTyped, Held
      <3>2. \A i \in 1 .. Len(made.list) : i \in 1 .. Len(j.list) \/ i = Len(j.list) + 1
        BY <2>3
      <3>3. \A i \in 1 .. Len(made.list) : made.list[i] \in 1 .. Len(rows')
        BY <2>1, <2>3, <3>1, <3>2
      <3> QED
        BY <3>3 DEF Held
    <2>5. j.key \in Keys /\ j.bits \in Bits
      BY <1>3 DEF JobTyped
    <2>6. CASE made.todo # <<>> /\ Enter(q, "create", made)
      <3>0. made.back = "validate"
        <4>1. j.todo \in Seq(Assets) /\ j.todo # <<>> /\ j \in Job
          BY <1>3 DEF JobTyped, Job
        <4>2. Len(j.todo) # 1
          <5>1. Len(Tail(j.todo)) = Len(j.todo) - 1 /\ Len(j.todo) \in Nat
            BY <4>1, HeadTailProperties, LenProperties
          <5>2. Len(Tail(j.todo)) # 0
            BY <2>3, <2>6, EmptySeq
          <5> QED
            BY <5>1, <5>2
        <4> QED
          BY <1>3, <2>3, <4>2 DEF JobTyped
      <3>1. JobTyped("create", made)'
        BY <2>3, <2>4, <2>5, <2>6, <3>0 DEF JobTyped, AtRow, WithCopy, PCs
      <3> QED
        BY <2>1, <2>2, <2>6, <3>1, EnterTyped
    <2>7. CASE made.todo = <<>> /\ j.back = "validate"
               /\ Enter(q, "validate", At(made, 1, NoRow))
      <3>1. PICK new : new = At(made, 1, NoRow)
        OBVIOUS
      <3>2. /\ new \in Job /\ new.at = 1 /\ new.list = made.list /\ new.todo = made.todo
            /\ new.key = made.key /\ new.bits = made.bits /\ new.back = made.back
        <4>1. made \in Job /\ 1 \in Nat /\ NoRow \in AssetVersion \cup {NoRow}
          BY <2>3
        <4> QED
          BY <3>1, <4>1, AtType
      <3>3. Held(new)'
        BY <2>4, <3>2 DEF Held
      <3>4. JobTyped("validate", new)'
        BY <2>3, <2>5, <2>7, <3>2, <3>3 DEF JobTyped, AtRow, WithCopy, PCs
      <3> QED
        BY <2>1, <2>2, <2>7, <3>1, <3>4, EnterTyped
    <2>8. CASE made.todo = <<>> /\ j.back = "ingest"
               /\ Enter(q, "promote", At(made, 1, row))
      <3>1. PICK new : new = At(made, 1, row)
        OBVIOUS
      <3>2. /\ new \in Job /\ new.at = 1 /\ new.list = made.list /\ new.todo = made.todo
            /\ new.key = made.key /\ new.bits = made.bits /\ new.back = made.back
            /\ new.mem = row
        <4>1. row \in AssetVersion \cup {NoRow} /\ 1 \in Nat
          BY <1>5 DEF Row
        <4> QED
          BY <2>3, <3>1, <4>1, AtType
      <3>3. Held(new)'
        BY <2>4, <3>2 DEF Held
      <3>4. j.list = <<>>
        BY <1>3, <2>8 DEF JobTyped
      <3>5. CopyTyped(new)'
        BY <1>5, <2>1, <2>3, <3>2, <3>4 DEF CopyTyped
      <3>6. JobTyped("promote", new)'
        BY <2>3, <2>5, <2>8, <3>2, <3>3, <3>5 DEF JobTyped, AtRow, WithCopy, PCs
      <3> QED
        BY <2>1, <2>2, <2>8, <3>1, <3>6, EnterTyped
    <2>9. CASE Finish(q)
      <3>1. JobTyped("idle", NoJob)'
        BY <1>3, <2>1, NoJobType, JobFrame
      <3> QED
        BY <2>1, <2>2, <2>9, <3>1, EnterTyped DEF Finish
    <2> QED
      BY <1>1, <1>2, <1>8, <2>3, <2>6, <2>7, <2>8, <2>9 DEF CreateRow
  <1> QED
    BY <1>1, <1>2, <1>7, <1>8 DEF CreateRow

-----------------------------------------------------------------------------
(* The steps of a request that works on a row.                             *)

LEMMA FailsStore ==
    ASSUME TypeInv, NEW step, Fails(step), UNCHANGED <<stored, retired, staging, uploads, object>>
    PROVE  StoreTyped'
  BY ConstantsAssumption DEF TypeInv, StoreTyped, Fails

LEMMA SameStore ==
    ASSUME TypeInv, UNCHANGED <<stored, retired, staging, uploads, object, failures>>
    PROVE  StoreTyped'
  BY DEF TypeInv, StoreTyped

(* The row a request is at.                                                *)
LEMMA RowAt ==
    ASSUME TypeInv, NEW q \in Requests, pc[q] \in AtRow
    PROVE  LET j == job[q]
               r == j.list[j.at]
           IN  /\ j \in Job /\ JobTyped(pc[q], j) /\ r \in 1 .. Len(rows) /\ r \in DOMAIN rows
               /\ rows[r] \in Row /\ j.todo = <<>> /\ j.at \in 1 .. Len(j.list)
               /\ pc[q] \in WithCopy => j.mem \in Row /\ j.mem.asset = rows[r].asset
                                        /\ j.mem.asset \in Assets
  <1>1. JobTyped(pc[q], job[q]) /\ RowsTyped
    BY JobOf
  <1>2. job[q].list[job[q].at] \in 1 .. Len(rows)
    BY <1>1 DEF JobTyped, Held
  <1>3. rows[job[q].list[job[q].at]] \in Row
    BY <1>1, <1>2, RowsLength
  <1>4. \A x \in Row : x.asset \in Assets
    BY DEF Row, AssetVersion
  <1> QED
    BY <1>1, <1>2, <1>3, <1>4, RowsLength DEF JobTyped, CopyTyped, AtRow

(* A place that asks no more of what the request holds.                    *)
LEMMA SamePlaceType ==
    ASSUME NEW place, place \in WithCopy, NEW j, JobTyped(place, j),
           NEW next, next \in WithCopy \ {"verdict", "updateRow"}
    PROVE  JobTyped(next, j)
  BY DEF JobTyped, WithCopy, AtRow, PCs

LEMMA ContinueTyped ==
    ASSUME TypeInv, NEW q \in Requests, NEW place, place \in AtRow, NEW j, JobTyped(place, j),
           Continue(q, j), RowsTyped', RowsStay, StoreTyped'
    PROVE  TypeInv'
  <1>1. JobTyped(place, j) /\ RowsTyped
    BY DEF TypeInv
  <1>2. PICK next, new : Enter(q, next, new) /\ JobTyped(next, new)
    BY <1>1, ContinueType
  <1>3. JobTyped(next, new)'
    BY <1>1, <1>2, JobFrame
  <1> QED
    BY <1>2, <1>3, EnterTyped

LEMMA UnchangedRows == ASSUME RowsTyped, rows' = rows PROVE RowsTyped' /\ RowsStay
  BY LenProperties DEF RowsTyped, RowsStay

(* The workflow is not told of the version at hand.                        *)
LEMMA SkippedIs ==
    ASSUME NEW j, JobTyped("validate", j),
           NEW new, new = [j EXCEPT !.skipped = @ \cup {j.at}]
    PROVE  /\ JobTyped("validate", new)
           /\ new.list = j.list /\ new.todo = j.todo /\ new.at = j.at /\ new.mem = j.mem
           /\ new.key = j.key /\ new.bits = j.bits /\ new.bulk = j.bulk
           /\ new.back = j.back /\ new.failed = j.failed
           /\ new.skipped = j.skipped \cup {j.at}
  <1>1. j \in Job /\ j.at \in Nat
    BY DEF JobTyped, Job
  <1>2. /\ new \in Job
        /\ new.list = j.list /\ new.todo = j.todo /\ new.at = j.at /\ new.mem = j.mem
        /\ new.key = j.key /\ new.bits = j.bits /\ new.bulk = j.bulk
        /\ new.back = j.back /\ new.failed = j.failed
        /\ new.skipped = j.skipped \cup {j.at}
    BY <1>1 DEF Job
  <1>3. JobTyped("validate", new)
    BY <1>2 DEF JobTyped, Held, WithCopy, AtRow
  <1> QED
    BY <1>2, <1>3

LEMMA ReadUploadType ==
    ASSUME TypeInv, NEW q \in Requests, ReadUpload(q)
    PROVE  TypeInv'
  <1>1. PICK j : j = job[q]
    OBVIOUS
  <1>2. PICK r : r = j.list[j.at]
    OBVIOUS
  <1>3. /\ JobTyped("validate", j) /\ j \in Job /\ r \in DOMAIN rows /\ rows[r] \in Row
        /\ j.todo = <<>> /\ j.at \in 1 .. Len(j.list) /\ RowsTyped
    BY <1>1, <1>2, RowAt, JobOf DEF ReadUpload, AtRow, PCs
  <1>4. StoreTyped' /\ rows' = rows
    BY FailsStore, SameStore DEF ReadUpload
  <1>5. CASE Enter(q, "verdict", [j EXCEPT !.mem = rows[r]])
    <2>1. PICK m, new : m \in Row /\ m = rows[r] /\ new = [j EXCEPT !.mem = m]
      BY <1>3
    <2>2. m \in AssetVersion
      BY <2>1 DEF Row
    <2>3. /\ new \in Job /\ new.at = j.at /\ new.mem = m /\ new.list = j.list
          /\ new.todo = j.todo /\ new.key = j.key /\ new.bits = j.bits /\ new.back = j.back
      BY <1>3, <2>1, <2>2 DEF Job
    <2>4. JobTyped("verdict", new)
      BY <1>2, <1>3, <2>1, <2>3 DEF JobTyped, Held, CopyTyped, WithCopy, AtRow, PCs
    <2> QED
      BY <1>4, <1>5, <2>1, <2>4, MoveTyped
  <1>6. CASE Enter(q, "count", Retiring(j, 1))
    <2>1. JobTyped("count", Retiring(j, 1))
      <3>1. Len(j.list) \in Nat
        BY <1>3, LenProperties DEF Job
      <3>2. 1 \in 1 .. Len(j.list)
        BY <1>3, <3>1
      <3> QED
        BY <1>3, <1>6, <3>2, RetiringType DEF JobTyped
    <2> QED
      BY <1>4, <1>6, <2>1, MoveTyped
  <1>7. CASE Continue(q, [j EXCEPT !.skipped = @ \cup {j.at}])
    <2>1. PICK new : new = [j EXCEPT !.skipped = @ \cup {j.at}]
      OBVIOUS
    <2>2. JobTyped("validate", new)
      BY <1>3, <2>1, SkippedIs
    <2>3. RowsTyped' /\ RowsStay
      BY <1>3, <1>4, UnchangedRows
    <2> QED
      BY <1>4, <1>7, <2>1, <2>2, <2>3, ContinueTyped DEF AtRow, PCs
  <1> QED
    BY <1>1, <1>2, <1>5, <1>6, <1>7 DEF ReadUpload

LEMMA PassUploadType ==
    ASSUME TypeInv, NEW q \in Requests, PassUpload(q)
    PROVE  TypeInv'
  <1>1. PICK j : j = job[q]
    OBVIOUS
  <1>2. PICK r : r = j.list[j.at]
    OBVIOUS
  <1>3. /\ JobTyped("verdict", j) /\ j \in Job /\ r \in 1 .. Len(rows)
        /\ j.mem \in Row /\ j.mem.asset = rows[r].asset /\ RowsTyped
    BY <1>1, <1>2, RowAt, JobOf DEF PassUpload, WithCopy, AtRow, PCs
  <1>4. StoreTyped'
    BY FailsStore, SameStore DEF PassUpload
  <1>5. RowsTyped' /\ RowsStay
    <2>1. CASE UNCHANGED rows
      BY <1>3, <2>1, UnchangedRows
    <2>2. CASE SaveRow(r, [j.mem EXCEPT !.ingested = "false"])
      <3>1. PICK m : m = [j.mem EXCEPT !.ingested = "false"]
        OBVIOUS
      <3>2. m \in Row /\ m.asset = j.mem.asset
        BY <1>3, <3>1 DEF Row, AssetVersion, Ingestions
      <3> QED
        BY <1>3, <2>2, <3>1, <3>2, SaveRowTyped
    <2> QED
      BY <1>1, <1>2, <2>1, <2>2 DEF PassUpload
  <1>6. PICK failed \in BOOLEAN : Continue(q, [j EXCEPT !.failed = failed])
    BY <1>1, <1>3 DEF PassUpload, Job
  <1>7. PICK new : new = [j EXCEPT !.failed = failed]
    OBVIOUS
  <1>8. JobTyped("verdict", new)
    BY <1>3, <1>7 DEF JobTyped, Held, CopyTyped, Job
  <1> QED
    BY <1>4, <1>5, <1>6, <1>7, <1>8, ContinueTyped DEF WithCopy, AtRow, PCs

LEMMA FailUploadType ==
    ASSUME TypeInv, NEW q \in Requests, FailUpload(q)
    PROVE  TypeInv'
  <1>1. PICK j, new : j = job[q] /\ new = [j EXCEPT !.failed = TRUE]
    OBVIOUS
  <1>2. JobTyped("verdict", j) /\ j \in Job /\ RowsTyped
    BY <1>1, JobOf DEF FailUpload
  <1>3. JobTyped("verdict", new)
    BY <1>1, <1>2 DEF JobTyped, Held, CopyTyped, Job
  <1>4. JobTyped("count", new)
    BY <1>3, SamePlaceType DEF WithCopy, AtRow, PCs
  <1>5. StoreTyped' /\ rows' = rows
    BY SameStore DEF FailUpload
  <1>6. Continue(q, new) \/ Enter(q, "count", new)
    BY <1>1 DEF FailUpload
  <1> QED
    BY <1>2, <1>3, <1>4, <1>5, <1>6, UnchangedRows, ContinueTyped, MoveTyped DEF WithCopy, AtRow, PCs

LEMMA OfferType ==
    ASSUME TypeInv, NEW q \in Requests, DiscardAssetVersion(q) \/ IngestAsset(q)
    PROVE  TypeInv'
  <1>1. PICK r \in DOMAIN rows, place \in {"count", "promote"}, back \in {"ingest", "end"} :
            Enter(q, place, Offer(r, back))
    BY DEF DiscardAssetVersion, IngestAsset
  <1>2. PICK j : j = Offer(r, back)
    OBVIOUS
  <1>3. JobTyped(place, j)
    BY <1>2, OfferedType DEF TypeInv
  <1>4. StoreTyped' /\ rows' = rows
    BY SameStore DEF DiscardAssetVersion, IngestAsset
  <1> QED
    BY <1>1, <1>2, <1>3, <1>4, MoveTyped

(* The steps that go on with what the request holds, or back to the loop.  *)
LEMMA DiscardStepType ==
    ASSUME TypeInv, NEW q \in Requests, pc[q] \in WithCopy,
           RowsTyped', RowsStay, StoreTyped',
           NEW place \in WithCopy \ {"verdict", "updateRow"},
           Enter(q, place, job[q]) \/ Continue(q, job[q])
    PROVE  TypeInv'
  <1>1. PICK j, here : j = job[q] /\ here = pc[q]
    OBVIOUS
  <1>2. JobTyped(here, j) /\ RowsTyped
    BY <1>1, JobOf
  <1>3. JobTyped(place, j)
    BY <1>1, <1>2, SamePlaceType
  <1>4. JobTyped(place, j)' /\ place \in AtRow
    BY <1>2, <1>3, JobFrame DEF WithCopy
  <1> QED
    BY <1>1, <1>3, <1>4, EnterTyped, ContinueTyped

LEMMA CountReferencesType ==
    ASSUME TypeInv, NEW q \in Requests, CountReferences(q)
    PROVE  TypeInv'
  <1>1. StoreTyped' /\ RowsTyped' /\ RowsStay
    BY FailsStore, SameStore, UnchangedRows DEF CountReferences, TypeInv
  <1> QED
    BY <1>1, DiscardStepType DEF CountReferences, WithCopy, AtRow, PCs

LEMMA RemoveStagedType ==
    ASSUME TypeInv, NEW q \in Requests, RemoveStaged(q)
    PROVE  TypeInv'
  <1>1. RowsTyped' /\ RowsStay
    BY UnchangedRows DEF RemoveStaged, TypeInv
  <1>2. StoreTyped'
    BY ConstantsAssumption DEF RemoveStaged, TypeInv, StoreTyped, Fails
  <1> QED
    BY <1>1, <1>2, DiscardStepType DEF RemoveStaged, WithCopy, AtRow, PCs

LEMMA RetireRowType ==
    ASSUME TypeInv, NEW q \in Requests, RetireRow(q)
    PROVE  TypeInv'
  <1>1. PICK r : r = job[q].list[job[q].at]
    OBVIOUS
  <1>2. r \in 1 .. Len(rows) /\ rows[r] \in Row /\ RowsTyped
    BY <1>1, RowAt DEF RetireRow, AtRow, PCs, TypeInv
  <1>3. StoreTyped'
    BY FailsStore, SameStore DEF RetireRow
  <1>4. RowsTyped' /\ RowsStay
    <2>1. CASE UNCHANGED rows
      BY <1>2, <2>1, UnchangedRows
    <2>2. CASE rows' = [rows EXCEPT ![r].retired = TRUE]
      <3>1. PICK x : x = [rows[r] EXCEPT !.retired = TRUE]
        OBVIOUS
      <3>2. x \in Row /\ x.asset = rows[r].asset
        BY <1>2, <3>1 DEF Row, AssetVersion
      <3>3. rows' = [rows EXCEPT ![r] = x]
        BY <2>2, <3>1
      <3> QED
        BY <1>2, <3>2, <3>3, SavedRows
    <2> QED
      BY <1>1, <2>1, <2>2 DEF RetireRow
  <1> QED
    BY <1>3, <1>4, DiscardStepType DEF RetireRow, WithCopy, AtRow, PCs

LEMMA ClearKeyType ==
    ASSUME TypeInv, NEW q \in Requests, ClearKey(q)
    PROVE  TypeInv'
  <1>1. PICK j, r : j = job[q] /\ r = j.list[j.at]
    OBVIOUS
  <1>2. /\ r \in 1 .. Len(rows) /\ j.mem \in Row /\ j.mem.asset = rows[r].asset /\ RowsTyped
    BY <1>1, RowAt DEF ClearKey, WithCopy, AtRow, PCs, TypeInv
  <1>3. StoreTyped'
    BY FailsStore, SameStore DEF ClearKey
  <1>4. RowsTyped' /\ RowsStay
    <2>1. CASE UNCHANGED rows
      BY <1>2, <2>1, UnchangedRows
    <2>2. CASE SaveRow(r, [j.mem EXCEPT !.key = NoKey])
      <3>1. PICK m : m = [j.mem EXCEPT !.key = NoKey]
        OBVIOUS
      <3>2. m \in Row /\ m.asset = j.mem.asset
        BY <1>2, <3>1 DEF Row, AssetVersion
      <3> QED
        BY <1>2, <2>2, <3>1, <3>2, SaveRowTyped
    <2> QED
      BY <1>1, <2>1, <2>2 DEF ClearKey
  <1> QED
    BY <1>3, <1>4, DiscardStepType DEF ClearKey, WithCopy, AtRow, PCs

LEMMA CheckVersionsType ==
    ASSUME TypeInv, NEW q \in Requests, CheckVersions(q)
    PROVE  TypeInv'
  <1>1. StoreTyped' /\ RowsTyped' /\ RowsStay
    BY SameStore, UnchangedRows DEF CheckVersions, TypeInv
  <1> QED
    BY <1>1, DiscardStepType DEF CheckVersions, WithCopy, AtRow, PCs

LEMMA RetireAssetType ==
    ASSUME TypeInv, NEW q \in Requests, RetireAsset(q)
    PROVE  TypeInv'
  <1>1. RowsTyped' /\ RowsStay
    BY UnchangedRows DEF RetireAsset, TypeInv
  <1>2. job[q].mem.asset \in Assets
    BY RowAt DEF RetireAsset, WithCopy, AtRow, PCs
  <1>3. StoreTyped'
    BY <1>2, ConstantsAssumption DEF RetireAsset, TypeInv, StoreTyped, Fails
  <1> QED
    BY <1>1, <1>3, DiscardStepType DEF RetireAsset, WithCopy, AtRow, PCs

LEMMA PromoteAssetType ==
    ASSUME TypeInv, NEW q \in Requests, PromoteAsset(q)
    PROVE  TypeInv'
  <1>1. PICK j, k : j = job[q] /\ k = j.mem.key
    OBVIOUS
  <1>2. /\ JobTyped("promote", j) /\ j \in Job /\ RowsTyped /\ StoreTyped
        /\ j.mem \in Row /\ j.mem.asset \in Assets
    BY <1>1, RowAt, JobOf DEF PromoteAsset, WithCopy, AtRow, PCs
  <1>3. rows' = rows
    BY DEF PromoteAsset
  <1>4. CASE /\ k # NoKey /\ staging[k] # NoBits
             /\ PromoteStagedAsset(j.mem) /\ Enter(q, "updateAsset", j) /\ UNCHANGED failures
    <2>1. k \in Keys
      BY <1>1, <1>2, <1>4 DEF Row, AssetVersion
    <2>2. staging[k] \in Bits /\ object[j.mem.asset] \in Seq(Bits)
      BY <1>2, <1>4, <2>1 DEF StoreTyped
    <2>3. PICK versions : versions = Append(object[j.mem.asset], staging[k])
      OBVIOUS
    <2>4. versions \in Seq(Bits)
      BY <2>2, <2>3, AppendProperties
    <2>5. object' = [object EXCEPT ![j.mem.asset] = versions] /\ staging' = [staging EXCEPT ![k] = NoBits]
      BY <1>1, <1>4, <2>3 DEF PromoteStagedAsset
    <2>6. StoreTyped'
      BY <1>2, <1>4, <2>4, <2>5 DEF StoreTyped, PromoteAsset
    <2>7. JobTyped("updateAsset", j)
      BY <1>2, SamePlaceType DEF WithCopy, AtRow, PCs
    <2> QED
      BY <1>3, <1>4, <2>6, <2>7, MoveTyped
  <1>5. CASE /\ Enter(q, "count", [j EXCEPT !.back = "end"])
             /\ UNCHANGED <<staging, object, failures>>
    <2>1. PICK new : new = [j EXCEPT !.back = "end"]
      OBVIOUS
    <2>2. JobTyped("count", new)
      BY <1>2, <2>1 DEF JobTyped, Held, CopyTyped, Job, WithCopy, AtRow, PCs
    <2>3. StoreTyped'
      BY <1>5, SameStore DEF PromoteAsset
    <2> QED
      BY <1>3, <1>5, <2>1, <2>2, <2>3, MoveTyped
  <1>6. CASE Finish(q) /\ UNCHANGED <<staging, object>> /\ (UNCHANGED failures \/ Fails("promote"))
    <2>1. StoreTyped'
      BY <1>6, SameStore, FailsStore DEF PromoteAsset
    <2> QED
      BY <1>3, <1>6, <2>1, NoJobType, MoveTyped DEF Finish
  <1> QED
    BY <1>1, <1>4, <1>5, <1>6 DEF PromoteAsset

LEMMA UpdateAssetType ==
    ASSUME TypeInv, NEW q \in Requests, UpdateAsset(q)
    PROVE  TypeInv'
  <1>1. rows' = rows
    BY DEF UpdateAsset
  <1>2. JobTyped("updateAsset", job[q]) /\ job[q].mem.asset \in Assets
    BY RowAt, JobOf DEF UpdateAsset, WithCopy, AtRow, PCs
  <1>3. StoreTyped'
    BY <1>2, ConstantsAssumption DEF UpdateAsset, TypeInv, StoreTyped, Fails
  <1>4. CASE Finish(q)
    BY <1>1, <1>3, <1>4, NoJobType, MoveTyped DEF Finish
  <1>5. CASE Enter(q, "nextVersion", job[q])
    <2>1. JobTyped("nextVersion", job[q])
      BY <1>2, SamePlaceType DEF WithCopy, AtRow, PCs
    <2> QED
      BY <1>1, <1>3, <1>5, <2>1, MoveTyped
  <1> QED
    BY <1>4, <1>5 DEF UpdateAsset

LEMMA NextVersionType ==
    ASSUME TypeInv, NEW q \in Requests, NextVersion(q)
    PROVE  TypeInv'
  <1>1. PICK j, m, v : /\ j = job[q] /\ m = j.mem
                       /\ v = IF m.ingested # "true" /\ m.version = 0
                              THEN ComputeNextVersionNumber(m.asset) ELSE m.version
    OBVIOUS
  <1>2. /\ JobTyped("nextVersion", j) /\ j \in Job /\ m \in Row
    BY <1>1, RowAt, JobOf DEF NextVersion, WithCopy, AtRow, PCs
  <1>3. v \in Nat /\ v > 0
    BY <1>1, <1>2, RowsLength, NextNumber DEF Row, AssetVersion, TypeInv
  <1>4. PICK copy : copy = [m EXCEPT !.version = v]
    OBVIOUS
  <1>5. copy \in Row /\ copy.asset = m.asset /\ copy.version = v
    BY <1>2, <1>3, <1>4 DEF Row, AssetVersion
  <1>6. PICK new : new = [j EXCEPT !.mem = copy]
    OBVIOUS
  <1>7. /\ new \in Job /\ new.mem = copy /\ new.list = j.list /\ new.at = j.at
        /\ new.todo = j.todo /\ new.back = j.back /\ new.key = j.key /\ new.bits = j.bits
    BY <1>2, <1>5, <1>6 DEF Job, Row
  <1>8. JobTyped("updateRow", new)
    BY <1>1, <1>2, <1>3, <1>5, <1>7 DEF JobTyped, Held, CopyTyped, WithCopy, AtRow, PCs
  <1>9. [j EXCEPT !.mem.version = v] = new
    BY <1>1, <1>4, <1>6
  <1>10. Enter(q, "updateRow", new)
    BY <1>1, <1>9 DEF NextVersion
  <1>11. StoreTyped' /\ rows' = rows
    BY SameStore DEF NextVersion
  <1> QED
    BY <1>8, <1>10, <1>11, MoveTyped

LEMMA UpdateRowType ==
    ASSUME TypeInv, NEW q \in Requests, UpdateRow(q)
    PROVE  TypeInv'
  <1>1. PICK j, r : j = job[q] /\ r = j.list[j.at]
    OBVIOUS
  <1>2. /\ r \in 1 .. Len(rows) /\ j.mem \in Row /\ j.mem.asset = rows[r].asset /\ RowsTyped
        /\ j.mem.version > 0
    BY <1>1, RowAt, JobOf DEF UpdateRow, WithCopy, AtRow, PCs, TypeInv, JobTyped
  <1>3. StoreTyped'
    BY FailsStore, SameStore DEF UpdateRow
  <1>4. RowsTyped' /\ RowsStay
    <2>1. CASE UNCHANGED rows
      BY <1>2, <2>1, UnchangedRows
    <2>2. CASE SaveRow(r, [j.mem EXCEPT !.ingested = "true", !.key = NoKey])
      <3>1. PICK m : m = [j.mem EXCEPT !.ingested = "true", !.key = NoKey]
        OBVIOUS
      <3>2. m \in Row /\ m.asset = j.mem.asset
        BY <1>2, <3>1 DEF Row, AssetVersion, Ingestions
      <3> QED
        BY <1>2, <2>2, <3>1, <3>2, SaveRowTyped
    <2> QED
      BY <1>1, <2>1, <2>2 DEF UpdateRow
  <1>5. JobTyped("idle", NoJob)'
    BY <1>2, <1>4, NoJobType, JobFrame
  <1> QED
    BY <1>3, <1>4, <1>5, EnterTyped DEF UpdateRow, Finish

LEMMA NextType == TypeInv /\ [Next]_vars => TypeInv'
  <1> SUFFICES ASSUME TypeInv, [Next]_vars PROVE TypeInv'
    OBVIOUS
  <1>1. CASE UNCHANGED vars
    BY <1>1 DEF vars, TypeInv, RowsTyped, StoreTyped, JobsTyped, JobTyped, Held, CopyTyped
  <1>2. CASE Next
    <2>1. PICK q \in Requests :
            \/ UploadAsset(q) \/ RollbackAssetVersion(q) \/ CreateRow(q)
            \/ ReadUpload(q) \/ PassUpload(q) \/ FailUpload(q)
            \/ DiscardAssetVersion(q) \/ CountReferences(q) \/ RemoveStaged(q)
            \/ RetireRow(q) \/ ClearKey(q) \/ CheckVersions(q) \/ RetireAsset(q)
            \/ IngestAsset(q) \/ PromoteAsset(q) \/ UpdateAsset(q)
            \/ NextVersion(q) \/ UpdateRow(q)
      BY <1>2 DEF Next
    <2> QED
      BY <2>1, UploadAssetType, RollbackAssetVersionType, CreateRowType, ReadUploadType,
         PassUploadType, FailUploadType, OfferType, CountReferencesType, RemoveStagedType,
         RetireRowType, ClearKeyType, CheckVersionsType, RetireAssetType, PromoteAssetType,
         UpdateAssetType, NextVersionType, UpdateRowType
  <1> QED
    BY <1>1, <1>2

LEMMA TypeAlways == Spec => []TypeInv
  BY InitType, NextType, PTL DEF Spec

(* Every variable keeps its type, however requests interleave and fail; an *)
(* ingested row has a version number and refers to no staged file.         *)
THEOREM TypeCorrect == Spec => []TypeOK
  BY TypeAlways, TypeInvImplies, PTL

-----------------------------------------------------------------------------
(* Rows and stored versions agree while one request at a time works on the *)
(* versions of an asset.                                                   *)

Promoted == {"updateAsset", "nextVersion", "updateRow"}

(* A staged file is never mistaken for another: it has the bits, or is gone. *)
KeyOk(k, b) == k # NoKey => k <= uploads /\ staging[k] \in {b, NoBits}

(* The ingested rows of an asset have the versions 1 to n, one each, and   *)
(* lead to their bits.                                                     *)
Numbered(a, n) ==
    /\ \A r \in RowsOf(a) : rows[r].ingested = "true" =>
           /\ a \in stored
           /\ rows[r].version <= n
           /\ object[a][rows[r].version] = rows[r].bits
    /\ \A r, s \in RowsOf(a) :
           rows[r].ingested = "true" /\ rows[s].ingested = "true"
           /\ rows[r].version = rows[s].version => r = s
    /\ \A v \in 1 .. n :
           \E r \in RowsOf(a) : rows[r].ingested = "true" /\ rows[r].version = v

RowKept(x) ==
    /\ x.ingested # "true" => x.version = 0
    /\ KeyOk(x.key, x.bits)

RowsKept == \A r \in 1 .. Len(rows) : RowKept(rows[r])

(* What a request holds of a row is still true of it.                      *)
HeldKept(j) ==
    /\ \A i \in 1 .. Len(j.list) : rows[j.list[i]].ingested # "true"
    /\ KeyOk(j.key, j.bits)
    /\ j.back \in {"validate", "retire"} =>
           \A i \in 1 .. Len(j.list) : rows[j.list[i]].bits = j.bits

CopyKept(place, j) ==
    /\ j.mem.ingested # "true"
    /\ j.mem.bits = rows[j.list[j.at]].bits
    /\ KeyOk(j.mem.key, j.mem.bits)
    /\ place # "updateRow" => j.mem.version = 0

(* Between the promotion and the update of the row the newest version has  *)
(* no row.                                                                 *)
PromotedKept(place, j) ==
    LET a == j.mem.asset  n == Len(object[a])
    IN  /\ n > 0
        /\ object[a][n] = j.mem.bits
        /\ Numbered(a, n - 1)
        /\ place # "updateAsset" => a \in stored
        /\ place = "updateRow" => j.mem.version = n

AllRetired(a) == \A r \in RowsOf(a) : rows[r].retired

JobKept(place, j) ==
    /\ HeldKept(j)
    /\ place \in WithCopy => CopyKept(place, j)
    /\ place = "retireAsset" => AllRetired(j.mem.asset)
    /\ place \in Promoted => PromotedKept(place, j)

(* The assets a request works on.                                          *)
Touches(j, a) ==
    \/ \E i \in 1 .. Len(j.list) : rows[j.list[i]].asset = a
    \/ \E i \in 1 .. Len(j.todo) : j.todo[i] = a

Apart == \A p, q \in Requests : p # q => \A a : ~(Touches(job[p], a) /\ Touches(job[q], a))

Free(a) == \A q \in Requests : pc[q] \in Promoted => job[q].mem.asset # a

AssetsKept == \A a \in Assets : Free(a) => Numbered(a, Len(object[a]))

Kept == Apart /\ RowsKept /\ AssetsKept /\ \A q \in Requests : JobKept(pc[q], job[q])

-----------------------------------------------------------------------------
(* A step of a request changes rows and objects of its own assets only.    *)
RowsFrame(j) ==
    /\ Len(rows') >= Len(rows)
    /\ \A r \in 1 .. Len(rows) : /\ rows'[r].asset = rows[r].asset
                                 /\ rows'[r] = rows[r] \/ Touches(j, rows[r].asset)
    /\ \A r \in 1 .. Len(rows') : r > Len(rows) => Touches(j, rows'[r].asset)

StoreFrame(j) ==
    /\ stored \subseteq stored'
    /\ \A a \in Assets : object'[a] = object[a] \/ Touches(j, a)

KeyFrame ==
    /\ uploads' >= uploads
    /\ \A k \in Keys : k <= uploads => staging'[k] \in {staging[k], NoBits}

(* The ingested rows of a stay as they are, and no row becomes one.        *)
IngestedSame(a) ==
    /\ \A r \in 1 .. Len(rows') : rows'[r].asset = a /\ rows'[r].ingested = "true"
           => r \in 1 .. Len(rows) /\ rows[r] = rows'[r]
    /\ \A r \in 1 .. Len(rows) : rows[r].asset = a /\ rows[r].ingested = "true"
           => r \in 1 .. Len(rows') /\ rows'[r] = rows[r]

LEMMA TouchesIs ==
    ASSUME TypeInv, NEW q \in Requests, NEW a
    PROVE  a \in AssetsOf(q) <=> Touches(job[q], a)
  <1>1. PICK j : j = job[q]
    OBVIOUS
  <1>2. j.list \in Seq(Nat) /\ j.todo \in Seq(Assets)
    BY <1>1 DEF TypeInv, JobsTyped, Job
  <1>3. DOMAIN j.list = 1 .. Len(j.list) /\ DOMAIN j.todo = 1 .. Len(j.todo)
    BY <1>2, LenProperties
  <1>4. a \in AssetsOf(q) <=> \/ \E r \in Range(j.list) : rows[r].asset = a
                              \/ a \in Range(j.todo)
    BY <1>1 DEF AssetsOf
  <1> QED
    BY <1>1, <1>3, <1>4 DEF Range, Touches

LEMMA NumberedFrame ==
    ASSUME TypeInv, TypeInv', NEW a \in Assets, NEW n \in Nat, Numbered(a, n),
           IngestedSame(a), stored \subseteq stored',
           \A v \in 1 .. n : object'[a][v] = object[a][v]
    PROVE  Numbered(a, n)'
  <1>1. /\ DOMAIN rows = 1 .. Len(rows) /\ \A r \in 1 .. Len(rows) : rows[r] \in Row
        /\ DOMAIN rows' = 1 .. Len(rows') /\ \A r \in 1 .. Len(rows') : rows'[r] \in Row
    BY RowsLength DEF TypeInv, RowsTyped
  <1>2. \A r \in RowsOf(a)' : rows'[r].ingested = "true" =>
            r \in RowsOf(a) /\ rows[r] = rows'[r]
    BY <1>1 DEF RowsOf, IngestedSame
  <1>3. \A r \in RowsOf(a) : rows[r].ingested = "true" =>
            r \in RowsOf(a)' /\ rows'[r] = rows[r] /\ rows[r].version \in Nat \ {0}
    BY <1>1 DEF RowsOf, IngestedSame, Row, AssetVersion
  <1>4. \A r \in RowsOf(a)' : rows'[r].ingested = "true" =>
            /\ a \in stored'
            /\ rows'[r].version <= n
            /\ object'[a][rows'[r].version] = rows'[r].bits
    <2> SUFFICES ASSUME NEW r \in RowsOf(a)', rows'[r].ingested = "true"
                 PROVE  /\ a \in stored'
                        /\ rows'[r].version <= n
                        /\ object'[a][rows'[r].version] = rows'[r].bits
      OBVIOUS
    <2>1. r \in RowsOf(a) /\ rows[r] = rows'[r] /\ rows[r].version \in Nat \ {0}
      BY <1>2, <1>3
    <2>2. a \in stored /\ rows[r].version <= n /\ object[a][rows[r].version] = rows[r].bits
      BY <2>1 DEF Numbered
    <2>3. rows[r].version \in 1 .. n
      BY <2>1, <2>2
    <2> QED
      BY <2>1, <2>2, <2>3
  <1>5. \A r, s \in RowsOf(a)' :
           rows'[r].ingested = "true" /\ rows'[s].ingested = "true"
           /\ rows'[r].version = rows'[s].version => r = s
    BY <1>2 DEF Numbered
  <1>6. \A v \in 1 .. n :
           \E r \in RowsOf(a)' : rows'[r].ingested = "true" /\ rows'[r].version = v
    BY <1>3 DEF Numbered
  <1> QED
    BY <1>4, <1>5, <1>6 DEF Numbered

LEMMA KeyOkFrame ==
    ASSUME TypeInv, TypeInv', KeyFrame, NEW k \in Keys \cup {NoKey}, NEW b, KeyOk(k, b)
    PROVE  KeyOk(k, b)'
  <1>1. uploads \in Nat /\ uploads' \in Nat /\ uploads' >= uploads
    BY ConstantsAssumption DEF TypeInv, StoreTyped, KeyFrame
  <1>2. CASE k # NoKey
    <2>1. k \in Nat /\ k <= uploads /\ staging[k] \in {b, NoBits} /\ k \in Keys
      BY <1>2, ConstantsAssumption DEF KeyOk, Keys
    <2>2. staging'[k] \in {staging[k], NoBits}
      BY <2>1 DEF KeyFrame
    <2>3. uploads' >= k
      BY <1>1, <2>1
    <2> QED
      BY <2>1, <2>2, <2>3 DEF KeyOk, KeyFrame
  <1> QED
    BY <1>2 DEF KeyOk

(* A request whose assets the step does not touch.                         *)
LEMMA OtherJobKept ==
    ASSUME TypeInv, TypeInv', NEW j, RowsFrame(j), StoreFrame(j), KeyFrame,
           NEW place, NEW h, JobTyped(place, h), JobTyped(place, h)', JobKept(place, h),
           \A a : ~(Touches(j, a) /\ Touches(h, a))
    PROVE  /\ JobKept(place, h)'
           /\ \A a : Touches(h, a)' <=> Touches(h, a)
  <1>1. /\ Held(h) /\ h.list \in Seq(Nat) /\ h.todo \in Seq(Assets) /\ h \in Job
        /\ Len(h.list) \in Nat
    BY LenProperties DEF JobTyped, Job
  <1>2. Len(rows) \in Nat /\ Len(rows') \in Nat /\ Len(rows') >= Len(rows)
        /\ DOMAIN rows = 1 .. Len(rows) /\ DOMAIN rows' = 1 .. Len(rows')
    BY RowsLength DEF TypeInv, RowsTyped, RowsFrame
  <1>3. \A i \in 1 .. Len(h.list) : /\ h.list[i] \in 1 .. Len(rows)
                                    /\ rows'[h.list[i]] = rows[h.list[i]]
    BY <1>1 DEF Held, RowsFrame, Touches
  <1>4. \A a : Touches(h, a)' <=> Touches(h, a)
    BY <1>3 DEF Touches
  <1>5. HeldKept(h)'
    <2>1. KeyOk(h.key, h.bits)'
      BY <1>1, KeyOkFrame DEF JobKept, HeldKept, Job
    <2> QED
      BY <1>3, <2>1 DEF JobKept, HeldKept
  <1>6. \A a : Touches(h, a) => RowsOf(a)' = RowsOf(a) /\ \A r \in RowsOf(a) : rows'[r] = rows[r]
    <2> SUFFICES ASSUME NEW a, Touches(h, a)
                 PROVE  RowsOf(a)' = RowsOf(a) /\ \A r \in RowsOf(a) : rows'[r] = rows[r]
      OBVIOUS
    <2>1. ~Touches(j, a)
      OBVIOUS
    <2>2. \A r \in RowsOf(a) : r \in 1 .. Len(rows) /\ rows'[r] = rows[r]
      BY <1>2, <2>1 DEF RowsOf, RowsFrame
    <2>3. \A r \in RowsOf(a)' : r \in 1 .. Len(rows)
      BY <1>2, <2>1 DEF RowsOf, RowsFrame
    <2>4. \A r \in RowsOf(a)' : r \in RowsOf(a)
      BY <1>2, <2>3 DEF RowsOf, RowsFrame
    <2>5. \A r \in RowsOf(a) : r \in RowsOf(a)'
      BY <1>2, <2>2 DEF RowsOf
    <2> QED
      BY <2>2, <2>4, <2>5
  <1>7. ASSUME place \in WithCopy
        PROVE  CopyKept(place, h)' /\ Touches(h, h.mem.asset) /\ h.mem \in Row
    <2>1. h.at \in 1 .. Len(h.list) /\ h.mem \in Row /\ h.mem.asset = rows[h.list[h.at]].asset
      BY <1>7 DEF JobTyped, CopyTyped, WithCopy
    <2>2. KeyOk(h.mem.key, h.mem.bits)'
      BY <1>7, <2>1, KeyOkFrame DEF JobKept, CopyKept, Row, AssetVersion
    <2> QED
      BY <1>3, <1>7, <2>1, <2>2 DEF JobKept, CopyKept, Touches
  <1>8. ASSUME place = "retireAsset" PROVE AllRetired(h.mem.asset)'
    <2>1. Touches(h, h.mem.asset)
      BY <1>7, <1>8 DEF WithCopy, AtRow, PCs
    <2> QED
      BY <1>6, <1>8, <2>1 DEF JobKept, AllRetired
  <1>9. ASSUME place \in Promoted PROVE PromotedKept(place, h)'
    <2>1. PICK a : a = h.mem.asset
      OBVIOUS
    <2>2. Touches(h, a) /\ a \in Assets
      BY <1>7, <1>9, <2>1 DEF Promoted, WithCopy, AtRow, PCs, Row, AssetVersion
    <2>3. object'[a] = object[a] /\ stored \subseteq stored'
      BY <2>2 DEF StoreFrame
    <2>4. PICK n : n = Len(object[a])
      OBVIOUS
    <2>5. n \in Nat
      BY <2>2, <2>4, LenProperties DEF TypeInv, StoreTyped
    <2>6. n > 0 /\ Numbered(a, n - 1) /\ object[a][n] = h.mem.bits
          /\ (place # "updateAsset" => a \in stored) /\ (place = "updateRow" => h.mem.version = n)
      BY <1>9, <2>1, <2>4 DEF JobKept, PromotedKept
    <2>7. IngestedSame(a)
      BY <1>2, <1>6, <2>2 DEF IngestedSame, RowsOf
    <2>8. Numbered(a, n - 1)'
      <3>1. n - 1 \in Nat
        BY <2>5, <2>6
      <3> QED
        BY <2>2, <2>3, <2>6, <2>7, <3>1, NumberedFrame
    <2> QED
      BY <2>1, <2>3, <2>4, <2>6, <2>8 DEF PromotedKept
  <1> QED
    BY <1>4, <1>5, <1>7, <1>8, <1>9 DEF JobKept

(* A step keeps the invariant when it keeps it of the request that takes   *)
(* it, and of the assets the request works on.                             *)
LEMMA StepKept ==
    ASSUME TypeInv, TypeInv', Kept, NEW q \in Requests, NEW place, NEW new,
           Enter(q, place, new),
           RowsFrame(job[q]), StoreFrame(job[q]), KeyFrame,
           RowsKept', JobKept(place, new)',
           \A a : Touches(new, a)' =>
               \/ Touches(job[q], a)
               \/ \A p \in Requests : ~Touches(job[p], a),
           \A a \in Assets : Touches(job[q], a) /\ Free(a)' => Numbered(a, Len(object[a]))'
    PROVE  Kept'
  <1>1. \A p \in Requests : pc'[p] = (IF p = q THEN place ELSE pc[p])
                            /\ job'[p] = (IF p = q THEN new ELSE job[p])
    BY DEF TypeInv, JobsTyped, Enter
  <1>2. ASSUME NEW p \in Requests \ {q}
        PROVE  /\ JobKept(pc[p], job[p])'
               /\ \A a : Touches(job[p], a)' <=> Touches(job[p], a)
    <2>1. PICK place2, h : place2 = pc[p] /\ h = job[p]
      OBVIOUS
    <2>2. JobTyped(place2, h) /\ JobKept(place2, h)
      BY <2>1 DEF TypeInv, JobsTyped, Kept
    <2>3. pc'[p] = place2 /\ job'[p] = h
      BY <1>1, <2>1
    <2>4. JobTyped(place2, h)'
      BY <2>3 DEF TypeInv, JobsTyped
    <2>5. \A a : ~(Touches(job[q], a) /\ Touches(h, a))
      BY <2>1 DEF Kept, Apart
    <2>6. JobKept(place2, h)' /\ \A a : Touches(h, a)' <=> Touches(h, a)
      BY <2>2, <2>4, <2>5, OtherJobKept
    <2> QED
      BY <2>1, <2>3, <2>6
  <1>3. \A p \in Requests : JobKept(pc[p], job[p])'
    <2>1. JobKept(pc[q], job[q])'
      BY <1>1
    <2> QED
      BY <1>2, <2>1
  <1>4. Apart'
    <2>1. \A p \in Requests \ {q} : \A a : ~(Touches(job[q], a)' /\ Touches(job[p], a)')
      <3> SUFFICES ASSUME NEW p \in Requests \ {q}, NEW a, Touches(job[q], a)', Touches(job[p], a)'
                   PROVE  FALSE
        OBVIOUS
      <3>1. Touches(new, a)'
        BY <1>1
      <3>2. Touches(job[p], a)
        BY <1>2
      <3> QED
        BY <3>1, <3>2 DEF Kept, Apart
    <2>2. \A p, s \in Requests \ {q} : p # s =>
              \A a : ~(Touches(job[p], a)' /\ Touches(job[s], a)')
      BY <1>2 DEF Kept, Apart
    <2> QED
      BY <2>1, <2>2 DEF Apart
  <1>5. AssetsKept'
    <2> SUFFICES ASSUME NEW a \in Assets, Free(a)', ~Touches(job[q], a)
                 PROVE  Numbered(a, Len(object[a]))'
      BY DEF AssetsKept
    <2>1. Free(a)
      <3> SUFFICES ASSUME NEW p \in Requests, pc[p] \in Promoted, job[p].mem.asset = a
                   PROVE  FALSE
        BY DEF Free
      <3>1. CASE p = q
        <4>1. PICK j : j = job[q]
          OBVIOUS
        <4>2. j.at \in 1 .. Len(j.list) /\ j.mem.asset = rows[j.list[j.at]].asset
          BY <3>1, <4>1 DEF TypeInv, JobsTyped, JobTyped, Promoted, WithCopy, AtRow, PCs, CopyTyped
        <4> QED
          BY <3>1, <4>1, <4>2 DEF Touches
      <3>2. CASE p # q
        BY <1>1, <3>2 DEF Free
      <3> QED
        BY <3>1, <3>2
    <2>2. PICK n : n = Len(object[a])
      OBVIOUS
    <2>3. n \in Nat /\ Numbered(a, n)
      BY <2>1, <2>2, LenProperties DEF Kept, AssetsKept, TypeInv, StoreTyped
    <2>4. object'[a] = object[a] /\ stored \subseteq stored'
      BY DEF StoreFrame
    <2>5. IngestedSame(a)
      <3>1. Len(rows) \in Nat /\ Len(rows') \in Nat
        BY LenProperties DEF TypeInv, RowsTyped
      <3> QED
        BY <3>1 DEF RowsFrame, IngestedSame
    <2>6. Numbered(a, n)'
      BY <2>3, <2>4, <2>5, NumberedFrame
    <2> QED
      BY <2>2, <2>4, <2>6
  <1> QED
    BY <1>3, <1>4, <1>5 DEF Kept

LEMMA NoJobTouches == \A a : ~Touches(NoJob, a)
  BY DEF Touches, NoJob

LEMMA NoJobKept == JobKept("idle", NoJob)
  BY DEF JobKept, HeldKept, KeyOk, NoJob, WithCopy, AtRow, Promoted

LEMMA RowsKeptFrame ==
    ASSUME TypeInv, TypeInv', RowsKept, KeyFrame, rows' = rows
    PROVE  RowsKept'
  <1>1. \A r \in 1 .. Len(rows) : rows[r].key \in Keys \cup {NoKey}
    BY RowsLength DEF TypeInv, Row, AssetVersion
  <1> QED
    BY <1>1, KeyOkFrame DEF RowsKept, RowKept

(* A step that writes neither rows nor objects.                            *)
LEMMA MovedKept ==
    ASSUME TypeInv, TypeInv', Kept, NEW q \in Requests, NEW place, NEW new,
           Enter(q, place, new), pc[q] \notin Promoted,
           rows' = rows, object' = object, stored' = stored, KeyFrame,
           JobKept(place, new)',
           \A a : Touches(new, a)' =>
               \/ Touches(job[q], a)
               \/ \A p \in Requests : ~Touches(job[p], a)
    PROVE  Kept'
  <1>1. Len(rows) \in Nat
    BY LenProperties DEF TypeInv, RowsTyped
  <1>2. \A j : RowsFrame(j) /\ StoreFrame(j)
    BY <1>1 DEF RowsFrame, StoreFrame
  <1>3. RowsKept'
    BY RowsKeptFrame DEF Kept
  <1>4. \A a \in Assets : Free(a)' => Numbered(a, Len(object[a]))'
    <2> SUFFICES ASSUME NEW a \in Assets, Free(a)' PROVE Numbered(a, Len(object[a]))'
      OBVIOUS
    <2>1. Free(a)
      BY DEF Free, TypeInv, JobsTyped, Enter
    <2>2. Numbered(a, Len(object[a]))
      BY <2>1 DEF Kept, AssetsKept
    <2> QED
      BY <2>2 DEF Numbered, RowsOf
  <1> QED
    BY <1>2, <1>3, <1>4, StepKept

LEMMA MoveKept ==
    ASSUME TypeInv, TypeInv', Kept, NEW q \in Requests, NEW place, NEW new,
           Enter(q, place, new), pc[q] \notin Promoted,
           rows' = rows, object' = object, stored' = stored, KeyFrame,
           JobKept(place, new),
           \A a : Touches(new, a) =>
               \/ Touches(job[q], a)
               \/ \A p \in Requests : ~Touches(job[p], a)
    PROVE  Kept'
  <1>1. Len(rows) \in Nat
    BY LenProperties DEF TypeInv, RowsTyped
  <1>2. RowsFrame(NoJob) /\ StoreFrame(NoJob)
    BY <1>1 DEF RowsFrame, StoreFrame
  <1>3. JobTyped(place, new)'
    BY DEF TypeInv, JobsTyped, Enter
  <1>4. JobTyped(place, new)
    BY <1>3 DEF JobTyped, Held, CopyTyped
  <1>5. JobKept(place, new)' /\ \A a : Touches(new, a)' <=> Touches(new, a)
    <2> HIDE DEF NoJob
    <2> QED
      BY <1>2, <1>3, <1>4, NoJobTouches, OtherJobKept
  <1> QED
    BY <1>5, MovedKept

(* A step that writes the row at hand, which is not ingested.              *)
LEMMA WriteKept ==
    ASSUME TypeInv, TypeInv', Kept, NEW q \in Requests, NEW place, NEW new,
           Enter(q, place, new), pc[q] \in AtRow \ Promoted,
           NEW x \in Row, x.ingested # "true", RowKept(x),
           LET j == job[q]  r == j.list[j.at]
           IN  /\ x.asset = rows[r].asset /\ x.bits = rows[r].bits
               /\ rows' = [rows EXCEPT ![r] = x],
           object' = object, stored' = stored, staging' = staging, uploads' = uploads,
           place \notin Promoted \cup {"retireAsset"}, JobKept(place, new),
           \A a : Touches(new, a) => Touches(job[q], a)
    PROVE  Kept'
  <1>1. PICK j, r : j = job[q] /\ r = j.list[j.at]
    OBVIOUS
  <1>2. /\ JobTyped(pc[q], j) /\ j.at \in 1 .. Len(j.list)
        /\ r \in 1 .. Len(rows) /\ rows \in Seq(Row)
    BY <1>1 DEF TypeInv, JobsTyped, JobTyped, Held, RowsTyped
  <1>3. JobKept(pc[q], j) /\ rows[r].ingested # "true"
    BY <1>1, <1>2 DEF Kept, JobKept, HeldKept
  <1>4. /\ x.asset = rows[r].asset /\ x.bits = rows[r].bits
        /\ rows' = [rows EXCEPT ![r] = x]
    BY <1>1
  <1>5. /\ Len(rows) \in Nat /\ Len(rows') = Len(rows)
        /\ \A i \in 1 .. Len(rows) : rows'[i] = IF i = r THEN x ELSE rows[i]
    BY <1>2, <1>4, LenProperties, ExceptSeq
  <1>6. Touches(j, rows[r].asset)
    BY <1>1, <1>2 DEF Touches
  <1>7. RowsFrame(j)
    BY <1>4, <1>5, <1>6 DEF RowsFrame
  <1>8. StoreFrame(j) /\ KeyFrame
    <2>1. uploads \in Nat
      BY ConstantsAssumption DEF TypeInv, StoreTyped
    <2> QED
      BY <2>1 DEF StoreFrame, KeyFrame
  <1>9. RowsKept'
    <2>1. \A i \in 1 .. Len(rows) : RowKept(rows'[i])
      BY <1>5 DEF Kept, RowsKept
    <2> QED
      BY <1>5, <2>1 DEF RowsKept, RowKept, KeyOk
  <1>10. pc'[q] = place /\ job'[q] = new
    BY DEF TypeInv, JobsTyped, Enter
  <1>11. /\ Held(new)' /\ (place \in WithCopy => new.at \in 1 .. Len(new.list))
    BY <1>10 DEF TypeInv, JobsTyped, JobTyped, WithCopy
  <1>12. \A i \in 1 .. Len(new.list) : new.list[i] \in 1 .. Len(rows)
    BY <1>5, <1>11 DEF Held
  <1>13. \A a : Touches(new, a)' <=> Touches(new, a)
    BY <1>4, <1>5, <1>12 DEF Touches
  <1>14. JobKept(place, new)'
    <2>1. HeldKept(new)'
      BY <1>4, <1>5, <1>12 DEF JobKept, HeldKept, KeyOk
    <2>2. place \in WithCopy => CopyKept(place, new)'
      BY <1>4, <1>5, <1>11, <1>12 DEF JobKept, CopyKept, KeyOk
    <2> QED
      BY <2>1, <2>2 DEF JobKept
  <1>15. \A a \in Assets : Free(a)' => Numbered(a, Len(object[a]))'
    <2> SUFFICES ASSUME NEW a \in Assets, Free(a)' PROVE Numbered(a, Len(object[a]))'
      OBVIOUS
    <2>1. Free(a)
      BY DEF Free, TypeInv, JobsTyped, Enter
    <2>2. PICK n : n = Len(object[a])
      OBVIOUS
    <2>3. n \in Nat /\ Numbered(a, n)
      BY <2>1, <2>2, LenProperties DEF Kept, AssetsKept, TypeInv, StoreTyped
    <2>4. IngestedSame(a)
      BY <1>3, <1>5 DEF IngestedSame
    <2>5. Numbered(a, n)'
      BY <2>3, <2>4, NumberedFrame
    <2> QED
      BY <2>2, <2>5
  <1> QED
    BY <1>1, <1>7, <1>8, <1>9, <1>13, <1>14, <1>15, StepKept

-----------------------------------------------------------------------------
(* The requests' steps keep the agreement.                                 *)

LEMMA UploadsNat == TypeInv => uploads \in Nat
  BY ConstantsAssumption DEF TypeInv, StoreTyped

LEMMA SameKeys ==
    ASSUME TypeInv, UNCHANGED <<staging, uploads>>
    PROVE  KeyFrame
  BY UploadsNat DEF KeyFrame

(* Nobody else works on the assets of a request that starts.               *)
LEMMA StartApart ==
    ASSUME TypeInv, Serial, NEW q \in Requests, NEW as, MayStart(q, as)
    PROVE  /\ pc[q] = "idle"
           /\ \A a \in as, p \in Requests : ~Touches(job[p], a)
  <1>1. \A p \in Requests : AssetsOf(p) \cap as = {}
    BY DEF MayStart
  <1> QED
    BY <1>1, TouchesIs DEF MayStart

LEMMA UploadKept ==
    ASSUME TypeInv, TypeInv', Kept, NEW q \in Requests, pc[q] = "idle",
           NEW list, NEW bulk, NEW b \in Bits, NEW back,
           \A i \in 1 .. Len(list), p \in Requests : ~Touches(job[p], list[i]),
           uploads < MaxUploads,
           uploads' = uploads + 1,
           staging' = [staging EXCEPT ![uploads + 1] = b],
           rows' = rows, object' = object, stored' = stored,
           Enter(q, "create", Upload(list, bulk, uploads + 1, b, back))
    PROVE  Kept'
  <1>1. PICK j : j = Upload(list, bulk, uploads + 1, b, back)
    OBVIOUS
  <1>2. j.list = <<>> /\ j.todo = list /\ j.key = uploads + 1 /\ j.bits = b /\ Len(<<>>) = 0
    BY <1>1 DEF Upload, NoJob
  <1>3. uploads \in Nat /\ uploads + 1 \in Keys /\ staging \in [Keys -> Bits \cup {NoBits}]
    BY UploadsNat, ConstantsAssumption DEF Keys, TypeInv, StoreTyped
  <1>4. KeyFrame
    BY <1>3 DEF KeyFrame
  <1>5. KeyOk(j.key, j.bits)'
    BY <1>2, <1>3 DEF KeyOk
  <1>6. JobKept("create", j)'
    BY <1>2, <1>5 DEF JobKept, HeldKept, WithCopy, AtRow, Promoted
  <1>7. \A a : Touches(j, a)' => \A p \in Requests : ~Touches(job[p], a)
    BY <1>2 DEF Touches
  <1>8. Enter(q, "create", j) /\ pc[q] \notin Promoted
    BY <1>1 DEF Promoted
  <1> QED
    BY <1>4, <1>6, <1>7, <1>8, MovedKept

LEMMA UploadAssetKept ==
    ASSUME TypeInv, TypeInv', Kept, Serial, NEW q \in Requests, UploadAsset(q)
    PROVE  Kept'
  <1>1. PICK list \in {<<a>> : a \in Assets} \cup Bulks, b \in Bits :
            /\ MayStart(q, Range(list))
            /\ staging' = [staging EXCEPT ![uploads + 1] = b]
            /\ Enter(q, "create", Upload(list, list \in Bulks, uploads + 1, b, "validate"))
    BY DEF UploadAsset
  <1>2. PICK bulk : bulk = (list \in Bulks)
    OBVIOUS
  <1>3. pc[q] = "idle" /\ \A a \in Range(list), p \in Requests : ~Touches(job[p], a)
    BY <1>1, StartApart
  <1>4. \A i \in 1 .. Len(list) : list[i] \in Range(list)
    <2>1. DOMAIN list = 1 .. Len(list)
      BY ListType, LenProperties
    <2> QED
      BY <2>1 DEF Range
  <1> QED
    BY <1>1, <1>2, <1>3, <1>4, UploadKept DEF UploadAsset

LEMMA RollbackAssetVersionKept ==
    ASSUME TypeInv, TypeInv', Kept, Serial, NEW q \in Requests, RollbackAssetVersion(q)
    PROVE  Kept'
  <1>1. PICK r \in DOMAIN rows :
            /\ MayStart(q, {rows[r].asset})
            /\ ReadAsset(r) # NoBits
            /\ staging' = [staging EXCEPT ![uploads + 1] = ReadAsset(r)]
            /\ IF ReadAsset(r) = rows[r].bits
               THEN Enter(q, "create", Upload(<<rows[r].asset>>, FALSE, uploads + 1, rows[r].bits,
                                              IF rows[r].asset \in stored THEN "ingest" ELSE "end"))
               ELSE Finish(q)
    BY DEF RollbackAssetVersion
  <1>2. pc[q] = "idle" /\ \A p \in Requests : ~Touches(job[p], rows[r].asset)
    BY <1>1, StartApart
  <1>3. /\ uploads < MaxUploads /\ uploads' = uploads + 1
        /\ rows' = rows /\ object' = object /\ stored' = stored
    BY DEF RollbackAssetVersion
  <1>4. CASE ReadAsset(r) = rows[r].bits
    <2>1. PICK b, back, list : /\ b = rows[r].bits
                               /\ back = IF rows[r].asset \in stored THEN "ingest" ELSE "end"
                               /\ list = <<rows[r].asset>>
      OBVIOUS
    <2>2. b \in Bits
      BY <2>1, RowsLength DEF TypeInv, Row, AssetVersion
    <2>3. \A i \in 1 .. Len(list), p \in Requests : ~Touches(job[p], list[i])
      BY <1>2, <2>1
    <2>4. staging' = [staging EXCEPT ![uploads + 1] = b]
          /\ Enter(q, "create", Upload(list, FALSE, uploads + 1, b, back))
      BY <1>1, <1>4, <2>1
    <2> QED
      BY <1>2, <1>3, <2>2, <2>3, <2>4, UploadKept
  <1>5. CASE Finish(q)
    <2>1. KeyFrame
      BY <1>1, <1>3, UploadsNat DEF KeyFrame, TypeInv, StoreTyped
    <2>2. Enter(q, "idle", NoJob) /\ pc[q] \notin Promoted
      BY <1>2, <1>5 DEF Finish, Promoted
    <2> HIDE DEF NoJob
    <2> QED
      BY <1>3, <2>1, <2>2, NoJobKept, NoJobTouches, MoveKept
  <1> QED
    BY <1>1, <1>4, <1>5

(* A request that takes up a row the user was offered.                     *)
LEMMA OfferKept ==
    ASSUME TypeInv, TypeInv', Kept, Serial, NEW q \in Requests,
           NEW place \in {"count", "promote"}, NEW back \in {"ingest", "end"},
           NEW r \in DOMAIN rows, MayStart(q, {rows[r].asset}), Listed(r),
           Enter(q, place, Offer(r, back)),
           UNCHANGED <<rows, stored, staging, uploads, object>>
    PROVE  Kept'
  <1>1. pc[q] = "idle" /\ \A p \in Requests : ~Touches(job[p], rows[r].asset)
    BY StartApart
  <1>2. PICK j : j = Offer(r, back)
    OBVIOUS
  <1>3. /\ j.list = <<r>> /\ j.mem = rows[r] /\ j.at = 1 /\ j.back = back
        /\ j.key = NoKey /\ j.todo = <<>>
    BY <1>2, OfferedType DEF TypeInv
  <1>4. Len(j.list) = 1 /\ j.list[1] = r /\ Len(j.todo) = 0
    BY <1>3
  <1>5. rows[r].ingested = "false" /\ RowKept(rows[r])
    BY RowsLength DEF Kept, RowsKept, Listed, TypeInv
  <1>6. HeldKept(j)
    BY <1>3, <1>4, <1>5 DEF HeldKept, KeyOk
  <1>7. CopyKept(place, j)
    BY <1>3, <1>4, <1>5 DEF CopyKept, RowKept
  <1>8. JobKept(place, j)
    BY <1>6, <1>7 DEF JobKept, Promoted
  <1>9. \A a : Touches(j, a) => a = rows[r].asset
    BY <1>3, <1>4 DEF Touches
  <1>10. pc[q] \notin Promoted /\ Enter(q, place, j)
    BY <1>1, <1>2 DEF Promoted
  <1> QED
    BY <1>1, <1>8, <1>9, <1>10, SameKeys, MoveKept

LEMMA NewRowFields ==
    ASSUME NEW a, NEW k, NEW b, NEW bulk, NEW x, x = NewRow(a, k, b, bulk)
    PROVE  /\ x.asset = a /\ x.key = k /\ x.bits = b /\ x.version = 0
           /\ x.ingested # "true"
  BY DEF NewRow

(* A step that adds a row, of an asset the request works on.               *)
LEMMA CreatedKept ==
    ASSUME TypeInv, TypeInv', Kept, NEW q \in Requests, pc[q] = "create",
           NEW j, j = job[q], NEW row,
           row = NewRow(Head(j.todo), j.key, j.bits, j.bulk),
           rows' = Append(rows, row),
           UNCHANGED <<stored, staging, uploads, object>>,
           NEW place, NEW new, Enter(q, place, new), place \notin Promoted \cup {"retireAsset"},
           HeldKept(new)', place \in WithCopy => CopyKept(place, new)',
           \A a : Touches(new, a)' => Touches(j, a)
    PROVE  Kept'
  <1>1. JobTyped("create", j) /\ RowsTyped /\ StoreTyped /\ JobKept("create", j)
    BY JobOf DEF Kept
  <1>2. j.todo \in Seq(Assets) /\ j.todo # <<>> /\ j.bulk \in BOOLEAN /\ j.key \in Keys /\ j.bits \in Bits
    BY <1>1 DEF JobTyped, Job
  <1>3. Head(j.todo) \in Assets /\ j.todo[1] = Head(j.todo) /\ Len(j.todo) \in Nat /\ 1 <= Len(j.todo)
    BY <1>2, HeadTailProperties, LenProperties, EmptySeq
  <1>4. row \in Row
    BY <1>2, <1>3, NewRowType
  <1>5. row.asset = Head(j.todo) /\ row.key = j.key /\ row.bits = j.bits
        /\ row.version = 0 /\ row.ingested # "true"
    BY NewRowFields
  <1>6. /\ Len(rows) \in Nat /\ Len(rows') = Len(rows) + 1 /\ rows'[Len(rows) + 1] = row
        /\ \A r \in 1 .. Len(rows) : rows'[r] = rows[r]
    BY <1>1, <1>4, AppendedRows
  <1>7. Touches(j, row.asset)
    BY <1>3, <1>5 DEF Touches
  <1>8. RowsFrame(j)
    BY <1>6, <1>7 DEF RowsFrame
  <1>9. StoreFrame(j) /\ KeyFrame
    BY SameKeys DEF StoreFrame
  <1>10. RowsKept'
    <2>1. \A r \in 1 .. Len(rows) : RowKept(rows[r])'
      BY <1>6 DEF Kept, RowsKept, RowKept, KeyOk
    <2>2. RowKept(row)'
      BY <1>1, <1>5 DEF JobKept, HeldKept, RowKept, KeyOk
    <2>3. \A r \in 1 .. Len(rows') : r \in 1 .. Len(rows) \/ r = Len(rows) + 1
      BY <1>6
    <2>4. ASSUME NEW r \in 1 .. Len(rows') PROVE RowKept(rows[r])'
      <3>1. CASE r \in 1 .. Len(rows)
        BY <2>1, <3>1
      <3>2. CASE r = Len(rows) + 1
        BY <1>6, <2>2, <3>2 DEF RowKept, KeyOk
      <3> QED
        BY <2>3, <3>1, <3>2
    <2> QED
      BY <2>4 DEF RowsKept
  <1>11. \A a \in Assets : Free(a)' => Numbered(a, Len(object[a]))'
    <2> SUFFICES ASSUME NEW a \in Assets, Free(a)' PROVE Numbered(a, Len(object[a]))'
      OBVIOUS
    <2>1. Free(a)
      BY DEF Free, TypeInv, JobsTyped, Enter, Promoted
    <2>2. PICK n : n = Len(object[a])
      OBVIOUS
    <2>3. n \in Nat /\ Numbered(a, n)
      BY <2>1, <2>2, LenProperties DEF Kept, AssetsKept, TypeInv, StoreTyped
    <2>4. IngestedSame(a)
      BY <1>5, <1>6 DEF IngestedSame
    <2>5. Numbered(a, n)'
      BY <2>3, <2>4, NumberedFrame
    <2> QED
      BY <2>2, <2>5
  <1>12. JobKept(place, new)'
    BY DEF JobKept
  <1> QED
    BY <1>8, <1>9, <1>10, <1>11, <1>12, StepKept

LEMMA CreateRowKept ==
    ASSUME TypeInv, TypeInv', Kept, NEW q \in Requests, CreateRow(q)
    PROVE  Kept'
  <1>1. PICK j : j = job[q]
    OBVIOUS
  <1>2. PICK row, made : row = NewRow(Head(j.todo), j.key, j.bits, j.bulk)
                         /\ made = Made(j)
    OBVIOUS
  <1>3. JobTyped("create", j) /\ RowsTyped /\ StoreTyped /\ JobKept("create", j)
        /\ pc[q] = "create"
    BY <1>1, JobOf DEF CreateRow, Kept
  <1>4. UNCHANGED <<stored, retired, staging, uploads, object>>
    BY DEF CreateRow
  <1>5. CASE Finish(q) /\ UNCHANGED rows
    <2>1. pc[q] \notin Promoted /\ Enter(q, "idle", NoJob)
      BY <1>3, <1>5 DEF Promoted, Finish
    <2> HIDE DEF NoJob
    <2> QED
      BY <1>4, <1>5, <2>1, SameKeys, NoJobKept, NoJobTouches, MoveKept
  <1>6. CASE rows' = Append(rows, row)
    <2>1. /\ j.todo \in Seq(Assets) /\ j.todo # <<>> /\ j.bulk \in BOOLEAN /\ j.key \in Keys
          /\ j.bits \in Bits /\ Head(j.todo) \in Assets /\ Len(j.todo) \in Nat
          /\ Len(Tail(j.todo)) = Len(j.todo) - 1
          /\ \A i \in 1 .. Len(Tail(j.todo)) : Tail(j.todo)[i] = j.todo[i + 1]
      BY <1>3, HeadTailProperties, LenProperties DEF JobTyped, Job
    <2>2. row \in Row /\ row.asset = Head(j.todo) /\ row.bits = j.bits /\ row.key = j.key
          /\ row.version = 0 /\ row.ingested # "true"
      BY <1>2, <2>1, NewRowType, NewRowFields
    <2>3. /\ Len(rows) \in Nat /\ Len(rows') = Len(rows) + 1 /\ rows'[Len(rows) + 1] = row
          /\ \A r \in 1 .. Len(rows) : rows'[r] = rows[r]
      BY <1>3, <1>6, <2>2, AppendedRows
    <2>4. /\ made.todo = Tail(j.todo)
          /\ Len(j.list) \in Nat /\ Len(made.list) = Len(j.list) + 1
          /\ \A i \in 1 .. Len(j.list) : made.list[i] = j.list[i]
          /\ made.list[Len(j.list) + 1] = Len(rows) + 1
          /\ made.key = j.key /\ made.bits = j.bits /\ made.back = j.back
          /\ made \in Job
      BY <1>2, <1>3, MadeType
    <2>5. \A i \in 1 .. Len(j.list) : j.list[i] \in 1 .. Len(rows)
      BY <1>3 DEF JobTyped, Held
    <2>6. \A i \in 1 .. Len(made.list) :
              \/ i \in 1 .. Len(j.list) /\ rows'[made.list[i]] = rows[j.list[i]]
              \/ rows'[made.list[i]] = row
      BY <2>3, <2>4, <2>5
    <2>7. j.back # "retire" /\ JobKept("create", j) /\ HeldKept(j)
      BY <1>3 DEF JobTyped, JobKept
    <2>8. /\ \A i \in 1 .. Len(made.list) : rows'[made.list[i]].ingested # "true"
          /\ KeyOk(j.key, j.bits)'
          /\ j.back = "validate" => \A i \in 1 .. Len(made.list) : rows'[made.list[i]].bits = j.bits
      BY <1>4, <2>2, <2>6, <2>7 DEF HeldKept, KeyOk
    <2>9. ASSUME NEW a,  \/ \E i \in 1 .. Len(made.list) : rows'[made.list[i]].asset = a
                         \/ \E i \in 1 .. Len(made.todo) : made.todo[i] = a
          PROVE  Touches(j, a)
      <3>1. j.todo[1] = Head(j.todo) /\ 1 \in 1 .. Len(j.todo)
        BY <2>1, HeadTailProperties, EmptySeq
      <3>2. CASE \E i \in 1 .. Len(made.list) : rows'[made.list[i]].asset = a
        BY <2>2, <2>6, <3>1, <3>2 DEF Touches
      <3>3. CASE \E i \in 1 .. Len(made.todo) : made.todo[i] = a
        <4>1. PICK i \in 1 .. Len(made.todo) : made.todo[i] = a
          BY <3>3
        <4>2. i + 1 \in 1 .. Len(j.todo) /\ j.todo[i + 1] = a
          BY <2>1, <2>4, <4>1
        <4> QED
          BY <4>2 DEF Touches
      <3> QED
        BY <2>9, <3>2, <3>3
    <2>10. CASE Enter(q, "create", made)
      <3>1. HeldKept(made)'
        BY <2>4, <2>7, <2>8 DEF HeldKept
      <3>2. \A a : Touches(made, a)' => Touches(j, a)
        BY <2>9 DEF Touches
      <3>3. "create" \notin WithCopy \cup Promoted \cup {"retireAsset"}
        BY DEF WithCopy, AtRow, Promoted
      <3> QED
        BY <1>1, <1>2, <1>3, <1>4, <1>6, <2>10, <3>1, <3>2, <3>3, CreatedKept
    <2>11. CASE Enter(q, "validate", At(made, 1, NoRow))
      <3>1. PICK new : new = At(made, 1, NoRow)
        OBVIOUS
      <3>2. /\ new.list = made.list /\ new.todo = made.todo /\ new.key = made.key
            /\ new.bits = made.bits /\ new.back = made.back
        <4>1. made \in Job /\ NoRow \in AssetVersion \cup {NoRow} /\ 1 \in Nat
          BY <2>4
        <4> QED
          BY <3>1, <4>1, AtType
      <3>3. HeldKept(new)'
        BY <2>4, <2>7, <2>8, <3>2 DEF HeldKept
      <3>4. \A a : Touches(new, a)' => Touches(j, a)
        BY <2>9, <3>2 DEF Touches
      <3>5. "validate" \notin WithCopy \cup Promoted \cup {"retireAsset"}
        BY DEF WithCopy, AtRow, Promoted
      <3> QED
        BY <1>1, <1>2, <1>3, <1>4, <1>6, <2>11, <3>1, <3>3, <3>4, <3>5, CreatedKept
    <2>12. CASE j.back = "ingest" /\ Enter(q, "promote", At(made, 1, row))
      <3>1. PICK new : new = At(made, 1, row)
        OBVIOUS
      <3>2. /\ new.list = made.list /\ new.todo = made.todo /\ new.key = made.key
            /\ new.bits = made.bits /\ new.back = made.back /\ new.at = 1 /\ new.mem = row
        <4>1. row \in AssetVersion \cup {NoRow} /\ 1 \in Nat
          BY <2>2 DEF Row
        <4> QED
          BY <2>4, <3>1, <4>1, AtType
      <3>3. HeldKept(new)'
        BY <2>4, <2>7, <2>8, <3>2 DEF HeldKept
      <3>4. \A a : Touches(new, a)' => Touches(j, a)
        BY <2>9, <3>2 DEF Touches
      <3>5. j.list = <<>>
        BY <1>3, <2>12 DEF JobTyped
      <3>6. new.list[1] = Len(rows) + 1
        BY <2>4, <3>2, <3>5
      <3>7. CopyKept("promote", new)'
        BY <2>2, <2>3, <2>8, <3>2, <3>6 DEF CopyKept
      <3>8. "promote" \notin Promoted \cup {"retireAsset"}
        BY DEF Promoted
      <3> QED
        BY <1>1, <1>2, <1>3, <1>4, <1>6, <2>12, <3>1, <3>3, <3>4, <3>7, <3>8, CreatedKept
    <2>13. CASE Finish(q)
      <3>1. Enter(q, "idle", NoJob)
        BY <2>13 DEF Finish
      <3>2. HeldKept(NoJob)' /\ \A a : Touches(NoJob, a)' => Touches(j, a)
        BY DEF HeldKept, KeyOk, NoJob, Touches
      <3>3. "idle" \notin WithCopy \cup Promoted \cup {"retireAsset"}
        BY DEF WithCopy, AtRow, Promoted
      <3> HIDE DEF NoJob
      <3> QED
        BY <1>1, <1>2, <1>3, <1>4, <1>6, <3>1, <3>2, <3>3, CreatedKept
    <2> QED
      BY <1>1, <1>2, <1>6, <2>10, <2>11, <2>12, <2>13 DEF CreateRow
  <1> QED
    BY <1>1, <1>2, <1>5, <1>6 DEF CreateRow

LEMMA SamePlaceKept ==
    ASSUME NEW place, place \in WithCopy \ {"updateRow"}, NEW j, JobKept(place, j),
           NEW next, next \in WithCopy \ (Promoted \cup {"retireAsset"})
    PROVE  JobKept(next, j)
  BY DEF JobKept, CopyKept, WithCopy, AtRow, PCs, Promoted

LEMMA RetiringKept ==
    ASSUME RowsTyped, NEW place, NEW j, JobTyped(place, j), HeldKept(j), j.todo = <<>>,
           j.key \in Keys, j.bits \in Bits, j.back \in {"validate", "retire"},
           NEW i \in 1 .. Len(j.list)
    PROVE  JobKept("count", Retiring(j, i)) /\ \A a : Touches(Retiring(j, i), a) => Touches(j, a)
  <1>1. j \in Job /\ Held(j)
    BY DEF JobTyped
  <1>2. j.list[i] \in 1 .. Len(rows) /\ rows[j.list[i]] \in Row /\ j.bulk \in BOOLEAN
    BY <1>1, RowsLength DEF Held, Job
  <1>3. PICK m \in Row : m = NewRow(rows[j.list[i]].asset, j.key, j.bits, j.bulk)
    BY <1>2, NewRowType DEF Row, AssetVersion
  <1>4. /\ m.key = j.key /\ m.bits = j.bits /\ m.version = 0 /\ m.ingested # "true"
    BY <1>3, NewRowFields
  <1>5. PICK new : new = [j EXCEPT !.at = i, !.back = "retire", !.mem = m]
    OBVIOUS
  <1>6. Retiring(j, i) = new
    BY <1>3, <1>5 DEF Retiring
  <1>7. i \in Nat /\ m \in AssetVersion
    BY <1>1, LenProperties DEF Job, Row
  <1>8. /\ new.list = j.list /\ new.todo = j.todo /\ new.at = i
        /\ new.mem = m /\ new.key = j.key /\ new.bits = j.bits /\ new.back = "retire"
    BY <1>1, <1>5, <1>7 DEF Job
  <1>9. HeldKept(new)
    BY <1>8 DEF HeldKept
  <1>10. CopyKept("count", new)
    BY <1>4, <1>8 DEF CopyKept, HeldKept
  <1>11. JobKept("count", new)
    BY <1>9, <1>10 DEF JobKept, Promoted
  <1>12. \A a : Touches(new, a) => Touches(j, a)
    BY <1>8 DEF Touches
  <1> QED
    BY <1>6, <1>11, <1>12

LEMMA ContinueKept ==
    ASSUME RowsTyped, NEW q \in Requests, NEW place, place \in AtRow, NEW j,
           JobTyped(place, j), HeldKept(j), Continue(q, j)
    PROVE  \E next, new : /\ Enter(q, next, new) /\ JobKept(next, new)
                          /\ next \in {"validate", "count", "idle"}
                          /\ \A a : Touches(new, a) => Touches(j, a)
  <1>0. j \in Job /\ j.todo = <<>> /\ j.at \in 1 .. Len(j.list) /\ Len(j.list) \in Nat
    BY LenProperties DEF JobTyped, WithCopy, AtRow, PCs, Job
  <1>1. CASE j.back = "validate" /\ Enter(q, "validate", At(j, j.at + 1, NoRow))
    <2>1. PICK new : new = At(j, j.at + 1, NoRow)
      OBVIOUS
    <2>2. /\ new.list = j.list /\ new.todo = j.todo
          /\ new.key = j.key /\ new.bits = j.bits /\ new.back = j.back
      BY <1>0, <2>1, AtType
    <2>3. HeldKept(new)
      BY <2>2 DEF HeldKept
    <2>4. JobKept("validate", new)
      BY <2>3 DEF JobKept, WithCopy, AtRow, Promoted
    <2>5. \A a : Touches(new, a) => Touches(j, a)
      BY <2>2 DEF Touches
    <2> QED
      BY <1>1, <2>1, <2>4, <2>5
  <1>2. CASE j.back = "validate" /\ Enter(q, "count", Retiring(j, 1))
    <2>1. 1 \in 1 .. Len(j.list) /\ j.key \in Keys /\ j.bits \in Bits
      BY <1>0, <1>2 DEF JobTyped
    <2>2. JobKept("count", Retiring(j, 1)) /\ \A a : Touches(Retiring(j, 1), a) => Touches(j, a)
      BY <1>0, <1>2, <2>1, RetiringKept
    <2> QED
      BY <1>2, <2>2
  <1>3. CASE j.back = "retire" /\ j.at < Len(j.list) /\ Enter(q, "count", Retiring(j, j.at + 1))
    <2>1. j.at + 1 \in 1 .. Len(j.list) /\ j.key \in Keys /\ j.bits \in Bits
      BY <1>0, <1>3 DEF JobTyped
    <2>2. /\ JobKept("count", Retiring(j, j.at + 1))
          /\ \A a : Touches(Retiring(j, j.at + 1), a) => Touches(j, a)
      BY <1>0, <1>3, <2>1, RetiringKept
    <2> QED
      BY <1>3, <2>2
  <1>4. CASE Finish(q)
    <2>1. Enter(q, "idle", NoJob)
      BY <1>4 DEF Finish
    <2> HIDE DEF NoJob
    <2> QED
      BY <2>1, NoJobKept, NoJobTouches
  <1> QED
    BY <1>1, <1>2, <1>3, <1>4 DEF Continue

(* A step that goes on with what the request holds, or back to the loop,   *)
(* and writes no row.                                                      *)
LEMMA GoOnKept ==
    ASSUME TypeInv, TypeInv', Kept, NEW q \in Requests,
           pc[q] \in WithCopy \ Promoted, NEW place, NEW j, j = job[q],
           JobKept(place, j),
           Enter(q, place, j) \/ Continue(q, j),
           rows' = rows, object' = object, stored' = stored, KeyFrame
    PROVE  Kept'
  <1>1. PICK here : here = pc[q]
    OBVIOUS
  <1>2. JobTyped(here, j) /\ RowsTyped /\ JobKept(here, j) /\ here \in AtRow
    BY <1>1, JobOf DEF Kept, WithCopy
  <1>3. CASE Enter(q, place, j)
    BY <1>3, MoveKept
  <1>4. CASE Continue(q, j)
    <2>1. PICK next, new : /\ Enter(q, next, new) /\ JobKept(next, new)
                           /\ \A a : Touches(new, a) => Touches(j, a)
      BY <1>2, <1>4, ContinueKept DEF JobKept
    <2> QED
      BY <2>1, MoveKept
  <1> QED
    BY <1>3, <1>4

LEMMA ReadUploadKept ==
    ASSUME TypeInv, TypeInv', Kept, NEW q \in Requests, ReadUpload(q)
    PROVE  Kept'
  <1>1. PICK j : j = job[q]
    OBVIOUS
  <1>2. PICK r : r = j.list[j.at]
    OBVIOUS
  <1>3. /\ JobTyped("validate", j) /\ j \in Job /\ r \in 1 .. Len(rows) /\ rows[r] \in Row
        /\ j.todo = <<>> /\ j.at \in 1 .. Len(j.list) /\ RowsTyped /\ pc[q] = "validate"
    BY <1>1, <1>2, RowAt, JobOf DEF ReadUpload, AtRow, PCs
  <1>4. JobKept("validate", j) /\ HeldKept(j) /\ RowKept(rows[r]) /\ rows[r].ingested # "true"
    BY <1>1, <1>2, <1>3 DEF Kept, JobKept, HeldKept, RowsKept
  <1>5. rows' = rows /\ object' = object /\ stored' = stored /\ KeyFrame /\ pc[q] \notin Promoted
    BY <1>3, SameKeys DEF ReadUpload, Promoted
  <1>6. CASE Enter(q, "verdict", [j EXCEPT !.mem = rows[r]])
    <2>1. PICK m, new : m \in Row /\ m = rows[r] /\ new = [j EXCEPT !.mem = m]
      BY <1>3
    <2>2. m \in AssetVersion
      BY <2>1 DEF Row
    <2>3. /\ new.at = j.at /\ new.mem = m /\ new.list = j.list
          /\ new.todo = j.todo /\ new.key = j.key /\ new.bits = j.bits /\ new.back = j.back
      BY <1>3, <2>1, <2>2 DEF Job
    <2>4. HeldKept(new)
      BY <1>4, <2>3 DEF HeldKept
    <2>5. CopyKept("verdict", new)
      BY <1>2, <1>4, <2>1, <2>3 DEF CopyKept, RowKept
    <2>6. JobKept("verdict", new) /\ \A a : Touches(new, a) => Touches(j, a)
      BY <2>3, <2>4, <2>5 DEF JobKept, Promoted, Touches
    <2> QED
      BY <1>1, <1>5, <1>6, <2>1, <2>6, MoveKept
  <1>7. CASE Enter(q, "count", Retiring(j, 1))
    <2>1. Len(j.list) \in Nat
      BY <1>3, LenProperties DEF Job
    <2>2. 1 \in 1 .. Len(j.list) /\ j.key \in Keys /\ j.bits \in Bits /\ j.back = "validate"
      BY <1>3, <2>1 DEF JobTyped
    <2>3. JobKept("count", Retiring(j, 1)) /\ \A a : Touches(Retiring(j, 1), a) => Touches(j, a)
      BY <1>3, <1>4, <2>2, RetiringKept
    <2> QED
      BY <1>1, <1>5, <1>7, <2>3, MoveKept
  <1>8. CASE Continue(q, [j EXCEPT !.skipped = @ \cup {j.at}])
    <2>1. PICK next : next = [j EXCEPT !.skipped = @ \cup {j.at}]
      OBVIOUS
    <2>2. /\ JobTyped("validate", next) /\ next.list = j.list /\ next.todo = j.todo
          /\ next.key = j.key /\ next.bits = j.bits /\ next.back = j.back
      BY <1>3, <2>1, SkippedIs
    <2>3. HeldKept(next) /\ "validate" \in AtRow
      BY <1>4, <2>2 DEF HeldKept, AtRow, PCs
    <2>4. PICK place, new : /\ Enter(q, place, new) /\ JobKept(place, new)
                            /\ \A a : Touches(new, a) => Touches(next, a)
      BY <1>3, <1>8, <2>1, <2>2, <2>3, ContinueKept
    <2>5. \A a : Touches(new, a) => Touches(j, a)
      BY <2>2, <2>4 DEF Touches
    <2> QED
      BY <1>1, <1>5, <2>4, <2>5, MoveKept
  <1> QED
    BY <1>1, <1>2, <1>6, <1>7, <1>8 DEF ReadUpload

(* Writing the row at hand from memory, and going on.                      *)
LEMMA SavedKept ==
    ASSUME TypeInv, TypeInv', Kept, NEW q \in Requests, pc[q] \in AtRow \ Promoted,
           NEW place, NEW new, Enter(q, place, new),
           NEW m \in Row, m.ingested # "true", RowKept(m),
           LET j == job[q]  r == j.list[j.at]
           IN  m.asset = rows[r].asset /\ m.bits = rows[r].bits /\ SaveRow(r, m),
           object' = object, stored' = stored, staging' = staging, uploads' = uploads,
           place \notin Promoted \cup {"retireAsset"}, JobKept(place, new),
           \A a : Touches(new, a) => Touches(job[q], a)
    PROVE  Kept'
  <1>1. PICK j, r : j = job[q] /\ r = j.list[j.at]
    OBVIOUS
  <1>2. rows[r] \in Row
    BY <1>1, RowAt
  <1>3. PICK x : x = [m EXCEPT !.retired = rows[r].retired]
    OBVIOUS
  <1>4. /\ x \in Row /\ x.asset = m.asset /\ x.bits = m.bits /\ x.ingested = m.ingested
        /\ x.key = m.key /\ x.version = m.version
    BY <1>2, <1>3 DEF Row, AssetVersion
  <1>5. rows' = [rows EXCEPT ![r] = x]
    BY <1>1, <1>3 DEF SaveRow
  <1>6. RowKept(x)
    BY <1>4 DEF RowKept
  <1> QED
    BY <1>1, <1>4, <1>5, <1>6, WriteKept

LEMMA PassUploadKept ==
    ASSUME TypeInv, TypeInv', Kept, NEW q \in Requests, PassUpload(q)
    PROVE  Kept'
  <1>1. PICK j : j = job[q]
    OBVIOUS
  <1>2. PICK r : r = j.list[j.at]
    OBVIOUS
  <1>3. /\ JobTyped("verdict", j) /\ j \in Job /\ r \in 1 .. Len(rows)
        /\ j.mem \in Row /\ j.mem.asset = rows[r].asset /\ RowsTyped /\ pc[q] = "verdict"
    BY <1>1, <1>2, RowAt, JobOf DEF PassUpload, WithCopy, AtRow, PCs
  <1>4. HeldKept(j) /\ CopyKept("verdict", j)
    BY <1>1, <1>3 DEF Kept, JobKept, WithCopy, AtRow, PCs
  <1>5. UNCHANGED <<stored, staging, uploads, object>>
    BY DEF PassUpload
  <1>6. PICK failed \in BOOLEAN : Continue(q, [j EXCEPT !.failed = failed])
    BY <1>1, <1>3 DEF PassUpload, Job
  <1>7. PICK next : next = [j EXCEPT !.failed = failed]
    OBVIOUS
  <1>8. /\ JobTyped("verdict", next) /\ next.list = j.list /\ next.todo = j.todo
        /\ next.key = j.key /\ next.bits = j.bits /\ next.back = j.back
    BY <1>3, <1>7 DEF JobTyped, Held, CopyTyped, Job
  <1>9. HeldKept(next)
    BY <1>4, <1>8 DEF HeldKept
  <1>10. "verdict" \in AtRow
    BY DEF AtRow, PCs
  <1>11. PICK place, new : /\ Enter(q, place, new) /\ JobKept(place, new)
                           /\ place \in {"validate", "count", "idle"}
                           /\ \A a : Touches(new, a) => Touches(next, a)
    BY <1>3, <1>6, <1>7, <1>8, <1>9, <1>10, ContinueKept
  <1>12. \A a : Touches(new, a) => Touches(j, a)
    BY <1>8, <1>11 DEF Touches
  <1>13. pc[q] \in AtRow \ Promoted
    BY <1>3 DEF AtRow, PCs, Promoted
  <1>14. CASE UNCHANGED rows
    BY <1>1, <1>5, <1>11, <1>12, <1>13, <1>14, SameKeys, MoveKept
  <1>15. CASE SaveRow(r, [j.mem EXCEPT !.ingested = "false"])
    <2>1. PICK m : m = [j.mem EXCEPT !.ingested = "false"]
      OBVIOUS
    <2>2. /\ m \in Row /\ m.asset = j.mem.asset /\ m.bits = j.mem.bits /\ m.key = j.mem.key
          /\ m.version = j.mem.version /\ m.ingested = "false"
      BY <1>3, <2>1 DEF Row, AssetVersion, Ingestions
    <2>3. RowKept(m) /\ m.bits = rows[r].bits
      BY <1>2, <1>4, <2>2 DEF RowKept, CopyKept
    <2>4. place \notin Promoted \cup {"retireAsset"}
      BY <1>11 DEF Promoted
    <2> QED
      BY <1>1, <1>2, <1>3, <1>5, <1>11, <1>12, <1>13, <1>15, <2>1, <2>2, <2>3, <2>4, SavedKept
  <1> QED
    BY <1>1, <1>2, <1>14, <1>15 DEF PassUpload

LEMMA FailUploadKept ==
    ASSUME TypeInv, TypeInv', Kept, NEW q \in Requests, FailUpload(q)
    PROVE  Kept'
  <1>1. PICK j, next : j = job[q] /\ next = [j EXCEPT !.failed = TRUE]
    OBVIOUS
  <1>2. JobTyped("verdict", j) /\ j \in Job /\ RowsTyped /\ pc[q] = "verdict"
    BY <1>1, JobOf DEF FailUpload
  <1>3. HeldKept(j) /\ CopyKept("verdict", j)
    BY <1>1, <1>2 DEF Kept, JobKept, WithCopy, AtRow, PCs
  <1>4. /\ JobTyped("verdict", next) /\ next.list = j.list /\ next.todo = j.todo /\ next.mem = j.mem
        /\ next.at = j.at /\ next.key = j.key /\ next.bits = j.bits /\ next.back = j.back
    BY <1>1, <1>2 DEF JobTyped, Held, CopyTyped, Job
  <1>5. HeldKept(next) /\ CopyKept("count", next)
    BY <1>3, <1>4 DEF HeldKept, CopyKept
  <1>6. JobKept("count", next)
    BY <1>5 DEF JobKept, Promoted
  <1>7. \A a : Touches(next, a) => Touches(j, a)
    BY <1>4 DEF Touches
  <1>8. /\ rows' = rows /\ object' = object /\ stored' = stored /\ KeyFrame
        /\ pc[q] \notin Promoted /\ "verdict" \in AtRow
    BY <1>2, SameKeys DEF FailUpload, Promoted, AtRow, PCs
  <1>9. CASE Enter(q, "count", next)
    BY <1>1, <1>6, <1>7, <1>8, <1>9, MoveKept
  <1>10. CASE Continue(q, next)
    <2>1. PICK place, new : /\ Enter(q, place, new) /\ JobKept(place, new)
                            /\ \A a : Touches(new, a) => Touches(next, a)
      BY <1>2, <1>4, <1>5, <1>8, <1>10, ContinueKept
    <2> QED
      BY <1>1, <1>7, <1>8, <2>1, MoveKept
  <1> QED
    BY <1>1, <1>9, <1>10 DEF FailUpload

LEMMA DiscardAssetVersionKept ==
    ASSUME TypeInv, TypeInv', Kept, Serial, NEW q \in Requests, DiscardAssetVersion(q)
    PROVE  Kept'
  BY OfferKept DEF DiscardAssetVersion

LEMMA IngestAssetKept ==
    ASSUME TypeInv, TypeInv', Kept, Serial, NEW q \in Requests, IngestAsset(q)
    PROVE  Kept'
  BY OfferKept DEF IngestAsset

(* What a discarding request holds.                                        *)
LEMMA DiscardJob ==
    ASSUME TypeInv, Kept, NEW q \in Requests, NEW j, j = job[q],
           pc[q] \in {"count", "remove", "retire", "clear", "check", "retireAsset"}
    PROVE  /\ pc[q] \in WithCopy \ Promoted /\ pc[q] \in AtRow \ Promoted
           /\ JobKept(pc[q], j)
           /\ JobKept("remove", j) /\ JobKept("retire", j) /\ JobKept("clear", j)
           /\ JobKept("check", j) /\ CopyKept("check", j)
  <1>1. PICK here : here = pc[q]
    OBVIOUS
  <1>2. here \in WithCopy \ {"updateRow"} /\ here \in WithCopy \ Promoted /\ here \in AtRow
    BY <1>1 DEF WithCopy, AtRow, PCs, Promoted
  <1>3. JobKept(here, j)
    BY <1>1 DEF Kept
  <1>4. {"remove", "retire", "clear", "check"} \subseteq WithCopy \ (Promoted \cup {"retireAsset"})
    BY DEF WithCopy, AtRow, PCs, Promoted
  <1>5. \A next \in {"remove", "retire", "clear", "check"} : JobKept(next, j)
    BY <1>2, <1>3, <1>4, SamePlaceKept
  <1>6. CopyKept("check", j)
    BY <1>4, <1>5 DEF JobKept
  <1> QED
    BY <1>1, <1>2, <1>3, <1>5, <1>6

LEMMA CountReferencesKept ==
    ASSUME TypeInv, TypeInv', Kept, NEW q \in Requests, CountReferences(q)
    PROVE  Kept'
  <1>1. PICK j : j = job[q]
    OBVIOUS
  <1>2. PICK place \in {"remove", "retire"} : Enter(q, place, j) \/ Continue(q, j)
    BY <1>1 DEF CountReferences
  <1>3. JobKept(place, j) /\ pc[q] \in WithCopy \ Promoted
    BY <1>1, DiscardJob DEF CountReferences
  <1>4. rows' = rows /\ object' = object /\ stored' = stored /\ KeyFrame
    BY SameKeys DEF CountReferences
  <1> QED
    BY <1>1, <1>2, <1>3, <1>4, GoOnKept

LEMMA RemoveStagedKept ==
    ASSUME TypeInv, TypeInv', Kept, NEW q \in Requests, RemoveStaged(q)
    PROVE  Kept'
  <1>1. PICK j : j = job[q]
    OBVIOUS
  <1>2. Enter(q, "retire", j) \/ Continue(q, j)
    BY <1>1 DEF RemoveStaged
  <1>3. JobKept("retire", j) /\ pc[q] \in WithCopy \ Promoted
    BY <1>1, DiscardJob DEF RemoveStaged
  <1>4. rows' = rows /\ object' = object /\ stored' = stored
    BY DEF RemoveStaged
  <1>5. KeyFrame
    BY UploadsNat DEF RemoveStaged, KeyFrame, TypeInv, StoreTyped
  <1> QED
    BY <1>1, <1>2, <1>3, <1>4, <1>5, GoOnKept

LEMMA RetireRowKept ==
    ASSUME TypeInv, TypeInv', Kept, NEW q \in Requests, RetireRow(q)
    PROVE  Kept'
  <1>1. PICK j, r : j = job[q] /\ r = j.list[j.at]
    OBVIOUS
  <1>2. r \in 1 .. Len(rows) /\ rows[r] \in Row /\ j.at \in 1 .. Len(j.list)
    BY <1>1, RowAt DEF RetireRow, AtRow, PCs
  <1>3. /\ JobKept("clear", j) /\ HeldKept(j) /\ pc[q] \in WithCopy \ Promoted
        /\ pc[q] \in AtRow \ Promoted /\ JobKept(pc[q], j)
    BY <1>1, DiscardJob DEF RetireRow, JobKept
  <1>4. UNCHANGED <<stored, staging, uploads, object>>
    BY DEF RetireRow
  <1>5. CASE UNCHANGED rows /\ Continue(q, j)
    BY <1>1, <1>3, <1>4, <1>5, SameKeys, GoOnKept
  <1>6. CASE rows' = [rows EXCEPT ![r].retired = TRUE] /\ Enter(q, "clear", j)
    <2>1. PICK x : x = [rows[r] EXCEPT !.retired = TRUE]
      OBVIOUS
    <2>2. /\ x \in Row /\ x.asset = rows[r].asset /\ x.bits = rows[r].bits
          /\ x.ingested = rows[r].ingested /\ x.key = rows[r].key /\ x.version = rows[r].version
      BY <1>2, <2>1 DEF Row, AssetVersion
    <2>3. rows' = [rows EXCEPT ![r] = x]
      BY <1>6, <2>1
    <2>4. RowKept(x) /\ x.ingested # "true"
      BY <1>1, <1>2, <1>3, <2>2 DEF RowKept, RowsKept, Kept, HeldKept
    <2>5. "clear" \notin Promoted \cup {"retireAsset"}
      BY DEF Promoted
    <2> QED
      BY <1>1, <1>3, <1>4, <1>6, <2>2, <2>3, <2>4, <2>5, WriteKept
  <1> QED
    BY <1>1, <1>5, <1>6 DEF RetireRow

LEMMA ClearKeyKept ==
    ASSUME TypeInv, TypeInv', Kept, NEW q \in Requests, ClearKey(q)
    PROVE  Kept'
  <1>1. PICK j, r : j = job[q] /\ r = j.list[j.at]
    OBVIOUS
  <1>2. r \in 1 .. Len(rows) /\ j.mem \in Row /\ j.mem.asset = rows[r].asset
    BY <1>1, RowAt DEF ClearKey, WithCopy, AtRow, PCs
  <1>3. /\ JobKept("check", j) /\ CopyKept("check", j) /\ pc[q] \in WithCopy \ Promoted
        /\ pc[q] \in AtRow \ Promoted
    BY <1>1, DiscardJob DEF ClearKey
  <1>4. UNCHANGED <<stored, staging, uploads, object>>
    BY DEF ClearKey
  <1>5. CASE UNCHANGED rows /\ Continue(q, j)
    BY <1>1, <1>3, <1>4, <1>5, SameKeys, GoOnKept
  <1>6. CASE SaveRow(r, [j.mem EXCEPT !.key = NoKey]) /\ Enter(q, "check", j)
    <2>1. PICK m : m = [j.mem EXCEPT !.key = NoKey]
      OBVIOUS
    <2>2. /\ m \in Row /\ m.asset = j.mem.asset /\ m.bits = j.mem.bits /\ m.key = NoKey
          /\ m.version = j.mem.version /\ m.ingested = j.mem.ingested
      BY <1>2, <2>1 DEF Row, AssetVersion
    <2>3. RowKept(m) /\ m.bits = rows[r].bits /\ m.ingested # "true"
      BY <1>1, <1>3, <2>2 DEF RowKept, CopyKept, KeyOk
    <2>4. "check" \notin Promoted \cup {"retireAsset"}
      BY DEF Promoted
    <2> QED
      BY <1>1, <1>2, <1>3, <1>4, <1>6, <2>1, <2>2, <2>3, <2>4, SavedKept
  <1> QED
    BY <1>1, <1>5, <1>6 DEF ClearKey

LEMMA CheckVersionsKept ==
    ASSUME TypeInv, TypeInv', Kept, NEW q \in Requests, CheckVersions(q)
    PROVE  Kept'
  <1>1. PICK j : j = job[q]
    OBVIOUS
  <1>2. JobKept("check", j) /\ pc[q] \in WithCopy \ Promoted
    BY <1>1, DiscardJob DEF CheckVersions
  <1>3. rows' = rows /\ object' = object /\ stored' = stored /\ KeyFrame
    BY SameKeys DEF CheckVersions
  <1>4. CASE AllRetired(j.mem.asset) /\ Enter(q, "retireAsset", j)
    <2>1. JobKept("retireAsset", j)
      BY <1>2, <1>4 DEF JobKept, CopyKept, WithCopy, AtRow, PCs, Promoted
    <2> QED
      BY <1>1, <1>2, <1>3, <1>4, <2>1, GoOnKept
  <1>5. CASE Continue(q, j)
    BY <1>1, <1>2, <1>3, <1>5, GoOnKept
  <1> QED
    BY <1>1, <1>4, <1>5 DEF CheckVersions, AllRetired

LEMMA RetireAssetKept ==
    ASSUME TypeInv, TypeInv', Kept, NEW q \in Requests, RetireAsset(q)
    PROVE  Kept'
  <1>1. PICK j : j = job[q]
    OBVIOUS
  <1>2. JobKept("check", j) /\ pc[q] \in WithCopy \ Promoted
    BY <1>1, DiscardJob DEF RetireAsset
  <1>3. rows' = rows /\ object' = object /\ stored' = stored /\ KeyFrame /\ Continue(q, j)
    BY <1>1, SameKeys DEF RetireAsset
  <1> QED
    BY <1>1, <1>2, <1>3, GoOnKept

-----------------------------------------------------------------------------
(* From the promotion to the update of the row.                            *)

LEMMA CopyTouches ==
    ASSUME TypeInv, NEW q \in Requests, pc[q] \in WithCopy
    PROVE  /\ Touches(job[q], job[q].mem.asset)
           /\ job[q].mem \in Row /\ job[q].mem.asset \in Assets
  <1>1. pc[q] \in AtRow
    BY DEF WithCopy
  <1> QED
    BY <1>1, RowAt DEF Touches

LEMMA PromotedHasCopy == Promoted \subseteq WithCopy
  BY DEF Promoted, WithCopy, AtRow, PCs

(* No two requests work on the newest version of one asset.                *)
LEMMA OneNewest ==
    ASSUME TypeInv, Kept, NEW q \in Requests, pc[q] \in WithCopy,
           NEW p \in Requests, p # q, pc[p] \in Promoted
    PROVE  job[p].mem.asset # job[q].mem.asset
  <1>1. Touches(job[q], job[q].mem.asset) /\ Touches(job[p], job[p].mem.asset)
    BY CopyTouches, PromotedHasCopy
  <1> QED
    BY <1>1 DEF Kept, Apart

(* A step into, or within, this stretch: the number of the asset's rows is *)
(* one behind.                                                             *)
LEMMA NewestKept ==
    ASSUME TypeInv, TypeInv', Kept, NEW q \in Requests, pc[q] \in WithCopy,
           NEW j, j = job[q], NEW a, a = j.mem.asset,
           NEW place \in Promoted, NEW new, Enter(q, place, new), new.mem.asset = a,
           rows' = rows, stored \subseteq stored', KeyFrame,
           \A b \in Assets : b # a => object'[b] = object[b],
           JobKept(place, new)',
           \A b : Touches(new, b) => Touches(j, b)
    PROVE  Kept'
  <1>1. Touches(j, a) /\ a \in Assets
    BY CopyTouches
  <1>2. Len(rows) \in Nat
    BY LenProperties DEF TypeInv, RowsTyped
  <1>3. RowsFrame(j) /\ StoreFrame(j)
    BY <1>1, <1>2 DEF RowsFrame, StoreFrame
  <1>4. RowsKept'
    BY RowsKeptFrame DEF Kept
  <1>5. \A b : Touches(new, b)' => Touches(j, b)
    BY DEF Touches
  <1>6. \A b \in Assets : Free(b)' => Numbered(b, Len(object[b]))'
    <2> SUFFICES ASSUME NEW b \in Assets, Free(b)' PROVE Numbered(b, Len(object[b]))'
      OBVIOUS
    <2>1. pc'[q] = place /\ job'[q] = new
          /\ \A p \in Requests : p # q => pc'[p] = pc[p] /\ job'[p] = job[p]
      BY DEF TypeInv, JobsTyped, Enter
    <2>2. b # a
      BY <2>1 DEF Free
    <2>3. Free(b)
      BY <2>1, <2>2 DEF Free
    <2>4. PICK n : n = Len(object[b])
      OBVIOUS
    <2>5. n \in Nat /\ Numbered(b, n) /\ object'[b] = object[b]
      BY <2>2, <2>3, <2>4, LenProperties DEF Kept, AssetsKept, TypeInv, StoreTyped
    <2>6. IngestedSame(b)
      BY <1>2 DEF IngestedSame
    <2>7. Numbered(b, n)'
      BY <2>5, <2>6, NumberedFrame
    <2> QED
      BY <2>4, <2>5, <2>7
  <1> QED
    BY <1>3, <1>4, <1>5, <1>6, StepKept

(* The parts of what a request holds that a promotion may disturb.         *)
LEMMA HoldsStill ==
    ASSUME TypeInv, TypeInv', NEW place, NEW j, JobTyped(place, j), HeldKept(j),
           place \in WithCopy, CopyKept(place, j), rows' = rows, KeyFrame
    PROVE  HeldKept(j)' /\ CopyKept(place, j)'
  <1>1. j \in Job /\ j.mem \in Row
    BY DEF JobTyped, CopyTyped
  <1>2. KeyOk(j.key, j.bits)'
    BY <1>1, KeyOkFrame DEF HeldKept, Job
  <1>3. KeyOk(j.mem.key, j.mem.bits)'
    BY <1>1, KeyOkFrame DEF CopyKept, Row, AssetVersion
  <1> QED
    BY <1>2, <1>3 DEF HeldKept, CopyKept

LEMMA PromoteAssetKept ==
    ASSUME TypeInv, TypeInv', Kept, NEW q \in Requests, PromoteAsset(q)
    PROVE  Kept'
  <1>1. PICK j, k, a : j = job[q] /\ k = j.mem.key /\ a = j.mem.asset
    OBVIOUS
  <1>2. /\ JobTyped("promote", j) /\ j \in Job /\ RowsTyped /\ StoreTyped
        /\ j.mem \in Row /\ a \in Assets /\ pc[q] = "promote"
        /\ "promote" \in WithCopy \ {"updateRow"}
    BY <1>1, RowAt, JobOf DEF PromoteAsset, WithCopy, AtRow, PCs
  <1>3. JobKept("promote", j) /\ HeldKept(j) /\ CopyKept("promote", j)
    BY <1>1, <1>2 DEF Kept, JobKept
  <1>4. rows' = rows /\ stored' = stored /\ uploads' = uploads /\ pc[q] \notin Promoted
    BY <1>2 DEF PromoteAsset, Promoted
  <1>5. CASE /\ k # NoKey /\ staging[k] # NoBits
             /\ PromoteStagedAsset(j.mem) /\ Enter(q, "updateAsset", j)
    <2>1. k \in Keys
      BY <1>1, <1>2, <1>5 DEF Row, AssetVersion
    <2>2. staging[k] = j.mem.bits /\ staging[k] \in Bits /\ object[a] \in Seq(Bits)
      BY <1>1, <1>2, <1>3, <1>5, <2>1 DEF CopyKept, KeyOk, StoreTyped
    <2>3. PICK versions, n : versions = Append(object[a], staging[k]) /\ n = Len(object[a])
      OBVIOUS
    <2>4. /\ n \in Nat /\ Len(versions) = n + 1 /\ versions[n + 1] = j.mem.bits
          /\ \A v \in 1 .. n : versions[v] = object[a][v]
      BY <2>2, <2>3, AppendProperties, LenProperties
    <2>5. object' = [object EXCEPT ![a] = versions] /\ staging' = [staging EXCEPT ![k] = NoBits]
      BY <1>1, <1>5, <2>3 DEF PromoteStagedAsset
    <2>6. object'[a] = versions /\ \A b \in Assets : b # a => object'[b] = object[b]
      BY <1>2, <2>5 DEF StoreTyped
    <2>7. KeyFrame
      BY <1>2, <1>4, <2>1, <2>5, UploadsNat DEF KeyFrame, StoreTyped
    <2>8. Free(a)
      BY <1>1, <1>2, <1>4, OneNewest DEF Free
    <2>9. Numbered(a, n)
      BY <1>2, <2>3, <2>8 DEF Kept, AssetsKept
    <2>10. IngestedSame(a)
      BY <1>4, LenProperties DEF IngestedSame, TypeInv, RowsTyped
    <2>11. Numbered(a, n)'
      BY <1>2, <1>4, <2>4, <2>6, <2>9, <2>10, NumberedFrame
    <2>12. PromotedKept("updateAsset", j)'
      <3>1. (n + 1) - 1 = n /\ n + 1 > 0
        BY <2>4
      <3> QED
        BY <1>1, <2>4, <2>6, <2>11, <3>1 DEF PromotedKept
    <2>13. HeldKept(j)' /\ CopyKept("promote", j)'
      BY <1>2, <1>3, <1>4, <2>7, HoldsStill
    <2>14. JobKept("updateAsset", j)'
      BY <2>12, <2>13 DEF JobKept, CopyKept
    <2>15. "updateAsset" \in Promoted
      BY DEF Promoted
    <2> QED
      BY <1>1, <1>2, <1>4, <1>5, <2>6, <2>7, <2>14, <2>15, NewestKept
  <1>6. CASE /\ Enter(q, "count", [j EXCEPT !.back = "end"])
             /\ UNCHANGED <<staging, object>>
    <2>1. PICK new : new = [j EXCEPT !.back = "end"]
      OBVIOUS
    <2>2. /\ new.list = j.list /\ new.todo = j.todo /\ new.mem = j.mem /\ new.at = j.at
          /\ new.key = j.key /\ new.bits = j.bits /\ new.back = "end"
      BY <1>2, <2>1 DEF Job
    <2>3. HeldKept(new) /\ CopyKept("count", new)
      BY <1>3, <2>2 DEF HeldKept, CopyKept
    <2>4. JobKept("count", new) /\ \A b : Touches(new, b) => Touches(j, b)
      BY <2>2, <2>3 DEF JobKept, Promoted, Touches
    <2>5. KeyFrame
      BY <1>4, <1>6, SameKeys
    <2> QED
      BY <1>1, <1>4, <1>6, <2>1, <2>4, <2>5, MoveKept
  <1>7. CASE Finish(q) /\ UNCHANGED <<staging, object>>
    <2>1. KeyFrame
      BY <1>4, <1>7, SameKeys
    <2>2. Enter(q, "idle", NoJob)
      BY <1>7 DEF Finish
    <2> HIDE DEF NoJob
    <2> QED
      BY <1>4, <1>7, <2>1, <2>2, NoJobKept, NoJobTouches, MoveKept
  <1> QED
    BY <1>1, <1>5, <1>6, <1>7 DEF PromoteAsset

LEMMA UpdateAssetKept ==
    ASSUME TypeInv, TypeInv', Kept, NEW q \in Requests, UpdateAsset(q),
           "updateAsset" \notin FailSteps
    PROVE  Kept'
  <1>1. PICK j, a : j = job[q] /\ a = j.mem.asset
    OBVIOUS
  <1>2. JobTyped("updateAsset", j) /\ a \in Assets /\ pc[q] = "updateAsset"
    BY <1>1, RowAt, JobOf DEF UpdateAsset, WithCopy, AtRow, PCs
  <1>3. {"updateAsset", "nextVersion"} \subseteq WithCopy \cap Promoted
    BY DEF WithCopy, AtRow, PCs, Promoted
  <1>4. HeldKept(j) /\ CopyKept("updateAsset", j) /\ PromotedKept("updateAsset", j)
    BY <1>1, <1>2, <1>3 DEF Kept, JobKept
  <1>5. /\ stored' = stored \cup {a} /\ Enter(q, "nextVersion", j)
        /\ UNCHANGED <<rows, staging, uploads, object>>
    BY <1>1 DEF UpdateAsset, Fails
  <1>6. KeyFrame
    BY <1>5, SameKeys
  <1>7. HeldKept(j)' /\ CopyKept("nextVersion", j)'
    BY <1>2, <1>3, <1>4, <1>5, <1>6, HoldsStill DEF CopyKept
  <1>8. PromotedKept("nextVersion", j)'
    <2>1. PICK n : n = Len(object[a])
      OBVIOUS
    <2>2. n \in Nat /\ n > 0 /\ n - 1 \in Nat /\ Numbered(a, n - 1) /\ object[a][n] = j.mem.bits
      BY <1>1, <1>2, <1>4, <2>1, LenProperties DEF PromotedKept, TypeInv, StoreTyped
    <2>3. IngestedSame(a)
      BY <1>5, LenProperties DEF IngestedSame, TypeInv, RowsTyped
    <2>4. Numbered(a, n - 1)'
      BY <1>2, <1>5, <2>2, <2>3, NumberedFrame
    <2> QED
      BY <1>1, <1>5, <2>1, <2>2, <2>4 DEF PromotedKept
  <1>9. JobKept("nextVersion", j)'
    BY <1>7, <1>8 DEF JobKept
  <1> QED
    BY <1>1, <1>2, <1>3, <1>5, <1>6, <1>9, NewestKept

(* The number the table gives is that of the newest version.               *)
LEMMA NextIsNewest ==
    ASSUME TypeInv, RowsKept, NEW a \in Assets, NEW n \in Nat, n > 0, Numbered(a, n - 1)
    PROVE  ComputeNextVersionNumber(a) = n
  <1>1. PICK c : c = ComputeNextVersionNumber(a)
    OBVIOUS
  <1>2. /\ c \in Nat \ {0}
        /\ \A r \in RowsOf(a) : rows[r].version < c
        /\ c = 1 \/ \E r \in RowsOf(a) : c = rows[r].version + 1
    BY <1>1, NextNumber, RowsLength DEF TypeInv
  <1>3. \A r \in RowsOf(a) : rows[r].version \in Nat /\ rows[r].version <= n - 1
    <2> SUFFICES ASSUME NEW r \in RowsOf(a)
                 PROVE  rows[r].version \in Nat /\ rows[r].version <= n - 1
      OBVIOUS
    <2>1. rows[r] \in Row /\ RowKept(rows[r])
      BY RowsLength DEF TypeInv, RowsKept, RowsOf
    <2>2. rows[r].version \in Nat
      BY <2>1 DEF Row, AssetVersion
    <2>3. CASE rows[r].ingested = "true"
      BY <2>2, <2>3 DEF Numbered
    <2>4. CASE rows[r].ingested # "true"
      BY <2>1, <2>4 DEF RowKept
    <2> QED
      BY <2>2, <2>3, <2>4
  <1>4. c <= n
    BY <1>2, <1>3
  <1>5. c >= n
    <2>1. CASE n = 1
      BY <1>2, <2>1
    <2>2. CASE n # 1
      <3>1. n - 1 \in 1 .. n - 1
        BY <2>2
      <3>2. PICK r \in RowsOf(a) : rows[r].version = n - 1
        BY <3>1 DEF Numbered
      <3> QED
        BY <1>2, <3>2
    <2> QED
      BY <2>1, <2>2
  <1> QED
    BY <1>1, <1>2, <1>4, <1>5

LEMMA NextVersionKept ==
    ASSUME TypeInv, TypeInv', Kept, NEW q \in Requests, NextVersion(q)
    PROVE  Kept'
  <1>1. PICK j, m, a, n : j = job[q] /\ m = j.mem /\ a = m.asset /\ n = Len(object[a])
    OBVIOUS
  <1>2. JobTyped("nextVersion", j) /\ a \in Assets /\ pc[q] = "nextVersion" /\ j \in Job /\ m \in Row
    BY <1>1, RowAt, JobOf DEF NextVersion, WithCopy, AtRow, PCs
  <1>3. {"nextVersion", "updateRow"} \subseteq WithCopy \cap Promoted
    BY DEF WithCopy, AtRow, PCs, Promoted
  <1>4. HeldKept(j) /\ CopyKept("nextVersion", j) /\ PromotedKept("nextVersion", j)
    BY <1>1, <1>2, <1>3 DEF Kept, JobKept
  <1>5. n \in Nat /\ n > 0 /\ Numbered(a, n - 1) /\ object[a][n] = m.bits /\ a \in stored
    BY <1>1, <1>2, <1>4, LenProperties DEF PromotedKept, TypeInv, StoreTyped
  <1>6. m.ingested # "true" /\ m.version = 0
    BY <1>1, <1>4 DEF CopyKept
  <1>7. ComputeNextVersionNumber(a) = n
    BY <1>2, <1>5, NextIsNewest DEF Kept
  <1>8. PICK copy, new : copy = [m EXCEPT !.version = n] /\ new = [j EXCEPT !.mem = copy]
    OBVIOUS
  <1>9. Enter(q, "updateRow", new)
    <2>1. Enter(q, "updateRow", [j EXCEPT !.mem.version = n])
      BY <1>1, <1>6, <1>7 DEF NextVersion
    <2>2. [j EXCEPT !.mem.version = n] = new
      BY <1>1, <1>8
    <2> QED
      BY <2>1, <2>2
  <1>10. /\ copy.asset = a /\ copy.version = n /\ copy.bits = m.bits /\ copy.key = m.key
         /\ copy.ingested = m.ingested
    BY <1>1, <1>2, <1>5, <1>8 DEF Row, AssetVersion
  <1>11. /\ new.list = j.list /\ new.todo = j.todo /\ new.mem = copy /\ new.at = j.at
         /\ new.key = j.key /\ new.bits = j.bits /\ new.back = j.back
    BY <1>2, <1>8 DEF Job
  <1>12. HeldKept(new) /\ CopyKept("updateRow", new)
    BY <1>1, <1>4, <1>10, <1>11 DEF HeldKept, CopyKept
  <1>13. PromotedKept("updateRow", new)
    BY <1>1, <1>5, <1>10, <1>11 DEF PromotedKept
  <1>14. JobKept("updateRow", new)
    BY <1>12, <1>13 DEF JobKept
  <1>15. UNCHANGED <<rows, stored, staging, uploads, object>>
    BY DEF NextVersion
  <1>16. JobKept("updateRow", new)'
    BY <1>14, <1>15 DEF JobKept, HeldKept, CopyKept, PromotedKept, KeyOk, Numbered, RowsOf, AllRetired
  <1>17. KeyFrame
    BY <1>15, SameKeys
  <1>18. \A b : Touches(new, b) => Touches(j, b)
    BY <1>11 DEF Touches
  <1>19. new.mem.asset = j.mem.asset /\ pc[q] \in WithCopy /\ "updateRow" \in Promoted
    BY <1>1, <1>2, <1>3, <1>10, <1>11
  <1> QED
    BY <1>1, <1>9, <1>15, <1>16, <1>17, <1>18, <1>19, NewestKept

(* The row gets the number of the newest version, and its bits.            *)
LEMMA NewestHasARow ==
    ASSUME TypeInv, NEW a \in Assets, NEW n \in Nat, n > 0, n = Len(object[a]), a \in stored,
           Numbered(a, n - 1), NEW r \in 1 .. Len(rows), rows[r].asset = a,
           rows[r].ingested # "true",
           NEW x \in Row, x.asset = a, x.ingested = "true", x.version = n, x.bits = object[a][n],
           rows' = [rows EXCEPT ![r] = x], object' = object, stored' = stored
    PROVE  Numbered(a, n)'
  <1>1. rows \in Seq(Row) /\ DOMAIN rows = 1 .. Len(rows)
    BY RowsLength DEF TypeInv, RowsTyped
  <1>2. /\ Len(rows) \in Nat /\ Len(rows') = Len(rows) /\ DOMAIN rows' = 1 .. Len(rows)
        /\ \A i \in 1 .. Len(rows) : rows'[i] = IF i = r THEN x ELSE rows[i]
    BY <1>1, LenProperties, ExceptSeq
  <1>3. RowsOf(a)' = RowsOf(a) /\ r \in RowsOf(a)
    BY <1>1, <1>2 DEF RowsOf
  <1>4. \A i \in RowsOf(a) : rows'[i] = IF i = r THEN x ELSE rows[i]
    BY <1>1, <1>2 DEF RowsOf
  <1>5. \A i \in RowsOf(a) : rows[i].version \in Nat
    BY RowsLength DEF RowsOf, TypeInv, Row, AssetVersion
  <1>6. \A i \in RowsOf(a) : rows'[i].ingested = "true" =>
            /\ rows'[i].version <= n
            /\ object[a][rows'[i].version] = rows'[i].bits
    <2> SUFFICES ASSUME NEW i \in RowsOf(a), rows'[i].ingested = "true"
                 PROVE  /\ rows'[i].version <= n
                        /\ object[a][rows'[i].version] = rows'[i].bits
      OBVIOUS
    <2>1. CASE i = r
      BY <1>4, <2>1
    <2>2. CASE i # r
      <3>1. rows'[i] = rows[i]
        BY <1>4, <2>2
      <3>2. rows[i].version <= n - 1 /\ object[a][rows[i].version] = rows[i].bits
        BY <3>1 DEF Numbered
      <3> QED
        BY <1>5, <3>1, <3>2
    <2> QED
      BY <2>1, <2>2
  <1>7. \A i, k \in RowsOf(a) :
            rows'[i].ingested = "true" /\ rows'[k].ingested = "true"
            /\ rows'[i].version = rows'[k].version => i = k
    <2>1. \A i \in RowsOf(a) \ {r} : rows[i].ingested = "true" => rows[i].version # n
      BY <1>5 DEF Numbered
    <2> QED
      BY <1>4, <2>1 DEF Numbered
  <1>8. \A v \in 1 .. n :
            \E i \in RowsOf(a) : rows'[i].ingested = "true" /\ rows'[i].version = v
    <2> SUFFICES ASSUME NEW v \in 1 .. n
                 PROVE  \E i \in RowsOf(a) : rows'[i].ingested = "true" /\ rows'[i].version = v
      OBVIOUS
    <2>1. CASE v = n
      BY <1>3, <1>4, <2>1
    <2>2. CASE v # n
      <3>1. v \in 1 .. n - 1
        BY <2>2
      <3>2. PICK i \in RowsOf(a) : rows[i].ingested = "true" /\ rows[i].version = v
        BY <3>1 DEF Numbered
      <3>3. i # r
        BY <3>2
      <3> QED
        BY <1>4, <3>2, <3>3
    <2> QED
      BY <2>1, <2>2
  <1>9. \A i \in RowsOf(a)' : rows'[i].ingested = "true" =>
            /\ a \in stored'
            /\ rows'[i].version <= n
            /\ object'[a][rows'[i].version] = rows'[i].bits
    BY <1>3, <1>6
  <1>10. \A i, k \in RowsOf(a)' :
            rows'[i].ingested = "true" /\ rows'[k].ingested = "true"
            /\ rows'[i].version = rows'[k].version => i = k
    BY <1>3, <1>7
  <1>11. \A v \in 1 .. n :
            \E i \in RowsOf(a)' : rows'[i].ingested = "true" /\ rows'[i].version = v
    BY <1>3, <1>8
  <1> QED
    BY <1>9, <1>10, <1>11 DEF Numbered

LEMMA UpdateRowKept ==
    ASSUME TypeInv, TypeInv', Kept, NEW q \in Requests, UpdateRow(q),
           "updateRow" \notin FailSteps
    PROVE  Kept'
  <1>1. PICK j, r, m, a, n : /\ j = job[q] /\ r = j.list[j.at] /\ m = j.mem /\ a = m.asset
                             /\ n = Len(object[a])
    OBVIOUS
  <1>2. /\ JobTyped("updateRow", j) /\ a \in Assets /\ pc[q] = "updateRow" /\ m \in Row
        /\ r \in 1 .. Len(rows) /\ rows[r] \in Row /\ rows[r].asset = a
        /\ j.at \in 1 .. Len(j.list) /\ rows \in Seq(Row)
    BY <1>1, RowAt, JobOf DEF UpdateRow, WithCopy, AtRow, PCs, RowsTyped
  <1>3. "updateRow" \in WithCopy \cap Promoted
    BY DEF WithCopy, AtRow, PCs, Promoted
  <1>4. HeldKept(j) /\ CopyKept("updateRow", j) /\ PromotedKept("updateRow", j)
    BY <1>1, <1>2, <1>3 DEF Kept, JobKept
  <1>5. /\ n \in Nat /\ n > 0 /\ Numbered(a, n - 1) /\ object[a][n] = m.bits /\ a \in stored
        /\ m.version = n
    BY <1>1, <1>2, <1>4, LenProperties DEF PromotedKept, TypeInv, StoreTyped
  <1>6. rows[r].ingested # "true" /\ Touches(j, a)
    BY <1>1, <1>2, <1>4 DEF HeldKept, Touches
  <1>7. PICK x : x = [m EXCEPT !.ingested = "true", !.key = NoKey, !.retired = rows[r].retired]
    OBVIOUS
  <1>8. /\ x \in Row /\ x.asset = a /\ x.bits = m.bits /\ x.ingested = "true" /\ x.key = NoKey
        /\ x.version = n
    BY <1>1, <1>2, <1>5, <1>7 DEF Row, AssetVersion, Ingestions
  <1>9. rows' = [rows EXCEPT ![r] = x]
    <2>1. SaveRow(r, [m EXCEPT !.ingested = "true", !.key = NoKey])
      BY <1>1 DEF UpdateRow, Fails
    <2>2. PICK y : y = [m EXCEPT !.ingested = "true", !.key = NoKey]
      OBVIOUS
    <2>3. x = [y EXCEPT !.retired = rows[r].retired]
      BY <1>2, <1>7, <2>2 DEF Row, AssetVersion
    <2> QED
      BY <2>1, <2>2, <2>3 DEF SaveRow
  <1>10. /\ Len(rows) \in Nat /\ Len(rows') = Len(rows)
         /\ \A i \in 1 .. Len(rows) : rows'[i] = IF i = r THEN x ELSE rows[i]
    BY <1>2, <1>9, LenProperties, ExceptSeq
  <1>11. UNCHANGED <<stored, retired, staging, uploads, object>> /\ Enter(q, "idle", NoJob)
    BY DEF UpdateRow, Finish
  <1>12. RowsFrame(j)
    BY <1>2, <1>6, <1>8, <1>10 DEF RowsFrame
  <1>13. StoreFrame(j) /\ KeyFrame
    BY <1>11, SameKeys DEF StoreFrame
  <1>14. RowsKept'
    <2>1. RowKept(x)'
      BY <1>8 DEF RowKept, KeyOk
    <2>2. \A i \in 1 .. Len(rows) : RowKept(rows[i])'
      BY <1>8, <1>10, <1>11, <2>1 DEF Kept, RowsKept, RowKept, KeyOk
    <2> QED
      BY <1>10, <2>2 DEF RowsKept
  <1>15. JobKept("idle", NoJob)' /\ \A b : ~Touches(NoJob, b)'
    BY DEF JobKept, HeldKept, KeyOk, NoJob, WithCopy, AtRow, Promoted, Touches
  <1>16. Numbered(a, n)'
    BY <1>2, <1>1, <1>5, <1>6, <1>8, <1>9, <1>11, NewestHasARow
  <1>17. \A b \in Assets : b # a /\ Free(b)' => Numbered(b, Len(object[b]))'
    <2> SUFFICES ASSUME NEW b \in Assets, b # a, Free(b)' PROVE Numbered(b, Len(object[b]))'
      OBVIOUS
    <2>1. \A p \in Requests : p # q => pc'[p] = pc[p] /\ job'[p] = job[p]
      BY <1>11 DEF TypeInv, JobsTyped, Enter
    <2>2. Free(b)
      BY <1>1, <2>1 DEF Free
    <2>3. PICK k : k = Len(object[b])
      OBVIOUS
    <2>4. k \in Nat /\ Numbered(b, k)
      BY <2>2, <2>3, LenProperties DEF Kept, AssetsKept, TypeInv, StoreTyped
    <2>5. IngestedSame(b)
      BY <1>2, <1>8, <1>10 DEF IngestedSame
    <2>6. Numbered(b, k)'
      BY <1>11, <2>4, <2>5, NumberedFrame
    <2> QED
      BY <1>11, <2>3, <2>6
  <1>18. \A b \in Assets : Free(b)' => Numbered(b, Len(object[b]))'
    BY <1>1, <1>11, <1>16, <1>17
  <1> HIDE DEF NoJob
  <1> QED
    BY <1>1, <1>11, <1>12, <1>13, <1>14, <1>15, <1>18, StepKept

-----------------------------------------------------------------------------
(* The agreement always holds, when a promoted version gets its row.       *)

LEMMA InitKept == Init => Kept
  <1> SUFFICES ASSUME Init PROVE Kept
    OBVIOUS
  <1>1. /\ Len(rows) = 0 /\ DOMAIN rows = {}
        /\ \A q \in Requests : pc[q] = "idle" /\ job[q] = NoJob
        /\ \A a \in Assets : object[a] = <<>> /\ Len(<<>>) = 0
    BY DEF Init
  <1>2. Apart
    <2> HIDE DEF NoJob
    <2> QED
      BY <1>1, NoJobTouches DEF Apart
  <1>3. RowsKept
    BY <1>1 DEF RowsKept
  <1>4. AssetsKept
    BY <1>1 DEF AssetsKept, Numbered, RowsOf
  <1>5. \A q \in Requests : JobKept(pc[q], job[q])
    <2> HIDE DEF NoJob
    <2> QED
      BY <1>1, NoJobKept
  <1> QED
    BY <1>2, <1>3, <1>4, <1>5 DEF Kept

(* The updates that follow a promotion do not fail for good.               *)
PromotionsRecorded == {"updateAsset", "updateRow"} \cap FailSteps = {}

LEMMA NextKept ==
    ASSUME Serial, PromotionsRecorded
    PROVE  TypeInv /\ TypeInv' /\ Kept /\ [Next]_vars => Kept'
  <1> SUFFICES ASSUME TypeInv, TypeInv', Kept, [Next]_vars PROVE Kept'
    OBVIOUS
  <1>1. CASE UNCHANGED vars
    BY <1>1 DEF vars, Kept, Apart, RowsKept, RowKept, AssetsKept, Free, JobKept, HeldKept, CopyKept,
                PromotedKept, AllRetired, Touches, KeyOk, Numbered, RowsOf
  <1>2. CASE Next
    <2>1. PICK q \in Requests :
            \/ UploadAsset(q) \/ RollbackAssetVersion(q) \/ CreateRow(q)
            \/ ReadUpload(q) \/ PassUpload(q) \/ FailUpload(q)
            \/ DiscardAssetVersion(q) \/ CountReferences(q) \/ RemoveStaged(q)
            \/ RetireRow(q) \/ ClearKey(q) \/ CheckVersions(q) \/ RetireAsset(q)
            \/ IngestAsset(q) \/ PromoteAsset(q) \/ UpdateAsset(q)
            \/ NextVersion(q) \/ UpdateRow(q)
      BY <1>2 DEF Next
    <2>2. "updateAsset" \notin FailSteps /\ "updateRow" \notin FailSteps
      BY DEF PromotionsRecorded
    <2> QED
      BY <2>1, <2>2, UploadAssetKept, RollbackAssetVersionKept, CreateRowKept, ReadUploadKept,
         PassUploadKept, FailUploadKept, DiscardAssetVersionKept, CountReferencesKept,
         RemoveStagedKept, RetireRowKept, ClearKeyKept, CheckVersionsKept, RetireAssetKept,
         IngestAssetKept, PromoteAssetKept, UpdateAssetKept, NextVersionKept, UpdateRowKept
  <1> QED
    BY <1>1, <1>2

LEMMA KeptAlways ==
    ASSUME Serial, PromotionsRecorded
    PROVE  Spec => [](TypeInv /\ Kept)
  <1>1. Init => TypeInv /\ Kept
    BY InitType, InitKept
  <1>2. TypeInv /\ Kept /\ [Next]_vars => (TypeInv /\ Kept)'
    BY NextType, NextKept
  <1> QED
    BY <1>1, <1>2, PTL DEF Spec

(* Whoever is between a promotion and the update of the row has the row.   *)
LEMMA NumberedOrPromoted ==
    ASSUME TypeInv, Kept, NEW a \in Assets
    PROVE  \/ Free(a) /\ Numbered(a, Len(object[a]))
           \/ \E q \in Requests : /\ pc[q] \in Promoted /\ job[q].mem.asset = a
                                  /\ Len(object[a]) > 0 /\ Numbered(a, Len(object[a]) - 1)
  <1>1. CASE Free(a)
    BY <1>1 DEF Kept, AssetsKept
  <1>2. CASE ~Free(a)
    <2>1. PICK q \in Requests : pc[q] \in Promoted /\ job[q].mem.asset = a
      BY <1>2 DEF Free
    <2>2. PromotedKept(pc[q], job[q])
      BY <2>1 DEF Kept, JobKept
    <2> QED
      BY <2>1, <2>2 DEF PromotedKept
  <1> QED
    BY <1>1, <1>2

(* Every ingested row leads to the bits it describes, whatever the         *)
(* requests for other assets do, and whatever fails but the updates that   *)
(* follow a promotion.                                                     *)
THEOREM RowsLeadToTheirBits ==
    ASSUME Serial, PromotionsRecorded
    PROVE  Spec => []RowsReadTheirBits
  <1>1. TypeInv /\ Kept => RowsReadTheirBits
    <2> SUFFICES ASSUME TypeInv, Kept, NEW r \in DOMAIN rows, rows[r].ingested = "true"
                 PROVE  ReadAsset(r) = rows[r].bits
      BY DEF RowsReadTheirBits
    <2>1. PICK a, v : a = rows[r].asset /\ v = rows[r].version
      OBVIOUS
    <2>2. a \in Assets /\ r \in RowsOf(a) /\ v \in Nat /\ v > 0
      BY <2>1, RowsLength DEF TypeInv, Row, AssetVersion, RowsOf
    <2>3. object[a] \in Seq(Bits)
      BY <2>2 DEF TypeInv, StoreTyped
    <2>4. Len(object[a]) \in Nat /\ DOMAIN object[a] = 1 .. Len(object[a])
      BY <2>3, LenProperties
    <2>5. a \in stored /\ v <= Len(object[a]) /\ object[a][v] = rows[r].bits
      BY <2>1, <2>2, <2>4, NumberedOrPromoted DEF Numbered
    <2>6. v \in DOMAIN object[a]
      BY <2>2, <2>4, <2>5
    <2> QED
      BY <2>1, <2>5, <2>6 DEF ReadAsset
  <1> QED
    BY <1>1, KeptAlways, PTL

(* Once nobody works on an asset each stored version has one row, and only *)
(* one, that leads to it.                                                  *)
THEOREM VersionsHaveRows ==
    ASSUME Serial, PromotionsRecorded
    PROVE  Spec => []EveryVersionHasARow
  <1>1. TypeInv /\ Kept => EveryVersionHasARow
    <2> SUFFICES ASSUME TypeInv, Kept, NEW a \in Assets, \A r \in RowsOf(a) : ~InHand(r),
                        NEW v \in DOMAIN object[a]
                 PROVE  Cardinality({r \in RowsOf(a) : rows[r].ingested = "true"
                                                       /\ rows[r].version = v}) = 1
      BY DEF EveryVersionHasARow
    <2>1. Numbered(a, Len(object[a]))
      <3>1. ASSUME NEW q \in Requests, pc[q] \in Promoted, job[q].mem.asset = a PROVE FALSE
        <4>1. PICK j, r : j = job[q] /\ r = j.list[j.at]
          OBVIOUS
        <4>2. /\ j \in Job /\ j.at \in 1 .. Len(j.list) /\ r \in DOMAIN rows
              /\ rows[r].asset = a
          BY <3>1, <4>1, RowAt, PromotedHasCopy DEF WithCopy
        <4>3. r \in Range(j.list)
          <5>1. DOMAIN j.list = 1 .. Len(j.list)
            BY <4>2, LenProperties DEF Job
          <5> QED
            BY <4>1, <4>2, <5>1 DEF Range
        <4> QED
          BY <4>1, <4>2, <4>3 DEF InHand, RowsOf
      <3> QED
        BY <3>1, NumberedOrPromoted
    <2>2. v \in 1 .. Len(object[a])
      BY LenProperties DEF TypeInv, StoreTyped
    <2>3. PICK r \in RowsOf(a) : rows[r].ingested = "true" /\ rows[r].version = v
      BY <2>1, <2>2 DEF Numbered
    <2>4. {s \in RowsOf(a) : rows[s].ingested = "true" /\ rows[s].version = v} = {r}
      BY <2>1, <2>3 DEF Numbered
    <2> QED
      BY <2>4, FS_Singleton
  <1> QED
    BY <1>1, KeptAlways, PTL

(* No request takes an ingested row back, although validation and          *)
(* discarding write whole rows from copies they made before.               *)
THEOREM IngestedRowsStay ==
    ASSUME Serial, PromotionsRecorded
    PROVE  Spec => IngestedRowStays
  <1>1. TypeInv /\ TypeInv' /\ Kept /\ [Next]_vars =>
            [\A r \in DOMAIN rows : rows[r].ingested = "true" => rows'[r] = rows[r]]_vars
    <2> SUFFICES ASSUME TypeInv, TypeInv', Kept, Next,
                        NEW r \in DOMAIN rows, rows[r].ingested = "true"
                 PROVE  rows'[r] = rows[r]
      OBVIOUS
    <2>1. r \in 1 .. Len(rows) /\ rows \in Seq(Row)
      BY RowsLength DEF TypeInv, RowsTyped
    <2>2. ASSUME NEW q \in Requests, pc[q] \in AtRow, NEW x,
                 rows' = [rows EXCEPT ![job[q].list[job[q].at]] = x]
          PROVE  rows'[r] = rows[r]
      <3>1. PICK s : s = job[q].list[job[q].at]
        OBVIOUS
      <3>2. rows[s].ingested # "true"
        BY <2>2, <3>1, RowAt DEF Kept, JobKept, HeldKept
      <3> QED
        BY <2>2, <3>1, <3>2
    <2>3. ASSUME NEW q \in Requests, CreateRow(q) PROVE rows'[r] = rows[r]
      <3>1. PICK x : rows' = rows \/ rows' = Append(rows, x)
        BY <2>3 DEF CreateRow
      <3> QED
        BY <2>1, <3>1
    <2>4. ASSUME NEW q \in Requests, PassUpload(q) \/ RetireRow(q) \/ ClearKey(q) \/ UpdateRow(q)
          PROVE  rows'[r] = rows[r]
      <3>1. pc[q] \in AtRow
        BY <2>4 DEF PassUpload, RetireRow, ClearKey, UpdateRow, AtRow, PCs
      <3>2. PICK x : rows' = rows \/ rows' = [rows EXCEPT ![job[q].list[job[q].at]] = x]
        BY <2>4 DEF PassUpload, RetireRow, ClearKey, UpdateRow, SaveRow
      <3> QED
        BY <2>2, <3>1, <3>2
    <2> QED
      BY <2>3, <2>4 DEF Next, UploadAsset, RollbackAssetVersion, ReadUpload, FailUpload,
         DiscardAssetVersion, CountReferences, RemoveStaged, CheckVersions, RetireAsset,
         IngestAsset, PromoteAsset, UpdateAsset, NextVersion
  <1> QED
    BY <1>1, KeptAlways, PTL DEF Spec, IngestedRowStays

(* An asset is retired only when each of its versions is, although the     *)
(* versions are looked at in a step before.                                *)
THEOREM EmptyAssetsRetire ==
    ASSUME Serial, PromotionsRecorded
    PROVE  Spec => OnlyEmptyAssetsRetire
  <1>1. TypeInv /\ Kept /\ [Next]_vars =>
            [\A a \in retired' \ retired : \A r \in RowsOf(a) : rows[r].retired]_vars
    <2> SUFFICES ASSUME TypeInv, Kept, Next,
                        NEW a \in retired', a \notin retired
                 PROVE  \A r \in RowsOf(a) : rows[r].retired
      OBVIOUS
    <2>1. PICK q \in Requests : RetireAsset(q)
      BY DEF Next, UploadAsset, RollbackAssetVersion, CreateRow, ReadUpload, PassUpload, FailUpload,
         DiscardAssetVersion, CountReferences, RemoveStaged, RetireRow, ClearKey, CheckVersions,
         IngestAsset, PromoteAsset, UpdateAsset, NextVersion, UpdateRow
    <2>2. pc[q] = "retireAsset" /\ a = job[q].mem.asset
      BY <2>1 DEF RetireAsset
    <2>3. AllRetired(a)
      BY <2>2 DEF Kept, JobKept
    <2> QED
      BY <2>3 DEF AllRetired
  <1> QED
    BY <1>1, KeptAlways, PTL DEF Spec, OnlyEmptyAssetsRetire

-----------------------------------------------------------------------------
(* Staged files.  While an upload is under way all rows that lead to its   *)
(* file are its own, and nobody else holds anything that does.             *)

Holds(j, r) == \E i \in 1 .. Len(j.list) : j.list[i] = r

(* A request that has all that was made of one staged file; one whose      *)
(* upload nothing has failed of yet, with the rows it has validated.       *)
Owner(place, j) == place = "create" \/ j.back \in {"validate", "retire"}
Uploading(place, j) == place = "create" \/ (place \in {"validate", "verdict"} /\ ~j.failed)
Validated(place, j) == IF place = "create" THEN 0 ELSE j.at - 1

RowsOwned(j) == \A r \in 1 .. Len(rows) : rows[r].key = j.key => Holds(j, r)

KeyApart(j, place, h) == h.key # j.key /\ (place \in WithCopy => h.mem.key # j.key)

OfferedUpTo(j, n) ==
    /\ staging[j.key] = j.bits
    /\ \A i \in 1 .. Len(j.list) :
           /\ rows[j.list[i]].key = j.key /\ ~rows[j.list[i]].retired
           /\ i <= n => \/ rows[j.list[i]].ingested = "false"
                        \/ i \in j.skipped /\ rows[j.list[i]].ingested = "null"

Own(place, j) ==
    /\ place = "verdict" => j.mem = rows[j.list[j.at]]
    /\ j.back = "validate" /\ place \notin {"create", "validate", "verdict"} => j.failed
    /\ Uploading(place, j) => OfferedUpTo(j, Validated(place, j))

OwnKey(q) ==
    /\ RowsOwned(job[q])
    /\ \A p \in Requests : p # q => KeyApart(job[q], pc[p], job[p])

OwnInv ==
    \A q \in Requests : /\ Own(pc[q], job[q])
                        /\ Owner(pc[q], job[q]) => OwnKey(q)

-----------------------------------------------------------------------------
(* What a step of a request that is here and holds j leaves to the others, *)
(* and what it holds then.                                                 *)

RowsFollow(here, j) ==
    /\ Len(rows') >= Len(rows)
    /\ \A r \in 1 .. Len(rows) : /\ rows'[r].key \in {rows[r].key, NoKey}
                                 /\ rows'[r] = rows[r] \/ Holds(j, r)
    /\ \A r \in 1 .. Len(rows') : r > Len(rows) => here = "create" /\ rows'[r].key = j.key

StagingFollows(here, j) ==
    /\ uploads' >= uploads
    /\ \A k \in Keys : \/ staging'[k] = staging[k]
                       \/ k > uploads
                       \/ here \in WithCopy /\ k = j.mem.key

JobFollows(here, j, place, new) ==
    /\ new.key \in {NoKey, j.key} \/ new.key > uploads
    /\ place \in WithCopy =>
           \/ new.mem.key \in {NoKey, j.key}
           \/ here \in WithCopy /\ new.mem.key = j.mem.key
           \/ \E r \in 1 .. Len(rows) : Holds(new, r) /\ new.mem.key = rows[r].key
    /\ Owner(place, new) =>
           /\ \/ new.key > uploads
              \/ Owner(here, j) /\ new.key = j.key /\ \A r : Holds(j, r) => Holds(new, r)
           /\ \A r \in 1 .. Len(rows') : r > Len(rows) => Holds(new, r)

LEMMA OwnerKey ==
    ASSUME NEW place, NEW j, JobTyped(place, j), Owner(place, j)
    PROVE  j.key \in Keys /\ j.key # NoKey /\ j.bits \in Bits
  BY ConstantsAssumption DEF JobTyped, Owner, Keys, NoKey

(* A request that holds none of the rows that are written.                 *)
LEMMA OtherOwn ==
    ASSUME TypeInv, TypeInv', NEW here, NEW j, RowsFollow(here, j), StagingFollows(here, j),
           NEW place, NEW h, JobTyped(place, h), HeldKept(h), Own(place, h),
           Owner(place, h) => RowsOwned(h) /\ KeyApart(h, here, j),
           \A r \in 1 .. Len(rows) : ~(Holds(j, r) /\ Holds(h, r))
    PROVE  Own(place, h)' /\ (Owner(place, h) => RowsOwned(h)')
  <1>1. /\ Len(rows) \in Nat /\ Len(rows') \in Nat
        /\ \A i \in 1 .. Len(h.list) : h.list[i] \in 1 .. Len(rows)
    BY LenProperties DEF JobTyped, Held, TypeInv, RowsTyped
  <1>2. \A i \in 1 .. Len(h.list) : rows'[h.list[i]] = rows[h.list[i]]
    BY <1>1 DEF RowsFollow, Holds
  <1>3. place = "verdict" => rows'[h.list[h.at]] = rows[h.list[h.at]]
    <2>1. place = "verdict" => h.at \in 1 .. Len(h.list)
      BY DEF JobTyped, AtRow, PCs
    <2> QED
      BY <1>2, <2>1
  <1>4. ASSUME Owner(place, h) PROVE RowsOwned(h)'
    <2>1. h.key # NoKey
      BY <1>4, OwnerKey
    <2> SUFFICES ASSUME NEW r \in 1 .. Len(rows'), rows'[r].key = h.key PROVE Holds(h, r)
      BY DEF RowsOwned, Holds
    <2>2. CASE r \in 1 .. Len(rows)
      <3>1. rows[r].key = h.key
        BY <2>1, <2>2 DEF RowsFollow
      <3> QED
        BY <1>4, <2>2, <3>1 DEF RowsOwned
    <2>3. CASE r > Len(rows)
      BY <1>4, <2>3 DEF RowsFollow, KeyApart
    <2> QED
      BY <1>1, <2>2, <2>3
  <1>5. ASSUME Uploading(place, h) PROVE OfferedUpTo(h, Validated(place, h))'
    <2>1. Owner(place, h)
      BY <1>5 DEF JobTyped, Owner, Uploading
    <2>2. h.key \in Keys /\ h.key # NoKey /\ h.key <= uploads /\ uploads \in Nat /\ h.key \in Nat
      BY <2>1, OwnerKey, UploadsNat DEF HeldKept, KeyOk, Keys
    <2>3. staging'[h.key] = staging[h.key]
      <3>1. ~(here \in WithCopy /\ h.key = j.mem.key)
        BY <2>1 DEF KeyApart
      <3> QED
        BY <2>2, <3>1 DEF StagingFollows
    <2>4. OfferedUpTo(h, Validated(place, h))
      BY <1>5 DEF Own
    <2> QED
      BY <1>2, <2>3, <2>4 DEF OfferedUpTo, Validated
  <1> QED
    BY <1>3, <1>4, <1>5 DEF Own, Uploading, Validated

(* Two requests never hold the same row.                                   *)
LEMMA HoldsApart ==
    ASSUME Apart, NEW p \in Requests, NEW q \in Requests, p # q, NEW r
    PROVE  ~(Holds(job[p], r) /\ Holds(job[q], r))
  <1> SUFFICES ASSUME Holds(job[p], r), Holds(job[q], r) PROVE FALSE
    OBVIOUS
  <1>1. Touches(job[p], rows[r].asset) /\ Touches(job[q], rows[r].asset)
    BY DEF Holds, Touches
  <1> QED
    BY <1>1 DEF Apart

(* The keys a request holds have been handed out.                          *)
LEMMA KeysHanded ==
    ASSUME TypeInv, Kept, NEW p \in Requests
    PROVE  /\ ~(job[p].key > uploads)
           /\ pc[p] \in WithCopy => ~(job[p].mem.key > uploads)
  <1>1. PICK here, h : here = pc[p] /\ h = job[p]
    OBVIOUS
  <1>2. JobTyped(here, h) /\ h \in Job /\ JobKept(here, h) /\ uploads \in Nat /\ MaxUploads \in Nat
    BY <1>1, JobOf, UploadsNat, ConstantsAssumption DEF Kept
  <1>3. \A b : \A k \in Keys \cup {NoKey} : KeyOk(k, b) => ~(k > uploads)
    BY <1>2 DEF KeyOk, Keys, NoKey
  <1>4. ~(h.key > uploads)
    BY <1>2, <1>3 DEF JobKept, HeldKept, Job
  <1>5. here \in WithCopy => ~(h.mem.key > uploads)
    BY <1>2, <1>3 DEF JobTyped, CopyTyped, JobKept, CopyKept, Row, AssetVersion
  <1> QED
    BY <1>1, <1>4, <1>5

(* A step keeps the invariant when it keeps it of the request that takes it. *)
LEMMA StepOwn ==
    ASSUME TypeInv, TypeInv', Kept, Kept', OwnInv, NEW q \in Requests, NEW place, NEW new,
           Enter(q, place, new), RowsFollow(pc[q], job[q]), StagingFollows(pc[q], job[q]),
           JobFollows(pc[q], job[q], place, new), Own(place, new)'
    PROVE  OwnInv'
  <1>1. PICK here, j : here = pc[q] /\ j = job[q]
    OBVIOUS
  <1>2. \A p \in Requests : pc'[p] = (IF p = q THEN place ELSE pc[p])
                            /\ job'[p] = (IF p = q THEN new ELSE job[p])
    BY DEF TypeInv, JobsTyped, Enter
  <1>3. /\ Len(rows) \in Nat /\ Len(rows') \in Nat /\ Len(rows') >= Len(rows)
        /\ uploads \in Nat /\ Keys \cup {NoKey} \subseteq Nat
    BY LenProperties, UploadsNat, ConstantsAssumption
       DEF TypeInv, RowsTyped, RowsFollow, Keys, NoKey
  <1>4. ASSUME NEW p \in Requests \ {q}
        PROVE  Own(pc[p], job[p])' /\ (Owner(pc[p], job[p])' => RowsOwned(job[p])')
    <2>1. PICK place2, h : place2 = pc[p] /\ h = job[p]
      OBVIOUS
    <2>2. JobTyped(place2, h) /\ HeldKept(h) /\ Own(place2, h)
          /\ (Owner(place2, h) => RowsOwned(h) /\ KeyApart(h, here, j))
      BY <1>1, <2>1 DEF TypeInv, JobsTyped, Kept, JobKept, OwnInv, OwnKey
    <2>3. pc'[p] = place2 /\ job'[p] = h
      BY <1>2, <2>1
    <2>4. \A r \in 1 .. Len(rows) : ~(Holds(j, r) /\ Holds(h, r))
      BY <1>1, <2>1, HoldsApart DEF Kept
    <2>5. RowsFollow(here, j) /\ StagingFollows(here, j)
      BY <1>1
    <2>6. Own(place2, h)' /\ (Owner(place2, h) => RowsOwned(h)')
      BY <2>2, <2>4, <2>5, OtherOwn
    <2> QED
      BY <2>3, <2>6 DEF Owner
  <1>5. JobFollows(here, j, place, new)
    BY <1>1
  <1>6. ASSUME NEW p \in Requests \ {q}, Owner(pc[p], job[p])
        PROVE  KeyApart(job[p], place, new)
    <2>1. PICK h : h = job[p]
      OBVIOUS
    <2>2. h.key \in Keys /\ h.key # NoKey /\ ~(h.key > uploads)
      BY <1>6, <2>1, JobOf, OwnerKey, KeysHanded
    <2>3. RowsOwned(h) /\ KeyApart(h, here, j)
      BY <1>1, <1>6, <2>1 DEF OwnInv, OwnKey
    <2>4. new.key # h.key
      BY <1>5, <2>2, <2>3 DEF JobFollows, KeyApart
    <2>5. ASSUME NEW r \in 1 .. Len(rows), Holds(new, r) PROVE rows[r].key # h.key
      <3>1. ~(Holds(job'[q], r) /\ Holds(job'[p], r))
        <4>1. Holds(job[q], r)' => Touches(job[q], rows[r].asset)'
          BY DEF Holds, Touches
        <4>2. Holds(job[p], r)' => Touches(job[p], rows[r].asset)'
          BY DEF Holds, Touches
        <4>3. \A a : ~(Touches(job[q], a)' /\ Touches(job[p], a)')
          BY DEF Kept, Apart
        <4> QED
          BY <4>1, <4>2, <4>3 DEF Holds
      <3>2. job'[q] = new /\ job'[p] = h
        BY <1>2, <2>1
      <3> QED
        BY <2>3, <2>5, <3>1, <3>2 DEF RowsOwned
    <2>6. place \in WithCopy => new.mem.key # h.key
      BY <1>5, <2>2, <2>3, <2>5 DEF JobFollows, KeyApart
    <2> QED
      BY <2>1, <2>4, <2>6 DEF KeyApart
  <1>7. ASSUME NEW p \in Requests \ {q}, Owner(pc[p], job[p])' PROVE OwnKey(p)'
    <2>1. Owner(pc[p], job[p])
      BY <1>2, <1>7 DEF Owner
    <2>2. RowsOwned(job[p])'
      BY <1>4, <1>7
    <2>3. ASSUME NEW s \in Requests, s # p PROVE KeyApart(job[p], pc[s], job[s])'
      <3>1. CASE s = q
        BY <1>2, <1>6, <2>1, <3>1 DEF KeyApart
      <3>2. CASE s # q
        BY <1>2, <2>1, <2>3, <3>2 DEF OwnInv, OwnKey, KeyApart
      <3> QED
        BY <3>1, <3>2
    <2> QED
      BY <2>2, <2>3 DEF OwnKey
  <1>8. ASSUME Owner(place, new) PROVE OwnKey(q)'
    <2>1. JobTyped(place, new)'
      BY <1>2 DEF TypeInv, JobsTyped
    <2>2. new.key \in Keys /\ new.key # NoKey
      BY <1>8, <2>1, ConstantsAssumption DEF JobTyped, Owner, Keys, NoKey
    <2>3. /\ \/ new.key > uploads
             \/ Owner(here, j) /\ new.key = j.key /\ \A r : Holds(j, r) => Holds(new, r)
          /\ \A r \in 1 .. Len(rows') : r > Len(rows) => Holds(new, r)
      BY <1>5, <1>8 DEF JobFollows
    <2>4. ASSUME NEW r \in 1 .. Len(rows'), rows'[r].key = new.key PROVE Holds(new, r)
      <3>1. CASE r \in 1 .. Len(rows)
        <4>1. rows[r].key = new.key
          BY <2>2, <2>4, <3>1 DEF RowsFollow
        <4>2. ~(rows[r].key > uploads)
          <5>1. RowKept(rows[r])
            BY <3>1 DEF Kept, RowsKept
          <5>2. rows[r].key \in Nat /\ rows[r].key # NoKey
            BY <1>3, <2>2, <4>1
          <5> QED
            BY <1>3, <5>1, <5>2 DEF RowKept, KeyOk
        <4>3. Owner(here, j) /\ new.key = j.key /\ \A s : Holds(j, s) => Holds(new, s)
          BY <2>3, <4>1, <4>2
        <4> QED
          BY <1>1, <3>1, <4>1, <4>3 DEF OwnInv, OwnKey, RowsOwned
      <3>2. CASE r > Len(rows)
        BY <2>3, <3>2
      <3> QED
        BY <1>3, <3>1, <3>2
    <2>5. RowsOwned(job[q])'
      <3>1. job'[q] = new
        BY <1>2
      <3> QED
        BY <2>4, <3>1 DEF RowsOwned, Holds
    <2>6. ASSUME NEW p \in Requests, p # q PROVE KeyApart(new, pc[p], job[p])
      <3>1. CASE new.key > uploads
        BY <2>6, <3>1, KeysHanded DEF KeyApart
      <3>2. CASE Owner(here, j) /\ new.key = j.key
        BY <1>1, <2>6, <3>2 DEF OwnInv, OwnKey, KeyApart
      <3> QED
        BY <2>3, <3>1, <3>2
    <2> QED
      BY <1>2, <2>5, <2>6 DEF OwnKey, KeyApart
  <1>9. Own(pc[q], job[q])' /\ (Owner(pc[q], job[q])' => OwnKey(q)')
    BY <1>2, <1>8 DEF Owner
  <1> QED
    BY <1>4, <1>7, <1>9 DEF OwnInv

LEMMA NoJobFollows ==
    ASSUME NEW here, NEW j, Len(rows') = Len(rows), Len(rows) \in Nat
    PROVE  JobFollows(here, j, "idle", NoJob) /\ Own("idle", NoJob)'
  BY DEF JobFollows, Own, Owner, Uploading, NoJob, WithCopy, AtRow

(* Where a request goes on to, and with what.                              *)
Same(new, j) ==
    /\ new.list = j.list /\ new.key = j.key /\ new.bits = j.bits /\ new.bulk = j.bulk
    /\ new.failed = j.failed /\ new.skipped = j.skipped

Gone(j, place, new) ==
    \/ /\ place = "idle" /\ new = NoJob
       /\ j.back = "validate" => ~j.failed
       /\ j.back # "end" => j.at = Len(j.list)
    \/ /\ place = "validate" /\ Same(new, j) /\ new.at = j.at + 1
       /\ j.back = "validate" /\ new.back = "validate" /\ j.at < Len(j.list)
    \/ /\ place = "count" /\ Same(new, j) /\ new.at = 1
       /\ j.back = "validate" /\ new.back = "retire" /\ j.failed
       /\ new.mem = NewRow(rows[j.list[new.at]].asset, j.key, j.bits, j.bulk)
    \/ /\ place = "count" /\ Same(new, j) /\ new.at = j.at + 1
       /\ j.back = "retire" /\ new.back = "retire" /\ j.at < Len(j.list)
       /\ new.mem = NewRow(rows[j.list[new.at]].asset, j.key, j.bits, j.bulk)

LEMMA RetiringIs ==
    ASSUME RowsTyped, NEW j, j \in Job, Held(j), j.key \in Keys, j.bits \in Bits,
           NEW i \in 1 .. Len(j.list), NEW new, new = Retiring(j, i)
    PROVE  /\ Same(new, j) /\ new.at = i /\ new.back = "retire"
           /\ new.mem = NewRow(rows[j.list[i]].asset, j.key, j.bits, j.bulk)
  <1>1. j.list[i] \in 1 .. Len(rows) /\ rows[j.list[i]] \in Row /\ j.bulk \in BOOLEAN
    BY RowsLength DEF Held, Job
  <1>2. PICK m \in Row : m = NewRow(rows[j.list[i]].asset, j.key, j.bits, j.bulk)
    BY <1>1, NewRowType DEF Row, AssetVersion
  <1>3. new = [j EXCEPT !.at = i, !.back = "retire", !.mem = m]
    BY <1>2 DEF Retiring
  <1>4. new.mem = m /\ new.at = i /\ new.back = "retire"
    BY <1>3 DEF Job
  <1>5. Same(new, j)
    BY <1>3 DEF Job, Same
  <1> QED
    BY <1>2, <1>4, <1>5

LEMMA ContinueGone ==
    ASSUME RowsTyped, NEW q \in Requests, NEW place, place \in AtRow, NEW j,
           JobTyped(place, j), Continue(q, j)
    PROVE  \E next, new : Enter(q, next, new) /\ Gone(j, next, new)
  <1>0. j \in Job /\ Held(j) /\ j.at \in 1 .. Len(j.list) /\ Len(j.list) \in Nat
        /\ (j.back \in {"validate", "retire"} => j.key \in Keys /\ j.bits \in Bits)
    BY LenProperties DEF JobTyped, Job
  <1>1. CASE j.back = "validate" /\ j.at < Len(j.list)
             /\ Enter(q, "validate", At(j, j.at + 1, NoRow))
    <2>1. PICK new : new = At(j, j.at + 1, NoRow)
      OBVIOUS
    <2>2. j.at + 1 \in Nat /\ NoRow \in AssetVersion \cup {NoRow}
      BY <1>0
    <2>3. Same(new, j) /\ new.back = j.back /\ new.at = j.at + 1
      BY <1>0, <2>1, <2>2, AtType DEF Same
    <2> QED
      BY <1>1, <2>1, <2>3 DEF Gone
  <1>2. CASE j.back = "validate" /\ j.failed /\ Enter(q, "count", Retiring(j, 1))
    <2>1. 1 \in 1 .. Len(j.list)
      BY <1>0
    <2>2. PICK new : new = Retiring(j, 1)
      OBVIOUS
    <2>3. /\ Same(new, j) /\ new.at = 1 /\ new.back = "retire"
          /\ new.mem = NewRow(rows[j.list[1]].asset, j.key, j.bits, j.bulk)
      BY <1>0, <1>2, <2>1, <2>2, RetiringIs
    <2> QED
      BY <1>2, <2>2, <2>3 DEF Gone
  <1>3. CASE j.back = "retire" /\ j.at < Len(j.list) /\ Enter(q, "count", Retiring(j, j.at + 1))
    <2>1. j.at + 1 \in 1 .. Len(j.list)
      BY <1>0, <1>3
    <2>2. PICK new : new = Retiring(j, j.at + 1)
      OBVIOUS
    <2>3. /\ Same(new, j) /\ new.at = j.at + 1 /\ new.back = "retire"
          /\ new.mem = NewRow(rows[j.list[j.at + 1]].asset, j.key, j.bits, j.bulk)
      BY <1>0, <1>3, <2>1, <2>2, RetiringIs
    <2> QED
      BY <1>3, <2>2, <2>3 DEF Gone
  <1>4. CASE /\ \/ j.back = "validate" /\ ~j.failed
                \/ j.back = "retire"
                \/ j.back = "end"
             /\ j.back = "end" \/ j.at = Len(j.list)
             /\ Finish(q)
    <2>1. Enter(q, "idle", NoJob)
      BY <1>4 DEF Finish
    <2>2. Gone(j, "idle", NoJob)
      BY <1>4 DEF Gone
    <2> QED
      BY <2>1, <2>2
  <1> QED
    BY <1>1, <1>2, <1>3, <1>4 DEF Continue

LEMMA GoneFollows ==
    ASSUME NEW here, here # "create", NEW j, NEW next, NEW new, Gone(j, next, new),
           Len(rows') = Len(rows), Len(rows) \in Nat
    PROVE  JobFollows(here, j, next, new)
  <1>1. CASE next = "idle" /\ new = NoJob
    BY <1>1, NoJobFollows
  <1>2. CASE next = "validate" /\ Same(new, j) /\ j.back = "validate"
    BY <1>2 DEF JobFollows, Same, Holds, Owner, WithCopy
  <1>3. CASE next = "count" /\ Same(new, j) /\ j.back \in {"validate", "retire"} /\ new.mem.key = j.key
    BY <1>3 DEF JobFollows, Same, Holds, Owner
  <1>4. \A a : NewRow(a, j.key, j.bits, j.bulk).key = j.key
    BY NewRowFields
  <1> QED
    BY <1>1, <1>2, <1>3, <1>4 DEF Gone

LEMMA GoneOwn ==
    ASSUME NEW j, NEW next, NEW new, Gone(j, next, new), j.at \in Nat, Len(rows') = Len(rows),
           Len(rows) \in Nat, j.back = "validate" => j.failed \/ OfferedUpTo(j, j.at)'
    PROVE  Own(next, new)'
  <1>1. CASE next = "idle" /\ new = NoJob
    BY <1>1, NoJobFollows
  <1>2. CASE next = "validate" /\ Same(new, j) /\ j.back = "validate" /\ new.at = j.at + 1
    <2>1. Validated(next, new) = j.at /\ ~(next = "create") /\ ~(next = "verdict")
      BY <1>2 DEF Validated
    <2>2. new.failed \/ OfferedUpTo(new, j.at)'
      BY <1>2 DEF OfferedUpTo, Same
    <2>3. OfferedUpTo(new, Validated(next, new))' <=> OfferedUpTo(new, j.at)'
      BY <2>1 DEF OfferedUpTo, Validated
    <2> QED
      BY <1>2, <2>2, <2>3 DEF Own, Uploading
  <1>3. CASE next = "count" /\ new.back = "retire"
    BY <1>3 DEF Own, Uploading
  <1> QED
    BY <1>1, <1>2, <1>3 DEF Gone

LEMMA SameRowsFollow ==
    ASSUME TypeInv, rows' = rows
    PROVE  /\ Len(rows) \in Nat /\ Len(rows') = Len(rows)
           /\ \A here, j : RowsFollow(here, j)
  <1>1. Len(rows) \in Nat
    BY LenProperties DEF TypeInv, RowsTyped
  <1> QED
    BY <1>1 DEF RowsFollow

LEMMA SameStagingFollows ==
    ASSUME TypeInv, UNCHANGED <<staging, uploads>>
    PROVE  \A here, j : StagingFollows(here, j)
  BY UploadsNat DEF StagingFollows

(* Writing one row, of those the request holds.                            *)
LEMMA WrittenFollow ==
    ASSUME TypeInv, NEW here, NEW j, NEW r \in 1 .. Len(rows), Holds(j, r),
           NEW x \in Row, rows' = [rows EXCEPT ![r] = x], x.key \in {rows[r].key, NoKey}
    PROVE  Len(rows) \in Nat /\ Len(rows') = Len(rows) /\ RowsFollow(here, j)
  <1>1. /\ Len(rows) \in Nat /\ Len(rows') = Len(rows)
        /\ \A i \in 1 .. Len(rows) : rows'[i] = IF i = r THEN x ELSE rows[i]
    BY LenProperties, ExceptSeq DEF TypeInv, RowsTyped
  <1> QED
    BY <1>1 DEF RowsFollow

LEMMA SaveFollow ==
    ASSUME TypeInv, NEW here, NEW j, NEW r \in 1 .. Len(rows), Holds(j, r),
           NEW m \in Row, SaveRow(r, m), m.key \in {rows[r].key, NoKey}
    PROVE  Len(rows) \in Nat /\ Len(rows') = Len(rows) /\ RowsFollow(here, j)
  <1>1. rows[r] \in Row
    BY RowsLength DEF TypeInv
  <1>2. PICK x : x = [m EXCEPT !.retired = rows[r].retired]
    OBVIOUS
  <1>3. x \in Row /\ x.key = m.key
    BY <1>1, <1>2 DEF Row, AssetVersion
  <1>4. rows' = [rows EXCEPT ![r] = x]
    BY <1>2 DEF SaveRow
  <1> QED
    BY <1>3, <1>4, WrittenFollow

(* A step with the copy of a row that goes on with it or leaves it.        *)
LEMMA GoOnOwn ==
    ASSUME TypeInv, TypeInv', Kept, Kept', OwnInv, NEW q \in Requests,
           NEW here, here = pc[q], here \in WithCopy \ {"verdict"},
           NEW place, place \in WithCopy \ {"verdict"},
           NEW j, j = job[q], Enter(q, place, j) \/ Continue(q, j) \/ Finish(q),
           RowsFollow(here, j), StagingFollows(here, j),
           Len(rows) \in Nat, Len(rows') = Len(rows)
    PROVE  OwnInv'
  <1>1. JobTyped(here, j) /\ RowsTyped /\ Own(here, j)
    BY JobOf DEF OwnInv
  <1>2. j.at \in 1 .. Len(j.list) /\ here \notin {"create", "validate", "verdict"} /\ j.at \in Nat
        /\ here \in AtRow /\ place \notin {"create", "validate", "verdict"}
    BY <1>1 DEF JobTyped, WithCopy, AtRow
  <1>3. j.back = "validate" => j.failed
    BY <1>1, <1>2 DEF Own
  <1>4. CASE Enter(q, place, j)
    <2>1. JobFollows(here, j, place, j)
      BY <1>2 DEF JobFollows, Owner
    <2>2. Own(place, j)'
      BY <1>2, <1>3 DEF Own, Uploading
    <2> QED
      BY <1>4, <2>1, <2>2, StepOwn
  <1>5. CASE Continue(q, j)
    <2>1. PICK next, new : Enter(q, next, new) /\ Gone(j, next, new)
      BY <1>1, <1>2, <1>5, ContinueGone
    <2>2. JobFollows(here, j, next, new) /\ Own(next, new)'
      BY <1>2, <1>3, <2>1, GoneFollows, GoneOwn
    <2> QED
      BY <2>1, <2>2, StepOwn
  <1>6. CASE Finish(q)
    <2>1. Enter(q, "idle", NoJob)
      BY <1>6 DEF Finish
    <2> QED
      BY <2>1, NoJobFollows, StepOwn
  <1> QED
    BY <1>4, <1>5, <1>6

(* The row at hand is held.                                                *)
LEMMA HoldsAt ==
    ASSUME TypeInv, NEW q \in Requests, pc[q] \in AtRow
    PROVE  Holds(job[q], job[q].list[job[q].at])
  BY RowAt DEF Holds

LEMMA CountReferencesOwn ==
    ASSUME TypeInv, TypeInv', Kept, Kept', OwnInv, NEW q \in Requests, CountReferences(q)
    PROVE  OwnInv'
  <1>1. PICK j, here : j = job[q] /\ here = pc[q]
    OBVIOUS
  <1>2. PICK place \in {"remove", "retire"} : Enter(q, place, j) \/ Continue(q, j)
    BY <1>1 DEF CountReferences
  <1>3. here \in WithCopy \ {"verdict"} /\ place \in WithCopy \ {"verdict"}
    BY <1>1 DEF CountReferences, WithCopy, AtRow, PCs
  <1>4. rows' = rows /\ UNCHANGED <<staging, uploads>>
    BY DEF CountReferences
  <1> QED
    BY <1>1, <1>2, <1>3, <1>4, SameRowsFollow, SameStagingFollows, GoOnOwn

LEMMA RemoveStagedOwn ==
    ASSUME TypeInv, TypeInv', Kept, Kept', OwnInv, NEW q \in Requests, RemoveStaged(q)
    PROVE  OwnInv'
  <1>1. PICK j, here : j = job[q] /\ here = pc[q]
    OBVIOUS
  <1>2. Enter(q, "retire", j) \/ Continue(q, j)
    BY <1>1 DEF RemoveStaged
  <1>3. here \in WithCopy \ {"verdict"} /\ "retire" \in WithCopy \ {"verdict"}
    BY <1>1 DEF RemoveStaged, WithCopy, AtRow, PCs
  <1>4. rows' = rows /\ uploads' = uploads
    BY DEF RemoveStaged
  <1>5. StagingFollows(here, j)
    BY <1>1, <1>3, UploadsNat DEF RemoveStaged, StagingFollows, TypeInv, StoreTyped
  <1> QED
    BY <1>1, <1>2, <1>3, <1>4, <1>5, SameRowsFollow, GoOnOwn

LEMMA RetireRowOwn ==
    ASSUME TypeInv, TypeInv', Kept, Kept', OwnInv, NEW q \in Requests, RetireRow(q)
    PROVE  OwnInv'
  <1>1. PICK j, here, r : j = job[q] /\ here = pc[q] /\ r = j.list[j.at]
    OBVIOUS
  <1>2. Enter(q, "clear", j) \/ Continue(q, j)
    BY <1>1 DEF RetireRow
  <1>3. here \in WithCopy \ {"verdict"} /\ "clear" \in WithCopy \ {"verdict"} /\ here \in AtRow
    BY <1>1 DEF RetireRow, WithCopy, AtRow, PCs
  <1>4. UNCHANGED <<staging, uploads>>
    BY DEF RetireRow
  <1>5. r \in 1 .. Len(rows) /\ rows[r] \in Row /\ Holds(j, r)
    BY <1>1, <1>3, RowAt, HoldsAt
  <1>6. CASE rows' = rows
    BY <1>1, <1>2, <1>3, <1>4, <1>6, SameRowsFollow, SameStagingFollows, GoOnOwn
  <1>7. CASE rows' = [rows EXCEPT ![r].retired = TRUE]
    <2>1. PICK x : x = [rows[r] EXCEPT !.retired = TRUE]
      OBVIOUS
    <2>2. x \in Row /\ x.key = rows[r].key
      BY <1>5, <2>1 DEF Row, AssetVersion
    <2>3. rows' = [rows EXCEPT ![r] = x]
      BY <1>7, <2>1
    <2>4. Len(rows) \in Nat /\ Len(rows') = Len(rows) /\ RowsFollow(here, j)
      BY <1>5, <2>2, <2>3, WrittenFollow
    <2> QED
      BY <1>1, <1>2, <1>3, <1>4, <2>4, SameStagingFollows, GoOnOwn
  <1> QED
    BY <1>1, <1>6, <1>7 DEF RetireRow

LEMMA ClearKeyOwn ==
    ASSUME TypeInv, TypeInv', Kept, Kept', OwnInv, NEW q \in Requests, ClearKey(q)
    PROVE  OwnInv'
  <1>1. PICK j, here, r : j = job[q] /\ here = pc[q] /\ r = j.list[j.at]
    OBVIOUS
  <1>2. Enter(q, "check", j) \/ Continue(q, j)
    BY <1>1 DEF ClearKey
  <1>3. here \in WithCopy \ {"verdict"} /\ "check" \in WithCopy \ {"verdict"} /\ here \in AtRow
    BY <1>1 DEF ClearKey, WithCopy, AtRow, PCs
  <1>4. UNCHANGED <<staging, uploads>>
    BY DEF ClearKey
  <1>5. r \in 1 .. Len(rows) /\ j.mem \in Row /\ Holds(j, r)
    BY <1>1, <1>3, RowAt, HoldsAt
  <1>6. CASE rows' = rows
    BY <1>1, <1>2, <1>3, <1>4, <1>6, SameRowsFollow, SameStagingFollows, GoOnOwn
  <1>7. CASE SaveRow(r, [j.mem EXCEPT !.key = NoKey])
    <2>1. PICK m : m = [j.mem EXCEPT !.key = NoKey]
      OBVIOUS
    <2>2. m \in Row /\ m.key = NoKey
      BY <1>5, <2>1 DEF Row, AssetVersion
    <2>3. Len(rows) \in Nat /\ Len(rows') = Len(rows) /\ RowsFollow(here, j)
      BY <1>5, <1>7, <2>1, <2>2, SaveFollow
    <2> QED
      BY <1>1, <1>2, <1>3, <1>4, <2>3, SameStagingFollows, GoOnOwn
  <1> QED
    BY <1>1, <1>6, <1>7 DEF ClearKey

LEMMA CheckVersionsOwn ==
    ASSUME TypeInv, TypeInv', Kept, Kept', OwnInv, NEW q \in Requests, CheckVersions(q)
    PROVE  OwnInv'
  <1>1. PICK j, here : j = job[q] /\ here = pc[q]
    OBVIOUS
  <1>2. Enter(q, "retireAsset", j) \/ Continue(q, j)
    BY <1>1 DEF CheckVersions
  <1>3. here \in WithCopy \ {"verdict"} /\ "retireAsset" \in WithCopy \ {"verdict"}
    BY <1>1 DEF CheckVersions, WithCopy, AtRow, PCs
  <1>4. rows' = rows /\ UNCHANGED <<staging, uploads>>
    BY DEF CheckVersions
  <1> QED
    BY <1>1, <1>2, <1>3, <1>4, SameRowsFollow, SameStagingFollows, GoOnOwn

LEMMA RetireAssetOwn ==
    ASSUME TypeInv, TypeInv', Kept, Kept', OwnInv, NEW q \in Requests, RetireAsset(q)
    PROVE  OwnInv'
  <1>1. PICK j, here : j = job[q] /\ here = pc[q]
    OBVIOUS
  <1>2. Continue(q, j)
    BY <1>1 DEF RetireAsset
  <1>3. here \in WithCopy \ {"verdict"}
    BY <1>1 DEF RetireAsset, WithCopy, AtRow, PCs
  <1>4. rows' = rows /\ UNCHANGED <<staging, uploads>>
    BY DEF RetireAsset
  <1> QED
    BY <1>1, <1>2, <1>3, <1>4, SameRowsFollow, SameStagingFollows, GoOnOwn

LEMMA UpdateAssetOwn ==
    ASSUME TypeInv, TypeInv', Kept, Kept', OwnInv, NEW q \in Requests, UpdateAsset(q)
    PROVE  OwnInv'
  <1>1. PICK j, here : j = job[q] /\ here = pc[q]
    OBVIOUS
  <1>2. Enter(q, "nextVersion", j) \/ Finish(q)
    BY <1>1 DEF UpdateAsset
  <1>3. here \in WithCopy \ {"verdict"} /\ "nextVersion" \in WithCopy \ {"verdict"}
    BY <1>1 DEF UpdateAsset, WithCopy, AtRow, PCs
  <1>4. rows' = rows /\ UNCHANGED <<staging, uploads>>
    BY DEF UpdateAsset
  <1> QED
    BY <1>1, <1>2, <1>3, <1>4, SameRowsFollow, SameStagingFollows, GoOnOwn

LEMMA UpdateRowOwn ==
    ASSUME TypeInv, TypeInv', Kept, Kept', OwnInv, NEW q \in Requests, UpdateRow(q)
    PROVE  OwnInv'
  <1>1. PICK j, here, r : j = job[q] /\ here = pc[q] /\ r = j.list[j.at]
    OBVIOUS
  <1>2. Finish(q) /\ UNCHANGED <<staging, uploads>>
    BY DEF UpdateRow
  <1>3. here \in WithCopy \ {"verdict"} /\ here \in AtRow /\ here = "updateRow"
    BY <1>1 DEF UpdateRow, WithCopy, AtRow, PCs
  <1>4. r \in 1 .. Len(rows) /\ j.mem \in Row /\ Holds(j, r) /\ j.mem.version > 0
    BY <1>1, <1>3, RowAt, HoldsAt DEF JobTyped
  <1>5. CASE rows' = rows
    BY <1>1, <1>2, <1>3, <1>5, SameRowsFollow, SameStagingFollows, GoOnOwn
  <1>6. CASE SaveRow(r, [j.mem EXCEPT !.ingested = "true", !.key = NoKey])
    <2>1. PICK m : m = [j.mem EXCEPT !.ingested = "true", !.key = NoKey]
      OBVIOUS
    <2>2. m \in Row /\ m.key = NoKey
      BY <1>4, <2>1 DEF Row, AssetVersion, Ingestions
    <2>3. Len(rows) \in Nat /\ Len(rows') = Len(rows) /\ RowsFollow(here, j)
      BY <1>4, <1>6, <2>1, <2>2, SaveFollow
    <2> QED
      BY <1>1, <1>2, <1>3, <2>3, SameStagingFollows, GoOnOwn
  <1> QED
    BY <1>1, <1>5, <1>6 DEF UpdateRow

LEMMA PromoteAssetOwn ==
    ASSUME TypeInv, TypeInv', Kept, Kept', OwnInv, NEW q \in Requests, PromoteAsset(q)
    PROVE  OwnInv'
  <1>1. PICK j, here : j = job[q] /\ here = pc[q]
    OBVIOUS
  <1>2. here \in WithCopy \ {"verdict"} /\ "updateAsset" \in WithCopy \ {"verdict"}
        /\ here = "promote"
    BY <1>1 DEF PromoteAsset, WithCopy, AtRow, PCs
  <1>3. rows' = rows /\ uploads' = uploads
    BY DEF PromoteAsset
  <1>4. StagingFollows(here, j)
    BY <1>1, <1>2, UploadsNat DEF PromoteAsset, PromoteStagedAsset, StagingFollows, TypeInv, StoreTyped
  <1>5. CASE Enter(q, "updateAsset", j) \/ Finish(q)
    BY <1>1, <1>2, <1>3, <1>4, <1>5, SameRowsFollow, GoOnOwn
  <1>6. CASE Enter(q, "count", [j EXCEPT !.back = "end"])
    <2>1. PICK new : new = [j EXCEPT !.back = "end"]
      OBVIOUS
    <2>2. new.key = j.key /\ new.mem = j.mem /\ new.list = j.list /\ new.back = "end"
      BY <1>1, <2>1, JobOf DEF Job
    <2>3. JobFollows(here, j, "count", new)
      BY <1>2, <2>2 DEF JobFollows, Owner
    <2>4. Own("count", new)'
      BY <2>2 DEF Own, Uploading
    <2> QED
      BY <1>1, <1>3, <1>4, <1>6, <2>1, <2>3, <2>4, SameRowsFollow, StepOwn
  <1> QED
    BY <1>1, <1>5, <1>6 DEF PromoteAsset

LEMMA NextVersionOwn ==
    ASSUME TypeInv, TypeInv', Kept, Kept', OwnInv, NEW q \in Requests, NextVersion(q)
    PROVE  OwnInv'
  <1>1. PICK j, here : j = job[q] /\ here = pc[q]
    OBVIOUS
  <1>2. here \in WithCopy /\ here = "nextVersion"
    BY <1>1 DEF NextVersion, WithCopy, AtRow, PCs
  <1>3. rows' = rows /\ UNCHANGED <<staging, uploads>>
    BY DEF NextVersion
  <1>4. PICK v : Enter(q, "updateRow", [j EXCEPT !.mem.version = v])
    BY <1>1 DEF NextVersion
  <1>5. PICK new : new = [j EXCEPT !.mem.version = v]
    OBVIOUS
  <1>6. j \in Job /\ j.mem \in Row /\ Own(here, j)
    BY <1>1, <1>2, JobOf DEF JobTyped, CopyTyped, OwnInv
  <1>7. new.key = j.key /\ new.list = j.list /\ new.back = j.back /\ new.failed = j.failed
    BY <1>5, <1>6 DEF Job
  <1>8. new.mem.key = j.mem.key
    <2>1. new.mem = [j.mem EXCEPT !.version = v]
      BY <1>5, <1>6 DEF Job
    <2> QED
      BY <1>6, <2>1 DEF Row, AssetVersion
  <1>9. JobFollows(here, j, "updateRow", new)
    <2>1. Owner("updateRow", new) <=> Owner(here, j)
      BY <1>2, <1>7 DEF Owner
    <2>2. Len(rows') = Len(rows) /\ Len(rows) \in Nat
      BY <1>3, SameRowsFollow
    <2> QED
      BY <1>2, <1>7, <1>8, <2>1, <2>2 DEF JobFollows, Holds
  <1>10. Own("updateRow", new)'
    BY <1>2, <1>6, <1>7 DEF Own, Uploading
  <1> QED
    BY <1>1, <1>3, <1>4, <1>5, <1>9, <1>10, SameRowsFollow, SameStagingFollows, StepOwn

(* A request that takes up a row the user was offered.                     *)
LEMMA OfferOwn ==
    ASSUME TypeInv, TypeInv', Kept, Kept', OwnInv, NEW q \in Requests,
           NEW place \in {"count", "promote"}, NEW back \in {"ingest", "end"},
           NEW r \in DOMAIN rows, Enter(q, place, Offer(r, back)),
           UNCHANGED <<rows, staging, uploads>>
    PROVE  OwnInv'
  <1>1. PICK j, here, new : j = job[q] /\ here = pc[q] /\ new = Offer(r, back)
    OBVIOUS
  <1>2. /\ new.list = <<r>> /\ new.mem = rows[r] /\ new.at = 1 /\ new.back = back
        /\ new.key = NoKey /\ new.todo = <<>>
    BY <1>1, OfferedType DEF TypeInv
  <1>3. Len(new.list) = 1 /\ new.list[1] = r /\ r \in 1 .. Len(rows)
    BY <1>2, RowsLength DEF TypeInv
  <1>4. Holds(new, r)
    BY <1>3 DEF Holds
  <1>5. JobFollows(here, j, place, new)
    BY <1>2, <1>3, <1>4 DEF JobFollows, Owner
  <1>6. Own(place, new)'
    BY <1>2 DEF Own, Uploading
  <1> QED
    BY <1>1, <1>5, <1>6, SameRowsFollow, SameStagingFollows, StepOwn

LEMMA DiscardAssetVersionOwn ==
    ASSUME TypeInv, TypeInv', Kept, Kept', OwnInv, NEW q \in Requests, DiscardAssetVersion(q)
    PROVE  OwnInv'
  BY OfferOwn DEF DiscardAssetVersion

LEMMA IngestAssetOwn ==
    ASSUME TypeInv, TypeInv', Kept, Kept', OwnInv, NEW q \in Requests, IngestAsset(q)
    PROVE  OwnInv'
  BY OfferOwn DEF IngestAsset

LEMMA UploadOwn ==
    ASSUME TypeInv, TypeInv', Kept, Kept', OwnInv, NEW q \in Requests,
           NEW list, NEW bulk, NEW b \in Bits, NEW back,
           uploads < MaxUploads, uploads' = uploads + 1,
           staging' = [staging EXCEPT ![uploads + 1] = b], rows' = rows,
           Enter(q, "create", Upload(list, bulk, uploads + 1, b, back))
    PROVE  OwnInv'
  <1>1. PICK j, here, new : /\ j = job[q] /\ here = pc[q]
                            /\ new = Upload(list, bulk, uploads + 1, b, back)
    OBVIOUS
  <1>2. new.list = <<>> /\ new.key = uploads + 1 /\ new.bits = b /\ Len(<<>>) = 0
    BY <1>1 DEF Upload, NoJob
  <1>3. uploads \in Nat /\ uploads + 1 \in Keys /\ staging \in [Keys -> Bits \cup {NoBits}]
        /\ MaxUploads \in Nat
    BY UploadsNat, ConstantsAssumption DEF Keys, TypeInv, StoreTyped
  <1>4. StagingFollows(here, j)
    BY <1>3 DEF StagingFollows, Keys
  <1>5. Len(rows) \in Nat /\ Len(rows') = Len(rows)
    BY SameRowsFollow
  <1>6. JobFollows(here, j, "create", new)
    BY <1>2, <1>3, <1>5 DEF JobFollows, WithCopy, AtRow
  <1>7. Own("create", new)'
    <2>1. OfferedUpTo(new, Validated("create", new))'
      BY <1>2, <1>3 DEF OfferedUpTo
    <2> QED
      BY <2>1 DEF Own
  <1> QED
    BY <1>1, <1>4, <1>6, <1>7, SameRowsFollow, StepOwn

LEMMA UploadAssetOwn ==
    ASSUME TypeInv, TypeInv', Kept, Kept', OwnInv, NEW q \in Requests, UploadAsset(q)
    PROVE  OwnInv'
  <1>1. PICK list \in {<<a>> : a \in Assets} \cup Bulks, b \in Bits :
            /\ staging' = [staging EXCEPT ![uploads + 1] = b]
            /\ Enter(q, "create", Upload(list, list \in Bulks, uploads + 1, b, "validate"))
    BY DEF UploadAsset
  <1>2. PICK bulk : bulk = (list \in Bulks)
    OBVIOUS
  <1> QED
    BY <1>1, <1>2, UploadOwn DEF UploadAsset

LEMMA RollbackAssetVersionOwn ==
    ASSUME TypeInv, TypeInv', Kept, Kept', OwnInv, NEW q \in Requests, RollbackAssetVersion(q)
    PROVE  OwnInv'
  <1>1. PICK r \in DOMAIN rows :
            /\ staging' = [staging EXCEPT ![uploads + 1] = ReadAsset(r)]
            /\ IF ReadAsset(r) = rows[r].bits
               THEN Enter(q, "create", Upload(<<rows[r].asset>>, FALSE, uploads + 1, rows[r].bits,
                                              IF rows[r].asset \in stored THEN "ingest" ELSE "end"))
               ELSE Finish(q)
    BY DEF RollbackAssetVersion
  <1>2. uploads < MaxUploads /\ uploads' = uploads + 1 /\ rows' = rows
    BY DEF RollbackAssetVersion
  <1>3. CASE ReadAsset(r) = rows[r].bits
    <2>1. PICK b, back, list : /\ b = rows[r].bits
                               /\ back = IF rows[r].asset \in stored THEN "ingest" ELSE "end"
                               /\ list = <<rows[r].asset>>
      OBVIOUS
    <2>2. b \in Bits
      BY <2>1, RowsLength DEF TypeInv, Row, AssetVersion
    <2>3. staging' = [staging EXCEPT ![uploads + 1] = b]
          /\ Enter(q, "create", Upload(list, FALSE, uploads + 1, b, back))
      BY <1>1, <1>3, <2>1
    <2> QED
      BY <1>2, <2>2, <2>3, UploadOwn
  <1>4. CASE Finish(q)
    <2>1. PICK j, here : j = job[q] /\ here = pc[q]
      OBVIOUS
    <2>2. StagingFollows(here, j)
      BY <1>1, <1>2, UploadsNat DEF StagingFollows, Keys, TypeInv, StoreTyped
    <2>3. Enter(q, "idle", NoJob)
      BY <1>4 DEF Finish
    <2> QED
      BY <1>2, <2>1, <2>2, <2>3, SameRowsFollow, NoJobFollows, StepOwn
  <1> QED
    BY <1>1, <1>3, <1>4

LEMMA FailUploadOwn ==
    ASSUME TypeInv, TypeInv', Kept, Kept', OwnInv, NEW q \in Requests, FailUpload(q)
    PROVE  OwnInv' /\ ~(pc'[q] = "idle")
  <1>1. PICK j, here : j = job[q] /\ here = pc[q]
    OBVIOUS
  <1>2. PICK new : new = [j EXCEPT !.failed = TRUE]
    OBVIOUS
  <1>3. JobTyped("verdict", j) /\ j \in Job /\ here = "verdict" /\ JobKept("verdict", j)
    BY <1>1, JobOf DEF FailUpload, Kept
  <1>4. "verdict" \in WithCopy
    BY DEF WithCopy, AtRow, PCs
  <1>5. /\ new.list = j.list /\ new.mem = j.mem /\ new.key = j.key /\ new.back = j.back
        /\ new.failed = TRUE
    BY <1>2, <1>3 DEF Job
  <1>6. j.mem.ingested # "true"
    BY <1>3, <1>4 DEF JobKept, CopyKept
  <1>7. Enter(q, "count", new)
    BY <1>1, <1>2, <1>6 DEF FailUpload
  <1>8. rows' = rows /\ UNCHANGED <<staging, uploads>>
    BY DEF FailUpload
  <1>9. JobFollows(here, j, "count", new)
    <2>1. Owner("count", new) => Owner(here, j)
      BY <1>3, <1>5 DEF Owner
    <2>2. Len(rows') = Len(rows) /\ Len(rows) \in Nat
      BY <1>8, SameRowsFollow
    <2> QED
      BY <1>3, <1>4, <1>5, <2>1, <2>2 DEF JobFollows, Holds
  <1>10. Own("count", new)'
    BY <1>5 DEF Own, Uploading
  <1>11. pc'[q] = "count"
    BY <1>7 DEF Enter, TypeInv, JobsTyped
  <1> QED
    BY <1>1, <1>7, <1>8, <1>9, <1>10, <1>11, SameRowsFollow, SameStagingFollows, StepOwn

LEMMA ReadUploadOwn ==
    ASSUME TypeInv, TypeInv', Kept, Kept', OwnInv, NEW q \in Requests, ReadUpload(q)
    PROVE  /\ OwnInv' /\ Len(rows') = Len(rows)
           /\ \A j, next : j = job[q] /\ next = [j EXCEPT !.skipped = @ \cup {j.at}]
                             /\ pc'[q] = "idle" => OfferedUpTo(next, Len(j.list))'
  <1>1. PICK j, here, r : j = job[q] /\ here = pc[q] /\ r = j.list[j.at]
    OBVIOUS
  <1>2. /\ JobTyped("validate", j) /\ j \in Job /\ r \in 1 .. Len(rows) /\ rows[r] \in Row
        /\ j.at \in 1 .. Len(j.list) /\ RowsTyped /\ here = "validate" /\ Held(j)
    BY <1>1, RowAt, JobOf DEF ReadUpload, AtRow, PCs, JobTyped
  <1>3. Own("validate", j)
    BY <1>1, <1>2 DEF OwnInv
  <1>4. rows' = rows /\ UNCHANGED <<staging, uploads>>
    BY DEF ReadUpload
  <1>5. Len(rows') = Len(rows) /\ Len(rows) \in Nat
    BY <1>4, SameRowsFollow
  <1>6. Owner(here, j) /\ j.back = "validate" /\ j.key \in Keys /\ j.bits \in Bits
    BY <1>2 DEF JobTyped, Owner
  <1>7. CASE Enter(q, "verdict", [j EXCEPT !.mem = rows[r]])
    <2>1. PICK m, new : m \in Row /\ m = rows[r] /\ new = [j EXCEPT !.mem = m]
      BY <1>2
    <2>2. m \in AssetVersion
      BY <2>1 DEF Row
    <2>3. /\ new.at = j.at /\ new.mem = m /\ new.list = j.list /\ new.key = j.key
          /\ new.bits = j.bits /\ new.back = j.back /\ new.failed = j.failed
          /\ new.skipped = j.skipped
      BY <1>2, <2>1, <2>2 DEF Job
    <2>4. Holds(new, r)
      BY <1>1, <1>2, <2>3 DEF Holds
    <2>5. JobFollows(here, j, "verdict", new)
      BY <1>2, <1>5, <1>6, <2>1, <2>3, <2>4 DEF JobFollows, Holds
    <2>6. new.mem = rows'[new.list[new.at]]
      BY <1>1, <1>4, <2>1, <2>3
    <2>7. Own("verdict", new)'
      <3>1. ASSUME ~new.failed PROVE OfferedUpTo(new, j.at - 1)'
        <4>1. OfferedUpTo(j, j.at - 1)
          BY <1>3, <2>3, <3>1 DEF Own, Uploading, Validated
        <4> QED
          BY <1>4, <2>3, <4>1 DEF OfferedUpTo
      <3>2. Validated("verdict", new) = j.at - 1
        BY <2>3 DEF Validated
      <3>3. ASSUME ~new.failed PROVE OfferedUpTo(new, Validated("verdict", new))'
        BY <3>1, <3>2, <3>3 DEF OfferedUpTo
      <3> QED
        BY <2>6, <3>3 DEF Own, Uploading
    <2>8. pc'[q] = "verdict"
      BY <1>7 DEF Enter, TypeInv, JobsTyped
    <2> QED
      BY <1>1, <1>4, <1>5, <1>7, <2>1, <2>5, <2>7, <2>8, SameRowsFollow, SameStagingFollows, StepOwn
  <1>8. CASE Enter(q, "count", Retiring(j, 1))
    <2>1. 1 \in 1 .. Len(j.list)
      <3>1. Len(j.list) \in Nat
        BY <1>2, LenProperties DEF Job
      <3> QED
        BY <1>2, <3>1
    <2>2. PICK new : new = Retiring(j, 1)
      OBVIOUS
    <2>3. /\ Same(new, j) /\ new.at = 1 /\ new.back = "retire"
          /\ new.mem = NewRow(rows[j.list[1]].asset, j.key, j.bits, j.bulk)
      BY <1>2, <1>6, <2>1, <2>2, RetiringIs
    <2>4. new.mem.key = j.key
      BY <2>3, NewRowFields
    <2>5. JobFollows(here, j, "count", new)
      BY <1>5, <1>6, <2>3, <2>4 DEF JobFollows, Same, Holds
    <2>6. Own("count", new)'
      BY <2>3 DEF Own, Uploading
    <2>7. pc'[q] = "count"
      BY <1>8 DEF Enter, TypeInv, JobsTyped
    <2> QED
      BY <1>1, <1>4, <1>5, <1>8, <2>2, <2>5, <2>6, <2>7, SameRowsFollow, SameStagingFollows, StepOwn
  <1>9. CASE Continue(q, [j EXCEPT !.skipped = @ \cup {j.at}])
    <2>1. PICK next : next = [j EXCEPT !.skipped = @ \cup {j.at}]
      OBVIOUS
    <2>2. /\ JobTyped("validate", next) /\ next.list = j.list /\ next.at = j.at
          /\ next.key = j.key /\ next.bits = j.bits /\ next.back = "validate"
          /\ next.failed = j.failed /\ next.skipped = j.skipped \cup {j.at} /\ next.mem = j.mem
      BY <1>2, <1>6, <2>1, SkippedIs
    <2>3. "validate" \in AtRow /\ j.at \in Nat
      BY <1>2 DEF AtRow, PCs, Job
    <2>4. PICK place, new : Enter(q, place, new) /\ Gone(next, place, new)
      BY <1>2, <1>9, <2>1, <2>2, <2>3, ContinueGone
    <2>5. ASSUME ~j.failed PROVE OfferedUpTo(next, next.at)'
      <3>1. OfferedUpTo(j, j.at - 1)
        BY <1>3, <2>5 DEF Own, Uploading, Validated
      <3>2. rows[r].ingested \in {"null", "false"}
        <4>1. HeldKept(j)
          BY <1>1 DEF Kept, JobKept
        <4>2. rows[r].ingested # "true"
          BY <1>1, <1>2, <1>6, <4>1 DEF HeldKept
        <4> QED
          BY <1>2, <4>2 DEF Row, AssetVersion, Ingestions
      <3>3. ASSUME NEW i \in 1 .. Len(j.list)
            PROVE  /\ rows[j.list[i]].key = j.key /\ ~rows[j.list[i]].retired
                   /\ i <= j.at => \/ rows[j.list[i]].ingested = "false"
                                   \/ i \in next.skipped /\ rows[j.list[i]].ingested = "null"
        <4>1. CASE i = j.at
          BY <1>1, <2>2, <3>1, <3>2, <4>1 DEF OfferedUpTo
        <4>2. CASE i # j.at
          <5>1. i <= j.at => i <= j.at - 1
            BY <2>3, <4>2
          <5> QED
            BY <2>2, <3>1, <5>1 DEF OfferedUpTo
        <4> QED
          BY <4>1, <4>2
      <3> QED
        BY <1>4, <2>2, <3>1, <3>3 DEF OfferedUpTo
    <2>6. JobFollows(here, j, place, new)
      <3>1. JobFollows(here, next, place, new)
        BY <1>2, <1>5, <2>4, GoneFollows
      <3> QED
        BY <2>2, <3>1, <1>6 DEF JobFollows, Owner, Holds
    <2>7. Own(place, new)'
      <3>1. next.failed \/ OfferedUpTo(next, next.at)'
        BY <2>2, <2>5
      <3>2. next.at \in Nat
        BY <2>2, <2>3
      <3> QED
        BY <1>5, <2>4, <3>1, <3>2, GoneOwn
    <2>8. ASSUME pc'[q] = "idle" PROVE OfferedUpTo(next, Len(j.list))'
      <3>1. place = "idle"
        BY <2>4, <2>8 DEF Enter, TypeInv, JobsTyped
      <3>2. ~next.failed /\ next.at = Len(next.list)
        BY <2>2, <2>4, <3>1 DEF Gone
      <3>3. OfferedUpTo(next, next.at)' /\ next.at = Len(j.list)
        BY <2>2, <2>5, <3>2
      <3> QED
        BY <3>3 DEF OfferedUpTo
    <2> QED
      BY <1>1, <1>4, <1>5, <2>1, <2>4, <2>6, <2>7, <2>8, SameRowsFollow, SameStagingFollows, StepOwn
  <1> QED
    BY <1>1, <1>7, <1>8, <1>9 DEF ReadUpload

(* What the validation of a good file comes to: the next row, or the end.  *)
LEMMA PassUploadGone ==
    ASSUME TypeInv, Kept, OwnInv, NEW q \in Requests, PassUpload(q), NEW j, j = job[q]
    PROVE  \E failed, next, place, new :
               /\ failed \in BOOLEAN /\ next = [j EXCEPT !.failed = failed] /\ (j.failed => failed)
               /\ JobTyped("verdict", next) /\ j \in Job
               /\ Enter(q, place, new) /\ Gone(next, place, new)
               /\ \/ SaveRow(j.list[j.at], [j.mem EXCEPT !.ingested = "false"])
                  \/ rows' = rows
               /\ ~failed => OfferedUpTo(j, j.at)'
               /\ Len(rows) \in Nat /\ Len(rows') = Len(rows) /\ RowsFollow("verdict", j)
  <1>1. PICK here, r : here = pc[q] /\ r = j.list[j.at]
    OBVIOUS
  <1>2. /\ JobTyped("verdict", j) /\ j \in Job /\ r \in 1 .. Len(rows)
        /\ j.mem \in Row /\ RowsTyped /\ here = "verdict" /\ Holds(j, r)
    BY <1>1, RowAt, JobOf, HoldsAt DEF PassUpload, WithCopy, AtRow, PCs
  <1>3. Own("verdict", j) /\ j.mem = rows[r] /\ HeldKept(j)
    BY <1>1, <1>2 DEF OwnInv, Own, Kept, JobKept
  <1>4. UNCHANGED <<staging, uploads>>
    BY DEF PassUpload
  <1>5. PICK failed \in BOOLEAN :
            /\ Continue(q, [j EXCEPT !.failed = failed])
            /\ \/ SaveRow(r, [j.mem EXCEPT !.ingested = "false"])
               \/ rows' = rows
            /\ \/ failed
               \/ ~j.failed /\ SaveRow(r, [j.mem EXCEPT !.ingested = "false"])
               \/ ~j.failed /\ rows' = rows /\ j.mem.ingested # "null"
    BY <1>1, <1>2 DEF PassUpload, Job
  <1>6. PICK next : next = [j EXCEPT !.failed = failed]
    OBVIOUS
  <1>7. /\ JobTyped("verdict", next) /\ next.list = j.list /\ next.key = j.key /\ next.mem = j.mem
        /\ next.bits = j.bits /\ next.back = j.back /\ next.at = j.at /\ next.failed = failed
    BY <1>2, <1>6 DEF JobTyped, Held, CopyTyped, Job
  <1>8. "verdict" \in AtRow /\ j.back = "validate"
    BY <1>2 DEF AtRow, PCs, JobTyped
  <1>9. PICK place, new : Enter(q, place, new) /\ Gone(next, place, new)
    BY <1>2, <1>5, <1>6, <1>7, <1>8, ContinueGone
  <1>10. /\ Len(rows) \in Nat /\ Len(rows') = Len(rows) /\ RowsFollow(here, j)
         /\ ~failed => /\ rows'[r].key = rows[r].key /\ rows'[r].retired = rows[r].retired
                       /\ rows'[r].ingested = "false"
                       /\ \A i \in 1 .. Len(rows) : i # r => rows'[i] = rows[i]
    <2>1. CASE rows' = rows /\ (failed \/ j.mem.ingested # "null")
      <3>1. rows[r].ingested # "true"
        BY <1>1, <1>2, <1>3 DEF HeldKept, JobTyped, AtRow, PCs
      <3>2. rows[r].ingested \in {"null", "true", "false"}
        BY <1>2, <1>3 DEF Row, AssetVersion, Ingestions
      <3> QED
        BY <1>3, <2>1, <3>1, <3>2, SameRowsFollow
    <2>2. CASE SaveRow(r, [j.mem EXCEPT !.ingested = "false"])
      <3>1. PICK m : m = [j.mem EXCEPT !.ingested = "false"]
        OBVIOUS
      <3>2. m \in Row /\ m.key = rows[r].key /\ m.ingested = "false"
        BY <1>2, <1>3, <3>1 DEF Row, AssetVersion, Ingestions
      <3>3. Len(rows) \in Nat /\ Len(rows') = Len(rows) /\ RowsFollow(here, j)
        BY <1>2, <2>2, <3>1, <3>2, SaveFollow
      <3>4. PICK x : x = [m EXCEPT !.retired = rows[r].retired]
        OBVIOUS
      <3>5. x.key = rows[r].key /\ x.retired = rows[r].retired /\ x.ingested = "false" /\ x \in Row
        BY <1>2, <1>3, <3>2, <3>4 DEF Row, AssetVersion
      <3>6. rows' = [rows EXCEPT ![r] = x]
        BY <2>2, <3>1, <3>4 DEF SaveRow
      <3>7. \A i \in 1 .. Len(rows) : rows'[i] = IF i = r THEN x ELSE rows[i]
        BY <1>2, <3>5, <3>6, LenProperties, ExceptSeq DEF RowsTyped
      <3> QED
        BY <1>2, <3>3, <3>5, <3>7
    <2> QED
      BY <1>5, <2>1, <2>2
  <1>11. ASSUME ~failed PROVE OfferedUpTo(j, j.at)'
    <2>1. OfferedUpTo(j, j.at - 1)
      BY <1>3, <1>5, <1>11 DEF Own, Uploading, Validated
    <2>2. \A i \in 1 .. Len(j.list) : j.list[i] \in 1 .. Len(rows)
      BY <1>2 DEF JobTyped, Held
    <2>3. j.at \in Nat /\ \A i \in 1 .. Len(j.list) : i \in Nat
      BY <1>2 DEF Job
    <2>4. ASSUME NEW i \in 1 .. Len(j.list)
          PROVE  /\ rows'[j.list[i]].key = j.key /\ ~rows'[j.list[i]].retired
                 /\ i <= j.at => \/ rows'[j.list[i]].ingested = "false"
                                 \/ i \in j.skipped /\ rows'[j.list[i]].ingested = "null"
      <3>1. CASE j.list[i] = r
        BY <1>10, <1>11, <2>1, <3>1 DEF OfferedUpTo
      <3>2. CASE j.list[i] # r
        <4>1. rows'[j.list[i]] = rows[j.list[i]]
          BY <1>10, <1>11, <2>2, <3>2
        <4>2. i <= j.at => i <= j.at - 1
          BY <1>1, <2>3, <3>2
        <4> QED
          BY <2>1, <4>1, <4>2 DEF OfferedUpTo
      <3> QED
        BY <3>1, <3>2
    <2> QED
      BY <1>4, <2>1, <2>4 DEF OfferedUpTo
  <1>12. j.failed => failed
    BY <1>5
  <1> QED
    BY <1>1, <1>2, <1>5, <1>6, <1>7, <1>9, <1>10, <1>11, <1>12

LEMMA PassUploadOwn ==
    ASSUME TypeInv, TypeInv', Kept, Kept', OwnInv, NEW q \in Requests, PassUpload(q)
    PROVE  /\ OwnInv' /\ Len(rows') = Len(rows)
           /\ \A j : j = job[q] /\ pc'[q] = "idle" => OfferedUpTo(j, Len(j.list))'
  <1>1. PICK j, here : j = job[q] /\ here = pc[q]
    OBVIOUS
  <1>2. here = "verdict" /\ UNCHANGED <<staging, uploads>>
    BY <1>1 DEF PassUpload
  <1>3. PICK failed, next, place, new :
               /\ failed \in BOOLEAN /\ next = [j EXCEPT !.failed = failed]
               /\ JobTyped("verdict", next) /\ j \in Job
               /\ Enter(q, place, new) /\ Gone(next, place, new)
               /\ ~failed => OfferedUpTo(j, j.at)'
               /\ Len(rows) \in Nat /\ Len(rows') = Len(rows) /\ RowsFollow("verdict", j)
    BY <1>1, PassUploadGone
  <1>4. /\ next.list = j.list /\ next.key = j.key /\ next.mem = j.mem
        /\ next.bits = j.bits /\ next.back = j.back /\ next.at = j.at /\ next.failed = failed
        /\ next.skipped = j.skipped /\ j.at \in Nat
    BY <1>3 DEF Job
  <1>5. next.back = "validate"
    BY <1>3 DEF JobTyped
  <1>6. JobFollows(here, j, place, new)
    <2>1. JobFollows(here, next, place, new)
      BY <1>2, <1>3, GoneFollows
    <2> QED
      BY <1>4, <2>1 DEF JobFollows, Owner, Holds
  <1>7. Own(place, new)'
    <2>1. next.failed \/ OfferedUpTo(next, next.at)'
      BY <1>3, <1>4 DEF OfferedUpTo
    <2> QED
      BY <1>3, <1>4, <2>1, GoneOwn
  <1>8. OwnInv'
    BY <1>1, <1>2, <1>3, <1>6, <1>7, SameStagingFollows, StepOwn
  <1>9. ASSUME pc'[q] = "idle" PROVE OfferedUpTo(j, Len(j.list))'
    <2>1. place = "idle"
      BY <1>3, <1>9 DEF Enter, TypeInv, JobsTyped
    <2>2. ~next.failed /\ next.at = Len(next.list)
      BY <1>3, <1>5, <2>1 DEF Gone
    <2>3. OfferedUpTo(j, j.at)' /\ j.at = Len(j.list)
      BY <1>3, <1>4, <2>2
    <2> QED
      BY <2>3 DEF OfferedUpTo
  <1> QED
    BY <1>1, <1>3, <1>8, <1>9

LEMMA CreateRowOwn ==
    ASSUME TypeInv, TypeInv', Kept, Kept', OwnInv, NEW q \in Requests, CreateRow(q)
    PROVE  OwnInv'
  <1>1. PICK j, here : j = job[q] /\ here = pc[q]
    OBVIOUS
  <1>2. PICK row, made : row = NewRow(Head(j.todo), j.key, j.bits, j.bulk)
                         /\ made = Made(j)
    OBVIOUS
  <1>3. JobTyped("create", j) /\ RowsTyped /\ here = "create" /\ Own("create", j)
    BY <1>1, JobOf DEF CreateRow, OwnInv
  <1>4. UNCHANGED <<staging, uploads>>
    BY DEF CreateRow
  <1>5. CASE Finish(q) /\ UNCHANGED rows
    <2>1. Enter(q, "idle", NoJob)
      BY <1>5 DEF Finish
    <2> QED
      BY <1>4, <1>5, <2>1, SameRowsFollow, SameStagingFollows, NoJobFollows, StepOwn
  <1>6. CASE rows' = Append(rows, row)
    <2>1. /\ j.todo \in Seq(Assets) /\ j.todo # <<>> /\ j.bulk \in BOOLEAN /\ j.key \in Keys
          /\ j.bits \in Bits /\ Head(j.todo) \in Assets /\ j \in Job
      BY <1>3, HeadTailProperties DEF JobTyped, Job
    <2>2. row \in Row /\ row.key = j.key /\ ~row.retired
      BY <1>2, <2>1, NewRowType, NewRowFields DEF NewRow
    <2>3. /\ Len(rows) \in Nat /\ Len(rows') = Len(rows) + 1 /\ rows'[Len(rows) + 1] = row
          /\ \A r \in 1 .. Len(rows) : rows'[r] = rows[r]
      BY <1>3, <1>6, <2>2, AppendedRows
    <2>4. /\ made.todo = Tail(j.todo)
          /\ Len(j.list) \in Nat /\ Len(made.list) = Len(j.list) + 1
          /\ \A i \in 1 .. Len(j.list) : made.list[i] = j.list[i]
          /\ made.list[Len(j.list) + 1] = Len(rows) + 1
          /\ made.key = j.key /\ made.bits = j.bits /\ made.back = j.back
          /\ made \in Job
      BY <1>2, <1>3, MadeType
    <2>5. \A i \in 1 .. Len(j.list) : j.list[i] \in 1 .. Len(rows)
      BY <1>3 DEF JobTyped, Held
    <2>6. RowsFollow(here, j)
      BY <1>3, <2>2, <2>3 DEF RowsFollow
    <2>7. OfferedUpTo(made, 0)'
      <3>1. OfferedUpTo(j, 0)
        BY <1>3 DEF Own, Uploading, Validated
      <3>2. ASSUME NEW i \in 1 .. Len(made.list)
            PROVE  /\ rows'[made.list[i]].key = made.key /\ ~rows'[made.list[i]].retired
                   /\ ~(i <= 0)
        <4>1. CASE i \in 1 .. Len(j.list)
          <5>1. rows[j.list[i]].key = j.key /\ ~rows[j.list[i]].retired
            BY <3>1, <4>1 DEF OfferedUpTo
          <5>2. rows'[made.list[i]] = rows[j.list[i]] /\ ~(i <= 0)
            BY <2>3, <2>4, <2>5, <4>1
          <5> QED
            BY <2>4, <5>1, <5>2
        <4>2. CASE i = Len(j.list) + 1
          BY <2>2, <2>3, <2>4, <4>2
        <4> QED
          BY <2>4, <4>1, <4>2
      <3> QED
        BY <1>4, <2>4, <3>1, <3>2 DEF OfferedUpTo
    <2>8. ASSUME NEW new, new.list = made.list
          PROVE  /\ \A r : Holds(j, r) => Holds(new, r)
                 /\ \A r \in 1 .. Len(rows') : r > Len(rows) => Holds(new, r)
      <3>1. 1 .. Len(j.list) \subseteq 1 .. Len(made.list) /\ Len(j.list) + 1 \in 1 .. Len(made.list)
        BY <2>4
      <3>2. \A r : Holds(j, r) => Holds(new, r)
        BY <2>4, <2>8, <3>1 DEF Holds
      <3>3. Holds(new, Len(rows) + 1)
        BY <2>4, <2>8, <3>1 DEF Holds
      <3>4. \A r \in 1 .. Len(rows') : r > Len(rows) => r = Len(rows) + 1
        BY <2>3
      <3> QED
        BY <3>2, <3>3, <3>4
    <2>9. CASE Enter(q, "create", made)
      <3>1. JobFollows(here, j, "create", made)
        BY <1>3, <2>4, <2>8 DEF JobFollows, Owner, WithCopy, AtRow
      <3>2. Own("create", made)'
        <4>1. Validated("create", made) = 0
          BY DEF Validated
        <4>2. OfferedUpTo(made, Validated("create", made))'
          BY <2>7, <4>1 DEF OfferedUpTo, Validated
        <4> QED
          BY <4>2 DEF Own
      <3> QED
        BY <1>1, <1>4, <2>6, <2>9, <3>1, <3>2, SameStagingFollows, StepOwn
    <2>10. CASE j.back = "validate" /\ Enter(q, "validate", At(made, 1, NoRow))
      <3>1. PICK new : new = At(made, 1, NoRow)
        OBVIOUS
      <3>2. /\ new.list = made.list /\ new.key = made.key
            /\ new.bits = made.bits /\ new.back = made.back /\ new.at = 1
        <4>1. NoRow \in AssetVersion \cup {NoRow} /\ 1 \in Nat
          OBVIOUS
        <4> QED
          BY <2>4, <3>1, <4>1, AtType
      <3>3. JobFollows(here, j, "validate", new)
        BY <1>3, <2>4, <2>8, <3>2 DEF JobFollows, Owner, WithCopy, AtRow
      <3>4. Own("validate", new)'
        <4>1. Validated("validate", new) = 0
          BY <3>2 DEF Validated
        <4>2. OfferedUpTo(new, Validated("validate", new))'
          BY <2>7, <3>2, <4>1 DEF OfferedUpTo, Validated
        <4> QED
          BY <4>2 DEF Own
      <3> QED
        BY <1>1, <1>4, <2>6, <2>10, <3>1, <3>3, <3>4, SameStagingFollows, StepOwn
    <2>11. CASE j.back = "ingest" /\ Enter(q, "promote", At(made, 1, row))
      <3>1. PICK new : new = At(made, 1, row)
        OBVIOUS
      <3>2. /\ new.list = made.list /\ new.key = made.key
            /\ new.back = made.back /\ new.mem = row
        <4>1. row \in AssetVersion \cup {NoRow} /\ 1 \in Nat
          BY <2>2 DEF Row
        <4> QED
          BY <2>4, <3>1, <4>1, AtType
      <3>3. JobFollows(here, j, "promote", new)
        BY <2>2, <2>4, <2>11, <3>2 DEF JobFollows, Owner
      <3>4. Own("promote", new)'
        BY <2>4, <2>11, <3>2 DEF Own, Uploading
      <3> QED
        BY <1>1, <1>4, <2>6, <2>11, <3>1, <3>3, <3>4, SameStagingFollows, StepOwn
    <2>12. CASE Finish(q)
      <3>1. Enter(q, "idle", NoJob)
        BY <2>12 DEF Finish
      <3>2. JobFollows(here, j, "idle", NoJob)
        BY DEF JobFollows, Owner, NoJob, WithCopy, AtRow
      <3>3. Own("idle", NoJob)'
        BY DEF Own, Uploading, NoJob
      <3> QED
        BY <1>1, <1>4, <2>6, <3>1, <3>2, <3>3, SameStagingFollows, StepOwn
    <2> QED
      BY <1>1, <1>2, <1>6, <2>9, <2>10, <2>11, <2>12 DEF CreateRow
  <1> QED
    BY <1>1, <1>2, <1>5, <1>6 DEF CreateRow

LEMMA InitOwn == Init => OwnInv
  BY DEF Init, OwnInv, Own, Owner, Uploading, NoJob

LEMMA NextOwn ==
    ASSUME Serial, PromotionsRecorded
    PROVE  /\ TypeInv /\ TypeInv' /\ Kept /\ Kept' /\ OwnInv /\ [Next]_vars => OwnInv'
  <1> SUFFICES ASSUME TypeInv, TypeInv', Kept, Kept', OwnInv, [Next]_vars PROVE OwnInv'
    OBVIOUS
  <1>1. CASE UNCHANGED vars
    BY <1>1 DEF vars, OwnInv, Own, OwnKey, Owner, Uploading, OfferedUpTo, Validated, RowsOwned,
                KeyApart, Holds
  <1>2. CASE Next
    <2>1. PICK q \in Requests :
            \/ UploadAsset(q) \/ RollbackAssetVersion(q) \/ CreateRow(q)
            \/ ReadUpload(q) \/ PassUpload(q) \/ FailUpload(q)
            \/ DiscardAssetVersion(q) \/ CountReferences(q) \/ RemoveStaged(q)
            \/ RetireRow(q) \/ ClearKey(q) \/ CheckVersions(q) \/ RetireAsset(q)
            \/ IngestAsset(q) \/ PromoteAsset(q) \/ UpdateAsset(q)
            \/ NextVersion(q) \/ UpdateRow(q)
      BY <1>2 DEF Next
    <2> QED
      BY <2>1, UploadAssetOwn, RollbackAssetVersionOwn, CreateRowOwn, ReadUploadOwn,
         PassUploadOwn, FailUploadOwn, DiscardAssetVersionOwn, CountReferencesOwn,
         RemoveStagedOwn, RetireRowOwn, ClearKeyOwn, CheckVersionsOwn, RetireAssetOwn,
         IngestAssetOwn, PromoteAssetOwn, UpdateAssetOwn, NextVersionOwn, UpdateRowOwn
  <1> QED
    BY <1>1, <1>2

LEMMA OwnAlways ==
    ASSUME Serial, PromotionsRecorded
    PROVE  Spec => []OwnInv
  <1>1. Spec => []TypeInv /\ [](TypeInv /\ Kept)
    BY TypeAlways, KeptAlways
  <1>2. TypeInv /\ TypeInv' /\ Kept /\ Kept' /\ OwnInv /\ [Next]_vars => OwnInv'
    BY NextOwn
  <1> QED
    BY <1>1, <1>2, InitOwn, PTL DEF Spec

(* What a step that ends an upload well leaves of its versions.            *)
LEMMA OfferedInTheEnd ==
    ASSUME TypeInv, TypeInv', Kept, Kept', OwnInv, [Next]_vars,
           NEW q \in Requests, pc[q] \in {"validate", "verdict"}, pc'[q] = "idle",
           NEW i \in DOMAIN job[q].list, NEW untold,
           untold = job[q].skipped \cup (IF pc[q] = "validate" THEN {job[q].at} ELSE {}),
           NEW r, r = job[q].list[i]
    PROVE  /\ rows'[r].ingested = "false" \/ (i \in untold /\ rows'[r].ingested = "null")
           /\ ~rows'[r].retired
           /\ staging'[rows'[r].key] = rows'[r].bits
  <1>1. PICK j : j = job[q]
    OBVIOUS
  <1>2. (pc[q] = "validate" /\ ReadUpload(q)) \/ (pc[q] = "verdict" /\ PassUpload(q))
    <2>1. pc'[q] # pc[q]
      OBVIOUS
    <2>2. PICK p \in Requests :
            \/ UploadAsset(p) \/ RollbackAssetVersion(p) \/ CreateRow(p)
            \/ ReadUpload(p) \/ PassUpload(p) \/ FailUpload(p)
            \/ DiscardAssetVersion(p) \/ CountReferences(p) \/ RemoveStaged(p)
            \/ RetireRow(p) \/ ClearKey(p) \/ CheckVersions(p) \/ RetireAsset(p)
            \/ IngestAsset(p) \/ PromoteAsset(p) \/ UpdateAsset(p)
            \/ NextVersion(p) \/ UpdateRow(p)
      BY <2>1 DEF Next, vars
    <2>3. \E place, new : Enter(p, place, new)
      BY <2>2 DEF UploadAsset, RollbackAssetVersion, CreateRow, ReadUpload, PassUpload, FailUpload,
             DiscardAssetVersion, CountReferences, RemoveStaged, RetireRow, ClearKey, CheckVersions,
             RetireAsset, IngestAsset, PromoteAsset, UpdateAsset, NextVersion, UpdateRow,
             Continue, Finish
    <2>4. p = q
      BY <2>1, <2>3 DEF Enter, TypeInv, JobsTyped
    <2>5. ReadUpload(q) \/ PassUpload(q) \/ FailUpload(q)
      BY <2>2, <2>4 DEF UploadAsset, RollbackAssetVersion, CreateRow, MayStart,
             DiscardAssetVersion, CountReferences, RemoveStaged, RetireRow, ClearKey, CheckVersions,
             RetireAsset, IngestAsset, PromoteAsset, UpdateAsset, NextVersion, UpdateRow
    <2>6. ~FailUpload(q)
      BY FailUploadOwn
    <2>7. ReadUpload(q) => pc[q] = "validate"
      BY DEF ReadUpload
    <2>8. PassUpload(q) => pc[q] = "verdict"
      BY DEF PassUpload
    <2> QED
      BY <2>5, <2>6, <2>7, <2>8
  <1>3. JobTyped(pc[q], j) /\ j \in Job
    BY <1>1, JobOf
  <1>4. i \in 1 .. Len(j.list) /\ Len(j.list) \in Nat /\ i <= Len(j.list)
    BY <1>1, <1>3, LenProperties DEF Job
  <1>5. /\ Len(rows') = Len(rows) /\ rows'[r].key = j.key /\ ~rows'[r].retired
        /\ rows'[r].ingested = "false" \/ (i \in untold /\ rows'[r].ingested = "null")
        /\ staging'[j.key] = j.bits
    <2>1. CASE pc[q] = "verdict" /\ PassUpload(q)
      <3>1. OfferedUpTo(j, Len(j.list))' /\ Len(rows') = Len(rows)
        BY <1>1, <2>1, PassUploadOwn
      <3> QED
        BY <1>1, <1>4, <3>1 DEF OfferedUpTo
    <2>2. CASE pc[q] = "validate" /\ ReadUpload(q)
      <3>1. PICK next : next = [j EXCEPT !.skipped = @ \cup {j.at}]
        OBVIOUS
      <3>2. OfferedUpTo(next, Len(j.list))' /\ Len(rows') = Len(rows)
        BY <1>1, <2>2, <3>1, ReadUploadOwn
      <3>3. next.list = j.list /\ next.key = j.key /\ next.bits = j.bits /\ next.skipped = untold
        BY <1>1, <1>3, <2>2, <3>1, SkippedIs
      <3> QED
        BY <1>1, <1>4, <3>2, <3>3 DEF OfferedUpTo
    <2> QED
      BY <1>2, <2>1, <2>2
  <1>6. j.key # NoKey /\ j.bits \in Bits
    BY <1>3, OwnerKey DEF JobTyped, Owner
  <1>7. RowKept(rows[r])'
    <2>1. r \in 1 .. Len(rows)
      BY <1>1, <1>3, <1>4 DEF JobTyped, Held
    <2> QED
      BY <1>5, <2>1 DEF Kept, RowsKept
  <1> QED
    BY <1>5, <1>6, <1>7, ConstantsAssumption DEF RowKept, KeyOk

(* An upload that ends well can be ingested, but for the versions its      *)
(* workflow was not told of, whatever other requests do and whatever fails *)
(* but the updates that follow a promotion.                                *)
THEOREM UploadsOffered ==
    ASSUME Serial, PromotionsRecorded
    PROVE  Spec => UploadsAreOffered
  <1> DEFINE Ended == \A q \in Requests : pc[q] \in {"validate", "verdict"} /\ pc'[q] = "idle" =>
                          LET j == job[q]
                              untold == j.skipped \cup (IF pc[q] = "validate" THEN {j.at} ELSE {})
                          IN \A i \in DOMAIN j.list :
                              LET row == rows'[j.list[i]] IN
                              /\ row.ingested = "false" \/ (i \in untold /\ row.ingested = "null")
                              /\ ~row.retired
                              /\ staging'[row.key] = row.bits
  <1>1. TypeInv /\ TypeInv' /\ Kept /\ Kept' /\ OwnInv /\ [Next]_vars => [Ended]_vars
    <2> SUFFICES ASSUME TypeInv, TypeInv', Kept, Kept', OwnInv, [Next]_vars,
                        NEW q \in Requests, pc[q] \in {"validate", "verdict"}, pc'[q] = "idle",
                        NEW i \in DOMAIN job[q].list
                 PROVE  LET untold == job[q].skipped
                                      \cup (IF pc[q] = "validate" THEN {job[q].at} ELSE {})
                            row == rows'[job[q].list[i]]
                        IN  /\ row.ingested = "false" \/ (i \in untold /\ row.ingested = "null")
                            /\ ~row.retired
                            /\ staging'[row.key] = row.bits
      BY Zenon
    <2>1. PICK untold, r :
            /\ untold = job[q].skipped \cup (IF pc[q] = "validate" THEN {job[q].at} ELSE {})
            /\ r = job[q].list[i]
      OBVIOUS
    <2> QED
      BY <2>1, OfferedInTheEnd
  <1>2. Spec => [](TypeInv /\ Kept) /\ []OwnInv
    BY KeptAlways, OwnAlways
  <1>3. UploadsAreOffered <=> [][Ended]_vars
    BY DEF UploadsAreOffered
  <1> HIDE DEF Ended
  <1> QED
    BY <1>1, <1>2, <1>3, PTL DEF Spec

-----------------------------------------------------------------------------
(* Who is to blame for a staged file that is gone while a version waits    *)
(* for it: a request that is to retire or has promoted the version.        *)

(* A version that has its staged file and neither version number nor end.  *)
Waits(x) == x.ingested # "true" /\ ~x.retired /\ x.key # NoKey

Several(j) == j.back \in {"validate", "retire"}

Loses(place, j) ==
    \/ j.back = "retire"
    \/ j.back = "validate" /\ j.failed
    \/ place \in {"retire"} \cup Promoted

(* Only the parts of a bulk upload share a staged file.                    *)
Shared ==
    \A r, s \in 1 .. Len(rows) :
        r # s /\ rows[r].key = rows[s].key /\ rows[r].key # NoKey => rows[r].bulk

(* No part of a bulk upload is left before its validation.                 *)
NullHeld ==
    \A s \in 1 .. Len(rows) :
        Waits(rows[s]) /\ rows[s].ingested = "null" /\ rows[s].bulk =>
            \E p \in Requests : Several(job[p]) /\ Holds(job[p], s)

FileKept ==
    \A s \in 1 .. Len(rows) :
        Waits(rows[s]) /\ staging[rows[s].key] # rows[s].bits =>
            \E p \in Requests : Loses(pc[p], job[p]) /\ Holds(job[p], s)

ListKept(place, j) ==
    /\ Owner(place, j) =>
           /\ \A i \in 1 .. Len(j.list) : /\ rows[j.list[i]].key \in {j.key, NoKey}
                                          /\ rows[j.list[i]].bulk = j.bulk
           /\ j.bulk => Several(j)
    /\ place = "create" /\ ~j.bulk => Len(j.list) = 0 /\ Len(j.todo) = 1
    /\ place \in AtRow /\ ~Several(j) => Len(j.list) = 1
    /\ place \in {"promote"} \cup Promoted => ~Several(j)
    /\ j.back = "retire" => \A i \in 1 .. Len(j.list) : i < j.at => rows[j.list[i]].retired

(* What the copy of a row says of the row.                                 *)
CopyIs(place, j) ==
    LET x == rows[j.list[j.at]]
    IN  /\ j.mem.bulk = x.bulk
        /\ Several(j) => j.mem.key \in {j.key, NoKey}
        /\ place \in {"promote", "count", "remove", "retire"} /\ ~Several(j) =>
               /\ j.mem.key = x.key /\ ~x.retired
               /\ place # "promote" \/ x.bulk => x.ingested = "false"
        /\ place \in {"clear", "check", "retireAsset"} => x.retired

(* Nothing that waits for a file that is about to be removed is left out.  *)
AllHeld(j) ==
    /\ j.mem.key # NoKey
    /\ \A s \in 1 .. Len(rows) : Waits(rows[s]) /\ rows[s].key = j.mem.key => Holds(j, s)

Mine(place, j) ==
    /\ ListKept(place, j)
    /\ place \in WithCopy => CopyIs(place, j)
    /\ place = "remove" => AllHeld(j)

FileInv ==
    Shared /\ NullHeld /\ FileKept /\ \A q \in Requests : Mine(pc[q], job[q])

-----------------------------------------------------------------------------
(* What a step of a request that is here and holds j makes of the rows, of *)
(* the files they lead to, and of the rows it holds.                       *)

Follows(y, x) ==
    /\ y.key \in {x.key, NoKey} /\ y.bulk = x.bulk /\ y.bits = x.bits
    /\ x.retired => y.retired
    /\ Waits(y) => Waits(x) /\ (y.ingested = "null" => x.ingested = "null")

RowsGoOn(here, j) ==
    /\ Len(rows') \in {Len(rows), Len(rows) + 1}
    /\ \A r \in 1 .. Len(rows) : Follows(rows'[r], rows[r])
    /\ \A r \in 1 .. Len(rows') : r > Len(rows) =>
           /\ here = "create"
           /\ rows'[r].key = j.key /\ rows'[r].bulk = j.bulk /\ rows'[r].bits = j.bits

JobGoesOn(here, j, place, new) ==
    /\ \A s \in 1 .. Len(rows) : Holds(j, s) /\ Waits(rows'[s]) =>
           /\ Loses(here, j) => Holds(new, s) /\ Loses(place, new)
           /\ Several(j) /\ rows'[s].ingested = "null" /\ rows'[s].bulk =>
                  Holds(new, s) /\ Several(new)
    /\ \A s \in 1 .. Len(rows') : s > Len(rows) /\ rows'[s].bulk => Holds(new, s) /\ Several(new)

FilesGoOn(place, new) ==
    \A s \in 1 .. Len(rows') :
        Waits(rows'[s]) /\ staging'[rows'[s].key] # staging[rows'[s].key] =>
            Holds(new, s) /\ Loses(place, new)

LEMMA OtherMine ==
    ASSUME TypeInv, TypeInv', NEW here, NEW j, RowsFollow(here, j), RowsGoOn(here, j),
           NEW place, NEW h, JobTyped(place, h), Mine(place, h),
           Owner(here, j) => KeyApart(j, place, h),
           \A r \in 1 .. Len(rows) : ~(Holds(j, r) /\ Holds(h, r))
    PROVE  Mine(place, h)'
  <1>1. /\ Len(rows) \in Nat /\ Len(rows') \in Nat
        /\ \A i \in 1 .. Len(h.list) : h.list[i] \in 1 .. Len(rows)
    BY LenProperties DEF JobTyped, Held, TypeInv, RowsTyped
  <1>2. \A i \in 1 .. Len(h.list) : rows'[h.list[i]] = rows[h.list[i]]
    BY <1>1 DEF RowsFollow, Holds
  <1>3. ListKept(place, h)'
    BY <1>2 DEF Mine, ListKept
  <1>4. ASSUME place \in WithCopy PROVE CopyIs(place, h)'
    <2>1. h.at \in 1 .. Len(h.list)
      BY <1>4 DEF JobTyped, WithCopy
    <2>2. rows'[h.list[h.at]] = rows[h.list[h.at]]
      BY <1>2, <2>1
    <2> QED
      BY <1>4, <2>2 DEF Mine, CopyIs
  <1>5. ASSUME place = "remove" PROVE AllHeld(h)'
    <2>1. AllHeld(h) /\ h.mem.key # NoKey /\ place \in WithCopy
      BY <1>5 DEF Mine, AllHeld, WithCopy, AtRow, PCs
    <2>2. ASSUME NEW s \in 1 .. Len(rows'), Waits(rows'[s]), rows'[s].key = h.mem.key
          PROVE  Holds(h, s)
      <3>1. CASE s \in 1 .. Len(rows)
        <4>1. Follows(rows'[s], rows[s])
          BY <3>1 DEF RowsGoOn
        <4>2. Waits(rows[s]) /\ rows[s].key = h.mem.key
          BY <2>1, <2>2, <4>1 DEF Follows
        <4> QED
          BY <2>1, <3>1, <4>2 DEF AllHeld
      <3>2. CASE s > Len(rows)
        <4>1. here = "create" /\ rows'[s].key = j.key
          BY <3>2 DEF RowsGoOn
        <4> QED
          BY <2>1, <2>2, <4>1 DEF Owner, KeyApart
      <3> QED
        BY <1>1, <3>1, <3>2
    <2> QED
      BY <2>1, <2>2 DEF AllHeld, Holds
  <1> QED
    BY <1>3, <1>4, <1>5 DEF Mine

LEMMA StepFile ==
    ASSUME TypeInv, TypeInv', Kept, OwnInv, FileInv, NEW q \in Requests, NEW place, NEW new,
           Enter(q, place, new), RowsFollow(pc[q], job[q]), RowsGoOn(pc[q], job[q]),
           JobGoesOn(pc[q], job[q], place, new), FilesGoOn(place, new), Mine(place, new)'
    PROVE  FileInv'
  <1>1. PICK here, j : here = pc[q] /\ j = job[q]
    OBVIOUS
  <1>2. \A p \in Requests : pc'[p] = (IF p = q THEN place ELSE pc[p])
                            /\ job'[p] = (IF p = q THEN new ELSE job[p])
    BY DEF TypeInv, JobsTyped, Enter
  <1>3. Len(rows) \in Nat /\ Len(rows') \in Nat /\ Len(rows') \in {Len(rows), Len(rows) + 1}
    BY LenProperties DEF TypeInv, RowsTyped, RowsGoOn
  <1>4. RowsFollow(here, j) /\ RowsGoOn(here, j) /\ JobGoesOn(here, j, place, new)
    BY <1>1
  <1>5. \A p \in Requests : Mine(pc[p], job[p])'
    <2>1. ASSUME NEW p \in Requests \ {q} PROVE Mine(pc[p], job[p])'
      <3>1. PICK place2, h : place2 = pc[p] /\ h = job[p]
        OBVIOUS
      <3>2. JobTyped(place2, h) /\ Mine(place2, h) /\ (Owner(here, j) => KeyApart(j, place2, h))
        BY <1>1, <3>1 DEF TypeInv, JobsTyped, FileInv, OwnInv, OwnKey
      <3>3. pc'[p] = place2 /\ job'[p] = h
        BY <1>2, <3>1
      <3>4. \A r \in 1 .. Len(rows) : ~(Holds(j, r) /\ Holds(h, r))
        BY <1>1, <3>1, HoldsApart DEF Kept
      <3>5. Mine(place2, h)'
        BY <1>4, <3>2, <3>4, OtherMine
      <3> QED
        BY <3>3, <3>5
    <2>2. Mine(pc[q], job[q])'
      BY <1>2
    <2> QED
      BY <2>1, <2>2
  <1>6. \A r \in 1 .. Len(rows) : Follows(rows'[r], rows[r])
    BY <1>4 DEF RowsGoOn
  <1>7. \A r \in 1 .. Len(rows') : r > Len(rows) =>
            /\ here = "create" /\ r = Len(rows) + 1
            /\ rows'[r].key = j.key /\ rows'[r].bulk = j.bulk /\ rows'[r].bits = j.bits
    BY <1>3, <1>4 DEF RowsGoOn
  <1>8. JobTyped(here, j) /\ Own(here, j) /\ Mine(here, j) /\ (Owner(here, j) => RowsOwned(j))
    BY <1>1, JobOf DEF OwnInv, OwnKey, FileInv
  <1>9. Shared'
    <2> SUFFICES ASSUME NEW r \in 1 .. Len(rows'), NEW s \in 1 .. Len(rows'), r # s,
                        rows'[r].key = rows'[s].key, rows'[r].key # NoKey
                 PROVE  rows'[r].bulk
      BY DEF Shared
    <2>1. ASSUME NEW i \in 1 .. Len(rows), NEW k \in 1 .. Len(rows'), k > Len(rows),
                 rows'[i].key = rows'[k].key, rows'[i].key # NoKey
          PROVE  rows'[i].bulk /\ rows'[k].bulk
      <3>1. rows[i].key = j.key /\ here = "create" /\ rows'[k].bulk = j.bulk
            /\ rows'[i].bulk = rows[i].bulk
        BY <1>6, <1>7, <2>1 DEF Follows
      <3>2. Holds(j, i)
        BY <1>8, <3>1 DEF Owner, RowsOwned
      <3>3. rows[i].bulk = j.bulk /\ (~j.bulk => Len(j.list) = 0)
        BY <1>8, <3>1, <3>2 DEF Mine, ListKept, Owner, Holds
      <3>4. j.bulk \in BOOLEAN
        BY <1>8 DEF JobTyped, Job
      <3> QED
        BY <3>1, <3>2, <3>3, <3>4 DEF Holds
    <2>2. CASE r \in 1 .. Len(rows) /\ s \in 1 .. Len(rows)
      BY <1>6, <2>2 DEF Follows, FileInv, Shared
    <2>3. CASE r \in 1 .. Len(rows) /\ s > Len(rows)
      BY <2>1, <2>3
    <2>4. CASE r > Len(rows) /\ s \in 1 .. Len(rows)
      BY <2>1, <2>4
    <2>5. CASE r > Len(rows) /\ s > Len(rows)
      BY <1>7, <2>5
    <2> QED
      BY <1>3, <2>2, <2>3, <2>4, <2>5
  <1>10. NullHeld'
    <2> SUFFICES ASSUME NEW s \in 1 .. Len(rows'), Waits(rows'[s]), rows'[s].ingested = "null",
                        rows'[s].bulk
                 PROVE  \E p \in Requests : Several(job'[p]) /\ Holds(job'[p], s)
      BY DEF NullHeld, Several, Holds
    <2>1. CASE s \in 1 .. Len(rows)
      <3>1. Waits(rows[s]) /\ rows[s].ingested = "null" /\ rows[s].bulk
        BY <1>6, <2>1 DEF Follows
      <3>2. PICK p \in Requests : Several(job[p]) /\ Holds(job[p], s)
        BY <2>1, <3>1 DEF FileInv, NullHeld
      <3>3. CASE p = q
        BY <1>1, <1>2, <1>4, <2>1, <3>2, <3>3 DEF JobGoesOn
      <3>4. CASE p # q
        BY <1>2, <3>2, <3>4
      <3> QED
        BY <3>3, <3>4
    <2>2. CASE s > Len(rows)
      BY <1>2, <1>4, <2>2 DEF JobGoesOn
    <2> QED
      BY <1>3, <2>1, <2>2
  <1>11. FileKept'
    <2> SUFFICES ASSUME NEW s \in 1 .. Len(rows'), Waits(rows'[s]),
                        staging'[rows'[s].key] # rows'[s].bits
                 PROVE  \E p \in Requests : Loses(pc'[p], job'[p]) /\ Holds(job'[p], s)
      BY DEF FileKept, Loses, Holds
    <2>1. CASE staging'[rows'[s].key] # staging[rows'[s].key]
      BY <1>2, <2>1 DEF FilesGoOn
    <2>2. CASE staging'[rows'[s].key] = staging[rows'[s].key] /\ s \in 1 .. Len(rows)
      <3>1. Waits(rows[s]) /\ rows[s].key = rows'[s].key /\ rows[s].bits = rows'[s].bits
        BY <1>6, <2>2 DEF Follows, Waits
      <3>2. PICK p \in Requests : Loses(pc[p], job[p]) /\ Holds(job[p], s)
        BY <2>2, <3>1 DEF FileInv, FileKept
      <3>3. CASE p = q
        BY <1>1, <1>2, <1>4, <2>2, <3>2, <3>3 DEF JobGoesOn
      <3>4. CASE p # q
        BY <1>2, <3>2, <3>4
      <3> QED
        BY <3>3, <3>4
    <2>3. CASE staging'[rows'[s].key] = staging[rows'[s].key] /\ s > Len(rows)
      <3>1. here = "create" /\ rows'[s].key = j.key /\ rows'[s].bits = j.bits
        BY <1>7, <2>3
      <3>2. staging[j.key] = j.bits
        BY <1>8, <3>1 DEF Own, Uploading, OfferedUpTo
      <3> QED
        BY <2>3, <3>1, <3>2
    <2> QED
      BY <1>3, <2>1, <2>2, <2>3
  <1> QED
    BY <1>5, <1>9, <1>10, <1>11 DEF FileInv

LEMMA SameRowsGoOn ==
    ASSUME TypeInv, rows' = rows
    PROVE  \A here, j : RowsGoOn(here, j)
  <1>1. Len(rows) \in Nat
    BY LenProperties DEF TypeInv, RowsTyped
  <1> QED
    BY <1>1 DEF RowsGoOn, Follows

LEMMA SameFilesGoOn ==
    ASSUME staging' = staging
    PROVE  \A place, new : FilesGoOn(place, new)
  BY DEF FilesGoOn

LEMMA WrittenGoOn ==
    ASSUME TypeInv, NEW here, NEW j, NEW r \in 1 .. Len(rows), NEW x \in Row,
           rows' = [rows EXCEPT ![r] = x], Follows(x, rows[r])
    PROVE  RowsGoOn(here, j) /\ rows'[r] = x
  <1>1. /\ Len(rows) \in Nat /\ Len(rows') = Len(rows)
        /\ \A i \in 1 .. Len(rows) : rows'[i] = IF i = r THEN x ELSE rows[i]
    BY LenProperties, ExceptSeq DEF TypeInv, RowsTyped
  <1>2. \A i \in 1 .. Len(rows) : Follows(rows[i], rows[i])
    BY DEF Follows
  <1> QED
    BY <1>1, <1>2 DEF RowsGoOn

LEMMA SaveGoOn ==
    ASSUME TypeInv, NEW here, NEW j, NEW r \in 1 .. Len(rows), NEW m \in Row, SaveRow(r, m),
           m.key \in {rows[r].key, NoKey}, m.bulk = rows[r].bulk, m.bits = rows[r].bits,
           \/ m.key = NoKey
           \/ m.ingested = "true"
           \/ m.ingested = "false" /\ rows[r].ingested # "true"
    PROVE  /\ RowsGoOn(here, j) /\ rows'[r].retired = rows[r].retired
           /\ rows'[r].ingested = m.ingested /\ rows'[r].key = m.key /\ rows'[r].bulk = m.bulk
  <1>1. rows[r] \in Row
    BY RowsLength DEF TypeInv
  <1>2. PICK x : x = [m EXCEPT !.retired = rows[r].retired]
    OBVIOUS
  <1>3. /\ x \in Row /\ x.key = m.key /\ x.bulk = m.bulk /\ x.bits = m.bits
        /\ x.ingested = m.ingested /\ x.retired = rows[r].retired
    BY <1>1, <1>2 DEF Row, AssetVersion
  <1>4. rows' = [rows EXCEPT ![r] = x]
    BY <1>2 DEF SaveRow
  <1>5. Follows(x, rows[r])
    BY <1>3 DEF Follows, Waits
  <1> QED
    BY <1>3, <1>4, <1>5, WrittenGoOn

LEMMA ListKeptFollows ==
    ASSUME TypeInv, NEW here, NEW j, NEW place, RowsGoOn(here, j), JobTyped(place, j),
           ListKept(place, j)
    PROVE  ListKept(place, j)'
  <1>1. \A i \in 1 .. Len(j.list) : Follows(rows'[j.list[i]], rows[j.list[i]])
    BY DEF RowsGoOn, JobTyped, Held
  <1> QED
    BY <1>1 DEF ListKept, Follows

LEMMA NoJobMine == Mine("idle", NoJob)'
  BY DEF Mine, ListKept, Owner, NoJob, WithCopy, AtRow, Promoted

LEMMA GoneMine ==
    ASSUME NEW place, NEW j, NEW next, NEW new, Gone(j, next, new),
           JobTyped(place, j), ListKept(place, j)', j.at \in 1 .. Len(j.list),
           j.back = "retire" => rows'[j.list[j.at]].retired
    PROVE  Mine(next, new)'
  <1>1. j \in Job /\ Len(j.list) \in Nat /\ j.at \in Nat
    BY LenProperties DEF JobTyped, Job
  <1>2. CASE next = "idle" /\ new = NoJob
    BY <1>2, NoJobMine
  <1>3. ASSUME Same(new, j), Several(j), Several(new)
        PROVE  /\ \A i \in 1 .. Len(new.list) : /\ rows'[new.list[i]].key \in {new.key, NoKey}
                                                /\ rows'[new.list[i]].bulk = new.bulk
    BY <1>3 DEF Same, ListKept, Owner, Several
  <1>4. CASE next = "validate" /\ Same(new, j) /\ j.back = "validate" /\ new.back = "validate"
    BY <1>3, <1>4 DEF Mine, ListKept, Several, WithCopy, Promoted
  <1>5. CASE /\ next = "count" /\ Same(new, j) /\ Several(j) /\ new.back = "retire"
             /\ new.at \in 1 .. Len(j.list)
             /\ \A i \in 1 .. Len(j.list) : i < new.at => rows'[j.list[i]].retired
             /\ new.mem.key = j.key /\ new.mem.bulk = j.bulk
    <2>1. ListKept(next, new)'
      BY <1>3, <1>5 DEF ListKept, Several, Same, Promoted
    <2>2. CopyIs(next, new)'
      BY <1>3, <1>5 DEF CopyIs, Several, Same
    <2> QED
      BY <1>5, <2>1, <2>2 DEF Mine
  <1>6. \A a : /\ NewRow(a, j.key, j.bits, j.bulk).key = j.key
               /\ NewRow(a, j.key, j.bits, j.bulk).bulk = j.bulk
    BY DEF NewRow
  <1>7. CASE /\ next = "count" /\ Same(new, j) /\ new.at = 1 /\ j.back = "validate"
             /\ new.back = "retire" /\ new.mem.key = j.key /\ new.mem.bulk = j.bulk
    <2>1. 1 \in 1 .. Len(j.list) /\ \A i \in 1 .. Len(j.list) : ~(i < 1)
      BY <1>1
    <2> QED
      BY <1>5, <1>7, <2>1 DEF Several
  <1>8. CASE /\ next = "count" /\ Same(new, j) /\ new.at = j.at + 1 /\ j.at < Len(j.list)
             /\ j.back = "retire" /\ new.back = "retire"
             /\ new.mem.key = j.key /\ new.mem.bulk = j.bulk
    <2>1. j.at + 1 \in 1 .. Len(j.list)
      BY <1>1, <1>8
    <2>2. \A i \in 1 .. Len(j.list) : i < j.at => rows'[j.list[i]].retired
      BY <1>8 DEF ListKept
    <2>3. \A i \in 1 .. Len(j.list) : i < j.at + 1 => i < j.at \/ i = j.at
      BY <1>1
    <2>4. \A i \in 1 .. Len(j.list) : i < new.at => rows'[j.list[i]].retired
      BY <1>8, <2>2, <2>3
    <2> QED
      BY <1>5, <1>8, <2>1, <2>4 DEF Several
  <1> QED
    BY <1>2, <1>4, <1>6, <1>7, <1>8 DEF Gone

LEMMA GoneGoesOn ==
    ASSUME NEW here, here \notin {"create", "retire"} \cup Promoted, NEW j, NEW next, NEW new,
           Gone(j, next, new), JobTyped(here, j), ListKept(here, j)', Len(rows') = Len(rows),
           Len(rows) \in Nat,
           j.back = "retire" => rows'[j.list[j.at]].retired,
           j.back = "validate" =>
               j.failed \/ \A i \in 1 .. Len(j.list) : i <= j.at => rows'[j.list[i]].ingested # "null"
    PROVE  JobGoesOn(here, j, next, new)
  <1>1. j \in Job /\ Len(j.list) \in Nat /\ j.at \in Nat
    BY LenProperties DEF JobTyped, Job
  <1>2. CASE /\ next = "idle" /\ new = NoJob
             /\ j.back = "validate" => ~j.failed
             /\ j.back # "end" => j.at = Len(j.list)
    <2> SUFFICES ASSUME NEW s \in 1 .. Len(rows), Holds(j, s), Waits(rows'[s])
                 PROVE  ~Loses(here, j) /\ (Several(j) => rows'[s].ingested # "null")
      BY <1>1 DEF JobGoesOn
    <2>1. PICK i \in 1 .. Len(j.list) : s = j.list[i]
      BY DEF Holds
    <2>2. i \in Nat /\ i <= Len(j.list)
      BY <1>1
    <2>3. CASE j.back = "validate"
      BY <1>2, <2>1, <2>2, <2>3 DEF Loses
    <2>4. CASE j.back = "retire"
      <3>1. rows'[s].retired
        <4>1. i < j.at \/ i = j.at
          BY <1>1, <1>2, <2>2, <2>4
        <4> QED
          BY <2>1, <2>4, <4>1 DEF ListKept
      <3> QED
        BY <3>1 DEF Waits
    <2>5. CASE ~Several(j)
      BY <2>5 DEF Several, Loses
    <2> QED
      BY <2>3, <2>4, <2>5 DEF Several
  <1>3. CASE next = "validate" /\ Same(new, j) /\ j.back = "validate" /\ new.back = "validate"
    BY <1>1, <1>3 DEF JobGoesOn, Same, Holds, Several, Loses
  <1>4. CASE next = "count" /\ Same(new, j) /\ new.back = "retire"
    BY <1>1, <1>4 DEF JobGoesOn, Same, Holds, Several, Loses
  <1> QED
    BY <1>2, <1>3, <1>4 DEF Gone

(* What a discarding request knows of the row at hand.                     *)
Discarding == {"count", "remove", "retire", "clear", "check", "retireAsset"}

LEMMA DiscardingFile ==
    ASSUME TypeInv, Kept, OwnInv, FileInv, NEW q \in Requests, NEW here, here = pc[q],
           here \in Discarding, NEW j, j = job[q]
    PROVE  LET x == rows[j.list[j.at]]
           IN  /\ JobTyped(here, j) /\ RowsTyped /\ j.at \in 1 .. Len(j.list) /\ j \in Job
               /\ j.list[j.at] \in 1 .. Len(rows) /\ Holds(j, j.list[j.at])
               /\ x \in Row /\ j.mem \in Row /\ j.mem.bulk = x.bulk /\ j.mem.bits = x.bits
               /\ Mine(here, j) /\ ListKept(here, j) /\ CopyIs(here, j)
               /\ here \in AtRow /\ here \in WithCopy \ {"verdict"}
               /\ j.back = "validate" => j.failed
  <1>1. here \in AtRow /\ here \in WithCopy \ {"verdict"}
        /\ here \notin {"create", "validate", "verdict"}
    BY DEF WithCopy, AtRow, PCs, Discarding
  <1>2. /\ j.at \in 1 .. Len(j.list) /\ j.list[j.at] \in 1 .. Len(rows)
        /\ rows[j.list[j.at]] \in Row /\ j.mem \in Row /\ j \in Job
    BY <1>1, RowAt
  <1>3. JobTyped(here, j) /\ RowsTyped /\ Holds(j, j.list[j.at])
    BY <1>1, JobOf, HoldsAt
  <1>4. Mine(here, j) /\ Own(here, j)
    BY DEF FileInv, OwnInv
  <1>5. ListKept(here, j) /\ CopyIs(here, j)
    BY <1>1, <1>4 DEF Mine
  <1>6. j.back = "validate" => j.failed
    BY <1>1, <1>4 DEF Own
  <1>7. j.mem.bits = rows[j.list[j.at]].bits
    BY <1>1 DEF Kept, JobKept, CopyKept
  <1> QED
    BY <1>1, <1>2, <1>3, <1>4, <1>5, <1>6, <1>7 DEF CopyIs

(* A request done with a row that is retired.                              *)
LEMMA ContinueFile ==
    ASSUME TypeInv, TypeInv', Kept, OwnInv, FileInv, NEW q \in Requests,
           NEW here, here = pc[q], here \in {"clear", "check", "retireAsset"},
           NEW j, j = job[q], Continue(q, j), rows'[j.list[j.at]].retired,
           RowsFollow(here, j), RowsGoOn(here, j), Len(rows) \in Nat, Len(rows') = Len(rows),
           staging' = staging
    PROVE  FileInv'
  <1>1. /\ JobTyped(here, j) /\ RowsTyped /\ j.at \in 1 .. Len(j.list) /\ ListKept(here, j)
        /\ here \in WithCopy /\ here \in AtRow /\ (j.back = "validate" => j.failed)
    <2>1. here \in Discarding
      BY DEF Discarding
    <2> QED
      BY <2>1, DiscardingFile
  <1>2. PICK next, new : Enter(q, next, new) /\ Gone(j, next, new)
    BY <1>1, ContinueGone
  <1>3. ListKept(here, j)'
    BY <1>1, ListKeptFollows
  <1>4. Mine(next, new)'
    BY <1>1, <1>2, <1>3, GoneMine
  <1>5. here \notin {"create", "retire"} \cup Promoted
    BY DEF Promoted
  <1>6. JobGoesOn(here, j, next, new)
    BY <1>1, <1>2, <1>3, <1>5, GoneGoesOn
  <1> QED
    BY <1>2, <1>4, <1>6, SameFilesGoOn, StepFile

(* A request that goes on to the next place of discardAssetVersion.        *)
LEMMA EnterFile ==
    ASSUME TypeInv, TypeInv', Kept, OwnInv, FileInv, NEW q \in Requests,
           NEW here, here = pc[q],
           here \in Discarding,
           NEW j, j = job[q], NEW place, place \in {"remove", "retire", "clear", "check", "retireAsset"},
           Enter(q, place, j), RowsFollow(here, j), RowsGoOn(here, j),
           Len(rows) \in Nat, Len(rows') = Len(rows),
           rows'[j.list[j.at]].bulk = j.mem.bulk,
           place \in {"clear", "check", "retireAsset"} => rows'[j.list[j.at]].retired,
           place \in {"remove", "retire"} => rows' = rows /\ here \in {"count", "remove"},
           place = "remove" => AllHeld(j),
           here = "retire" => place = "clear",
           FilesGoOn(place, j)
    PROVE  FileInv'
  <1>1. /\ JobTyped(here, j) /\ ListKept(here, j) /\ CopyIs(here, j) /\ Mine(here, j)
        /\ j.at \in 1 .. Len(j.list) /\ here \in AtRow /\ (j.back = "validate" => j.failed)
        /\ j \in Job
    BY DiscardingFile
  <1>2. place \in AtRow /\ place \notin {"create", "promote"} \cup Promoted
        /\ here \notin {"create", "promote"} \cup Promoted
    BY DEF AtRow, PCs, Promoted, Discarding
  <1>3. ListKept(here, j)'
    BY <1>1, ListKeptFollows
  <1>4. ListKept(place, j)'
    BY <1>1, <1>2, <1>3 DEF ListKept, Owner
  <1>5. CopyIs(place, j)'
    <2>1. CASE place \in {"clear", "check", "retireAsset"}
      BY <1>1, <2>1 DEF CopyIs
    <2>2. CASE place \in {"remove", "retire"}
      BY <1>1, <2>2 DEF CopyIs
    <2> QED
      BY <2>1, <2>2
  <1>6. place = "remove" => AllHeld(j)'
    BY DEF AllHeld, Holds
  <1>7. Mine(place, j)'
    BY <1>4, <1>5, <1>6 DEF Mine
  <1>8. JobGoesOn(here, j, place, j)
    <2> SUFFICES ASSUME NEW s \in 1 .. Len(rows), Holds(j, s), Waits(rows'[s]), Loses(here, j)
                 PROVE  Loses(place, j)
      BY DEF JobGoesOn
    <2>1. CASE Several(j)
      BY <1>1, <2>1 DEF Several, Loses
    <2>2. CASE ~Several(j)
      <3>1. here = "retire" /\ place = "clear" /\ Len(j.list) = 1
        BY <1>1, <1>2, <2>2 DEF Several, Loses, ListKept
      <3>2. s = j.list[j.at]
        BY <1>1, <3>1 DEF Holds
      <3> QED
        BY <3>1, <3>2 DEF Waits
    <2> QED
      BY <2>1, <2>2
  <1> QED
    BY <1>7, <1>8, StepFile

(* When a file has one listed version, that is the one at hand, and what   *)
(* else waits for it is in the same hands.                                 *)
LEMMA OnlyReference ==
    ASSUME TypeInv, Kept, OwnInv, FileInv, NEW q \in Requests, pc[q] = "count",
           NEW j, j = job[q], j.mem.key # NoKey, CountStorageKeyStaging(j.mem.key) = 1
    PROVE  AllHeld(j)
  <1>1. PICK r, here : r = j.list[j.at] /\ here = pc[q]
    OBVIOUS
  <1>0. here \in Discarding /\ here = "count"
    BY <1>1 DEF Discarding
  <1>2. /\ JobTyped(here, j) /\ r \in 1 .. Len(rows) /\ ListKept(here, j) /\ CopyIs(here, j)
        /\ Holds(j, r) /\ here = "count"
    BY <1>0, <1>1, DiscardingFile
  <1> SUFFICES ASSUME NEW s \in 1 .. Len(rows), Waits(rows[s]), rows[s].key = j.mem.key
               PROVE  Holds(j, s)
    BY DEF AllHeld
  <1>3. CASE Several(j)
    <2>1. j.mem.key = j.key /\ Owner(here, j)
      BY <1>2, <1>3 DEF CopyIs, Several, Owner
    <2> QED
      BY <1>1, <2>1 DEF OwnInv, OwnKey, RowsOwned
  <1>4. CASE ~Several(j) /\ rows[s].ingested = "false"
    <2>1. DOMAIN rows = 1 .. Len(rows) /\ RowsTyped
      BY RowsLength DEF TypeInv
    <2>2. PICK S : S = {i \in DOMAIN rows : Listed(i) /\ rows[i].key = j.mem.key}
      OBVIOUS
    <2>3. r \in S /\ s \in S
      BY <1>1, <1>2, <1>4, <2>1, <2>2 DEF Listed, Waits, CopyIs
    <2>4. S \subseteq 1 .. Len(rows)
      BY <2>1, <2>2
    <2>5. IsFiniteSet(S)
      <3>1. IsFiniteSet(1 .. Len(rows))
        BY <2>1, LenProperties, FS_Interval DEF RowsTyped
      <3> QED
        BY <2>4, <3>1, FS_Subset
    <2>6. Cardinality(S) = 1
      BY <2>2 DEF CountStorageKeyStaging
    <2>7. PICK x : S = {x}
      BY <2>5, <2>6, FS_Singleton
    <2> QED
      BY <1>2, <2>3, <2>7
  <1>5. CASE ~Several(j) /\ rows[s].ingested # "false"
    <2>1. rows[s].ingested = "null"
      <3>1. rows[s] \in Row
        BY RowsLength DEF TypeInv
      <3> QED
        BY <1>5, <3>1 DEF Row, AssetVersion, Ingestions, Waits
    <2>2. CASE rows[s].bulk
      <3>1. PICK p \in Requests : Several(job[p]) /\ Holds(job[p], s)
        BY <2>1, <2>2 DEF FileInv, NullHeld
      <3>2. PICK there, h : there = pc[p] /\ h = job[p]
        OBVIOUS
      <3>3. p # q
        BY <1>5, <3>1
      <3>4. Mine(there, h) /\ Owner(there, h)
        BY <3>1, <3>2 DEF FileInv, Owner, Several
      <3>5. rows[s].key \in {h.key, NoKey}
        BY <3>1, <3>2, <3>4 DEF Mine, ListKept, Holds
      <3>6. rows[s].key = h.key
        BY <3>5 DEF Waits
      <3>7. KeyApart(h, here, j)
        BY <1>1, <3>2, <3>3, <3>4 DEF OwnInv, OwnKey
      <3> QED
        BY <1>2, <3>6, <3>7 DEF KeyApart, WithCopy, AtRow, PCs
    <2>3. CASE ~rows[s].bulk
      <3>1. rows[r].key = j.mem.key
        BY <1>1, <1>2, <1>5 DEF CopyIs
      <3>2. r = s
        BY <1>2, <2>3, <3>1 DEF FileInv, Shared
      <3> QED
        BY <1>2, <3>2
    <2> QED
      BY <2>2, <2>3
  <1> QED
    BY <1>3, <1>4, <1>5

(* What has failed stays so, and none of the calls that leave a version    *)
(* behind fails before one has.                                            *)
Leaving == {"createRow", "storeMetadata", "findObject", "count", "remove", "retire"}

LEMMA FailsLeaves ==
    ASSUME NEW step \in Leaving, Fails(step)
    PROVE  LeftBehind'
  BY DEF Fails, LeftBehind, Leaving

LEMMA LeftStays ==
    ASSUME [Next]_vars, LeftBehind
    PROVE  LeftBehind'
  <1>1. failures \subseteq failures'
    <2>1. CASE UNCHANGED vars
      BY <2>1 DEF vars
    <2>2. CASE Next
      BY <2>2 DEF Next, UploadAsset, RollbackAssetVersion, CreateRow, ReadUpload, PassUpload,
             FailUpload, DiscardAssetVersion, CountReferences, RemoveStaged, RetireRow, ClearKey,
             CheckVersions, RetireAsset, IngestAsset, PromoteAsset, UpdateAsset, NextVersion,
             UpdateRow, Fails
    <2> QED
      BY <2>1, <2>2
  <1> QED
    BY <1>1 DEF LeftBehind

(* A version is skipped only when a call that leaves it behind has failed. *)
SkippedTold == \A q \in Requests : job[q].skipped = {} \/ LeftBehind

SkipsNothing(q) ==
    \E place, new : Enter(q, place, new) /\ new.skipped \in {job[q].skipped, {}}

LEMMA ContinueSkips ==
    ASSUME NEW q, NEW j \in Job, j.skipped = job[q].skipped, Continue(q, j)
    PROVE  SkipsNothing(q)
  <1>1. \A i, m : At(j, i, m).skipped = j.skipped
    BY DEF At, Job
  <1>2. \A i : Retiring(j, i).skipped = j.skipped
    BY DEF Retiring, Job
  <1>3. NoJob.skipped = {}
    BY DEF NoJob
  <1> HIDE DEF NoJob
  <1> QED
    BY <1>1, <1>2, <1>3 DEF Continue, Finish, SkipsNothing

LEMMA StepSkips ==
    ASSUME TypeInv, NEW q \in Requests,
           \/ UploadAsset(q) \/ RollbackAssetVersion(q) \/ CreateRow(q)
           \/ ReadUpload(q) \/ PassUpload(q) \/ FailUpload(q)
           \/ DiscardAssetVersion(q) \/ CountReferences(q) \/ RemoveStaged(q)
           \/ RetireRow(q) \/ ClearKey(q) \/ CheckVersions(q) \/ RetireAsset(q)
           \/ IngestAsset(q) \/ PromoteAsset(q) \/ UpdateAsset(q)
           \/ NextVersion(q) \/ UpdateRow(q)
    PROVE  SkipsNothing(q) \/ LeftBehind'
  <1>1. PICK j : j = job[q]
    OBVIOUS
  <1>2. j \in Job
    BY <1>1, JobOf
  <1>3. NoJob.skipped = {}
    BY DEF NoJob
  <1>4. Finish(q) => SkipsNothing(q)
    <2> HIDE DEF NoJob
    <2> QED
      BY <1>3 DEF Finish, SkipsNothing
  <1>5. Continue(q, j) => SkipsNothing(q)
    BY <1>1, <1>2, ContinueSkips
  <1>6. \A place : Enter(q, place, j) => SkipsNothing(q)
    BY <1>1 DEF SkipsNothing
  <1>7. \A place, list, isBulk, k, b, back :
            Enter(q, place, Upload(list, isBulk, k, b, back)) => SkipsNothing(q)
    <2>1. \A list, isBulk, k, b, back : Upload(list, isBulk, k, b, back).skipped = {}
      BY DEF Upload, NoJob
    <2> QED
      BY <2>1 DEF SkipsNothing
  <1>8. \A place, r, back : Enter(q, place, Offer(r, back)) => SkipsNothing(q)
    <2>1. \A r, back : Offer(r, back).skipped = {}
      BY DEF Offer, NoJob
    <2> QED
      BY <2>1 DEF SkipsNothing
  <1>9. \A i : Retiring(j, i).skipped = j.skipped
    BY <1>2 DEF Retiring, Job
  <1>10. Made(j).skipped = j.skipped /\ \A i, m : At(Made(j), i, m).skipped = j.skipped
    BY <1>2 DEF Made, At, Job
  <1>11. UploadAsset(q) \/ RollbackAssetVersion(q) => SkipsNothing(q)
    <2> HIDE DEF NoJob
    <2> QED
      BY <1>4, <1>7 DEF UploadAsset, RollbackAssetVersion
  <1>12. CreateRow(q) => SkipsNothing(q)
    BY <1>1, <1>4, <1>10 DEF CreateRow, SkipsNothing
  <1>13. ReadUpload(q) => SkipsNothing(q) \/ LeftBehind'
    <2>1. \A m : [j EXCEPT !.mem = m].skipped = j.skipped
      BY <1>2 DEF Job
    <2>2. Fails("findObject") => LeftBehind'
      BY FailsLeaves DEF Leaving
    <2> QED
      BY <1>1, <1>9, <2>1, <2>2 DEF ReadUpload, SkipsNothing
  <1>14. PassUpload(q) \/ FailUpload(q) => SkipsNothing(q)
    <2>1. \A f \in BOOLEAN : /\ [j EXCEPT !.failed = f].skipped = j.skipped
                             /\ [j EXCEPT !.failed = f] \in Job
      BY <1>2 DEF Job
    <2>2. \A f \in BOOLEAN : Continue(q, [j EXCEPT !.failed = f]) => SkipsNothing(q)
      BY <1>1, <2>1, ContinueSkips
    <2>3. j.failed \in BOOLEAN
      BY <1>2 DEF Job
    <2>4. PassUpload(q) => SkipsNothing(q)
      BY <1>1, <2>2, <2>3 DEF PassUpload
    <2>5. FailUpload(q) => SkipsNothing(q)
      BY <1>1, <2>1, <2>2 DEF FailUpload, SkipsNothing
    <2> QED
      BY <2>4, <2>5
  <1>15. DiscardAssetVersion(q) \/ IngestAsset(q) => SkipsNothing(q)
    BY <1>8 DEF DiscardAssetVersion, IngestAsset
  <1>16. CountReferences(q) \/ RemoveStaged(q) \/ RetireRow(q) \/ ClearKey(q)
         \/ CheckVersions(q) \/ RetireAsset(q) => SkipsNothing(q)
    BY <1>1, <1>5, <1>6 DEF CountReferences, RemoveStaged, RetireRow, ClearKey, CheckVersions,
       RetireAsset
  <1>17. PromoteAsset(q) => SkipsNothing(q)
    <2>1. [j EXCEPT !.back = "end"].skipped = j.skipped
      BY <1>2 DEF Job
    <2> QED
      BY <1>1, <1>4, <1>6, <2>1 DEF PromoteAsset, SkipsNothing
  <1>18. UpdateAsset(q) \/ UpdateRow(q) => SkipsNothing(q)
    BY <1>1, <1>4, <1>6 DEF UpdateAsset, UpdateRow
  <1>19. NextVersion(q) => SkipsNothing(q)
    <2>1. \A v : [j EXCEPT !.mem.version = v].skipped = j.skipped
      BY <1>2 DEF Job
    <2> QED
      BY <1>1, <2>1 DEF NextVersion, SkipsNothing
  <1> QED
    BY <1>11, <1>12, <1>13, <1>14, <1>15, <1>16, <1>17, <1>18, <1>19

LEMMA SkippedAlways == Spec => []SkippedTold
  <1>1. Init => SkippedTold
    BY DEF Init, SkippedTold, NoJob
  <1>2. TypeInv /\ SkippedTold /\ [Next]_vars => SkippedTold'
    <2> SUFFICES ASSUME TypeInv, SkippedTold, [Next]_vars PROVE SkippedTold'
      OBVIOUS
    <2>1. CASE UNCHANGED vars
      BY <2>1 DEF vars, SkippedTold, LeftBehind
    <2>2. CASE Next
      <3>1. PICK q \in Requests : SkipsNothing(q) \/ LeftBehind'
        BY <2>2, StepSkips DEF Next
      <3>2. CASE LeftBehind'
        BY <3>2 DEF SkippedTold
      <3>3. CASE SkipsNothing(q)
        <4>1. PICK place, new : Enter(q, place, new) /\ new.skipped \in {job[q].skipped, {}}
          BY <3>3 DEF SkipsNothing
        <4>2. \A p \in Requests : job'[p] = (IF p = q THEN new ELSE job[p])
          BY <4>1 DEF TypeInv, JobsTyped, Enter
        <4> QED
          BY <4>1, <4>2, LeftStays DEF SkippedTold
      <3> QED
        BY <3>1, <3>2, <3>3
    <2> QED
      BY <2>1, <2>2
  <1>3. Spec => []TypeInv
    BY TypeAlways
  <1> QED
    BY <1>1, <1>2, <1>3, PTL DEF Spec

LEMMA CountReferencesFile ==
    ASSUME TypeInv, TypeInv', Kept, OwnInv, FileInv, NEW q \in Requests, CountReferences(q), ~LeftBehind'
    PROVE  FileInv'
  <1>1. PICK j, here : j = job[q] /\ here = pc[q]
    OBVIOUS
  <1>2. PICK place \in {"remove", "retire"} :
            /\ Enter(q, place, j)
            /\ place = "remove" => j.mem.key # NoKey /\ CountStorageKeyStaging(j.mem.key) = 1
    <2>1. ~Fails("count")
      BY FailsLeaves DEF Leaving
    <2> QED
      BY <1>1, <2>1 DEF CountReferences
  <1>3. rows' = rows /\ staging' = staging /\ here = "count" /\ here \in Discarding
    BY <1>1 DEF CountReferences, Discarding
  <1>4. place = "remove" => AllHeld(j)
    BY <1>1, <1>2, <1>3, OnlyReference
  <1>5. rows'[j.list[j.at]].bulk = j.mem.bulk
    BY <1>1, <1>3, DiscardingFile
  <1> QED
    BY <1>1, <1>2, <1>3, <1>4, <1>5, SameRowsFollow, SameRowsGoOn, SameFilesGoOn, EnterFile

LEMMA RemoveStagedFile ==
    ASSUME TypeInv, TypeInv', Kept, OwnInv, FileInv, NEW q \in Requests, RemoveStaged(q),
           ~LeftBehind'
    PROVE  FileInv'
  <1>1. PICK j, here, k : j = job[q] /\ here = pc[q] /\ k = j.mem.key
    OBVIOUS
  <1>2. Enter(q, "retire", j) /\ rows' = rows /\ here = "remove" /\ here \in Discarding
        /\ staging' = [staging EXCEPT ![k] = NoBits]
    <2>1. ~Fails("remove")
      BY FailsLeaves DEF Leaving
    <2> QED
      BY <1>1, <2>1 DEF RemoveStaged, Discarding
  <1>3. j.mem.bulk = rows[j.list[j.at]].bulk /\ Mine(here, j) /\ RowsTyped
    BY <1>1, <1>2, DiscardingFile
  <1>4. FilesGoOn("retire", j)
    <2>1. AllHeld(j)
      BY <1>2, <1>3 DEF Mine
    <2>2. Loses("retire", j)
      BY DEF Loses
    <2>3. ASSUME NEW s \in 1 .. Len(rows), Waits(rows[s]),
                 staging'[rows[s].key] # staging[rows[s].key]
          PROVE  Holds(j, s)
      <3>1. rows[s].key \in Keys
        BY <1>3, <2>3, RowsLength DEF Waits, Row, AssetVersion
      <3>2. rows[s].key = k
        BY <1>2, <2>3, <3>1 DEF TypeInv, StoreTyped
      <3> QED
        BY <1>1, <2>1, <2>3, <3>2 DEF AllHeld
    <2> QED
      BY <1>2, <2>2, <2>3 DEF FilesGoOn
  <1> QED
    BY <1>1, <1>2, <1>3, <1>4, SameRowsFollow, SameRowsGoOn, EnterFile

LEMMA RetireRowFile ==
    ASSUME TypeInv, TypeInv', Kept, OwnInv, FileInv, NEW q \in Requests, RetireRow(q),
           ~LeftBehind'
    PROVE  FileInv'
  <1>1. PICK j, here, r : j = job[q] /\ here = pc[q] /\ r = j.list[j.at]
    OBVIOUS
  <1>2. /\ Enter(q, "clear", j) /\ here = "retire" /\ here \in Discarding /\ staging' = staging
        /\ rows' = [rows EXCEPT ![r].retired = TRUE]
    <2>1. ~Fails("retire")
      BY FailsLeaves DEF Leaving
    <2> QED
      BY <1>1, <2>1 DEF RetireRow, Discarding
  <1>3. /\ r \in 1 .. Len(rows) /\ rows[r] \in Row /\ Holds(j, r) /\ j.mem.bulk = rows[r].bulk
    BY <1>1, <1>2, DiscardingFile
  <1>4. PICK x : x = [rows[r] EXCEPT !.retired = TRUE]
    OBVIOUS
  <1>5. /\ x \in Row /\ x.key = rows[r].key /\ x.bulk = rows[r].bulk /\ x.bits = rows[r].bits
        /\ x.ingested = rows[r].ingested /\ x.retired = TRUE
    BY <1>3, <1>4 DEF Row, AssetVersion
  <1>6. rows' = [rows EXCEPT ![r] = x] /\ Follows(x, rows[r])
    BY <1>2, <1>4, <1>5 DEF Follows, Waits
  <1>7. Len(rows) \in Nat /\ Len(rows') = Len(rows) /\ RowsFollow(here, j)
    BY <1>3, <1>5, <1>6, WrittenFollow
  <1>8. RowsGoOn(here, j) /\ rows'[r] = x
    BY <1>3, <1>5, <1>6, WrittenGoOn
  <1> QED
    BY <1>1, <1>2, <1>3, <1>5, <1>7, <1>8, SameFilesGoOn, EnterFile

LEMMA ClearKeyFile ==
    ASSUME TypeInv, TypeInv', Kept, OwnInv, FileInv, NEW q \in Requests, ClearKey(q)
    PROVE  FileInv'
  <1>1. PICK j, here, r : j = job[q] /\ here = pc[q] /\ r = j.list[j.at]
    OBVIOUS
  <1>2. here = "clear" /\ here \in Discarding /\ staging' = staging
    BY <1>1 DEF ClearKey, Discarding
  <1>3. /\ r \in 1 .. Len(rows) /\ j.mem \in Row /\ Holds(j, r) /\ j.mem.bulk = rows[r].bulk
        /\ j.mem.bits = rows[r].bits /\ rows[r].retired
    <2>1. CopyIs(here, j)
      BY <1>1, <1>2, DiscardingFile
    <2>2. rows[r].retired
      BY <1>1, <1>2, <2>1 DEF CopyIs
    <2> QED
      BY <1>1, <1>2, <2>2, DiscardingFile
  <1>4. CASE rows' = rows /\ Continue(q, j)
    BY <1>1, <1>2, <1>3, <1>4, SameRowsFollow, SameRowsGoOn, ContinueFile
  <1>5. CASE SaveRow(r, [j.mem EXCEPT !.key = NoKey]) /\ Enter(q, "check", j)
    <2>1. PICK m : m = [j.mem EXCEPT !.key = NoKey]
      OBVIOUS
    <2>2. m \in Row /\ m.key = NoKey /\ m.bulk = j.mem.bulk /\ m.bits = j.mem.bits
      BY <1>3, <2>1 DEF Row, AssetVersion
    <2>3. Len(rows) \in Nat /\ Len(rows') = Len(rows) /\ RowsFollow(here, j)
      BY <1>3, <1>5, <2>1, <2>2, SaveFollow
    <2>4. RowsGoOn(here, j) /\ rows'[r].retired = rows[r].retired /\ rows'[r].bulk = m.bulk
      <3>1. /\ SaveRow(r, m) /\ m.bulk = rows[r].bulk /\ m.bits = rows[r].bits
            /\ m.key \in {rows[r].key, NoKey}
        BY <1>3, <1>5, <2>1, <2>2
      <3> QED
        BY <1>3, <2>2, <3>1, SaveGoOn
    <2> QED
      BY <1>1, <1>2, <1>3, <1>5, <2>2, <2>3, <2>4, SameFilesGoOn, EnterFile
  <1> QED
    BY <1>1, <1>4, <1>5 DEF ClearKey

LEMMA CheckVersionsFile ==
    ASSUME TypeInv, TypeInv', Kept, OwnInv, FileInv, NEW q \in Requests, CheckVersions(q)
    PROVE  FileInv'
  <1>1. PICK j, here : j = job[q] /\ here = pc[q]
    OBVIOUS
  <1>2. here = "check" /\ here \in Discarding /\ staging' = staging /\ rows' = rows
    BY <1>1 DEF CheckVersions, Discarding
  <1>3. rows[j.list[j.at]].retired /\ j.mem.bulk = rows[j.list[j.at]].bulk
    <2>1. CopyIs(here, j)
      BY <1>1, <1>2, DiscardingFile
    <2> QED
      BY <1>2, <2>1 DEF CopyIs
  <1>4. CASE Continue(q, j)
    BY <1>1, <1>2, <1>3, <1>4, SameRowsFollow, SameRowsGoOn, ContinueFile
  <1>5. CASE Enter(q, "retireAsset", j)
    BY <1>1, <1>2, <1>3, <1>5, SameRowsFollow, SameRowsGoOn, SameFilesGoOn, EnterFile
  <1> QED
    BY <1>1, <1>4, <1>5 DEF CheckVersions

LEMMA RetireAssetFile ==
    ASSUME TypeInv, TypeInv', Kept, OwnInv, FileInv, NEW q \in Requests, RetireAsset(q)
    PROVE  FileInv'
  <1>1. PICK j, here : j = job[q] /\ here = pc[q]
    OBVIOUS
  <1>2. here = "retireAsset" /\ here \in Discarding /\ staging' = staging /\ rows' = rows
        /\ Continue(q, j)
    BY <1>1 DEF RetireAsset, Discarding
  <1>3. rows[j.list[j.at]].retired
    BY <1>1, <1>2, DiscardingFile DEF CopyIs
  <1> QED
    BY <1>1, <1>2, <1>3, SameRowsFollow, SameRowsGoOn, ContinueFile

(* What an ingesting request knows of the row at hand, its only one.       *)
Ingesting == {"promote"} \cup Promoted

LEMMA IngestingFile ==
    ASSUME TypeInv, Kept, FileInv, NEW q \in Requests, NEW here, here = pc[q],
           here \in Ingesting, NEW j, j = job[q]
    PROVE  LET x == rows[j.list[j.at]]
           IN  /\ JobTyped(here, j) /\ RowsTyped /\ j.at \in 1 .. Len(j.list) /\ j \in Job
               /\ j.list[j.at] \in 1 .. Len(rows) /\ Holds(j, j.list[j.at])
               /\ x \in Row /\ j.mem \in Row /\ j.mem.bulk = x.bulk /\ j.mem.bits = x.bits
               /\ ListKept(here, j) /\ CopyIs(here, j)
               /\ ~Several(j) /\ Len(j.list) = 1
               /\ \A s : Holds(j, s) => s = j.list[j.at]
               /\ here \in AtRow /\ here \in WithCopy
  <1>1. here \in AtRow /\ here \in WithCopy
    BY DEF WithCopy, AtRow, PCs, Ingesting, Promoted
  <1>2. /\ j.at \in 1 .. Len(j.list) /\ j.list[j.at] \in 1 .. Len(rows)
        /\ rows[j.list[j.at]] \in Row /\ j.mem \in Row /\ j \in Job
    BY <1>1, RowAt
  <1>3. JobTyped(here, j) /\ RowsTyped /\ Holds(j, j.list[j.at])
    BY <1>1, JobOf, HoldsAt
  <1>4. Mine(here, j)
    BY DEF FileInv
  <1>5. ListKept(here, j) /\ CopyIs(here, j)
    BY <1>1, <1>4 DEF Mine
  <1>6. ~Several(j) /\ Len(j.list) = 1
    BY <1>1, <1>5 DEF ListKept, Ingesting
  <1>7. j.mem.bits = rows[j.list[j.at]].bits /\ j.mem.bulk = rows[j.list[j.at]].bulk
    BY <1>1, <1>5 DEF Kept, JobKept, CopyKept, CopyIs
  <1>8. \A s : Holds(j, s) => s = j.list[j.at]
    BY <1>2, <1>6 DEF Holds
  <1> QED
    BY <1>1, <1>2, <1>3, <1>5, <1>6, <1>7, <1>8

(* A request that ends with nothing of several rows, and with none whose   *)
(* file it has taken.                                                      *)
LEMMA FinishFile ==
    ASSUME TypeInv, TypeInv', Kept, OwnInv, FileInv, NEW q \in Requests, Finish(q),
           NEW here, here = pc[q], NEW j, j = job[q], RowsFollow(here, j), RowsGoOn(here, j),
           \A s \in 1 .. Len(rows) : Holds(j, s) /\ Waits(rows'[s]) => ~Loses(here, j),
           ~Several(j), \A s \in 1 .. Len(rows') : s > Len(rows) => ~rows'[s].bulk,
           FilesGoOn("idle", NoJob)
    PROVE  FileInv'
  <1>1. Enter(q, "idle", NoJob)
    BY DEF Finish
  <1>2. JobGoesOn(here, j, "idle", NoJob)
    BY DEF JobGoesOn
  <1> QED
    BY <1>1, <1>2, NoJobMine, StepFile

LEMMA PromoteAssetFile ==
    ASSUME TypeInv, TypeInv', Kept, OwnInv, FileInv, NEW q \in Requests, PromoteAsset(q)
    PROVE  FileInv'
  <1>1. PICK j, here, r, k : j = job[q] /\ here = pc[q] /\ r = j.list[j.at] /\ k = j.mem.key
    OBVIOUS
  <1>2. here = "promote" /\ here \in Ingesting /\ rows' = rows
    BY <1>1 DEF PromoteAsset, Ingesting
  <1>3. /\ JobTyped(here, j) /\ RowsTyped /\ ListKept(here, j) /\ CopyIs(here, j) /\ ~Several(j)
        /\ Len(j.list) = 1 /\ \A s : Holds(j, s) => s = r
    BY <1>1, <1>2, IngestingFile
  <1>4. /\ r \in 1 .. Len(rows) /\ Holds(j, r) /\ rows[r] \in Row /\ j.mem.bulk = rows[r].bulk
        /\ j \in Job
    BY <1>1, <1>2, IngestingFile
  <1>5. /\ k = rows[r].key /\ ~rows[r].retired
        /\ rows[r].bulk => rows[r].ingested = "false"
    BY <1>1, <1>2, <1>3 DEF CopyIs
  <1>6. RowsFollow(here, j) /\ RowsGoOn(here, j) /\ Len(rows) \in Nat /\ Len(rows') = Len(rows)
    BY <1>2, SameRowsFollow, SameRowsGoOn
  <1>7. ~Loses(here, j)
    BY <1>2, <1>3 DEF Loses, Several, Promoted
  <1>8. CASE Finish(q) /\ staging' = staging
    BY <1>1, <1>3, <1>6, <1>7, <1>8, SameFilesGoOn, FinishFile
  <1>9. CASE ~j.mem.bulk /\ PromoteStagedAsset(j.mem) /\ Enter(q, "updateAsset", j)
             /\ k # NoKey
    <2>1. ListKept("updateAsset", j)'
      BY <1>2, <1>3 DEF ListKept, Owner, Several
    <2>2. CopyIs("updateAsset", j)'
      BY <1>2, <1>3 DEF CopyIs
    <2>3. Mine("updateAsset", j)'
      BY <2>1, <2>2 DEF Mine
    <2>4. JobGoesOn(here, j, "updateAsset", j)
      BY <1>6, <1>7 DEF JobGoesOn
    <2>5. FilesGoOn("updateAsset", j)
      <3>1. Loses("updateAsset", j)
        BY DEF Loses, Promoted
      <3>2. ASSUME NEW s \in 1 .. Len(rows), Waits(rows[s]),
                   staging'[rows[s].key] # staging[rows[s].key]
            PROVE  Holds(j, s)
        <4>1. rows[s].key \in Keys
          BY <1>3, <3>2, RowsLength DEF Waits, Row, AssetVersion
        <4>2. staging' = [staging EXCEPT ![k] = NoBits]
          BY <1>1, <1>9 DEF PromoteStagedAsset
        <4>3. rows[s].key = k
          BY <3>2, <4>1, <4>2 DEF TypeInv, StoreTyped
        <4>4. ~rows[r].bulk
          BY <1>4, <1>9
        <4>5. s = r
          BY <1>4, <1>5, <1>9, <4>3, <4>4 DEF FileInv, Shared
        <4> QED
          BY <1>4, <4>5
      <3> QED
        BY <1>2, <3>1, <3>2 DEF FilesGoOn
    <2> QED
      BY <1>1, <1>6, <1>9, <2>3, <2>4, <2>5, StepFile
  <1>10. CASE j.mem.bulk /\ Enter(q, "count", [j EXCEPT !.back = "end"]) /\ staging' = staging
    <2>1. PICK new : new = [j EXCEPT !.back = "end"]
      OBVIOUS
    <2>2. new.key = j.key /\ new.mem = j.mem /\ new.list = j.list /\ new.back = "end"
          /\ new.at = j.at
      BY <1>4, <2>1 DEF Job
    <2>3. ListKept("count", new)'
      BY <1>2, <1>3, <2>2 DEF ListKept, Owner, Several, Promoted
    <2>4. CopyIs("count", new)'
      BY <1>1, <1>2, <1>4, <1>5, <1>10, <2>2 DEF CopyIs, Several
    <2>5. Mine("count", new)'
      BY <2>3, <2>4 DEF Mine
    <2>6. JobGoesOn(here, j, "count", new)
      BY <1>3, <1>6, <1>7 DEF JobGoesOn
    <2> QED
      BY <1>1, <1>6, <1>10, <2>1, <2>5, <2>6, SameFilesGoOn, StepFile
  <1> QED
    BY <1>1, <1>8, <1>9, <1>10 DEF PromoteAsset

LEMMA UpdateAssetFile ==
    ASSUME TypeInv, TypeInv', Kept, OwnInv, FileInv, NEW q \in Requests, UpdateAsset(q),
           "updateAsset" \notin FailSteps
    PROVE  FileInv'
  <1>1. PICK j, here : j = job[q] /\ here = pc[q]
    OBVIOUS
  <1>2. /\ here = "updateAsset" /\ here \in Ingesting /\ rows' = rows /\ staging' = staging
        /\ Enter(q, "nextVersion", j)
    BY <1>1 DEF UpdateAsset, Ingesting, Promoted, Fails
  <1>3. ListKept(here, j) /\ CopyIs(here, j) /\ ~Several(j) /\ Len(j.list) = 1
    BY <1>1, <1>2, IngestingFile
  <1>4. RowsFollow(here, j) /\ RowsGoOn(here, j) /\ Len(rows) \in Nat /\ Len(rows') = Len(rows)
    BY <1>2, SameRowsFollow, SameRowsGoOn
  <1>5. ListKept("nextVersion", j)'
    BY <1>2, <1>3 DEF ListKept, Owner, Several
  <1>6. CopyIs("nextVersion", j)'
    BY <1>2, <1>3 DEF CopyIs
  <1>7. Mine("nextVersion", j)'
    BY <1>5, <1>6 DEF Mine
  <1>8. JobGoesOn(here, j, "nextVersion", j)
    BY <1>3, <1>4 DEF JobGoesOn, Loses, Promoted
  <1> QED
    BY <1>1, <1>2, <1>4, <1>7, <1>8, SameFilesGoOn, StepFile

LEMMA NextVersionFile ==
    ASSUME TypeInv, TypeInv', Kept, OwnInv, FileInv, NEW q \in Requests, NextVersion(q)
    PROVE  FileInv'
  <1>1. PICK j, here : j = job[q] /\ here = pc[q]
    OBVIOUS
  <1>2. here = "nextVersion" /\ here \in Ingesting /\ rows' = rows /\ staging' = staging
    BY <1>1 DEF NextVersion, Ingesting, Promoted
  <1>3. /\ ListKept(here, j) /\ CopyIs(here, j) /\ ~Several(j) /\ Len(j.list) = 1
        /\ j \in Job /\ j.mem \in Row
    BY <1>1, <1>2, IngestingFile
  <1>4. PICK v : Enter(q, "updateRow", [j EXCEPT !.mem.version = v])
    BY <1>1 DEF NextVersion
  <1>5. PICK new : new = [j EXCEPT !.mem.version = v]
    OBVIOUS
  <1>6. new.key = j.key /\ new.list = j.list /\ new.back = j.back /\ new.at = j.at
    BY <1>3, <1>5 DEF Job
  <1>7. new.mem.key = j.mem.key /\ new.mem.bulk = j.mem.bulk
    <2>1. new.mem = [j.mem EXCEPT !.version = v]
      BY <1>3, <1>5 DEF Job
    <2> QED
      BY <1>3, <2>1 DEF Row, AssetVersion
  <1>8. RowsFollow(here, j) /\ RowsGoOn(here, j) /\ Len(rows) \in Nat /\ Len(rows') = Len(rows)
    BY <1>2, SameRowsFollow, SameRowsGoOn
  <1>9. ListKept("updateRow", new)'
    BY <1>2, <1>3, <1>6 DEF ListKept, Owner, Several
  <1>10. CopyIs("updateRow", new)'
    BY <1>2, <1>3, <1>6, <1>7 DEF CopyIs, Several
  <1>11. Mine("updateRow", new)'
    BY <1>9, <1>10 DEF Mine
  <1>12. JobGoesOn(here, j, "updateRow", new)
    BY <1>3, <1>6, <1>8 DEF JobGoesOn, Loses, Promoted, Holds
  <1> QED
    BY <1>1, <1>2, <1>4, <1>5, <1>8, <1>11, <1>12, SameFilesGoOn, StepFile

LEMMA UpdateRowFile ==
    ASSUME TypeInv, TypeInv', Kept, OwnInv, FileInv, NEW q \in Requests, UpdateRow(q),
           "updateRow" \notin FailSteps
    PROVE  FileInv'
  <1>1. PICK j, here, r : j = job[q] /\ here = pc[q] /\ r = j.list[j.at]
    OBVIOUS
  <1>2. /\ here = "updateRow" /\ here \in Ingesting /\ staging' = staging /\ Finish(q)
        /\ SaveRow(r, [j.mem EXCEPT !.ingested = "true", !.key = NoKey])
    BY <1>1 DEF UpdateRow, Ingesting, Promoted, Fails
  <1>3. /\ r \in 1 .. Len(rows) /\ Holds(j, r) /\ rows[r] \in Row /\ j.mem \in Row
        /\ j.mem.bulk = rows[r].bulk /\ j.mem.bits = rows[r].bits /\ ~Several(j)
        /\ \A s : Holds(j, s) => s = r
    BY <1>1, <1>2, IngestingFile
  <1>4. j.mem.version > 0
    <2>1. JobTyped(here, j)
      BY <1>1, JobOf
    <2> QED
      BY <1>2, <2>1 DEF JobTyped
  <1>5. PICK m : m = [j.mem EXCEPT !.ingested = "true", !.key = NoKey]
    OBVIOUS
  <1>6. /\ m \in Row /\ m.key = NoKey /\ m.ingested = "true"
        /\ m.bulk = j.mem.bulk /\ m.bits = j.mem.bits
    BY <1>3, <1>4, <1>5 DEF Row, AssetVersion, Ingestions
  <1>7. Len(rows) \in Nat /\ Len(rows') = Len(rows) /\ RowsFollow(here, j)
    BY <1>2, <1>3, <1>5, <1>6, SaveFollow
  <1>8. RowsGoOn(here, j) /\ rows'[r].ingested = "true"
    <2>1. /\ SaveRow(r, m) /\ m.bulk = rows[r].bulk /\ m.bits = rows[r].bits
          /\ m.key \in {rows[r].key, NoKey}
      BY <1>2, <1>3, <1>5, <1>6
    <2> QED
      BY <1>3, <1>6, <2>1, SaveGoOn
  <1>9. \A s \in 1 .. Len(rows) : Holds(j, s) /\ Waits(rows'[s]) => ~Loses(here, j)
    BY <1>3, <1>8 DEF Waits
  <1>10. \A s \in 1 .. Len(rows') : s > Len(rows) => ~rows'[s].bulk
    BY <1>7
  <1>11. FilesGoOn("idle", NoJob)
    BY <1>2, SameFilesGoOn
  <1>12. RowsFollow(here, j) /\ RowsGoOn(here, j) /\ ~Several(j) /\ Finish(q)
    BY <1>2, <1>3, <1>7, <1>8
  <1> HIDE DEF NoJob
  <1> QED
    BY <1>1, <1>9, <1>10, <1>11, <1>12, FinishFile

(* A request that starts holds nothing.                                    *)
LEMMA StartGoesOn ==
    ASSUME TypeInv, rows' = rows, NEW q \in Requests, pc[q] = "idle"
    PROVE  \A place, new : JobGoesOn(pc[q], job[q], place, new)
  <1>1. job[q] = NoJob
    BY DEF TypeInv, JobsTyped, JobTyped
  <1>2. \A s : ~Holds(NoJob, s)
    BY DEF Holds, NoJob
  <1>3. Len(rows) \in Nat
    BY SameRowsFollow
  <1> HIDE DEF NoJob
  <1> QED
    BY <1>1, <1>2, <1>3 DEF JobGoesOn

LEMMA OfferFile ==
    ASSUME TypeInv, TypeInv', Kept, OwnInv, FileInv, NEW q \in Requests, pc[q] = "idle",
           NEW place \in {"count", "promote"}, NEW back \in {"ingest", "end"},
           NEW r \in DOMAIN rows, Listed(r), Enter(q, place, Offer(r, back)),
           UNCHANGED <<rows, staging>>
    PROVE  FileInv'
  <1>1. PICK new : new = Offer(r, back)
    OBVIOUS
  <1>2. /\ new.list = <<r>> /\ new.mem = rows[r] /\ new.at = 1 /\ new.back = back
        /\ new.key = NoKey /\ new.todo = <<>>
    BY <1>1, OfferedType DEF TypeInv
  <1>3. Len(new.list) = 1 /\ new.list[1] = r
    BY <1>2
  <1>4. ListKept(place, new)'
    BY <1>2, <1>3 DEF ListKept, Owner, Several
  <1>5. CopyIs(place, new)'
    BY <1>2, <1>3 DEF CopyIs, Several, Listed
  <1>6. Mine(place, new)'
    BY <1>4, <1>5 DEF Mine
  <1> QED
    BY <1>1, <1>6, StartGoesOn, SameRowsFollow, SameRowsGoOn, SameFilesGoOn, StepFile

LEMMA DiscardAssetVersionFile ==
    ASSUME TypeInv, TypeInv', Kept, OwnInv, FileInv, NEW q \in Requests, DiscardAssetVersion(q)
    PROVE  FileInv'
  BY OfferFile DEF DiscardAssetVersion, MayStart

LEMMA IngestAssetFile ==
    ASSUME TypeInv, TypeInv', Kept, OwnInv, FileInv, NEW q \in Requests, IngestAsset(q)
    PROVE  FileInv'
  BY OfferFile DEF IngestAsset, MayStart

(* A file that is new is no row's.                                         *)
LEMMA NewFileGoesOn ==
    ASSUME TypeInv, Kept, NEW b, rows' = rows, staging' = [staging EXCEPT ![uploads + 1] = b]
    PROVE  \A place, new : FilesGoOn(place, new)
  <1>1. uploads \in Nat /\ Len(rows) \in Nat /\ staging \in [Keys -> Bits \cup {NoBits}]
    BY UploadsNat, SameRowsFollow DEF TypeInv, StoreTyped
  <1>2. ASSUME NEW s \in 1 .. Len(rows), Waits(rows[s])
        PROVE  staging'[rows[s].key] = staging[rows[s].key]
    <2>1. rows[s] \in Row /\ RowKept(rows[s])
      BY <1>1, RowsLength DEF TypeInv, Kept, RowsKept
    <2>2. rows[s].key \in Keys /\ rows[s].key \in Nat /\ rows[s].key <= uploads
      BY <1>2, <2>1, ConstantsAssumption DEF Waits, Row, AssetVersion, RowKept, KeyOk, Keys
    <2> QED
      BY <1>1, <2>2
  <1> QED
    BY <1>1, <1>2 DEF FilesGoOn

LEMMA UploadFile ==
    ASSUME TypeInv, TypeInv', Kept, OwnInv, FileInv, NEW q \in Requests, pc[q] = "idle",
           NEW list, NEW bulk, NEW b \in Bits, NEW back,
           bulk => back = "validate", ~bulk => Len(list) = 1,
           back # "retire", staging' = [staging EXCEPT ![uploads + 1] = b], rows' = rows,
           Enter(q, "create", Upload(list, bulk, uploads + 1, b, back))
    PROVE  FileInv'
  <1>1. PICK j, here, new : /\ j = job[q] /\ here = pc[q]
                            /\ new = Upload(list, bulk, uploads + 1, b, back)
    OBVIOUS
  <1>2. /\ new.list = <<>> /\ Len(<<>>) = 0 /\ new.bulk = bulk /\ new.back = back
        /\ new.todo = list
    BY <1>1 DEF Upload, NoJob
  <1>3. ListKept("create", new)'
    BY <1>2 DEF ListKept, Several, Owner, AtRow, Promoted
  <1>4. Mine("create", new)'
    BY <1>3 DEF Mine, WithCopy, AtRow
  <1>5. FilesGoOn("create", new)
    BY NewFileGoesOn
  <1>6. RowsFollow(here, j) /\ RowsGoOn(here, j) /\ JobGoesOn(here, j, "create", new)
    BY <1>1, SameRowsFollow, SameRowsGoOn, StartGoesOn
  <1> QED
    BY <1>1, <1>4, <1>5, <1>6, StepFile

LEMMA UploadAssetFile ==
    ASSUME TypeInv, TypeInv', Kept, OwnInv, FileInv, NEW q \in Requests, UploadAsset(q)
    PROVE  FileInv'
  <1>1. PICK list \in {<<a>> : a \in Assets} \cup Bulks, b \in Bits :
            /\ staging' = [staging EXCEPT ![uploads + 1] = b]
            /\ Enter(q, "create", Upload(list, list \in Bulks, uploads + 1, b, "validate"))
    BY DEF UploadAsset
  <1>2. PICK bulk : bulk = (list \in Bulks)
    OBVIOUS
  <1>3. list \in Bulks \/ Len(list) = 1
    <2>1. list \in {<<a>> : a \in Assets} => Len(list) = 1
      OBVIOUS
    <2> QED
      BY <2>1
  <1>4. pc[q] = "idle" /\ rows' = rows
    BY DEF UploadAsset, MayStart
  <1> QED
    BY <1>1, <1>2, <1>3, <1>4, UploadFile

LEMMA RollbackAssetVersionFile ==
    ASSUME TypeInv, TypeInv', Kept, OwnInv, FileInv, NEW q \in Requests,
           RollbackAssetVersion(q)
    PROVE  FileInv'
  <1>1. PICK r \in DOMAIN rows :
            /\ staging' = [staging EXCEPT ![uploads + 1] = ReadAsset(r)]
            /\ IF ReadAsset(r) = rows[r].bits
               THEN Enter(q, "create", Upload(<<rows[r].asset>>, FALSE, uploads + 1, rows[r].bits,
                                              IF rows[r].asset \in stored THEN "ingest" ELSE "end"))
               ELSE Finish(q)
    BY DEF RollbackAssetVersion
  <1>2. pc[q] = "idle" /\ rows' = rows
    BY DEF RollbackAssetVersion, MayStart
  <1>3. CASE ReadAsset(r) = rows[r].bits
    <2>1. PICK b, back, list : /\ b = rows[r].bits
                               /\ back = IF rows[r].asset \in stored THEN "ingest" ELSE "end"
                               /\ list = <<rows[r].asset>>
      OBVIOUS
    <2>2. b \in Bits
      BY <2>1, RowsLength DEF TypeInv, Row, AssetVersion
    <2>3. staging' = [staging EXCEPT ![uploads + 1] = b]
          /\ Enter(q, "create", Upload(list, FALSE, uploads + 1, b, back))
      BY <1>1, <1>3, <2>1
    <2>4. Len(list) = 1 /\ back # "retire"
      BY <2>1
    <2> QED
      BY <1>2, <2>2, <2>3, <2>4, UploadFile
  <1>4. CASE Finish(q)
    <2>1. PICK j, here : j = job[q] /\ here = pc[q]
      OBVIOUS
    <2>2. FilesGoOn("idle", NoJob)
      BY <1>1, <1>2, NewFileGoesOn
    <2>3. Enter(q, "idle", NoJob)
      BY <1>4 DEF Finish
    <2>4. RowsFollow(here, j) /\ RowsGoOn(here, j) /\ JobGoesOn(here, j, "idle", NoJob)
      BY <1>2, <2>1, SameRowsFollow, SameRowsGoOn, StartGoesOn
    <2>5. Mine("idle", NoJob)'
      BY NoJobMine
    <2> HIDE DEF NoJob
    <2> QED
      BY <2>1, <2>2, <2>3, <2>4, <2>5, StepFile
  <1> QED
    BY <1>1, <1>3, <1>4

LEMMA CreateRowFile ==
    ASSUME TypeInv, TypeInv', Kept, OwnInv, FileInv, NEW q \in Requests, CreateRow(q),
           ~LeftBehind'
    PROVE  FileInv'
  <1>1. PICK j, here : j = job[q] /\ here = pc[q]
    OBVIOUS
  <1>2. PICK row, made : row = NewRow(Head(j.todo), j.key, j.bits, j.bulk)
                         /\ made = Made(j)
    OBVIOUS
  <1>3. JobTyped("create", j) /\ RowsTyped /\ here = "create" /\ ListKept("create", j)
    BY <1>1, JobOf DEF CreateRow, FileInv, Mine
  <1>4. /\ staging' = staging /\ rows' = Append(rows, row)
        /\ \/ made.todo # <<>> /\ Enter(q, "create", made)
           \/ j.back = "validate" /\ Enter(q, "validate", At(made, 1, NoRow))
           \/ j.back = "ingest" /\ Enter(q, "promote", At(made, 1, row))
           \/ j.back = "end" /\ Finish(q)
    <2>1. ~Fails("createRow") /\ ~Fails("storeMetadata")
      BY FailsLeaves DEF Leaving
    <2> QED
      BY <1>1, <1>2, <2>1 DEF CreateRow
  <1>5. /\ j.todo \in Seq(Assets) /\ j.todo # <<>> /\ j.bulk \in BOOLEAN /\ j.key \in Keys
        /\ j.bits \in Bits /\ Head(j.todo) \in Assets /\ j \in Job /\ j.back # "retire"
    BY <1>3, HeadTailProperties DEF JobTyped, Job
  <1>6. row \in Row /\ row.key = j.key /\ row.bulk = j.bulk /\ row.bits = j.bits /\ ~row.retired
    BY <1>2, <1>5, NewRowType, NewRowFields DEF NewRow
  <1>7. /\ Len(rows) \in Nat /\ Len(rows') = Len(rows) + 1 /\ rows'[Len(rows) + 1] = row
        /\ \A r \in 1 .. Len(rows) : rows'[r] = rows[r]
    BY <1>3, <1>4, <1>6, AppendedRows
  <1>8. /\ made.todo = Tail(j.todo)
        /\ Len(j.list) \in Nat /\ Len(made.list) = Len(j.list) + 1
        /\ \A i \in 1 .. Len(j.list) : made.list[i] = j.list[i]
        /\ made.list[Len(j.list) + 1] = Len(rows) + 1
        /\ made.key = j.key /\ made.bulk = j.bulk /\ made.back = j.back
        /\ made.failed = j.failed /\ made \in Job
    BY <1>2, <1>3, MadeType
  <1>9. \A i \in 1 .. Len(j.list) : j.list[i] \in 1 .. Len(rows)
    BY <1>3 DEF JobTyped, Held
  <1>10. RowsFollow(here, j)
    BY <1>3, <1>6, <1>7 DEF RowsFollow
  <1>11. RowsGoOn(here, j)
    <2>1. \A r \in 1 .. Len(rows) : Follows(rows'[r], rows[r])
      BY <1>7 DEF Follows
    <2>2. \A r \in 1 .. Len(rows') : r > Len(rows) => r = Len(rows) + 1
      BY <1>7
    <2> QED
      BY <1>3, <1>6, <1>7, <2>1, <2>2 DEF RowsGoOn
  <1>12. FilesGoOn("create", made)
    BY <1>4, SameFilesGoOn
  <1>13. (j.bulk => Several(j)) /\ (~j.bulk => Len(j.list) = 0 /\ Len(j.todo) = 1)
    BY <1>3 DEF ListKept, Owner
  <1>14. ~j.bulk => made.todo = <<>>
    <2>1. Len(Tail(j.todo)) = Len(j.todo) - 1 /\ Tail(j.todo) \in Seq(Assets)
      BY <1>5, HeadTailProperties
    <2>2. ASSUME ~j.bulk PROVE Len(Tail(j.todo)) = 0
      BY <1>13, <2>1, <2>2
    <2>3. ~j.bulk => Tail(j.todo) = <<>>
      BY <2>1, <2>2, EmptySeq
    <2> QED
      BY <1>8, <2>3
  <1>15. \A i \in 1 .. Len(made.list) : /\ rows'[made.list[i]].key \in {j.key, NoKey}
                                        /\ rows'[made.list[i]].bulk = j.bulk
    <2> SUFFICES ASSUME NEW i \in 1 .. Len(made.list)
                 PROVE  /\ rows'[made.list[i]].key \in {j.key, NoKey}
                        /\ rows'[made.list[i]].bulk = j.bulk
      OBVIOUS
    <2>1. CASE i \in 1 .. Len(j.list)
      <3>1. rows'[made.list[i]] = rows[j.list[i]]
        BY <1>7, <1>8, <1>9, <2>1
      <3> QED
        BY <1>3, <2>1, <3>1 DEF ListKept, Owner
    <2>2. CASE i = Len(j.list) + 1
      BY <1>6, <1>7, <1>8, <2>2
    <2> QED
      BY <1>8, <2>1, <2>2
  <1>16. ASSUME NEW new, new.list = made.list, new.back = j.back, new.failed = j.failed,
                NEW place, Several(j)
         PROVE  JobGoesOn(here, j, place, new)
    <2>1. 1 .. Len(j.list) \subseteq 1 .. Len(made.list) /\ Len(j.list) + 1 \in 1 .. Len(made.list)
      BY <1>8
    <2>2. \A s : Holds(j, s) => Holds(new, s)
      BY <1>8, <1>16, <2>1 DEF Holds
    <2>3. Holds(new, Len(rows) + 1)
      BY <1>8, <1>16, <2>1 DEF Holds
    <2>4. \A s \in 1 .. Len(rows') : s > Len(rows) => s = Len(rows) + 1
      BY <1>7
    <2>5. Loses(here, j) => Loses(place, new)
      BY <1>3, <1>16 DEF Loses, Promoted
    <2>6. Several(new)
      BY <1>16 DEF Several
    <2> QED
      BY <2>2, <2>3, <2>4, <2>5, <2>6 DEF JobGoesOn
  <1>17. ASSUME ~j.bulk PROVE \A place, new : JobGoesOn(here, j, place, new)
    <2>1. \A s : ~Holds(j, s)
      BY <1>13, <1>17 DEF Holds
    <2>2. \A s \in 1 .. Len(rows') : s > Len(rows) => ~rows'[s].bulk
      <3>1. \A s \in 1 .. Len(rows') : s > Len(rows) => s = Len(rows) + 1
        BY <1>7
      <3> QED
        BY <1>6, <1>7, <1>17, <3>1
    <2> QED
      BY <2>1, <2>2 DEF JobGoesOn
  <1>18. CASE made.todo # <<>> /\ Enter(q, "create", made)
    <2>1. j.bulk /\ Several(j)
      BY <1>13, <1>14, <1>18
    <2>2. ListKept("create", made)'
      BY <1>5, <1>8, <1>15, <2>1 DEF ListKept, Several, AtRow, Promoted
    <2>3. Mine("create", made)'
      BY <2>2 DEF Mine, WithCopy, AtRow
    <2>4. JobGoesOn(here, j, "create", made)
      BY <1>8, <1>16, <2>1
    <2> QED
      BY <1>1, <1>10, <1>11, <1>12, <1>18, <2>3, <2>4, StepFile
  <1>19. CASE j.back = "validate" /\ Enter(q, "validate", At(made, 1, NoRow))
    <2>1. PICK new : new = At(made, 1, NoRow)
      OBVIOUS
    <2>2. /\ new.list = made.list /\ new.key = j.key /\ new.bulk = j.bulk
          /\ new.back = j.back /\ new.failed = j.failed
      <3>1. NoRow \in AssetVersion \cup {NoRow} /\ 1 \in Nat
        OBVIOUS
      <3> QED
        BY <1>8, <2>1, <3>1, AtType
    <2>3. ListKept("validate", new)'
      BY <1>15, <1>19, <2>2 DEF ListKept, Several, Promoted
    <2>4. Mine("validate", new)'
      BY <2>3 DEF Mine, WithCopy
    <2>5. JobGoesOn(here, j, "validate", new)
      BY <1>16, <1>19, <2>2 DEF Several
    <2>6. FilesGoOn("validate", new)
      BY <1>4, SameFilesGoOn
    <2> QED
      BY <1>1, <1>10, <1>11, <1>19, <2>1, <2>4, <2>5, <2>6, StepFile
  <1>20. CASE j.back = "ingest" /\ Enter(q, "promote", At(made, 1, row))
    <2>1. PICK new : new = At(made, 1, row)
      OBVIOUS
    <2>2. /\ new.list = made.list /\ new.key = j.key /\ new.bulk = j.bulk
          /\ new.back = j.back /\ new.at = 1 /\ new.mem = row
      <3>1. row \in AssetVersion \cup {NoRow} /\ 1 \in Nat
        BY <1>6 DEF Row
      <3> QED
        BY <1>8, <2>1, <3>1, AtType
    <2>3. ~j.bulk /\ Len(j.list) = 0
      BY <1>13, <1>20 DEF Several
    <2>4. Len(new.list) = 1 /\ new.list[1] = Len(rows) + 1
      BY <1>8, <2>2, <2>3
    <2>5. ListKept("promote", new)'
      BY <1>20, <2>2, <2>4 DEF ListKept, Several, Owner
    <2>6. CopyIs("promote", new)'
      BY <1>6, <1>7, <1>20, <2>2, <2>3, <2>4 DEF CopyIs, Several
    <2>7. Mine("promote", new)'
      BY <2>5, <2>6 DEF Mine
    <2>8. FilesGoOn("promote", new) /\ JobGoesOn(here, j, "promote", new)
      BY <1>4, <1>17, <2>3, SameFilesGoOn
    <2> QED
      BY <1>1, <1>10, <1>11, <1>20, <2>1, <2>7, <2>8, StepFile
  <1>21. CASE j.back = "end" /\ Finish(q)
    <2>1. Enter(q, "idle", NoJob)
      BY <1>21 DEF Finish
    <2>2. JobGoesOn(here, j, "idle", NoJob) /\ FilesGoOn("idle", NoJob)
      <3>1. ~j.bulk
        BY <1>13, <1>21 DEF Several
      <3> QED
        BY <1>4, <1>17, <3>1, SameFilesGoOn
    <2>3. Mine("idle", NoJob)'
      BY NoJobMine
    <2> HIDE DEF NoJob
    <2> QED
      BY <1>1, <1>10, <1>11, <2>1, <2>2, <2>3, StepFile
  <1> QED
    BY <1>4, <1>18, <1>19, <1>20, <1>21

(* What an upload that validates knows of its rows.                        *)
LEMMA ValidatingFile ==
    ASSUME TypeInv, Kept, OwnInv, FileInv, NEW q \in Requests, NEW here, here = pc[q],
           here \in {"validate", "verdict"}, NEW j, j = job[q]
    PROVE  LET x == rows[j.list[j.at]]
           IN  /\ JobTyped(here, j) /\ RowsTyped /\ j.at \in 1 .. Len(j.list) /\ j \in Job
               /\ j.list[j.at] \in 1 .. Len(rows) /\ x \in Row
               /\ x.key \in {j.key, NoKey} /\ x.bulk = j.bulk /\ x.ingested # "true"
               /\ ListKept(here, j) /\ j.back = "validate" /\ j.key \in Keys /\ j.bits \in Bits
               /\ here = "verdict" => j.mem = x
  <1>1. here \in AtRow
    BY DEF AtRow, PCs
  <1>2. /\ j.at \in 1 .. Len(j.list) /\ j.list[j.at] \in 1 .. Len(rows)
        /\ rows[j.list[j.at]] \in Row /\ j \in Job
    BY <1>1, RowAt
  <1>3. JobTyped(here, j) /\ RowsTyped
    BY JobOf
  <1>4. j.back = "validate" /\ j.key \in Keys /\ j.bits \in Bits
    BY <1>3 DEF JobTyped
  <1>5. Mine(here, j) /\ Own(here, j) /\ HeldKept(j)
    BY DEF FileInv, OwnInv, Kept, JobKept
  <1>6. ListKept(here, j)
    BY <1>5 DEF Mine
  <1>7. rows[j.list[j.at]].key \in {j.key, NoKey} /\ rows[j.list[j.at]].bulk = j.bulk
    BY <1>2, <1>4, <1>6 DEF ListKept, Owner
  <1> QED
    BY <1>2, <1>3, <1>4, <1>5, <1>6, <1>7 DEF Own, HeldKept

LEMMA FailUploadFile ==
    ASSUME TypeInv, TypeInv', Kept, OwnInv, FileInv, NEW q \in Requests, FailUpload(q)
    PROVE  FileInv'
  <1>1. PICK j, here : j = job[q] /\ here = pc[q]
    OBVIOUS
  <1>2. PICK new : new = [j EXCEPT !.failed = TRUE]
    OBVIOUS
  <1>3. here = "verdict" /\ here \in {"validate", "verdict"} /\ rows' = rows
        /\ staging' = staging
    BY <1>1 DEF FailUpload
  <1>4. /\ j \in Job /\ ListKept(here, j) /\ j.back = "validate" /\ j.mem.ingested # "true"
        /\ j.mem.key \in {j.key, NoKey} /\ j.mem.bulk = rows[j.list[j.at]].bulk
    <2>1. PICK x : x = rows[j.list[j.at]]
      OBVIOUS
    <2>2. /\ j \in Job /\ ListKept(here, j) /\ j.back = "validate" /\ x.ingested # "true"
          /\ x.key \in {j.key, NoKey} /\ j.mem = x
      BY <1>1, <1>3, <2>1, ValidatingFile
    <2> QED
      BY <2>1, <2>2
  <1>5. /\ new.list = j.list /\ new.mem = j.mem /\ new.key = j.key /\ new.back = j.back
        /\ new.failed = TRUE /\ new.at = j.at /\ new.bulk = j.bulk
    BY <1>2, <1>4 DEF Job
  <1>6. Enter(q, "count", new)
    BY <1>1, <1>2, <1>4 DEF FailUpload
  <1>7. ListKept("count", new)'
    BY <1>3, <1>4, <1>5 DEF ListKept, Owner, Several, Promoted
  <1>8. CopyIs("count", new)'
    BY <1>3, <1>4, <1>5 DEF CopyIs, Several
  <1>9. Mine("count", new)'
    BY <1>7, <1>8 DEF Mine
  <1>10. RowsFollow(here, j) /\ RowsGoOn(here, j) /\ Len(rows') = Len(rows) /\ Len(rows) \in Nat
    BY <1>3, SameRowsFollow, SameRowsGoOn
  <1>11. JobGoesOn(here, j, "count", new)
    <2>1. Several(new) /\ Loses("count", new)
      BY <1>4, <1>5 DEF Several, Loses
    <2>2. \A s : Holds(j, s) => Holds(new, s)
      BY <1>5 DEF Holds
    <2> QED
      BY <1>10, <2>1, <2>2 DEF JobGoesOn
  <1> QED
    BY <1>1, <1>3, <1>6, <1>9, <1>10, <1>11, SameFilesGoOn, StepFile

LEMMA ReadUploadFile ==
    ASSUME TypeInv, TypeInv', Kept, OwnInv, FileInv, NEW q \in Requests, ReadUpload(q),
           ~LeftBehind'
    PROVE  FileInv'
  <1>1. PICK j, here, r : j = job[q] /\ here = pc[q] /\ r = j.list[j.at]
    OBVIOUS
  <1>2. here = "validate" /\ here \in {"validate", "verdict"} /\ rows' = rows
        /\ staging' = staging
    BY <1>1 DEF ReadUpload
  <1>3. /\ JobTyped(here, j) /\ RowsTyped /\ j.at \in 1 .. Len(j.list) /\ j \in Job
        /\ r \in 1 .. Len(rows) /\ rows[r] \in Row /\ rows[r].key \in {j.key, NoKey}
        /\ ListKept(here, j) /\ j.back = "validate" /\ j.key \in Keys /\ j.bits \in Bits
    BY <1>1, <1>2, ValidatingFile
  <1>4. RowsFollow(here, j) /\ RowsGoOn(here, j) /\ Len(rows') = Len(rows) /\ Len(rows) \in Nat
    BY <1>2, SameRowsFollow, SameRowsGoOn
  <1>5. CASE Enter(q, "verdict", [j EXCEPT !.mem = rows[r]])
    <2>1. PICK new : new = [j EXCEPT !.mem = rows[r]]
      OBVIOUS
    <2>2. rows[r] \in AssetVersion
      BY <1>3 DEF Row
    <2>3. /\ new.at = j.at /\ new.mem = rows[r] /\ new.list = j.list /\ new.key = j.key
          /\ new.bulk = j.bulk /\ new.back = j.back /\ new.failed = j.failed
      BY <1>3, <2>1, <2>2 DEF Job
    <2>4. ListKept("verdict", new)'
      BY <1>2, <1>3, <2>3 DEF ListKept, Owner, Several, Promoted
    <2>5. CopyIs("verdict", new)'
      BY <1>1, <1>2, <1>3, <2>3 DEF CopyIs
    <2>6. Mine("verdict", new)'
      BY <2>4, <2>5 DEF Mine
    <2>7. JobGoesOn(here, j, "verdict", new)
      BY <1>2, <1>3, <1>4, <2>3 DEF JobGoesOn, Several, Loses, Promoted, Holds
    <2> QED
      BY <1>1, <1>2, <1>4, <1>5, <2>1, <2>6, <2>7, SameFilesGoOn, StepFile
  <1>6. CASE Enter(q, "count", Retiring(j, 1))
    <2>1. 1 \in 1 .. Len(j.list)
      <3>1. Len(j.list) \in Nat
        BY <1>3, LenProperties DEF Job
      <3> QED
        BY <1>3, <3>1
    <2>2. PICK new : new = Retiring(j, 1)
      OBVIOUS
    <2>3. /\ Same(new, j) /\ new.at = 1 /\ new.back = "retire"
          /\ new.mem = NewRow(rows[j.list[1]].asset, j.key, j.bits, j.bulk)
      <3>1. Held(j)
        BY <1>3 DEF JobTyped
      <3> QED
        BY <1>3, <2>1, <2>2, <3>1, RetiringIs
    <2>4. new.mem.key = j.key /\ new.mem.bulk = j.bulk
      BY <2>3 DEF NewRow
    <2>5. \A i \in 1 .. Len(j.list) : /\ rows[j.list[i]].key \in {j.key, NoKey}
                                      /\ rows[j.list[i]].bulk = j.bulk
      BY <1>3 DEF ListKept, Owner
    <2>6. \A i \in 1 .. Len(j.list) : ~(i < 1)
      OBVIOUS
    <2>7. ListKept("count", new)'
      BY <1>2, <2>3, <2>5, <2>6 DEF ListKept, Several, Same, Promoted
    <2>8. CopyIs("count", new)'
      BY <1>2, <2>1, <2>3, <2>4, <2>5 DEF CopyIs, Several, Same
    <2>9. Mine("count", new)'
      BY <2>7, <2>8 DEF Mine
    <2>10. JobGoesOn(here, j, "count", new)
      BY <1>4, <2>3 DEF JobGoesOn, Several, Loses, Holds, Same
    <2> QED
      BY <1>1, <1>2, <1>4, <1>6, <2>2, <2>9, <2>10, SameFilesGoOn, StepFile
  <1>7. ~Fails("findObject")
    BY FailsLeaves DEF Leaving
  <1> QED
    BY <1>1, <1>5, <1>6, <1>7 DEF ReadUpload

LEMMA PassUploadFile ==
    ASSUME TypeInv, TypeInv', Kept, OwnInv, FileInv, NEW q \in Requests, PassUpload(q),
           job[q].skipped = {}
    PROVE  FileInv'
  <1>1. PICK j, here, r : j = job[q] /\ here = pc[q] /\ r = j.list[j.at]
    OBVIOUS
  <1>2. here = "verdict" /\ here \in {"validate", "verdict"} /\ staging' = staging
    BY <1>1 DEF PassUpload
  <1>3. /\ RowsTyped /\ j.at \in 1 .. Len(j.list) /\ j \in Job
        /\ r \in 1 .. Len(rows) /\ rows[r] \in Row /\ ListKept(here, j)
        /\ j.back = "validate" /\ j.mem = rows[r] /\ rows[r].ingested # "true"
    BY <1>1, <1>2, ValidatingFile
  <1>4. PICK failed, next, place, new :
               /\ failed \in BOOLEAN /\ next = [j EXCEPT !.failed = failed] /\ (j.failed => failed)
               /\ JobTyped("verdict", next)
               /\ Enter(q, place, new) /\ Gone(next, place, new)
               /\ \/ SaveRow(r, [j.mem EXCEPT !.ingested = "false"])
                  \/ rows' = rows
               /\ ~failed => OfferedUpTo(j, j.at)'
               /\ Len(rows) \in Nat /\ Len(rows') = Len(rows) /\ RowsFollow("verdict", j)
    BY <1>1, PassUploadGone
  <1>5. /\ next.list = j.list /\ next.key = j.key /\ next.back = j.back /\ next.at = j.at
        /\ next.failed = failed /\ next.bulk = j.bulk
    BY <1>3, <1>4 DEF Job
  <1>6. RowsGoOn(here, j)
    <2>1. CASE SaveRow(r, [j.mem EXCEPT !.ingested = "false"])
      <3>1. PICK m : m = [j.mem EXCEPT !.ingested = "false"]
        OBVIOUS
      <3>2. /\ m \in Row /\ m.key = rows[r].key /\ m.ingested = "false"
            /\ m.bulk = rows[r].bulk /\ m.bits = rows[r].bits
        BY <1>3, <3>1 DEF Row, AssetVersion, Ingestions
      <3>3. SaveRow(r, m) /\ m.key \in {rows[r].key, NoKey}
        BY <2>1, <3>1, <3>2
      <3> QED
        BY <1>3, <3>2, <3>3, SaveGoOn
    <2> QED
      BY <1>4, <2>1, SameRowsGoOn
  <1>7. ListKept(here, next)'
    <2>1. ListKept(here, next)
      BY <1>2, <1>3, <1>5 DEF ListKept, Owner, Several, Promoted
    <2>2. RowsGoOn(here, next)
      BY <1>2, <1>6 DEF RowsGoOn
    <2> QED
      BY <1>2, <1>4, <2>1, <2>2, ListKeptFollows
  <1>8. Mine(place, new)'
    BY <1>2, <1>3, <1>4, <1>5, <1>7, GoneMine
  <1>9. JobGoesOn(here, j, place, new)
    <2>1. next.failed
          \/ \A i \in 1 .. Len(next.list) : i <= next.at => rows'[next.list[i]].ingested # "null"
      <3>1. j.skipped = {}
        BY <1>1
      <3> QED
        BY <1>4, <1>5, <3>1 DEF OfferedUpTo
    <2>2. here \notin {"create", "retire"} \cup Promoted
      BY <1>2 DEF Promoted
    <2>3. JobGoesOn(here, next, place, new)
      BY <1>2, <1>3, <1>4, <1>5, <1>7, <2>1, <2>2, GoneGoesOn
    <2>4. Loses(here, j) => Loses(here, next)
      BY <1>4, <1>5 DEF Loses
    <2>5. Several(j) => Several(next)
      BY <1>5 DEF Several
    <2>6. \A s : Holds(j, s) => Holds(next, s)
      BY <1>5 DEF Holds
    <2> QED
      BY <2>3, <2>4, <2>5, <2>6 DEF JobGoesOn
  <1>10. RowsFollow(here, j) /\ FilesGoOn(place, new)
    BY <1>2, <1>4, SameFilesGoOn
  <1> QED
    BY <1>1, <1>4, <1>6, <1>8, <1>9, <1>10, StepFile

LEMMA InitFile == Init => FileInv
  <1>1. Len(<<>>) = 0
    OBVIOUS
  <1>2. ListKept("idle", NoJob)
    BY DEF ListKept, Owner, NoJob, AtRow, Promoted
  <1>3. Mine("idle", NoJob)
    BY <1>2 DEF Mine, WithCopy, AtRow
  <1> HIDE DEF NoJob
  <1> QED
    BY <1>1, <1>3 DEF Init, FileInv, Shared, NullHeld, FileKept

LEMMA NextFile ==
    ASSUME Serial, PromotionsRecorded
    PROVE  /\ TypeInv /\ TypeInv' /\ Kept /\ OwnInv /\ FileInv /\ SkippedTold
           /\ [Next]_vars /\ ~LeftBehind'
           => FileInv'
  <1> SUFFICES ASSUME TypeInv, TypeInv', Kept, OwnInv, FileInv, SkippedTold, [Next]_vars,
                      ~LeftBehind'
               PROVE  FileInv'
    OBVIOUS
  <1>1. CASE UNCHANGED vars
    BY <1>1 DEF vars, FileInv, Shared, NullHeld, FileKept, Mine, ListKept, CopyIs, AllHeld,
                Holds, Waits, Several, Loses, Owner
  <1>2. CASE Next
    <2>1. PICK q \in Requests :
            \/ UploadAsset(q) \/ RollbackAssetVersion(q) \/ CreateRow(q)
            \/ ReadUpload(q) \/ PassUpload(q) \/ FailUpload(q)
            \/ DiscardAssetVersion(q) \/ CountReferences(q) \/ RemoveStaged(q)
            \/ RetireRow(q) \/ ClearKey(q) \/ CheckVersions(q) \/ RetireAsset(q)
            \/ IngestAsset(q) \/ PromoteAsset(q) \/ UpdateAsset(q)
            \/ NextVersion(q) \/ UpdateRow(q)
      BY <1>2 DEF Next
    <2>2. \A step \in {"updateAsset", "updateRow"} : step \notin FailSteps
      BY DEF PromotionsRecorded
    <2>3. job[q].skipped = {}
      BY LeftStays DEF SkippedTold
    <2> QED
      BY <2>1, <2>2, <2>3, UploadAssetFile, RollbackAssetVersionFile, CreateRowFile, ReadUploadFile,
         PassUploadFile, FailUploadFile, DiscardAssetVersionFile, CountReferencesFile,
         RemoveStagedFile, RetireRowFile, ClearKeyFile, CheckVersionsFile, RetireAssetFile,
         IngestAssetFile, PromoteAssetFile, UpdateAssetFile, NextVersionFile, UpdateRowFile
  <1> QED
    BY <1>1, <1>2

LEMMA FileAlways ==
    ASSUME Serial, PromotionsRecorded
    PROVE  Spec => [](LeftBehind \/ FileInv)
  <1>1. Spec => []TypeInv /\ [](TypeInv /\ Kept) /\ []OwnInv /\ []SkippedTold
    BY TypeAlways, KeptAlways, OwnAlways, SkippedAlways
  <1>2. /\ TypeInv /\ TypeInv' /\ Kept /\ OwnInv /\ FileInv /\ SkippedTold
        /\ [Next]_vars /\ ~LeftBehind'
        => FileInv'
    BY NextFile
  <1>3. LeftBehind /\ [Next]_vars => LeftBehind'
    BY LeftStays
  <1> QED
    BY <1>1, <1>2, <1>3, InitFile, PTL DEF Spec

(* While requests take turns on an asset and promotions are recorded, a    *)
(* version that waits for its ingestion has its staged file, although the  *)
(* parts of a bulk upload share it and each is discarded or ingested on    *)
(* its own, as long as none of the calls has failed that leave a version   *)
(* behind (AssetStorageAdapter.discardAssetVersion).                       *)
THEOREM StagedFilesKept ==
    ASSUME Serial, PromotionsRecorded
    PROVE  Spec => []StagedFileKept
  <1>1. TypeInv /\ (LeftBehind \/ FileInv) => StagedFileKept
    <2> SUFFICES ASSUME TypeInv, FileInv, NEW r \in DOMAIN rows, Waits(rows[r]),
                        staging[rows[r].key] # rows[r].bits
                 PROVE  InHand(r)
      BY DEF StagedFileKept, Waits
    <2>1. r \in 1 .. Len(rows)
      BY RowsLength DEF TypeInv
    <2>2. PICK q \in Requests : Holds(job[q], r)
      BY <2>1 DEF FileInv, FileKept
    <2>3. job[q].list \in Seq(Nat)
      BY JobOf DEF Job
    <2>4. r \in Range(job[q].list)
      BY <2>2, <2>3, LenProperties DEF Holds, Range
    <2> QED
      BY <2>4 DEF InHand
  <1>2. Spec => []TypeInv /\ [](LeftBehind \/ FileInv)
    BY TypeAlways, FileAlways
  <1> QED
    BY <1>1, <1>2, PTL
=============================================================================
