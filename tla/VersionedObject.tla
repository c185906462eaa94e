--------------------------- MODULE VersionedObject ---------------------------
(***************************************************************************)
(* What a versioned repository object promises its callers: a history of   *)
(* versions that only ever grows at its end.  A version says, for every    *)
(* file name, which content the object holds under that name, or None.     *)
(* Nothing in here knows about folders, inventories or failures: OcflObject *)
(* is shown to implement it.                                               *)
(***************************************************************************)
EXTENDS Naturals, Sequences

CONSTANTS Names,     \* file names an object can hold
          Bits,      \* contents a file can have
          None       \* "this version has no such file"

VARIABLE history     \* the committed versions, oldest first

VersionState == [Names -> Bits \cup {None}]

Init == history = <<>>

(* An operation commits exactly one new version, or none.                  *)
Commit ==
    /\ Len(history') = Len(history) + 1
    /\ \A v \in 1 .. Len(history) : history'[v] = history[v]
    /\ history'[Len(history) + 1] \in VersionState

Spec == Init /\ [][Commit]_history
=============================================================================
