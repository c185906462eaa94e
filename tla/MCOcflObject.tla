---------------------------- MODULE MCOcflObject ----------------------------
(* OcflObject on small instances: two uploads under one or two file names. *)
EXTENDS OcflObject, TLC

CONSTANTS u1, u2, f1, f2

(* Two files of a zip, or two uploads that differ in name.                 *)
MCFileOfDistinct == (u1 :> f1) @@ (u2 :> f2)
(* Two versions of the same asset, as a rule with the same file name.      *)
MCFileOfSame == (u1 :> f1) @@ (u2 :> f1)

(* The steps of an operation up to the rewriting of the root inventory.    *)
MCBeforeCommit == {"mkdirRoot", "mkdirVersion", "rename", "copy", "removeStaged",
                   "stream", "copyVersion", "metadata", "verInv", "cleanup", "rollback"}
(* The steps before the staged upload has left the staging area.           *)
MCBeforeMove == {"mkdirVersion", "rename", "copy", "removeStaged", "stream",
                 "copyVersion", "cleanup"}
MCNoFailure == {}
=============================================================================
