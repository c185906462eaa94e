------------------------- MODULE MCScenePublication -------------------------
(* Small instances of ScenePublication. *)
EXTENDS ScenePublication, TLC

(* Edits approve the scene; what they say of PosedAndQCd varies. *)
MCFlags == [posed : BOOLEAN, approved : {TRUE}]

(* The slots differ in nothing but their name. *)
MCSymmetry == Permutations(Tasks) \cup Permutations(Publications)

=============================================================================
