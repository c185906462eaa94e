---------------------------- MODULE MCAssetIngest ----------------------------
(* AssetIngest on small instances: a scene and a capture data set, which   *)
(* may come in one bulk upload; both its parts are then listed at once.    *)
EXTENDS AssetIngest

CONSTANTS scene, capture

MCBulks == {<<capture, scene>>}
MCSymmetry == Permutations(Bits) \cup Permutations(Requests)
=============================================================================
