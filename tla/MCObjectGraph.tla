--------------------------- MODULE MCObjectGraph ---------------------------
(* An item, two models and a unit without subjects, linked by any            *)
(* SystemObjectXrefs, an asset that one model owns and that is the thumbnail  *)
(* of this model and of the item, and an asset of the unit.                   *)
EXTENDS ObjectGraph

CONSTANTS un, it, m1, m2, as, au

MCObjects == {un, it, m1, m2, as, au}
MCKind == (un :> "unit") @@ (it :> "item") @@ (m1 :> "model") @@ (m2 :> "model")
          @@ (as :> "asset") @@ (au :> "asset")
MCFacts == (un :> {"unit"}) @@ (it :> {"item"}) @@ (m1 :> {"model", "master", "2021"})
           @@ (m2 :> {"model", "web", "2021"}) @@ (as :> {"asset"}) @@ (au :> {"asset"})
MCOwned == {<<m1, as>>, <<un, au>>}
MCThumbnails == {<<m1, as>>, <<it, as>>}
MCXrefs == {l \in {un, it, m1, m2} \X {un, it, m1, m2} : l[1] /= l[2]}
MCFetchOrder == <<it, m1, m2, as, au>>

=============================================================================
