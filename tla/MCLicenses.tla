----------------------------- MODULE MCLicenses -----------------------------
(* A project with two subjects that share one item, a diamond, and a second
   item that only one of them has. *)
EXTENDS Licenses, TLC

CONSTANTS project, subject1, subject2, item1, item2

MCLinks == {<<project, subject1>>, <<project, subject2>>,
            <<subject1, item1>>, <<subject2, item1>>, <<subject1, item2>>}

(* The requests differ in nothing but their name. *)
MCSymmetry == Permutations(Requests)

=============================================================================
