------------------------ MODULE MCChangePropagation ------------------------
(* A subject and an item that may be linked to it.                           *)
EXTENDS ChangePropagation

CONSTANTS subject, item

MCObjects == {subject, item}
MCLinks == {<<subject, item>>}

=============================================================================
