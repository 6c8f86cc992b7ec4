-------------------------- MODULE MCBookWorkflow --------------------------
(***************************************************************************)
(* The workflow of one book on small instances.                            *)
(***************************************************************************)
EXTENDS BookWorkflow

CONSTANTS w1, t1, r1

OneWorkflow == {w1}
OneTask == {t1}
NoWorker == {}
OnePass == {r1}

=============================================================================
