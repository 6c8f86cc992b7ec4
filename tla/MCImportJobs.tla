---------------------------- MODULE MCImportJobs ----------------------------
(* ImportJobs on small sets of uploads, executions and processes. *)
EXTENDS ImportJobs, TLC

CONSTANTS b1

\* Every upload is of the same book.
OneBook == [u \in Upload |-> b1]

\* Uploads of one book, executions and workers are interchangeable.
ImportSymmetry == Permutations(Upload) \cup Permutations(Exec) \cup Permutations(Worker)

=============================================================================
