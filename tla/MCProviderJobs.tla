--------------------------- MODULE MCProviderJobs ---------------------------
(* ProviderJobs on small sets of jobs, attempts and processes. *)
EXTENDS ProviderJobs, TLC

\* Workers, attempts and requests are interchangeable: no definition names one.
FenceSymmetry == Permutations(Worker) \cup Permutations(Attempt) \cup Permutations(Request)

=============================================================================
