----------------------------- MODULE MCItemJobs -----------------------------
EXTENDS ItemJobs, TLC

CONSTANTS j1, j2, j3, o1, u1, u2, u3

\* The jobs are interchangeable until they are started.
JobSymmetry == Permutations(Jobs)

\* No redirects, and one from u3.
NoRedirects == [u \in Urls |-> u]
OneRedirect == [u \in Urls |-> IF u = u3 THEN u1 ELSE u]

=============================================================================
