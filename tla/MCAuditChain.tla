----------------------------- MODULE MCAuditChain -----------------------------
(* Model values, bounds and symmetry for checking AuditChain.              *)
EXTENDS AuditChain, TLC

CONSTANTS r1, r2, c1, c2

\* Rows are touched by hand on SQLite, where the check of the chain promises
\* something, and without an archive; the files of an archive need fewer rows,
\* and least where the database matters to them as little as PostgreSQL does.
RowBound == [k \in Configurations |-> IF k[2] = "none" THEN 3 ELSE 2]
TimeBound == [k \in Configurations |->
                IF k[2] = "none" THEN 4 ELSE IF k[1] = "sqlite" THEN 3 ELSE 2]
EditBound == [k \in Configurations |-> IF k = <<"sqlite", "none">> THEN 1 ELSE 0]

Interchangeable == Permutations({r1, r2}) \cup Permutations({c1, c2})
=============================================================================
