----------------------------- MODULE MCImports -----------------------------
\* A small instance of ImportSessions: Copy imports of files that change.
EXTENDS ImportSessions

\* Two files in folders of their own: the second comes first by its name.
ByName == [f \in Paths |-> IF f = 1 THEN 2 ELSE 1]
=============================================================================
