--------------------------- MODULE MCDependencyRank ---------------------------
(***************************************************************************)
(* All graphs of at most MaxReferences references between the tables, self *)
(* references and cycles included.                                         *)
(***************************************************************************)
EXTENDS DependencyRank, FiniteSetsExt

CONSTANT MaxReferences

MCGraphs == UNION {kSubset(n, Tables \X Tables) : n \in 0 .. MaxReferences}
=============================================================================
