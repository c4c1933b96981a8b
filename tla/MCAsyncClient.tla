--------------------------- MODULE MCAsyncClient ---------------------------
(***************************************************************************)
(* Instances of AsyncClient for TLC.                                       *)
(***************************************************************************)
EXTENDS AsyncClient, TLC

\* Tokens are interchangeable, and so are the application's threads when all or
\* none of them connect.
ClientSymmetry == Permutations(Tokens) \union Permutations(Apps)

=============================================================================
