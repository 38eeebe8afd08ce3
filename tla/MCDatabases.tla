----------------------------- MODULE MCDatabases -----------------------------
(* Instances of Databases for TLC. *)
EXTENDS Databases, TLC

CONSTANTS main, copy

\* Two requests on the default database or its backup, and every operation: the
\* backup may exist or not, be in use or not, and be restored over itself.
MCCalls == {<<main, "get">>, <<copy, "get">>}
MCOperations ==
  {<<"ensure", copy, copy>>, <<"init", copy, copy>>, <<"clear", main, main>>,
   <<"backup", main, copy>>, <<"restore", main, copy>>, <<"restore", copy, copy>>,
   <<"destroy", main, main>>}

\* For liveness: plain and async handlers, a database that does not exist, and the
\* operations that truncate or close.
AnsweredCalls == {<<main, "get">>, <<main, "post">>, <<copy, "get">>}
AnsweredOperations == {<<"clear", main, main>>, <<"backup", main, main>>, <<"restore", main, copy>>,
   <<"init", copy, copy>>, <<"destroy", main, main>>}

Symmetry == Permutations(Requests) \cup Permutations(Pools)

=============================================================================
