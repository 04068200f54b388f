------------------------------ MODULE TuiDagMC ------------------------------
(* Graphs for model-checking execute_dag. *)
EXTENDS TuiDag

ThreeIds == <<"a", "b", "c">>

\* Every set of dependencies, one name twice, and one that is no node.
Lists ==
    {<<>>, <<"a">>, <<"b">>, <<"c">>, <<"b", "a">>, <<"b", "c">>, <<"c", "a">>,
     <<"a", "a">>, <<"x">>}
=============================================================================
