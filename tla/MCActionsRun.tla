--------------------------- MODULE MCActionsRun ---------------------------
(***************************************************************************)
(* Workflows for TLC: how their jobs are keyed and what they need.          *)
(***************************************************************************)
EXTENDS ActionsRun

\* A job declared before the matrix of two cells it needs.
JoinKey == <<"ship", "test", "test">>
JoinNeeds == <<{"test"}, {}, {}>>

\* A matrix of three cells, a job that needs it, and a job that needs that job.
MatrixKey == <<"test", "test", "test", "build", "deploy">>
MatrixNeeds == <<{}, {}, {}, {"test"}, {"build"}>>

OneKey == <<"test">>
OneNeeds == <<{}>>

=============================================================================
