----------------------------- MODULE MCProcInfo -----------------------------
(* Matrices and workloads for the run of ProcInfo. *)
EXTENDS ProcInfo

MatrixX == <<<<1, 2>>, <<3, 1>>>>
MatrixY == <<<<1>>, <<3>>>>

AloneOrTwice ==
  {<<a, "none">> : a \in Programs \ {"none"}} \cup {<<"3_1", "3_1">>, <<"3_2_one", "3_2_one">>}
=============================================================================
