------------------------------ MODULE MCCharPool ------------------------------
(***************************************************************************)
(* Instances of CharPool for TLC; the .cfg files choose the build's lock,  *)
(* the threads and the cells of a chunk.                                   *)
(***************************************************************************)
EXTENDS CharPoolInv

SmallSizes == {1, 2}
AllSizes == {1, 3}
===============================================================================
