------------------------------ MODULE MCDdl ------------------------------
(* Small clusters for module Ddl: replicaset R1 has instances a and b, and *)
(* R2 has instance c, which runs the rebalancer.                           *)
EXTENDS Ddl, TLC

CONSTANTS a, b, c, R1, R2

TwoPlusOne == (a :> R1) @@ (b :> R1) @@ (c :> R2)
AandC == (R1 :> a) @@ (R2 :> c)
=============================================================================
