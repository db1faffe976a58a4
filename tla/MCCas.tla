------------------------------- MODULE MCCas -------------------------------
(* Small clusters for module Cas. *)
EXTENDS Cas, TLC

CONSTANTS n1, n2, n3, c1, c2, c3, t1, k1

TwoDmlHome == c1 :> n1 @@ c2 :> n2
TwoDmlJob == c1 :> "dml" @@ c2 :> "dml"
TwoTarget == c1 :> <<t1, k1>> @@ c2 :> <<t1, k1>>
TwoDdlJob == c1 :> "ddl" @@ c2 :> "ddl"
NoRetry == c1 :> 0 @@ c2 :> 0
OneRetries == c1 :> 1 @@ c2 :> 0
DmlRetries == c1 :> 0 @@ c2 :> 1
DdlDmlJob == c1 :> "ddl" @@ c2 :> "dml"
=============================================================================
