---------------------------- MODULE MCEnginePool ----------------------------
(* Model-checking instance of EnginePool: the .cfg files give the values.  *)
(* Engine identities are not declared symmetric: the runs check liveness.  *)
EXTENDS EnginePool
=============================================================================
