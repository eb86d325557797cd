---------------------------- MODULE MCEngineShutdown ----------------------------
(* One portal and one executor besides those of the control pipeline.  The *)
(* executor stands for two: it reports outliers, as the ingestion executor *)
(* does, and may hang like the match executor.                             *)
EXTENDS EngineShutdown

MCOtherPortals == <<"match_portal">>
MCOtherExecutors == <<"other_executor">>
MCMayHang == {"match_portal", "other_executor"}

================================================================================
