------------------------------ MODULE MCCookJob ------------------------------
(* CookJob on small instances: a scene job with the inspection its cleanup *)
(* starts, beside another job.                                             *)
EXTENDS CookJob, TLC

CONSTANTS scene, inspect, other

MCNestedOfScene == scene :> inspect
MCNoNested == scene :> NoJob
=============================================================================
