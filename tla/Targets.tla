------------------------------- MODULE Targets -------------------------------
(* The mapping of targets (TargetMapping) under a name of its own, for the *)
(* modules that speak of other parts too.                                  *)

CONSTANTS Defs, Texts, MaxLines, Context, Window

VARIABLES script, fate, beside, version, mapping

mappingVars == <<script, fate, beside, version, mapping>>

M == INSTANCE TargetMapping WITH seen <- version

ASSUME TargetsAssumption == M!MappingAssumption

(* The property of TargetMapping: the line numbers of a diff hold, and a   *)
(* target goes into another function only when somebody confirms it.       *)
MappingHolds == M!MappingHolds
=============================================================================
