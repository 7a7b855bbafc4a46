---------------------------- MODULE MCSetupBuild ----------------------------
EXTENDS SetupBuild, TLC

CONSTANTS v1, v2, upstream, unset, none

MCVersions == {v1, v2}

(* Unset, a canonical ON, a lower-case on and an explicit OFF.             *)
MCBundleVals == {unset, "ON", "on", "OFF"}

MCOnVals == {"ON", "On", "oN", "on"}
=============================================================================
