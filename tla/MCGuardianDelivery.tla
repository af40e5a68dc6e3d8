------------------------- MODULE MCGuardianDelivery -------------------------
(* Two failure classes, so that incidents can be grouped and superseded.   *)
EXTENDS GuardianDelivery

MCTypes == {"process_not_running", "probe_failed"}
=============================================================================
