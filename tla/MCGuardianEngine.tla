-------------------------- MODULE MCGuardianEngine --------------------------
(* A small Guardian for TLC: two ladders, one failure class without one.   *)
EXTENDS GuardianEngine

MCFailures == {"process_not_running", "probe_failed", "startup_timeout", "startup-pattern",
               "verification_failed", "linux-oom"}
MCProbeFailures == {"process_not_running"}
MCLogFailures == {"linux-oom"}
MCPolicy ==
    [f \in MCFailures |->
        CASE f = "process_not_running" -> <<"clear_declared_lock_files", "graceful_restart">>
          [] f = "linux-oom" -> <<"quarantine">>
          [] OTHER -> << >>]
=============================================================================
