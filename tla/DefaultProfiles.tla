-------------------------- MODULE DefaultProfiles --------------------------
(***************************************************************************)
(* The built-in registry, labos/config/profiles/base.py.  limits is        *)
(* <<cpu_limit, memory_mb, disk_mb, max_runtime_minutes>>.                 *)
(***************************************************************************)
EXTENDS Naturals, TLC

DEFAULT_LIMITS ==
  {<<2, 2048, 8192, 60>>, <<4, 8192, 51200, 480>>,
   <<8, 16384, 102400, 4320>>, <<4, 4096, 16384, 120>>}

safe_dev ==
  [runtime_class |-> "container", risk_class |-> "low",
   network_mode |-> "restricted", filesystem_mode |-> "managed",
   persistence_mode |-> "ephemeral", export_mode |-> "request",
   limits |-> <<2, 2048, 8192, 60>>,
   approval_on_start |-> FALSE, approval_on_export |-> FALSE,
   allow_host_mounts |-> FALSE, allowed_secret_names |-> {}]

model_local ==
  [safe_dev EXCEPT !.risk_class = "medium", !.persistence_mode = "persistent",
                   !.limits = <<4, 8192, 51200, 480>>,
                   !.approval_on_export = TRUE]

research_persistent ==
  [model_local EXCEPT !.risk_class = "high", !.export_mode = "approval",
                      !.limits = <<8, 16384, 102400, 4320>>]

red_zone ==
  [runtime_class |-> "microvm", risk_class |-> "critical",
   network_mode |-> "deny", filesystem_mode |-> "read-only-root",
   persistence_mode |-> "ephemeral", export_mode |-> "approval",
   limits |-> <<4, 4096, 16384, 120>>,
   approval_on_start |-> TRUE, approval_on_export |-> TRUE,
   allow_host_mounts |-> FALSE, allowed_secret_names |-> {}]

DEFAULT_PROFILES ==
  ("safe-dev" :> safe_dev) @@ ("model-local" :> model_local) @@
  ("research-persistent" :> research_persistent) @@ ("red-zone" :> red_zone)
=============================================================================
