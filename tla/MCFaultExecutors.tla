-------------------------- MODULE MCFaultExecutors --------------------------
(* Instances of FaultExecutors for TLC: one family of each kind of field.  *)
EXTENDS FaultExecutors

MixedFamilies == {"replica_reduction", "config_drift", "secret_rotation", "http_rate_limit",
                  "extension.queue_backlog", "api_server_delay", "disk_pressure",
                  "process_exhaustion"}
ExhaustionFamilies == {"process_exhaustion", "file_descriptor_exhaustion"}
=============================================================================
