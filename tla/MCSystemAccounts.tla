-------------------------- MODULE MCSystemAccounts --------------------------
(* An instance of SystemAccounts for TLC. *)
EXTENDS SystemAccounts

\* config-job.yaml sets more roles and accounts, each treated like these.
RealmClientRole == <<"realm", "client", "system-service">>
OnlyCollector == <<"garbage-collector">>
=============================================================================
