------------------------------ MODULE MCAlerts ------------------------------
(* Alerts on small instances: see the MCAlerts*.cfg files. *)
EXTENDS Alerts

OneChannel == <<"webhook">>
TwoChannels == <<"webhook", "ntfy">>
=============================================================================
