----------------------------- MODULE MCDtlsSocket -----------------------------
(* Instances of DtlsSocket: the settings of each run.                        *)
EXTENDS DtlsSocket

AllSettings == Setting

\* The repository over UDP: datagrams get lost, nothing calls updateTimer.
Deployed == {[lossy |-> TRUE, polled |-> FALSE]}

=============================================================================
