---- MODULE MCEventLog ----
(* Instances of EventLog.                                                  *)
EXTENDS EventLog
===========================
