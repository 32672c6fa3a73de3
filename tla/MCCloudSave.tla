---------------------------- MODULE MCCloudSave -----------------------------
(* Instances of CloudSave for TLC: the daemon's poll thread and the web *)
(* threads are one process, a command line is a process of its own.      *)
EXTENDS CloudSave

CONSTANTS manager, daemon, web

MCProcessOf == [w \in Workers |-> IF w \in {daemon, web} THEN manager ELSE w]
=============================================================================
