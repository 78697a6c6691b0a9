--------------------------- MODULE MC_PortForward ---------------------------
(***************************************************************************)
(* Two tasks with distinct guest addresses (the allocator never hands one  *)
(* address to two registered VMs, see DriverProofs); t1 forwards two      *)
(* ports, t2 one, and both use the label http, so the same guest port      *)
(* appears in rules of both.  Each task may be started twice, so a failed  *)
(* build can be followed by a restart of the same task; Init may run twice *)
(* so that a failed Init can be followed by a successful one.              *)
(***************************************************************************)
EXTENDS PortForward, TLC

CONSTANTS t1, t2, http, ssh

MCTasks == {t1, t2}
MCLabels == {http, ssh}
MCTaskPorts == (t1 :> <<http, ssh>>) @@ (t2 :> <<http>>)
MCGuestIPs == {2, 4}
MCTaskIP == (t1 :> 2) @@ (t2 :> 4)
MCTo == (http :> 80) @@ (ssh :> 22)

=============================================================================
