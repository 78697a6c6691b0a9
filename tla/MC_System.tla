----------------------------- MODULE MC_System -----------------------------
(***************************************************************************)
(* Two tasks, each forwarding one port, over a pool of two addresses with  *)
(* the gateway outside it: a destroyed VM's address is handed to the other *)
(* VM by the next creation, so the forwards of the new VM are identical,  *)
(* in the filter table, to the ones the old task's teardown deletes.  No   *)
(* devices and no static addresses: the Driver runs cover those.           *)
(***************************************************************************)
EXTENDS System, TLC

CONSTANTS n1, n2, http

MCNames == {n1, n2}
MCAddr == 0 .. 3
MCDeviceRequests == {<<>>}
MCTaskPorts == (n1 :> <<http>>) @@ (n2 :> <<http>>)
MCTo == http :> 80
MCSymmetry == Permutations(MCNames)

=============================================================================
