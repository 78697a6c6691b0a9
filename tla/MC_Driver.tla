------------------------------ MODULE MC_Driver ------------------------------
(* Driver on a /29-like subnet 0..7 with gateway 3 inside the pool 2..4,   *)
(* so the scan must skip it, and three VMs for two pool addresses, so the *)
(* pool runs out.  Static IPs: a pool address, one outside the subnet and *)
(* an unparsable one; the allocator's own run adds the gateway and an     *)
(* address in the subnet outside the pool.                                *)
EXTENDS Driver, TLC

CONSTANTS n1, n2, n3, d1, d2

MCNames == {n1, n2, n3}
MCDevices == {d1, d2}
MCDeviceRequests == {<<>>, <<d1, d2>>}
MCAddr == 0 .. 8
MCStaticIPs == {4, 8, BadIP}
MCStaticIPsWide == {3, 6}

MCSymmetry == Permutations(MCNames)
==============================================================================
