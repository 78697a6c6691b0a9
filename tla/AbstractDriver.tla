--------------------------- MODULE AbstractDriver ---------------------------
(***************************************************************************)
(* What the driver promises its caller about VM identity (spec sections 1 *)
(* and 3): a registry of VMs by name, at most one per name, each holding  *)
(* an address no other registered VM holds.  A VM enters the registry     *)
(* with a fresh address and leaves it releasing the address; nothing else  *)
(* changes the registry.                                                   *)
(***************************************************************************)
CONSTANTS Names, IPs, NoIP

VARIABLES reg, addr

Held == {addr[m] : m \in reg}

Init ==
  /\ reg = {}
  /\ addr = [n \in Names |-> NoIP]

(* A creation succeeds: n was not registered and gets a free address. *)
Register(n, ip) ==
  /\ n \notin reg
  /\ ip \in IPs /\ ip \notin Held
  /\ reg' = reg \cup {n}
  /\ addr' = [addr EXCEPT ![n] = ip]

(* A destruction: n leaves the registry and its address is released. *)
Release(n) ==
  /\ n \in reg
  /\ reg' = reg \ {n}
  /\ addr' = [addr EXCEPT ![n] = NoIP]

Next == \E n \in Names : Release(n) \/ \E ip \in IPs : Register(n, ip)

Spec == Init /\ [][Next]_<<reg, addr>>

=============================================================================
