--------------------------- MODULE AllocatorScan ---------------------------
(***************************************************************************)
(* The network configuration path of the driver, as the code computes it:  *)
(* initializeNetworkConfig parses the subnet, pool and gateway (with the   *)
(* default gateway and the clearing of pool bounds outside the subnet),    *)
(* validateNetworkConfig decides whether Start goes on, and allocateIP     *)
(* walks the pool address by address.                                      *)
(*                                                                         *)
(* Addresses are the integers 0 .. 2^Width - 1; Absent stands for a value  *)
(* left unset, or one netip could not parse (the code treats both alike).  *)
(***************************************************************************)
EXTENDS Naturals, FiniteSets

CONSTANTS Width, Absent

ASSUME ScanInputs == Width \in Nat /\ Absent \notin Nat

MaxAddr == 2^Width - 1
Addrs == 0 .. MaxAddr
Opt(S) == S \cup {Absent}

(* The raw network block: subnet_cidr as an address and a prefix length, *)
(* ip_pool_start, ip_pool_end and gateway.                               *)
RawConfigs ==
  [cidr : Opt(Addrs \X (0 .. Width)), start : Opt(Addrs), end : Opt(Addrs),
   gw : Opt(Addrs)]

(* netip.Prefix.Masked: the first and last address of the prefix. *)
SubnetOf(cidr) ==
  LET size == 2^(Width - cidr[2])
      base == (cidr[1] \div size) * size
  IN  base .. base + size - 1

(* addr.Next(): the next address, invalid past the top of the space. *)
NextAddr(a) == IF a = MaxAddr THEN Absent ELSE a + 1

(* initializeNetworkConfig. *)
Parse(raw) ==
  LET sub == IF raw.cidr = Absent THEN {} ELSE SubnetOf(raw.cidr)
      valid == raw.cidr # Absent
      next == IF valid THEN NextAddr(CHOOSE b \in sub : \A c \in sub : b <= c)
                       ELSE Absent
      gw == IF valid /\ raw.gw = Absent /\ next # Absent /\ next \in sub
              THEN next ELSE raw.gw
      keep(a) == IF valid /\ a # Absent /\ a \notin sub THEN Absent ELSE a
  IN  [subnetValid |-> valid, subnet |-> sub, gateway |-> gw,
       start |-> keep(raw.start), end |-> keep(raw.end)]

(* validateNetworkConfig (the bridge name aside). *)
Validate(c) ==
  /\ c.subnetValid
  /\ c.gateway # Absent /\ c.gateway \in c.subnet
  /\ c.start # Absent /\ c.end # Absent
  /\ c.start \in c.subnet /\ c.end \in c.subnet
  /\ ~(c.end < c.start)
  /\ c.gateway # c.start

(* What allocateIP returns: an address, or an error and no address. *)
Found(a) == [err |-> "none", ip |-> {a}]
Fail(e) == [err |-> e, ip |-> {}]

(* Mutant: the loop tests ip == ipPoolEnd before it looks at ip itself. *)
RECURSIVE ScanEndFirst(_, _, _)
ScanEndFirst(c, A, ip) ==
  IF c.subnetValid /\ ip \notin c.subnet THEN Fail("outside")
  ELSE IF ip = c.end THEN Fail("exhausted")
  ELSE IF c.gateway # Absent /\ ip = c.gateway
    THEN IF NextAddr(ip) = Absent THEN Fail("exhausted")
         ELSE ScanEndFirst(c, A, NextAddr(ip))
  ELSE IF ip \notin A THEN Found(ip)
  ELSE IF NextAddr(ip) = Absent THEN Fail("exhausted")
  ELSE ScanEndFirst(c, A, NextAddr(ip))

(* The loop of allocateIP from address ip, with the allocated set A: the  *)
(* subnet check, the gateway skip, the free test, the end-of-pool test and *)
(* ip.Next() becoming invalid, in the code's order.                       *)
RECURSIVE Scan(_, _, _)
Scan(c, A, ip) ==
  IF c.subnetValid /\ ip \notin c.subnet THEN Fail("outside")
  ELSE IF c.gateway # Absent /\ ip = c.gateway
    THEN IF ip = c.end \/ NextAddr(ip) = Absent THEN Fail("exhausted")
         ELSE Scan(c, A, NextAddr(ip))
  ELSE IF ip \notin A THEN Found(ip)
  ELSE IF ip = c.end \/ NextAddr(ip) = Absent THEN Fail("exhausted")
  ELSE Scan(c, A, NextAddr(ip))

(* allocateIP: refuse an unconfigured pool, else scan from ip_pool_start. *)
AllocateResult(c, A) ==
  IF c.start = Absent \/ c.end = Absent THEN Fail("unconfigured")
  ELSE Scan(c, A, c.start)

VARIABLES
  cfg,        \* the parsed and validated network configuration
  allocated,  \* the keys of d.allocatedIPs
  last        \* <<what the last allocateIP returned>>, or <<>>

vars == <<cfg, allocated, last>>

(* The driver started: the parsed configuration passed validation. *)
Init ==
  /\ cfg \in {Parse(raw) : raw \in RawConfigs}
  /\ Validate(cfg)
  /\ allocated = {}
  /\ last = <<>>

(* allocateIP under d.mu: take the address the scan found. *)
AllocateIP ==
  LET r == AllocateResult(cfg, allocated) IN
  /\ last' = <<r>>
  /\ allocated' = allocated \cup r.ip
  /\ UNCHANGED cfg

(* deallocateIP of an address a VM held. *)
DeallocateIP(a) ==
  /\ a \in allocated
  /\ allocated' = allocated \ {a}
  /\ last' = <<>>
  /\ UNCHANGED cfg

Next == AllocateIP \/ \E a \in Addrs : DeallocateIP(a)

Spec == Init /\ [][Next]_vars

-----------------------------------------------------------------------------
(* Properties *)

(* The pool addresses the Driver model may hand out (its FreePool). *)
FreeIn(c, A) ==
  {a \in c.start .. c.end : a # c.gateway /\ a \notin A}

(* The Driver model's abstraction of allocateIP is what the loop computes *)
(* for every configuration validateNetworkConfig accepts: the scan returns *)
(* the lowest free pool address other than the gateway, and reports the   *)
(* pool exhausted exactly when there is none; it never stops on its        *)
(* "outside subnet" check.                                                 *)
ScanFindsLowestFree ==
  [][last' # <<>> =>
       IF FreeIn(cfg, allocated) = {}
         THEN last'[1] = Fail("exhausted")
         ELSE \E a \in FreeIn(cfg, allocated) :
                /\ last'[1] = Found(a)
                /\ \A b \in FreeIn(cfg, allocated) : a <= b]_vars

=============================================================================
