------------------------------- MODULE Driver -------------------------------
(***************************************************************************)
(* The VM Lifecycle Controller and the Network Allocator of the Cloud      *)
(* Hypervisor driver (type Driver, package cloudhypervisor).               *)
(*                                                                         *)
(* CreateDomain, StopDomain and DestroyDomain each run under the write     *)
(* lock d.mu for their whole length, and monitorCtx takes the same lock    *)
(* for its shutdown sweep, so each is one atomic action here.  What stays  *)
(* nondeterministic is the host: which step of a creation fails, whether   *)
(* the graceful shutdown over the control socket works, and when a VMM     *)
(* process exits on its own.                                               *)
(*                                                                         *)
(* Host resources are kept as the set of VM names that own one: TAP        *)
(* interfaces (taps), virtiofsd helpers (helpers), cloud-hypervisor        *)
(* processes (vmm), and the set of PCI devices bound to vfio-pci (vfio).   *)
(***************************************************************************)
EXTENDS Integers, Sequences, FiniteSets, Functions

CONSTANTS
  Names,          \* VM names (config.Name)
  Devices,        \* PCI addresses tasks may ask to pass through
  DeviceRequests, \* the config.VFIODevices lists tasks carry
  Addr,           \* the IPv4 addresses of the model, as integers
  SubnetFirst,    \* network.subnet_cidr, as its first ...
  SubnetLast,     \* ... and last address
  Gateway,        \* network.gateway
  PoolStart,      \* network.ip_pool_start
  PoolEnd,        \* network.ip_pool_end
  StaticIPs,      \* bridge.static_ip values tasks carry
  BadIP,          \* a static_ip string that netip.ParseAddr rejects
  NoStatic,       \* no static_ip in the task's bridge block
  NoIP            \* no address

Subnet == SubnetFirst .. SubnetLast

(* validateNetworkConfig: Start refuses any configuration that fails it.  *)
NetworkConfig ==
  /\ Addr \subseteq Nat
  /\ Subnet \subseteq Addr
  /\ Gateway \in Subnet
  /\ PoolStart \in Subnet /\ PoolEnd \in Subnet
  /\ PoolStart <= PoolEnd
  /\ Gateway # PoolStart

ASSUME NetworkConfigValid == NetworkConfig

(* The inputs a task can pass: a static_ip is an address or unparsable,  *)
(* and a device request lists devices.                                    *)
WellFormedInputs ==
  /\ BadIP \notin Addr
  /\ NoStatic \notin Addr \cup {BadIP}
  /\ NoIP \notin Addr \cup {BadIP}
  /\ StaticIPs \subseteq Addr \cup {BadIP}
  /\ DeviceRequests \subseteq Seq(Devices)

ASSUME InputsWellFormed == WellFormedInputs

(* The keys of d.allocatedIPs: printed addresses and unparsed static IPs. *)
IPValue == Addr \cup {BadIP}

VARIABLES
  processes,     \* the names registered in d.processes
  procIP,        \* VMProcess.IP of each registered VM
  allocatedIPs,  \* the keys of d.allocatedIPs
  taps,          \* VMs whose TAP interface exists on the host
  helpers,       \* VMs whose virtiofsd helpers run
  vmm,           \* VMs whose cloud-hypervisor process runs
  vfio,          \* devices bound to the vfio-pci driver
  passthrough,   \* devices passed through to each registered VM
  ctxDone,       \* the driver's context was cancelled and swept
  result         \* what the last call returned

vars == <<processes, procIP, allocatedIPs, taps, helpers, vmm, vfio,
          passthrough, ctxDone, result>>

Ops == {"init", "create", "stop", "destroy", "exit", "sweep"}
Errs == {"none", "exists", "not_found", "workdir", "static_outside",
         "static_taken", "no_ip", "cloudinit", "network", "virtiofsd",
         "vmconfig", "vfio", "start", "boot"}
Results == [op : Ops, err : Errs, ip : IPValue \cup {NoIP},
            static : StaticIPs \cup {NoStatic}]

TypeOK ==
  /\ processes \subseteq Names
  /\ procIP \in [Names -> IPValue \cup {NoIP}]
  /\ allocatedIPs \subseteq IPValue
  /\ taps \subseteq Names /\ helpers \subseteq Names /\ vmm \subseteq Names
  /\ vfio \subseteq Devices
  /\ passthrough \in [Names -> SUBSET Devices]
  /\ ctxDone \in BOOLEAN
  /\ result \in Results

-----------------------------------------------------------------------------
(* Network Allocator *)

(* CreateDomain checks a static IP against the subnet only when it parses. *)
OutsideSubnet(s) == s \in Addr /\ s \notin Subnet

(* Mutant: the static IP path without the "already allocated" check. *)
StaticAllocationUnchecked(s, ip) ==
  /\ ip = s
  /\ ~OutsideSubnet(s)

(* The static IP path: in the subnet (if it parses) and not yet allocated. *)
StaticAllocation(s, ip) ==
  /\ ip = s
  /\ ~OutsideSubnet(s)
  /\ s \notin allocatedIPs

(* Mutant: the scan without the d.allocatedIPs[ip] test. *)
FreePoolNoTakenCheck == {a \in PoolStart .. PoolEnd : a # Gateway}

(* The addresses the scan of allocateIP may hand out. *)
FreePool == {a \in PoolStart .. PoolEnd : a # Gateway /\ a \notin allocatedIPs}

(* allocateIP walks the pool upward and takes the first free address. *)
PoolAllocation(ip) ==
  /\ ip \in FreePool
  /\ \A b \in FreePool : ip <= b

-----------------------------------------------------------------------------
(* VM Lifecycle Controller *)

(* What each cleanup helper undoes: cleanupNetworking removes the TAP,     *)
(* stopVirtiofsd the helpers, cleanupProcess the VMM process, helpers and *)
(* networking, deallocateIP the address.                                   *)
CleanupNetworking == {"tap"}
StopVirtiofsd == {"helpers"}
CleanupProcess == {"tap", "helpers", "vmm"}
DeallocateIP == {"ip"}

(* Mutant: the createAndBootVM error path without cleanupProcess. *)
FailurePathBootNoCleanup ==
  [cloudinit |-> [made |-> {"ip"}, undo |-> DeallocateIP],
   network   |-> [made |-> {"ip"}, undo |-> DeallocateIP],
   virtiofsd |-> [made |-> {"ip", "tap", "helpers"},
                  undo |-> DeallocateIP \cup CleanupNetworking \cup CleanupProcess],
   vmconfig  |-> [made |-> {"ip", "tap", "helpers"},
                  undo |-> DeallocateIP \cup CleanupNetworking
                            \cup StopVirtiofsd \cup CleanupProcess],
   vfio      |-> [made |-> {"ip", "tap", "helpers"},
                  undo |-> DeallocateIP \cup CleanupNetworking \cup StopVirtiofsd],
   start     |-> [made |-> {"ip", "tap", "helpers", "vmm"},
                  undo |-> DeallocateIP \cup CleanupNetworking
                            \cup StopVirtiofsd \cup CleanupProcess],
   boot      |-> [made |-> {"ip", "tap", "helpers", "vmm"},
                  undo |-> DeallocateIP]]

(* For each step of CreateDomain that can fail: the resources the steps   *)
(* before it (and the failed step itself) made, and the ones its error    *)
(* path undoes.                                                            *)
FailurePath ==
  [cloudinit |-> [made |-> {"ip"}, undo |-> DeallocateIP],
   network   |-> [made |-> {"ip"}, undo |-> DeallocateIP],
   virtiofsd |-> [made |-> {"ip", "tap", "helpers"},
                  undo |-> DeallocateIP \cup CleanupNetworking \cup CleanupProcess],
   vmconfig  |-> [made |-> {"ip", "tap", "helpers"},
                  undo |-> DeallocateIP \cup CleanupNetworking
                            \cup StopVirtiofsd \cup CleanupProcess],
   vfio      |-> [made |-> {"ip", "tap", "helpers"},
                  undo |-> DeallocateIP \cup CleanupNetworking \cup StopVirtiofsd],
   start     |-> [made |-> {"ip", "tap", "helpers", "vmm"},
                  undo |-> DeallocateIP \cup CleanupNetworking
                            \cup StopVirtiofsd \cup CleanupProcess],
   boot      |-> [made |-> {"ip", "tap", "helpers", "vmm"},
                  undo |-> CleanupProcess \cup DeallocateIP]]

Leftover(e) == FailurePath[e].made \ FailurePath[e].undo

(* x joins S when resource r of the failed creation was left behind. *)
Keep(S, x, r, e) == IF r \in Leftover(e) THEN S \cup {x} ELSE S

(* The devices bound to vfio-pci after addVFIODevices failed: the checks  *)
(* (ValidateDevices, CheckIOMMUGroups) bind nothing, BindDevices stops at *)
(* the first failing write with the devices before it bound, and a        *)
(* GetVFIOGroupPaths failure unbinds every device of the list.            *)
AddVFIOFailures(devs) ==
  {vfio}
  \cup {vfio \cup Range(SubSeq(devs, 1, i - 1)) :
          i \in {j \in 1 .. Len(devs) : devs[j] \notin vfio}}
  \cup {vfio \ Range(devs)}

CreateResult(e, ip, s) == [op |-> "create", err |-> e, ip |-> ip, static |-> s]

(* A creation that failed at step e after allocating ip. *)
Abort(n, ip, s, e) ==
  /\ allocatedIPs' = Keep(allocatedIPs, ip, "ip", e)
  /\ taps' = Keep(taps, n, "tap", e)
  /\ helpers' = Keep(helpers, n, "helpers", e)
  /\ vmm' = Keep(vmm, n, "vmm", e)
  /\ result' = CreateResult(e, ip, s)
  /\ UNCHANGED <<processes, procIP, passthrough, ctxDone>>

(* Every step succeeded: the VMProcess is registered under its name. *)
Booted(n, ip, s, devs) ==
  /\ processes' = processes \cup {n}
  /\ procIP' = [procIP EXCEPT ![n] = ip]
  /\ allocatedIPs' = allocatedIPs \cup {ip}
  /\ taps' = taps \cup {n}
  /\ helpers' = helpers \cup {n}
  /\ vmm' = vmm \cup {n}
  /\ vfio' = vfio \cup Range(devs)
  /\ passthrough' = [passthrough EXCEPT ![n] = Range(devs)]
  /\ result' = CreateResult("none", ip, s)
  /\ UNCHANGED ctxDone

(* The steps of CreateDomain after the address is allocated. *)
Launch(n, ip, s, devs) ==
  \/ \E e \in {"cloudinit", "network", "virtiofsd", "vmconfig"} :
        Abort(n, ip, s, e) /\ UNCHANGED vfio
  \/ /\ Len(devs) > 0
     /\ Abort(n, ip, s, "vfio")
     /\ vfio' \in AddVFIOFailures(devs)
  \/ \E e \in {"start", "boot"} :
        Abort(n, ip, s, e) /\ vfio' = vfio \cup Range(devs)
  \/ Booted(n, ip, s, devs)

(* CreateDomain returning an error before any resource is touched. *)
Refuse(e, s) ==
  /\ result' = CreateResult(e, NoIP, s)
  /\ UNCHANGED <<processes, procIP, allocatedIPs, taps, helpers, vmm, vfio,
                 passthrough, ctxDone>>

(* Mutant: CreateDomain without the "already exists" check. *)
CreateDomainNoExistsCheck(n, s, devs) ==
  \/ /\ \/ Refuse("workdir", s)
        \/ s # NoStatic /\ OutsideSubnet(s) /\ Refuse("static_outside", s)
        \/ /\ s # NoStatic /\ ~OutsideSubnet(s) /\ s \in allocatedIPs
           /\ Refuse("static_taken", s)
        \/ s = NoStatic /\ FreePool = {} /\ Refuse("no_ip", s)
        \/ \E ip \in IPValue :
              /\ \/ s # NoStatic /\ StaticAllocation(s, ip)
                 \/ s = NoStatic /\ PoolAllocation(ip)
              /\ Launch(n, ip, s, devs)

CreateDomain(n, s, devs) ==
  \/ n \in processes /\ Refuse("exists", s)
  \/ /\ n \notin processes
     /\ \/ Refuse("workdir", s)
        \/ s # NoStatic /\ OutsideSubnet(s) /\ Refuse("static_outside", s)
        \/ /\ s # NoStatic /\ ~OutsideSubnet(s) /\ s \in allocatedIPs
           /\ Refuse("static_taken", s)
        \/ s = NoStatic /\ FreePool = {} /\ Refuse("no_ip", s)
        \/ \E ip \in IPValue :
              /\ \/ s # NoStatic /\ StaticAllocation(s, ip)
                 \/ s = NoStatic /\ PoolAllocation(ip)
              /\ Launch(n, ip, s, devs)

OtherResult(op, e) == [op |-> op, err |-> e, ip |-> NoIP, static |-> NoStatic]

(* StopDomain: graceful shutdown over the API socket, else kill the VMM.  *)
(* The registry entry and the address are kept.                            *)
StopDomain(n) ==
  \/ /\ n \notin processes
     /\ result' = OtherResult("stop", "not_found")
     /\ UNCHANGED <<processes, procIP, allocatedIPs, taps, helpers, vmm,
                    vfio, passthrough, ctxDone>>
  \/ /\ n \in processes /\ n \in vmm
     /\ result' = OtherResult("stop", "none")
     /\ UNCHANGED <<processes, procIP, allocatedIPs, taps, helpers, vmm,
                    vfio, passthrough, ctxDone>>
  \/ /\ n \in processes
     /\ vmm' = vmm \ {n}
     /\ result' = OtherResult("stop", "none")
     /\ UNCHANGED <<processes, procIP, allocatedIPs, taps, helpers,
                    vfio, passthrough, ctxDone>>

(* DestroyDomain: shutdownVM, cleanupProcess, deallocateIP, and the entry *)
(* leaves the registry.  The devices stay bound to vfio-pci.               *)
DestroyDomain(n) ==
  \/ /\ n \notin processes
     /\ result' = OtherResult("destroy", "not_found")
     /\ UNCHANGED <<processes, procIP, allocatedIPs, taps, helpers, vmm,
                    vfio, passthrough, ctxDone>>
  \/ /\ n \in processes
     /\ processes' = processes \ {n}
     /\ procIP' = [procIP EXCEPT ![n] = NoIP]
     /\ allocatedIPs' = allocatedIPs \ {procIP[n]}
     /\ taps' = taps \ {n}
     /\ helpers' = helpers \ {n}
     /\ vmm' = vmm \ {n}
     /\ passthrough' = [passthrough EXCEPT ![n] = {}]
     /\ result' = OtherResult("destroy", "none")
     /\ UNCHANGED <<vfio, ctxDone>>

(* A cloud-hypervisor process exits or crashes on its own (an event of   *)
(* the host, recorded in result like the calls).                          *)
VMMExit(n) ==
  /\ n \in vmm
  /\ vmm' = vmm \ {n}
  /\ result' = OtherResult("exit", "none")
  /\ UNCHANGED <<processes, procIP, allocatedIPs, taps, helpers, vfio,
                 passthrough, ctxDone>>

(* monitorCtx: once the context is done, cleanupProcess every registered  *)
(* VM under the lock; the registry and the addresses are left as they are.*)
MonitorCtx ==
  /\ ~ctxDone
  /\ ctxDone' = TRUE
  /\ taps' = taps \ processes
  /\ helpers' = helpers \ processes
  /\ vmm' = vmm \ processes
  /\ result' = OtherResult("sweep", "none")
  /\ UNCHANGED <<processes, procIP, allocatedIPs, vfio, passthrough>>

Init ==
  /\ processes = {}
  /\ procIP = [n \in Names |-> NoIP]
  /\ allocatedIPs = {}
  /\ taps = {} /\ helpers = {} /\ vmm = {}
  /\ vfio \in SUBSET Devices
  /\ passthrough = [n \in Names |-> {}]
  /\ ctxDone = FALSE
  /\ result = OtherResult("init", "none")

Next ==
  \/ \E n \in Names, s \in StaticIPs \cup {NoStatic}, devs \in DeviceRequests :
        CreateDomain(n, s, devs)
  \/ \E n \in Names : StopDomain(n) \/ DestroyDomain(n) \/ VMMExit(n)
  \/ MonitorCtx

Spec == Init /\ [][Next]_vars

-----------------------------------------------------------------------------
(* Properties *)

(* Every allocated address belongs to exactly one registered VM and every *)
(* registered VM holds its own: no address leaks out of a failed or a      *)
(* destroyed VM and no two VMs share one (CreateDomain, DestroyDomain,     *)
(* allocateIP, deallocateIP).                                              *)
IPOwnership ==
  /\ allocatedIPs = {procIP[n] : n \in processes}
  /\ \A m, n \in processes : m # n => procIP[m] # procIP[n]

(* No VM is left half-constructed: every TAP interface, virtiofsd helper   *)
(* and VMM process on the host belongs to a VM in the registry, whatever   *)
(* step of CreateDomain failed and whichever cleanup path ran.             *)
NoHalfConstructedVM ==
  taps \cup helpers \cup vmm \subseteq processes

(* The spec (section 3) on the allocator's state: every allocated address *)
(* lies in the subnet and is never the gateway.  CreateDomain's static IP  *)
(* path only checks subnet containment, and only for a string that parses. *)
AllocatedInSubnetNotGateway ==
  \A a \in allocatedIPs : a \in Subnet /\ a # Gateway

(* The spec (section 4.3): a creation that fails cleans up every step it   *)
(* completed, so a failed CreateDomain leaves no device newly bound to     *)
(* vfio-pci (addVFIODevices binds; startCHProcess or createAndBootVM fail).*)
FailedCreateReleasesDevices ==
  [][result'.op = "create" /\ result'.err # "none" => vfio' \subseteq vfio]_vars

(* After monitorCtx's shutdown sweep no VMM process is left running: the   *)
(* sweep force-stops every registered VM, and nothing afterwards stops a   *)
(* CreateDomain that was waiting for the lock.                             *)
NoVMMAfterShutdown ==
  ctxDone => vmm = {}

(* A device passed through to a running VM stays bound to vfio-pci: the    *)
(* GetVFIOGroupPaths error path of another creation runs UnbindDevices on *)
(* its whole list, devices another VM uses included.                       *)
RunningDevicesBound ==
  \A n \in processes \cap vmm : passthrough[n] \subseteq vfio

(* The driver implements the abstract registry: with the registry and   *)
(* the VMs' addresses as the abstract state, every CreateDomain that       *)
(* registers a VM does so under a new name with an address no registered  *)
(* VM holds, DestroyDomain releases exactly the destroyed VM's entry, and *)
(* every other call, failure, exit and the sweep leave the registry as it *)
(* is.                                                                     *)
Abstract == INSTANCE AbstractDriver WITH IPs <- IPValue, reg <- processes,
                                          addr <- procIP
AbstractSpec == Abstract!Spec

=============================================================================
