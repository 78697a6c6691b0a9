------------------------------- MODULE System -------------------------------
(***************************************************************************)
(* The driver and the Port-Forwarding Controller together, as Nomad drives *)
(* them for each task: CreateDomain starts the VM, VMStartedBuild installs *)
(* its port forwards towards the address the driver allocated (GuestIPs[0] *)
(* of the request is VMProcess.IP), VMTerminatedTeardown removes them with *)
(* the teardown spec Nomad kept, and DestroyDomain releases the address to *)
(* the allocator, which may hand it to the next VM.                        *)
(*                                                                         *)
(* A task and its VM share a name.  The two components share no lock: each *)
(* call of one is one step, and steps of the two interleave.               *)
(***************************************************************************)
EXTENDS Integers, Sequences, FiniteSets

CONSTANTS
  Names, Devices, DeviceRequests, Addr, SubnetFirst, SubnetLast, Gateway,
  PoolStart, PoolEnd, StaticIPs, BadIP, NoStatic, NoIP,   \* as in Driver
  Labels, TaskPorts, To, MaxStarts, MaxInits              \* as in PortForward

VARIABLES
  processes, procIP, allocatedIPs, taps, helpers, vmm, vfio, passthrough,
  ctxDone, result,
  natChain, filterChain, natJump, filterJump, rules, initOK, inits, phase,
  spec, starts

dvars == <<processes, procIP, allocatedIPs, taps, helpers, vmm, vfio,
           passthrough, ctxDone, result>>
pvars == <<natChain, filterChain, natJump, filterJump, rules, initOK, inits,
           phase, spec, starts>>
vars == <<dvars, pvars>>

(* The driver, with the facts DriverProofs establishes about it. *)
D == INSTANCE DriverProofs

(* The configuration Start accepts and the inputs a task can pass, as the *)
(* driver assumes them, and the port lists Nomad hands the controller.     *)
ASSUME SystemInputs ==
  /\ D!NetworkConfig
  /\ D!WellFormedInputs
  /\ TaskPorts \in [Names -> Seq(Labels)]
  /\ MaxStarts \in Nat /\ MaxInits \in Nat

(* The controller, with the lemmas PortForwardProofs proves about its     *)
(* operators.  A guest address is any key of d.allocatedIPs, the static_ip *)
(* string that did not parse included: VMStartedBuild puts GuestIPs[0] in  *)
(* its rules as it is.  TaskIP is the fixed address of PortForward's own   *)
(* Next, which System does not use: it passes the VM's current address to *)
(* each VMStartedBuild.                                                    *)
P == INSTANCE PortForwardProofs WITH Tasks <- Names, GuestIPs <- D!IPValue,
                                     TaskIP <- [n \in Names |-> PoolStart]

TypeOK == D!TypeOK /\ P!TypeOK

Init == D!Init /\ P!Init

(* Nomad starts the task's VM. *)
StartVM(n) ==
  /\ \E s \in StaticIPs \cup {NoStatic}, devs \in DeviceRequests :
        D!CreateDomain(n, s, devs)
  /\ UNCHANGED pvars

(* Once the VM is up Nomad asks for its port forwards, with the address   *)
(* the driver reports for it.                                              *)
BuildNetwork(n) ==
  /\ n \in processes
  /\ P!VMStartedBuild(n, procIP[n])
  /\ UNCHANGED dvars

(* Nomad tears the forwards down with the spec it kept, and retries. *)
TeardownNetwork(n) ==
  /\ P!VMTerminatedTeardown(n)
  /\ UNCHANGED dvars

StopVM(n) == D!StopDomain(n) /\ UNCHANGED pvars

(* Nomad destroys the VM once its network teardown has returned nil. *)
DestroyVM(n) ==
  /\ phase[n] = "stopped"
  /\ D!DestroyDomain(n)
  /\ UNCHANGED pvars

(* A caller that destroys the VM whatever its teardown returned. *)
DestroyVMAnyTime(n) == D!DestroyDomain(n) /\ UNCHANGED pvars

VMMExit(n) == D!VMMExit(n) /\ UNCHANGED pvars

MonitorCtx == D!MonitorCtx /\ UNCHANGED pvars

EnsureIPTables == P!EnsureIPTables /\ UNCHANGED dvars

Next ==
  \/ EnsureIPTables
  \/ MonitorCtx
  \/ \E n \in Names :
        \/ StartVM(n) \/ BuildNetwork(n) \/ TeardownNetwork(n)
        \/ StopVM(n) \/ DestroyVM(n) \/ VMMExit(n)

Spec == Init /\ [][Next]_vars

UnorderedNext == Next \/ \E n \in Names : DestroyVMAnyTime(n)

UnorderedSpec == Init /\ [][UnorderedNext]_vars

-----------------------------------------------------------------------------
(* Properties *)

(* The forwards of a running task lead to its own VM: every rule of the   *)
(* teardown spec Nomad holds for it names the address the driver holds    *)
(* for the VM of that name, which is still registered.  CreateDomain      *)
(* refusing an existing name is what keeps the address of a running VM    *)
(* from changing under its forwards.                                       *)
RunningForwardsTargetOwnVM ==
  \A n \in P!Running :
     /\ n \in processes
     /\ \A i \in 1 .. Len(spec[n]) : spec[n][i].dst[1] = procIP[n]

(* RunningForwardsInstalled of PortForward with addresses reused: every   *)
(* rule a running task lists is in its chain, even after the allocator    *)
(* handed an address released by DestroyDomain to another VM whose rules  *)
(* are identical (the filter rule names only the guest address and port). *)
SystemForwardsInstalled == P!RunningForwardsInstalled

=============================================================================
