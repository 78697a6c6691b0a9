---------------------------- MODULE SystemProofs ----------------------------
(***************************************************************************)
(* Proofs about the System module for every value of its constants: with  *)
(* the caller that destroys a VM only once its network teardown returned   *)
(* nil, the forwards of a running task lead to its own VM and stay in      *)
(* place, although the allocator hands released addresses to new VMs.     *)
(***************************************************************************)
EXTENDS System, FiniteSetTheorems, TLAPS

(* A task that is not running or being torn down holds no teardown spec. *)
StoppedNoSpec == \A n \in Names : phase[n] = "stopped" => spec[n] = <<>>

(* A task being run or torn down belongs to a registered VM, and holds    *)
(* either no teardown spec or the full list of rules VMStartedBuild        *)
(* appended for that VM's current address.                                 *)
LiveSpecShape ==
  \A n \in Names :
     phase[n] # "stopped" =>
        /\ n \in processes
        /\ spec[n] \in {<<>>, P!RuleList(n, procIP[n])}

(* The inductive invariant: the driver's own (types, address ownership,   *)
(* no half-constructed VM), the controller's types, the shape of the      *)
(* teardown specs, and PortForward's per-task count of installed rules.   *)
(* Address ownership makes the rule lists of two live tasks disjoint.     *)
SInv ==
  /\ D!Inv
  /\ P!TypeOK
  /\ StoppedNoSpec
  /\ LiveSpecShape
  /\ P!OwnRulesInstalled

-----------------------------------------------------------------------------
(* The driver's invariant carries over *)

(* Every step of System is a step of the driver or leaves the driver's    *)
(* variables alone.                                                        *)
LEMMA DriverSteps == [Next]_vars => [D!Next]_dvars
<1> SUFFICES ASSUME [Next]_vars PROVE [D!Next]_dvars
  OBVIOUS
<1>1. CASE EnsureIPTables
  BY <1>1 DEF EnsureIPTables
<1>2. CASE MonitorCtx
  BY <1>2 DEF MonitorCtx, D!Next
<1>3. ASSUME NEW n \in Names,
             StartVM(n) \/ StopVM(n) \/ DestroyVM(n) \/ VMMExit(n)
      PROVE  [D!Next]_dvars
  BY <1>3 DEF StartVM, StopVM, DestroyVM, VMMExit, D!Next
<1>4. ASSUME NEW n \in Names, BuildNetwork(n) \/ TeardownNetwork(n)
      PROVE  [D!Next]_dvars
  BY <1>4 DEF BuildNetwork, TeardownNetwork
<1>5. CASE UNCHANGED vars
  BY <1>5 DEF vars
<1>. QED
  BY <1>1, <1>2, <1>3, <1>4, <1>5 DEF Next

(* The assumptions of the two instances follow from SystemInputs. *)
LEMMA InstanceAssumptions ==
  D!NetworkConfigValid /\ D!InputsWellFormed /\ P!PortForwardInputs
BY SystemInputs DEF D!NetworkConfig, D!IPValue, D!Subnet

LEMMA DriverInvStep == D!Inv /\ [Next]_vars => D!Inv'
<1> SUFFICES ASSUME D!Inv, [Next]_vars PROVE D!Inv'
  OBVIOUS
<1>1. [D!Next]_D!vars
  BY DriverSteps DEF D!vars, dvars
<1>. QED
  BY <1>1, InstanceAssumptions, D!InvStep

(* A registered VM holds an address or the static string it was given. *)
LEMMA RegisteredAddr ==
  ASSUME D!Inv, NEW n \in processes
  PROVE  procIP[n] \in D!IPValue
BY DEF D!Inv, D!IPOwnership, D!TypeOK

-----------------------------------------------------------------------------
(* Two live tasks list no common rule *)

(* A task whose spec lists a rule is live, so its VM is registered and    *)
(* the spec is the rule list for the VM's address.                         *)
LEMMA ListedIsLive ==
  ASSUME SInv, NEW t \in Names, NEW i \in 1 .. Len(spec[t])
  PROVE  /\ phase[t] # "stopped"
         /\ t \in processes
         /\ spec[t] = P!RuleList(t, procIP[t])
<1>1. spec[t] # <<>>
  BY DEF SInv, P!TypeOK
<1>2. phase[t] # "stopped"
  BY <1>1 DEF SInv, StoppedNoSpec
<1>. QED
  BY <1>1, <1>2 DEF SInv, LiveSpecShape

(* Address ownership makes the specs of two tasks disjoint: the VMs of    *)
(* two live tasks are distinct registered VMs, with distinct addresses.    *)
LEMMA LiveListsDisjoint ==
  ASSUME SInv, NEW t \in Names, NEW u \in Names, t # u,
         NEW i \in 1 .. Len(spec[t]), NEW j \in 1 .. Len(spec[u])
  PROVE  spec[t][i] # spec[u][j]
<1>1. /\ t \in processes /\ spec[t] = P!RuleList(t, procIP[t])
      /\ u \in processes /\ spec[u] = P!RuleList(u, procIP[u])
  BY ListedIsLive
<1>2. procIP[t] # procIP[u]
  BY <1>1 DEF SInv, D!Inv, D!IPOwnership
<1>3. procIP[t] \in D!IPValue /\ procIP[u] \in D!IPValue
  BY <1>1, RegisteredAddr DEF SInv
<1>. QED
  BY <1>1, <1>2, <1>3, InstanceAssumptions, P!RuleListsDisjoint

-----------------------------------------------------------------------------
(* The inductive invariant *)

LEMMA SInvInit == Init => SInv
<1> SUFFICES ASSUME Init PROVE SInv
  OBVIOUS
<1>1. D!Inv
  BY InstanceAssumptions, D!InvInit DEF Init
<1>2. P!TypeOK
  BY InstanceAssumptions, P!TypeOKInit DEF Init
<1>3. StoppedNoSpec /\ LiveSpecShape /\ P!OwnRulesInstalled
  BY DEF Init, P!Init, StoppedNoSpec, LiveSpecShape, P!OwnRulesInstalled
<1>. QED
  BY <1>1, <1>2, <1>3 DEF SInv

(* What a step must keep of the controller's side of SInv. *)
PInv == P!TypeOK /\ StoppedNoSpec /\ LiveSpecShape /\ P!OwnRulesInstalled

(* The driver's steps other than DestroyDomain. *)
DriverCall ==
  MonitorCtx \/ \E n \in Names : StartVM(n) \/ StopVM(n) \/ VMMExit(n)

(* The driver's calls keep every registered VM registered with its        *)
(* address: CreateDomain registers only a name not yet in d.processes.     *)
LEMMA RegisteredKept ==
  ASSUME D!Inv, DriverCall, NEW m \in processes
  PROVE  m \in processes' /\ procIP'[m] = procIP[m]
<1>0. CASE MonitorCtx
  BY <1>0 DEF MonitorCtx, D!MonitorCtx
<1>a. ASSUME NEW n \in Names, StartVM(n) \/ StopVM(n) \/ VMMExit(n)
      PROVE  m \in processes' /\ procIP'[m] = procIP[m]
  <2>1. CASE StartVM(n)
    <3>1. PICK s \in StaticIPs \cup {NoStatic}, devs \in DeviceRequests :
            D!CreateDomain(n, s, devs)
      BY <2>1 DEF StartVM
    <3>2. ASSUME NEW e, NEW x, D!Refuse(e, x)
          PROVE  m \in processes' /\ procIP'[m] = procIP[m]
      BY <3>2 DEF D!Refuse
    <3>3. ASSUME n \notin processes, NEW ip, D!Launch(n, ip, s, devs)
          PROVE  m \in processes' /\ procIP'[m] = procIP[m]
      <4>1. ASSUME NEW e, D!Abort(n, ip, s, e)
            PROVE  m \in processes' /\ procIP'[m] = procIP[m]
        BY <4>1 DEF D!Abort
      <4>2. ASSUME D!Booted(n, ip, s, devs)
            PROVE  m \in processes' /\ procIP'[m] = procIP[m]
        BY <3>3, <4>2 DEF D!Booted, D!Inv, D!TypeOK
      <4>. QED
        BY <3>3, <4>1, <4>2 DEF D!Launch
    <3>. QED
      BY <3>1, <3>2, <3>3 DEF D!CreateDomain
  <2>2. CASE StopVM(n)
    BY <2>2 DEF StopVM, D!StopDomain
  <2>3. CASE VMMExit(n)
    BY <2>3 DEF VMMExit, D!VMMExit
  <2>. QED
    BY <1>a, <2>1, <2>2, <2>3
<1>. QED
  BY <1>0, <1>a DEF DriverCall

(* The driver's calls other than DestroyDomain leave the controller alone *)
(* and keep the VMs of live tasks.                                         *)
LEMMA DriverCallKeeps ==
  ASSUME SInv, DriverCall
  PROVE  PInv'
<1>1. UNCHANGED pvars
  BY DEF DriverCall, StartVM, StopVM, VMMExit, MonitorCtx
<1>2. (P!TypeOK /\ StoppedNoSpec /\ P!OwnRulesInstalled)'
  BY <1>1 DEF SInv, pvars, P!TypeOK, StoppedNoSpec, P!OwnRulesInstalled
<1>3. LiveSpecShape'
  <2> SUFFICES ASSUME NEW m \in Names, phase'[m] # "stopped"
               PROVE  m \in processes' /\ spec'[m] \in {<<>>, P!RuleList(m, procIP'[m])}
    BY DEF LiveSpecShape
  <2>1. m \in processes /\ spec[m] \in {<<>>, P!RuleList(m, procIP[m])}
    BY <1>1 DEF pvars, SInv, LiveSpecShape
  <2>. QED
    BY <1>1, <2>1, RegisteredKept DEF pvars, SInv
<1>. QED
  BY <1>2, <1>3 DEF PInv

(* DestroyVM removes the VM of a stopped task only, whose spec is empty. *)
LEMMA DestroyKeeps ==
  ASSUME SInv, NEW n \in Names, DestroyVM(n)
  PROVE  PInv'
<1>1. UNCHANGED pvars
  BY DEF DestroyVM
<1>2. (P!TypeOK /\ StoppedNoSpec /\ P!OwnRulesInstalled)'
  BY <1>1 DEF SInv, pvars, P!TypeOK, StoppedNoSpec, P!OwnRulesInstalled
<1>3. LiveSpecShape'
  <2> SUFFICES ASSUME NEW m \in Names, phase'[m] # "stopped"
               PROVE  m \in processes' /\ spec'[m] \in {<<>>, P!RuleList(m, procIP'[m])}
    BY DEF LiveSpecShape
  <2>1. m \in processes /\ spec[m] \in {<<>>, P!RuleList(m, procIP[m])} /\ m # n
    BY <1>1 DEF pvars, SInv, LiveSpecShape, DestroyVM
  <2>2. m \in processes' /\ procIP'[m] = procIP[m]
    BY <2>1 DEF DestroyVM, D!DestroyDomain, SInv, D!Inv, D!TypeOK
  <2>. QED
    BY <1>1, <2>1, <2>2 DEF pvars
<1>. QED
  BY <1>2, <1>3 DEF PInv

(* Controller.Init touches only the chains and the jumps. *)
LEMMA EnsureKeeps ==
  ASSUME SInv, EnsureIPTables
  PROVE  PInv'
<1>1. P!TypeOK'
  BY InstanceAssumptions, P!EnsureKeepsType DEF SInv, EnsureIPTables
<1>2. (StoppedNoSpec /\ LiveSpecShape /\ P!OwnRulesInstalled)'
  BY DEF EnsureIPTables, P!EnsureIPTables, dvars, SInv, StoppedNoSpec,
         LiveSpecShape, P!OwnRulesInstalled
<1>. QED
  BY <1>1, <1>2 DEF PInv

(* VMStartedBuild for a registered VM, with the address the driver holds *)
(* for it: the spec it returns is the full list for that address, or      *)
(* empty, and it appends rules only.                                       *)
LEMMA BuildKeeps ==
  ASSUME SInv, NEW n \in Names, BuildNetwork(n)
  PROVE  PInv'
<1>0. /\ n \in processes /\ procIP[n] \in D!IPValue
      /\ P!VMStartedBuild(n, procIP[n]) /\ UNCHANGED dvars
      /\ P!PortForwardInputs /\ P!TypeOK
  BY RegisteredAddr, InstanceAssumptions DEF BuildNetwork, SInv
<1>1. P!TypeOK'
  BY <1>0, P!BuildKeepsType
<1>2. P!OwnRulesInstalled'
  BY <1>0, P!BuildKeepsOwn DEF SInv
<1>3. ASSUME NEW m \in Names, m # n
      PROVE  phase'[m] = phase[m] /\ spec'[m] = spec[m]
  BY <1>0, <1>3 DEF P!VMStartedBuild, P!TypeOK
<1>4. /\ phase'[n] = "stopped" => spec'[n] = <<>>
      /\ phase'[n] # "stopped" =>
            spec'[n] \in {<<>>, P!RuleList(n, procIP[n])}
  <2>1. spec[n] = <<>>
    BY <1>0 DEF P!VMStartedBuild, SInv, StoppedNoSpec
  <2>. QED
    BY <1>0, <2>1 DEF P!VMStartedBuild, P!TypeOK
<1>5. StoppedNoSpec' /\ LiveSpecShape'
  BY <1>0, <1>3, <1>4 DEF SInv, StoppedNoSpec, LiveSpecShape, dvars
<1>. QED
  BY <1>1, <1>2, <1>5 DEF PInv

(* VMTerminatedTeardown with the spec Nomad kept: the task stops with no *)
(* spec, or stays in teardown with its spec, and its deletions touch no   *)
(* rule of another running task (LiveListsDisjoint).                       *)
LEMMA TeardownKeeps ==
  ASSUME SInv, NEW n \in Names, TeardownNetwork(n)
  PROVE  PInv'
<1>0. /\ P!VMTerminatedTeardown(n) /\ UNCHANGED dvars
      /\ P!PortForwardInputs /\ P!TypeOK
  BY InstanceAssumptions DEF TeardownNetwork, SInv
<1>1. P!TypeOK'
  BY <1>0, P!TeardownKeepsType
<1>2. P!OwnRulesInstalled'
  <2>1. \A t \in Names \ {n} : phase[t] = "running" =>
           \A k \in 1 .. Len(spec[t]), i \in 1 .. Len(spec[n]) :
              spec[n][i] # spec[t][k]
    BY LiveListsDisjoint
  <2>. QED
    BY <1>0, <2>1, P!TeardownKeepsOwn DEF SInv
<1>3. /\ \A m \in Names \ {n} : phase'[m] = phase[m] /\ spec'[m] = spec[m]
      /\ \/ phase'[n] = "stopped" /\ spec'[n] = <<>>
         \/ phase'[n] = "stopping" /\ spec'[n] = spec[n]
      /\ phase[n] # "stopped"
  <2>1. ASSUME NEW failed, P!TeardownAttempt(n, failed)
        PROVE  /\ \A m \in Names \ {n} : phase'[m] = phase[m] /\ spec'[m] = spec[m]
               /\ \/ phase'[n] = "stopped" /\ spec'[n] = <<>>
                  \/ phase'[n] = "stopping" /\ spec'[n] = spec[n]
               /\ phase[n] # "stopped"
    BY <1>0, <2>1 DEF P!TeardownAttempt, P!TypeOK
  <2>. QED
    BY <1>0, <2>1 DEF P!VMTerminatedTeardown, P!TypeOK
<1>4. StoppedNoSpec' /\ LiveSpecShape'
  BY <1>0, <1>3 DEF SInv, StoppedNoSpec, LiveSpecShape, dvars
<1>. QED
  BY <1>1, <1>2, <1>4 DEF PInv

LEMMA SInvStep == SInv /\ [Next]_vars => SInv'
<1> SUFFICES ASSUME SInv, [Next]_vars PROVE SInv'
  OBVIOUS
<1>1. D!Inv'
  BY DriverInvStep DEF SInv
<1>2. PInv'
  <2>1. CASE EnsureIPTables
    BY <2>1, EnsureKeeps
  <2>2. CASE MonitorCtx
    BY <2>2, DriverCallKeeps DEF DriverCall
  <2>3. ASSUME NEW n \in Names,
               StartVM(n) \/ StopVM(n) \/ VMMExit(n)
        PROVE  PInv'
    BY <2>3, DriverCallKeeps DEF DriverCall
  <2>4. ASSUME NEW n \in Names, DestroyVM(n) PROVE PInv'
    BY <2>4, DestroyKeeps
  <2>5. ASSUME NEW n \in Names, BuildNetwork(n) PROVE PInv'
    BY <2>5, BuildKeeps
  <2>6. ASSUME NEW n \in Names, TeardownNetwork(n) PROVE PInv'
    BY <2>6, TeardownKeeps
  <2>7. CASE UNCHANGED vars
    BY <2>7 DEF vars, pvars, dvars, SInv, PInv, P!TypeOK, StoppedNoSpec,
                LiveSpecShape, P!OwnRulesInstalled
  <2>. QED
    BY <2>1, <2>2, <2>3, <2>4, <2>5, <2>6, <2>7 DEF Next
<1>. QED
  BY <1>1, <1>2 DEF SInv, PInv

-----------------------------------------------------------------------------
(* The properties of MC_System *)

(* Every rule of a running task's spec forwards to the address of its    *)
(* registered VM: CreateDomain refusing an existing name keeps that       *)
(* address from changing under the forwards.                               *)
LEMMA TargetFromSInv == SInv => RunningForwardsTargetOwnVM
<1> SUFFICES ASSUME SInv, NEW n \in P!Running
             PROVE  /\ n \in processes
                    /\ \A i \in 1 .. Len(spec[n]) : spec[n][i].dst[1] = procIP[n]
  BY DEF RunningForwardsTargetOwnVM
<1>1. n \in Names /\ n \in processes
      /\ spec[n] \in {<<>>, P!RuleList(n, procIP[n])}
  BY DEF P!Running, SInv, LiveSpecShape
<1>2. procIP[n] \in D!IPValue
  BY <1>1, RegisteredAddr DEF SInv
<1>. QED
  BY <1>1, <1>2, InstanceAssumptions, P!RuleListTarget

(* The copies of a rule the running tasks list are installed: the specs   *)
(* of two running tasks are disjoint because their VMs hold distinct      *)
(* addresses (LiveListsDisjoint).                                          *)
LEMMA InstalledFromSInv == SInv => SystemForwardsInstalled
<1> SUFFICES ASSUME SInv PROVE P!RunningForwardsInstalled
  BY DEF SystemForwardsInstalled
<1>1. P!RunningSpecsDisjoint
  BY LiveListsDisjoint DEF P!RunningSpecsDisjoint, P!Running
<1>. QED
  BY <1>1, InstanceAssumptions, P!InstalledFromOwn DEF SInv

(* With Nomad destroying a VM only after its teardown returned nil, the   *)
(* forwards of every running task lead to the VM of its name, for every   *)
(* set of names, addresses and ports.                                      *)
THEOREM ForwardsTargetOwnVM == Spec => []RunningForwardsTargetOwnVM
<1>1. Init => SInv
  BY SInvInit
<1>2. SInv /\ [Next]_vars => SInv'
  BY SInvStep
<1>3. SInv => RunningForwardsTargetOwnVM
  BY TargetFromSInv
<1>. QED
  BY <1>1, <1>2, <1>3, PTL DEF Spec

(* Under the same caller, every port forward of every running task stays *)
(* in its chain, although DestroyDomain hands released addresses to new   *)
(* VMs whose filter rules coincide with the old ones.                      *)
THEOREM ForwardsInstalled == Spec => []SystemForwardsInstalled
<1>1. Init => SInv
  BY SInvInit
<1>2. SInv /\ [Next]_vars => SInv'
  BY SInvStep
<1>3. SInv => SystemForwardsInstalled
  BY InstalledFromSInv
<1>. QED
  BY <1>1, <1>2, <1>3, PTL DEF Spec

=============================================================================
