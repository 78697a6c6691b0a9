---------------------------- MODULE DriverProofs ----------------------------
(***************************************************************************)
(* Proofs about the Driver module for every value of its constants: the   *)
(* type invariant, address ownership (IPOwnership) and that no creation   *)
(* leaves a half-constructed VM (NoHalfConstructedVM).                     *)
(***************************************************************************)
EXTENDS Driver, TLAPS

(* The steps of CreateDomain that can fail after the address is taken. *)
FailSteps == {"cloudinit", "network", "virtiofsd", "vmconfig", "vfio",
              "start", "boot"}

-----------------------------------------------------------------------------
(* Lemmas about the operators of the model *)

(* Every error path of CreateDomain undoes all that the steps before it  *)
(* made on the host (VFIO bindings aside, which Keep does not cover).    *)
LEMMA NothingLeftover ==
  ASSUME NEW e \in FailSteps
  PROVE  Leftover(e) = {}
BY DEF FailSteps, Leftover, FailurePath, CleanupNetworking, StopVirtiofsd,
       CleanupProcess, DeallocateIP

(* Hence Keep leaves each set as it is. *)
LEMMA KeepIsIdentity ==
  ASSUME NEW S, NEW x, NEW r, NEW e \in FailSteps
  PROVE  Keep(S, x, r, e) = S
BY NothingLeftover DEF Keep

(* The devices named by a request, and any prefix of it, are devices. *)
LEMMA RequestDevices ==
  ASSUME NEW devs \in DeviceRequests
  PROVE  /\ Range(devs) \subseteq Devices
         /\ \A i \in 1 .. Len(devs) :
               Range(SubSeq(devs, 1, i - 1)) \subseteq Devices
<1>1. devs \in Seq(Devices)
  BY InputsWellFormed DEF WellFormedInputs
<1>2. Range(devs) \subseteq Devices
  BY <1>1 DEF Range
<1>3. ASSUME NEW i \in 1 .. Len(devs)
      PROVE  Range(SubSeq(devs, 1, i - 1)) \subseteq Devices
  BY <1>1 DEF Range
<1>. QED  BY <1>2, <1>3

(* Each vfio value a failed addVFIODevices may leave is a set of devices. *)
LEMMA VFIOFailureType ==
  ASSUME NEW devs \in DeviceRequests, vfio \subseteq Devices
  PROVE  AddVFIOFailures(devs) \subseteq SUBSET Devices
BY RequestDevices DEF AddVFIOFailures

-----------------------------------------------------------------------------
(* Type correctness *)

(* The initial state is well typed. *)
LEMMA TypeOKInit == Init => TypeOK
<1> SUFFICES ASSUME Init PROVE TypeOK
  OBVIOUS
<1>1. OtherResult("init", "none") \in Results
  BY DEF OtherResult, Results, Ops, Errs
<1>2. procIP \in [Names -> IPValue \cup {NoIP}]
  BY DEF Init
<1>. QED
  BY <1>1, <1>2 DEF Init, TypeOK

(* Every call, exit and sweep keeps the state well typed. *)
LEMMA TypeOKStep == TypeOK /\ [Next]_vars => TypeOK'
<1> SUFFICES ASSUME TypeOK, [Next]_vars PROVE TypeOK'
  OBVIOUS
<1>1. ASSUME NEW n \in Names, NEW s \in StaticIPs \cup {NoStatic},
             NEW devs \in DeviceRequests, CreateDomain(n, s, devs)
      PROVE  TypeOK'
  <2>1. CASE \E e \in Errs : Refuse(e, s)
    BY <2>1 DEF Refuse, CreateResult, TypeOK, Results, Ops
  <2>2. ASSUME NEW ip \in IPValue, Launch(n, ip, s, devs)
        PROVE  TypeOK'
    <3>1. ASSUME NEW e \in FailSteps, Abort(n, ip, s, e),
                 vfio' \subseteq Devices
          PROVE  TypeOK'
      BY <3>1, KeepIsIdentity
      DEF Abort, CreateResult, TypeOK, Results, Ops, Errs, FailSteps
    <3>2. CASE Booted(n, ip, s, devs)
      BY <3>2, RequestDevices
      DEF Booted, CreateResult, TypeOK, Results, Ops, Errs
    <3>3. QED
      BY <2>2, <3>1, <3>2, VFIOFailureType, RequestDevices
      DEF Launch, FailSteps, TypeOK
  <2>3. QED
    BY <1>1, <2>1, <2>2 DEF CreateDomain, Errs
<1>2. ASSUME NEW n \in Names, StopDomain(n)
      PROVE  TypeOK'
  BY <1>2 DEF StopDomain, OtherResult, TypeOK, Results, Ops, Errs
<1>3. ASSUME NEW n \in Names, DestroyDomain(n)
      PROVE  TypeOK'
  BY <1>3 DEF DestroyDomain, OtherResult, TypeOK, Results, Ops, Errs
<1>4. ASSUME NEW n \in Names, VMMExit(n)
      PROVE  TypeOK'
  BY <1>4 DEF VMMExit, OtherResult, TypeOK, Results, Ops, Errs
<1>5. CASE MonitorCtx
  BY <1>5 DEF MonitorCtx, OtherResult, TypeOK, Results, Ops, Errs
<1>6. CASE UNCHANGED vars
  BY <1>6 DEF vars, TypeOK
<1>7. QED
  BY <1>1, <1>2, <1>3, <1>4, <1>5, <1>6 DEF Next

(* The state of the driver is well typed in every reachable state: in     *)
(* particular every address is an address or the unparsed static string, *)
(* and only devices of the host are ever bound to vfio-pci.               *)
THEOREM TypeCorrect == Spec => []TypeOK
BY TypeOKInit, TypeOKStep, PTL DEF Spec

-----------------------------------------------------------------------------
(* Address ownership and host resources *)

(* The inductive invariant: the two properties need only the types.       *)
Inv == TypeOK /\ IPOwnership /\ NoHalfConstructedVM

(* A creation that gets as far as an address takes one nobody holds.      *)
LEMMA AllocationIsFree ==
  ASSUME NEW s, NEW ip,
         \/ s # NoStatic /\ StaticAllocation(s, ip)
         \/ s = NoStatic /\ PoolAllocation(ip)
  PROVE  ip \notin allocatedIPs
BY DEF StaticAllocation, PoolAllocation, FreePool

(* Booted registers the new VM with the fresh address it was handed.      *)
LEMMA BootedKeepsInv ==
  ASSUME Inv, NEW n \in Names, n \notin processes,
         NEW ip \in IPValue, ip \notin allocatedIPs,
         NEW s \in StaticIPs \cup {NoStatic}, NEW devs \in DeviceRequests,
         Booted(n, ip, s, devs)
  PROVE  IPOwnership' /\ NoHalfConstructedVM'
<1>1. \A m \in processes : procIP[m] # ip
  BY DEF Inv, IPOwnership
<1>2. allocatedIPs' = {procIP'[m] : m \in processes'}
  BY <1>1 DEF Booted, Inv, IPOwnership, TypeOK
<1>3. \A m, k \in processes' : m # k => procIP'[m] # procIP'[k]
  BY <1>1 DEF Booted, Inv, IPOwnership, TypeOK
<1>4. NoHalfConstructedVM'
  BY DEF Booted, Inv, NoHalfConstructedVM
<1>. QED  BY <1>2, <1>3, <1>4 DEF IPOwnership

(* DestroyDomain releases the address of the VM it removes, and only it.  *)
LEMMA DestroyKeepsInv ==
  ASSUME Inv, NEW n \in Names, DestroyDomain(n)
  PROVE  IPOwnership' /\ NoHalfConstructedVM'
<1>1. CASE n \notin processes
  BY <1>1 DEF DestroyDomain, Inv, IPOwnership, NoHalfConstructedVM
<1>2. CASE n \in processes
  <2>1. allocatedIPs' = {procIP'[m] : m \in processes'}
    BY <1>2 DEF DestroyDomain, Inv, IPOwnership, TypeOK
  <2>2. \A m, k \in processes' : m # k => procIP'[m] # procIP'[k]
    BY <1>2 DEF DestroyDomain, Inv, IPOwnership, TypeOK
  <2>3. NoHalfConstructedVM'
    BY <1>2 DEF DestroyDomain, Inv, NoHalfConstructedVM
  <2>. QED  BY <2>1, <2>2, <2>3 DEF IPOwnership
<1>. QED  BY <1>1, <1>2

(* The inductive invariant holds initially. *)
LEMMA InvInit == Init => Inv
BY TypeOKInit DEF Init, Inv, IPOwnership, NoHalfConstructedVM

(* Every call, exit and sweep preserves the inductive invariant. *)
LEMMA InvStep == Inv /\ [Next]_vars => Inv'
<1> SUFFICES ASSUME Inv, [Next]_vars PROVE Inv'
  OBVIOUS
<1>0. TypeOK'
  BY TypeOKStep DEF Inv
<1>1. ASSUME NEW n \in Names, NEW s \in StaticIPs \cup {NoStatic},
             NEW devs \in DeviceRequests, CreateDomain(n, s, devs)
      PROVE  Inv'
  <2>1. CASE \E e \in Errs : Refuse(e, s)
    BY <1>0, <2>1 DEF Refuse, Inv, IPOwnership, NoHalfConstructedVM
  <2>2. ASSUME NEW ip \in IPValue, n \notin processes,
               \/ s # NoStatic /\ StaticAllocation(s, ip)
               \/ s = NoStatic /\ PoolAllocation(ip),
               Launch(n, ip, s, devs)
        PROVE  Inv'
    <3>1. ip \notin allocatedIPs
      BY <2>2, AllocationIsFree
    <3>2. ASSUME NEW e \in FailSteps, Abort(n, ip, s, e)
          PROVE  Inv'
      BY <1>0, <3>2, KeepIsIdentity
      DEF Abort, Inv, IPOwnership, NoHalfConstructedVM
    <3>3. CASE Booted(n, ip, s, devs)
      BY <1>0, <2>2, <3>1, <3>3, BootedKeepsInv DEF Inv
    <3>4. QED
      BY <2>2, <3>2, <3>3 DEF Launch, FailSteps
  <2>3. QED
    BY <1>1, <2>1, <2>2 DEF CreateDomain, Errs
<1>2. ASSUME NEW n \in Names, StopDomain(n)
      PROVE  Inv'
  BY <1>0, <1>2 DEF StopDomain, Inv, IPOwnership, NoHalfConstructedVM
<1>3. ASSUME NEW n \in Names, DestroyDomain(n)
      PROVE  Inv'
  BY <1>0, <1>3, DestroyKeepsInv DEF Inv
<1>4. ASSUME NEW n \in Names, VMMExit(n)
      PROVE  Inv'
  BY <1>0, <1>4 DEF VMMExit, Inv, IPOwnership, NoHalfConstructedVM
<1>5. CASE MonitorCtx
  BY <1>0, <1>5 DEF MonitorCtx, Inv, IPOwnership, NoHalfConstructedVM
<1>6. CASE UNCHANGED vars
  BY <1>0, <1>6 DEF vars, Inv, IPOwnership, NoHalfConstructedVM
<1>7. QED
  BY <1>1, <1>2, <1>3, <1>4, <1>5, <1>6 DEF Next

(* Every address held belongs to one registered VM, and no VM part        *)
(* (TAP, virtiofsd helpers, VMM process) outlives its registry entry, for *)
(* every configuration validateNetworkConfig accepts, whichever step of   *)
(* CreateDomain fails and in any order of calls, exits and the sweep.     *)
THEOREM OwnershipInvariant == Spec => [](IPOwnership /\ NoHalfConstructedVM)
<1>1. Inv => IPOwnership /\ NoHalfConstructedVM
  BY DEF Inv
<1>. QED
  BY <1>1, InvInit, InvStep, PTL DEF Spec

(* No failure path of CreateDomain, no StopDomain, exit, DestroyDomain or  *)
(* sweep leaves a TAP interface, a virtiofsd helper or a VMM process of a *)
(* VM that is not in the registry (NoHalfConstructedVM), for every         *)
(* configuration.                                                          *)
THEOREM NoHalfConstructed == Spec => []NoHalfConstructedVM
<1>1. Inv => NoHalfConstructedVM
  BY DEF Inv
<1>. QED
  BY <1>1, InvInit, InvStep, PTL DEF Spec

-----------------------------------------------------------------------------
(* Refinement of the abstract registry *)

(* Each step of the driver is a step of the abstract registry or leaves *)
(* the registry and the addresses of registered VMs as they are.         *)
LEMMA RefinementStep ==
  Inv /\ [Next]_vars => [Abstract!Next]_<<processes, procIP>>
<1> SUFFICES ASSUME Inv, [Next]_vars
             PROVE  [Abstract!Next]_<<processes, procIP>>
  OBVIOUS
<1>1. ASSUME NEW n \in Names, NEW s \in StaticIPs \cup {NoStatic},
             NEW devs \in DeviceRequests, CreateDomain(n, s, devs)
      PROVE  [Abstract!Next]_<<processes, procIP>>
  <2>1. CASE \E e \in Errs : Refuse(e, s)
    BY <2>1 DEF Refuse
  <2>2. ASSUME NEW ip \in IPValue, n \notin processes,
               \/ s # NoStatic /\ StaticAllocation(s, ip)
               \/ s = NoStatic /\ PoolAllocation(ip),
               Launch(n, ip, s, devs)
        PROVE  [Abstract!Next]_<<processes, procIP>>
    <3>1. ASSUME NEW e \in FailSteps, Abort(n, ip, s, e)
          PROVE  UNCHANGED <<processes, procIP>>
      BY <3>1 DEF Abort
    <3>2. ASSUME Booted(n, ip, s, devs)
          PROVE  Abstract!Register(n, ip)
      <4>1. ip \notin {procIP[m] : m \in processes}
        BY <2>2, AllocationIsFree DEF Inv, IPOwnership
      <4>. QED
        BY <2>2, <3>2, <4>1 DEF Booted, Abstract!Register, Abstract!Held
    <3>. QED
      BY <2>2, <3>1, <3>2 DEF Launch, FailSteps, Abstract!Next
  <2>. QED
    BY <1>1, <2>1, <2>2 DEF CreateDomain, Errs
<1>2. ASSUME NEW n \in Names, StopDomain(n)
      PROVE  UNCHANGED <<processes, procIP>>
  BY <1>2 DEF StopDomain
<1>3. ASSUME NEW n \in Names, DestroyDomain(n)
      PROVE  [Abstract!Next]_<<processes, procIP>>
  BY <1>3 DEF DestroyDomain, Abstract!Next, Abstract!Release
<1>4. ASSUME NEW n \in Names, VMMExit(n)
      PROVE  UNCHANGED <<processes, procIP>>
  BY <1>4 DEF VMMExit
<1>5. CASE MonitorCtx
  BY <1>5 DEF MonitorCtx
<1>6. CASE UNCHANGED vars
  BY <1>6 DEF vars
<1>. QED
  BY <1>1, <1>2, <1>3, <1>4, <1>5, <1>6 DEF Next

(* The driver implements the abstract registry (AbstractSpec): a VM only  *)
(* enters the registry under a new name with an address no registered VM  *)
(* holds, and only DestroyDomain removes it, for every configuration.     *)
THEOREM Refinement == Spec => AbstractSpec
<1>1. Init => Abstract!Init
  BY DEF Init, Abstract!Init
<1>. QED
  BY <1>1, InvInit, InvStep, RefinementStep, PTL
  DEF Spec, AbstractSpec, Abstract!Spec

=============================================================================
