# TLA+ models of nomad-driver-ch

TLA+ specifications, TLC runs and TLAPS proofs for the Cloud Hypervisor task
driver for Nomad. Every definition is translated from the Go source. The
`map` of `PROJECT.json` names the lines each definition stands for.

## The system

| Part | Source | State | Operations |
|---|---|---|---|
| VM Lifecycle Controller | `src/unnamed/part_003` (type `Driver`) | `d.processes` (name → `*VMProcess`) under `d.mu` | `CreateDomain`, `StopDomain`, `DestroyDomain`, `monitorCtx`, and the queries `GetDomain`, `GetInfo`, `GetNetworkInterfaces` |
| Network Allocator | same file | `d.allocatedIPs` (address string → bool), the parsed subnet, gateway and pool | `allocateIP`, the `static_ip` path of `CreateDomain`, `deallocateIP` |
| VFIO Manager | `addVFIODevices` in part_003; the manager itself is not under `src/` (only its tests, part_002) | which PCI devices are bound to `vfio-pci` on the host | validate, IOMMU check, `BindDevices`, `GetVFIOGroupPaths`, `UnbindDevices` |
| VMM Control Client | not under `src/`: `startCHProcess`, `createAndBootVM`, `shutdownVM`, `cleanupProcess`, `cleanupNetworking`, `stopVirtiofsd` | the processes, TAP devices and virtiofsd helpers on the host | start, boot, shutdown, kill, remove |
| Port-Forwarding Controller | `src/chnet/controller.go` | the `iptables` NAT and filter chains and their rules | `Init`/`ensureIPTables`, `VMStartedBuild`, `VMTerminatedTeardown` |
| Configuration, image tools, docs, release script | `src/virt`, `src/unnamed/part_000`, `src/scripts` | none | parsing and file I/O |

### How the parts interact

`CreateDomain` holds `d.mu` for its whole length. It runs these steps in order:

1. Check the registry.
2. Create the work directory.
3. Take an address, either the static one or from the pool.
4. Write cloud-init.
5. Set up the TAP device.
6. Start virtiofsd.
7. Build the VM config.
8. Bind the VFIO devices.
9. Start the cloud-hypervisor process.
10. Create and boot the VM.
11. Register the VM.

From step 4 on, each step has its own error path. Each error path calls a hand-picked subset of `deallocateIP`, `cleanupNetworking`, `stopVirtiofsd` and `cleanupProcess`.

`StopDomain` and `DestroyDomain` take the same lock. `monitorCtx` takes it as well, once the driver's context ends, and cleans up every registered VM. The chnet controller is called separately by Nomad when a VM starts or stops, with the VM's address.

### The behaviours that make it hard

- **Partial failure.** Any step of a creation can fail, and each failure has its own cleanup.
- **Shared allocator.** Pooled and static addresses share one map.
- **VFIO bindings.** These are host-wide state that several VMs touch.
- **Shutdown sweep.** The sweep races the creations waiting for the lock.
- **iptables changes.** In chnet these are not atomic and are not undone on error.

All calls on the driver are serialised by `d.mu`. The interleavings that matter are therefore between whole calls, the host's own events (a VMM process exiting) and the shutdown sweep.

## Modules

### `Driver.tla`: Lifecycle Controller, Network Allocator and VFIO bindings

**State.** The host state is kept as sets of VM names:

| Variable | What it holds |
|---|---|
| `processes` | `d.processes` |
| `procIP` | `VMProcess.IP` |
| `allocatedIPs` | the keys of `d.allocatedIPs` |
| `taps` | TAP devices |
| `helpers` | virtiofsd helpers |
| `vmm` | cloud-hypervisor processes |
| `vfio` | devices bound to vfio-pci |
| `passthrough` | the devices of each VM |
| `ctxDone` | whether the sweep has run |
| `result` | what the last call returned |

Addresses are integers. `BadIP` stands for a `static_ip` string that `netip.ParseAddr` rejects; the code still uses it as a key.

**Actions.** Each action is a whole handler:

- **`CreateDomain(n, s, devs)`.** Every early return (`exists`, work directory, static outside the subnet, static taken, pool exhausted) is a `Refuse`. After the address, `Launch` chooses among:
  - a failure at any of the seven later steps (`Abort`);
  - one of the outcomes of `addVFIODevices` (`AddVFIOFailures`);
  - success (`Booted`).
- **`FailurePath`.** A table that gives, for each failing step, the resources made before it and the ones its error path undoes. What is made and not undone stays behind.
- **`StopDomain(n)`.** Either the graceful shutdown works (nothing changes), or it fails and the VMM is killed.
- **`DestroyDomain(n)`.** Runs `cleanupProcess` and `deallocateIP`, then removes the entry. It never unbinds VFIO devices.
- **`VMMExit(n)`.** A VMM process exits on its own.
- **`MonitorCtx`.** The sweep.

**Host outcomes.** `startCHProcess`, `createAndBootVM` and `shutdownVM` are not under `src/`, so their outcome is a nondeterministic choice. The cleanup helpers are modelled from the spec by what they remove (`spec_modelled` in the map):

| Helper | Removes |
|---|---|
| `cleanupProcess` | the VMM, the helpers and the TAP |
| `cleanupNetworking` | the TAP |
| `stopVirtiofsd` | the helpers |

**Allocator.** `allocateIP` is modelled by what its loop computes: the lowest address of `PoolStart..PoolEnd` that is neither the gateway nor allocated (`PoolAllocation`). The loop itself is translated step by step in `AllocatorScan` and checked against this definition.

**Assumptions.** `NetworkConfigValid` is what `validateNetworkConfig` guarantees before `Start` succeeds. `InputsWellFormed` constrains the model's inputs.

### `MC_Driver.tla` and the runs

| Run | cfg | Result | What it shows |
|---|---|---|---|
| `driver` | `MC_Driver.cfg` | pass | `IPOwnership` and `NoHalfConstructedVM` hold and `Driver` refines `AbstractDriver` (`AbstractSpec`) |
| `driver_gateway` | `MC_Driver_gateway.cfg` | violation | a `static_ip` equal to the gateway is allocated (spec §3 says never) |
| `driver_vfio_leak` | `MC_Driver_vfioleak.cfg` | violation | a failed creation leaves devices bound to vfio-pci (spec §4.3 says completed steps are undone) |
| `driver_shutdown` | `MC_Driver_shutdown.cfg` | violation | a `CreateDomain` after the `monitorCtx` sweep leaves a VMM running |
| `driver_unbind` | `MC_Driver_unbind.cfg` | violation | the `GetVFIOGroupPaths` error path of one creation unbinds a device that a running VM uses |

**The properties of the passing run:**

- `IPOwnership`: the allocated addresses are exactly the addresses of registered VMs, pairwise distinct.
- `NoHalfConstructedVM`: no TAP, helper or VMM process exists without a registry entry.
- `AbstractSpec`: the driver refines `AbstractDriver` (see below). The mutant `CreateDomainNoExistsCheck` drops the "VM already exists" check, and TLC finds a registration of a name that is already registered.

Each property has a mutant in `PROJECT.json`. For example, dropping the "already allocated" check breaks `IPOwnership`.

**Bounds.** The run uses:

- three VM names (symmetric);
- addresses `0..8`, subnet `0..7`, gateway `3`, pool `2..4`, so the gateway sits inside the pool and the pool is exhausted by two VMs;
- static addresses `4` (inside the pool, so it collides with pooled ones), `8` (outside the subnet) and `BadIP`;
- device lists `<<>>` and `<<d1, d2>>`, so that a `BindDevices` failure can stop after the first device.

With three VMs and two pool addresses, exhaustion, reuse after destroy and static/pool collisions all happen. TLC finds about 21 500 distinct states in seconds. The gateway run uses the static set `{3, 6}` instead, so that the gateway itself is requested.

**Fairness.** None is assumed: the driver has no loop of its own that must make progress. Every property checked is a safety property.

### `AbstractDriver.tla`: what the driver promises about VM identity

`AbstractDriver` is a registry `reg` of VM names with an address `addr` per name. It has two actions:

- `Register(n, ip)`: only for a name not registered, with an address no registered VM holds;
- `Release(n)`: removes the name and its address.

`Driver` maps onto it by `reg <- processes`, `addr <- procIP` and `IPs <- IPValue` (`Driver.tla`, `Abstract`). Under this mapping:

- `Booted` is `Register`;
- `DestroyDomain` of a registered VM is `Release`;
- every failure path of `CreateDomain`, every refusal, `StopDomain`, `VMMExit` and the `monitorCtx` sweep is a stutter.

The refinement says that no sequence of driver calls, failures and exits gives an address to two registered VMs, re-registers a name, or drops a registered VM without `DestroyDomain`.

### `PortForward.tla`: Port-Forwarding Controller

**State.** The host side of iptables and the caller's view of each task:

| Variable | What it holds |
|---|---|
| `natChain`, `filterChain` | whether `NOMAD_CH_PRT` (nat) and `NOMAD_CH_FW` (filter) exist |
| `natJump`, `filterJump` | copies of the jump rules in `PREROUTING` and `FORWARD` |
| `rules` | the rules in the two chains, as a bag (`Append` adds a copy, `DeleteIfExists` removes one) |
| `initOK` | the last `Init` returned nil after using iptables |
| `phase`, `spec` | per task: stopped, running or stopping, and the teardown spec the caller holds |
| `inits`, `starts` | call counters, bounded by `MaxInits` and `MaxStarts` |

A rule is a record of what tells it apart on the host: its table, the host port (NAT only) and the guest `ip:port`. `RuleList(t, ip)` is the list `configureIPTables` appends for task `t` with guest address `ip` (`GuestIPs` is the set of addresses a task may have), for each port its NAT rule then its filter rule.

**Actions.**

- **`EnsureIPTables`** (`Controller.Init`). `iptables.New()` failing makes it a no-op. Otherwise, for the nat and then the filter chain, `ensureIPTablesChain` may fail, and the jump `Insert` runs only when the chain was created in this call, and may fail. The first failure returns.
- **`VMStartedBuild(t, ip)`.** The guest address is a parameter, so that `System` can pass the address the driver gave the VM. Four outcomes:
  - the bridge check fails, and nothing changes;
  - iptables is unavailable, so success with an empty spec;
  - `configureIPTables` fails after `j` successful `Append`s (or at an interface lookup): those rules stay, and the response carries no spec;
  - every `Append` succeeds, and the spec lists them all.

  An `Append` into a missing chain always fails.
- **`VMTerminatedTeardown(t)`.** Either iptables is unavailable (nil, and nothing is deleted), or each listed rule gets `DeleteIfExists`, some of which may fail. One attempt is `TeardownAttempt(t, failed)`, where `failed` is the set of list positions whose delete failed. A rule that is already gone counts as deleted (`DeleteIfExists`). If `failed` is empty, the task is stopped. Otherwise the caller keeps the spec and retries, because of the aggregated error. The retrying caller is modelled from the spec (section 3.5): "retries are the responsibility of the external caller".

**Fairness.** `LiveSpec` adds `WF_vars(phase[t] = "stopping" /\ TeardownAttempt(t, {}))` for each task. While a task's teardown has failed and not yet succeeded, a retry in which every delete succeeds is eventually made. The first teardown of a running task is the caller's choice and gets no fairness. This follows from the code comment at `controller.go:463-471` and from the spec's retrying caller. Only the clean attempt is fair. Failed attempts, builds and `Init` calls get no fairness, because nothing in the code forces them.

### `MC_PortForward.tla` and the runs

| Run | Result | What it shows |
|---|---|---|
| `portforward` | pass | `RunningForwardsInstalled`: every rule a running task's spec lists is in its chain, as often as the running tasks list it, whatever failed builds, partial teardowns and retries did. `TeardownCompletes` (under `LiveSpec`): a task whose teardown failed part-way is eventually stopped. This is because a retry deletes with `DeleteIfExists`, so the rules deleted before no longer block it. The mutant `TeardownAttemptStrict` makes a missing rule an error, as `Delete` would, and then the retry never succeeds |
| `portforward_orphan` | violation | `NoOrphanRules`: an `Append` failing after earlier ones leaves rules no spec lists (spec §2: the descriptor undoes exactly what was done) |
| `portforward_jump` | violation | `JumpRulesInstalled`: a failed jump `Insert` followed by a successful `Init` leaves the chain without a jump (spec §4.4) |

**Bounds.** Two tasks, with distinct guest addresses (`GuestIPs = {2, 4}`), since `IPOwnership` gives distinct addresses to registered VMs. Task `t1` forwards `http` and `ssh`, and `t2` forwards `http`, so both have a rule for guest port 80. Each task may be started twice, so that a failed build is followed by a restart, and `Init` may run twice, so that a failed `Init` is followed by a successful one. The run finds 68 183 distinct states.

**Deadlock.** It is not checked, because the bounded caller really stops once its starts and `Init` calls are used up.

### `System.tla`: the driver and the port-forwarding controller together

Nomad passes the address that `CreateDomain` gave a VM (`procIP[n]`) to `VMStartedBuild` and keeps the teardown spec for `VMTerminatedTeardown`. `System` instantiates both modules over the same variables, through their proof modules so that their lemmas can be cited: `D == INSTANCE DriverProofs` and `P == INSTANCE PortForwardProofs`. The tasks are the VM names. The guest addresses are `D!IPValue`, every key `d.allocatedIPs` can hold, the unparsed `static_ip` string included, because `VMStartedBuild` puts `GuestIPs[0]` into its rules as it is. `SystemInputs` states the assumptions of both instances. The actions are the following:

| Action | What it is |
|---|---|
| `StartVM(n)` | `D!CreateDomain` |
| `BuildNetwork(n)` | `P!VMStartedBuild(n, procIP[n])`, for a registered VM |
| `TeardownNetwork(n)` | `P!VMTerminatedTeardown(n)` |
| `StopVM(n)` | `D!StopDomain` |
| `VMMExit(n)` | the host's exit event |
| `MonitorCtx` | the shutdown sweep |
| `EnsureIPTables` | `P!EnsureIPTables` |
| `DestroyVM(n)` | `D!DestroyDomain`, which the ordered caller (`Spec`) calls only once the task's teardown has finished |

`UnorderedSpec` also allows `DestroyVMAnyTime(n)`. That is a `DestroyDomain` while a teardown is still pending, which happens after a failed teardown if the caller goes on to destroy the VM.

| Run | Result | What it shows |
|---|---|---|
| `system` | pass | `RunningForwardsTargetOwnVM`: every forward of a running task goes to the address its VM holds now. `SystemForwardsInstalled`: `RunningForwardsInstalled` of the composed system. Mutants: `CreateDomainNoExistsCheck` re-creates a registered name, which re-addresses a VM under its forwards. `FreePoolNoTakenCheck` hands out a taken address, so two tasks' rules coincide and one teardown removes the other's. |
| `system_stale_teardown` | violation | `SystemForwardsInstalled` fails under `UnorderedSpec` (9 steps). `n1` is built. Its teardown deletes the filter rule and fails on the NAT rule. `n1` is destroyed, and its address goes to `n2`, which is built. `n1`'s retried teardown then deletes `n2`'s filter rule, which is the same `ip:port` rule. The controller keys filter rules by guest address only (`controller.go:391`). |

**Bounds.** Two names, one forwarded port each, and a pool of two addresses with the gateway outside it, so that a released address is handed to the other VM. `MaxStarts = 1` and `MaxInits = 1`. There are no devices and no static addresses, since the `Driver` runs cover those. The names are symmetric (`Permutations`), which is sound because both tasks forward the same port and the properties do not name a task. The run finds 53 150 distinct states, and deadlock is checked.

### `AllocatorScan.tla`: the allocator loop, step by step

This module checks that the `Driver` model's `PoolAllocation` ("the lowest free pool address that is not the gateway") is what the code computes. It models the configuration path for real:

- `Parse` is `initializeNetworkConfig`. It applies the CIDR mask, defaults the gateway to the first address after the network address, and clears pool bounds outside the subnet.
- `Validate` is `validateNetworkConfig`.
- `Scan` is the loop of `allocateIP`, as a RECURSIVE operator in the code's order: subnet check, gateway skip, free test, end-of-pool test, and `ip.Next()` becoming invalid at the top of the address space.

`Init` ranges over every raw configuration of a 3-bit address space. That is every prefix, and every start, end and gateway, each present or absent, and Start keeps the 324 that validate. The actions are `AllocateIP` and `DeallocateIP`, so every allocated set the driver can reach comes up.

The run `allocator_scan` checks the action property `ScanFindsLowestFree`: each result of the loop is the lowest free address, and exhaustion is reported exactly when there is none. This run also justifies the assumption `NetworkConfigValid` of `Driver`. The mutant `ScanEndFirst` tests `ip == ipPoolEnd` before the free test, and TLC finds it returning "exhausted" with the last address free.

The module declares RECURSIVE, so it is used only by TLC; no theorem reaches it.

## Proofs

### `DriverProofs.tla`

- **`TypeCorrect`:** `Spec => []TypeOK`. It rests on `TypeOKInit` and `TypeOKStep`, and on these lemmas:
  - `KeepIsIdentity` (via `NothingLeftover`): every error path of `CreateDomain` undoes all the non-VFIO resources made before it;
  - `RequestDevices` and `VFIOFailureType`: every binding a failed `addVFIODevices` leaves is a set of devices.
- **`OwnershipInvariant`:** `Spec => [](IPOwnership /\ NoHalfConstructedVM)`. It holds for every set of names, addresses and devices allowed by `NetworkConfigValid` and `InputsWellFormed`.
  - The inductive invariant is `Inv == TypeOK /\ IPOwnership /\ NoHalfConstructedVM`. `TypeOK` is needed so that `procIP` is a function on `Names` when `Booted` and `DestroyDomain` update it.
  - The step has one case per action.
  - `AllocationIsFree`: both the static and the pool path hand out an address not yet allocated.
  - `BootedKeepsInv`: a fresh address for a fresh name keeps the map injective and equal to the allocated set.
  - `DestroyKeepsInv`: removing one entry and its address keeps both, because the map is injective.

- **`NoHalfConstructed`:** `Spec => []NoHalfConstructedVM`, from the same `Inv`. A registered VM always has its TAP device and helper, and an address it owns.
- **`Refinement`:** `Spec => AbstractSpec`. `Init` maps to the empty registry. `RefinementStep` shows that under `Inv` every step of `Next` is a step of `AbstractDriver!Next` or a stutter of `<<processes, procIP>>`. `Booted` is `Register` because `AllocationIsFree` and `IPOwnership` make the new address differ from every registered VM's. The invariant is therefore what carries the refinement.

### `PortForwardProofs.tla`

- **`TypeCorrect`:** `Spec => []TypeOK` for `PortForward`. The lemmas behind it:
  - `RuleListType` and `OccurrencesNat`;
  - `AppendAllType`: `AppendAll(s)[r] = rules[r] + Occurrences(s, r)`;
  - `DeleteIfExistsAllType`: a rule that `s` does not list keeps its count;
  - the per-action lemmas `EnsureKeepsType`, `BuildKeepsType` and `TeardownKeepsType`. They take the guest address as a parameter, so that `System` can use them.
- **`ForwardsInstalled`:** `ASSUME TaskIPInjective PROVE Spec => []RunningForwardsInstalled`. The hypothesis is needed. Filter rules are keyed by `ip:port` only (`controller.go:391`), so two tasks that share an address list the same filter rule, and one task's teardown removes the other's. `MC_PortForward` satisfies the hypothesis, and in the composed system the driver's `IPOwnership` provides it. The inductive invariant is `IInv == TypeOK /\ SpecShape /\ OwnRulesInstalled`:
  - `SpecShape`: the spec held for a task is empty or its full `RuleList`;
  - `OwnRulesInstalled`: a running task's own count of each rule is at most the count in the chain.

  `RunningForwardsInstalled` is not inductive, because it sums over tasks. `OwnRulesInstalled` is per task, and it needs `SpecShape` to know what a teardown deletes. The step rests on two lemmas:
  - `BuildKeepsOwn`: a build only appends;
  - `TeardownKeepsOwn`: a teardown deletes only rules that no other running task lists. `RuleListsDisjoint` (distinct addresses and distinct tasks give disjoint lists) and `ListedOnce` supply that premise.

  `InstalledFromOwn` then turns the per-task bound into the sum. When the running tasks' specs are disjoint, the copies of a rule listed by the running tasks are those of its one owner. The proof is a cardinality argument with `FS_Surjection` and `FS_Subset`.

### `SystemProofs.tla`

- **`ForwardsTargetOwnVM`:** `Spec => []RunningForwardsTargetOwnVM`.
- **`ForwardsInstalled`:** `Spec => []SystemForwardsInstalled`.

Both hold for every configuration allowed by `SystemInputs`, with the ordered caller that destroys a VM only after its teardown returned nil. The inductive invariant `SInv` has these conjuncts:

- `D!Inv`, the driver's invariant, carried over by `DriverInvStep`, because every step of `System` is a step of `D!Next` or leaves the driver alone (`DriverSteps`);
- `P!TypeOK`;
- `StoppedNoSpec`: a stopped task holds no spec;
- `LiveSpecShape`: a live task's VM is registered, and its spec is empty or the full `RuleList` for the VM's current address;
- `P!OwnRulesInstalled`.

`LiveListsDisjoint` is the heart of the proof. The specs of two tasks are disjoint, because both belong to registered VMs, which `IPOwnership` gives distinct addresses. That feeds `P!TeardownKeepsOwn` and `P!InstalledFromOwn`. `RegisteredKept` carries `LiveSpecShape` over the driver's own calls: `CreateDomain` registers only a new name, so a live task's VM keeps its address. `DestroyKeeps` carries it over `DestroyVM`, which the ordered caller invokes only for a stopped task. Under `UnorderedSpec` that step fails, and `system_stale_teardown` shows the resulting counterexample.

The TLC runs show the same properties on small instances. The proofs extend them to every instance.

**Only model-checked:**

- `TeardownCompletes`, which is liveness;
- `ScanFindsLowestFree`, whose module is RECURSIVE;
- the violations.

**Out of TLAPS's reach, and left to TLC:**

- liveness under fairness, such as `TeardownCompletes`;
- `ENABLED`;
- any fact about what a recursive definition computes for all inputs, which is why `AllocatorScan` is checked rather than proved.

## Not modelled, and why

- **The queries `GetDomain`, `GetInfo` and `GetNetworkInterfaces`.** They change no driver state. Their hazard is a stale `VMProcess` used after `RUnlock`, together with pid reuse under `Signal(0)`, and that lives in the host's pid namespace.
- **`deriveNetworkSettings`, the env file and cloud-init content.** This is string formatting with no state. `generateMAC` is a 24-bit hash of the VM name. Two names can share a MAC, but neither the code nor the spec (section 9, which asks only to reduce the risk) claims otherwise. How likely a collision is depends on the names in use, which is a question of probability, not of reachable states.
- **The query `GetDomain` (`part_003:884`).** It reads a `VMProcess` under `RLock` and then probes the pid after `RUnlock`. If the pid is reused, the answer is stale. Pid reuse is host behaviour outside the driver's state, so no property covers it.
- **Configuration (`src/virt/config.go`).** This is a declarative HCL schema. Its one function, `initDefaults`, has no caller under `src/`.
- **The image tools (`src/virt/image_tools`).** These run `qemu-img` and parse its output. That is process I/O with no state of the driver's.
- **The docs and the release script.** There is no state to interleave.
- **`Fingerprint`, `getBridgeState` and `lookupDHCPLeaseByMAC` in chnet.** They only read the host.

## Plan

1. **`Driver`.** Done: the model, the runs, and the proofs of types, ownership, no half-constructed VM, and refinement of `AbstractDriver`.
2. **`PortForward`.** Done: the model, its three runs, the liveness of teardown (TLC), and the proofs of types and of `RunningForwardsInstalled` for distinct task addresses.
3. **`System`.** Done: the composition through the VM address, with the ordered and the unordered caller, and the proofs of both of its invariants under the ordered caller.
4. **`AllocatorScan`.** Done.
5. **Driver liveness.** Under weak fairness of `VMMExit` and `MonitorCtx`: after shutdown, every VMM registered at the sweep eventually stops.
