------------------------- MODULE PortForwardProofs -------------------------
(***************************************************************************)
(* Proofs about the PortForward module for every value of its constants:  *)
(* the type invariant, and that the rules of every running task stay in   *)
(* their chains (RunningForwardsInstalled) when no two tasks share a      *)
(* guest address.                                                          *)
(***************************************************************************)
EXTENDS PortForward, FiniteSetTheorems, TLAPS

(* The driver's allocator never gives one address to two VMs             *)
(* (DriverProofs!OwnershipInvariant), so no two tasks share a guest       *)
(* address.  Without it the filter rule ip:port of one task is also the   *)
(* rule of the other, and one task's teardown removes the other's.        *)
TaskIPInjective == \A t, u \in Tasks : TaskIP[t] = TaskIP[u] => t = u

(* The caller holds, for each task, either no teardown spec or the full   *)
(* list that VMStartedBuild appended for that task.                        *)
SpecShape == \A t \in Tasks : spec[t] \in {<<>>, RuleList(t, TaskIP[t])}

(* Per task: each rule a running task lists is in its chain at least as   *)
(* often as the task lists it.                                             *)
OwnRulesInstalled ==
  \A t \in Tasks, r \in Rules :
     phase[t] = "running" => Occurrences(spec[t], r) <= rules[r]

(* The inductive invariant.  SpecShape and TaskIPInjective make the lists *)
(* of two tasks disjoint, so the deletions of one task's teardown never   *)
(* touch another task's rules, and OwnRulesInstalled then sums to          *)
(* RunningForwardsInstalled.                                               *)
IInv == TypeOK /\ SpecShape /\ OwnRulesInstalled

-----------------------------------------------------------------------------
(* Lemmas about the operators of the model *)

(* A set of list positions is finite, and its size is a natural. *)
LEMMA PositionsCard ==
  ASSUME NEW n \in Nat, NEW T \in SUBSET (1 .. n)
  PROVE  /\ IsFiniteSet(T)
         /\ Cardinality(T) \in Nat
<1>1. IsFiniteSet(1 .. n)
  BY FS_Interval
<1>2. IsFiniteSet(T)
  BY <1>1, FS_Subset
<1>. QED
  BY <1>2, FS_CardinalityType

(* A rule occurs a natural number of times in a list, and none when the    *)
(* list does not hold it.                                                  *)
LEMMA OccurrencesNat ==
  ASSUME NEW S, NEW s \in Seq(S), NEW r
  PROVE  /\ Occurrences(s, r) \in Nat
         /\ (\A i \in 1 .. Len(s) : s[i] # r) => Occurrences(s, r) = 0
<1>1. Occurrences(s, r) \in Nat
  <2>1. Len(s) \in Nat /\ {i \in 1 .. Len(s) : s[i] = r} \in SUBSET (1 .. Len(s))
    OBVIOUS
  <2>. QED
    BY <2>1, PositionsCard DEF Occurrences
<1>2. ASSUME \A i \in 1 .. Len(s) : s[i] # r
      PROVE  Occurrences(s, r) = 0
  <2>1. {i \in 1 .. Len(s) : s[i] = r} = {}
    BY <1>2
  <2>. QED
    BY <2>1, FS_EmptySet DEF Occurrences
<1>. QED
  BY <1>1, <1>2

(* The list configureIPTables appends is a list of rules, two per port. *)
LEMMA RuleListType ==
  ASSUME NEW t \in Tasks, NEW ip \in GuestIPs
  PROVE  /\ RuleList(t, ip) \in Seq(Rules)
         /\ Len(RuleList(t, ip)) = 2 * Len(TaskPorts[t])
<1>1. TaskPorts[t] \in Seq(Labels)
  BY PortForwardInputs
<1>2. \A i \in 1 .. 2 * Len(TaskPorts[t]) :
         /\ i % 2 = 1 => (i + 1) \div 2 \in 1 .. Len(TaskPorts[t])
         /\ i % 2 # 1 => i \div 2 \in 1 .. Len(TaskPorts[t])
  BY <1>1
<1>3. RuleList(t, ip) \in [1 .. 2 * Len(TaskPorts[t]) -> Rules]
  BY <1>1, <1>2 DEF RuleList, Rules
<1>4. 2 * Len(TaskPorts[t]) \in Nat
  BY <1>1
<1>. QED
  BY <1>3, <1>4

(* Appending a list of rules keeps a bag of rules and only adds copies. *)
LEMMA AppendAllType ==
  ASSUME TypeOK, NEW s \in Seq(Rules)
  PROVE  /\ AppendAll(s) \in [Rules -> Nat]
         /\ \A r \in Rules : AppendAll(s)[r] = rules[r] + Occurrences(s, r)
BY OccurrencesNat DEF AppendAll, TypeOK

(* Deleting rules keeps a bag of rules, and leaves alone every rule the    *)
(* list does not hold.                                                     *)
LEMMA DeleteIfExistsAllType ==
  ASSUME TypeOK, NEW s \in Seq(Rules), NEW failed
  PROVE  /\ DeleteIfExistsAll(s, failed) \in [Rules -> Nat]
         /\ \A r \in Rules : (\A i \in 1 .. Len(s) : s[i] # r) =>
               DeleteIfExistsAll(s, failed)[r] = rules[r]
<1> DEFINE Count(r) == Cardinality({i \in 1 .. Len(s) \ failed : s[i] = r})
<1>1. ASSUME NEW r \in Rules
      PROVE  /\ Count(r) \in Nat
             /\ DeleteIfExistsAll(s, failed)[r] =
                  IF rules[r] > Count(r) THEN rules[r] - Count(r) ELSE 0
  <2>1. Len(s) \in Nat
        /\ {i \in 1 .. Len(s) \ failed : s[i] = r} \in SUBSET (1 .. Len(s))
    OBVIOUS
  <2>. QED
    BY <2>1, PositionsCard DEF DeleteIfExistsAll
<1>2. ASSUME NEW r \in Rules, \A i \in 1 .. Len(s) : s[i] # r
      PROVE  Count(r) = 0
  <2>1. {i \in 1 .. Len(s) \ failed : s[i] = r} = {}
    BY <1>2
  <2>. QED
    BY <2>1, FS_EmptySet
<1>3. rules \in [Rules -> Nat]
  BY DEF TypeOK
<1>4. ASSUME NEW r \in Rules
      PROVE  DeleteIfExistsAll(s, failed)[r] \in Nat
  <2>1. Count(r) \in Nat /\ rules[r] \in Nat
    BY <1>1, <1>3
  <2>. QED
    BY <2>1, <1>1
<1>5. DeleteIfExistsAll(s, failed) \in [Rules -> Nat]
  BY <1>4 DEF DeleteIfExistsAll
<1>6. ASSUME NEW r \in Rules, \A i \in 1 .. Len(s) : s[i] # r
      PROVE  DeleteIfExistsAll(s, failed)[r] = rules[r]
  <2>1. Count(r) = 0 /\ rules[r] \in Nat
    BY <1>2, <1>3, <1>6
  <2>. QED
    BY <2>1, <1>1
<1>. QED
  BY <1>5, <1>6

-----------------------------------------------------------------------------
(* Type correctness *)

LEMMA TypeOKInit == Init => TypeOK
<1> SUFFICES ASSUME Init PROVE TypeOK
  OBVIOUS
<1>1. MaxInits \in Nat /\ MaxStarts \in Nat
  BY PortForwardInputs
<1>2. rules \in [Rules -> Nat]
  BY DEF Init
<1>3. spec \in [Tasks -> Seq(Rules)]
  BY DEF Init
<1>4. inits \in 0 .. MaxInits /\ starts \in [Tasks -> 0 .. MaxStarts]
  BY <1>1 DEF Init
<1>. QED
  BY <1>2, <1>3, <1>4 DEF Init, TypeOK, Phases

(* The spec a build hands the caller, and the bag after its Appends. *)
LEMMA BuildType ==
  ASSUME TypeOK, NEW t \in Tasks, NEW ip \in GuestIPs
  PROVE  LET L == RuleList(t, ip)
         IN  /\ L \in Seq(Rules)
             /\ \A j \in 0 .. Len(L) : AppendAll(SubSeq(L, 1, j)) \in [Rules -> Nat]
<1> DEFINE L == RuleList(t, ip)
<1>2. L \in Seq(Rules)
  BY RuleListType
<1>3. ASSUME NEW j \in 0 .. Len(L)
      PROVE  AppendAll(SubSeq(L, 1, j)) \in [Rules -> Nat]
  <2>1. SubSeq(L, 1, j) \in Seq(Rules)
    BY <1>2
  <2>. QED
    BY <2>1, AppendAllType
<1>. QED
  BY <1>2, <1>3

(* Init keeps the types. *)
LEMMA EnsureKeepsType ==
  ASSUME TypeOK, EnsureIPTables
  PROVE  TypeOK'
<1>0. MaxInits \in Nat
  BY PortForwardInputs
<1>1. inits' \in 0 .. MaxInits
  BY <1>0 DEF EnsureIPTables, TypeOK
<1>2. /\ natChain' \in BOOLEAN /\ filterChain' \in BOOLEAN
      /\ natJump' \in Nat /\ filterJump' \in Nat
      /\ initOK' \in BOOLEAN
  <2>1. CASE /\ initOK' = FALSE
             /\ UNCHANGED <<natChain, filterChain, natJump, filterJump>>
    BY <2>1 DEF TypeOK
  <2>2. CASE \E okN, okNI, okF, okFI \in BOOLEAN :
               LET natCreated == okN /\ ~natChain
                   reachF == okN /\ (natCreated => okNI)
                   filterCreated == reachF /\ okF /\ ~filterChain
               IN  /\ natChain' = (natChain \/ okN)
                   /\ natJump' = natJump + (IF natCreated /\ okNI THEN 1 ELSE 0)
                   /\ filterChain' = (filterChain \/ (reachF /\ okF))
                   /\ filterJump' = filterJump + (IF filterCreated /\ okFI THEN 1 ELSE 0)
                   /\ initOK' = (reachF /\ okF /\ (filterCreated => okFI))
    <3>1. PICK okN, okNI, okF, okFI \in BOOLEAN :
               LET natCreated == okN /\ ~natChain
                   reachF == okN /\ (natCreated => okNI)
                   filterCreated == reachF /\ okF /\ ~filterChain
               IN  /\ natChain' = (natChain \/ okN)
                   /\ natJump' = natJump + (IF natCreated /\ okNI THEN 1 ELSE 0)
                   /\ filterChain' = (filterChain \/ (reachF /\ okF))
                   /\ filterJump' = filterJump + (IF filterCreated /\ okFI THEN 1 ELSE 0)
                   /\ initOK' = (reachF /\ okF /\ (filterCreated => okFI))
      BY <2>2
    <3>. QED
      BY <3>1 DEF TypeOK
  <2>. QED
    BY <2>1, <2>2 DEF EnsureIPTables
<1>3. UNCHANGED <<rules, phase, spec, starts>>
  BY DEF EnsureIPTables
<1>. QED
  BY <1>1, <1>2, <1>3 DEF TypeOK

(* A build, with any guest address, keeps the types. *)
LEMMA BuildKeepsType ==
  ASSUME TypeOK, NEW t \in Tasks, NEW ip \in GuestIPs, VMStartedBuild(t, ip)
  PROVE  TypeOK'
<1>0. MaxStarts \in Nat
  BY PortForwardInputs
<1> DEFINE L == RuleList(t, ip)
<1>1. L \in Seq(Rules)
      /\ \A j \in 0 .. Len(L) : AppendAll(SubSeq(L, 1, j)) \in [Rules -> Nat]
  BY BuildType
<1>2. AppendAll(L) \in [Rules -> Nat]
  BY <1>1, AppendAllType
<1>3. starts' \in [Tasks -> 0 .. MaxStarts]
  BY <1>0 DEF VMStartedBuild, TypeOK
<1>4. UNCHANGED <<natChain, filterChain, natJump, filterJump, initOK, inits>>
  BY DEF VMStartedBuild
<1>5. /\ rules' \in [Rules -> Nat]
      /\ spec' \in [Tasks -> Seq(Rules)]
      /\ phase' \in [Tasks -> Phases]
  <2>1. CASE UNCHANGED <<rules, phase, spec>>
    BY <2>1 DEF TypeOK
  <2>2. CASE /\ phase' = [phase EXCEPT ![t] = "running"]
             /\ spec' = [spec EXCEPT ![t] = <<>>]
             /\ UNCHANGED rules
    BY <2>2 DEF TypeOK, Phases
  <2>3. CASE \E j \in 0 .. Len(L) - 1 :
               /\ \A i \in 1 .. j : ChainExists(L[i].table)
               /\ rules' = AppendAll(SubSeq(L, 1, j))
               /\ UNCHANGED <<phase, spec>>
    <3>1. PICK j \in 0 .. Len(L) - 1 :
               /\ rules' = AppendAll(SubSeq(L, 1, j))
               /\ UNCHANGED <<phase, spec>>
      BY <2>3
    <3>2. j \in 0 .. Len(L)
      BY <1>1, <3>1
    <3>. QED
      BY <1>1, <3>1, <3>2 DEF TypeOK
  <2>4. CASE /\ rules' = AppendAll(L)
             /\ phase' = [phase EXCEPT ![t] = "running"]
             /\ spec' = [spec EXCEPT ![t] = L]
    BY <1>1, <1>2, <2>4 DEF TypeOK, Phases
  <2>. QED
    BY <2>1, <2>2, <2>3, <2>4 DEF VMStartedBuild
<1>. QED
  BY <1>3, <1>4, <1>5 DEF TypeOK

(* A teardown attempt keeps the types. *)
LEMMA TeardownKeepsType ==
  ASSUME TypeOK, NEW t \in Tasks, VMTerminatedTeardown(t)
  PROVE  TypeOK'
<1>1. CASE /\ phase[t] \in {"running", "stopping"}
           /\ phase' = [phase EXCEPT ![t] = "stopped"]
           /\ spec' = [spec EXCEPT ![t] = <<>>]
           /\ UNCHANGED <<rules, natChain, filterChain, natJump, filterJump,
                          initOK, inits, starts>>
  BY <1>1 DEF TypeOK, Phases
<1>2. ASSUME NEW failed \in SUBSET (1 .. Len(spec[t])), TeardownAttempt(t, failed)
      PROVE  TypeOK'
  <2>1. DeleteIfExistsAll(spec[t], failed) \in [Rules -> Nat]
    BY DeleteIfExistsAllType DEF TypeOK
  <2>2. CASE failed = {}
    <3>1. /\ rules' = DeleteIfExistsAll(spec[t], failed)
          /\ phase' = [phase EXCEPT ![t] = "stopped"]
          /\ spec' = [spec EXCEPT ![t] = <<>>]
          /\ UNCHANGED <<natChain, filterChain, natJump, filterJump,
                         initOK, inits, starts>>
      BY <1>2, <2>2 DEF TeardownAttempt
    <3>. QED
      BY <2>1, <3>1 DEF TypeOK, Phases
  <2>3. CASE failed # {}
    BY <1>2, <2>1, <2>3 DEF TeardownAttempt, TypeOK, Phases
  <2>. QED
    BY <2>2, <2>3
<1>. QED
  BY <1>1, <1>2 DEF VMTerminatedTeardown

LEMMA TypeOKStep == TypeOK /\ [Next]_vars => TypeOK'
<1> SUFFICES ASSUME TypeOK, [Next]_vars PROVE TypeOK'
  OBVIOUS
<1>1. CASE EnsureIPTables
  BY <1>1, EnsureKeepsType
<1>2. ASSUME NEW t \in Tasks, VMStartedBuild(t, TaskIP[t])
      PROVE  TypeOK'
  <2>1. TaskIP[t] \in GuestIPs
    BY PortForwardInputs
  <2>. QED
    BY <1>2, <2>1, BuildKeepsType
<1>3. ASSUME NEW t \in Tasks, VMTerminatedTeardown(t)
      PROVE  TypeOK'
  BY <1>3, TeardownKeepsType
<1>4. CASE UNCHANGED vars
  BY <1>4 DEF vars, TypeOK
<1>. QED
  BY <1>1, <1>2, <1>3, <1>4 DEF Next

(* Every reachable state is well typed: the bag of rules counts copies,   *)
(* and each task's teardown spec is a list of rules, through every build, *)
(* partial teardown and Init the controller makes.                        *)
THEOREM TypeCorrect == Spec => []TypeOK
BY TypeOKInit, TypeOKStep, PTL DEF Spec

-----------------------------------------------------------------------------
(* Rules have one owner *)

(* The lists configureIPTables appends for two tasks with two different  *)
(* guest addresses share no rule: a NAT rule names its task's host port,  *)
(* and a filter rule its guest address.                                    *)
LEMMA RuleListsDisjoint ==
  ASSUME NEW t \in Tasks, NEW u \in Tasks, t # u,
         NEW ipt \in GuestIPs, NEW ipu \in GuestIPs, ipt # ipu,
         NEW i \in 1 .. Len(RuleList(t, ipt)),
         NEW j \in 1 .. Len(RuleList(u, ipu))
  PROVE  RuleList(t, ipt)[i] # RuleList(u, ipu)[j]
<1>1. /\ Len(RuleList(t, ipt)) = 2 * Len(TaskPorts[t])
      /\ Len(RuleList(u, ipu)) = 2 * Len(TaskPorts[u])
      /\ TaskPorts[t] \in Seq(Labels) /\ TaskPorts[u] \in Seq(Labels)
  BY RuleListType, PortForwardInputs
<1>2. i \in 1 .. 2 * Len(TaskPorts[t]) /\ j \in 1 .. 2 * Len(TaskPorts[u])
  BY <1>1
<1>3. CASE i % 2 = 1 /\ j % 2 = 1
  BY <1>2, <1>3 DEF RuleList, NatRule
<1>4. CASE i % 2 # 1 /\ j % 2 # 1
  BY <1>2, <1>4 DEF RuleList, FilterRule
<1>5. CASE i % 2 = 1 /\ j % 2 # 1
  BY <1>2, <1>5 DEF RuleList, NatRule, FilterRule
<1>6. CASE i % 2 # 1 /\ j % 2 = 1
  BY <1>2, <1>6 DEF RuleList, NatRule, FilterRule
<1>. QED
  BY <1>3, <1>4, <1>5, <1>6

(* Every rule configureIPTables appends for a VM forwards to its address. *)
LEMMA RuleListTarget ==
  ASSUME NEW t \in Tasks, NEW ip \in GuestIPs,
         NEW i \in 1 .. Len(RuleList(t, ip))
  PROVE  RuleList(t, ip)[i].dst[1] = ip
<1>1. Len(RuleList(t, ip)) = 2 * Len(TaskPorts[t]) /\ TaskPorts[t] \in Seq(Labels)
  BY RuleListType, PortForwardInputs
<1>. QED
  BY <1>1 DEF RuleList, NatRule, FilterRule

(* In particular for the fixed addresses of PortForward's own Next. *)
LEMMA RuleListDisjoint ==
  ASSUME TaskIPInjective,
         NEW t \in Tasks, NEW u \in Tasks, t # u,
         NEW i \in 1 .. Len(RuleList(t, TaskIP[t])),
         NEW j \in 1 .. Len(RuleList(u, TaskIP[u]))
  PROVE  RuleList(t, TaskIP[t])[i] # RuleList(u, TaskIP[u])[j]
<1>1. TaskIP[t] \in GuestIPs /\ TaskIP[u] \in GuestIPs
  BY PortForwardInputs
<1>2. TaskIP[t] # TaskIP[u]
  BY DEF TaskIPInjective
<1>. QED
  BY <1>1, <1>2, RuleListsDisjoint

(* Hence, under SpecShape, a rule one task's spec lists is listed by no   *)
(* other task's spec.                                                      *)
LEMMA ListedOnce ==
  ASSUME TaskIPInjective, TypeOK, SpecShape,
         NEW t \in Tasks, NEW u \in Tasks, t # u,
         NEW k \in 1 .. Len(spec[t])
  PROVE  \A i \in 1 .. Len(spec[u]) : spec[u][i] # spec[t][k]
<1>1. spec[t] = RuleList(t, TaskIP[t])
  <2>1. spec[t] # <<>>
    BY DEF TypeOK
  <2>. QED
    BY <2>1 DEF SpecShape
<1>2. CASE spec[u] = <<>>
  BY <1>2
<1>3. CASE spec[u] = RuleList(u, TaskIP[u])
  BY <1>1, <1>3, RuleListDisjoint
<1>. QED
  BY <1>2, <1>3 DEF SpecShape

-----------------------------------------------------------------------------
(* The inductive invariant *)

LEMMA IInvInit == Init => IInv
<1> SUFFICES ASSUME Init PROVE IInv
  OBVIOUS
<1>1. TypeOK
  BY TypeOKInit
<1>2. SpecShape
  BY DEF Init, SpecShape
<1>3. OwnRulesInstalled
  BY DEF Init, OwnRulesInstalled
<1>. QED
  BY <1>1, <1>2, <1>3 DEF IInv

(* A step keeps the spec the caller holds for each task either empty or  *)
(* the task's full rule list.                                             *)
LEMMA SpecShapeStep == TypeOK /\ SpecShape /\ [Next]_vars => SpecShape'
<1> SUFFICES ASSUME TypeOK, SpecShape, [Next]_vars PROVE SpecShape'
  OBVIOUS
<1>1. CASE EnsureIPTables
  BY <1>1 DEF EnsureIPTables, SpecShape
<1>2. ASSUME NEW t \in Tasks, VMStartedBuild(t, TaskIP[t])
      PROVE  SpecShape'
  BY <1>2 DEF VMStartedBuild, SpecShape, TypeOK
<1>3. ASSUME NEW t \in Tasks, VMTerminatedTeardown(t)
      PROVE  SpecShape'
  <2>1. ASSUME NEW failed, TeardownAttempt(t, failed)
        PROVE  SpecShape'
    BY <2>1 DEF TeardownAttempt, SpecShape, TypeOK
  <2>. QED
    BY <1>3, <2>1 DEF VMTerminatedTeardown, SpecShape, TypeOK
<1>4. CASE UNCHANGED vars
  BY <1>4 DEF vars, SpecShape
<1>. QED
  BY <1>1, <1>2, <1>3, <1>4 DEF Next

(* A build for task u with any guest address ip keeps every running      *)
(* task's rules in their chains: u's own build appends them all before it *)
(* runs, and the build of another task only adds copies.                   *)
LEMMA BuildKeepsOwn ==
  ASSUME TypeOK, OwnRulesInstalled,
         NEW u \in Tasks, NEW ip \in GuestIPs, VMStartedBuild(u, ip)
  PROVE  OwnRulesInstalled'
<1> SUFFICES ASSUME NEW t \in Tasks, NEW r \in Rules, phase'[t] = "running"
             PROVE  Occurrences(spec'[t], r) <= rules'[r]
  BY DEF OwnRulesInstalled
<1> DEFINE L == RuleList(u, ip)
<1>0. /\ TypeOK'
      /\ rules[r] \in Nat /\ rules'[r] \in Nat
      /\ spec[t] \in Seq(Rules) /\ spec'[t] \in Seq(Rules)
      /\ L \in Seq(Rules)
  BY BuildKeepsType, RuleListType DEF TypeOK
<1>a. Occurrences(spec[t], r) \in Nat /\ Occurrences(spec'[t], r) \in Nat
  BY <1>0, OccurrencesNat
<1>b. Occurrences(<<>>, r) = 0
  <2>1. {i \in 1 .. Len(<<>>) : <<>>[i] = r} = {}
    OBVIOUS
  <2>. QED
    BY <2>1, FS_EmptySet DEF Occurrences
<1>1. CASE u = t
  <2>1. CASE UNCHANGED <<rules, phase, spec>>
    BY <1>1, <2>1 DEF VMStartedBuild
  <2>2. CASE /\ phase' = [phase EXCEPT ![u] = "running"]
             /\ spec' = [spec EXCEPT ![u] = <<>>]
             /\ UNCHANGED rules
    BY <1>0, <1>b, <1>1, <2>2 DEF TypeOK
  <2>3. CASE \E j \in 0 .. Len(L) - 1 :
               /\ \A i \in 1 .. j : ChainExists(L[i].table)
               /\ rules' = AppendAll(SubSeq(L, 1, j))
               /\ UNCHANGED <<phase, spec>>
    BY <1>1, <2>3 DEF VMStartedBuild
  <2>4. CASE /\ rules' = AppendAll(L)
             /\ phase' = [phase EXCEPT ![u] = "running"]
             /\ spec' = [spec EXCEPT ![u] = L]
    <3>1. rules'[r] = rules[r] + Occurrences(L, r)
      BY <1>0, <2>4, AppendAllType
    <3>2. spec'[t] = L
      BY <1>0, <1>1, <2>4 DEF TypeOK
    <3>. QED
      BY <1>0, <1>a, <3>1, <3>2
  <2>. QED
    BY <2>1, <2>2, <2>3, <2>4 DEF VMStartedBuild
<1>2. CASE u # t
  <2>1. phase'[t] = phase[t] /\ spec'[t] = spec[t]
    BY <1>2 DEF VMStartedBuild, TypeOK
  <2>2. rules'[r] >= rules[r]
    <3>1. CASE UNCHANGED rules
      BY <1>0, <3>1
    <3>2. CASE \E j \in 0 .. Len(L) - 1 : rules' = AppendAll(SubSeq(L, 1, j))
      <4>1. PICK j \in 0 .. Len(L) - 1 : rules' = AppendAll(SubSeq(L, 1, j))
        BY <3>2
      <4>2. SubSeq(L, 1, j) \in Seq(Rules)
        BY <1>0, <4>1
      <4>3. /\ Occurrences(SubSeq(L, 1, j), r) \in Nat
            /\ rules'[r] = rules[r] + Occurrences(SubSeq(L, 1, j), r)
        BY <1>0, <4>1, <4>2, AppendAllType, OccurrencesNat
      <4>. QED
        BY <1>0, <4>3
    <3>3. CASE rules' = AppendAll(L)
      BY <1>0, <3>3, AppendAllType, OccurrencesNat
    <3>. QED
      BY <3>1, <3>2, <3>3 DEF VMStartedBuild
  <2>. QED
    BY <1>0, <1>a, <2>1, <2>2 DEF OwnRulesInstalled
<1>. QED
  BY <1>1, <1>2

(* A teardown of task u keeps every running task's rules in their chains *)
(* when no other running task lists a rule of u's spec: the deletions     *)
(* touch only rules of u's spec, and u itself is no longer running.       *)
LEMMA TeardownKeepsOwn ==
  ASSUME TypeOK, OwnRulesInstalled,
         NEW u \in Tasks, VMTerminatedTeardown(u),
         \A t \in Tasks \ {u} : phase[t] = "running" =>
            \A k \in 1 .. Len(spec[t]), i \in 1 .. Len(spec[u]) :
               spec[u][i] # spec[t][k]
  PROVE  OwnRulesInstalled'
<1> SUFFICES ASSUME NEW t \in Tasks, NEW r \in Rules, phase'[t] = "running"
             PROVE  Occurrences(spec'[t], r) <= rules'[r]
  BY DEF OwnRulesInstalled
<1>0. /\ TypeOK'
      /\ rules[r] \in Nat /\ rules'[r] \in Nat
      /\ spec[t] \in Seq(Rules) /\ spec'[t] \in Seq(Rules)
  BY TeardownKeepsType DEF TypeOK
<1>a. Occurrences(spec[t], r) \in Nat
  BY <1>0, OccurrencesNat
<1>1. CASE u = t
  <2>1. phase'[t] \in {"stopped", "stopping"}
    <3>1. ASSUME NEW failed, TeardownAttempt(u, failed)
          PROVE  phase'[t] \in {"stopped", "stopping"}
      BY <1>1, <3>1 DEF TeardownAttempt, TypeOK
    <3>. QED
      BY <1>1, <3>1 DEF VMTerminatedTeardown, TypeOK
  <2>. QED
    BY <2>1
<1>2. CASE u # t
  <2>1. phase'[t] = phase[t] /\ spec'[t] = spec[t]
    <3>1. ASSUME NEW failed, TeardownAttempt(u, failed)
          PROVE  phase'[t] = phase[t] /\ spec'[t] = spec[t]
      BY <1>2, <3>1 DEF TeardownAttempt, TypeOK
    <3>. QED
      BY <1>2, <3>1 DEF VMTerminatedTeardown, TypeOK
  <2>2. CASE \A k \in 1 .. Len(spec[t]) : spec[t][k] # r
    BY <1>0, <2>1, <2>2, OccurrencesNat
  <2>3. CASE \E k \in 1 .. Len(spec[t]) : spec[t][k] = r
    <3>1. \A i \in 1 .. Len(spec[u]) : spec[u][i] # r
      BY <1>2, <2>1, <2>3
    <3>2. rules'[r] = rules[r]
      <4>1. ASSUME NEW failed, TeardownAttempt(u, failed)
            PROVE  rules'[r] = rules[r]
        <5>1. spec[u] \in Seq(Rules)
          BY DEF TypeOK
        <5>. QED
          BY <3>1, <4>1, <5>1, DeleteIfExistsAllType DEF TeardownAttempt
      <4>. QED
        BY <4>1 DEF VMTerminatedTeardown
    <3>. QED
      BY <1>0, <2>1, <3>2 DEF OwnRulesInstalled
  <2>. QED
    BY <2>2, <2>3
<1>. QED
  BY <1>1, <1>2

(* A step of PortForward's Next keeps every running task's rules in their *)
(* chains; distinct addresses give the premise of TeardownKeepsOwn.        *)
LEMMA OwnRulesStep ==
  TaskIPInjective /\ IInv /\ [Next]_vars => OwnRulesInstalled'
<1> SUFFICES ASSUME TaskIPInjective, IInv, [Next]_vars
             PROVE  OwnRulesInstalled'
  OBVIOUS
<1>0. TypeOK /\ SpecShape /\ OwnRulesInstalled
  BY DEF IInv
<1>1. CASE EnsureIPTables
  BY <1>0, <1>1 DEF EnsureIPTables, OwnRulesInstalled
<1>2. ASSUME NEW u \in Tasks, VMStartedBuild(u, TaskIP[u])
      PROVE  OwnRulesInstalled'
  <2>1. TaskIP[u] \in GuestIPs
    BY PortForwardInputs
  <2>. QED
    BY <1>0, <1>2, <2>1, BuildKeepsOwn
<1>3. ASSUME NEW u \in Tasks, VMTerminatedTeardown(u)
      PROVE  OwnRulesInstalled'
  <2>1. \A t \in Tasks \ {u} : phase[t] = "running" =>
           \A k \in 1 .. Len(spec[t]), i \in 1 .. Len(spec[u]) :
              spec[u][i] # spec[t][k]
    BY <1>0, ListedOnce
  <2>. QED
    BY <1>0, <1>3, <2>1, TeardownKeepsOwn
<1>4. CASE UNCHANGED vars
  BY <1>0, <1>4 DEF vars, OwnRulesInstalled
<1>. QED
  BY <1>1, <1>2, <1>3, <1>4 DEF Next

LEMMA IInvStep == TaskIPInjective /\ IInv /\ [Next]_vars => IInv'
BY TypeOKStep, SpecShapeStep, OwnRulesStep DEF IInv

(* Running tasks whose specs share no rule. *)
RunningSpecsDisjoint ==
  \A t, u \in Running : t # u =>
     \A i \in 1 .. Len(spec[t]), j \in 1 .. Len(spec[u]) : spec[t][i] # spec[u][j]

(* When no two running tasks list a common rule, the copies of a rule the *)
(* running tasks list are the copies its one owner lists, which            *)
(* OwnRulesInstalled bounds.                                               *)
LEMMA InstalledFromOwn ==
  TypeOK /\ OwnRulesInstalled /\ RunningSpecsDisjoint => RunningForwardsInstalled
<1> SUFFICES ASSUME TypeOK, OwnRulesInstalled, RunningSpecsDisjoint,
                    NEW r \in Rules
             PROVE  ListedBy(Running, r) <= rules[r]
  BY DEF RunningForwardsInstalled
<1>0. rules[r] \in Nat
  BY DEF TypeOK
<1> DEFINE Pos(t) == {j \in 1 .. Len(spec[t]) : spec[t][j] = r}
           U == UNION {{<<t, i>> : i \in Pos(t)} : t \in Running}
<1>1. ListedBy(Running, r) = Cardinality(U)
  BY DEF ListedBy
<1>2. CASE \E o \in Running : Pos(o) # {}
  <2>1. PICK o \in Running : Pos(o) # {}
    BY <1>2
  <2>2. PICK k \in 1 .. Len(spec[o]) : spec[o][k] = r
    BY <2>1
  <2>3. o \in Tasks /\ spec[o] \in Seq(Rules) /\ phase[o] = "running"
    BY <2>1 DEF TypeOK, Running
  <2>4. U \subseteq {<<o, i>> : i \in Pos(o)}
    <3> SUFFICES ASSUME NEW t \in Running, NEW i \in Pos(t)
                 PROVE  t = o
      OBVIOUS
    <3>1. i \in 1 .. Len(spec[t]) /\ spec[t][i] = r
      OBVIOUS
    <3>. QED
      BY <2>1, <2>2, <3>1 DEF RunningSpecsDisjoint
  <2>5. IsFiniteSet(Pos(o)) /\ Cardinality(Pos(o)) = Occurrences(spec[o], r)
    <3>1. Len(spec[o]) \in Nat /\ Pos(o) \in SUBSET (1 .. Len(spec[o]))
      BY <2>3
    <3>. QED
      BY <3>1, PositionsCard DEF Occurrences
  <2>6. /\ IsFiniteSet({<<o, i>> : i \in Pos(o)})
        /\ Cardinality({<<o, i>> : i \in Pos(o)}) <= Cardinality(Pos(o))
    <3> DEFINE f == [i \in Pos(o) |-> <<o, i>>]
    <3>1. f \in Surjection(Pos(o), {<<o, i>> : i \in Pos(o)})
      BY DEF Surjection
    <3>. QED
      BY <2>5, <3>1, FS_Surjection
  <2>7. Cardinality(U) <= Cardinality({<<o, i>> : i \in Pos(o)})
    BY <2>4, <2>6, FS_Subset
  <2>8. Occurrences(spec[o], r) <= rules[r]
    BY <2>3 DEF OwnRulesInstalled
  <2>9. Cardinality(U) \in Nat /\ Cardinality({<<o, i>> : i \in Pos(o)}) \in Nat
        /\ Cardinality(Pos(o)) \in Nat
    BY <2>4, <2>5, <2>6, FS_Subset, FS_CardinalityType
  <2>. QED
    BY <1>0, <1>1, <2>5, <2>6, <2>7, <2>8, <2>9
<1>3. CASE \A o \in Running : Pos(o) = {}
  <2>1. U = {}
    BY <1>3
  <2>2. Cardinality(U) = 0
    BY <2>1, FS_EmptySet
  <2>. QED
    BY <1>0, <1>1, <2>2
<1>. QED
  BY <1>2, <1>3

(* In PortForward's own Next, distinct addresses make the specs disjoint. *)
LEMMA InstalledFromIInv ==
  TaskIPInjective /\ IInv => RunningForwardsInstalled
<1> SUFFICES ASSUME TaskIPInjective, IInv PROVE RunningForwardsInstalled
  OBVIOUS
<1>1. RunningSpecsDisjoint
  BY ListedOnce DEF IInv, RunningSpecsDisjoint, Running
<1>. QED
  BY <1>1, InstalledFromOwn DEF IInv

(* Every port forward of a running task stays in place, for every set of  *)
(* tasks, ports and addresses in which no two tasks share a guest address *)
(* (as the driver's allocator ensures): no failed build, partial teardown *)
(* or retry of VMTerminatedTeardown, of the same task or of another,      *)
(* removes a rule a running task's teardown spec lists.                    *)
THEOREM ForwardsInstalled ==
  ASSUME TaskIPInjective
  PROVE  Spec => []RunningForwardsInstalled
<1>1. Init => IInv
  BY IInvInit
<1>2. IInv /\ [Next]_vars => IInv'
  BY IInvStep
<1>3. IInv => RunningForwardsInstalled
  BY InstalledFromIInv
<1>. QED
  BY <1>1, <1>2, <1>3, PTL DEF Spec

=============================================================================
