---------------------------- MODULE PortForward ----------------------------
(***************************************************************************)
(* The Port-Forwarding Controller (src/chnet/controller.go) and the host   *)
(* iptables state it changes, driven by the Nomad caller that keeps each   *)
(* task's teardown spec and retries a failed teardown.                     *)
(*                                                                         *)
(* A rule is kept by what tells it apart on the host: its table, the host  *)
(* port it forwards from (NAT rules only) and the guest address and port   *)
(* it forwards to.  A chain holds a bag of rules: Append adds a copy,      *)
(* DeleteIfExists removes one copy if there is one.                        *)
(***************************************************************************)
EXTENDS Integers, Sequences, FiniteSets

CONSTANTS
  Tasks,       \* the tasks (VMs) the caller starts and stops
  Labels,      \* port labels of network_interface.bridge.ports
  TaskPorts,   \* cfg.Ports of each task, in order
  GuestIPs,    \* the guest addresses a VM can be given
  TaskIP,      \* the guest address the virtualizer reports for each task
  To,          \* reservedPort.To of each label (the guest port)
  MaxStarts,   \* how many times the caller may start one task
  MaxInits     \* how many times the plugin may call Init

ASSUME PortForwardInputs ==
  /\ TaskPorts \in [Tasks -> Seq(Labels)]
  /\ TaskIP \in [Tasks -> GuestIPs]
  /\ MaxStarts \in Nat /\ MaxInits \in Nat

(* The NAT rule of configureIPTables: hostIP:hostPort -> ip:to.  The host *)
(* port is reserved by Nomad for the task and label.                      *)
NatRule(t, ip, p) ==
  [table |-> "nat", src |-> <<t, p>>, dst |-> <<ip, To[p]>>]

(* The filter rule: accept new TCP connections to ip:to. *)
FilterRule(ip, p) ==
  [table |-> "filter", src |-> "any", dst |-> <<ip, To[p]>>]

Rules == {NatRule(t, ip, p) : t \in Tasks, ip \in GuestIPs, p \in Labels}
           \cup {FilterRule(ip, p) : ip \in GuestIPs, p \in Labels}

(* The rules configureIPTables appends for task t with guest address ip,  *)
(* in order: for each port, its NAT rule then its filter rule.            *)
RuleList(t, ip) ==
  LET ps == TaskPorts[t]
  IN  [i \in 1 .. 2 * Len(ps) |->
         IF i % 2 = 1 THEN NatRule(t, ip, ps[(i + 1) \div 2])
                      ELSE FilterRule(ip, ps[i \div 2])]

(* How many times r occurs in the sequence s. *)
Occurrences(s, r) == Cardinality({i \in 1 .. Len(s) : s[i] = r})

VARIABLES
  natChain,     \* the NOMAD_CH_PRT chain exists in the nat table
  filterChain,  \* the NOMAD_CH_FW chain exists in the filter table
  natJump,      \* copies of "-j NOMAD_CH_PRT" in PREROUTING
  filterJump,   \* copies of "-j NOMAD_CH_FW" in FORWARD
  rules,        \* the rules in the two chains, as a bag
  initOK,       \* the last Init returned nil after using iptables
  inits,        \* Init calls so far
  phase,        \* the caller's view of each task
  spec,         \* the teardown spec the caller holds for each task
  starts        \* VMStartedBuild calls so far for each task

vars == <<natChain, filterChain, natJump, filterJump, rules, initOK, inits,
          phase, spec, starts>>

Phases == {"stopped", "running", "stopping"}

TypeOK ==
  /\ natChain \in BOOLEAN /\ filterChain \in BOOLEAN
  /\ natJump \in Nat /\ filterJump \in Nat
  /\ rules \in [Rules -> Nat]
  /\ initOK \in BOOLEAN
  /\ inits \in 0 .. MaxInits
  /\ phase \in [Tasks -> Phases]
  /\ spec \in [Tasks -> Seq(Rules)]
  /\ starts \in [Tasks -> 0 .. MaxStarts]

ChainExists(table) == IF table = "nat" THEN natChain ELSE filterChain

(* ipt.Append of every rule of s, one after the other. *)
AppendAll(s) == [r \in Rules |-> rules[r] + Occurrences(s, r)]

-----------------------------------------------------------------------------
(* Controller.Init, that is ensureIPTables.  iptables.New() failing makes *)
(* it a no-op.  Else, for the nat chain then the filter chain:             *)
(* ensureIPTablesChain lists the                                           *)
(* chains and creates the chain if it is missing (either call can fail),   *)
(* and only when it created the chain is the jump rule inserted (which can *)
(* fail).  Any failure returns at once.  okN, okNI, okF, okFI say which    *)
(* of the four calls succeed.                                              *)
EnsureIPTables ==
  /\ inits < MaxInits
  /\ inits' = inits + 1
  /\ \/ /\ initOK' = FALSE
        /\ UNCHANGED <<natChain, filterChain, natJump, filterJump>>
     \/ \E okN, okNI, okF, okFI \in BOOLEAN :
          LET natCreated == okN /\ ~natChain
              reachF == okN /\ (natCreated => okNI)
              filterCreated == reachF /\ okF /\ ~filterChain
          IN  /\ natChain' = (natChain \/ okN)
              /\ natJump' = natJump + (IF natCreated /\ okNI THEN 1 ELSE 0)
              /\ filterChain' = (filterChain \/ (reachF /\ okF))
              /\ filterJump' = filterJump + (IF filterCreated /\ okFI THEN 1 ELSE 0)
              /\ initOK' = (reachF /\ okF /\ (filterCreated => okFI))
  /\ UNCHANGED <<rules, phase, spec, starts>>

(* Mutant: VMStartedBuild treating the error of configureIPTables as     *)
(* success, with the teardown spec of the full list.                       *)
VMStartedBuildIgnoreErr(t, ip) ==
  LET L == RuleList(t, ip) IN
  /\ phase[t] = "stopped"
  /\ starts[t] < MaxStarts
  /\ starts' = [starts EXCEPT ![t] = @ + 1]
  /\ \/ UNCHANGED <<rules, phase, spec>>
     \/ /\ phase' = [phase EXCEPT ![t] = "running"]
        /\ spec' = [spec EXCEPT ![t] = <<>>]
        /\ UNCHANGED rules
     \/ \E j \in 0 .. Len(L) :
          /\ \A i \in 1 .. j : ChainExists(L[i].table)
          /\ rules' = AppendAll(SubSeq(L, 1, j))
          /\ phase' = [phase EXCEPT ![t] = "running"]
          /\ spec' = [spec EXCEPT ![t] = L]
  /\ UNCHANGED <<natChain, filterChain, natJump, filterJump, initOK, inits>>

(* VMStartedBuild for task t, called by Nomad once its VM runs with the   *)
(* guest address ip (GuestIPs[0] of the request).                          *)
(*  - the bridge check fails: an error, nothing changed;                  *)
(*  - iptables.New() fails: success with an empty teardown spec;          *)
(*  - configureIPTables stops at the (j+1)-th Append, or at the interface *)
(*    lookup before it: the first j rules stay appended and the error     *)
(*    response carries no teardown spec;                                   *)
(*  - every Append succeeds: the teardown spec lists them all.            *)
(* Append into a chain that does not exist always fails.                  *)
VMStartedBuild(t, ip) ==
  LET L == RuleList(t, ip) IN
  /\ phase[t] = "stopped"
  /\ starts[t] < MaxStarts
  /\ starts' = [starts EXCEPT ![t] = @ + 1]
  /\ \/ UNCHANGED <<rules, phase, spec>>
     \/ /\ phase' = [phase EXCEPT ![t] = "running"]
        /\ spec' = [spec EXCEPT ![t] = <<>>]
        /\ UNCHANGED rules
     \/ \E j \in 0 .. Len(L) - 1 :
          /\ \A i \in 1 .. j : ChainExists(L[i].table)
          /\ rules' = AppendAll(SubSeq(L, 1, j))
          /\ UNCHANGED <<phase, spec>>
     \/ /\ \A i \in 1 .. Len(L) : ChainExists(L[i].table)
        /\ rules' = AppendAll(L)
        /\ phase' = [phase EXCEPT ![t] = "running"]
        /\ spec' = [spec EXCEPT ![t] = L]
  /\ UNCHANGED <<natChain, filterChain, natJump, filterJump, initOK, inits>>

(* ipt.DeleteIfExists of each rule of s whose index is not in failed: a   *)
(* rule is removed as often as it is deleted, down to none.                *)
DeleteIfExistsAll(s, failed) ==
  [r \in Rules |->
     LET k == Cardinality({i \in 1 .. Len(s) \ failed : s[i] = r})
     IN  IF rules[r] > k THEN rules[r] - k ELSE 0]

(* Mutant: the loop calling ipt.Delete instead of DeleteIfExists, so that *)
(* deleting a rule that is no longer in its chain fails.                   *)
TeardownAttemptStrict(t, failed) ==
  /\ phase[t] \in {"running", "stopping"}
  /\ \A i \in 1 .. Len(spec[t]) : rules[spec[t][i]] = 0 => i \in failed
  /\ rules' = DeleteIfExistsAll(spec[t], failed)
  /\ IF failed = {}
       THEN /\ phase' = [phase EXCEPT ![t] = "stopped"]
            /\ spec' = [spec EXCEPT ![t] = <<>>]
       ELSE /\ phase' = [phase EXCEPT ![t] = "stopping"]
            /\ UNCHANGED spec
  /\ UNCHANGED <<natChain, filterChain, natJump, filterJump, initOK, inits,
                 starts>>

(* One VMTerminatedTeardown call with iptables available: every rule of    *)
(* the spec the caller holds for t is deleted, the deletions at the        *)
(* indices in failed return errors, and the errors are collected and       *)
(* returned together.  The caller retries with the same spec until it gets *)
(* nil.                                                                     *)
TeardownAttempt(t, failed) ==
  /\ phase[t] \in {"running", "stopping"}
  /\ rules' = DeleteIfExistsAll(spec[t], failed)
  /\ IF failed = {}
       THEN /\ phase' = [phase EXCEPT ![t] = "stopped"]
            /\ spec' = [spec EXCEPT ![t] = <<>>]
       ELSE /\ phase' = [phase EXCEPT ![t] = "stopping"]
            /\ UNCHANGED spec
  /\ UNCHANGED <<natChain, filterChain, natJump, filterJump, initOK, inits,
                 starts>>

(* VMTerminatedTeardown: iptables.New() failing returns nil with nothing   *)
(* deleted; else one attempt, with any set of failing deletions.           *)
VMTerminatedTeardown(t) ==
  \/ /\ phase[t] \in {"running", "stopping"}
     /\ phase' = [phase EXCEPT ![t] = "stopped"]
     /\ spec' = [spec EXCEPT ![t] = <<>>]
     /\ UNCHANGED <<rules, natChain, filterChain, natJump, filterJump, initOK,
                    inits, starts>>
  \/ \E failed \in SUBSET (1 .. Len(spec[t])) : TeardownAttempt(t, failed)

Init ==
  /\ natChain = FALSE /\ filterChain = FALSE
  /\ natJump = 0 /\ filterJump = 0
  /\ rules = [r \in Rules |-> 0]
  /\ initOK = FALSE
  /\ inits = 0
  /\ phase = [t \in Tasks |-> "stopped"]
  /\ spec = [t \in Tasks |-> <<>>]
  /\ starts = [t \in Tasks |-> 0]

Next ==
  \/ EnsureIPTables
  \/ \E t \in Tasks : VMStartedBuild(t, TaskIP[t]) \/ VMTerminatedTeardown(t)

Spec == Init /\ [][Next]_vars

(* Nomad retries a teardown that returned an error (the comment on the     *)
(* loop of VMTerminatedTeardown relies on it), and an iptables failure is  *)
(* not permanent: while a task is in teardown after a failed attempt, a    *)
(* retry in which every deletion succeeds is eventually made.  The first   *)
(* teardown of a running task, the starts, the Init calls and the stop     *)
(* requests are the caller's choice and are not fair.                      *)
LiveSpec ==
  Spec /\ \A t \in Tasks : WF_vars(phase[t] = "stopping" /\ TeardownAttempt(t, {}))

-----------------------------------------------------------------------------
(* Properties *)

(* The copies of r listed in the teardown specs of the tasks in P. *)
ListedBy(P, r) ==
  Cardinality(UNION {{<<t, i>> : i \in {j \in 1 .. Len(spec[t]) : spec[t][j] = r}} :
                     t \in P})

Running == {t \in Tasks : phase[t] = "running"}
Live == {t \in Tasks : phase[t] # "stopped"}

(* Every port forward of a running task is in place: each rule its        *)
(* teardown spec lists is in its chain, as many times as the running       *)
(* tasks list it, whatever earlier builds, partial teardowns and retries   *)
(* of the same or other tasks did (configureIPTables, DeleteIfExists).    *)
RunningForwardsInstalled ==
  \A r \in Rules : ListedBy(Running, r) <= rules[r]

(* A task whose teardown failed is eventually torn down: the retries of   *)
(* VMTerminatedTeardown with the same spec reach an attempt that returns   *)
(* nil, although earlier partial attempts already removed some of its      *)
(* rules (DeleteIfExists treats a missing rule as deleted).                *)
TeardownCompletes ==
  \A t \in Tasks : phase[t] = "stopping" ~> phase[t] = "stopped"

(* The spec (section 2): the teardown descriptor undoes exactly what was   *)
(* done, so every rule in the driver's chains is listed by the teardown    *)
(* spec of a task not yet torn down.  configureIPTables returns no rules   *)
(* on an error after some Appends succeeded.                               *)
NoOrphanRules ==
  \A r \in Rules : rules[r] <= ListedBy(Live, r)

(* The spec (section 4.4): once Init succeeds both chains exist and are    *)
(* jump targets of PREROUTING and FORWARD.  ensureIPTables inserts a jump  *)
(* only in the call that created the chain.                                *)
JumpRulesInstalled ==
  initOK => /\ natChain /\ filterChain
            /\ natJump > 0 /\ filterJump > 0

=============================================================================
