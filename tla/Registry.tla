------------------------------ MODULE Registry ------------------------------
(***************************************************************************)
(* Who may join the network: the HoprNodeSafeRegistry contract (which Safe *)
(* controls a node), the HoprNetworkRegistry contract (which nodes are     *)
(* admitted, and on whose account) and HoprSafeProxyForNetworkRegistry     *)
(* (how many nodes the stake of a Safe admits).  A transaction is one      *)
(* action; a call that reverts is an action that is not enabled.           *)
(***************************************************************************)
EXTENDS Naturals, FiniteSets

CONSTANTS
    Node,           \* chain addresses of nodes (none of them a contract)
    Safe,           \* Safes; each of them is also a staking account
    NoSafe,         \* address(0)
    Requirement,    \* functions: nodes admitted by the stake of each Safe
    Reverts,        \* the requirement whose stake threshold is zero
    MaxNonce        \* bound on the registrations of one node

ASSUME NodeAssumption == IsFiniteSet(Node)
ASSUME SafeAssumption == NoSafe \notin Safe
ASSUME NonceAssumption == MaxNonce \in Nat
ASSUME RequirementAssumption ==
    Requirement \subseteq [Safe -> Nat] /\ Reverts \notin Requirement

VARIABLES
    nodeToSafe,     \* HoprNodeSafeRegistry._nodeToSafe[n].safeAddress
    nodeSigNonce,   \* HoprNodeSafeRegistry._nodeToSafe[n].nodeSigNonce
    member,         \* <<s, n>>: n is a node of a management module of s
    registeredTo,   \* HoprNetworkRegistry.nodeRegisterdToAccount
    count,          \* HoprNetworkRegistry.countRegisterdNodesPerAccount
    enabled,        \* HoprNetworkRegistry.enabled
    maxAllowed,     \* the proxy's maxAllowedRegistrations
    eligible,       \* accounts whose last EligibilityUpdated event says true
    logs,           \* registry events of the last transaction, by node
    spent,          \* history: <<n, k>>, a signature of n with nonce k registered
    unsynced        \* history: accounts to be synced for eligible to be current

safeVars == <<nodeToSafe, nodeSigNonce, spent>>
countVars == <<registeredTo, count>>
ruleVars == <<enabled, maxAllowed>>
syncVars == <<eligible, unsynced>>
vars == <<safeVars, member, countVars, ruleVars, syncVars, logs>>

Signature == [node : Node, safe : Safe, nonce : 0..MaxNonce]
Log == [type : {"Registered", "Deregistered"}, node : Node]
Quiet == logs' = {}

TypeOK ==
    /\ nodeToSafe \in [Node -> Safe \cup {NoSafe}]
    /\ nodeSigNonce \in [Node -> 0..MaxNonce]
    /\ member \subseteq Safe \X Node
    /\ registeredTo \in [Node -> Safe \cup {NoSafe}]
    /\ count \in [Safe -> Nat]
    /\ enabled \in BOOLEAN
    /\ maxAllowed \in Requirement \cup {Reverts}
    /\ eligible \subseteq Safe /\ unsynced \subseteq Safe
    /\ logs \subseteq Log
    /\ spent \subseteq Node \X (0..MaxNonce)

Init ==
    /\ nodeToSafe = [n \in Node |-> NoSafe]
    /\ nodeSigNonce = [n \in Node |-> 0]
    /\ member = {}
    /\ registeredTo = [n \in Node |-> NoSafe]
    /\ count = [s \in Safe |-> 0]
    /\ enabled = TRUE
    /\ maxAllowed \in Requirement
    /\ eligible = {} /\ unsynced = Safe
    /\ logs = {} /\ spent = {}

-----------------------------------------------------------------------------
(* HoprNodeSafeRegistry and the node management module                     *)

\* addNode / removeNode: the Safe owns its module.
addNode(s, n) ==
    /\ <<s, n>> \notin member
    /\ member' = member \cup {<<s, n>>}
    /\ Quiet /\ UNCHANGED <<safeVars, countVars, ruleVars, syncVars>>

removeNode(s, n) ==
    /\ <<s, n>> \in member
    /\ member' = member \ {<<s, n>>}
    /\ Quiet /\ UNCHANGED <<safeVars, countVars, ruleVars, syncVars>>

\* Mutant: the nonce does not move, so a signature stays good.
BugAddNodeSafe(s, n) ==
    /\ nodeToSafe[n] = NoSafe
    /\ <<s, n>> \in member
    /\ nodeToSafe' = [nodeToSafe EXCEPT ![n] = s]
    /\ Quiet /\ UNCHANGED <<nodeSigNonce, member, countVars, ruleVars, syncVars>>

addNodeSafe(s, n) ==
    /\ nodeToSafe[n] = NoSafe
    /\ <<s, n>> \in member
    /\ nodeSigNonce[n] < MaxNonce
    /\ nodeToSafe' = [nodeToSafe EXCEPT ![n] = s]
    /\ nodeSigNonce' = [nodeSigNonce EXCEPT ![n] = @ + 1]
    /\ Quiet /\ UNCHANGED <<member, countVars, ruleVars, syncVars>>

registerSafeByNode(s, n) ==
    /\ addNodeSafe(s, n)
    /\ UNCHANGED spent

\* Anybody may submit a signature the node gave, now or long ago: it is
\* checked against the digest of the node's current nonce.
registerSafeWithNodeSig(sig) ==
    /\ sig.nonce = nodeSigNonce[sig.node]
    /\ addNodeSafe(sig.safe, sig.node)
    /\ spent' = spent \cup {<<sig.node, sig.nonce>>}

deregisterNodeBySafe(s, n) ==
    /\ nodeToSafe[n] = s
    /\ <<s, n>> \in member
    /\ nodeToSafe' = [nodeToSafe EXCEPT ![n] = NoSafe]
    /\ Quiet
    /\ UNCHANGED <<nodeSigNonce, spent, member, countVars, ruleVars, syncVars>>

-----------------------------------------------------------------------------
(* HoprSafeProxyForNetworkRegistry                                         *)

canOperateFor(s, n) == nodeToSafe[n] = s

\* updateStakeThreshold, updateSnapshotBlockNumber and
\* updateRequirementImplementation: the allowances change under the accounts,
\* and a threshold of zero makes every division, hence every call that needs
\* one, revert.
updateRequirement(f) ==
    /\ f # maxAllowed
    /\ maxAllowed' = f
    /\ unsynced' = Safe
    /\ Quiet
    /\ UNCHANGED <<safeVars, member, countVars, enabled, eligible>>

-----------------------------------------------------------------------------
(* HoprNetworkRegistry                                                     *)

RegisteredOf(s, r) == {n \in Node : r[n] = s}

checkEligibility(s, c) == maxAllowed[s] # 0 /\ c[s] <= maxAllowed[s]

\* Mutant: only a gain of eligibility is published.
BugSync(s, c) ==
    /\ maxAllowed # Reverts
    /\ eligible' = IF checkEligibility(s, c) THEN eligible \cup {s} ELSE eligible
    /\ unsynced' = unsynced \ {s}

\* EligibilityUpdated(s, checkEligibility(s)) with the counters c.
sync(s, c) ==
    /\ maxAllowed # Reverts
    /\ eligible' = IF checkEligibility(s, c) THEN eligible \cup {s}
                                              ELSE eligible \ {s}
    /\ unsynced' = unsynced \ {s}

enableRegistry ==
    /\ ~enabled
    /\ enabled' = TRUE
    /\ Quiet
    /\ UNCHANGED <<safeVars, member, countVars, maxAllowed, syncVars>>

disableRegistry ==
    /\ enabled
    /\ enabled' = FALSE
    /\ Quiet
    /\ UNCHANGED <<safeVars, member, countVars, maxAllowed, syncVars>>

\* The nodes of ns that have no account yet are registered; the others must be
\* the caller's already.  The allowance is checked for the resulting total.
selfRegister(s, ns) ==
    LET new == {n \in ns : registeredTo[n] = NoSafe}
    IN  /\ enabled /\ maxAllowed # Reverts
        /\ \A n \in ns : canOperateFor(s, n) /\ registeredTo[n] \in {NoSafe, s}
        /\ registeredTo' = [n \in Node |-> IF n \in new THEN s ELSE registeredTo[n]]
        /\ count' = [count EXCEPT ![s] = @ + Cardinality(new)]
        /\ checkEligibility(s, count')
        /\ sync(s, count')
        /\ logs' = [type : {"Registered"}, node : new]
        /\ UNCHANGED <<safeVars, member, ruleVars>>

\* Mutant: a node of the batch that is not registered is counted down too.
BugSelfDeregister(s, ns) ==
    /\ enabled
    /\ \A n \in ns : canOperateFor(s, n) /\ registeredTo[n] \in {NoSafe, s}
    /\ registeredTo' = [n \in Node |-> IF n \in ns THEN NoSafe ELSE registeredTo[n]]
    /\ count' = [count EXCEPT ![s] = @ - Cardinality(ns)]
    /\ sync(s, count')
    /\ logs' = [type : {"Deregistered"}, node : ns]
    /\ UNCHANGED <<safeVars, member, ruleVars>>

selfDeregister(s, ns) ==
    LET old == {n \in ns : registeredTo[n] = s}
    IN  /\ enabled
        /\ \A n \in ns : canOperateFor(s, n) /\ registeredTo[n] \in {NoSafe, s}
        /\ registeredTo' = [n \in Node |-> IF n \in old THEN NoSafe ELSE registeredTo[n]]
        /\ count' = [count EXCEPT ![s] = @ - Cardinality(old)]
        /\ sync(s, count')
        /\ logs' = [type : {"Deregistered"}, node : old]
        /\ UNCHANGED <<safeVars, member, ruleVars>>

selfSync(s) ==
    /\ enabled
    /\ sync(s, count)
    /\ Quiet /\ UNCHANGED <<safeVars, member, countVars, ruleVars>>

\* Mutant: a node that has an account already is registered over.
BugManagerRegister(s, n) ==
    /\ registeredTo' = [registeredTo EXCEPT ![n] = s]
    /\ count' = [count EXCEPT ![s] = @ + 1]
    /\ logs' = [type : {"Registered"}, node : {n}]
    /\ unsynced' = unsynced \cup {s}
    /\ UNCHANGED <<safeVars, member, ruleVars, eligible>>

\* A manager registers without the node's Safe, without an allowance, even
\* while the registry is disabled, and publishes no eligibility.
managerRegister(s, n) ==
    /\ registeredTo[n] = NoSafe
    /\ registeredTo' = [registeredTo EXCEPT ![n] = s]
    /\ count' = [count EXCEPT ![s] = @ + 1]
    /\ logs' = [type : {"Registered"}, node : {n}]
    /\ unsynced' = unsynced \cup {s}
    /\ UNCHANGED <<safeVars, member, ruleVars, eligible>>

\* Mutant: no event tells of it.
BugManagerDeregister(n) ==
    LET s == registeredTo[n]
    IN  /\ s # NoSafe
        /\ registeredTo' = [registeredTo EXCEPT ![n] = NoSafe]
        /\ count' = [count EXCEPT ![s] = @ - 1]
        /\ unsynced' = unsynced \cup {s}
        /\ Quiet /\ UNCHANGED <<safeVars, member, ruleVars, eligible>>

managerDeregister(n) ==
    LET s == registeredTo[n]
    IN  /\ s # NoSafe
        /\ registeredTo' = [registeredTo EXCEPT ![n] = NoSafe]
        /\ count' = [count EXCEPT ![s] = @ - 1]
        /\ logs' = [type : {"Deregistered"}, node : {n}]
        /\ unsynced' = unsynced \cup {s}
        /\ UNCHANGED <<safeVars, member, ruleVars, eligible>>

managerSync(s) ==
    /\ sync(s, count)
    /\ Quiet /\ UNCHANGED <<safeVars, member, countVars, ruleVars>>

managerForceSync(s, b) ==
    /\ eligible' = IF b THEN eligible \cup {s} ELSE eligible \ {s}
    /\ unsynced' = unsynced \cup {s}
    /\ Quiet /\ UNCHANGED <<safeVars, member, countVars, ruleVars>>

-----------------------------------------------------------------------------
Next ==
    \/ \E s \in Safe, n \in Node :
        \/ addNode(s, n) \/ removeNode(s, n)
        \/ registerSafeByNode(s, n) \/ deregisterNodeBySafe(s, n)
        \/ managerRegister(s, n)
    \/ \E sig \in Signature : registerSafeWithNodeSig(sig)
    \/ \E f \in Requirement \cup {Reverts} : updateRequirement(f)
    \/ enableRegistry \/ disableRegistry
    \/ \E s \in Safe, ns \in SUBSET Node : selfRegister(s, ns) \/ selfDeregister(s, ns)
    \/ \E n \in Node : managerDeregister(n)
    \/ \E s \in Safe : selfSync(s) \/ managerSync(s)
    \/ \E s \in Safe, b \in BOOLEAN : managerForceSync(s, b)

Spec == Init /\ [][Next]_vars

-----------------------------------------------------------------------------
(* Properties *)

\* The counter of an account is the number of nodes registered to it, however
\* self registrations, batches that name a node again, and registrations by a
\* manager follow each other.  The allowance check and the unsigned decrement
\* of selfDeregister rest on it.
CountIsExact == \A s \in Safe : count[s] = Cardinality(RegisteredOf(s, registeredTo))

\* A signature that has registered a Safe for its node never registers one
\* again, not even once that Safe has let the node go: its nonce is behind.
SignatureSpentOnce ==
    \A n \in Node, k \in 0..MaxNonce : <<n, k>> \in spent => k < nodeSigNonce[n]

\* What the last EligibilityUpdated event of an account says is what the
\* contract would answer now, unless the requirement changed or a manager acted
\* on the account since: every self service call publishes the outcome.
EligibilityPublished ==
    maxAllowed # Reverts =>
        \A s \in Safe \ unsynced : s \in eligible <=> checkEligibility(s, count)

\* The nodes that are registered, and the events that say so.
Admitted == INSTANCE Admission WITH admitted <- {n \in Node : registeredTo[n] # NoSafe}

\* The events of a transaction name exactly the nodes whose registration it
\* changed, in one direction: who follows the events from the start knows the
\* registered nodes.  This is what the node's side, module Access, builds on.
ImplementsAdmission == Admitted!Spec
=============================================================================
