---------------------------- MODULE RegistryProofs ----------------------------
(* Theorems about the registries, for any number of nodes and Safes and any    *)
(* requirement.                                                                *)
EXTENDS Registry, TLAPS, FiniteSetTheorems

Account == Safe \cup {NoSafe}

\* What the transactions keep: the counters are exact, which also keeps them
\* natural numbers, and signatures and eligibility are in order.
RegInv == TypeOK /\ CountIsExact /\ SignatureSpentOnce /\ EligibilityPublished

-------------------------------------------------------------------------------
(* The counting of selfRegister, selfDeregister and their managed variants     *)

\* The nodes of an account are finitely many.
LEMMA RegisteredIsFinite ==
    ASSUME NEW r, NEW s
    PROVE  /\ IsFiniteSet(RegisteredOf(s, r))
           /\ Cardinality(RegisteredOf(s, r)) \in Nat
<1>1. RegisteredOf(s, r) \in SUBSET Node
  BY DEF RegisteredOf
<1>2. IsFiniteSet(RegisteredOf(s, r))
  BY <1>1, NodeAssumption, FS_Subset
<1> QED
  BY <1>2, FS_CardinalityType

\* Registering nodes that have no account adds their number to the nodes of the
\* account and leaves the other accounts alone.
LEMMA Registering ==
    ASSUME NEW r \in [Node -> Account], NEW s \in Safe, NEW ns \in SUBSET Node,
           \A n \in ns : r[n] = NoSafe
    PROVE  LET q == [n \in Node |-> IF n \in ns THEN s ELSE r[n]]
           IN  /\ q \in [Node -> Account]
               /\ Cardinality(ns) \in Nat
               /\ Cardinality(RegisteredOf(s, q))
                    = Cardinality(RegisteredOf(s, r)) + Cardinality(ns)
               /\ \A t \in Safe \ {s} : RegisteredOf(t, q) = RegisteredOf(t, r)
<1> DEFINE q == [n \in Node |-> IF n \in ns THEN s ELSE r[n]]
<1>1. q \in [Node -> Account]
  BY DEF Account
<1>2. RegisteredOf(s, q) = RegisteredOf(s, r) \cup ns
  BY DEF RegisteredOf
<1>3. RegisteredOf(s, r) \cap ns = {}
  BY SafeAssumption DEF RegisteredOf
<1>4. IsFiniteSet(ns) /\ Cardinality(ns) \in Nat
  BY NodeAssumption, FS_Subset, FS_CardinalityType
<1>5. Cardinality(RegisteredOf(s, q))
        = Cardinality(RegisteredOf(s, r)) + Cardinality(ns) - Cardinality({})
  BY <1>2, <1>3, <1>4, RegisteredIsFinite, FS_Union
<1>6. Cardinality(RegisteredOf(s, q))
        = Cardinality(RegisteredOf(s, r)) + Cardinality(ns)
  BY <1>4, <1>5, RegisteredIsFinite, FS_EmptySet
<1>7. \A t \in Safe \ {s} : RegisteredOf(t, q) = RegisteredOf(t, r)
  BY SafeAssumption DEF RegisteredOf
<1> QED
  BY <1>1, <1>4, <1>6, <1>7

\* Removing nodes of an account takes their number off, and never more than the
\* account has.
LEMMA Deregistering ==
    ASSUME NEW r \in [Node -> Account], NEW s \in Safe,
           NEW ns \in SUBSET RegisteredOf(s, r)
    PROVE  LET q == [n \in Node |-> IF n \in ns THEN NoSafe ELSE r[n]]
           IN  /\ q \in [Node -> Account]
               /\ Cardinality(ns) \in Nat
               /\ Cardinality(RegisteredOf(s, q))
                    = Cardinality(RegisteredOf(s, r)) - Cardinality(ns)
               /\ \A t \in Safe \ {s} : RegisteredOf(t, q) = RegisteredOf(t, r)
<1> DEFINE q == [n \in Node |-> IF n \in ns THEN NoSafe ELSE r[n]]
<1>1. q \in [Node -> Account]
  BY DEF Account, RegisteredOf
<1>2. /\ RegisteredOf(s, r) = RegisteredOf(s, q) \cup ns
      /\ RegisteredOf(s, q) \cap ns = {}
  BY SafeAssumption DEF RegisteredOf
<1>3. IsFiniteSet(ns) /\ Cardinality(ns) \in Nat
  BY RegisteredIsFinite, FS_Subset, FS_CardinalityType
<1>4. Cardinality(RegisteredOf(s, r))
        = Cardinality(RegisteredOf(s, q)) + Cardinality(ns) - Cardinality({})
  BY <1>2, <1>3, RegisteredIsFinite, FS_Union
<1>5. Cardinality(RegisteredOf(s, q))
        = Cardinality(RegisteredOf(s, r)) - Cardinality(ns)
  BY <1>3, <1>4, RegisteredIsFinite, FS_EmptySet
<1>6. \A t \in Safe \ {s} : RegisteredOf(t, q) = RegisteredOf(t, r)
  BY SafeAssumption DEF RegisteredOf
<1> QED
  BY <1>1, <1>3, <1>5, <1>6

-------------------------------------------------------------------------------
(* The inductive invariant                                                     *)

\* A contract that was just deployed.
LEMMA InitRegInv == Init => RegInv
<1> SUFFICES ASSUME Init PROVE RegInv
  OBVIOUS
<1>1. TypeOK
  BY NonceAssumption DEF Init, TypeOK, Log
<1>2. CountIsExact
  <2> SUFFICES ASSUME NEW s \in Safe
               PROVE  count[s] = Cardinality(RegisteredOf(s, registeredTo))
    BY DEF CountIsExact
  <2>1. RegisteredOf(s, registeredTo) = {}
    BY SafeAssumption DEF Init, RegisteredOf
  <2> QED
    BY <2>1, FS_EmptySet DEF Init
<1>3. SignatureSpentOnce /\ EligibilityPublished
  BY DEF Init, SignatureSpentOnce, EligibilityPublished
<1> QED
  BY <1>1, <1>2, <1>3 DEF RegInv

\* Registering and deregistering keep the counters exact, whatever the batch
\* names and whoever calls.
LEMMA SelfRegisterCounts ==
    ASSUME RegInv, NEW s \in Safe, NEW ns \in SUBSET Node, selfRegister(s, ns)
    PROVE  /\ registeredTo' \in [Node -> Account] /\ count' \in [Safe -> Nat]
           /\ CountIsExact'
<1> DEFINE new == {n \in ns : registeredTo[n] = NoSafe}
<1>1. /\ registeredTo \in [Node -> Account] /\ count \in [Safe -> Nat]
      /\ CountIsExact
  BY DEF RegInv, TypeOK, Account
<1>2. /\ registeredTo' = [n \in Node |-> IF n \in new THEN s ELSE registeredTo[n]]
      /\ count' = [count EXCEPT ![s] = @ + Cardinality(new)]
  BY DEF selfRegister
<1>3. new \in SUBSET Node /\ \A n \in new : registeredTo[n] = NoSafe
  OBVIOUS
<1> HIDE DEF new
<1>4. /\ registeredTo' \in [Node -> Account]
      /\ Cardinality(new) \in Nat
      /\ Cardinality(RegisteredOf(s, registeredTo'))
           = Cardinality(RegisteredOf(s, registeredTo)) + Cardinality(new)
      /\ \A t \in Safe \ {s} :
            RegisteredOf(t, registeredTo') = RegisteredOf(t, registeredTo)
  BY <1>1, <1>2, <1>3, Registering
<1> QED
  BY <1>1, <1>2, <1>4 DEF CountIsExact

\* A Safe deregisters a batch of its own nodes: the counter falls by their number.
LEMMA SelfDeregisterCounts ==
    ASSUME RegInv, NEW s \in Safe, NEW ns \in SUBSET Node, selfDeregister(s, ns)
    PROVE  /\ registeredTo' \in [Node -> Account] /\ count' \in [Safe -> Nat]
           /\ CountIsExact'
<1> DEFINE old == {n \in ns : registeredTo[n] = s}
<1>1. /\ registeredTo \in [Node -> Account] /\ count \in [Safe -> Nat]
      /\ CountIsExact
  BY DEF RegInv, TypeOK, Account
<1>2. /\ registeredTo' = [n \in Node |-> IF n \in old THEN NoSafe ELSE registeredTo[n]]
      /\ count' = [count EXCEPT ![s] = @ - Cardinality(old)]
  BY DEF selfDeregister
<1>3. old \in SUBSET RegisteredOf(s, registeredTo)
  BY DEF RegisteredOf
<1> HIDE DEF old
<1>4. /\ registeredTo' \in [Node -> Account]
      /\ Cardinality(old) \in Nat
      /\ Cardinality(RegisteredOf(s, registeredTo'))
           = Cardinality(RegisteredOf(s, registeredTo)) - Cardinality(old)
      /\ \A t \in Safe \ {s} :
            RegisteredOf(t, registeredTo') = RegisteredOf(t, registeredTo)
  BY <1>1, <1>2, <1>3, Deregistering
<1>5. Cardinality(RegisteredOf(s, registeredTo')) \in Nat
  BY RegisteredIsFinite
<1> QED
  BY <1>1, <1>2, <1>4, <1>5 DEF CountIsExact

\* A manager registers a node for a Safe: the counter grows by one.
LEMMA ManagerRegisterCounts ==
    ASSUME RegInv, NEW s \in Safe, NEW n \in Node, managerRegister(s, n)
    PROVE  /\ registeredTo' \in [Node -> Account] /\ count' \in [Safe -> Nat]
           /\ CountIsExact'
<1>1. /\ registeredTo \in [Node -> Account] /\ count \in [Safe -> Nat]
      /\ CountIsExact
  BY DEF RegInv, TypeOK, Account
<1>2. /\ registeredTo' = [m \in Node |-> IF m \in {n} THEN s ELSE registeredTo[m]]
      /\ count' = [count EXCEPT ![s] = @ + 1]
  BY <1>1 DEF managerRegister
<1>3. {n} \in SUBSET Node /\ \A m \in {n} : registeredTo[m] = NoSafe
  BY DEF managerRegister
<1>4. Cardinality({n}) = 1
  BY FS_Singleton
<1>5. /\ registeredTo' \in [Node -> Account]
      /\ Cardinality(RegisteredOf(s, registeredTo'))
           = Cardinality(RegisteredOf(s, registeredTo)) + Cardinality({n})
      /\ \A t \in Safe \ {s} :
            RegisteredOf(t, registeredTo') = RegisteredOf(t, registeredTo)
  BY <1>1, <1>2, <1>3, Registering
<1> QED
  BY <1>1, <1>2, <1>4, <1>5 DEF CountIsExact

\* A manager deregisters a node: the counter of its account falls by one.
LEMMA ManagerDeregisterCounts ==
    ASSUME RegInv, NEW n \in Node, managerDeregister(n)
    PROVE  /\ registeredTo' \in [Node -> Account] /\ count' \in [Safe -> Nat]
           /\ CountIsExact'
<1> DEFINE s == registeredTo[n]
<1>1. /\ registeredTo \in [Node -> Account] /\ count \in [Safe -> Nat]
      /\ CountIsExact
  BY DEF RegInv, TypeOK, Account
<1>2. s \in Safe
  BY <1>1 DEF managerDeregister, Account
<1>3. /\ registeredTo' = [m \in Node |-> IF m \in {n} THEN NoSafe ELSE registeredTo[m]]
      /\ count' = [count EXCEPT ![s] = @ - 1]
  BY <1>1 DEF managerDeregister
<1>4. {n} \in SUBSET RegisteredOf(s, registeredTo)
  BY DEF RegisteredOf
<1> HIDE DEF s
<1>5. Cardinality({n}) = 1
  BY FS_Singleton
<1>6. /\ registeredTo' \in [Node -> Account]
      /\ Cardinality(RegisteredOf(s, registeredTo'))
           = Cardinality(RegisteredOf(s, registeredTo)) - Cardinality({n})
      /\ \A t \in Safe \ {s} :
            RegisteredOf(t, registeredTo') = RegisteredOf(t, registeredTo)
  BY <1>1, <1>2, <1>3, <1>4, Deregistering
<1>7. Cardinality(RegisteredOf(s, registeredTo')) \in Nat
  BY RegisteredIsFinite
<1> QED
  BY <1>1, <1>2, <1>3, <1>5, <1>6, <1>7 DEF CountIsExact

\* What a call that changes no registration leaves as it was.
LEMMA CountsKept ==
    ASSUME RegInv, UNCHANGED countVars
    PROVE  /\ registeredTo' \in [Node -> Account] /\ count' \in [Safe -> Nat]
           /\ CountIsExact'
BY DEF RegInv, TypeOK, CountIsExact, RegisteredOf, countVars, Account

\* The Safe of a node is set with the nonce one up, and a signature is recorded
\* with the nonce it was checked against.
LEMMA AddNodeSafeSpends ==
    ASSUME RegInv, NEW s \in Safe, NEW n \in Node, addNodeSafe(s, n),
           spent' \in {spent, spent \cup {<<n, nodeSigNonce[n]>>}}
    PROVE  /\ nodeToSafe' \in [Node -> Safe \cup {NoSafe}]
           /\ nodeSigNonce' \in [Node -> 0..MaxNonce]
           /\ spent' \subseteq Node \X (0..MaxNonce)
           /\ SignatureSpentOnce'
<1>1. /\ nodeToSafe \in [Node -> Safe \cup {NoSafe}]
      /\ nodeSigNonce \in [Node -> 0..MaxNonce]
      /\ spent \subseteq Node \X (0..MaxNonce)
      /\ SignatureSpentOnce
  BY DEF RegInv, TypeOK
<1>2. /\ nodeToSafe' = [nodeToSafe EXCEPT ![n] = s]
      /\ nodeSigNonce' = [nodeSigNonce EXCEPT ![n] = @ + 1]
      /\ nodeSigNonce[n] < MaxNonce
  BY DEF addNodeSafe
<1>3. nodeSigNonce' \in [Node -> 0..MaxNonce]
  BY <1>1, <1>2, NonceAssumption
<1>4. spent' \subseteq Node \X (0..MaxNonce)
  BY <1>1
<1>5. ASSUME NEW m \in Node, NEW k \in 0..MaxNonce, <<m, k>> \in spent'
      PROVE  k < nodeSigNonce'[m]
  <2>1. CASE <<m, k>> \in spent
    BY <1>1, <1>2, <2>1, NonceAssumption DEF SignatureSpentOnce
  <2>2. CASE m = n /\ k = nodeSigNonce[n]
    BY <1>1, <1>2, <2>2, NonceAssumption
  <2> QED
    BY <1>5, <2>1, <2>2
<1> QED
  BY <1>1, <1>2, <1>3, <1>4, <1>5 DEF SignatureSpentOnce

\* The network registry does not touch the registry of Safes.
LEMMA SafesKept ==
    ASSUME RegInv, UNCHANGED safeVars
    PROVE  /\ nodeToSafe' \in [Node -> Safe \cup {NoSafe}]
           /\ nodeSigNonce' \in [Node -> 0..MaxNonce]
           /\ spent' \subseteq Node \X (0..MaxNonce)
           /\ SignatureSpentOnce'
BY DEF RegInv, TypeOK, SignatureSpentOnce, safeVars

\* A call that ends with _sync publishes what the contract would answer then.
LEMMA SyncPublishes ==
    ASSUME RegInv, NEW s \in Safe, sync(s, count'), UNCHANGED maxAllowed,
           \A t \in Safe \ {s} : count'[t] = count[t]
    PROVE  /\ eligible' \subseteq Safe /\ unsynced' \subseteq Safe
           /\ EligibilityPublished'
<1> SUFFICES ASSUME NEW t \in Safe \ unsynced', maxAllowed' # Reverts
             PROVE  t \in eligible' <=> checkEligibility(t, count)'
  BY DEF EligibilityPublished, RegInv, TypeOK, sync
<1>1. CASE t = s
  BY <1>1 DEF sync, checkEligibility
<1>2. CASE t # s
  BY <1>2 DEF sync, checkEligibility, RegInv, EligibilityPublished
<1> QED
  BY <1>1, <1>2

\* A call that publishes nothing changes the answer for unsynced accounts only.
LEMMA NothingPublished ==
    ASSUME RegInv, UNCHANGED <<maxAllowed, eligible>>,
           unsynced \subseteq unsynced', unsynced' \subseteq Safe,
           \A t \in Safe \ unsynced' : count'[t] = count[t]
    PROVE  /\ eligible' \subseteq Safe /\ unsynced' \subseteq Safe
           /\ EligibilityPublished'
BY DEF RegInv, TypeOK, EligibilityPublished, checkEligibility

\* Every transaction keeps the invariant.
LEMMA NextRegInv == RegInv /\ [Next]_vars => RegInv'
<1> SUFFICES ASSUME RegInv, [Next]_vars PROVE RegInv'
  OBVIOUS
<1> DEFINE
      SafesOK == /\ nodeToSafe' \in [Node -> Safe \cup {NoSafe}]
                 /\ nodeSigNonce' \in [Node -> 0..MaxNonce]
                 /\ spent' \subseteq Node \X (0..MaxNonce)
                 /\ SignatureSpentOnce'
      CountsOK == /\ registeredTo' \in [Node -> Account] /\ count' \in [Safe -> Nat]
                  /\ CountIsExact'
      RulesOK == enabled' \in BOOLEAN /\ maxAllowed' \in Requirement \cup {Reverts}
      SyncOK == /\ eligible' \subseteq Safe /\ unsynced' \subseteq Safe
                /\ EligibilityPublished'
      RestOK == member' \subseteq Safe \X Node /\ logs' \subseteq Log
<1>0. SUFFICES SafesOK /\ CountsOK /\ RulesOK /\ SyncOK /\ RestOK
  BY DEF RegInv, TypeOK, Account
<1> HIDE DEF SafesOK, CountsOK, RulesOK, SyncOK, RestOK
<1>a. ASSUME UNCHANGED safeVars PROVE SafesOK
  BY <1>a, SafesKept DEF SafesOK
<1>b. ASSUME UNCHANGED countVars PROVE CountsOK
  BY <1>b, CountsKept DEF CountsOK
<1>c. ASSUME UNCHANGED ruleVars PROVE RulesOK
  BY <1>c DEF RulesOK, RegInv, TypeOK, ruleVars
<1>d. ASSUME UNCHANGED <<countVars, ruleVars, syncVars>> PROVE SyncOK
  BY <1>d, NothingPublished DEF SyncOK, RegInv, TypeOK, countVars, ruleVars, syncVars
<1>e. ASSUME UNCHANGED member, Quiet PROVE RestOK
  BY <1>e DEF RestOK, Quiet, RegInv, TypeOK
<1>1. CASE UNCHANGED vars
  <2>1. RestOK
    BY <1>1 DEF vars, RestOK, RegInv, TypeOK
  <2> QED
    BY <1>1, <1>a, <1>b, <1>c, <1>d, <2>1 DEF vars
<1>2. ASSUME NEW s \in Safe, NEW n \in Node, addNode(s, n) \/ removeNode(s, n)
      PROVE  SafesOK /\ CountsOK /\ RulesOK /\ SyncOK /\ RestOK
  <2>1. RestOK
    BY <1>2 DEF addNode, removeNode, RestOK, Quiet, RegInv, TypeOK
  <2> QED
    BY <1>2, <1>a, <1>b, <1>c, <1>d, <2>1 DEF addNode, removeNode
<1>3. ASSUME NEW s \in Safe, NEW n \in Node, addNodeSafe(s, n),
             spent' \in {spent, spent \cup {<<n, nodeSigNonce[n]>>}}
      PROVE  SafesOK /\ CountsOK /\ RulesOK /\ SyncOK /\ RestOK
  <2>1. SafesOK
    BY <1>3, AddNodeSafeSpends DEF SafesOK
  <2> QED
    BY <1>3, <1>b, <1>c, <1>d, <1>e, <2>1 DEF addNodeSafe
<1>4. ASSUME NEW s \in Safe, NEW n \in Node, deregisterNodeBySafe(s, n)
      PROVE  SafesOK /\ CountsOK /\ RulesOK /\ SyncOK /\ RestOK
  <2>1. SafesOK
    BY <1>4 DEF deregisterNodeBySafe, SafesOK, RegInv, TypeOK, SignatureSpentOnce
  <2> QED
    BY <1>4, <1>b, <1>c, <1>d, <1>e, <2>1 DEF deregisterNodeBySafe
<1>5. ASSUME NEW f \in Requirement \cup {Reverts}, updateRequirement(f)
      PROVE  SafesOK /\ CountsOK /\ RulesOK /\ SyncOK /\ RestOK
  <2>1. RulesOK
    BY <1>5 DEF updateRequirement, RulesOK, RegInv, TypeOK
  <2>2. SyncOK
    BY <1>5 DEF updateRequirement, SyncOK, EligibilityPublished, RegInv, TypeOK
  <2> QED
    BY <1>5, <1>a, <1>b, <1>e, <2>1, <2>2 DEF updateRequirement
<1>6. CASE enableRegistry \/ disableRegistry
  <2>1. RulesOK
    BY <1>6 DEF enableRegistry, disableRegistry, RulesOK, RegInv, TypeOK
  <2>2. SyncOK
    BY <1>6, NothingPublished
       DEF enableRegistry, disableRegistry, SyncOK, countVars, syncVars, RegInv, TypeOK
  <2> QED
    BY <1>6, <1>a, <1>b, <1>e, <2>1, <2>2 DEF enableRegistry, disableRegistry
<1>7. ASSUME NEW s \in Safe, NEW ns \in SUBSET Node, selfRegister(s, ns)
      PROVE  SafesOK /\ CountsOK /\ RulesOK /\ SyncOK /\ RestOK
  <2>1. CountsOK
    BY <1>7, SelfRegisterCounts DEF CountsOK
  <2>2. \A t \in Safe \ {s} : count'[t] = count[t]
    BY <1>7 DEF selfRegister, RegInv, TypeOK
  <2>3. SyncOK
    BY <1>7, <2>2, SyncPublishes DEF selfRegister, SyncOK, ruleVars
  <2>4. RestOK
    BY <1>7 DEF selfRegister, RestOK, Log, RegInv, TypeOK
  <2> QED
    BY <1>7, <1>a, <1>c, <2>1, <2>3, <2>4 DEF selfRegister
<1>8. ASSUME NEW s \in Safe, NEW ns \in SUBSET Node, selfDeregister(s, ns)
      PROVE  SafesOK /\ CountsOK /\ RulesOK /\ SyncOK /\ RestOK
  <2>1. CountsOK
    BY <1>8, SelfDeregisterCounts DEF CountsOK
  <2>2. \A t \in Safe \ {s} : count'[t] = count[t]
    BY <1>8 DEF selfDeregister, RegInv, TypeOK
  <2>3. SyncOK
    BY <1>8, <2>2, SyncPublishes DEF selfDeregister, SyncOK, ruleVars
  <2>4. RestOK
    BY <1>8 DEF selfDeregister, RestOK, Log, RegInv, TypeOK
  <2> QED
    BY <1>8, <1>a, <1>c, <2>1, <2>3, <2>4 DEF selfDeregister
<1>9. ASSUME NEW s \in Safe, NEW n \in Node, managerRegister(s, n)
      PROVE  SafesOK /\ CountsOK /\ RulesOK /\ SyncOK /\ RestOK
  <2>1. CountsOK
    BY <1>9, ManagerRegisterCounts DEF CountsOK
  <2>2. SyncOK
    BY <1>9, NothingPublished DEF managerRegister, SyncOK, ruleVars, RegInv, TypeOK
  <2>3. RestOK
    BY <1>9 DEF managerRegister, RestOK, Log, RegInv, TypeOK
  <2> QED
    BY <1>9, <1>a, <1>c, <2>1, <2>2, <2>3 DEF managerRegister
<1>10. ASSUME NEW n \in Node, managerDeregister(n)
       PROVE  SafesOK /\ CountsOK /\ RulesOK /\ SyncOK /\ RestOK
  <2>1. CountsOK
    BY <1>10, ManagerDeregisterCounts DEF CountsOK
  <2>2. SyncOK
    BY <1>10, NothingPublished DEF managerDeregister, SyncOK, ruleVars, RegInv, TypeOK
  <2>3. RestOK
    BY <1>10 DEF managerDeregister, RestOK, Log, RegInv, TypeOK
  <2> QED
    BY <1>10, <1>a, <1>c, <2>1, <2>2, <2>3 DEF managerDeregister
<1>11. ASSUME NEW s \in Safe, selfSync(s) \/ managerSync(s)
       PROVE  SafesOK /\ CountsOK /\ RulesOK /\ SyncOK /\ RestOK
  <2>1. sync(s, count') /\ UNCHANGED <<maxAllowed, count>>
    BY <1>11 DEF selfSync, managerSync, countVars, ruleVars
  <2>2. SyncOK
    BY <2>1, SyncPublishes DEF SyncOK
  <2> QED
    BY <1>11, <1>a, <1>b, <1>c, <1>e, <2>2 DEF selfSync, managerSync
<1>12. ASSUME NEW s \in Safe, NEW b \in BOOLEAN, managerForceSync(s, b)
       PROVE  SafesOK /\ CountsOK /\ RulesOK /\ SyncOK /\ RestOK
  <2>1. SyncOK
    BY <1>12 DEF managerForceSync, SyncOK, EligibilityPublished, checkEligibility,
                 countVars, ruleVars, RegInv, TypeOK
  <2> QED
    BY <1>12, <1>a, <1>b, <1>c, <1>e, <2>1 DEF managerForceSync
<1>13. ASSUME NEW s \in Safe, NEW n \in Node, registerSafeByNode(s, n)
       PROVE  SafesOK /\ CountsOK /\ RulesOK /\ SyncOK /\ RestOK
  BY <1>13, <1>3 DEF registerSafeByNode
<1>14. ASSUME NEW sig \in Signature, registerSafeWithNodeSig(sig)
       PROVE  SafesOK /\ CountsOK /\ RulesOK /\ SyncOK /\ RestOK
  BY <1>14, <1>3 DEF registerSafeWithNodeSig, Signature
<1> QED
  BY <1>1, <1>2, <1>4, <1>5, <1>6, <1>7, <1>8, <1>9, <1>10, <1>11, <1>12, <1>13, <1>14
     DEF Next

-------------------------------------------------------------------------------
(* The theorems                                                                *)

\* The inductive invariant holds in every reachable state.
THEOREM RegistryInductive == Spec => []RegInv
BY InitRegInv, NextRegInv, PTL DEF Spec

\* Every reachable state has its type; the counters of the network registry
\* never go below zero.
THEOREM RegistryTyped == Spec => []TypeOK
<1>1. RegInv => TypeOK
  BY DEF RegInv
<1> QED
  BY <1>1, RegistryInductive, PTL

\* The counter of an account is the number of nodes registered to it.
THEOREM CountingIsExact == Spec => []CountIsExact
<1>1. RegInv => CountIsExact
  BY DEF RegInv
<1> QED
  BY <1>1, RegistryInductive, PTL

\* A signature of a node registers a Safe at most once.
THEOREM SignaturesAreSpent == Spec => []SignatureSpentOnce
<1>1. RegInv => SignatureSpentOnce
  BY DEF RegInv
<1> QED
  BY <1>1, RegistryInductive, PTL

\* What was published about an account's eligibility is current until the
\* requirement changes or a manager acts.
THEOREM EligibilityIsPublished == Spec => []EligibilityPublished
<1>1. RegInv => EligibilityPublished
  BY DEF RegInv
<1> QED
  BY <1>1, RegistryInductive, PTL

-------------------------------------------------------------------------------
(* The refinement                                                              *)

InNetwork == {n \in Node : registeredTo[n] # NoSafe}

\* A call that changes no registration admits nobody.
LEMMA QuietAdmitsNobody ==
    ASSUME Quiet, UNCHANGED registeredTo
    PROVE  Admitted!Next
<1>1. InNetwork' = InNetwork
  BY DEF InNetwork
<1>2. [type : {"Registered"}, node : {}] = {}
  OBVIOUS
<1>3. Admitted!Admit({})
  BY <1>1, <1>2 DEF Admitted!Admit, Quiet, InNetwork
<1> QED
  BY <1>3 DEF Admitted!Next

\* A transaction of the registries is a step of the admission specification.
LEMMA RegistryStepAdmits ==
    ASSUME RegInv, [Next]_vars
    PROVE  [Admitted!Next]_<<InNetwork, logs>>
<1> USE DEF InNetwork
<1>0. registeredTo \in [Node -> Account]
  BY DEF RegInv, TypeOK, Account
<1>1. CASE UNCHANGED vars
  BY <1>1 DEF vars, countVars
<1>2. ASSUME Quiet, UNCHANGED registeredTo PROVE Admitted!Next
  BY <1>2, QuietAdmitsNobody
<1>3. ASSUME NEW s \in Safe, NEW ns \in SUBSET Node, selfRegister(s, ns)
      PROVE  Admitted!Next
  <2>0. PICK new \in SUBSET Node : new = {n \in ns : registeredTo[n] = NoSafe}
    OBVIOUS
  <2>1. /\ registeredTo' = [n \in Node |-> IF n \in new THEN s ELSE registeredTo[n]]
        /\ logs' = [type : {"Registered"}, node : new]
    BY <1>3, <2>0 DEF selfRegister
  <2>2. InNetwork' = InNetwork \cup new /\ new \cap InNetwork = {}
    BY <2>0, <2>1, SafeAssumption
  <2>3. Admitted!Admit(new)
    BY <2>1, <2>2 DEF Admitted!Admit
  <2> QED
    BY <2>3 DEF Admitted!Next
<1>4. ASSUME NEW s \in Safe, NEW ns \in SUBSET Node, selfDeregister(s, ns)
      PROVE  Admitted!Next
  <2>0. PICK old \in SUBSET Node : old = {n \in ns : registeredTo[n] = s}
    OBVIOUS
  <2>1. /\ registeredTo' = [n \in Node |-> IF n \in old THEN NoSafe ELSE registeredTo[n]]
        /\ logs' = [type : {"Deregistered"}, node : old]
    BY <1>4, <2>0 DEF selfDeregister
  <2>2. InNetwork' = InNetwork \ old /\ old \subseteq InNetwork
    BY <2>0, <2>1, SafeAssumption
  <2>3. Admitted!Expel(old)
    BY <2>1, <2>2 DEF Admitted!Expel
  <2> QED
    BY <2>3 DEF Admitted!Next
<1>5. ASSUME NEW s \in Safe, NEW n \in Node, managerRegister(s, n)
      PROVE  Admitted!Next
  <2>1. InNetwork' = InNetwork \cup {n} /\ {n} \cap InNetwork = {}
    BY <1>0, <1>5, SafeAssumption DEF managerRegister
  <2>2. Admitted!Admit({n})
    BY <1>5, <2>1 DEF Admitted!Admit, managerRegister
  <2> QED
    BY <2>2 DEF Admitted!Next
<1>6. ASSUME NEW n \in Node, managerDeregister(n)
      PROVE  Admitted!Next
  <2>1. InNetwork' = InNetwork \ {n} /\ {n} \subseteq InNetwork
    BY <1>0, <1>6 DEF managerDeregister
  <2>2. Admitted!Expel({n})
    BY <1>6, <2>1 DEF Admitted!Expel, managerDeregister
  <2> QED
    BY <2>2 DEF Admitted!Next
<1>7. ASSUME NEW s \in Safe, NEW n \in Node,
             \/ addNode(s, n) \/ removeNode(s, n)
             \/ registerSafeByNode(s, n) \/ deregisterNodeBySafe(s, n)
      PROVE  Admitted!Next
  BY <1>2, <1>7 DEF addNode, removeNode, registerSafeByNode, addNodeSafe,
                    deregisterNodeBySafe, countVars
<1>8. ASSUME NEW sig \in Signature, registerSafeWithNodeSig(sig)
      PROVE  Admitted!Next
  BY <1>2, <1>8 DEF registerSafeWithNodeSig, addNodeSafe, countVars
<1>9. ASSUME NEW f \in Requirement \cup {Reverts}, updateRequirement(f)
      PROVE  Admitted!Next
  BY <1>2, <1>9 DEF updateRequirement, countVars
<1>10. ASSUME enableRegistry \/ disableRegistry PROVE Admitted!Next
  BY <1>2, <1>10 DEF enableRegistry, disableRegistry, countVars
<1>11. ASSUME NEW s \in Safe, selfSync(s) \/ managerSync(s) PROVE Admitted!Next
  BY <1>2, <1>11 DEF selfSync, managerSync, countVars
<1>12. ASSUME NEW s \in Safe, NEW b \in BOOLEAN, managerForceSync(s, b)
       PROVE  Admitted!Next
  BY <1>2, <1>12 DEF managerForceSync, countVars
<1> QED
  BY <1>1, <1>3, <1>4, <1>5, <1>6, <1>7, <1>8, <1>9, <1>10, <1>11, <1>12 DEF Next

\* The registries implement the admission specification: events and
\* registrations never disagree.
THEOREM RegistryAdmits == Spec => ImplementsAdmission
<1>1. Init => Admitted!Init
  BY DEF Init, Admitted!Init
<1>2. RegInv /\ [Next]_vars => [Admitted!Next]_<<InNetwork, logs>>
  BY RegistryStepAdmits
<1> QED
  BY <1>1, <1>2, RegistryInductive, PTL
     DEF Spec, ImplementsAdmission, Admitted!Spec, InNetwork
===============================================================================
