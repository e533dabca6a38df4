----------------------------- MODULE AccessProofs -----------------------------
(***************************************************************************)
(* Proofs about Access: the index follows the registry, every peer the     *)
(* swarm allows is stored, and the ban of an expelled node is on its way.  *)
(***************************************************************************)
EXTENDS Access, FiniteSetTheorems, SequenceTheorems, TLAPS

--------------------------------------------------------------------------------
(* The inductive invariant *)

LogItem == [type : LogType, node : Node]
EventItem == [type : EventType, node : Node]
UpdateItem == [type : UpdateType, node : Node]
LoadItem == [type : {"Allow", "Announce"}, node : Node]

Types ==
    /\ admitted \subseteq Node
    /\ backlog \in Seq(LogItem) /\ Len(backlog) <= MaxInFlight
    /\ lag \in 0 .. MaxInFlight /\ synced \in BOOLEAN
    /\ bound \subseteq Node /\ announced \subseteq bound /\ allowed \subseteq Node
    /\ cache \in [Node -> {"absent", "none", "key"}]
    /\ events \in Seq(EventItem) /\ updates \in Seq(UpdateItem) /\ internal \in Seq(LoadItem)
    /\ lookup \in Node \cup {NoNode}
    /\ phase \in {"syncing", "loading", "running"}
    /\ toLoad \subseteq Node
    /\ peers \subseteq Node /\ allowedPeers \subseteq Node /\ connected \subseteq Node
    /\ closing \subseteq Node /\ overtaken \subseteq Node
    /\ restarts \in 0 .. MaxRestart

\* After every item a of node n in the queue there is an item b of it.
Followed(queue, a, b, n) ==
    \A i \in DOMAIN queue : queue[i] = Item(a, n) =>
        \E j \in DOMAIN queue : j > i /\ queue[j] = Item(b, n)

\* The logs still to be indexed make up the difference between the registry and
\* the database, the last one of a node agreeing with the registry.
Follows ==
    /\ \A n \in allowed \ admitted : Has(backlog, "Deregistered", n)
    /\ \A n \in admitted \ allowed : Has(backlog, "Registered", n)
    /\ \A n \in Node \ admitted : Followed(backlog, "Registered", "Deregistered", n)
    /\ \A n \in admitted : Followed(backlog, "Deregistered", "Registered", n)

\* Nothing happens before the indexer is synced.
Quiet ==
    ~synced => /\ phase = "syncing" /\ events = <<>> /\ updates = <<>>
               /\ internal = <<>> /\ allowedPeers = {} /\ lookup = NoNode

\* Whatever reaches the transport concerns nodes with a known key.
Known ==
    /\ \A n \in Node : cache[n] = "key" => n \in bound
    /\ toLoad \subseteq bound /\ allowedPeers \subseteq bound
    /\ \A i \in DOMAIN updates : updates[i].node \in bound
    /\ \A i \in DOMAIN events : events[i].type = "Announcement" => events[i].node \in bound
    /\ \A i \in DOMAIN internal : internal[i].node \in bound

\* While the pipeline takes the key of a node for unknown, nothing of what the
\* registry said about it is on its way to the transport.
Unknown ==
    /\ lookup # NoNode => events # <<>> /\ Head(events).node = lookup
                           /\ Head(events).type # "Announcement"
    /\ \A n \in Node : cache[n] = "none" \/ lookup = n =>
          ~ Has(updates, "Allow", n) /\ ~ Has(updates, "Ban", n)

\* An expelled node is banned after every permission on its way.
Ordered ==
    \A n \in Node \ admitted :
        /\ Has(backlog, "Deregistered", n) \/ Followed(events, "Allowed", "Denied", n)
        /\ \/ Has(backlog, "Deregistered", n) \/ Has(events, "Denied", n)
           \/ Followed(updates, "Allow", "Ban", n)

\* What the swarm allows, or will, when the initial load is applied.
Coming ==
    \A n \in Node \ admitted :
        n \in allowedPeers \/ Has(internal, "Allow", n) =>
            \/ Has(backlog, "Deregistered", n) \/ Has(events, "Denied", n)
            \/ Has(updates, "Ban", n)
            \/ n \in overtaken

IInv ==
    /\ Types
    /\ Follows
    /\ Quiet
    /\ Known
    /\ Unknown
    /\ Ordered
    /\ Coming
    /\ AllowedIsStored

--------------------------------------------------------------------------------
(* Queues *)

\* Items are equal when type and node are.
LEMMA ItemEqual ==
    ASSUME NEW a, NEW b, NEW m, NEW n
    PROVE  /\ Item(a, m) = Item(b, n) <=> a = b /\ m = n
           /\ Item(a, m).type = a /\ Item(a, m).node = m
  BY DEF Item

\* An item is found at a position of the queue.
LEMMA HasAt ==
    ASSUME NEW q, NEW a, NEW n
    PROVE  Has(q, a, n) <=> \E i \in DOMAIN q : q[i] = Item(a, n)
  BY DEF Has, ToSet

\* The empty queue and a queue of one item.
LEMMA ShortQueue ==
    ASSUME NEW S, NEW x \in S, NEW a, NEW b, NEW n
    PROVE  /\ <<>> \in Seq(S) /\ <<x>> \in Seq(S) /\ Len(<<x>>) = 1 /\ Len(<<>>) = 0
           /\ ~ Has(<<>>, a, n) /\ Followed(<<>>, a, b, n)
           /\ Has(<<x>>, a, n) <=> x = Item(a, n)
           /\ x # Item(a, n) => Followed(<<x>>, a, b, n)
  <1>1. ~ Has(<<>>, a, n) /\ Followed(<<>>, a, b, n)
    BY HasAt DEF Followed
  <1>2. PICK q : q = <<x>>
    OBVIOUS
  <1>3. DOMAIN q = {1} /\ q[1] = x
    BY <1>2
  <1>4. Has(q, a, n) <=> x = Item(a, n)
    BY <1>3, HasAt
  <1>5. x # Item(a, n) => Followed(q, a, b, n)
    BY <1>3 DEF Followed
  <1> QED BY <1>1, <1>2, <1>4, <1>5

\* Adding r at the end of q.
LEMMA QueueConcat ==
    ASSUME NEW S, NEW q \in Seq(S), NEW r \in Seq(S), NEW a, NEW b, NEW n
    PROVE  /\ q \o r \in Seq(S) /\ Len(q \o r) = Len(q) + Len(r)
           /\ Has(q \o r, a, n) <=> Has(q, a, n) \/ Has(r, a, n)
           /\ Followed(q, a, b, n) /\ ~ Has(r, a, n) => Followed(q \o r, a, b, n)
           /\ Has(r, b, n) /\ Followed(r, a, b, n) => Followed(q \o r, a, b, n)
  <1>1. PICK p : p = q \o r
    OBVIOUS
  <1>2. PICK k \in Nat, l \in Nat : k = Len(q) /\ l = Len(r)
    BY LenProperties
  <1>3. /\ p \in Seq(S) /\ Len(p) = k + l
        /\ \A i \in 1 .. k + l : p[i] = IF i <= k THEN q[i] ELSE r[i - k]
    BY <1>1, <1>2, ConcatProperties
  <1>4. DOMAIN p = 1 .. k + l /\ DOMAIN q = 1 .. k /\ DOMAIN r = 1 .. l
    BY <1>2, <1>3, LenProperties
  <1>5. \A i \in 1 .. k : i \in 1 .. k + l /\ p[i] = q[i]
    BY <1>3
  <1>6. ASSUME NEW i \in 1 .. l PROVE k + i \in 1 .. k + l /\ p[k + i] = r[i]
    <2>1. k + i \in 1 .. k + l /\ ~ (k + i <= k) /\ k + i - k = i
      OBVIOUS
    <2> QED BY <2>1, <1>3
  <1>7. ASSUME NEW i \in 1 .. k + l
        PROVE  i \in 1 .. k \/ \E j \in 1 .. l : i = k + j
    <2>1. CASE i <= k
      BY <2>1
    <2>2. CASE ~ (i <= k)
      <3>1. i - k \in 1 .. l /\ i = k + (i - k)
        BY <2>2
      <3> QED BY <3>1
    <2> QED BY <2>1, <2>2
  <1>8. Has(p, a, n) <=> Has(q, a, n) \/ Has(r, a, n)
    BY <1>4, <1>5, <1>6, <1>7, HasAt
  <1>9. ASSUME Followed(q, a, b, n), ~ Has(r, a, n) PROVE Followed(p, a, b, n)
    <2> SUFFICES ASSUME NEW i \in 1 .. k + l, p[i] = Item(a, n)
                 PROVE  \E j \in 1 .. k + l : j > i /\ p[j] = Item(b, n)
      BY <1>4 DEF Followed
    <2>1. i \in 1 .. k
      BY <1>4, <1>6, <1>7, <1>9, HasAt
    <2> QED BY <2>1, <1>4, <1>5, <1>9 DEF Followed
  <1>10. ASSUME Has(r, b, n), Followed(r, a, b, n) PROVE Followed(p, a, b, n)
    <2> SUFFICES ASSUME NEW i \in 1 .. k + l, p[i] = Item(a, n)
                 PROVE  \E j \in 1 .. k + l : j > i /\ p[j] = Item(b, n)
      BY <1>4 DEF Followed
    <2>1. CASE i \in 1 .. k
      <3>1. PICK j \in 1 .. l : r[j] = Item(b, n)
        BY <1>4, <1>10, HasAt
      <3>2. k + j > i
        BY <2>1
      <3> QED BY <3>1, <3>2, <1>6
    <2>2. ASSUME NEW h \in 1 .. l, i = k + h PROVE \E j \in 1 .. k + l : j > i /\ p[j] = Item(b, n)
      <3>1. r[h] = Item(a, n)
        BY <2>2, <1>6
      <3>2. PICK j \in 1 .. l : j > h /\ r[j] = Item(b, n)
        BY <3>1, <1>4, <1>10 DEF Followed
      <3>3. k + j > i
        BY <2>2, <3>2
      <3> QED BY <3>2, <3>3, <1>6
    <2> QED BY <2>1, <2>2, <1>7
  <1> QED BY <1>1, <1>2, <1>3, <1>8, <1>9, <1>10

\* Taking the first item out of q.
LEMMA QueueTail ==
    ASSUME NEW S, NEW q \in Seq(S), q # <<>>, NEW a, NEW b, NEW n
    PROVE  /\ Head(q) \in S /\ Tail(q) \in Seq(S) /\ Len(Tail(q)) = Len(q) - 1
           /\ Has(q, a, n) <=> Head(q) = Item(a, n) \/ Has(Tail(q), a, n)
           /\ Followed(q, a, b, n) => Followed(Tail(q), a, b, n)
           /\ Followed(q, a, b, n) /\ Head(q) = Item(a, n) => Has(Tail(q), b, n)
  <1>1. PICK k \in Nat : k + 1 = Len(q)
    <2>1. Len(q) \in Nat /\ Len(q) # 0
      BY EmptySeq, LenProperties
    <2> QED BY <2>1
  <1>2. PICK p : p = Tail(q)
    OBVIOUS
  <1>3. /\ p \in Seq(S) /\ Len(p) = k /\ Head(q) = q[1] /\ q[1] \in S
        /\ \A i \in 1 .. k : p[i] = q[i + 1]
    BY <1>1, <1>2
  <1>4. DOMAIN q = 1 .. k + 1 /\ DOMAIN p = 1 .. k
    BY <1>1, <1>3, LenProperties
  <1>5. ASSUME NEW i \in 1 .. k PROVE i + 1 \in 1 .. k + 1 /\ q[i + 1] = p[i]
    BY <1>3
  <1>6. ASSUME NEW i \in 1 .. k + 1 PROVE i = 1 \/ \E j \in 1 .. k : i = j + 1
    <2>1. CASE i # 1
      <3>1. i - 1 \in 1 .. k /\ i = (i - 1) + 1
        BY <2>1
      <3> QED BY <3>1
    <2> QED BY <2>1
  <1>7. Has(q, a, n) <=> q[1] = Item(a, n) \/ Has(p, a, n)
    <2>1. 1 \in 1 .. k + 1
      OBVIOUS
    <2>2. ASSUME NEW i \in 1 .. k + 1, q[i] = Item(a, n)
          PROVE  q[1] = Item(a, n) \/ \E j \in 1 .. k : p[j] = Item(a, n)
      <3>1. CASE i = 1
        BY <2>2, <3>1
      <3>2. ASSUME NEW j \in 1 .. k, i = j + 1 PROVE p[j] = Item(a, n)
        BY <2>2, <3>2, <1>5
      <3> QED BY <3>1, <3>2, <1>6
    <2>3. ASSUME NEW j \in 1 .. k, p[j] = Item(a, n)
          PROVE  \E i \in 1 .. k + 1 : q[i] = Item(a, n)
      BY <2>3, <1>5
    <2> QED BY <2>1, <2>2, <2>3, <1>4, HasAt
  <1>8. ASSUME Followed(q, a, b, n), NEW h \in 1 .. k + 1, q[h] = Item(a, n)
        PROVE  \E j \in 1 .. k : j + 1 > h /\ p[j] = Item(b, n)
    <2>1. PICK i \in 1 .. k + 1 : i > h /\ q[i] = Item(b, n)
      BY <1>4, <1>8 DEF Followed
    <2>2. PICK j \in 1 .. k : i = j + 1
      BY <2>1, <1>6
    <2> QED BY <2>1, <2>2, <1>5
  <1>9. ASSUME Followed(q, a, b, n) PROVE Followed(p, a, b, n)
    <2> SUFFICES ASSUME NEW i \in 1 .. k, p[i] = Item(a, n)
                 PROVE  \E j \in 1 .. k : j > i /\ p[j] = Item(b, n)
      BY <1>4 DEF Followed
    <2>1. PICK j \in 1 .. k : j + 1 > i + 1 /\ p[j] = Item(b, n)
      BY <1>5, <1>8, <1>9
    <2> QED BY <2>1
  <1>10. ASSUME Followed(q, a, b, n), q[1] = Item(a, n) PROVE Has(p, b, n)
    <2>1. 1 \in 1 .. k + 1
      OBVIOUS
    <2> QED BY <2>1, <1>4, <1>8, <1>10, HasAt
  <1> QED BY <1>1, <1>2, <1>3, <1>7, <1>9, <1>10

\* SetToSeq lists a finite set of items.
LEMMA ListedItems ==
    ASSUME NEW S, IsFiniteSet(S), NEW a, NEW n
    PROVE  SetToSeq(S) \in Seq(S) /\ (Has(SetToSeq(S), a, n) <=> Item(a, n) \in S)
  <1>1. PICK k \in Nat : k = Cardinality(S)
    BY FS_CardinalityType
  <1>2. \E f \in [1 .. k -> S] : IsInjective(f)
    <2>1. ExistsBijection(1 .. k, S)
      BY <1>1, FS_CardinalityType
    <2> QED BY <2>1 DEF ExistsBijection, Bijection, Injection, IsInjective
  <1>3. PICK f : f = SetToSeq(S)
    OBVIOUS
  <1>4. f \in [1 .. k -> S] /\ IsInjective(f)
    BY <1>1, <1>2, <1>3 DEF SetToSeq
  <1>5. f \in Seq(S) /\ DOMAIN f = 1 .. k
    BY <1>4
  <1>6. f \in Injection(1 .. k, S)
    BY <1>4 DEF Injection, IsInjective
  <1>7. Cardinality(1 .. k) = Cardinality(S)
    BY <1>1, FS_Interval
  <1>8. f \in Surjection(1 .. k, S)
    BY <1>6, <1>7, FS_Injection
  <1>9. \A x \in S : \E i \in 1 .. k : f[i] = x
    BY <1>8 DEF Surjection
  <1> QED BY <1>3, <1>4, <1>5, <1>9, HasAt

--------------------------------------------------------------------------------
(* The chain *)

\* A node that starts for the first time, with nothing admitted and all queues empty.
LEMMA InitInv == Init => IInv
  <1> SUFFICES ASSUME Init PROVE IInv
    OBVIOUS
  <1> USE DEF Init, Registry!Init
  <1>1. \A a, n : ~ Has(<<>>, a, n)
    BY HasAt
  <1>2. \A a, b, n : Followed(<<>>, a, b, n)
    BY DEF Followed
  <1>3. Types
    <2>1. /\ backlog \in Seq(LogItem) /\ Len(backlog) = 0 /\ events \in Seq(EventItem)
          /\ updates \in Seq(UpdateItem) /\ internal \in Seq(LoadItem)
      BY EmptySeq
    <2>2. 0 <= MaxInFlight /\ 0 \in 0 .. MaxInFlight /\ 0 \in 0 .. MaxRestart
      BY AccessAssumption
    <2>3. cache \in [Node -> {"absent", "none", "key"}]
      OBVIOUS
    <2> QED BY <2>1, <2>2, <2>3 DEF Types
  <1>4. Follows /\ Ordered /\ Coming
    BY <1>1, <1>2 DEF Follows, Ordered, Coming
  <1>5. Quiet /\ Known /\ Unknown /\ AllowedIsStored
    <2>1. \A n \in Node : cache[n] = "absent" /\ lookup # n
      BY AccessAssumption
    <2> QED BY <2>1 DEF Quiet, Known, Unknown, AllowedIsStored
  <1> QED BY <1>3, <1>4, <1>5 DEF IInv

\* New logs, where those of the registry agree with it afterwards.
LEMMA EmitInv ==
    ASSUME IInv, NEW new \in Seq(LogItem), Emit(new), admitted' \subseteq Node,
           \A n \in Node : Has(new, "Deregistered", n) => n \notin admitted',
           \A n \in Node : Has(new, "Registered", n) => n \in admitted',
           \A n \in admitted \ admitted' : Has(new, "Deregistered", n),
           \A n \in admitted' \ admitted : Has(new, "Registered", n)
    PROVE  IInv'
  <1> USE DEF IInv
  <1>1. /\ backlog' = backlog \o new
        /\ Len(backlog) + Len(events) + Len(updates) + Len(new) <= MaxInFlight
        /\ lag' = lag /\ synced' = synced /\ bound' = bound /\ announced' = announced
        /\ allowed' = allowed /\ cache' = cache /\ events' = events /\ lookup' = lookup
        /\ updates' = updates /\ internal' = internal /\ phase' = phase /\ toLoad' = toLoad
        /\ peers' = peers /\ allowedPeers' = allowedPeers /\ connected' = connected
        /\ closing' = closing /\ restarts' = restarts /\ overtaken' = overtaken
    BY DEF Emit, dbVars, startVars, swarmVars
  <1>2. backlog \in Seq(LogItem)
    BY DEF Types
  <1>3. /\ backlog' \in Seq(LogItem) /\ Len(backlog') = Len(backlog) + Len(new)
        /\ \A a, n : Has(backlog', a, n) <=> Has(backlog, a, n) \/ Has(new, a, n)
        /\ \A a, b, n : /\ Followed(backlog, a, b, n) /\ ~ Has(new, a, n) => Followed(backlog', a, b, n)
                        /\ Has(new, b, n) /\ Followed(new, a, b, n) => Followed(backlog', a, b, n)
    BY <1>1, <1>2, QueueConcat
  <1>4. \A a, b, n : ~ Has(new, a, n) => Followed(new, a, b, n)
    BY HasAt DEF Followed
  <1>5. Types'
    <2>1. Len(events) \in Nat /\ Len(updates) \in Nat /\ Len(backlog) \in Nat /\ Len(new) \in Nat
      BY <1>2, LenProperties DEF Types
    <2>2. Len(backlog') <= MaxInFlight
      BY <1>1, <1>3, <2>1, AccessAssumption
    <2> QED BY <1>1, <1>3, <2>2 DEF Types
  <1>6. Follows'
    <2>1. ASSUME NEW n \in allowed \ admitted' PROVE Has(backlog', "Deregistered", n)
      BY <1>3 DEF Follows
    <2>2. ASSUME NEW n \in admitted' \ allowed PROVE Has(backlog', "Registered", n)
      BY <1>3 DEF Follows
    <2>3. ASSUME NEW n \in Node \ admitted'
          PROVE  Followed(backlog', "Registered", "Deregistered", n)
      <3>1. ~ Has(new, "Registered", n)
        BY <2>3
      <3>2. Has(new, "Deregistered", n) \/ n \notin admitted
        BY <2>3
      <3> QED BY <3>1, <3>2, <1>3, <1>4 DEF Follows
    <2>4. ASSUME NEW n \in admitted'
          PROVE  Followed(backlog', "Deregistered", "Registered", n)
      <3>1. n \in Node /\ ~ Has(new, "Deregistered", n)
        BY <2>4
      <3>2. Has(new, "Registered", n) \/ n \in admitted
        BY <2>4
      <3> QED BY <3>1, <3>2, <1>3, <1>4 DEF Follows
    <2> QED BY <1>1, <2>1, <2>2, <2>3, <2>4 DEF Follows
  <1>7. Ordered'
    BY <1>1, <1>3 DEF Ordered
  <1>8. Coming'
    BY <1>1, <1>3 DEF Coming
  <1>9. Quiet' /\ Known' /\ Unknown' /\ AllowedIsStored'
    BY <1>1 DEF Quiet, Known, Unknown, AllowedIsStored
  <1> QED BY <1>5, <1>6, <1>7, <1>8, <1>9

\* A transaction of the registry: the logs it appends close the gap it opens.
LEMMA RegistryInv ==
    ASSUME IInv, RegistryTx
    PROVE  IInv'
  <1>1. PICK ns \in SUBSET Node : Registry!Admit(ns) \/ Registry!Expel(ns)
    BY DEF RegistryTx, Registry!Next
  <1>2. PICK new : new = SetToSeq(logs') /\ Emit(new)
    BY DEF RegistryTx
  <1>3. IsFiniteSet(ns)
    BY AccessAssumption, FS_Subset
  <1>4. ASSUME NEW type \in LogType, logs' = [type : {type}, node : ns]
        PROVE  /\ new \in Seq(LogItem)
               /\ \A a, n : Has(new, a, n) <=> a = type /\ n \in ns
    <2>1. PICK h : h = [n \in ns |-> Item(type, n)]
      OBVIOUS
    <2>2. h \in Surjection(ns, logs')
      BY <1>4, <2>1 DEF Surjection, Item
    <2>3. IsFiniteSet(logs')
      BY <1>3, <2>2, FS_Surjection
    <2>4. new \in Seq(logs') /\ \A a, n : Has(new, a, n) <=> Item(a, n) \in logs'
      BY <1>2, <2>3, ListedItems
    <2>5. logs' \subseteq LogItem
      BY <1>4 DEF LogItem
    <2>6. \A a, n : Item(a, n) \in logs' <=> a = type /\ n \in ns
      BY <1>4 DEF Item
    <2> QED BY <2>4, <2>5, <2>6, SeqMonotonic
  <1>5. CASE Registry!Admit(ns)
    <2>1. logs' = [type : {"Registered"}, node : ns] /\ admitted' = admitted \cup ns
      BY <1>5 DEF Registry!Admit
    <2>2. new \in Seq(LogItem) /\ \A a, n : Has(new, a, n) <=> a = "Registered" /\ n \in ns
      BY <1>4, <2>1 DEF LogType
    <2>3. /\ \A n \in Node : Has(new, "Deregistered", n) => n \notin admitted'
          /\ \A n \in Node : Has(new, "Registered", n) => n \in admitted'
          /\ \A n \in admitted \ admitted' : Has(new, "Deregistered", n)
          /\ \A n \in admitted' \ admitted : Has(new, "Registered", n)
      BY <2>1, <2>2
    <2>4. admitted' \subseteq Node
      BY <2>1 DEF IInv, Types
    <2> QED BY <1>2, <2>2, <2>3, <2>4, EmitInv
  <1>6. CASE Registry!Expel(ns)
    <2>1. logs' = [type : {"Deregistered"}, node : ns] /\ admitted' = admitted \ ns
      BY <1>6 DEF Registry!Expel
    <2>2. new \in Seq(LogItem) /\ \A a, n : Has(new, a, n) <=> a = "Deregistered" /\ n \in ns
      BY <1>4, <2>1 DEF LogType
    <2>3. /\ \A n \in Node : Has(new, "Deregistered", n) => n \notin admitted'
          /\ \A n \in Node : Has(new, "Registered", n) => n \in admitted'
          /\ \A n \in admitted \ admitted' : Has(new, "Deregistered", n)
          /\ \A n \in admitted' \ admitted : Has(new, "Registered", n)
      BY <2>1, <2>2
    <2>4. admitted' \subseteq Node
      BY <2>1 DEF IInv, Types
    <2> QED BY <1>2, <2>2, <2>3, <2>4, EmitInv
  <1> QED BY <1>1, <1>5, <1>6

\* Key bindings and announcements leave the registry's logs alone.
LEMMA AnnouncementInv ==
    ASSUME IInv, NEW n \in Node, bindKeys(n) \/ announce(n) \/ revoke(n)
    PROVE  IInv'
  <1>1. PICK type \in {"KeyBinding", "AddressAnnouncement", "RevokeAnnouncement"} :
          Emit(<<Item(type, n)>>) /\ admitted' = admitted
    BY DEF bindKeys, announce, revoke, chainVars
  <1>2. PICK x, new : x = Item(type, n) /\ new = <<x>>
    OBVIOUS
  <1>3. x \in LogItem
    BY <1>2 DEF LogItem, LogType, Item
  <1>4. new \in Seq(LogItem) /\ \A a, m : Has(new, a, m) => a = type
    BY <1>2, <1>3, ShortQueue, ItemEqual
  <1>5. ~ (type \in {"Registered", "Deregistered"})
    BY <1>1
  <1>6. \A m : ~ Has(new, "Registered", m) /\ ~ Has(new, "Deregistered", m)
    BY <1>4, <1>5
  <1>7. Emit(new) /\ admitted' \subseteq Node
    BY <1>1, <1>2 DEF IInv, Types
  <1> QED BY <1>1, <1>4, <1>6, <1>7, EmitInv

--------------------------------------------------------------------------------
(* The indexer *)

\* The end of the synchronisation only lets the other parts start.
LEMMA CompleteSyncInv ==
    ASSUME IInv, CompleteSync
    PROVE  IInv'
  <1> USE DEF IInv
  <1>1. /\ synced' = TRUE /\ admitted' = admitted /\ backlog' = backlog
        /\ lag' = lag /\ bound' = bound /\ announced' = announced
        /\ allowed' = allowed /\ cache' = cache /\ events' = events /\ lookup' = lookup
        /\ updates' = updates /\ internal' = internal /\ phase' = phase /\ toLoad' = toLoad
        /\ peers' = peers /\ allowedPeers' = allowedPeers /\ connected' = connected
        /\ closing' = closing /\ restarts' = restarts /\ overtaken' = overtaken
    BY DEF CompleteSync, chainVars, dbVars, startVars, swarmVars
  <1>2. Types'
    BY <1>1 DEF Types
  <1>3. Follows' /\ Ordered' /\ Coming'
    BY <1>1 DEF Follows, Ordered, Coming
  <1>4. Quiet' /\ Known' /\ Unknown' /\ AllowedIsStored'
    BY <1>1 DEF Quiet, Known, Unknown, AllowedIsStored
  <1> QED BY <1>2, <1>3, <1>4

\* What the events of a log say.
LEMMA EventsOfLog ==
    ASSUME NEW log \in LogItem, bound \subseteq Node, NEW new, new = EventsOf(log)
    PROVE  /\ new \in Seq(EventItem)
           /\ \A n : Has(new, "Denied", n) <=> log = Item("Deregistered", n)
           /\ \A n : Has(new, "Allowed", n) <=> log = Item("Registered", n)
           /\ \A i \in DOMAIN new : new[i].type = "Announcement" => new[i].node \in bound
  <1>1. log.type \in LogType /\ log.node \in Node /\ log = Item(log.type, log.node)
    BY DEF LogItem, Item
  <1>2. \A x \in EventItem : new = <<x>> =>
          /\ new \in Seq(EventItem) /\ DOMAIN new = {1} /\ new[1] = x
          /\ \A a, n : Has(new, a, n) <=> x = Item(a, n)
    BY ShortQueue
  <1>3. CASE log.type = "Registered"
    <2>1. new = <<Item("Allowed", log.node)>>
      BY <1>3 DEF EventsOf
    <2>2. Item("Allowed", log.node) \in EventItem
      BY <1>1 DEF EventItem, EventType, Item
    <2> QED BY <1>1, <1>2, <1>3, <2>1, <2>2, ItemEqual
  <1>4. CASE log.type = "Deregistered"
    <2>1. new = <<Item("Denied", log.node)>>
      BY <1>4 DEF EventsOf
    <2>2. Item("Denied", log.node) \in EventItem
      BY <1>1 DEF EventItem, EventType, Item
    <2> QED BY <1>1, <1>2, <1>4, <2>1, <2>2, ItemEqual
  <1>5. CASE log.type = "AddressAnnouncement" /\ log.node \in bound
    <2>1. new = <<Item("Announcement", log.node)>>
      BY <1>5 DEF EventsOf
    <2>2. Item("Announcement", log.node) \in EventItem
      BY <1>1 DEF EventItem, EventType, Item
    <2> QED BY <1>1, <1>2, <1>5, <2>1, <2>2, ItemEqual
  <1>6. CASE /\ log.type \notin {"Registered", "Deregistered"}
             /\ ~ (log.type = "AddressAnnouncement" /\ log.node \in bound)
    <2>1. new = <<>>
      BY <1>6 DEF EventsOf
    <2>2. new \in Seq(EventItem) /\ DOMAIN new = {} /\ \A a, n : ~ Has(new, a, n)
      BY <2>1, HasAt
    <2> QED BY <1>1, <1>6, <2>2, ItemEqual
  <1> QED BY <1>3, <1>4, <1>5, <1>6

\* The indexer takes the first log: the table follows, and the event it
\* sends takes the log's place.
LEMMA IndexLogInv ==
    ASSUME IInv, IndexLog
    PROVE  IInv'
  <1> USE DEF IInv
  <1>1. PICK log, rest : log = Head(backlog) /\ rest = Tail(backlog)
    OBVIOUS
  <1>2. /\ backlog # <<>> /\ backlog' = rest /\ lag' = (IF lag = 0 THEN 0 ELSE lag - 1)
        /\ allowed' = AllowedAfter(log)
        /\ bound' = (IF log.type = "KeyBinding" THEN bound \cup {log.node} ELSE bound)
        /\ announced' = AnnouncedAfter(log)
        /\ cache' = (IF log.type = "KeyBinding" THEN [cache EXCEPT ![log.node] = "key"] ELSE cache)
        /\ events' = IF synced THEN events \o EventsOf(log) ELSE events
        /\ admitted' = admitted /\ synced' = synced /\ lookup' = lookup /\ updates' = updates
        /\ internal' = internal /\ phase' = phase /\ toLoad' = toLoad
        /\ peers' = peers /\ allowedPeers' = allowedPeers /\ connected' = connected
        /\ closing' = closing /\ restarts' = restarts /\ overtaken' = overtaken
    BY <1>1 DEF IndexLog, chainVars, startVars, swarmVars
  <1>3. backlog \in Seq(LogItem) /\ events \in Seq(EventItem)
    BY DEF Types
  <1>4. /\ log \in LogItem /\ rest \in Seq(LogItem) /\ Len(rest) = Len(backlog) - 1
        /\ \A a, n : Has(backlog, a, n) <=> log = Item(a, n) \/ Has(rest, a, n)
        /\ \A a, b, n : Followed(backlog, a, b, n) => Followed(rest, a, b, n)
        /\ \A a, b, n : Followed(backlog, a, b, n) /\ log = Item(a, n) => Has(rest, b, n)
    BY <1>1, <1>2, <1>3, QueueTail
  <1>5. log.type \in LogType /\ log.node \in Node /\ log = Item(log.type, log.node)
    BY <1>4 DEF LogItem, Item
  <1>6. PICK new : new = EventsOf(log)
    OBVIOUS
  <1>7. /\ new \in Seq(EventItem)
        /\ \A n : Has(new, "Denied", n) <=> log = Item("Deregistered", n)
        /\ \A n : Has(new, "Allowed", n) <=> log = Item("Registered", n)
        /\ \A i \in DOMAIN new : new[i].type = "Announcement" => new[i].node \in bound
    <2>1. bound \subseteq Node
      BY DEF Types
    <2> QED BY <2>1, <1>4, <1>6, EventsOfLog
  <1>8. bound \subseteq bound' /\ bound' \subseteq Node
    BY <1>2, <1>5 DEF Types
  <1>9. /\ \A n \in allowed' : n \in allowed \/ log = Item("Registered", n)
        /\ \A n \in allowed : n \in allowed' \/ log = Item("Deregistered", n)
        /\ \A n : log = Item("Registered", n) => n \in allowed'
        /\ \A n : log = Item("Deregistered", n) => n \notin allowed'
        /\ allowed' \subseteq Node
    <2>1. \A a, n : log = Item(a, n) <=> log.type = a /\ log.node = n
      BY <1>5, ItemEqual
    <2>2. CASE log.type = "Registered"
      BY <1>2, <1>5, <2>1, <2>2 DEF AllowedAfter, Types
    <2>3. CASE log.type = "Deregistered"
      BY <1>2, <1>5, <2>1, <2>3 DEF AllowedAfter, Types
    <2>4. CASE log.type \notin {"Registered", "Deregistered"}
      <3>1. allowed' = allowed
        BY <1>2, <2>4 DEF AllowedAfter
      <3> QED BY <2>1, <2>4, <3>1 DEF Types
    <2> QED BY <2>2, <2>3, <2>4
  <1>10. Follows'
    <2>1. ASSUME NEW n \in allowed' \ admitted PROVE Has(rest, "Deregistered", n)
      <3>1. CASE log = Item("Registered", n)
        <4>1. n \in Node
          BY <1>5, <3>1, ItemEqual
        <4> QED BY <3>1, <4>1, <1>4 DEF Follows
      <3>2. CASE log # Item("Registered", n)
        <4>1. n \in allowed /\ log # Item("Deregistered", n)
          BY <1>9, <3>2
        <4> QED BY <4>1, <1>4 DEF Follows
      <3> QED BY <3>1, <3>2
    <2>2. ASSUME NEW n \in admitted \ allowed' PROVE Has(rest, "Registered", n)
      <3>1. CASE log = Item("Deregistered", n)
        BY <3>1, <1>4 DEF Follows
      <3>2. CASE log # Item("Deregistered", n)
        <4>1. n \notin allowed /\ log # Item("Registered", n)
          BY <1>9, <3>2
        <4> QED BY <4>1, <1>4 DEF Follows
      <3> QED BY <3>1, <3>2
    <2> QED BY <1>2, <1>4, <2>1, <2>2 DEF Follows
  <1>11. Types'
    <2>1. events' \in Seq(EventItem)
      BY <1>2, <1>3, <1>6, <1>7, ConcatProperties
    <2>2. announced' \subseteq bound'
      <3>1. announced' \subseteq bound
        BY <1>2 DEF AnnouncedAfter, Types
      <3> QED BY <3>1, <1>8
    <2>3. cache' \in [Node -> {"absent", "none", "key"}]
      BY <1>2, <1>5 DEF Types
    <2>4. lag' \in 0 .. MaxInFlight
      BY <1>2, AccessAssumption DEF Types
    <2>5. Len(rest) <= MaxInFlight
      <3>1. Len(backlog) \in Nat /\ Len(backlog) <= MaxInFlight
        BY <1>3, LenProperties DEF Types
      <3> QED BY <3>1, <1>4, AccessAssumption
    <2> QED BY <1>2, <1>4, <1>8, <1>9, <2>1, <2>2, <2>3, <2>4, <2>5 DEF Types
  <1>12. CASE synced
    <2>1. events' = events \o new
      BY <1>2, <1>6, <1>12
    <2>2. /\ \A a, n : Has(events', a, n) <=> Has(events, a, n) \/ Has(new, a, n)
          /\ \A a, b, n : Followed(events, a, b, n) /\ ~ Has(new, a, n) => Followed(events', a, b, n)
      BY <2>1, <1>3, <1>7, QueueConcat
    <2>3. ASSUME NEW n, Has(backlog, "Deregistered", n)
          PROVE  Has(rest, "Deregistered", n) \/ Has(events', "Denied", n)
      BY <1>4, <1>7, <2>2, <2>3
    <2>4. ASSUME NEW n \in Node \ admitted
          PROVE  Has(rest, "Deregistered", n) \/ Followed(events', "Allowed", "Denied", n)
      <3>1. CASE log = Item("Registered", n)
        BY <3>1, <1>4 DEF Follows
      <3>2. CASE log = Item("Deregistered", n)
        <4>1. Has(new, "Denied", n) /\ ~ Has(new, "Allowed", n)
          BY <3>2, <1>7, ItemEqual
        <4>2. Followed(new, "Allowed", "Denied", n)
          BY <4>1, HasAt DEF Followed
        <4> QED BY <4>1, <4>2, <2>1, <1>3, <1>7, QueueConcat
      <3>3. CASE log # Item("Registered", n) /\ log # Item("Deregistered", n)
        BY <3>3, <1>4, <1>7, <2>2 DEF Ordered
      <3> QED BY <3>1, <3>2, <3>3
    <2>5. Ordered'
      BY <1>2, <2>2, <2>3, <2>4 DEF Ordered
    <2>6. Coming'
      BY <1>2, <2>2, <2>3 DEF Coming
    <2>7. Known'
      <3>1. \A n \in Node : cache'[n] = "key" => n \in bound'
        BY <1>2, <1>5, <1>8 DEF Known, Types
      <3>2. ASSUME NEW i \in DOMAIN events', events'[i].type = "Announcement"
            PROVE  events'[i].node \in bound
        <4>1. /\ Len(events) \in Nat /\ Len(new) \in Nat
              /\ DOMAIN events = 1 .. Len(events) /\ DOMAIN new = 1 .. Len(new)
          BY <1>3, <1>7, LenProperties
        <4>2. /\ i \in 1 .. Len(events) + Len(new)
              /\ events'[i] = IF i <= Len(events) THEN events[i] ELSE new[i - Len(events)]
          BY <1>3, <1>7, <2>1, ConcatProperties, LenProperties
        <4>3. CASE i <= Len(events)
          BY <3>2, <4>1, <4>2, <4>3 DEF Known
        <4>4. CASE ~ (i <= Len(events))
          <5>1. i - Len(events) \in DOMAIN new
            BY <4>1, <4>2, <4>4
          <5> QED BY <3>2, <4>2, <4>4, <5>1, <1>7
        <4> QED BY <4>3, <4>4
      <3> QED BY <3>1, <3>2, <1>2, <1>8 DEF Known
    <2>8. Unknown'
      <3>1. lookup # NoNode => events' # <<>> /\ Head(events') = Head(events)
        <4> SUFFICES ASSUME lookup # NoNode PROVE events' # <<>> /\ Head(events') = Head(events)
          OBVIOUS
        <4>1. events # <<>>
          BY DEF Unknown
        <4>2. Len(events) \in Nat /\ Len(events) # 0 /\ Len(new) \in Nat
          BY <4>1, <1>3, <1>7, EmptySeq, LenProperties
        <4>3. /\ events' \in Seq(EventItem) /\ Len(events') = Len(events) + Len(new)
              /\ events'[1] = events[1]
          BY <4>2, <2>1, <1>3, <1>7, ConcatProperties
        <4> QED BY <4>1, <4>2, <4>3, <1>3
      <3>2. ASSUME NEW n \in Node, cache'[n] = "none" PROVE cache[n] = "none"
        BY <3>2, <1>2, <1>5 DEF Types
      <3> QED BY <3>1, <3>2, <1>2 DEF Unknown
    <2>9. Quiet' /\ AllowedIsStored'
      BY <1>2, <1>12 DEF Quiet, AllowedIsStored
    <2> QED BY <1>10, <1>11, <2>5, <2>6, <2>7, <2>8, <2>9
  <1>13. CASE ~ synced
    <2>1. /\ events' = <<>> /\ updates' = <<>> /\ internal' = <<>> /\ allowedPeers' = {}
          /\ phase' = "syncing" /\ lookup' = NoNode
      BY <1>2, <1>13 DEF Quiet
    <2>2. \A a, b, n : ~ Has(<<>>, a, n) /\ Followed(<<>>, a, b, n)
      BY HasAt DEF Followed
    <2>3. Ordered' /\ Coming'
      BY <2>1, <2>2 DEF Ordered, Coming
    <2>4. Known'
      <3>1. \A n \in Node : cache'[n] = "key" => n \in bound'
        BY <1>2, <1>5, <1>8 DEF Known, Types
      <3> QED BY <3>1, <2>1, <1>2, <1>8 DEF Known
    <2>5. Unknown' /\ Quiet' /\ AllowedIsStored'
      BY <2>1, <2>2 DEF Unknown, Quiet, AllowedIsStored
    <2> QED BY <1>10, <1>11, <2>3, <2>4, <2>5
  <1> QED BY <1>12, <1>13

--------------------------------------------------------------------------------
(* The pipeline *)

\* The items of a queue that gets an item x or loses its first.
LEMMA QueueItems ==
    ASSUME NEW S, NEW q \in Seq(S)
    PROVE  /\ q # <<>> => \A i \in DOMAIN Tail(q) : \E j \in DOMAIN q : Tail(q)[i] = q[j]
           /\ q # <<>> => \E j \in DOMAIN q : Head(q) = q[j]
           /\ \A x \in S : \A i \in DOMAIN Append(q, x) :
                 Append(q, x)[i] = x \/ \E j \in DOMAIN q : Append(q, x)[i] = q[j]
  <1>1. ASSUME q # <<>>, NEW i \in DOMAIN Tail(q) PROVE \E j \in DOMAIN q : Tail(q)[i] = q[j]
    <2>1. Len(q) \in Nat /\ Len(q) # 0
      BY <1>1, EmptySeq, LenProperties
    <2>2. Tail(q) \in Seq(S) /\ Len(Tail(q)) = Len(q) - 1
      BY <1>1, <2>1
    <2>3. i \in 1 .. Len(q) - 1 /\ DOMAIN q = 1 .. Len(q)
      BY <1>1, <2>2, LenProperties
    <2>4. Tail(q)[i] = q[i + 1] /\ i + 1 \in 1 .. Len(q)
      BY <1>1, <2>1, <2>3
    <2> QED BY <2>3, <2>4
  <1>2. ASSUME q # <<>> PROVE \E j \in DOMAIN q : Head(q) = q[j]
    <2>1. Len(q) \in Nat /\ Len(q) # 0
      BY <1>2, EmptySeq, LenProperties
    <2>2. 1 \in DOMAIN q /\ Head(q) = q[1]
      BY <1>2, <2>1
    <2> QED BY <2>2
  <1>3. ASSUME NEW x \in S, NEW i \in DOMAIN Append(q, x)
        PROVE  Append(q, x)[i] = x \/ \E j \in DOMAIN q : Append(q, x)[i] = q[j]
    <2>1. Len(q) \in Nat /\ DOMAIN q = 1 .. Len(q) /\ i \in 1 .. Len(q) + 1
      BY <1>3, LenProperties
    <2>2. Append(q, x)[i] = IF i = Len(q) + 1 THEN x ELSE q[i]
      BY <2>1
    <2> QED BY <2>1, <2>2
  <1> QED BY <1>1, <1>2, <1>3

\* Adding one item at the end of a queue.
LEMMA QueueAppend ==
    ASSUME NEW S, NEW q \in Seq(S), NEW x \in S, NEW a, NEW b, NEW n
    PROVE  /\ Append(q, x) \in Seq(S)
           /\ Has(Append(q, x), a, n) <=> Has(q, a, n) \/ x = Item(a, n)
           /\ Followed(q, a, b, n) /\ x # Item(a, n) => Followed(Append(q, x), a, b, n)
           /\ x = Item(b, n) /\ x # Item(a, n) => Followed(Append(q, x), a, b, n)
  <1>1. PICK r : r = <<x>>
    OBVIOUS
  <1>2. r \in Seq(S) /\ (Has(r, a, n) <=> x = Item(a, n)) /\ (Has(r, b, n) <=> x = Item(b, n))
        /\ (x # Item(a, n) => Followed(r, a, b, n))
    BY <1>1, ShortQueue
  <1>3. Append(q, x) = q \o r
    BY <1>1, AppendIsConcat
  <1>4. Append(q, x) \in Seq(S)
    OBVIOUS
  <1> QED BY <1>2, <1>3, <1>4, QueueConcat

\* An event is forwarded as an update.
LEMMA ForwardInv ==
    ASSUME IInv, UNCHANGED pipelineFrame, events # <<>>, lookup = NoNode,
           NEW e, e = Head(events), Forward(e), e.node \in bound,
           cache' \in [Node -> {"absent", "none", "key"}],
           \A n \in Node : /\ cache'[n] = "key" => n \in bound
                           /\ cache'[n] = "none" => cache[n] = "none",
           e.type # "Announcement" => cache'[e.node] # "none"
    PROVE  IInv'
  <1> USE DEF IInv
  <1>1. PICK u, rest : u = Item(UpdateOf(e.type), e.node) /\ rest = Tail(events)
    OBVIOUS
  <1>2. /\ events' = rest /\ updates' = Append(updates, u)
        /\ lookup' = NoNode /\ overtaken' = overtaken
        /\ admitted' = admitted /\ backlog' = backlog /\ lag' = lag /\ synced' = synced
        /\ bound' = bound /\ announced' = announced /\ allowed' = allowed
        /\ internal' = internal /\ phase' = phase /\ toLoad' = toLoad
        /\ peers' = peers /\ allowedPeers' = allowedPeers /\ connected' = connected
        /\ closing' = closing /\ restarts' = restarts
    BY <1>1 DEF Forward, pipelineFrame, chainVars, dbVars, startVars, swarmVars
  <1>3. events \in Seq(EventItem) /\ updates \in Seq(UpdateItem) /\ bound \subseteq Node
    BY DEF Types
  <1>4. /\ e \in EventItem /\ rest \in Seq(EventItem)
        /\ \A a, n : Has(events, a, n) <=> e = Item(a, n) \/ Has(rest, a, n)
        /\ \A a, b, n : Followed(events, a, b, n) => Followed(rest, a, b, n)
        /\ \A a, b, n : Followed(events, a, b, n) /\ e = Item(a, n) => Has(rest, b, n)
    BY <1>1, <1>3, QueueTail
  <1>5. e.type \in EventType /\ e.node \in Node /\ e = Item(e.type, e.node)
    BY <1>4 DEF EventItem, Item
  <1>6. /\ u \in UpdateItem /\ u.node = e.node
        /\ \A n : u = Item("Allow", n) <=> e = Item("Allowed", n)
        /\ \A n : u = Item("Ban", n) <=> e = Item("Denied", n)
    <2>1. /\ UpdateOf(e.type) \in UpdateType
          /\ UpdateOf(e.type) = "Allow" <=> e.type = "Allowed"
          /\ UpdateOf(e.type) = "Ban" <=> e.type = "Denied"
      BY <1>5 DEF UpdateOf, UpdateType, EventType
    <2>2. u \in UpdateItem
      BY <1>1, <1>5, <2>1 DEF UpdateItem, Item
    <2> QED BY <1>1, <1>5, <2>1, <2>2, ItemEqual
  <1>7. /\ updates' \in Seq(UpdateItem)
        /\ \A a, n : Has(updates', a, n) <=> Has(updates, a, n) \/ u = Item(a, n)
        /\ \A a, b, n : Followed(updates, a, b, n) /\ u # Item(a, n) => Followed(updates', a, b, n)
        /\ \A a, b, n : u = Item(b, n) /\ u # Item(a, n) => Followed(updates', a, b, n)
    BY <1>2, <1>3, <1>6, QueueAppend
  <1>8. Types'
    BY <1>2, <1>4, <1>7 DEF Types
  <1>9. Follows' /\ AllowedIsStored'
    BY <1>2 DEF Follows, AllowedIsStored
  <1>10. Quiet'
    BY <1>2 DEF Quiet
  <1>11. Known'
    <2>1. \A i \in DOMAIN events' : \E j \in DOMAIN events : events'[i] = events[j]
      BY <1>1, <1>2, <1>3, QueueItems
    <2>2. \A i \in DOMAIN updates' : updates'[i] = u \/ \E j \in DOMAIN updates : updates'[i] = updates[j]
      BY <1>2, <1>3, <1>6, QueueItems
    <2> QED BY <1>2, <1>6, <2>1, <2>2 DEF Known
  <1>12. Unknown'
    <2>1. ASSUME NEW n \in Node, cache'[n] = "none"
          PROVE  ~ Has(updates', "Allow", n) /\ ~ Has(updates', "Ban", n)
      <3>1. ~ Has(updates, "Allow", n) /\ ~ Has(updates, "Ban", n)
        BY <2>1 DEF Unknown
      <3>2. e # Item("Allowed", n) /\ e # Item("Denied", n)
        BY <2>1, <1>5, ItemEqual
      <3> QED BY <3>1, <3>2, <1>6, <1>7
    <2>2. \A n \in Node : lookup' # n
      BY <1>2, AccessAssumption
    <2> QED BY <1>2, <2>1, <2>2 DEF Unknown
  <1>13. ASSUME NEW n, Has(events, "Denied", n)
         PROVE  Has(rest, "Denied", n) \/ (Has(updates', "Ban", n) /\ Followed(updates', "Allow", "Ban", n))
    <2>1. CASE e = Item("Denied", n)
      <3>1. u = Item("Ban", n) /\ u # Item("Allow", n)
        BY <2>1, <1>6, ItemEqual
      <3> QED BY <3>1, <1>7
    <2>2. CASE e # Item("Denied", n)
      BY <2>2, <1>4, <1>13
    <2> QED BY <2>1, <2>2
  <1>14. Ordered'
    <2> SUFFICES ASSUME NEW n \in Node \ admitted
                 PROVE  /\ Has(backlog, "Deregistered", n) \/ Followed(rest, "Allowed", "Denied", n)
                        /\ \/ Has(backlog, "Deregistered", n) \/ Has(rest, "Denied", n)
                           \/ Followed(updates', "Allow", "Ban", n)
      BY <1>2 DEF Ordered
    <2>1. /\ Has(backlog, "Deregistered", n) \/ Followed(events, "Allowed", "Denied", n)
          /\ \/ Has(backlog, "Deregistered", n) \/ Has(events, "Denied", n)
             \/ Followed(updates, "Allow", "Ban", n)
      BY DEF Ordered
    <2>2. CASE u = Item("Allow", n)
      BY <2>1, <2>2, <1>4, <1>6
    <2>3. CASE u # Item("Allow", n)
      BY <2>1, <2>3, <1>4, <1>7, <1>13
    <2> QED BY <2>2, <2>3
  <1>15. Coming'
    BY <1>2, <1>7, <1>13 DEF Coming
  <1> QED BY <1>8, <1>9, <1>10, <1>11, <1>12, <1>14, <1>15

\* An event about a node whose key is taken for unknown is dropped.
LEMMA DropInv ==
    ASSUME IInv, UNCHANGED pipelineFrame, events # <<>>,
           NEW e, e = Head(events), Drop(e), e.type # "Announcement",
           ~ Has(updates, "Allow", e.node), ~ Has(updates, "Ban", e.node),
           cache' \in [Node -> {"absent", "none", "key"}],
           \A n \in Node : /\ cache'[n] = "key" => n \in bound
                           /\ cache'[n] = "none" => cache[n] = "none" \/ n = e.node
    PROVE  IInv'
  <1> USE DEF IInv
  <1>1. PICK rest : rest = Tail(events)
    OBVIOUS
  <1>2. /\ events' = rest /\ updates' = updates /\ lookup' = NoNode
        /\ overtaken' = IF e.type = "Denied" /\ e.node \in bound THEN overtaken \cup {e.node}
                                                                 ELSE overtaken
        /\ admitted' = admitted /\ backlog' = backlog /\ lag' = lag /\ synced' = synced
        /\ bound' = bound /\ announced' = announced /\ allowed' = allowed
        /\ internal' = internal /\ phase' = phase /\ toLoad' = toLoad
        /\ peers' = peers /\ allowedPeers' = allowedPeers /\ connected' = connected
        /\ closing' = closing /\ restarts' = restarts
    BY <1>1 DEF Drop, pipelineFrame, chainVars, dbVars, startVars, swarmVars
  <1>3. events \in Seq(EventItem) /\ bound \subseteq Node
    BY DEF Types
  <1>4. /\ e \in EventItem /\ rest \in Seq(EventItem)
        /\ \A a, n : Has(events, a, n) <=> e = Item(a, n) \/ Has(rest, a, n)
        /\ \A a, b, n : Followed(events, a, b, n) => Followed(rest, a, b, n)
    BY <1>1, <1>3, QueueTail
  <1>5. e.node \in Node /\ e = Item(e.type, e.node)
    BY <1>4 DEF EventItem, Item
  <1>6. Types'
    BY <1>2, <1>4, <1>5 DEF Types
  <1>7. Follows' /\ AllowedIsStored' /\ Quiet'
    <2>1. ~ synced => events = <<>>
      BY DEF Quiet
    <2> QED BY <1>2, <2>1 DEF Follows, AllowedIsStored, Quiet
  <1>8. Known'
    <2>1. \A i \in DOMAIN events' : \E j \in DOMAIN events : events'[i] = events[j]
      BY <1>1, <1>2, <1>3, QueueItems
    <2> QED BY <1>2, <2>1 DEF Known
  <1>9. Unknown'
    <2>1. \A n \in Node : lookup' # n
      BY <1>2, AccessAssumption
    <2> QED BY <1>2, <2>1 DEF Unknown
  <1>10. ASSUME NEW n, Has(events, "Denied", n), ~ Has(rest, "Denied", n)
         PROVE  n = e.node /\ e.type = "Denied"
    BY <1>4, <1>5, <1>10, ItemEqual
  <1>11. Ordered'
    <2> SUFFICES ASSUME NEW n \in Node \ admitted
                 PROVE  /\ Has(backlog, "Deregistered", n) \/ Followed(rest, "Allowed", "Denied", n)
                        /\ \/ Has(backlog, "Deregistered", n) \/ Has(rest, "Denied", n)
                           \/ Followed(updates, "Allow", "Ban", n)
      BY <1>2 DEF Ordered
    <2>1. /\ Has(backlog, "Deregistered", n) \/ Followed(events, "Allowed", "Denied", n)
          /\ \/ Has(backlog, "Deregistered", n) \/ Has(events, "Denied", n)
             \/ Followed(updates, "Allow", "Ban", n)
      BY DEF Ordered
    <2>2. n = e.node => Followed(updates, "Allow", "Ban", n)
      BY HasAt DEF Followed
    <2> QED BY <2>1, <2>2, <1>4, <1>10
  <1>12. Coming'
    <2> SUFFICES ASSUME NEW n \in Node \ admitted, n \in allowedPeers \/ Has(internal, "Allow", n)
                 PROVE  \/ Has(backlog, "Deregistered", n) \/ Has(rest, "Denied", n)
                        \/ Has(updates, "Ban", n) \/ n \in overtaken'
      BY <1>2 DEF Coming
    <2>1. n \in bound
      <3>1. CASE Has(internal, "Allow", n)
        <4>1. PICK i \in DOMAIN internal : internal[i] = Item("Allow", n)
          BY <3>1, HasAt
        <4>2. internal[i].node = n
          BY <4>1, ItemEqual
        <4> QED BY <4>2 DEF Known
      <3>2. CASE n \in allowedPeers
        BY <3>2 DEF Known
      <3> QED BY <3>1, <3>2
    <2>2. \/ Has(backlog, "Deregistered", n) \/ Has(events, "Denied", n)
          \/ Has(updates, "Ban", n) \/ n \in overtaken
      BY DEF Coming
    <2> QED BY <2>1, <2>2, <1>2, <1>10
  <1> QED BY <1>6, <1>7, <1>8, <1>9, <1>11, <1>12

\* An event is translated, dropped for want of a key, or starts a query.
LEMMA PipelineInv ==
    ASSUME IInv, TranslateEvent \/ CacheMissing
    PROVE  IInv'
  <1> USE DEF IInv
  <1>1. /\ cache \in [Node -> {"absent", "none", "key"}] /\ events \in Seq(EventItem)
        /\ \A n \in Node : cache[n] = "key" => n \in bound
    BY DEF Types, Known
  <1>2. PICK e : e = Head(events)
    OBVIOUS
  <1>3. CASE CacheMissing
    <2>1. /\ lookup # NoNode /\ cache' = [cache EXCEPT ![lookup] = "none"]
          /\ Drop(e) /\ UNCHANGED pipelineFrame
      BY <1>2, <1>3 DEF CacheMissing
    <2>2. /\ lookup \in Node /\ events # <<>> /\ e.node = lookup /\ e.type # "Announcement"
          /\ ~ Has(updates, "Allow", lookup) /\ ~ Has(updates, "Ban", lookup)
      BY <1>2, <2>1 DEF Unknown, Types
    <2>3. /\ cache' \in [Node -> {"absent", "none", "key"}]
          /\ \A n \in Node : /\ cache'[n] = "key" => n \in bound
                             /\ cache'[n] = "none" => cache[n] = "none" \/ n = e.node
      BY <1>1, <2>1, <2>2
    <2> QED BY <1>2, <2>1, <2>2, <2>3, DropInv
  <1>4. CASE TranslateEvent
    <2>1. events # <<>> /\ lookup = NoNode /\ UNCHANGED pipelineFrame
      BY <1>4 DEF TranslateEvent
    <2>2. e \in EventItem
      BY <1>1, <1>2, <2>1, QueueTail
    <2>3. e.node \in Node
      BY <2>2 DEF EventItem
    <2>4. CASE (e.type = "Announcement" \/ cache[e.node] = "key") /\ Forward(e) /\ cache' = cache
      <3>1. e.node \in bound
        <4>1. \E j \in DOMAIN events : e = events[j]
          BY <1>1, <1>2, <2>1, QueueItems
        <4> QED BY <2>3, <2>4, <4>1 DEF Known
      <3>2. e.type # "Announcement" => cache'[e.node] # "none"
        BY <2>4
      <3> QED BY <1>1, <1>2, <2>1, <2>4, <3>1, <3>2, ForwardInv
    <2>5. CASE e.type # "Announcement" /\ cache[e.node] = "none" /\ Drop(e) /\ cache' = cache
      <3>1. ~ Has(updates, "Allow", e.node) /\ ~ Has(updates, "Ban", e.node)
        BY <2>3, <2>5 DEF Unknown
      <3> QED BY <1>1, <1>2, <2>1, <2>5, <3>1, DropInv
    <2>6. CASE /\ e.type # "Announcement" /\ cache[e.node] = "absent" /\ e.node \in bound
               /\ Forward(e) /\ cache' = [cache EXCEPT ![e.node] = "key"]
      <3>1. /\ cache' \in [Node -> {"absent", "none", "key"}] /\ cache'[e.node] # "none"
            /\ \A n \in Node : /\ cache'[n] = "key" => n \in bound
                               /\ cache'[n] = "none" => cache[n] = "none"
        BY <1>1, <2>3, <2>6
      <3> QED BY <1>2, <2>1, <2>6, <3>1, ForwardInv
    <2>7. CASE /\ e.type # "Announcement" /\ cache[e.node] = "absent" /\ e.node \notin bound
               /\ lookup' = e.node /\ UNCHANGED <<cache, events, updates, overtaken>>
      <3>1. /\ events' = events /\ updates' = updates /\ cache' = cache /\ overtaken' = overtaken
            /\ admitted' = admitted /\ backlog' = backlog /\ lag' = lag /\ synced' = synced
            /\ bound' = bound /\ announced' = announced /\ allowed' = allowed
            /\ internal' = internal /\ phase' = phase /\ toLoad' = toLoad
            /\ peers' = peers /\ allowedPeers' = allowedPeers /\ connected' = connected
            /\ closing' = closing /\ restarts' = restarts
        BY <2>1, <2>7 DEF pipelineFrame, chainVars, dbVars, startVars, swarmVars
      <3>2. Types'
        BY <2>3, <2>7, <3>1 DEF Types
      <3>3. Follows' /\ Ordered' /\ Coming' /\ Known' /\ AllowedIsStored'
        BY <3>1 DEF Follows, Ordered, Coming, Known, AllowedIsStored
      <3>4. Quiet'
        BY <2>1, <3>1 DEF Quiet
      <3>5. ASSUME NEW a PROVE ~ Has(updates, a, e.node)
        <4>1. ASSUME NEW i \in DOMAIN updates, updates[i] = Item(a, e.node) PROVE FALSE
          BY <2>7, <4>1, ItemEqual DEF Known
        <4> QED BY <4>1, HasAt
      <3>6. Unknown'
        BY <1>2, <2>1, <2>7, <3>1, <3>5 DEF Unknown
      <3> QED BY <3>2, <3>3, <3>4, <3>6
    <2> QED BY <1>2, <1>4, <2>4, <2>5, <2>6, <2>7 DEF TranslateEvent
  <1> QED BY <1>3, <1>4

\* A key leaves the cache.
LEMMA ExpireInv ==
    ASSUME IInv, NEW n \in Node, Expire(n)
    PROVE  IInv'
  <1> USE DEF IInv
  <1>1. /\ cache' = [cache EXCEPT ![n] = "absent"]
        /\ events' = events /\ updates' = updates /\ overtaken' = overtaken /\ lookup' = lookup
        /\ admitted' = admitted /\ backlog' = backlog /\ lag' = lag /\ synced' = synced
        /\ bound' = bound /\ announced' = announced /\ allowed' = allowed
        /\ internal' = internal /\ phase' = phase /\ toLoad' = toLoad
        /\ peers' = peers /\ allowedPeers' = allowedPeers /\ connected' = connected
        /\ closing' = closing /\ restarts' = restarts
    BY DEF Expire, pipelineFrame, chainVars, dbVars, startVars, swarmVars
  <1>2. /\ cache' \in [Node -> {"absent", "none", "key"}]
        /\ \A m \in Node : cache'[m] # "absent" => cache'[m] = cache[m]
    BY <1>1 DEF Types
  <1>3. Types'
    BY <1>1, <1>2 DEF Types
  <1>4. Follows' /\ Ordered' /\ Coming' /\ AllowedIsStored' /\ Quiet'
    BY <1>1 DEF Follows, Ordered, Coming, AllowedIsStored, Quiet
  <1>5. Known' /\ Unknown'
    BY <1>1, <1>2 DEF Known, Unknown
  <1> QED BY <1>3, <1>4, <1>5

--------------------------------------------------------------------------------
(* The start of the transport *)

\* What the initial load adds to its queue: a node with a key, which the
\* database allows, so that its ban, if it has been expelled, is to be indexed.
LEMMA LoadPeerInv ==
    ASSUME IInv, NEW n \in Node, LoadPeer(n)
    PROVE  IInv'
  <1> USE DEF IInv
  <1>1. /\ phase = "loading" /\ n \in toLoad /\ toLoad' = toLoad \ {n}
        /\ cache' = cache /\ phase' = phase
        /\ events' = events /\ updates' = updates /\ overtaken' = overtaken /\ lookup' = lookup
        /\ admitted' = admitted /\ backlog' = backlog /\ lag' = lag /\ synced' = synced
        /\ bound' = bound /\ announced' = announced /\ allowed' = allowed
        /\ peers' = peers /\ allowedPeers' = allowedPeers /\ connected' = connected
        /\ closing' = closing /\ restarts' = restarts
    BY DEF LoadPeer, loadFrame, chainVars, dbVars, swarmVars
  <1>2. /\ internal' \in Seq(LoadItem)
        /\ \A a, m : Has(internal', a, m) => Has(internal, a, m) \/ (m = n /\ n \in allowed)
    <2>1. internal \in Seq(LoadItem)
      BY DEF Types
    <2>2. CASE n \notin allowed
      BY <2>1, <2>2 DEF LoadPeer
    <2>3. CASE n \in allowed
      <3>1. PICK x, y : x = Item("Allow", n) /\ y = Item("Announce", n)
        OBVIOUS
      <3>2. PICK r : r = <<x, y>>
        OBVIOUS
      <3>3. x \in LoadItem /\ y \in LoadItem
        BY <3>1 DEF LoadItem, Item
      <3>4. r \in Seq(LoadItem) /\ DOMAIN r = 1 .. 2 /\ r[1] = x /\ r[2] = y
        BY <3>2, <3>3
      <3>5. internal' = internal \o r
        BY <2>3, <3>1, <3>2 DEF LoadPeer
      <3>6. ASSUME NEW a, NEW m, Has(r, a, m) PROVE m = n
        <4>1. PICK i \in 1 .. 2 : r[i] = Item(a, m)
          BY <3>4, <3>6, HasAt
        <4>2. r[i] = x \/ r[i] = y
          BY <3>4
        <4> QED BY <3>1, <4>1, <4>2, ItemEqual
      <3> QED BY <2>1, <2>3, <3>4, <3>5, <3>6, QueueConcat
    <2> QED BY <2>2, <2>3
  <1>3. Types'
    BY <1>1, <1>2 DEF Types
  <1>4. Follows' /\ Ordered' /\ AllowedIsStored' /\ Unknown'
    BY <1>1 DEF Follows, Ordered, AllowedIsStored, Unknown
  <1>5. Quiet'
    BY <1>1 DEF Quiet
  <1>6. Known'
    <2>1. n \in bound
      BY <1>1 DEF Known
    <2>2. ASSUME NEW i \in DOMAIN internal' PROVE internal'[i].node \in bound
      <3>1. PICK z : z = internal'[i]
        OBVIOUS
      <3>2. z \in LoadItem
        BY <1>2, <3>1, ElementOfSeq, LenProperties
      <3>3. z = Item(z.type, z.node)
        BY <3>2 DEF LoadItem, Item
      <3>4. Has(internal', z.type, z.node)
        BY <3>1, <3>3, HasAt
      <3>5. CASE Has(internal, z.type, z.node)
        <4>1. PICK j \in DOMAIN internal : internal[j] = z
          BY <3>3, <3>5, HasAt
        <4> QED BY <3>1, <4>1 DEF Known
      <3> QED BY <1>2, <2>1, <3>1, <3>4, <3>5
    <2> QED BY <1>1, <2>2 DEF Known
  <1>7. Coming'
    BY <1>1, <1>2 DEF Coming, Follows
  <1> QED BY <1>3, <1>4, <1>5, <1>6, <1>7

\* The load begins with the announced nodes, which have a key, and ends.
LEMMA LoadInv ==
    ASSUME IInv, StartLoad \/ FinishLoad
    PROVE  IInv'
  <1> USE DEF IInv
  <1>1. /\ phase # "syncing" \/ synced
        /\ phase' \in {"loading", "running"} /\ (toLoad' = announced \/ toLoad' = toLoad)
        /\ cache' = cache /\ internal' = internal
        /\ events' = events /\ updates' = updates /\ overtaken' = overtaken /\ lookup' = lookup
        /\ admitted' = admitted /\ backlog' = backlog /\ lag' = lag /\ synced' = synced
        /\ bound' = bound /\ announced' = announced /\ allowed' = allowed
        /\ peers' = peers /\ allowedPeers' = allowedPeers /\ connected' = connected
        /\ closing' = closing /\ restarts' = restarts
    BY DEF StartLoad, FinishLoad, loadFrame, chainVars, dbVars, swarmVars
  <1>2. Types'
    BY <1>1 DEF Types
  <1>3. Follows' /\ Ordered' /\ AllowedIsStored' /\ Unknown' /\ Coming'
    BY <1>1 DEF Follows, Ordered, AllowedIsStored, Unknown, Coming
  <1>4. Quiet' /\ Known'
    BY <1>1 DEF Quiet, Known, Types
  <1> QED BY <1>2, <1>3, <1>4

--------------------------------------------------------------------------------
(* The transport *)

\* What an update does to the stored and the allowed peers.
LEMMA Applied ==
    ASSUME IInv, NEW u, u \in UpdateItem, u.node \in bound, Apply(u)
    PROVE  /\ peers' \subseteq Node /\ allowedPeers' \subseteq Node
           /\ connected' \subseteq Node /\ closing' \subseteq Node
           /\ allowedPeers' \subseteq peers' /\ allowedPeers' \subseteq bound
           /\ \A m \in allowedPeers' : m \in allowedPeers \/ u = Item("Allow", m)
           /\ \A m : u = Item("Ban", m) => m \notin allowedPeers'
  <1> USE DEF IInv
  <1>1. /\ peers \subseteq Node /\ allowedPeers \subseteq peers /\ allowedPeers \subseteq bound
        /\ connected \subseteq Node /\ closing \subseteq Node /\ u.node \in Node
        /\ bound \subseteq Node
    BY DEF Types, Known, AllowedIsStored
  <1>2. u.type \in UpdateType /\ u = Item(u.type, u.node)
    BY DEF UpdateItem, Item
  <1>3. \A a, m : u = Item(a, m) <=> a = u.type /\ m = u.node
    BY <1>2, ItemEqual
  <1>4. CASE u.type = "Allow"
    <2>1. Allow(u.node)
      BY <1>4 DEF Apply
    <2>2. u = Item("Allow", u.node) /\ \A m : u # Item("Ban", m)
      BY <1>3, <1>4
    <2> QED BY <1>1, <2>1, <2>2 DEF Allow
  <1>5. CASE u.type = "Ban"
    <2>1. Ban(u.node)
      BY <1>5 DEF Apply
    <2>2. \A m : u = Item("Ban", m) => m = u.node
      BY <1>3
    <2>3. peers' = peers \ {u.node} /\ allowedPeers' = allowedPeers \ {u.node}
          /\ connected' = connected /\ closing' \subseteq closing \cup {u.node}
      BY <1>1, <2>1 DEF Ban
    <2> QED BY <1>1, <2>2, <2>3
  <1>6. CASE u.type = "Announce"
    <2>1. Announce(u.node)
      BY <1>6 DEF Apply
    <2>2. \A m : u # Item("Ban", m)
      BY <1>3, <1>6
    <2> QED BY <1>1, <2>1, <2>2 DEF Announce
  <1> QED BY <1>2, <1>4, <1>5, <1>6 DEF UpdateType

\* The facts a step of the transport leaves alone.
LEMMA TransportKept ==
    ASSUME IInv, phase = "running", UNCHANGED transportFrame
    PROVE  /\ admitted' = admitted /\ backlog' = backlog /\ lag' = lag /\ synced' = synced
           /\ bound' = bound /\ announced' = announced /\ allowed' = allowed /\ cache' = cache
           /\ events' = events /\ lookup' = lookup /\ phase' = phase /\ toLoad' = toLoad
           /\ restarts' = restarts
           /\ Follows' /\ Quiet'
  <1> USE DEF IInv
  <1>1. /\ admitted' = admitted /\ backlog' = backlog /\ lag' = lag /\ synced' = synced
        /\ bound' = bound /\ announced' = announced /\ allowed' = allowed /\ cache' = cache
        /\ events' = events /\ lookup' = lookup /\ phase' = phase /\ toLoad' = toLoad
        /\ restarts' = restarts
    BY DEF transportFrame, chainVars, dbVars, startVars
  <1>2. Follows'
    BY <1>1 DEF Follows
  <1>3. synced'
    BY <1>1 DEF Quiet
  <1> QED BY <1>1, <1>2, <1>3 DEF Quiet

\* An update of the pipeline is applied.
LEMMA HandleUpdateInv ==
    ASSUME IInv, HandleUpdate
    PROVE  IInv'
  <1> USE DEF IInv
  <1>1. PICK u, rest : u = Head(updates) /\ rest = Tail(updates)
    OBVIOUS
  <1>2. /\ phase = "running" /\ updates # <<>> /\ Apply(u) /\ updates' = rest
        /\ internal' = internal /\ UNCHANGED transportFrame
        /\ overtaken' = CASE u.type = "Ban" /\ Has(internal, "Allow", u.node) ->
                                overtaken \cup {u.node}
                          [] u.type = "Ban" /\ ~ Has(internal, "Allow", u.node) ->
                                overtaken \ {u.node}
                          [] OTHER -> overtaken
    BY <1>1 DEF HandleUpdate
  <1>3. /\ admitted' = admitted /\ backlog' = backlog /\ lag' = lag /\ synced' = synced
        /\ bound' = bound /\ announced' = announced /\ allowed' = allowed /\ cache' = cache
        /\ events' = events /\ lookup' = lookup /\ phase' = phase /\ toLoad' = toLoad
        /\ restarts' = restarts
        /\ Follows' /\ Quiet'
    BY <1>2, TransportKept
  <1>4. updates \in Seq(UpdateItem) /\ bound \subseteq Node
    BY DEF Types
  <1>5. /\ u \in UpdateItem /\ rest \in Seq(UpdateItem)
        /\ \A a, n : Has(updates, a, n) <=> u = Item(a, n) \/ Has(rest, a, n)
        /\ \A a, b, n : Followed(updates, a, b, n) => Followed(rest, a, b, n)
        /\ \A a, b, n : Followed(updates, a, b, n) /\ u = Item(a, n) => Has(rest, b, n)
    BY <1>1, <1>2, <1>4, QueueTail
  <1>6. \A a, m : u = Item(a, m) <=> a = u.type /\ m = u.node
    <2>1. u = Item(u.type, u.node)
      BY <1>5 DEF UpdateItem, Item
    <2> QED BY <2>1, ItemEqual
  <1>7. u.node \in bound /\ u.node \in Node
    <2>1. \E j \in DOMAIN updates : u = updates[j]
      BY <1>1, <1>2, <1>4, QueueItems
    <2> QED BY <1>4, <2>1 DEF Known
  <1>8. /\ peers' \subseteq Node /\ allowedPeers' \subseteq Node
        /\ connected' \subseteq Node /\ closing' \subseteq Node
        /\ allowedPeers' \subseteq peers' /\ allowedPeers' \subseteq bound
        /\ \A m \in allowedPeers' : m \in allowedPeers \/ u = Item("Allow", m)
        /\ \A m : u = Item("Ban", m) => m \notin allowedPeers'
    BY <1>2, <1>5, <1>7, Applied
  <1>9. /\ \A m : u = Item("Ban", m) /\ Has(internal, "Allow", m) => m \in overtaken'
        /\ \A m \in overtaken : u # Item("Ban", m) => m \in overtaken'
        /\ overtaken' \subseteq overtaken \cup {u.node}
    <2>1. CASE u.type = "Ban" /\ Has(internal, "Allow", u.node)
      BY <1>2, <1>6, <2>1
    <2>2. CASE u.type = "Ban" /\ ~ Has(internal, "Allow", u.node)
      BY <1>2, <1>6, <2>2
    <2>3. CASE u.type # "Ban"
      BY <1>2, <1>6, <2>3
    <2> QED BY <2>1, <2>2, <2>3
  <1>10. Types'
    BY <1>2, <1>3, <1>5, <1>7, <1>8, <1>9 DEF Types
  <1>11. AllowedIsStored'
    BY <1>8 DEF AllowedIsStored
  <1>12. Known'
    <2>1. \A i \in DOMAIN updates' : \E j \in DOMAIN updates : updates'[i] = updates[j]
      BY <1>1, <1>2, <1>4, QueueItems
    <2> QED BY <1>2, <1>3, <1>8, <2>1 DEF Known
  <1>13. Unknown' /\ Ordered'
    BY <1>2, <1>3, <1>5 DEF Unknown, Ordered
  <1>14. Coming'
    <2> SUFFICES ASSUME NEW n \in Node \ admitted, n \in allowedPeers' \/ Has(internal, "Allow", n),
                        ~ Has(backlog, "Deregistered", n), ~ Has(events, "Denied", n),
                        ~ Has(rest, "Ban", n)
                 PROVE  n \in overtaken'
      BY <1>2, <1>3 DEF Coming
    <2>1. CASE u = Item("Allow", n)
      <3>1. Followed(updates, "Allow", "Ban", n)
        BY DEF Ordered
      <3> QED BY <2>1, <3>1, <1>5
    <2>2. CASE u = Item("Ban", n)
      BY <2>2, <1>8, <1>9
    <2>3. CASE u # Item("Allow", n) /\ u # Item("Ban", n)
      <3>1. n \in allowedPeers \/ Has(internal, "Allow", n)
        BY <2>3, <1>8
      <3>2. ~ Has(updates, "Ban", n)
        BY <2>3, <1>5
      <3>3. n \in overtaken
        BY <3>1, <3>2 DEF Coming
      <3> QED BY <2>3, <3>3, <1>9
    <2> QED BY <2>1, <2>2, <2>3
  <1> QED BY <1>3, <1>10, <1>11, <1>12, <1>13, <1>14

\* An update of the initial load is applied.
LEMMA HandleInternalInv ==
    ASSUME IInv, HandleInternal
    PROVE  IInv'
  <1> USE DEF IInv
  <1>1. PICK u, rest : u = Head(internal) /\ rest = Tail(internal)
    OBVIOUS
  <1>2. /\ phase = "running" /\ internal # <<>> /\ Apply(u) /\ internal' = rest
        /\ updates' = updates /\ overtaken' = overtaken /\ UNCHANGED transportFrame
    BY <1>1 DEF HandleInternal
  <1>3. /\ admitted' = admitted /\ backlog' = backlog /\ lag' = lag /\ synced' = synced
        /\ bound' = bound /\ announced' = announced /\ allowed' = allowed /\ cache' = cache
        /\ events' = events /\ lookup' = lookup /\ phase' = phase /\ toLoad' = toLoad
        /\ restarts' = restarts
        /\ Follows' /\ Quiet'
    BY <1>2, TransportKept
  <1>4. internal \in Seq(LoadItem)
    BY DEF Types
  <1>5. /\ u \in LoadItem /\ rest \in Seq(LoadItem)
        /\ \A a, n : Has(internal, a, n) <=> u = Item(a, n) \/ Has(rest, a, n)
    BY <1>1, <1>2, <1>4, QueueTail
  <1>6. u \in UpdateItem
    BY <1>5 DEF LoadItem, UpdateItem, UpdateType
  <1>7. u.node \in bound
    <2>1. \E j \in DOMAIN internal : u = internal[j]
      BY <1>1, <1>2, <1>4, QueueItems
    <2> QED BY <2>1 DEF Known
  <1>8. /\ peers' \subseteq Node /\ allowedPeers' \subseteq Node
        /\ connected' \subseteq Node /\ closing' \subseteq Node
        /\ allowedPeers' \subseteq peers' /\ allowedPeers' \subseteq bound
        /\ \A m \in allowedPeers' : m \in allowedPeers \/ u = Item("Allow", m)
    BY <1>2, <1>6, <1>7, Applied
  <1>9. Types'
    BY <1>2, <1>3, <1>5, <1>8 DEF Types
  <1>10. AllowedIsStored'
    BY <1>8 DEF AllowedIsStored
  <1>11. Known'
    <2>1. \A i \in DOMAIN internal' : \E j \in DOMAIN internal : internal'[i] = internal[j]
      BY <1>1, <1>2, <1>4, QueueItems
    <2> QED BY <1>2, <1>3, <1>8, <2>1 DEF Known
  <1>12. Unknown' /\ Ordered'
    BY <1>2, <1>3 DEF Unknown, Ordered
  <1>13. Coming'
    BY <1>2, <1>3, <1>5, <1>8 DEF Coming
  <1> QED BY <1>3, <1>9, <1>10, <1>11, <1>12, <1>13

\* Connections come and go, and touch nothing else.
LEMMA ConnectionInv ==
    ASSUME IInv, NEW n \in Node, Connect(n) \/ Close(n)
    PROVE  IInv'
  <1> USE DEF IInv
  <1>1. /\ connected' \subseteq connected \cup {n} /\ closing' \subseteq closing
        /\ updates' = updates /\ internal' = internal /\ overtaken' = overtaken
        /\ peers' = peers /\ allowedPeers' = allowedPeers
        /\ admitted' = admitted /\ backlog' = backlog /\ lag' = lag /\ synced' = synced
        /\ bound' = bound /\ announced' = announced /\ allowed' = allowed /\ cache' = cache
        /\ events' = events /\ lookup' = lookup /\ phase' = phase /\ toLoad' = toLoad
        /\ restarts' = restarts
    BY DEF Connect, Close, transportFrame, chainVars, dbVars, startVars
  <1>2. Types'
    BY <1>1 DEF Types
  <1>3. Follows' /\ Quiet' /\ Ordered' /\ AllowedIsStored' /\ Coming'
    BY <1>1 DEF Follows, Quiet, Ordered, AllowedIsStored, Coming
  <1>4. Known' /\ Unknown'
    BY <1>1 DEF Known, Unknown
  <1> QED BY <1>2, <1>3, <1>4

\* A restart empties the queues and keeps the database and the logs.
LEMMA RestartInv ==
    ASSUME IInv, Restart
    PROVE  IInv'
  <1> USE DEF IInv
  <1>1. /\ restarts < MaxRestart /\ restarts' = restarts + 1 /\ peers' \subseteq peers
        /\ allowedPeers' = {} /\ connected' = {} /\ closing' = {} /\ overtaken' = {}
        /\ cache' = [n \in Node |-> "absent"] /\ lookup' = NoNode
        /\ events' = <<>> /\ updates' = <<>> /\ internal' = <<>>
        /\ phase' = "syncing" /\ toLoad' = {} /\ synced' = FALSE /\ lag' = Len(backlog)
        /\ admitted' = admitted /\ backlog' = backlog
        /\ bound' = bound /\ announced' = announced /\ allowed' = allowed
    BY DEF Restart, chainVars, dbVars
  <1>2. \A a, n : ~ Has(<<>>, a, n)
    BY HasAt
  <1>3. \A a, b, n : Followed(<<>>, a, b, n)
    BY DEF Followed
  <1>4. Types'
    <2>1. /\ events' \in Seq(EventItem) /\ updates' \in Seq(UpdateItem)
          /\ internal' \in Seq(LoadItem)
      BY <1>1, EmptySeq
    <2>2. Len(backlog) \in Nat /\ Len(backlog) <= MaxInFlight
      BY LenProperties DEF Types
    <2>3. lag' \in 0 .. MaxInFlight /\ restarts' \in 0 .. MaxRestart
      BY <1>1, <2>2, AccessAssumption DEF Types
    <2>4. cache' \in [Node -> {"absent", "none", "key"}]
      BY <1>1
    <2> QED BY <1>1, <2>1, <2>3, <2>4 DEF Types
  <1>5. Follows'
    BY <1>1 DEF Follows
  <1>6. Ordered' /\ Coming'
    BY <1>1, <1>2, <1>3 DEF Ordered, Coming
  <1>7. Quiet' /\ Known' /\ Unknown' /\ AllowedIsStored'
    <2>1. \A n \in Node : cache'[n] = "absent" /\ lookup' # n
      BY <1>1, AccessAssumption
    <2> QED BY <1>1, <2>1 DEF Quiet, Known, Unknown, AllowedIsStored
  <1> QED BY <1>4, <1>5, <1>6, <1>7

--------------------------------------------------------------------------------
(* The theorems *)

\* Every step of the node and of the chain keeps the inductive invariant.
LEMMA NextInv == IInv /\ [Next]_vars => IInv'
  <1> SUFFICES ASSUME IInv, [Next]_vars PROVE IInv'
    OBVIOUS
  <1>1. CASE RegistryTx
    BY <1>1, RegistryInv
  <1>2. ASSUME NEW n \in Node, bindKeys(n) \/ announce(n) \/ revoke(n) PROVE IInv'
    BY <1>2, AnnouncementInv
  <1>3. CASE CompleteSync
    BY <1>3, CompleteSyncInv
  <1>4. CASE IndexLog
    BY <1>4, IndexLogInv
  <1>5. CASE Pipeline
    BY <1>5, PipelineInv DEF Pipeline
  <1>6. ASSUME NEW n \in Node, Expire(n) PROVE IInv'
    BY <1>6, ExpireInv
  <1>7. CASE Load
    BY <1>7, LoadInv, LoadPeerInv DEF Load
  <1>8. CASE HandleUpdate
    BY <1>8, HandleUpdateInv
  <1>9. CASE HandleInternal
    BY <1>9, HandleInternalInv
  <1>10. ASSUME NEW n \in Node, Connect(n) \/ Close(n) PROVE IInv'
    BY <1>10, ConnectionInv
  <1>11. CASE Restart
    BY <1>11, RestartInv
  <1>12. CASE UNCHANGED vars
    <2>1. /\ admitted' = admitted /\ backlog' = backlog /\ lag' = lag /\ synced' = synced
          /\ bound' = bound /\ announced' = announced /\ allowed' = allowed /\ cache' = cache
          /\ events' = events /\ lookup' = lookup /\ phase' = phase /\ toLoad' = toLoad
          /\ updates' = updates /\ internal' = internal /\ overtaken' = overtaken
          /\ peers' = peers /\ allowedPeers' = allowedPeers /\ connected' = connected
          /\ closing' = closing /\ restarts' = restarts
      BY <1>12 DEF vars, chainVars, dbVars, startVars, swarmVars
    <2>2. Types' /\ Follows' /\ Quiet' /\ Known'
      BY <2>1 DEF IInv, Types, Follows, Quiet, Known
    <2>3. Unknown' /\ Ordered' /\ Coming' /\ AllowedIsStored'
      BY <2>1 DEF IInv, Unknown, Ordered, Coming, AllowedIsStored
    <2> QED BY <2>2, <2>3 DEF IInv
  <1> QED BY <1>1, <1>2, <1>3, <1>4, <1>5, <1>6, <1>7, <1>8, <1>9, <1>10, <1>11, <1>12 DEF Next

\* The inductive invariant holds in every state the node can be in.
THEOREM Invariance == Spec => []IInv
  <1>1. Init => IInv
    BY InitInv
  <1>2. IInv /\ [Next]_vars => IInv'
    BY NextInv
  <1> QED BY <1>1, <1>2, PTL DEF Spec

\* Every variable of the chain, the indexer, the pipeline, the transport and
\* the swarm keeps its type, whatever the interleaving and the restarts.
THEOREM TypeCorrect == Spec => []TypeOK
  <1>1. ASSUME IInv PROVE TypeOK
    <2>1. Types
      BY <1>1 DEF IInv
    <2>2. ASSUME NEW S, NEW q \in Seq(S) PROVE ToSet(q) \subseteq S
      BY <2>2, LenProperties, ElementOfSeq DEF ToSet
    <2>3. /\ ToSet(events) \subseteq [type : EventType, node : Node]
          /\ ToSet(updates) \subseteq [type : UpdateType, node : Node]
          /\ ToSet(internal) \subseteq [type : {"Allow", "Announce"}, node : Node]
      BY <2>1, <2>2 DEF Types, EventItem, UpdateItem, LoadItem
    <2>4. backlog \in BoundedSeq([type : LogType, node : Node], MaxInFlight)
      <3>1. backlog \in Seq(LogItem) /\ Len(backlog) <= MaxInFlight /\ MaxInFlight \in Nat
        BY <2>1, AccessAssumption DEF Types
      <3>2. Len(backlog) \in 0 .. MaxInFlight /\ backlog \in [1 .. Len(backlog) -> LogItem]
        BY <3>1
      <3> QED BY <3>2 DEF BoundedSeq, SeqOf, LogItem
    <2> QED BY <2>1, <2>3, <2>4 DEF Types, TypeOK
  <1> QED BY <1>1, Invariance, PTL

\* Every peer the swarm allows is stored: the ban of an allowed peer, which
\* first removes its row, always reaches the swarm.
THEOREM AllowedIsStoredTheorem == Spec => []AllowedIsStored
  <1>1. IInv => AllowedIsStored
    BY DEF IInv
  <1> QED BY <1>1, Invariance, PTL

\* A node the registry has expelled and the swarm still allows has its ban in
\* one of the queues between the chain and the transport, except when the
\* initial load or a stale cache entry overtook it: for any number of nodes,
\* any order of logs, any length of the queues and any number of restarts.
THEOREM BanIsComingTheorem == Spec => []BanIsComing
  <1>1. ASSUME IInv PROVE BanIsComing
    <2>1. allowedPeers \subseteq Node
      BY <1>1 DEF IInv, Types
    <2> QED BY <1>1, <2>1 DEF IInv, Coming, BanIsComing
  <1> QED BY <1>1, Invariance, PTL

\* With nothing left to index, the table of allowed nodes is exactly what the
\* contract admits.
THEOREM IndexFollowsTheorem == Spec => []IndexFollows
  <1>1. ASSUME IInv, backlog = <<>> PROVE allowed = admitted
    <2>1. \A a, n : ~ Has(backlog, a, n)
      BY <1>1, HasAt
    <2> QED BY <1>1, <2>1 DEF IInv, Follows
  <1>2. IInv => IndexFollows
    BY <1>1 DEF IndexFollows
  <1> QED BY <1>2, Invariance, PTL
===============================================================================
