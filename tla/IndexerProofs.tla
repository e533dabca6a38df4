----------------------------- MODULE IndexerProofs -----------------------------
(***************************************************************************)
(* Proofs about Indexer: a block marked processed is part of the index,    *)
(* and the replica agrees with the chain.                                  *)
(***************************************************************************)
EXTENDS Indexer, SequenceTheorems, NaturalsInduction, WellFoundedInduction, TLAPS

--------------------------------------------------------------------------------
(* The inductive invariant *)

Channel == [status : {CLOSED, OPEN, PENDING}, epoch : Nat, index : Nat, balance : Nat]
Entry == [status : {CLOSED, OPEN, PENDING, "None"}, epoch : Nat, index : Nat, balance : Nat]
LogName == {"ChannelOpened", "ChannelBalanceIncreased", "ChannelBalanceDecreased",
            "TicketRedeemed", "OutgoingChannelClosureInitiated", "ChannelClosed"}
LogRecord == [name : LogName, value : Nat]
Block == [after : Channel, logs : Seq(LogRecord)]

Types ==
    /\ own \in BOOLEAN /\ filled \in BOOLEAN
    /\ blocks \in Seq(Block) /\ Len(blocks) <= MaxBlock
    /\ entry \in Entry
    /\ mode \in {"down", "fast", "rpc"}
    /\ stage \in {"none", "stored", "committed", "marked"}
    /\ fails \in Nat

\* The blocks of the log table are those up to s, the checksums reach to c, and
\* the stream has not left out a block.
Contiguous(s, c) ==
    /\ s \in 0 .. Len(blocks) /\ stored = 1 .. s
    /\ c \in 0 .. s /\ checksummed = 1 .. c
    /\ next \in 1 .. s + 1
    /\ processed \subseteq stored /\ queue \subseteq stored
    /\ cur \in stored \cup {0} /\ (cur = 0 <=> stage = "none")

\* The marks outlive the index only while the node is down.
Marked ==
    /\ mode # "down" \/ filled => processed \subseteq applied
    /\ stage = "committed" => cur \in applied
    /\ mode = "down" => stage = "none"

\* The channel on chain after block b.
State(b) == IF b = 0 THEN Unused ELSE blocks[b].after

\* A closed channel is empty, an open one has an epoch.
Sound(ch) ==
    /\ ch \in Channel
    /\ ch.status = CLOSED => ch.index = 0 /\ ch.balance = 0
    /\ ch.status # CLOSED => ch.epoch > 0

\* Every block holds one transaction.
Chain ==
    MaxTxPerBlock = 1 =>
        /\ \A b \in 0 .. Len(blocks) : Sound(State(b))
        /\ \A b \in 1 .. Len(blocks) : blocks[b] \in Tx(State(b - 1))

\* The entry e shows the channel ch, see Shows.
Shown(e, ch) ==
    IF own
    THEN e = (IF ch.epoch = 0 THEN NoEntry ELSE ch)
    ELSE IF ch.status = CLOSED THEN e = NoEntry
    ELSE [e EXCEPT !.epoch = ch.epoch] = ch

\* The blocks up to p are marked.  The entry shows the channel after block p, or
\* after the next one when its index transaction was committed and it was not
\* marked; only one block at a time is between the two.
InStep(s, p) ==
    /\ p \in 0 .. s /\ processed = 1 .. p
    /\ stage \in {"none", "stored"} => \/ Shown(entry, State(p))
                                       \/ p < s /\ Shown(entry, State(p + 1))
    /\ stage \in {"stored", "committed"} => p < s /\ cur = p + 1
    /\ stage = "committed" => Shown(entry, State(p + 1))
    /\ stage = "marked" => cur = p /\ Shown(entry, State(p))
    /\ mode = "fast" => queue = (IF stage \in {"stored", "committed"} THEN p + 2 ELSE p + 1) .. s
    /\ mode = "rpc" => s = IF stage \in {"stored", "committed"} THEN p + 1 ELSE p

\* The replica, as long as no step of process_block failed.
Replica(s) ==
    FastSync /\ MaxTxPerBlock = 1 /\ fails = 0 =>
        /\ mode # "down" \/ filled => \E p \in Nat : InStep(s, p)
        /\ ~ filled => entry = NoEntry

IInv ==
    /\ Types
    /\ Marked
    /\ Chain
    /\ \E s, c \in Nat : Contiguous(s, c) /\ Replica(s)

--------------------------------------------------------------------------------
(* Handling the logs of a block *)

\* A nonempty set of natural numbers has a least element.
LEMMA LeastNatural ==
    ASSUME NEW T, T \subseteq Nat, T # {}
    PROVE  \E x \in T : \A y \in T : x <= y
  <1>1. \E R : IsWellFoundedOn(R, Nat) /\ \A x, y \in Nat : <<y, x>> \in R <=> y < x
    <2>1. IsWellFoundedOn(OpToRel(<, Nat), Nat)
      BY NatLessThanWellFounded
    <2>2. \A x, y \in Nat : <<y, x>> \in OpToRel(<, Nat) <=> y < x
      BY DEF OpToRel
    <2> QED BY <2>1, <2>2, Zenon
  <1>2. PICK R : IsWellFoundedOn(R, Nat) /\ \A x, y \in Nat : <<y, x>> \in R <=> y < x
    BY <1>1
  <1>3. \E x \in T : \A y \in T : ~ (<<y, x>> \in R)
    BY <1>2, WFMin
  <1>4. PICK x \in T : \A y \in T : ~ (<<y, x>> \in R)
    BY <1>3
  <1>5. ASSUME NEW y \in T PROVE x <= y
    <2>1. ~ (<<y, x>> \in R) /\ x \in Nat /\ y \in Nat
      BY <1>4
    <2>2. ~ (y < x)
      BY <2>1, <1>2, Zenon
    <2> QED BY <2>1, <2>2
  <1> QED BY <1>5

\* Induction over the natural numbers, for a set.
LEMMA SetInduction ==
    ASSUME NEW S, 0 \in S, \A n \in Nat : n \in S => n + 1 \in S
    PROVE  Nat \subseteq S
  <1> SUFFICES ASSUME Nat \ S # {} PROVE FALSE
    OBVIOUS
  <1>1. PICK x \in Nat \ S : \A y \in Nat \ S : x <= y
    BY LeastNatural
  <1>2. x # 0
    BY <1>1
  <1>3. x - 1 \in Nat /\ x - 1 \in S
    BY <1>1, <1>2
  <1> QED BY <1>1, <1>3

\* f lists the states of the entry e between the n logs of a block.
Unfolds(f, e, logs, n) ==
    /\ f[0] = e
    /\ \A k \in 1 .. n : f[k] = on_channel_event(f[k - 1], logs[k])
    /\ Handled(e, logs) = f[n]

\* The recursive function in Handled has a value.
LEMMA Unfolded ==
    ASSUME NEW e, NEW logs, NEW n \in Nat, n = Len(logs)
    PROVE  \E f : Unfolds(f, e, logs, n)
  <1> DEFINE T == {k \in Nat : \E g : g = [i \in 0 .. k |->
                      IF i = 0 THEN e ELSE on_channel_event(g[i - 1], logs[i])]}
  <1>1. 0 \in T
    <2>1. PICK g : g = [i \in 0 .. 0 |-> e]
      OBVIOUS
    <2>2. g = [i \in 0 .. 0 |-> IF i = 0 THEN e ELSE on_channel_event(g[i - 1], logs[i])]
      <3>1. \A i \in 0 .. 0 : i = 0
        OBVIOUS
      <3> QED BY <2>1, <3>1
    <2> QED BY <2>2
  <1>2. ASSUME NEW k \in Nat, k \in T PROVE k + 1 \in T
    <2>1. PICK g : g = [i \in 0 .. k |->
                          IF i = 0 THEN e ELSE on_channel_event(g[i - 1], logs[i])]
      BY <1>2
    <2>2. PICK x : x = on_channel_event(g[k], logs[k + 1])
      OBVIOUS
    <2>3. PICK h : h = [i \in 0 .. k + 1 |-> IF i = k + 1 THEN x ELSE g[i]]
      OBVIOUS
    <2>4. ASSUME NEW i \in 0 .. k + 1
          PROVE  h[i] = IF i = 0 THEN e ELSE on_channel_event(h[i - 1], logs[i])
      <3>1. CASE i = k + 1
        <4>1. i # 0 /\ i - 1 = k /\ k \in 0 .. k + 1 /\ k # k + 1
          BY <3>1
        <4>2. h[i] = x /\ h[i - 1] = g[k]
          BY <2>3, <3>1, <4>1
        <4> QED BY <2>2, <3>1, <4>1, <4>2
      <3>2. CASE i = 0
        <4>1. 0 \in 0 .. k /\ 0 # k + 1 /\ 0 \in 0 .. k + 1
          OBVIOUS
        <4> QED BY <2>1, <2>3, <3>2, <4>1
      <3>3. CASE i # 0 /\ i # k + 1
        <4>1. i \in 0 .. k /\ i - 1 \in 0 .. k + 1 /\ i - 1 # k + 1
          BY <3>3
        <4>2. h[i] = g[i] /\ h[i - 1] = g[i - 1]
          BY <2>3, <3>3, <4>1
        <4>3. g[i] = on_channel_event(g[i - 1], logs[i])
          BY <2>1, <3>3, <4>1
        <4> QED BY <3>3, <4>2, <4>3
      <3> QED BY <3>1, <3>2, <3>3
    <2>5. h = [i \in 0 .. k + 1 |->
                 IF i = 0 THEN e ELSE on_channel_event(h[i - 1], logs[i])]
      BY <2>3, <2>4
    <2> QED BY <2>5
  <1>3. n \in T
    <2> HIDE DEF T
    <2> QED BY <1>1, <1>2, SetInduction
  <1>4. \E g : g = [i \in 0 .. n |-> IF i = 0 THEN e ELSE on_channel_event(g[i - 1], logs[i])]
    BY <1>3
  <1>5. PICK f : /\ f = [i \in 0 .. n |-> IF i = 0 THEN e ELSE on_channel_event(f[i - 1], logs[i])]
                 /\ Handled(e, logs) = f[n]
    BY <1>4, Zenon DEF Handled
  <1>6. f[0] = e /\ \A k \in 1 .. n : f[k] = on_channel_event(f[k - 1], logs[k])
    BY <1>5
  <1> QED BY <1>5, <1>6 DEF Unfolds

\* One log, and a sequence of logs, leave an entry.
LEMMA HandledIsEntry ==
    ASSUME own \in BOOLEAN, NEW e \in Entry, NEW logs \in Seq(LogRecord)
    PROVE  Handled(e, logs) \in Entry
  <1>1. ASSUME NEW x \in Entry, NEW l \in LogRecord PROVE on_channel_event(x, l) \in Entry
    <2> USE DEF Entry, CLOSED, OPEN, PENDING, Unused, NoEntry
    <2>1. l.name \in LogName /\ l.value \in Nat
      BY DEF LogRecord
    <2>2. CASE l.name = "ChannelOpened"
      <3>1. on_channel_event(x, l) = IF x = NoEntry THEN [Unused EXCEPT !.status = OPEN, !.epoch = 1]
                                     ELSE IF x.status # CLOSED THEN x
                                     ELSE [x EXCEPT !.status = OPEN, !.epoch = @ + 1, !.index = 0]
        BY <2>2, Zenon DEF on_channel_event
      <3>2. CASE x = NoEntry
        <4>1. on_channel_event(x, l) = [Unused EXCEPT !.status = OPEN, !.epoch = 1]
          BY <3>1, <3>2, Zenon
        <4>2. [Unused EXCEPT !.status = OPEN, !.epoch = 1] \in Entry
          OBVIOUS
        <4> QED BY <4>1, <4>2, Zenon
      <3>3. CASE x # NoEntry /\ x.status # CLOSED
        BY <3>1, <3>3
      <3>4. CASE x # NoEntry /\ x.status = CLOSED
        <4>1. on_channel_event(x, l) = [x EXCEPT !.status = OPEN, !.epoch = @ + 1, !.index = 0]
          BY <3>1, <3>4, Zenon
        <4>2. [x EXCEPT !.status = OPEN, !.epoch = @ + 1, !.index = 0] \in Entry
          <5>1. PICK k \in Nat : k = x.epoch + 1
            OBVIOUS
          <5>2. [x EXCEPT !.status = OPEN, !.epoch = k, !.index = 0] \in Entry
            OBVIOUS
          <5> QED BY <5>1, <5>2
        <4> QED BY <4>1, <4>2, Zenon
      <3> QED BY <3>2, <3>3, <3>4
    <2>3. CASE l.name # "ChannelOpened" /\ x = NoEntry
      BY <2>3 DEF on_channel_event
    <2>4. CASE l.name \in {"ChannelBalanceIncreased", "ChannelBalanceDecreased"} /\ x # NoEntry
      BY <2>1, <2>4 DEF on_channel_event, Rebalanced
    <2>5. CASE l.name = "TicketRedeemed" /\ x # NoEntry
      BY <2>1, <2>5 DEF on_channel_event
    <2>6. CASE l.name = "OutgoingChannelClosureInitiated" /\ x # NoEntry
      BY <2>1, <2>6 DEF on_channel_event
    <2>7. CASE l.name = "ChannelClosed" /\ x # NoEntry
      BY <2>1, <2>7 DEF on_channel_event
    <2> QED BY <2>1, <2>2, <2>3, <2>4, <2>5, <2>6, <2>7 DEF LogName
  <1>2. PICK n \in Nat : n = Len(logs)
    BY LenProperties
  <1>3. PICK f : /\ f[0] = e
                 /\ \A k \in 1 .. n : f[k] = on_channel_event(f[k - 1], logs[k])
                 /\ Handled(e, logs) = f[n]
    <2>1. PICK f : Unfolds(f, e, logs, n)
      BY <1>2, Unfolded
    <2> QED BY <2>1 DEF Unfolds
  <1> DEFINE T == {k \in Nat : k <= n => f[k] \in Entry}
  <1>4. 0 \in T
    BY <1>3
  <1>5. ASSUME NEW k \in Nat, k \in T PROVE k + 1 \in T
    <2> SUFFICES ASSUME k + 1 <= n PROVE f[k + 1] \in Entry
      OBVIOUS
    <2>1. f[k] \in Entry /\ k + 1 \in 1 .. n /\ (k + 1) - 1 = k
      BY <1>5
    <2>2. logs[k + 1] \in LogRecord
      BY <1>2, <2>1, ElementOfSeq
    <2>3. f[k + 1] = on_channel_event(f[k], logs[k + 1])
      BY <1>3, <2>1
    <2> QED BY <1>1, <2>1, <2>2, <2>3
  <1>6. n \in T
    <2> HIDE DEF T
    <2> QED BY <1>4, <1>5, SetInduction
  <1> QED BY <1>3, <1>6

\* A block of one log.
LEMMA HandledOne ==
    ASSUME NEW e, NEW l, NEW q, q = <<l>>
    PROVE  Handled(e, q) = on_channel_event(e, l)
  <1>1. PICK n \in Nat : n = 1
    OBVIOUS
  <1>2. n = Len(q) /\ q[1] = l
    BY <1>1
  <1>3. PICK f : Unfolds(f, e, q, n)
    BY <1>2, Unfolded
  <1>4. /\ f[0] = e /\ Handled(e, q) = f[n]
        /\ \A k \in 1 .. n : f[k] = on_channel_event(f[k - 1], q[k])
    BY <1>3 DEF Unfolds
  <1>5. 1 \in 1 .. n /\ 1 - 1 = 0
    BY <1>1
  <1>6. f[1] = on_channel_event(f[0], q[1])
    BY <1>4, <1>5
  <1> QED BY <1>1, <1>2, <1>4, <1>6

\* A block of two logs.
LEMMA HandledTwo ==
    ASSUME NEW e, NEW l, NEW m, NEW q, q = <<l, m>>
    PROVE  Handled(e, q) = on_channel_event(on_channel_event(e, l), m)
  <1>1. PICK n \in Nat : n = 2
    OBVIOUS
  <1>2. n = Len(q) /\ q[1] = l /\ q[2] = m
    BY <1>1
  <1>3. PICK f : Unfolds(f, e, q, n)
    BY <1>2, Unfolded
  <1>4. /\ f[0] = e /\ Handled(e, q) = f[n]
        /\ \A k \in 1 .. n : f[k] = on_channel_event(f[k - 1], q[k])
    BY <1>3 DEF Unfolds
  <1>5. 1 \in 1 .. n /\ 1 - 1 = 0 /\ 2 \in 1 .. n /\ 2 - 1 = 1
    BY <1>1
  <1>6. f[1] = on_channel_event(f[0], q[1]) /\ f[2] = on_channel_event(f[1], q[2])
    BY <1>4, <1>5
  <1> QED BY <1>1, <1>2, <1>4, <1>6

--------------------------------------------------------------------------------
(* The chain *)

\* What a transaction can be: a funding, a redemption or one of the closures.
LEMMA TxCases ==
    ASSUME NEW ch \in Channel, NEW tx \in Tx(ch)
    PROVE  \/ /\ ch.status = CLOSED
              /\ tx.after = [status |-> OPEN, epoch |-> ch.epoch + 1, index |-> ch.index,
                             balance |-> ch.balance + 1]
              /\ tx.logs = <<Log("ChannelOpened", 0), Log("ChannelBalanceIncreased", ch.balance + 1)>>
              /\ tx = [after |-> tx.after, logs |-> tx.logs]
           \/ /\ ch.status = OPEN
              /\ tx.after = [ch EXCEPT !.balance = ch.balance + 1]
              /\ tx.logs = <<Log("ChannelBalanceIncreased", ch.balance + 1)>>
              /\ tx = [after |-> tx.after, logs |-> tx.logs]
           \/ /\ ch.status # CLOSED /\ ch.balance > 0
              /\ tx.after = [ch EXCEPT !.balance = ch.balance - 1, !.index = ch.index + 1]
              /\ tx.logs = <<Log("ChannelBalanceDecreased", ch.balance - 1),
                             Log("TicketRedeemed", ch.index + 1)>>
              /\ tx = [after |-> tx.after, logs |-> tx.logs]
           \/ /\ ch.status # CLOSED
              /\ tx.after = [ch EXCEPT !.status = PENDING]
              /\ tx.logs = <<Log("OutgoingChannelClosureInitiated", 0)>>
              /\ tx = [after |-> tx.after, logs |-> tx.logs]
           \/ /\ ch.status # CLOSED
              /\ tx.after = [Unused EXCEPT !.epoch = ch.epoch]
              /\ tx.logs = <<Log("ChannelClosed", 0)>>
              /\ tx = [after |-> tx.after, logs |-> tx.logs]
  <1>1. PICK funded, spent :
          /\ funded = [ch EXCEPT !.balance = @ + 1, !.status = IF @ = CLOSED THEN OPEN ELSE @,
                                 !.epoch = IF ch.status = CLOSED THEN @ + 1 ELSE @]
          /\ spent = [ch EXCEPT !.balance = @ - 1, !.index = @ + 1]
    OBVIOUS
  <1>2. \/ /\ ch.status # PENDING
           /\ tx = [after |-> funded,
                    logs |-> (IF ch.status = CLOSED THEN <<Log("ChannelOpened", 0)>> ELSE <<>>)
                             \o <<Log("ChannelBalanceIncreased", funded.balance)>>]
        \/ /\ ch.status # CLOSED /\ ch.balance > 0
           /\ tx = [after |-> spent,
                    logs |-> <<Log("ChannelBalanceDecreased", spent.balance),
                               Log("TicketRedeemed", spent.index)>>]
        \/ /\ ch.status # CLOSED
           /\ tx = [after |-> [ch EXCEPT !.status = PENDING],
                    logs |-> <<Log("OutgoingChannelClosureInitiated", 0)>>]
        \/ /\ ch.status # CLOSED
           /\ tx = [after |-> [Unused EXCEPT !.epoch = ch.epoch],
                    logs |-> <<Log("ChannelClosed", 0)>>]
    BY <1>1 DEF Tx
  <1>3. /\ funded.balance = ch.balance + 1
        /\ spent = [ch EXCEPT !.balance = ch.balance - 1, !.index = ch.index + 1]
        /\ spent.balance = ch.balance - 1 /\ spent.index = ch.index + 1
        /\ ch.status = CLOSED => funded = [status |-> OPEN, epoch |-> ch.epoch + 1,
                                           index |-> ch.index, balance |-> ch.balance + 1]
        /\ ch.status # CLOSED => funded = [ch EXCEPT !.balance = ch.balance + 1]
    BY <1>1 DEF Channel
  <1>4. ASSUME NEW x, NEW y PROVE <<x>> \o <<y>> = <<x, y>> /\ <<>> \o <<y>> = <<y>>
    <2>1. PICK S, p, q, r : S = {x, y} /\ p = <<x>> /\ q = <<y>> /\ r = <<x, y>>
      OBVIOUS
    <2>2. /\ p \in Seq(S) /\ Len(p) = 1 /\ p[1] = x
          /\ q \in Seq(S) /\ Len(q) = 1 /\ q[1] = y
          /\ r \in Seq(S) /\ Len(r) = 2 /\ r[1] = x /\ r[2] = y
      BY <2>1
    <2>3. PICK t : t = p \o q
      OBVIOUS
    <2>4. /\ t \in Seq(S) /\ Len(t) = 2
          /\ \A i \in 1 .. 2 : t[i] = IF i <= 1 THEN p[i] ELSE q[i - 1]
      <3>1. /\ t \in Seq(S) /\ Len(t) = Len(p) + Len(q)
            /\ \A i \in 1 .. Len(p) + Len(q) : t[i] = IF i <= Len(p) THEN p[i] ELSE q[i - Len(p)]
        BY <2>2, <2>3, ConcatProperties
      <3> QED BY <2>2, <3>1
    <2>5. \A i \in 1 .. 2 : t[i] = r[i]
      <3>1. t[1] = p[1] /\ t[2] = q[2 - 1]
        BY <2>4
      <3>2. \A i \in 1 .. 2 : i = 1 \/ i = 2
        OBVIOUS
      <3> QED BY <2>2, <3>1, <3>2
    <2>6. t = r
      BY <2>2, <2>4, <2>5, SeqEqual
    <2>7. <<>> \o q = q
      BY <2>2, ConcatEmptySeq
    <2> QED BY <2>1, <2>3, <2>6, <2>7
  <1>5. ch.status \in {CLOSED, OPEN, PENDING}
    BY DEF Channel
  <1>6. CASE /\ ch.status # PENDING
             /\ tx = [after |-> funded,
                      logs |-> (IF ch.status = CLOSED THEN <<Log("ChannelOpened", 0)>> ELSE <<>>)
                               \o <<Log("ChannelBalanceIncreased", funded.balance)>>]
    <2>1. CASE ch.status = CLOSED
      <3>1. tx.logs = <<Log("ChannelOpened", 0)>> \o <<Log("ChannelBalanceIncreased", funded.balance)>>
        BY <1>6, <2>1
      <3> QED BY <1>3, <1>4, <1>6, <2>1, <3>1
    <2>2. CASE ch.status # CLOSED
      <3>1. tx.logs = <<>> \o <<Log("ChannelBalanceIncreased", funded.balance)>>
        BY <1>6, <2>2
      <3> QED BY <1>3, <1>4, <1>5, <1>6, <2>2, <3>1
    <2> QED BY <2>1, <2>2
  <1> QED BY <1>2, <1>3, <1>6

\* A transaction makes a block, and leaves a closed channel empty.
LEMMA TxBlock ==
    ASSUME NEW ch \in Channel, NEW tx \in Tx(ch)
    PROVE  tx \in Block /\ (Sound(ch) => Sound(tx.after))
  <1> USE DEF CLOSED, OPEN, PENDING
  <1>1. /\ ch.status \in {CLOSED, OPEN, PENDING}
        /\ ch.epoch \in Nat /\ ch.index \in Nat /\ ch.balance \in Nat
        /\ ch = [status |-> ch.status, epoch |-> ch.epoch, index |-> ch.index,
                 balance |-> ch.balance]
    BY DEF Channel
  <1>2. \A name \in LogName : \A x \in Nat : Log(name, x) \in LogRecord
    BY DEF Log, LogRecord
  <1>3. ASSUME NEW x \in LogRecord, NEW y \in LogRecord
        PROVE  <<x>> \in Seq(LogRecord) /\ <<x, y>> \in Seq(LogRecord)
    OBVIOUS
  <1>4. ASSUME NEW a \in Channel, NEW q \in Seq(LogRecord), tx = [after |-> a, logs |-> q]
        PROVE  tx \in Block /\ tx.after = a
    BY <1>4 DEF Block
  <1>5. /\ \A x \in Nat : /\ Log("ChannelBalanceIncreased", x) \in LogRecord
                          /\ Log("ChannelBalanceDecreased", x) \in LogRecord
                          /\ Log("TicketRedeemed", x) \in LogRecord
        /\ Log("ChannelOpened", 0) \in LogRecord
        /\ Log("OutgoingChannelClosureInitiated", 0) \in LogRecord
        /\ Log("ChannelClosed", 0) \in LogRecord
    BY <1>2 DEF LogName
  <1>6. CASE /\ ch.status = CLOSED
             /\ tx.after = [status |-> OPEN, epoch |-> ch.epoch + 1, index |-> ch.index,
                            balance |-> ch.balance + 1]
             /\ tx.logs = <<Log("ChannelOpened", 0), Log("ChannelBalanceIncreased", ch.balance + 1)>>
             /\ tx = [after |-> tx.after, logs |-> tx.logs]
    <2>1. tx.after \in Channel /\ (Sound(ch) => Sound(tx.after))
      BY <1>1, <1>6 DEF Channel, Sound
    <2>2. tx.logs \in Seq(LogRecord)
      BY <1>1, <1>3, <1>5, <1>6
    <2> QED BY <1>4, <1>6, <2>1, <2>2
  <1>7. CASE /\ ch.status = OPEN
             /\ tx.after = [ch EXCEPT !.balance = ch.balance + 1]
             /\ tx.logs = <<Log("ChannelBalanceIncreased", ch.balance + 1)>>
             /\ tx = [after |-> tx.after, logs |-> tx.logs]
    <2>1. PICK n \in Nat : n = ch.balance + 1
      BY <1>1
    <2>2. tx.after = [status |-> OPEN, epoch |-> ch.epoch, index |-> ch.index, balance |-> n]
      BY <1>1, <1>7, <2>1
    <2>3. tx.after \in Channel /\ (Sound(ch) => Sound(tx.after))
      BY <1>1, <1>7, <2>2 DEF Channel, Sound
    <2>4. tx.logs \in Seq(LogRecord)
      BY <1>1, <1>3, <1>5, <1>7
    <2> QED BY <1>4, <1>7, <2>3, <2>4
  <1>8. CASE /\ ch.status # CLOSED /\ ch.balance > 0
             /\ tx.after = [ch EXCEPT !.balance = ch.balance - 1, !.index = ch.index + 1]
             /\ tx.logs = <<Log("ChannelBalanceDecreased", ch.balance - 1),
                            Log("TicketRedeemed", ch.index + 1)>>
             /\ tx = [after |-> tx.after, logs |-> tx.logs]
    <2>1. PICK n \in Nat, m \in Nat : n = ch.balance - 1 /\ m = ch.index + 1
      BY <1>1, <1>8
    <2>2. tx.after = [status |-> ch.status, epoch |-> ch.epoch, index |-> m, balance |-> n]
      BY <1>1, <1>8, <2>1
    <2>3. tx.after \in Channel /\ (Sound(ch) => Sound(tx.after))
      BY <1>1, <1>8, <2>2 DEF Channel, Sound
    <2>4. tx.logs \in Seq(LogRecord)
      BY <1>3, <1>5, <1>8, <2>1
    <2> QED BY <1>4, <1>8, <2>3, <2>4
  <1>9. CASE /\ ch.status # CLOSED
             /\ tx.after = [ch EXCEPT !.status = PENDING]
             /\ tx.logs = <<Log("OutgoingChannelClosureInitiated", 0)>>
             /\ tx = [after |-> tx.after, logs |-> tx.logs]
    <2>1. tx.after = [status |-> PENDING, epoch |-> ch.epoch, index |-> ch.index,
                      balance |-> ch.balance]
      BY <1>1, <1>9
    <2>2. tx.after \in Channel /\ (Sound(ch) => Sound(tx.after))
      BY <1>1, <1>9, <2>1 DEF Channel, Sound
    <2>3. tx.logs \in Seq(LogRecord)
      BY <1>3, <1>5, <1>9
    <2> QED BY <1>4, <1>9, <2>2, <2>3
  <1>10. CASE /\ ch.status # CLOSED
              /\ tx.after = [Unused EXCEPT !.epoch = ch.epoch]
              /\ tx.logs = <<Log("ChannelClosed", 0)>>
              /\ tx = [after |-> tx.after, logs |-> tx.logs]
    <2>1. tx.after = [status |-> CLOSED, epoch |-> ch.epoch, index |-> 0, balance |-> 0]
      BY <1>1, <1>10 DEF Unused
    <2>2. tx.after \in Channel /\ (Sound(ch) => Sound(tx.after))
      BY <1>1, <1>10, <2>1 DEF Channel, Sound
    <2>3. tx.logs \in Seq(LogRecord)
      BY <1>3, <1>5, <1>10
    <2> QED BY <1>4, <1>10, <2>2, <2>3
  <1> QED BY <1>6, <1>7, <1>8, <1>9, <1>10, TxCases

--------------------------------------------------------------------------------
(* One block of the chain and the entry *)

\* What the entry is when it shows the channel ch.
LEMMA ShownCases ==
    ASSUME own \in BOOLEAN, NEW e \in Entry, NEW ch, Sound(ch)
    PROVE  /\ ch.status = CLOSED /\ Shown(e, ch) =>
                \/ e = NoEntry /\ (own => ch.epoch = 0)
                \/ e = [status |-> CLOSED, epoch |-> ch.epoch, index |-> 0, balance |-> 0]
                   /\ own /\ ch.epoch > 0
           /\ ch.status # CLOSED =>
                (Shown(e, ch) <=> /\ e.status = ch.status /\ e.index = ch.index
                                  /\ e.balance = ch.balance /\ (own => e.epoch = ch.epoch))
           /\ ch.status # CLOSED /\ Shown(e, ch) => e # NoEntry /\ e.status # CLOSED
  <1> USE DEF CLOSED, OPEN, PENDING
  <1>1. /\ ch.status \in {CLOSED, OPEN, PENDING}
        /\ ch.epoch \in Nat /\ ch.index \in Nat /\ ch.balance \in Nat
        /\ ch = [status |-> ch.status, epoch |-> ch.epoch, index |-> ch.index,
                 balance |-> ch.balance]
    BY DEF Sound, Channel
  <1>2. e = [status |-> e.status, epoch |-> e.epoch, index |-> e.index, balance |-> e.balance]
    BY DEF Entry
  <1>3. CASE own
    BY <1>1, <1>2, <1>3 DEF Shown, Sound, NoEntry
  <1>4. CASE ~ own
    <2>1. [e EXCEPT !.epoch = ch.epoch] = [status |-> e.status, epoch |-> ch.epoch,
                                           index |-> e.index, balance |-> e.balance]
      BY <1>2
    <2>2. ch.status # CLOSED => (Shown(e, ch) <=> /\ e.status = ch.status /\ e.index = ch.index
                                                  /\ e.balance = ch.balance)
      BY <1>1, <1>4, <2>1 DEF Shown
    <2> QED BY <1>1, <1>4, <2>2 DEF Shown, NoEntry
  <1> QED BY <1>3, <1>4

\* What on_channel_event makes of an entry.
LEMMA LogEffects ==
    ASSUME own \in BOOLEAN, NEW e \in Entry, NEW v
    PROVE  /\ e = NoEntry => on_channel_event(e, Log("ChannelOpened", v)) =
                    [status |-> OPEN, epoch |-> 1, index |-> 0, balance |-> 0]
           /\ e # NoEntry /\ e.status # CLOSED => on_channel_event(e, Log("ChannelOpened", v)) = e
           /\ e # NoEntry /\ e.status = CLOSED => on_channel_event(e, Log("ChannelOpened", v)) =
                    [status |-> OPEN, epoch |-> e.epoch + 1, index |-> 0, balance |-> e.balance]
           /\ \A name \in {"ChannelBalanceIncreased", "ChannelBalanceDecreased"} :
                 e # NoEntry => on_channel_event(e, Log(name, v)) =
                    [status |-> e.status, epoch |-> e.epoch, index |-> e.index, balance |-> v]
           /\ e # NoEntry => on_channel_event(e, Log("TicketRedeemed", v)) =
                    [status |-> e.status, epoch |-> e.epoch, index |-> v, balance |-> e.balance]
           /\ e # NoEntry => on_channel_event(e, Log("OutgoingChannelClosureInitiated", v)) =
                    [status |-> PENDING, epoch |-> e.epoch, index |-> e.index, balance |-> e.balance]
           /\ e # NoEntry => on_channel_event(e, Log("ChannelClosed", v)) =
                    IF own THEN [status |-> CLOSED, epoch |-> e.epoch, index |-> 0, balance |-> 0]
                    ELSE NoEntry
           /\ e = NoEntry => on_channel_event(e, Log("ChannelClosed", v)) = NoEntry
  <1>1. e = [status |-> e.status, epoch |-> e.epoch, index |-> e.index, balance |-> e.balance]
    BY DEF Entry
  <1>2. ASSUME NEW name PROVE Log(name, v).name = name /\ Log(name, v).value = v
    BY DEF Log
  <1>3. PICK l : l = Log("ChannelOpened", v)
    OBVIOUS
  <1>4. on_channel_event(e, l) = IF e = NoEntry THEN [Unused EXCEPT !.status = OPEN, !.epoch = 1]
                                 ELSE IF e.status # CLOSED THEN e
                                 ELSE [e EXCEPT !.status = OPEN, !.epoch = @ + 1, !.index = 0]
    <2>1. l.name = "ChannelOpened"
      BY <1>2, <1>3
    <2> QED BY <2>1, Zenon DEF on_channel_event
  <1>5. /\ [Unused EXCEPT !.status = OPEN, !.epoch = 1] =
                    [status |-> OPEN, epoch |-> 1, index |-> 0, balance |-> 0]
        /\ [e EXCEPT !.status = OPEN, !.epoch = @ + 1, !.index = 0] =
                    [status |-> OPEN, epoch |-> e.epoch + 1, index |-> 0, balance |-> e.balance]
    <2>1. PICK d, k : d = [e EXCEPT !.status = OPEN, !.epoch = k] /\ k = e.epoch + 1
      OBVIOUS
    <2>2. d = [status |-> OPEN, epoch |-> k, index |-> e.index, balance |-> e.balance]
      BY <1>1, <2>1
    <2>3. [e EXCEPT !.status = OPEN, !.epoch = @ + 1, !.index = 0] = [d EXCEPT !.index = 0]
      BY <2>1
    <2>4. [Unused EXCEPT !.status = OPEN, !.epoch = 1] =
              [status |-> OPEN, epoch |-> 1, index |-> 0, balance |-> 0]
      <3>1. PICK u, w : u = Unused /\ w = 1
        OBVIOUS
      <3>2. u = [status |-> u.status, epoch |-> u.epoch, index |-> u.index, balance |-> u.balance]
        BY <3>1 DEF Unused
      <3>3. PICK t : t = [u EXCEPT !.status = OPEN, !.epoch = w]
        OBVIOUS
      <3>4. t = [status |-> OPEN, epoch |-> w, index |-> u.index, balance |-> u.balance]
        BY <3>2, <3>3
      <3>5. u.index = 0 /\ u.balance = 0
        BY <3>1 DEF Unused
      <3> QED BY <3>1, <3>3, <3>4, <3>5
    <2>5. [d EXCEPT !.index = 0] = [status |-> OPEN, epoch |-> k, index |-> 0, balance |-> e.balance]
      BY <2>2
    <2> QED BY <2>1, <2>3, <2>4, <2>5
  <1>6. /\ e = NoEntry => on_channel_event(e, l) =
                    [status |-> OPEN, epoch |-> 1, index |-> 0, balance |-> 0]
        /\ e # NoEntry /\ e.status # CLOSED => on_channel_event(e, l) = e
        /\ e # NoEntry /\ e.status = CLOSED => on_channel_event(e, l) =
                    [status |-> OPEN, epoch |-> e.epoch + 1, index |-> 0, balance |-> e.balance]
    BY <1>4, <1>5, Zenon
  <1>7. ASSUME NEW name \in {"ChannelBalanceIncreased", "ChannelBalanceDecreased"}, e # NoEntry
        PROVE  on_channel_event(e, Log(name, v)) =
                    [status |-> e.status, epoch |-> e.epoch, index |-> e.index, balance |-> v]
    <2>1. PICK m : m = Log(name, v)
      OBVIOUS
    <2>2. m.name = name /\ m.value = v
      BY <1>2, <2>1
    <2>3. on_channel_event(e, m) = [e EXCEPT !.balance = v]
      BY <1>7, <2>2 DEF on_channel_event, Rebalanced
    <2>4. [e EXCEPT !.balance = v] =
              [status |-> e.status, epoch |-> e.epoch, index |-> e.index, balance |-> v]
      BY <1>1
    <2> QED BY <2>1, <2>3, <2>4
  <1>8. ASSUME e # NoEntry
        PROVE  on_channel_event(e, Log("TicketRedeemed", v)) =
                    [status |-> e.status, epoch |-> e.epoch, index |-> v, balance |-> e.balance]
    <2>1. PICK m : m = Log("TicketRedeemed", v)
      OBVIOUS
    <2>2. m.name = "TicketRedeemed" /\ m.value = v
      BY <1>2, <2>1
    <2>3. on_channel_event(e, m) = [e EXCEPT !.index = v]
      BY <1>8, <2>2 DEF on_channel_event
    <2>4. [e EXCEPT !.index = v] =
              [status |-> e.status, epoch |-> e.epoch, index |-> v, balance |-> e.balance]
      BY <1>1
    <2> QED BY <2>1, <2>3, <2>4
  <1>9. ASSUME e # NoEntry
        PROVE  on_channel_event(e, Log("OutgoingChannelClosureInitiated", v)) =
                    [status |-> PENDING, epoch |-> e.epoch, index |-> e.index, balance |-> e.balance]
    <2>1. PICK m : m = Log("OutgoingChannelClosureInitiated", v)
      OBVIOUS
    <2>2. m.name = "OutgoingChannelClosureInitiated"
      BY <1>2, <2>1
    <2>3. on_channel_event(e, m) = [e EXCEPT !.status = PENDING]
      BY <1>9, <2>2 DEF on_channel_event
    <2>4. [e EXCEPT !.status = PENDING] =
              [status |-> PENDING, epoch |-> e.epoch, index |-> e.index, balance |-> e.balance]
      BY <1>1
    <2> QED BY <2>1, <2>3, <2>4
  <1>10. PICK m : m = Log("ChannelClosed", v)
    OBVIOUS
  <1>11. m.name = "ChannelClosed"
    BY <1>2, <1>10
  <1>12. ASSUME e # NoEntry
         PROVE  on_channel_event(e, m) =
                    IF own THEN [status |-> CLOSED, epoch |-> e.epoch, index |-> 0, balance |-> 0]
                    ELSE NoEntry
    <2>1. on_channel_event(e, m) = IF own THEN [e EXCEPT !.status = CLOSED, !.balance = 0, !.index = 0]
                                   ELSE NoEntry
      BY <1>11, <1>12 DEF on_channel_event
    <2>2. [e EXCEPT !.status = CLOSED, !.balance = 0, !.index = 0] =
              [status |-> CLOSED, epoch |-> e.epoch, index |-> 0, balance |-> 0]
      <3>1. PICK d : d = [e EXCEPT !.status = CLOSED, !.balance = 0]
        OBVIOUS
      <3>2. d = [status |-> CLOSED, epoch |-> e.epoch, index |-> e.index, balance |-> 0]
        BY <1>1, <3>1
      <3>3. [e EXCEPT !.status = CLOSED, !.balance = 0, !.index = 0] = [d EXCEPT !.index = 0]
        BY <3>1
      <3> QED BY <3>2, <3>3
    <2> QED BY <2>1, <2>2
  <1>13. e = NoEntry => on_channel_event(e, m) = NoEntry
    BY <1>11 DEF on_channel_event
  <1> QED BY <1>3, <1>6, <1>7, <1>8, <1>9, <1>10, <1>12, <1>13

\* Handling the log of a block makes an entry that shows the channel before the
\* block show the channel after it; handling the block again changes nothing.
LEMMA BlockShown ==
    ASSUME own \in BOOLEAN, NEW e \in Entry, NEW ch, Sound(ch), NEW tx \in Tx(ch),
           Shown(e, ch) \/ Shown(e, tx.after)
    PROVE  Shown(Handled(e, tx.logs), tx.after)
  <1> USE DEF CLOSED, OPEN, PENDING
  <1>1. ch \in Channel /\ Sound(tx.after)
    BY TxBlock DEF Sound
  <1>2. /\ ch.epoch \in Nat /\ ch.index \in Nat /\ ch.balance \in Nat
        /\ ch = [status |-> ch.status, epoch |-> ch.epoch, index |-> ch.index,
                 balance |-> ch.balance]
    BY <1>1 DEF Channel
  <1>3. PICK a, q : a = tx.after /\ q = tx.logs
    OBVIOUS
  <1>4. Sound(a) /\ (Shown(e, ch) \/ Shown(e, a))
    BY <1>1, <1>3
  <1>5. e.epoch \in Nat /\ e.index \in Nat /\ e.balance \in Nat
    BY DEF Entry
  <1>6. /\ ch.status = CLOSED /\ Shown(e, ch) =>
                \/ e = NoEntry /\ (own => ch.epoch = 0)
                \/ e = [status |-> CLOSED, epoch |-> ch.epoch, index |-> 0, balance |-> 0]
                   /\ own /\ ch.epoch > 0
        /\ ch.status # CLOSED /\ Shown(e, ch) =>
                /\ e.status = ch.status /\ e.index = ch.index
                /\ e.balance = ch.balance /\ (own => e.epoch = ch.epoch)
                /\ e # NoEntry /\ e.status # CLOSED
    BY ShownCases
  <1>7. /\ a.status = CLOSED /\ Shown(e, a) =>
                \/ e = NoEntry /\ (own => a.epoch = 0)
                \/ e = [status |-> CLOSED, epoch |-> a.epoch, index |-> 0, balance |-> 0]
                   /\ own /\ a.epoch > 0
        /\ a.status # CLOSED /\ Shown(e, a) =>
                /\ e.status = a.status /\ e.index = a.index
                /\ e.balance = a.balance /\ (own => e.epoch = a.epoch)
                /\ e # NoEntry /\ e.status # CLOSED
    BY <1>4, ShownCases
  <1>8. ASSUME NEW r \in Entry, a.status # CLOSED, r.status = a.status, r.index = a.index,
               r.balance = a.balance, own => r.epoch = a.epoch
        PROVE  Shown(r, a)
    BY <1>4, <1>8, ShownCases
  <1>9. ASSUME NEW x, NEW k \in Nat, NEW i \in Nat, NEW b \in Nat, x \in {OPEN, PENDING}
        PROVE  [status |-> x, epoch |-> k, index |-> i, balance |-> b] \in Entry
    BY <1>9 DEF Entry
  <1>10. CASE /\ ch.status = CLOSED
              /\ a = [status |-> OPEN, epoch |-> ch.epoch + 1, index |-> ch.index,
                      balance |-> ch.balance + 1]
              /\ q = <<Log("ChannelOpened", 0), Log("ChannelBalanceIncreased", ch.balance + 1)>>
    <2>1. ch.index = 0 /\ ch.balance = 0
      BY <1>10 DEF Sound
    <2>2. PICK r : r = on_channel_event(e, Log("ChannelOpened", 0))
      OBVIOUS
    <2>3. r \in Entry /\ r # NoEntry /\ r.status = OPEN /\ r.index = 0
          /\ (own => r.epoch = ch.epoch + 1)
      <3>1. CASE Shown(e, ch) /\ e = NoEntry /\ (own => ch.epoch = 0)
        <4>1. r = [status |-> OPEN, epoch |-> 1, index |-> 0, balance |-> 0]
          BY <2>2, <3>1, LogEffects
        <4>2. r \in Entry /\ r # NoEntry
          BY <1>9, <4>1 DEF NoEntry
        <4> QED BY <3>1, <4>1, <4>2
      <3>2. CASE /\ Shown(e, ch) /\ own
                 /\ e = [status |-> CLOSED, epoch |-> ch.epoch, index |-> 0, balance |-> 0]
        <4>1. e # NoEntry /\ e.status = CLOSED
          BY <3>2 DEF NoEntry
        <4>2. r = [status |-> OPEN, epoch |-> e.epoch + 1, index |-> 0, balance |-> e.balance]
          BY <2>2, <4>1, LogEffects
        <4>3. r \in Entry /\ r # NoEntry
          BY <1>5, <1>9, <4>2 DEF NoEntry
        <4> QED BY <3>2, <4>2, <4>3
      <3>3. CASE Shown(e, a)
        <4>1. e # NoEntry /\ e.status # CLOSED
          BY <1>7, <1>10, <3>3
        <4>2. r = e
          BY <2>2, <4>1, LogEffects
        <4> QED BY <1>7, <1>10, <2>1, <3>3, <4>2
      <3> QED BY <1>4, <1>6, <1>10, <3>1, <3>2, <3>3
    <2>4. PICK t : t = on_channel_event(r, Log("ChannelBalanceIncreased", ch.balance + 1))
      OBVIOUS
    <2>5. t = [status |-> r.status, epoch |-> r.epoch, index |-> r.index,
               balance |-> ch.balance + 1]
      BY <2>3, <2>4, LogEffects
    <2>6. t \in Entry
      BY <1>2, <2>3, <2>5 DEF Entry
    <2>7. Handled(e, q) = t
      <3>1. PICK l, m : /\ l = Log("ChannelOpened", 0)
                        /\ m = Log("ChannelBalanceIncreased", ch.balance + 1)
        OBVIOUS
      <3>2. q = <<l, m>>
        BY <1>10, <3>1
      <3>3. Handled(e, q) = on_channel_event(on_channel_event(e, l), m)
        BY <3>2, HandledTwo
      <3> QED BY <2>2, <2>4, <3>1, <3>3
    <2>8. Shown(t, a)
      BY <1>8, <1>10, <2>1, <2>3, <2>5, <2>6
    <2> QED BY <1>3, <2>7, <2>8
  <1>11. CASE /\ ch.status = OPEN
              /\ a = [ch EXCEPT !.balance = ch.balance + 1]
              /\ q = <<Log("ChannelBalanceIncreased", ch.balance + 1)>>
    <2>1. a = [status |-> OPEN, epoch |-> ch.epoch, index |-> ch.index, balance |-> ch.balance + 1]
      BY <1>2, <1>11
    <2>2. e # NoEntry /\ e.status = OPEN /\ e.index = ch.index /\ (own => e.epoch = ch.epoch)
      BY <1>4, <1>6, <1>7, <1>11, <2>1
    <2>3. PICK t : t = on_channel_event(e, Log("ChannelBalanceIncreased", ch.balance + 1))
      OBVIOUS
    <2>4. t = [status |-> e.status, epoch |-> e.epoch, index |-> e.index,
               balance |-> ch.balance + 1]
      BY <2>2, <2>3, LogEffects
    <2>5. t \in Entry
      BY <1>2, <2>2, <2>4 DEF Entry
    <2>6. Handled(e, q) = t
      BY <1>11, <2>3, HandledOne
    <2>7. Shown(t, a)
      BY <1>8, <2>1, <2>2, <2>4, <2>5
    <2> QED BY <1>3, <2>6, <2>7
  <1>12. CASE /\ ch.status # CLOSED /\ ch.balance > 0
              /\ a = [ch EXCEPT !.balance = ch.balance - 1, !.index = ch.index + 1]
              /\ q = <<Log("ChannelBalanceDecreased", ch.balance - 1),
                       Log("TicketRedeemed", ch.index + 1)>>
    <2>1. a = [status |-> ch.status, epoch |-> ch.epoch, index |-> ch.index + 1,
               balance |-> ch.balance - 1]
      BY <1>2, <1>12
    <2>2. e # NoEntry /\ e.status = ch.status /\ (own => e.epoch = ch.epoch)
      BY <1>4, <1>6, <1>7, <1>12, <2>1
    <2>3. PICK r : r = on_channel_event(e, Log("ChannelBalanceDecreased", ch.balance - 1))
      OBVIOUS
    <2>4. r = [status |-> e.status, epoch |-> e.epoch, index |-> e.index,
               balance |-> ch.balance - 1]
      BY <2>2, <2>3, LogEffects
    <2>5. ch.balance - 1 \in Nat /\ ch.index + 1 \in Nat
      BY <1>2, <1>12
    <2>6. ch.status \in {OPEN, PENDING}
      BY <1>1, <1>12 DEF Channel
    <2>7. r \in Entry /\ r # NoEntry
      BY <1>5, <2>2, <2>4, <2>5, <2>6 DEF Entry, NoEntry
    <2>8. PICK t : t = on_channel_event(r, Log("TicketRedeemed", ch.index + 1))
      OBVIOUS
    <2>9. t = [status |-> r.status, epoch |-> r.epoch, index |-> ch.index + 1,
               balance |-> r.balance]
      BY <2>7, <2>8, LogEffects
    <2>10. t \in Entry
      BY <2>5, <2>7, <2>9 DEF Entry
    <2>11. Handled(e, q) = t
      <3>1. PICK l, m : /\ l = Log("ChannelBalanceDecreased", ch.balance - 1)
                        /\ m = Log("TicketRedeemed", ch.index + 1)
        OBVIOUS
      <3>2. q = <<l, m>>
        BY <1>12, <3>1
      <3>3. Handled(e, q) = on_channel_event(on_channel_event(e, l), m)
        BY <3>2, HandledTwo
      <3> QED BY <2>3, <2>8, <3>1, <3>3
    <2>12. Shown(t, a)
      BY <1>8, <1>12, <2>1, <2>2, <2>4, <2>9, <2>10
    <2> QED BY <1>3, <2>11, <2>12
  <1>13. CASE /\ ch.status # CLOSED
              /\ a = [ch EXCEPT !.status = PENDING]
              /\ q = <<Log("OutgoingChannelClosureInitiated", 0)>>
    <2>1. a = [status |-> PENDING, epoch |-> ch.epoch, index |-> ch.index, balance |-> ch.balance]
      BY <1>2, <1>13
    <2>2. e # NoEntry /\ e.index = ch.index /\ e.balance = ch.balance /\ (own => e.epoch = ch.epoch)
      BY <1>4, <1>6, <1>7, <1>13, <2>1
    <2>3. PICK t : t = on_channel_event(e, Log("OutgoingChannelClosureInitiated", 0))
      OBVIOUS
    <2>4. t = [status |-> PENDING, epoch |-> e.epoch, index |-> e.index, balance |-> e.balance]
      BY <2>2, <2>3, LogEffects
    <2>5. t \in Entry
      BY <1>5, <1>9, <2>4
    <2>6. Handled(e, q) = t
      BY <1>13, <2>3, HandledOne
    <2>7. Shown(t, a)
      BY <1>8, <2>1, <2>2, <2>4, <2>5
    <2> QED BY <1>3, <2>6, <2>7
  <1>14. CASE /\ ch.status # CLOSED
              /\ a = [Unused EXCEPT !.epoch = ch.epoch]
              /\ q = <<Log("ChannelClosed", 0)>>
    <2>1. a = [status |-> CLOSED, epoch |-> ch.epoch, index |-> 0, balance |-> 0]
      BY <1>14 DEF Unused
    <2>2. ch.epoch > 0
      BY <1>14 DEF Sound
    <2>3. PICK t : t = on_channel_event(e, Log("ChannelClosed", 0))
      OBVIOUS
    <2>4. Handled(e, q) = t
      BY <1>14, <2>3, HandledOne
    <2>5. CASE own
      <3>1. e # NoEntry /\ e.epoch = ch.epoch
        BY <1>2, <1>4, <1>6, <1>7, <1>14, <2>1, <2>2, <2>5 DEF NoEntry
      <3>2. t = a
        BY <2>1, <2>3, <2>5, <3>1, LogEffects
      <3>3. a.epoch # 0
        BY <1>2, <2>1, <2>2
      <3>4. Shown(t, a)
        BY <2>5, <3>2, <3>3 DEF Shown
      <3> QED BY <1>3, <2>4, <3>4
    <2>6. CASE ~ own
      <3>1. t = NoEntry
        <4>1. CASE e = NoEntry
          BY <2>3, <4>1, LogEffects
        <4>2. CASE e # NoEntry
          BY <2>3, <2>6, <4>2, LogEffects
        <4> QED BY <4>1, <4>2
      <3>2. Shown(t, a)
        BY <2>1, <2>6, <3>1 DEF Shown
      <3> QED BY <1>3, <2>4, <3>2
    <2> QED BY <2>5, <2>6
  <1> QED BY <1>1, <1>3, <1>10, <1>11, <1>12, <1>13, <1>14, TxCases

--------------------------------------------------------------------------------
(* Every step keeps the invariant *)

\* Marks and checksums of a run of blocks.
LEMMA LastOfInterval ==
    ASSUME NEW n \in Nat
    PROVE  LastOf(1 .. n) = n
  <1>1. PICK S : S = (1 .. n) \cup {0}
    OBVIOUS
  <1>2. n \in S /\ \A y \in S : n >= y
    BY <1>1
  <1>3. \A x \in S : (\A y \in S : x >= y) => x = n
    <2> SUFFICES ASSUME NEW x \in S, \A y \in S : x >= y PROVE x = n
      OBVIOUS
    <2>1. x >= n /\ n >= x /\ x \in Nat
      BY <1>1, <1>2
    <2> QED BY <2>1
  <1>4. Max(S) \in S /\ \A y \in S : Max(S) >= y
    BY <1>2, Zenon DEF Max
  <1>5. Max(S) = n
    BY <1>3, <1>4
  <1> QED BY <1>1, <1>5 DEF LastOf

\* What does not change the chain keeps what is known of it.
LEMMA ChainKept ==
    ASSUME Chain, blocks' = blocks
    PROVE  Chain' /\ \A b : State(b)' = State(b)
  <1>1. \A b : State(b)' = State(b)
    BY DEF State
  <1>2. \A b \in 0 .. Len(blocks) : Sound(State(b))' <=> Sound(State(b))
    BY <1>1 DEF Sound
  <1>3. \A b \in 1 .. Len(blocks) : Tx(State(b - 1))' = Tx(State(b - 1))
    BY <1>1
  <1> QED BY <1>1, <1>2, <1>3 DEF Chain

\* The facts about the entry and the marks only depend on some variables.
LEMMA InStepKept ==
    ASSUME NEW s, NEW p, InStep(s, p), own' = own, blocks' = blocks, processed' = processed,
           entry' = entry, stage' = stage, cur' = cur, queue' = queue, mode' = mode
    PROVE  InStep(s, p)'
  BY DEF InStep, Shown, State

\* The node starts with empty databases.
LEMMA InitInv == Init => IInv
  <1> SUFFICES ASSUME Init PROVE IInv
    OBVIOUS
  <1> USE DEF Init
  <1>1. Types
    <2>1. blocks \in Seq(Block) /\ Len(blocks) = 0
      BY EmptySeq
    <2>2. Len(blocks) <= MaxBlock
      BY <2>1, IndexerAssumption
    <2>3. entry \in Entry
      BY DEF NoEntry, Entry
    <2>4. fails \in Nat
      OBVIOUS
    <2> QED BY <2>1, <2>2, <2>3, <2>4, Zenon DEF Types
  <1>2. Marked
    BY DEF Marked
  <1>3. Chain
    <2>1. Len(blocks) = 0
      BY EmptySeq
    <2>2. Sound(Unused)
      BY DEF Sound, Unused, Channel, CLOSED
    <2> QED BY <2>1, <2>2 DEF Chain, State
  <1>4. Contiguous(0, 0)
    <2>1. Len(blocks) = 0
      BY EmptySeq
    <2> QED BY <2>1 DEF Contiguous
  <1>5. Replica(0)
    BY DEF Replica
  <1> QED BY <1>1, <1>2, <1>3, <1>4, <1>5 DEF IInv

\* A block is added to the chain.
LEMMA MineInv ==
    ASSUME IInv, Mine
    PROVE  IInv'
  <1> USE DEF IInv
  <1>1. /\ own' = own /\ entry' = entry /\ filled' = filled /\ stored' = stored
        /\ processed' = processed /\ checksummed' = checksummed /\ mode' = mode /\ queue' = queue
        /\ next' = next /\ cur' = cur /\ stage' = stage /\ applied' = applied /\ fails' = fails
        /\ Len(blocks) < MaxBlock
    BY DEF Mine, logVars, syncVars, boundVars
  <1>2. blocks \in Seq(Block) /\ Len(blocks) \in Nat
    BY LenProperties DEF Types
  <1>3. PICK n \in Nat : n = Len(blocks)
    BY <1>2
  <1>4. onchain = State(n) /\ onchain \in Channel
    <2>1. CASE blocks = <<>>
      <3>1. n = 0
        BY <1>3, <2>1, EmptySeq
      <3> QED BY <2>1, <3>1 DEF onchain, State, Unused, Channel, CLOSED
    <2>2. CASE blocks # <<>>
      <3>1. n \in 1 .. n
        BY <1>2, <1>3, <2>2, EmptySeq
      <3>2. blocks[n] \in Block
        BY <1>2, <1>3, <3>1, ElementOfSeq
      <3>3. blocks[n].after \in Channel
        BY <3>2 DEF Block
      <3> QED BY <1>3, <2>2, <3>1, <3>3 DEF onchain, State, Last
    <2> QED BY <2>1, <2>2
  <1>5. PICK b \in Block : /\ blocks' = Append(blocks, b)
                           /\ MaxTxPerBlock = 1 => b \in Tx(State(n))
    <2>1. PICK tx1 \in Tx(onchain) :
             \/ blocks' = Append(blocks, tx1)
             \/ /\ MaxTxPerBlock = 2
                /\ \E tx2 \in Tx(tx1.after) :
                      blocks' = Append(blocks, [after |-> tx2.after, logs |-> tx1.logs \o tx2.logs])
      BY DEF Mine
    <2>2. tx1 \in Block
      BY <1>4, <2>1, TxBlock
    <2>3. CASE blocks' = Append(blocks, tx1)
      BY <1>4, <2>2, <2>3
    <2>4. ASSUME MaxTxPerBlock = 2, NEW tx2 \in Tx(tx1.after),
                 blocks' = Append(blocks, [after |-> tx2.after, logs |-> tx1.logs \o tx2.logs])
          PROVE  \E b \in Block : /\ blocks' = Append(blocks, b)
                                  /\ MaxTxPerBlock = 1 => b \in Tx(State(n))
      <3>1. tx1.after \in Channel /\ tx1.logs \in Seq(LogRecord)
        BY <2>2 DEF Block
      <3>2. tx2 \in Block
        BY <2>4, <3>1, TxBlock
      <3>3. tx2.after \in Channel /\ tx2.logs \in Seq(LogRecord)
        BY <3>2 DEF Block
      <3>4. tx1.logs \o tx2.logs \in Seq(LogRecord)
        BY <3>1, <3>3, ConcatProperties
      <3>5. PICK b : b = [after |-> tx2.after, logs |-> tx1.logs \o tx2.logs]
        OBVIOUS
      <3>6. b \in Block
        BY <3>3, <3>4, <3>5 DEF Block
      <3>7. MaxTxPerBlock # 1 /\ blocks' = Append(blocks, b)
        BY <2>4, <3>5
      <3> QED BY <3>6, <3>7
    <2> QED BY <2>1, <2>3, <2>4
  <1>6. /\ blocks' \in Seq(Block) /\ Len(blocks') = n + 1 /\ blocks'[n + 1] = b
        /\ \A i \in 1 .. n : blocks'[i] = blocks[i]
    BY <1>2, <1>3, <1>5, AppendProperties
  <1>7. ASSUME NEW i \in 0 .. n PROVE State(i)' = State(i)
    <2>1. CASE i = 0
      BY <2>1 DEF State
    <2>2. CASE i # 0
      <3>1. i \in 1 .. n
        BY <2>2
      <3> QED BY <1>6, <2>2, <3>1 DEF State
    <2> QED BY <2>1, <2>2
  <1>8. Types'
    <2>1. n + 1 <= MaxBlock
      BY <1>1, <1>3, IndexerAssumption
    <2> QED BY <1>1, <1>6, <2>1 DEF Types
  <1>9. Marked'
    BY <1>1 DEF Marked
  <1>10. Chain'
    <2> SUFFICES ASSUME MaxTxPerBlock = 1
                 PROVE  /\ \A i \in 0 .. n + 1 : Sound(State(i)')
                        /\ \A i \in 1 .. n + 1 : blocks'[i] \in Tx(State(i - 1)')
      BY <1>6 DEF Chain, Sound, Tx
    <2>1. /\ \A i \in 0 .. n : Sound(State(i))
          /\ \A i \in 1 .. n : blocks[i] \in Tx(State(i - 1))
      BY <1>3 DEF Chain
    <2>2. State(n + 1)' = b.after
      BY <1>6 DEF State
    <2>3. b \in Tx(State(n)) /\ Sound(State(n))
      BY <1>5, <2>1
    <2>4. Sound(b.after)
      BY <2>3, TxBlock DEF Sound
    <2>5. ASSUME NEW i \in 0 .. n + 1 PROVE Sound(State(i)')
      <3>1. CASE i = n + 1
        BY <2>2, <2>4, <3>1
      <3>2. CASE i # n + 1
        <4>1. i \in 0 .. n
          BY <3>2
        <4> QED BY <1>7, <2>1, <4>1
      <3> QED BY <3>1, <3>2
    <2>6. ASSUME NEW i \in 1 .. n + 1 PROVE blocks'[i] \in Tx(State(i - 1)')
      <3>1. CASE i = n + 1
        <4>1. i - 1 = n /\ n \in 0 .. n
          BY <3>1
        <4>2. State(i - 1)' = State(n)
          BY <1>7, <4>1
        <4> QED BY <1>6, <2>3, <3>1, <4>2
      <3>2. CASE i # n + 1
        <4>1. i \in 1 .. n /\ i - 1 \in 0 .. n
          BY <3>2
        <4>2. State(i - 1)' = State(i - 1)
          BY <1>7, <4>1
        <4> QED BY <1>6, <2>1, <4>1, <4>2
      <3> QED BY <3>1, <3>2
    <2> QED BY <2>5, <2>6
  <1>11. PICK s \in Nat, c \in Nat : Contiguous(s, c) /\ Replica(s)
    OBVIOUS
  <1>12. Contiguous(s, c)'
    <2>1. s \in 0 .. n + 1
      BY <1>3, <1>11 DEF Contiguous
    <2> QED BY <1>1, <1>6, <1>11, <2>1 DEF Contiguous
  <1>13. Replica(s)'
    <2>1. ASSUME NEW p \in Nat, InStep(s, p) PROVE InStep(s, p)'
      <3>1. s <= n /\ p \in 0 .. n /\ (p < s => p + 1 \in 0 .. n)
        BY <1>3, <1>11, <2>1 DEF Contiguous, InStep
      <3>2. State(p)' = State(p) /\ (p < s => State(p + 1)' = State(p + 1))
        BY <1>7, <3>1
      <3>3. \A ch : Shown(entry, ch)' = Shown(entry, ch)
        BY <1>1 DEF Shown
      <3>4. Shown(entry, State(p))' <=> Shown(entry, State(p))
        BY <1>1, <3>2 DEF Shown
      <3>5. p < s => (Shown(entry, State(p + 1))' <=> Shown(entry, State(p + 1)))
        BY <1>1, <3>2 DEF Shown
      <3> QED BY <1>1, <2>1, <3>4, <3>5 DEF InStep
    <2> QED BY <1>1, <1>11, <2>1 DEF Replica
  <1> QED BY <1>8, <1>9, <1>10, <1>12, <1>13

\* A start: without an index all marks are removed and every stored block is to
\* be handled, otherwise those that are not marked.
LEMMA StartInv ==
    ASSUME IInv, Start
    PROVE  IInv'
  <1> USE DEF IInv
  <1>1. /\ mode = "down" /\ mode' = "fast" /\ queue' = FastSyncBlocks /\ processed' = MarksKept
        /\ own' = own /\ blocks' = blocks /\ entry' = entry /\ filled' = filled /\ stored' = stored
        /\ checksummed' = checksummed /\ next' = next /\ cur' = cur /\ stage' = stage
        /\ applied' = applied /\ fails' = fails
    BY DEF Start, chainVars, boundVars
  <1>2. PICK s \in Nat, c \in Nat : Contiguous(s, c) /\ Replica(s)
    OBVIOUS
  <1>3. stage = "none"
    BY <1>1 DEF Marked
  <1>4. queue' \subseteq stored /\ processed' \subseteq stored
    BY <1>1, <1>2 DEF FastSyncBlocks, MarksKept, Contiguous
  <1>5. Types' /\ Chain'
    BY <1>1, ChainKept DEF Types
  <1>6. Marked'
    BY <1>1, <1>3 DEF Marked, MarksKept
  <1>7. Contiguous(s, c)'
    BY <1>1, <1>2, <1>4 DEF Contiguous
  <1>8. Replica(s)'
    <2> SUFFICES ASSUME FastSync, MaxTxPerBlock = 1, fails = 0
                 PROVE  (\E p \in Nat : InStep(s, p)') /\ (~ filled => entry = NoEntry)
      BY <1>1 DEF Replica
    <2>1. ~ filled => entry = NoEntry
      BY <1>2 DEF Replica
    <2>2. CASE filled
      <3>1. PICK p \in Nat : InStep(s, p)
        BY <1>2, <2>2 DEF Replica
      <3>2. queue' = stored \ processed /\ processed' = processed
        BY <1>1, <2>2 DEF FastSyncBlocks, MarksKept
      <3>3. stored = 1 .. s /\ processed = 1 .. p /\ p \in 0 .. s
        BY <1>2, <3>1 DEF Contiguous, InStep
      <3>4. queue' = p + 1 .. s
        BY <3>2, <3>3
      <3>5. Shown(entry, State(p)) \/ (p < s /\ Shown(entry, State(p + 1)))
        BY <1>3, <3>1 DEF InStep
      <3>6. Shown(entry, State(p))' \/ (p < s /\ Shown(entry, State(p + 1))')
        BY <1>1, <3>5 DEF Shown, State
      <3>7. InStep(s, p)'
        BY <1>1, <1>3, <3>2, <3>3, <3>4, <3>6 DEF InStep
      <3> QED BY <2>1, <3>7
    <2>3. CASE ~ filled
      <3>1. queue' = stored /\ processed' = {}
        BY <1>1, <2>3 DEF FastSyncBlocks, MarksKept
      <3>2. stored = 1 .. s /\ 0 \in 0 .. s
        BY <1>2 DEF Contiguous
      <3>3. queue' = 0 + 1 .. s /\ processed' = 1 .. 0
        BY <3>1, <3>2
      <3>4. Shown(entry, State(0))'
        BY <1>1, <2>1, <2>3 DEF Shown, State, Unused
      <3>5. InStep(s, 0)'
        BY <1>1, <1>3, <3>2, <3>3, <3>4 DEF InStep
      <3> QED BY <2>1, <3>5
    <2> QED BY <2>2, <2>3
  <1> QED BY <1>5, <1>6, <1>7, <1>8

\* Fast sync takes the first of its blocks.
LEMMA FastSyncBlockInv ==
    ASSUME IInv, FastSyncBlock
    PROVE  IInv'
  <1> USE DEF IInv
  <1>1. /\ mode = "fast" /\ cur = 0 /\ queue # {} /\ cur' = Min(queue) /\ stage' = "stored"
        /\ queue' = queue \ {cur'} /\ mode' = mode
        /\ own' = own /\ blocks' = blocks /\ entry' = entry /\ filled' = filled /\ stored' = stored
        /\ processed' = processed /\ checksummed' = checksummed /\ next' = next
        /\ applied' = applied /\ fails' = fails
    BY DEF FastSyncBlock, chainVars, logVars, boundVars
  <1>2. PICK s \in Nat, c \in Nat : Contiguous(s, c) /\ Replica(s)
    OBVIOUS
  <1>3. stage = "none" /\ queue \subseteq 1 .. s /\ stored = 1 .. s
    BY <1>1, <1>2 DEF Contiguous
  <1>4. cur' \in queue /\ \A y \in queue : cur' <= y
    <2>1. queue \subseteq Nat
      BY <1>3
    <2>2. \E x \in queue : \A y \in queue : x <= y
      BY <1>1, <2>1, LeastNatural
    <2> QED BY <1>1, <2>2, Zenon DEF Min
  <1>5. Types' /\ Chain'
    BY <1>1, ChainKept DEF Types
  <1>6. Marked'
    BY <1>1 DEF Marked
  <1>7. Contiguous(s, c)'
    <2>1. cur' # 0 /\ cur' \in stored
      BY <1>3, <1>4
    <2> QED BY <1>1, <1>2, <1>3, <2>1 DEF Contiguous
  <1>8. Replica(s)'
    <2> SUFFICES ASSUME FastSync, MaxTxPerBlock = 1, fails = 0
                 PROVE  (\E p \in Nat : InStep(s, p)') /\ (~ filled => entry = NoEntry)
      BY <1>1 DEF Replica
    <2>1. ~ filled => entry = NoEntry
      BY <1>2 DEF Replica
    <2>2. PICK p \in Nat : InStep(s, p)
      BY <1>1, <1>2 DEF Replica
    <2>3. queue = p + 1 .. s /\ p \in 0 .. s /\ processed = 1 .. p
      BY <1>1, <1>3, <2>2 DEF InStep
    <2>4. p < s
      BY <1>1, <2>3
    <2>5. cur' = p + 1
      <3>1. p + 1 \in queue
        BY <2>3, <2>4
      <3>2. cur' <= p + 1 /\ cur' \in p + 1 .. s
        BY <1>4, <2>3, <3>1
      <3> QED BY <3>2
    <2>6. queue' = p + 2 .. s
      BY <1>1, <2>3, <2>5
    <2>7. Shown(entry, State(p)) \/ (p < s /\ Shown(entry, State(p + 1)))
      BY <1>3, <2>2 DEF InStep
    <2>8. Shown(entry, State(p))' \/ (p < s /\ Shown(entry, State(p + 1))')
      BY <1>1, <2>7 DEF Shown, State
    <2>9. InStep(s, p)'
      BY <1>1, <2>3, <2>4, <2>5, <2>6, <2>8 DEF InStep
    <2> QED BY <2>1, <2>9
  <1> QED BY <1>5, <1>6, <1>7, <1>8

\* Fast sync is done and the stream starts at the block after the last checksum,
\* which leaves out no block.
LEMMA BuildRpcIndexerInv ==
    ASSUME IInv, BuildRpcIndexer
    PROVE  IInv'
  <1> USE DEF IInv
  <1>1. /\ mode = "fast" /\ cur = 0 /\ queue = {} /\ mode' = "rpc"
        /\ next' = IF next_block_to_process > Len(blocks) /\ blocks # <<>> THEN Len(blocks)
                   ELSE next_block_to_process
        /\ own' = own /\ blocks' = blocks /\ entry' = entry /\ filled' = filled /\ stored' = stored
        /\ processed' = processed /\ checksummed' = checksummed /\ queue' = queue
        /\ cur' = cur /\ stage' = stage /\ applied' = applied /\ fails' = fails
    BY DEF BuildRpcIndexer, chainVars, logVars, boundVars
  <1>2. PICK s \in Nat, c \in Nat : Contiguous(s, c) /\ Replica(s)
    OBVIOUS
  <1>3. /\ stage = "none" /\ stored = 1 .. s /\ checksummed = 1 .. c
        /\ c \in 0 .. s /\ s \in 0 .. Len(blocks) /\ Len(blocks) \in Nat
    BY <1>1, <1>2, LenProperties DEF Contiguous, Types
  <1>4. next' \in 1 .. s + 1
    <2>1. LastOf(checksummed) = c
      BY <1>3, LastOfInterval
    <2>2. next_block_to_process \in 1 .. s + 1
      BY <1>3, <2>1 DEF next_block_to_process, StartBlock
    <2>3. blocks # <<>> => Len(blocks) # 0
      BY EmptySeq DEF Types
    <2>4. CASE next_block_to_process > Len(blocks) /\ blocks # <<>>
      BY <1>1, <1>3, <2>2, <2>3, <2>4
    <2>5. CASE ~ (next_block_to_process > Len(blocks) /\ blocks # <<>>)
      BY <1>1, <2>2, <2>5
    <2> QED BY <2>4, <2>5
  <1>5. Types' /\ Chain'
    BY <1>1, ChainKept DEF Types
  <1>6. Marked'
    BY <1>1 DEF Marked
  <1>7. Contiguous(s, c)'
    BY <1>1, <1>2, <1>4 DEF Contiguous
  <1>8. Replica(s)'
    <2> SUFFICES ASSUME FastSync, MaxTxPerBlock = 1, fails = 0
                 PROVE  (\E p \in Nat : InStep(s, p)') /\ (~ filled => entry = NoEntry)
      BY <1>1 DEF Replica
    <2>1. ~ filled => entry = NoEntry
      BY <1>2 DEF Replica
    <2>2. PICK p \in Nat : InStep(s, p)
      BY <1>1, <1>2 DEF Replica
    <2>3. {} = p + 1 .. s /\ p \in 0 .. s /\ processed = 1 .. p
      BY <1>1, <1>3, <2>2 DEF InStep
    <2>4. p = s
      BY <2>3
    <2>5. Shown(entry, State(p))
      BY <1>3, <2>2, <2>4 DEF InStep
    <2>6. Shown(entry, State(p))'
      BY <1>1, <2>5 DEF Shown, State
    <2>7. InStep(s, p)'
      BY <1>1, <1>3, <2>3, <2>4, <2>6 DEF InStep
    <2> QED BY <2>1, <2>7
  <1> QED BY <1>5, <1>6, <1>7, <1>8

\* The stream delivers a block: it is stored, or dropped when it is stored already.
LEMMA StoreLogsInv ==
    ASSUME IInv, StoreLogs
    PROVE  IInv'
  <1> USE DEF IInv
  <1>1. /\ mode = "rpc" /\ cur = 0 /\ next <= Len(blocks) /\ next' = next + 1
        /\ own' = own /\ blocks' = blocks /\ entry' = entry /\ filled' = filled
        /\ processed' = processed /\ checksummed' = checksummed /\ queue' = queue /\ mode' = mode
        /\ applied' = applied /\ fails' = fails
    BY DEF StoreLogs, chainVars, boundVars
  <1>2. PICK s \in Nat, c \in Nat : Contiguous(s, c) /\ Replica(s)
    OBVIOUS
  <1>3. /\ stage = "none" /\ stored = 1 .. s /\ next \in 1 .. s + 1
        /\ s \in 0 .. Len(blocks) /\ Len(blocks) \in Nat
    BY <1>1, <1>2, LenProperties DEF Contiguous, Types
  <1>4. Chain'
    BY <1>1, ChainKept
  <1>5. CASE next \in stored
    <2>1. stored' = stored /\ cur' = cur /\ stage' = stage
      BY <1>5 DEF StoreLogs
    <2>2. Types' /\ Marked'
      BY <1>1, <2>1 DEF Types, Marked
    <2>3. next' \in 1 .. s + 1
      BY <1>1, <1>3, <1>5
    <2>4. Contiguous(s, c)'
      BY <1>1, <1>2, <2>1, <2>3 DEF Contiguous
    <2>5. Replica(s)'
      BY <1>1, <1>2, <2>1, InStepKept DEF Replica
    <2> QED BY <1>4, <2>2, <2>4, <2>5
  <1>6. CASE next \notin stored
    <2>1. stored' = stored \cup {next} /\ cur' = next /\ stage' = "stored"
      BY <1>6 DEF StoreLogs
    <2>2. next = s + 1
      BY <1>3, <1>6
    <2>3. PICK t \in Nat : t = s + 1
      OBVIOUS
    <2>4. stored' = 1 .. t /\ t \in 0 .. Len(blocks) /\ cur' = t /\ cur' # 0
      BY <1>1, <1>3, <2>1, <2>2, <2>3
    <2>5. Types' /\ Marked'
      BY <1>1, <2>1 DEF Types, Marked
    <2>6. Contiguous(t, c)'
      <3>1. c \in 0 .. s /\ checksummed = 1 .. c /\ processed \subseteq stored /\ queue \subseteq stored
        BY <1>2 DEF Contiguous
      <3>2. c \in 0 .. t /\ next' \in 1 .. t + 1 /\ cur' \in stored'
        BY <1>1, <2>1, <2>2, <2>3, <3>1
      <3>3. processed' \subseteq stored' /\ queue' \subseteq stored'
        BY <1>1, <2>1, <3>1
      <3> QED BY <1>1, <2>1, <2>4, <3>1, <3>2, <3>3 DEF Contiguous
    <2>7. Replica(t)'
      <3> SUFFICES ASSUME FastSync, MaxTxPerBlock = 1, fails = 0
                   PROVE  (\E p \in Nat : InStep(t, p)') /\ (~ filled => entry = NoEntry)
        BY <1>1 DEF Replica
      <3>1. ~ filled => entry = NoEntry
        BY <1>2 DEF Replica
      <3>2. PICK p \in Nat : InStep(s, p)
        BY <1>1, <1>2 DEF Replica
      <3>3. p = s /\ processed = 1 .. p
        BY <1>1, <1>3, <3>2 DEF InStep
      <3>4. Shown(entry, State(p))
        BY <1>3, <3>2, <3>3 DEF InStep
      <3>5. Shown(entry, State(p))'
        BY <1>1, <3>4 DEF Shown, State
      <3>6. p \in 0 .. t /\ p < t /\ t = p + 1
        BY <2>3, <3>3
      <3>7. InStep(t, p)'
        BY <1>1, <2>1, <2>4, <3>3, <3>5, <3>6 DEF InStep
      <3> QED BY <3>1, <3>7
    <2> QED BY <1>4, <2>4, <2>5, <2>6, <2>7
  <1> QED BY <1>5, <1>6

\* The index transaction of a block: an entry that shows the channel before the
\* block, or after it already, shows the channel after it.
LEMMA CollectBlockEventsInv ==
    ASSUME IInv, CollectBlockEvents
    PROVE  IInv'
  <1> USE DEF IInv
  <1>1. /\ stage = "stored" /\ entry' = Handled(entry, blocks[cur].logs) /\ filled' = TRUE
        /\ applied' = applied \cup {cur} /\ stage' = "committed"
        /\ own' = own /\ blocks' = blocks /\ stored' = stored /\ cur' = cur
        /\ processed' = processed /\ checksummed' = checksummed /\ queue' = queue /\ mode' = mode
        /\ next' = next /\ fails' = fails
    BY DEF CollectBlockEvents, Collected, chainVars, logVars, syncVars, boundVars
  <1>2. PICK s \in Nat, c \in Nat : Contiguous(s, c) /\ Replica(s)
    OBVIOUS
  <1>3. /\ own \in BOOLEAN /\ entry \in Entry /\ mode # "down"
        /\ blocks \in Seq(Block) /\ Len(blocks) \in Nat
    BY <1>1, LenProperties DEF Types, Marked
  <1>4. /\ s \in 0 .. Len(blocks) /\ stored = 1 .. s /\ cur \in 1 .. s
    BY <1>1, <1>2 DEF Contiguous
  <1>5. blocks[cur] \in Block /\ cur \in 1 .. Len(blocks)
    <2>1. cur \in 1 .. Len(blocks)
      BY <1>3, <1>4
    <2> QED BY <1>3, <2>1, ElementOfSeq
  <1>6. entry' \in Entry
    <2>1. blocks[cur].logs \in Seq(LogRecord)
      BY <1>5 DEF Block
    <2> QED BY <1>1, <1>3, <2>1, HandledIsEntry
  <1>7. Types' /\ Chain'
    BY <1>1, <1>6, ChainKept DEF Types
  <1>8. Marked'
    BY <1>1, <1>3 DEF Marked
  <1>9. Contiguous(s, c)'
    BY <1>1, <1>2 DEF Contiguous
  <1>10. Replica(s)'
    <2> SUFFICES ASSUME FastSync, MaxTxPerBlock = 1, fails = 0
                 PROVE  \E p \in Nat : InStep(s, p)'
      BY <1>1 DEF Replica
    <2>1. PICK p \in Nat : InStep(s, p)
      BY <1>2, <1>3 DEF Replica
    <2>2. /\ p \in 0 .. s /\ p < s /\ cur = p + 1 /\ processed = 1 .. p
          /\ Shown(entry, State(p)) \/ Shown(entry, State(p + 1))
      BY <1>1, <2>1 DEF InStep
    <2>3. PICK b, ch : b = blocks[cur] /\ ch = State(p)
      OBVIOUS
    <2>4. State(p + 1) = b.after
      BY <2>2, <2>3 DEF State
    <2>5. b \in Tx(ch) /\ Sound(ch)
      <3>1. cur - 1 = p /\ p \in 0 .. Len(blocks)
        BY <1>3, <1>4, <2>2
      <3>2. /\ \A i \in 0 .. Len(blocks) : Sound(State(i))
            /\ \A i \in 1 .. Len(blocks) : blocks[i] \in Tx(State(i - 1))
        BY DEF Chain
      <3> QED BY <1>5, <2>3, <3>1, <3>2
    <2>6. Shown(Handled(entry, b.logs), b.after)
      <3>1. PICK e : e = entry
        OBVIOUS
      <3>2. e \in Entry /\ (Shown(e, ch) \/ Shown(e, b.after))
        BY <1>3, <2>2, <2>3, <2>4, <3>1
      <3>3. Shown(Handled(e, b.logs), b.after)
        BY <1>3, <2>5, <3>2, BlockShown
      <3> QED BY <3>1, <3>3
    <2>7. Shown(entry, State(p + 1))'
      <3>1. State(p + 1)' = b.after
        BY <1>1, <2>4 DEF State
      <3> QED BY <1>1, <2>3, <2>6, <3>1 DEF Shown
    <2>8. InStep(s, p)'
      BY <1>1, <2>1, <2>2, <2>7 DEF InStep
    <2> QED BY <2>8
  <1> QED BY <1>7, <1>8, <1>9, <1>10

\* A step of process_block fails.
LEMMA ProcessBlockFailsInv ==
    ASSUME IInv, ProcessBlockFails
    PROVE  IInv'
  <1> USE DEF IInv
  <1>1. /\ fails' = fails + 1 /\ cur' = 0 /\ stage' = "none"
        /\ own' = own /\ blocks' = blocks /\ entry' = entry /\ filled' = filled /\ stored' = stored
        /\ processed' = processed /\ checksummed' = checksummed /\ queue' = queue /\ mode' = mode
        /\ next' = next /\ applied' = applied
    BY DEF ProcessBlockFails, chainVars, logVars, syncVars
  <1>2. PICK s \in Nat, c \in Nat : Contiguous(s, c) /\ Replica(s)
    OBVIOUS
  <1>3. fails' \in Nat /\ fails' # 0
    BY <1>1 DEF Types
  <1>4. Types' /\ Chain'
    BY <1>1, <1>3, ChainKept DEF Types
  <1>5. Marked' /\ Contiguous(s, c)' /\ Replica(s)'
    BY <1>1, <1>2, <1>3 DEF Marked, Contiguous, Replica
  <1> QED BY <1>4, <1>5

\* The block is marked.
LEMMA SetLogsProcessedInv ==
    ASSUME IInv, SetLogsProcessed
    PROVE  IInv'
  <1> USE DEF IInv
  <1>1. /\ stage = "committed" /\ processed' = processed \cup {cur} /\ stage' = "marked"
        /\ own' = own /\ blocks' = blocks /\ entry' = entry /\ filled' = filled /\ stored' = stored
        /\ checksummed' = checksummed /\ queue' = queue /\ mode' = mode /\ cur' = cur
        /\ next' = next /\ applied' = applied /\ fails' = fails
    BY DEF SetLogsProcessed, chainVars, syncVars, boundVars
  <1>2. PICK s \in Nat, c \in Nat : Contiguous(s, c) /\ Replica(s)
    OBVIOUS
  <1>3. mode # "down"
    BY <1>1 DEF Marked
  <1>4. Types' /\ Chain'
    BY <1>1, ChainKept DEF Types
  <1>5. Marked'
    BY <1>1, <1>3 DEF Marked
  <1>6. Contiguous(s, c)'
    BY <1>1, <1>2 DEF Contiguous
  <1>7. Replica(s)'
    <2> SUFFICES ASSUME FastSync, MaxTxPerBlock = 1, fails = 0
                 PROVE  (\E p \in Nat : InStep(s, p)') /\ (~ filled => entry = NoEntry)
      BY <1>1 DEF Replica
    <2>1. ~ filled => entry = NoEntry
      BY <1>2 DEF Replica
    <2>2. PICK p \in Nat : InStep(s, p)
      BY <1>2, <1>3 DEF Replica
    <2>3. PICK r \in Nat : r = p + 1
      OBVIOUS
    <2>4. /\ r \in 0 .. s /\ cur = r /\ processed = 1 .. p /\ Shown(entry, State(r))
          /\ mode = "fast" => queue = p + 2 .. s
          /\ mode = "rpc" => s = r
      BY <1>1, <2>2, <2>3 DEF InStep
    <2>5. processed' = 1 .. r /\ p + 2 = r + 1
      BY <1>1, <2>3, <2>4
    <2>6. Shown(entry, State(r))'
      BY <1>1, <2>4 DEF Shown, State
    <2>7. InStep(s, r)'
      BY <1>1, <2>4, <2>5, <2>6 DEF InStep
    <2> QED BY <2>1, <2>7
  <1> QED BY <1>4, <1>5, <1>6, <1>7

\* The checksums are brought up to date.
LEMMA UpdateLogsChecksumsInv ==
    ASSUME IInv, UpdateLogsChecksums
    PROVE  IInv'
  <1> USE DEF IInv
  <1>1. /\ stage = "marked" /\ checksummed' = stored /\ cur' = 0 /\ stage' = "none"
        /\ own' = own /\ blocks' = blocks /\ entry' = entry /\ filled' = filled /\ stored' = stored
        /\ processed' = processed /\ queue' = queue /\ mode' = mode
        /\ next' = next /\ applied' = applied /\ fails' = fails
    BY DEF UpdateLogsChecksums, chainVars, syncVars, boundVars
  <1>2. PICK s \in Nat, c \in Nat : Contiguous(s, c) /\ Replica(s)
    OBVIOUS
  <1>3. mode # "down"
    BY <1>1 DEF Marked
  <1>4. Types' /\ Chain'
    BY <1>1, ChainKept DEF Types
  <1>5. Marked'
    BY <1>1 DEF Marked
  <1>6. Contiguous(s, s)'
    BY <1>1, <1>2 DEF Contiguous
  <1>7. Replica(s)'
    <2> SUFFICES ASSUME FastSync, MaxTxPerBlock = 1, fails = 0
                 PROVE  (\E p \in Nat : InStep(s, p)') /\ (~ filled => entry = NoEntry)
      BY <1>1 DEF Replica
    <2>1. ~ filled => entry = NoEntry
      BY <1>2 DEF Replica
    <2>2. PICK p \in Nat : InStep(s, p)
      BY <1>2, <1>3 DEF Replica
    <2>3. /\ p \in 0 .. s /\ processed = 1 .. p /\ Shown(entry, State(p))
          /\ mode = "fast" => queue = p + 1 .. s
          /\ mode = "rpc" => s = p
      BY <1>1, <2>2 DEF InStep
    <2>4. Shown(entry, State(p))'
      BY <1>1, <2>3 DEF Shown, State
    <2>5. InStep(s, p)'
      BY <1>1, <2>3, <2>4 DEF InStep
    <2> QED BY <2>1, <2>5
  <1> QED BY <1>4, <1>5, <1>6, <1>7

\* The node goes down at any point of a block: what is left of it in the two
\* databases is one of the states fast sync starts from.
LEMMA CrashInv ==
    ASSUME IInv, Crash
    PROVE  IInv'
  <1> USE DEF IInv
  <1>1. /\ mode # "down" /\ mode' = "down" /\ queue' = {} /\ next' = 1 /\ cur' = 0 /\ stage' = "none"
        /\ own' = own /\ blocks' = blocks /\ entry' = entry /\ filled' = filled /\ stored' = stored
        /\ processed' = processed /\ checksummed' = checksummed /\ applied' = applied
        /\ fails' = fails
    BY DEF Crash, Down, chainVars, logVars
  <1>2. PICK s \in Nat, c \in Nat : Contiguous(s, c) /\ Replica(s)
    OBVIOUS
  <1>3. Types' /\ Chain'
    BY <1>1, ChainKept DEF Types
  <1>4. Marked'
    BY <1>1 DEF Marked
  <1>5. Contiguous(s, c)'
    <2>1. 1 \in 1 .. s + 1
      OBVIOUS
    <2> QED BY <1>1, <1>2, <2>1 DEF Contiguous
  <1>6. Replica(s)'
    <2> SUFFICES ASSUME FastSync, MaxTxPerBlock = 1, fails = 0
                 PROVE  (\E p \in Nat : InStep(s, p)') /\ (~ filled => entry = NoEntry)
      BY <1>1 DEF Replica
    <2>1. ~ filled => entry = NoEntry
      BY <1>2 DEF Replica
    <2>2. PICK p \in Nat : InStep(s, p)
      BY <1>1, <1>2 DEF Replica
    <2>3. stage \in {"none", "stored", "committed", "marked"}
      BY DEF Types
    <2>4. /\ p \in 0 .. s /\ processed = 1 .. p
          /\ Shown(entry, State(p)) \/ (p < s /\ Shown(entry, State(p + 1)))
      BY <2>2, <2>3 DEF InStep
    <2>5. Shown(entry, State(p))' \/ (p < s /\ Shown(entry, State(p + 1))')
      BY <1>1, <2>4 DEF Shown, State
    <2>6. InStep(s, p)'
      BY <1>1, <2>4, <2>5 DEF InStep
    <2> QED BY <2>1, <2>6
  <1> QED BY <1>3, <1>4, <1>5, <1>6

\* An orderly restart, possibly without the index.
LEMMA StopInv ==
    ASSUME IInv, NEW drop \in BOOLEAN, Stop(drop)
    PROVE  IInv'
  <1> USE DEF IInv
  <1>1. /\ mode = "rpc" /\ mode' = "down" /\ queue' = {} /\ next' = 1 /\ cur' = 0 /\ stage' = "none"
        /\ entry' = (IF drop THEN NoEntry ELSE entry) /\ filled' = (~drop /\ filled)
        /\ applied' = (IF drop THEN {} ELSE applied) /\ cur = 0
        /\ own' = own /\ blocks' = blocks /\ stored' = stored
        /\ processed' = processed /\ checksummed' = checksummed /\ fails' = fails
    BY DEF Stop, Down, chainVars, logVars
  <1>2. PICK s \in Nat, c \in Nat : Contiguous(s, c) /\ Replica(s)
    OBVIOUS
  <1>3. NoEntry \in Entry
    BY DEF NoEntry, Entry
  <1>4. Types' /\ Chain'
    <2>1. entry' \in Entry
      BY <1>1, <1>3 DEF Types
    <2>2. filled' \in BOOLEAN
      BY <1>1
    <2> QED BY <1>1, <2>1, <2>2, ChainKept DEF Types
  <1>5. Contiguous(s, c)'
    <2>1. 1 \in 1 .. s + 1
      OBVIOUS
    <2> QED BY <1>1, <1>2, <2>1 DEF Contiguous
  <1>6. CASE drop
    <2>1. filled' = FALSE /\ entry' = NoEntry
      BY <1>1, <1>6
    <2>2. Marked' /\ Replica(s)'
      BY <1>1, <2>1 DEF Marked, Replica
    <2> QED BY <1>4, <1>5, <2>2
  <1>7. CASE ~ drop
    <2>1. filled' = filled /\ entry' = entry /\ applied' = applied
      BY <1>1, <1>7 DEF Types
    <2>2. Marked'
      BY <1>1, <2>1 DEF Marked
    <2>3. Replica(s)'
      <3> SUFFICES ASSUME FastSync, MaxTxPerBlock = 1, fails = 0
                   PROVE  (\E p \in Nat : InStep(s, p)') /\ (~ filled => entry = NoEntry)
        BY <1>1, <2>1 DEF Replica
      <3>1. ~ filled => entry = NoEntry
        BY <1>2 DEF Replica
      <3>2. PICK p \in Nat : InStep(s, p)
        BY <1>1, <1>2 DEF Replica
      <3>3. stage = "none"
        BY <1>1, <1>2 DEF Contiguous
      <3>4. /\ p \in 0 .. s /\ processed = 1 .. p
            /\ Shown(entry, State(p)) \/ (p < s /\ Shown(entry, State(p + 1)))
        BY <3>2, <3>3 DEF InStep
      <3>5. Shown(entry, State(p))' \/ (p < s /\ Shown(entry, State(p + 1))')
        BY <1>1, <2>1, <3>4 DEF Shown, State
      <3>6. InStep(s, p)'
        BY <1>1, <3>4, <3>5 DEF InStep
      <3> QED BY <3>1, <3>6
    <2> QED BY <1>4, <1>5, <2>2, <2>3
  <1> QED BY <1>6, <1>7

\* Every step keeps the inductive invariant.
LEMMA NextInv == IInv /\ [Next]_vars => IInv'
  <1> SUFFICES ASSUME IInv, [Next]_vars PROVE IInv'
    OBVIOUS
  <1>1. CASE Mine
    BY <1>1, MineInv
  <1>2. CASE Start
    BY <1>2, StartInv
  <1>3. CASE FastSyncBlock
    BY <1>3, FastSyncBlockInv
  <1>4. CASE BuildRpcIndexer
    BY <1>4, BuildRpcIndexerInv
  <1>5. CASE StoreLogs
    BY <1>5, StoreLogsInv
  <1>6. CASE CollectBlockEvents
    BY <1>6, CollectBlockEventsInv
  <1>7. CASE SetLogsProcessed
    BY <1>7, SetLogsProcessedInv
  <1>8. CASE UpdateLogsChecksums
    BY <1>8, UpdateLogsChecksumsInv
  <1>9. CASE ProcessBlockFails
    BY <1>9, ProcessBlockFailsInv
  <1>10. CASE Crash
    BY <1>10, CrashInv
  <1>11. ASSUME NEW drop \in BOOLEAN, Stop(drop) PROVE IInv'
    BY <1>11, StopInv
  <1>12. CASE UNCHANGED vars
    <2>1. /\ own' = own /\ blocks' = blocks /\ entry' = entry /\ filled' = filled
          /\ stored' = stored /\ processed' = processed /\ checksummed' = checksummed
          /\ queue' = queue /\ mode' = mode /\ next' = next /\ cur' = cur /\ stage' = stage
          /\ applied' = applied /\ fails' = fails
      BY <1>12 DEF vars
    <2>2. PICK s \in Nat, c \in Nat : Contiguous(s, c) /\ Replica(s)
      BY DEF IInv
    <2>3. Types' /\ Marked' /\ Chain'
      BY <2>1, ChainKept DEF IInv, Types, Marked
    <2>4. Contiguous(s, c)'
      BY <2>1, <2>2 DEF Contiguous
    <2>5. Replica(s)'
      BY <2>1, <2>2, InStepKept DEF Replica
    <2> QED BY <2>3, <2>4, <2>5 DEF IInv
  <1> QED BY <1>1, <1>2, <1>3, <1>4, <1>5, <1>6, <1>7, <1>8, <1>9, <1>10, <1>11, <1>12
          DEF Next, Step

--------------------------------------------------------------------------------
(* The theorems *)

\* The inductive invariant holds in every state the indexer can be in.
THEOREM Invariance == Spec => []IInv
  <1>1. Init => IInv
    BY InitInv
  <1>2. IInv /\ [Next]_vars => IInv'
    BY NextInv
  <1> QED BY <1>1, <1>2, PTL DEF Spec

\* The two databases and the position of the stream keep their types; the
\* replica stays a channel entry whatever the logs of a block.
THEOREM TypeCorrect == Spec => []TypeOK
  <1>1. ASSUME IInv PROVE TypeOK
    <2>1. PICK s \in Nat, c \in Nat : Contiguous(s, c)
      BY <1>1 DEF IInv
    <2>2. Types
      BY <1>1 DEF IInv
    <2>3. Len(blocks) \in Nat /\ Len(blocks) <= MaxBlock /\ MaxBlock \in Nat
      BY <2>2, LenProperties, IndexerAssumption DEF Types
    <2>4. /\ entry.status \in {CLOSED, OPEN, PENDING, "None"}
          /\ {entry.epoch, entry.index, entry.balance} \subseteq Nat
      BY <2>2 DEF Types, Entry
    <2>5. /\ checksummed \subseteq stored /\ stored \subseteq 1 .. Len(blocks)
          /\ next \in 1 .. MaxBlock + 1
      BY <2>1, <2>3 DEF Contiguous
    <2> QED BY <2>1, <2>2, <2>4, <2>5 DEF Types, Contiguous, TypeOK
  <1> QED BY <1>1, Invariance, PTL

\* A block marked processed is part of the index, whatever crashes, fails or is
\* removed between the two databases, with and without fast sync.
THEOREM MarkedIsAppliedTheorem == Spec => []MarkedIsApplied
  <1>1. IInv => MarkedIsApplied
    BY DEF IInv, Marked, MarkedIsApplied
  <1> QED BY <1>1, Invariance, PTL

\* With fast sync and one transaction of the channel per block, the replica
\* shows the channel after the last marked block and no block is missing before
\* it: for chains of any length and any number of crashes, restarts and removals
\* of the index.
THEOREM ReplicaAgreesTheorem ==
    ASSUME FastSync, MaxTxPerBlock = 1
    PROVE  Spec => []ReplicaAgrees
  <1>1. ASSUME IInv, mode = "rpc", cur = 0, fails = 0
        PROVE  /\ processed = 1 .. LastOf(processed)
               /\ Shows(IF LastOf(processed) = 0 THEN Unused ELSE blocks[LastOf(processed)].after)
    <2>1. PICK s \in Nat, c \in Nat : Contiguous(s, c) /\ Replica(s)
      BY <1>1 DEF IInv
    <2>2. PICK p \in Nat : InStep(s, p)
      BY <1>1, <2>1 DEF Replica
    <2>3. stage = "none"
      BY <1>1, <2>1 DEF Contiguous
    <2>4. processed = 1 .. p /\ s = p /\ Shown(entry, State(p))
      BY <1>1, <2>2, <2>3 DEF InStep
    <2>5. LastOf(processed) = p
      BY <2>4, LastOfInterval
    <2>6. Shows(State(p))
      BY <2>4 DEF Shown, Shows
    <2> QED BY <2>4, <2>5, <2>6 DEF State
  <1>2. IInv => ReplicaAgrees
    BY <1>1 DEF ReplicaAgrees
  <1> QED BY <1>2, Invariance, PTL
===============================================================================
