--------------------------- MODULE RedemptionProofs ---------------------------
(***************************************************************************)
(* Proofs about Redemption: only tickets paid on chain are counted as      *)
(* redeemed, no ticket the contract would still accept leaves the          *)
(* database, and without a crash no ticket stays behind in BeingRedeemed.  *)
(***************************************************************************)
EXTENDS Redemption, SequenceTheorems, TLAPS

--------------------------------------------------------------------------------
(* The inductive invariant *)

LogType == [name : {"ChannelOpened", "ChannelClosed", "TicketRedeemed"},
            index : Nat, act : Nat]
ActType == [ticket : Ticket, pc : {"queued", "submitted", "waiting", "failed", "done"}]
RedeemerType == [pc : {"idle", "read", "selected"}, channel : Channel,
                 todo : SUBSET Ticket, got : Seq(Ticket)]

\* TypeOK with the sequences and functions spelled out.
Types ==
    /\ onchain \in Channel /\ entry \in Channel
    /\ paid \subseteq Ticket
    /\ mempool \in Seq(Nat)
    /\ \A i \in DOMAIN mempool : mempool[i] \in DOMAIN acts
    /\ logs \in Seq(LogType)
    /\ handler \in [pc : {"idle", "found", "marked", "handled"}, found : SUBSET Ticket]
    /\ row \in [Ticket -> {"none", "Untouched", "BeingRedeemed", "gone"}]
    /\ stats \in [redeemed : SUBSET Ticket, neglected : SUBSET Ticket]
    /\ redeemer \in [Redeemer -> RedeemerType]
    /\ acts \in Seq(ActType)
    /\ node \in {"syncing", "running"}
    /\ rounds \in 0 .. MaxRound /\ crashes \in 0 .. MaxCrash

\* The log l takes the channel from state s to state r.
Follows(s, l, r) ==
    \/ l = Opened /\ ~s.open /\ r = [epoch |-> s.epoch + 1, open |-> TRUE, index |-> 0]
    \/ l = Closed /\ s.open /\ r = [epoch |-> s.epoch, open |-> FALSE, index |-> 0]
    \/ /\ l.name = "TicketRedeemed" /\ s.open /\ s.index < l.index
       /\ r = [epoch |-> s.epoch, open |-> TRUE, index |-> l.index]

\* In the life of a channel, state r does not come before state s.
NotAfter(s, r) ==
    \/ s.epoch < r.epoch
    \/ s.epoch = r.epoch /\ s.open /\ ~r.open
    \/ s.epoch = r.epoch /\ s.open = r.open /\ s.index <= r.index

\* A log of a redemption, after which the channel is in state r, was written for
\* the ticket of an action, which was paid.
Origin(l, r) ==
    l.name = "TicketRedeemed" =>
        /\ l.act \in DOMAIN acts
        /\ acts[l.act].ticket \in paid
        /\ acts[l.act].ticket.epoch = r.epoch
        /\ acts[l.act].ticket.index + acts[l.act].ticket.offset = l.index

\* lab names the states of the channel between the pending logs, from the entry
\* of the index database to the chain.
Labelling(lab) ==
    /\ lab[0] = entry
    /\ lab[Len(logs)] = onchain
    /\ \A i \in 1 .. Len(logs) : Follows(lab[i - 1], logs[i], lab[i])
    /\ \A i \in 1 .. Len(logs) : Origin(logs[i], lab[i])
    /\ \A i, j \in 0 .. Len(logs) : i <= j => NotAfter(lab[i], lab[j])

Behind == \E lab \in [0 .. Len(logs) -> Channel] : Labelling(lab)

\* The ticket t cannot be redeemed when the channel is in state s or later.
Past(t, s) ==
    \/ t.epoch < s.epoch
    \/ t.epoch = s.epoch /\ (~s.open \/ t.index < s.index)

Dropped == \A t \in Ticket : row[t] = "gone" => Past(t, onchain)

\* Whatever was selected for redemption was stored before, and a redeemer selects
\* only when it has nothing left to do.
Selected ==
    /\ \A r \in Redeemer : redeemer[r].pc # "selected" =>
                              redeemer[r].todo = {} /\ redeemer[r].got = <<>>
    /\ \A r \in Redeemer : /\ \A t \in redeemer[r].todo : row[t] # "none"
                           /\ \A i \in DOMAIN redeemer[r].got : row[redeemer[r].got[i]] # "none"
    /\ \A a \in DOMAIN acts : row[acts[a].ticket] # "none"

HandlerInv ==
    /\ handler.pc # "idle" => logs # <<>>
    /\ handler.pc \in {"found", "marked"} => log.name = "TicketRedeemed"
    /\ handler.pc = "found" =>
          \A t \in handler.found : t.epoch = entry.epoch /\ t.index + t.offset = log.index
    /\ handler.pc = "handled" /\ log.name = "TicketRedeemed" =>
          row[acts[log.act].ticket] = "gone"

IInv ==
    /\ Types
    /\ Behind
    /\ Dropped
    /\ Selected
    /\ HandlerInv
    /\ RedeemedIsPaid
    /\ NoOrphan

--------------------------------------------------------------------------------
(* States of the channel and pending logs *)

\* The components of a channel, a ticket and a log have their types.
LEMMA ChannelParts ==
    ASSUME NEW s \in Channel
    PROVE  /\ s.epoch \in Nat /\ s.epoch \in 0 .. MaxEpoch
           /\ s.open \in BOOLEAN /\ s.index \in Nat
  BY RedemptionAssumption DEF Channel

\* A ticket consists of numbers and covers at least one index.
LEMMA TicketParts ==
    ASSUME NEW t \in Ticket
    PROVE  t.epoch \in Nat /\ t.index \in Nat /\ t.offset \in Nat /\ t.offset >= 1
  BY RedemptionAssumption

\* The three kinds of log are different.
LEMMA LogKinds ==
    /\ Opened # Closed /\ Opened.name # "TicketRedeemed" /\ Closed.name # "TicketRedeemed"
    /\ Opened.act = 0 /\ Closed.act = 0
    /\ Opened \in LogType /\ Closed \in LogType
  BY DEF Opened, Closed, LogType

\* A log never takes the channel back, the order of states is transitive, and
\* what is past stays past.
LEMMA StateOrder ==
    ASSUME NEW s \in Channel, NEW r \in Channel
    PROVE  /\ NotAfter(s, s)
           /\ \A l \in LogType : Follows(s, l, r) => NotAfter(s, r)
           /\ \A q \in Channel : NotAfter(s, r) /\ NotAfter(r, q) => NotAfter(s, q)
           /\ \A t \in Ticket : Past(t, s) /\ NotAfter(s, r) => Past(t, r)
  <1>1. NotAfter(s, s)
    BY ChannelParts DEF NotAfter
  <1>2. ASSUME NEW l \in LogType, Follows(s, l, r) PROVE NotAfter(s, r)
    <2>1. CASE r = [epoch |-> s.epoch + 1, open |-> TRUE, index |-> 0]
      <3>1. r.epoch = s.epoch + 1 /\ s.epoch \in Nat
        BY <2>1, ChannelParts
      <3> QED BY <3>1 DEF NotAfter
    <2>2. CASE s.open /\ r = [epoch |-> s.epoch, open |-> FALSE, index |-> 0]
      BY <2>2, ChannelParts DEF NotAfter
    <2>3. CASE s.open /\ s.index < l.index /\ r = [epoch |-> s.epoch, open |-> TRUE, index |-> l.index]
      <3>1. r.open = s.open
        BY <2>3, ChannelParts
      <3> QED BY <2>3, <3>1, ChannelParts DEF NotAfter, LogType
    <2> QED BY <1>2, <2>1, <2>2, <2>3 DEF Follows
  <1>3. ASSUME NEW q \in Channel, NotAfter(s, r), NotAfter(r, q) PROVE NotAfter(s, q)
    BY <1>3, ChannelParts DEF NotAfter
  <1>4. ASSUME NEW t \in Ticket, Past(t, s), NotAfter(s, r) PROVE Past(t, r)
    BY <1>4, ChannelParts, TicketParts DEF NotAfter, Past
  <1> QED BY <1>1, <1>2, <1>3, <1>4

\* The state after the first pending log: it follows from the entry of the index
\* database and the chain is there or later.
LEMMA FirstLog ==
    ASSUME Types, Behind, logs # <<>>
    PROVE  /\ log \in LogType
           /\ \E s \in Channel : /\ Follows(entry, log, s) /\ Origin(log, s)
                                 /\ NotAfter(s, onchain)
  <1>1. PICK lab \in [0 .. Len(logs) -> Channel] : Labelling(lab)
    BY DEF Behind
  <1>2. Len(logs) \in Nat /\ Len(logs) >= 1 /\ log = logs[1] /\ log \in LogType
    BY DEF Types, log
  <1>3. 1 \in 1 .. Len(logs) /\ 1 \in 0 .. Len(logs) /\ Len(logs) \in 0 .. Len(logs) /\ 1 - 1 = 0
    BY <1>2
  <1>4. lab[1] \in Channel
    BY <1>3
  <1>5. Follows(entry, log, lab[1]) /\ Origin(log, lab[1]) /\ NotAfter(lab[1], onchain)
    BY <1>1, <1>2, <1>3 DEF Labelling
  <1> QED BY <1>2, <1>4, <1>5

\* A step keeps the actions when it only adds some or changes their progress.
ActsKept ==
    /\ DOMAIN acts \subseteq DOMAIN acts'
    /\ \A a \in DOMAIN acts : acts'[a].ticket = acts[a].ticket

\* A step that leaves channel, logs and entry alone leaves the database as far
\* behind as it was.
LEMMA BehindKept ==
    ASSUME Behind, UNCHANGED <<onchain, logs, entry, paid>>, ActsKept
    PROVE  Behind'
  <1>1. PICK lab \in [0 .. Len(logs) -> Channel] : Labelling(lab)
    BY DEF Behind
  <1>2. \A i \in 1 .. Len(logs) : Origin(logs[i], lab[i])'
    BY <1>1 DEF Labelling, Origin, ActsKept
  <1>3. Labelling(lab)'
    BY <1>1, <1>2 DEF Labelling
  <1> QED BY <1>1, <1>3 DEF Behind

\* A log written on chain extends the states by the new one.
LEMMA BehindAppend ==
    ASSUME Types, Behind, NEW l \in LogType, logs' = Append(logs, l),
           UNCHANGED <<entry, acts>>, paid \subseteq paid',
           onchain \in Channel, onchain' \in Channel,
           Follows(onchain, l, onchain'), Origin(l, onchain)'
    PROVE  Behind'
  <1>1. PICK lab \in [0 .. Len(logs) -> Channel] : Labelling(lab)
    BY DEF Behind
  <1>2. /\ Len(logs) \in Nat /\ Len(logs') = Len(logs) + 1
        /\ \A i \in 1 .. Len(logs) : logs'[i] = logs[i]
        /\ logs'[Len(logs) + 1] = l
    BY DEF Types
  <1>3. PICK lab2 : lab2 = [i \in 0 .. Len(logs) + 1 |-> IF i <= Len(logs) THEN lab[i] ELSE onchain']
    OBVIOUS
  <1>4. lab2 \in [0 .. Len(logs') -> Channel]
    BY <1>2, <1>3
  <1>5. /\ \A i \in 0 .. Len(logs) : lab2[i] = lab[i]
        /\ lab2[Len(logs) + 1] = onchain'
    BY <1>2, <1>3
  <1>6. lab[Len(logs)] = onchain /\ lab[0] = entry /\ lab2[0] = entry'
    BY <1>1, <1>2, <1>5 DEF Labelling
  <1>7. ASSUME NEW i \in 1 .. Len(logs')
        PROVE  Follows(lab2[i - 1], logs'[i], lab2[i]) /\ Origin(logs[i], lab2[i])'
    <2>1. CASE i <= Len(logs)
      <3>1. i \in 1 .. Len(logs) /\ i - 1 \in 0 .. Len(logs) /\ i \in 0 .. Len(logs)
        BY <1>2, <2>1
      <3>2. Follows(lab[i - 1], logs[i], lab[i]) /\ Origin(logs[i], lab[i])
        BY <1>1, <3>1 DEF Labelling
      <3>3. logs'[i] = logs[i] /\ lab2[i] = lab[i] /\ lab2[i - 1] = lab[i - 1]
        BY <1>2, <1>5, <3>1
      <3>4. Origin(logs[i], lab2[i])'
        BY <3>2, <3>3 DEF Origin
      <3> QED BY <3>2, <3>3, <3>4
    <2>2. CASE i = Len(logs) + 1
      <3>1. i - 1 = Len(logs) /\ i - 1 \in 0 .. Len(logs)
        BY <1>2, <2>2
      <3>2. lab2[i - 1] = onchain /\ lab2[i] = onchain' /\ logs'[i] = l
        BY <1>2, <1>5, <1>6, <2>2, <3>1
      <3>3. Origin(logs[i], lab2[i])'
        BY <3>2 DEF Origin
      <3> QED BY <3>2, <3>3
    <2> QED BY <1>2, <2>1, <2>2
  <1>8. NotAfter(onchain, onchain')
    BY StateOrder
  <1>9. ASSUME NEW i \in 0 .. Len(logs'), NEW j \in 0 .. Len(logs'), i <= j
        PROVE  NotAfter(lab2[i], lab2[j])
    <2>1. CASE j <= Len(logs)
      <3>1. i \in 0 .. Len(logs) /\ j \in 0 .. Len(logs)
        BY <1>2, <1>9, <2>1
      <3> QED BY <1>1, <1>5, <1>9, <3>1 DEF Labelling
    <2>2. CASE j = Len(logs) + 1 /\ i <= Len(logs)
      <3>1. i \in 0 .. Len(logs) /\ Len(logs) \in 0 .. Len(logs)
        BY <1>2, <2>2
      <3>2. NotAfter(lab[i], onchain) /\ lab[i] \in Channel
        BY <1>1, <3>1 DEF Labelling
      <3>3. NotAfter(lab[i], onchain')
        BY <1>8, <3>2, StateOrder
      <3> QED BY <1>5, <2>2, <3>1, <3>3
    <2>3. CASE j = Len(logs) + 1 /\ i = j
      BY <1>5, <2>3, StateOrder
    <2> QED BY <1>2, <1>9, <2>1, <2>2, <2>3
  <1>10. Labelling(lab2)'
    BY <1>2, <1>5, <1>6, <1>7, <1>9 DEF Labelling
  <1> QED BY <1>4, <1>10 DEF Behind

\* Committing the first pending log moves the entry to the state after it.
LEMMA BehindCommit ==
    ASSUME Types, Behind, entry \in Channel, logs # <<>>, Commit
    PROVE  Behind' /\ entry' \in Channel
  <1>1. PICK lab \in [0 .. Len(logs) -> Channel] : Labelling(lab)
    BY DEF Behind
  <1>2. /\ Len(logs) \in Nat /\ Len(logs) >= 1 /\ log = logs[1] /\ log \in LogType
        /\ logs' = Tail(logs) /\ Len(logs') = Len(logs) - 1
        /\ \A i \in 1 .. Len(logs) - 1 : logs'[i] = logs[i + 1]
    BY DEF Types, log, Commit
  <1>3. 0 \in 0 .. Len(logs) /\ 1 \in 0 .. Len(logs) /\ 1 \in 1 .. Len(logs) /\ 1 - 1 = 0
    BY <1>2
  <1>4. Follows(entry, log, lab[1]) /\ lab[1] \in Channel
    BY <1>1, <1>2, <1>3 DEF Labelling
  <1>5. entry' = lab[1]
    <2>1. CASE log = Opened
      BY <1>4, <2>1, LogKinds DEF Follows, Commit
    <2>2. CASE log = Closed
      <3>1. entry' = [entry EXCEPT !.open = FALSE, !.index = 0]
        BY <2>2, LogKinds DEF Commit
      <3>2. entry' = [epoch |-> entry.epoch, open |-> FALSE, index |-> 0]
        BY <3>1 DEF Channel
      <3> QED BY <1>4, <2>2, <3>2, LogKinds DEF Follows
    <2>3. CASE log.name = "TicketRedeemed"
      <3>1. entry' = [entry EXCEPT !.index = log.index]
        BY <2>3, LogKinds DEF Commit
      <3>2. entry.open /\ entry.open \in BOOLEAN
        BY <1>4, <2>3, LogKinds, ChannelParts DEF Follows
      <3>3. entry' = [epoch |-> entry.epoch, open |-> TRUE, index |-> log.index]
        BY <3>1, <3>2 DEF Channel
      <3> QED BY <1>4, <2>3, <3>3, LogKinds DEF Follows
    <2> QED BY <1>4, <2>1, <2>2, <2>3 DEF Follows
  <1>6. ActsKept /\ UNCHANGED <<onchain, paid>>
    BY DEF Commit, ActsKept, chainVars, Types, ActType
  <1>7. PICK lab2 : lab2 = [i \in 0 .. Len(logs) - 1 |-> lab[i + 1]]
    OBVIOUS
  <1>8. lab2 \in [0 .. Len(logs') -> Channel]
    BY <1>2, <1>7
  <1>9. \A i \in 0 .. Len(logs) - 1 : lab2[i] = lab[i + 1]
    BY <1>7
  <1>10. ASSUME NEW i \in 1 .. Len(logs')
         PROVE  Follows(lab2[i - 1], logs'[i], lab2[i]) /\ Origin(logs[i], lab2[i])'
    <2>1. /\ i \in 0 .. Len(logs) - 1 /\ i - 1 \in 0 .. Len(logs) - 1
          /\ i + 1 \in 1 .. Len(logs) /\ i \in 1 .. Len(logs) - 1
          /\ (i - 1) + 1 = i /\ (i + 1) - 1 = i
      BY <1>2
    <2>2. Follows(lab[(i + 1) - 1], logs[i + 1], lab[i + 1]) /\ Origin(logs[i + 1], lab[i + 1])
      BY <1>1, <2>1 DEF Labelling
    <2>3. lab2[i - 1] = lab[i] /\ lab2[i] = lab[i + 1] /\ logs'[i] = logs[i + 1]
      BY <1>2, <1>9, <2>1
    <2>4. Origin(logs[i], lab2[i])'
      BY <1>6, <2>2, <2>3 DEF Origin, ActsKept
    <2> QED BY <2>1, <2>2, <2>3, <2>4
  <1>11. ASSUME NEW i \in 0 .. Len(logs'), NEW j \in 0 .. Len(logs'), i <= j
         PROVE  NotAfter(lab2[i], lab2[j])
    <2>1. i + 1 \in 0 .. Len(logs) /\ j + 1 \in 0 .. Len(logs) /\ i + 1 <= j + 1
      BY <1>2, <1>11
    <2>2. lab2[i] = lab[i + 1] /\ lab2[j] = lab[j + 1]
      BY <1>2, <1>9
    <2> QED BY <1>1, <2>1, <2>2 DEF Labelling
  <1>12. lab2[Len(logs')] = onchain' /\ lab2[0] = entry'
    <2>1. /\ Len(logs') \in 0 .. Len(logs) - 1 /\ Len(logs') + 1 = Len(logs)
          /\ 0 \in 0 .. Len(logs) - 1 /\ 0 + 1 = 1
      BY <1>2
    <2>2. lab[Len(logs)] = onchain
      BY <1>1 DEF Labelling
    <2> QED BY <1>5, <1>6, <1>9, <2>1, <2>2
  <1>13. Labelling(lab2)'
    BY <1>8, <1>10, <1>11, <1>12 DEF Labelling
  <1> QED BY <1>4, <1>5, <1>8, <1>13 DEF Behind

--------------------------------------------------------------------------------
(* What steps leave alone *)

USE DEF chainVars, dbVars, boundVars

\* A step keeps the rows when none comes back and none is forgotten.
RowsKept ==
    \A t \in Ticket : /\ row[t] = "gone" => row'[t] = "gone"
                      /\ row[t] # "none" => row'[t] # "none"

\* An action is a ticket and its progress.
LEMMA ActParts ==
    ASSUME Types, NEW a \in DOMAIN acts
    PROVE  /\ acts[a] \in ActType /\ acts[a].ticket \in Ticket
           /\ acts[a].pc \in {"queued", "submitted", "waiting", "failed", "done"}
  <1>1. acts[a] \in ActType
    BY DEF Types
  <1> QED BY <1>1 DEF ActType

\* The invariant gives the type invariant of the specification.
LEMMA TypeOKFollows == Types /\ Behind => TypeOK
  <1> SUFFICES ASSUME Types, Behind PROVE TypeOK
    OBVIOUS
  <1>1. PICK lab \in [0 .. Len(logs) -> Channel] : Labelling(lab)
    BY DEF Behind
  <1>2. ASSUME NEW i \in DOMAIN logs
        PROVE  logs[i] \in {Opened, Closed} \/ logs[i].act \in DOMAIN acts
    <2>1. i \in 1 .. Len(logs)
      BY DEF Types
    <2>2. Follows(lab[i - 1], logs[i], lab[i]) /\ Origin(logs[i], lab[i])
      BY <1>1, <2>1 DEF Labelling
    <2> QED BY <2>2 DEF Follows, Origin
  <1>3. \A r \in Redeemer : /\ redeemer[r].pc \in {"idle", "read", "selected"}
                            /\ redeemer[r].channel \in Channel
                            /\ redeemer[r].todo \subseteq Ticket
                            /\ redeemer[r].got \in Seq(Ticket)
    BY DEF Types, RedeemerType
  <1> QED BY <1>2, <1>3 DEF Types, TypeOK, ActType

\* The handler's knowledge of the first log survives steps of the others.
LEMMA HandlerKept ==
    ASSUME Types, Behind, HandlerInv, RowsKept, ActsKept, UNCHANGED <<handler, entry>>,
           logs' = logs \/ \E l \in LogType : logs' = Append(logs, l)
    PROVE  HandlerInv'
  <1>1. CASE handler.pc = "idle"
    BY <1>1 DEF HandlerInv
  <1>2. CASE handler.pc # "idle"
    <2>1. logs # <<>>
      BY <1>2 DEF HandlerInv
    <2>2. logs' # <<>> /\ log' = log
      <3>1. CASE logs' = logs
        BY <2>1, <3>1 DEF log
      <3>2. ASSUME NEW l \in LogType, logs' = Append(logs, l) PROVE logs' # <<>> /\ Head(logs') = Head(logs)
        <4>1. logs \in Seq(LogType) /\ Len(logs) \in Nat /\ Len(logs) >= 1
          BY <2>1 DEF Types
        <4>2. logs' \in Seq(LogType) /\ Len(logs') = Len(logs) + 1 /\ logs'[1] = logs[1]
          BY <3>2, <4>1
        <4>3. logs' # <<>>
          <5>1. Len(<<>>) = 0
            OBVIOUS
          <5> QED BY <4>1, <4>2, <5>1
        <4> QED BY <2>1, <4>1, <4>2, <4>3
      <3> QED BY <3>1, <3>2 DEF log
    <2>3. handler.pc = "handled" /\ log.name = "TicketRedeemed" => row'[acts'[log.act].ticket] = "gone"
      <3> SUFFICES ASSUME handler.pc = "handled", log.name = "TicketRedeemed"
                   PROVE  row'[acts'[log.act].ticket] = "gone"
        OBVIOUS
      <3>1. log.act \in DOMAIN acts /\ acts[log.act].ticket \in paid
        BY <2>1, FirstLog DEF Origin
      <3>2. acts'[log.act].ticket = acts[log.act].ticket /\ acts[log.act].ticket \in Ticket
        BY <3>1 DEF ActsKept, Types
      <3>3. row[acts[log.act].ticket] = "gone"
        BY DEF HandlerInv
      <3> QED BY <3>2, <3>3 DEF RowsKept
    <2> QED BY <2>2, <2>3 DEF HandlerInv
  <1> QED BY <1>1, <1>2

\* No ticket is orphaned when everyone in charge of it stays in charge and
\* whoever marks it takes charge.
LEMMA ChargeKept ==
    ASSUME NoOrphan, crashes' = 0 => crashes = 0,
           \A t \in Ticket : row'[t] = "BeingRedeemed" => row[t] = "BeingRedeemed" \/ InCharge(t)',
           \A t \in Ticket : row'[t] = "BeingRedeemed" /\ InCharge(t) => InCharge(t)'
    PROVE  NoOrphan'
  <1> SUFFICES ASSUME crashes' = 0, NEW t \in Ticket, row'[t] = "BeingRedeemed"
               PROVE  InCharge(t)'
    BY DEF NoOrphan, Orphan
  <1> QED BY DEF NoOrphan, Orphan

\* Steps that leave the database, the redeemers and the actions alone.
LEMMA ChainStepKept ==
    ASSUME Types, Behind, Selected, HandlerInv, NoOrphan, RedeemedIsPaid,
           UNCHANGED <<row, stats, redeemer, acts, handler, entry, crashes>>, paid \subseteq paid',
           logs' = logs \/ \E l \in LogType : logs' = Append(logs, l)
    PROVE  Selected' /\ HandlerInv' /\ NoOrphan' /\ RedeemedIsPaid'
  <1>1. RowsKept /\ ActsKept
    BY DEF RowsKept, ActsKept
  <1>2. HandlerInv'
    BY <1>1, HandlerKept
  <1>3. NoOrphan'
    BY DEF NoOrphan, Orphan, InCharge
  <1> QED BY <1>2, <1>3 DEF Selected, RedeemedIsPaid

\* Steps that only move rows and the progress of actions keep the selection.
LEMMA SelectedKept ==
    ASSUME Types, Selected, RowsKept, ActsKept, DOMAIN acts' = DOMAIN acts, UNCHANGED redeemer
    PROVE  Selected'
  <1>1. \A u \in Ticket : row[u] # "none" => row'[u] # "none"
    BY DEF RowsKept
  <1>2. \A r \in Redeemer : /\ redeemer[r].todo \subseteq Ticket
                            /\ \A i \in DOMAIN redeemer[r].got : redeemer[r].got[i] \in Ticket
    BY DEF Types, RedeemerType
  <1>3. \A a \in DOMAIN acts : acts[a].ticket \in Ticket /\ acts'[a].ticket = acts[a].ticket
    BY ActParts DEF ActsKept
  <1> QED BY <1>1, <1>2, <1>3 DEF Selected

--------------------------------------------------------------------------------
(* Tickets and redeemers *)

\* At the start there is nothing to redeem.
LEMMA InitIInv == Init => IInv
  <1> SUFFICES ASSUME Init PROVE IInv
    OBVIOUS
  <1>1. NoChannel \in Channel
    BY RedemptionAssumption DEF NoChannel, Channel
  <1>2. IdleRedeemer \in RedeemerType
    BY <1>1 DEF IdleRedeemer, RedeemerType
  <1>3. Types
    BY <1>1, <1>2, RedemptionAssumption DEF Init, Types, IdleHandler
  <1>4. Behind
    <2>1. PICK lab : lab = [i \in 0 .. 0 |-> NoChannel]
      OBVIOUS
    <2>2. Len(logs) = 0
      BY DEF Init
    <2>3. lab[0] = NoChannel /\ 0 .. Len(logs) = {0} /\ 1 .. Len(logs) = {}
      BY <2>1, <2>2
    <2>4. lab \in [0 .. Len(logs) -> Channel]
      BY <1>1, <2>1, <2>2
    <2>5. NotAfter(NoChannel, NoChannel)
      BY <1>1, StateOrder
    <2>6. Labelling(lab)
      <3>1. lab[0] = entry /\ lab[Len(logs)] = onchain
        BY <2>2, <2>3 DEF Init
      <3>2. \A i, j \in 0 .. Len(logs) : i <= j => NotAfter(lab[i], lab[j])
        BY <2>3, <2>5
      <3>3. \A i \in 1 .. Len(logs) : Follows(lab[i - 1], logs[i], lab[i]) /\ Origin(logs[i], lab[i])
        BY <2>3
      <3> QED BY <3>1, <3>2, <3>3 DEF Labelling
    <2> QED BY <2>4, <2>6 DEF Behind
  <1> QED BY <1>3, <1>4 DEF Init, IInv, Dropped, Selected, HandlerInv, RedeemedIsPaid,
             NoOrphan, Orphan, IdleRedeemer, IdleHandler

\* Storing a ticket touches no other one.
LEMMA InsertStep ==
    ASSUME IInv, NEW t \in Ticket, Insert(t) PROVE IInv'
  <1>1. row' = [row EXCEPT ![t] = "Untouched"] /\ row[t] = "none" /\ row \in [Ticket -> {"none", "Untouched", "BeingRedeemed", "gone"}]
    BY DEF IInv, Types, Insert
  <1>2. RowsKept /\ ActsKept
    BY <1>1 DEF RowsKept, ActsKept, Insert
  <1>3. Types'
    BY <1>1 DEF IInv, Types, Insert
  <1>4. Behind'
    BY <1>2, BehindKept DEF IInv, Insert
  <1>5. HandlerInv'
    BY <1>2, HandlerKept DEF IInv, Insert
  <1>6. NoOrphan'
    <2>1. \A u \in Ticket : row'[u] = "BeingRedeemed" => row[u] = "BeingRedeemed"
      BY <1>1
    <2>2. \A u \in Ticket : InCharge(u) => InCharge(u)'
      BY DEF InCharge, Insert
    <2> QED BY <2>1, <2>2, ChargeKept DEF IInv, Insert
  <1>7. Selected'
    BY <1>2, SelectedKept DEF IInv, Insert
  <1>8. Dropped'
    BY <1>1 DEF IInv, Dropped, Insert
  <1> QED BY <1>3, <1>4, <1>5, <1>6, <1>7, <1>8 DEF IInv, RedeemedIsPaid, Insert

\* A step of a redeemer that touches neither rows nor chain: what is left to show
\* is that it keeps its tickets.
LEMMA RedeemerOnly ==
    ASSUME IInv, redeemer' \in [Redeemer -> RedeemerType], Selected', rounds' \in 0 .. MaxRound,
           UNCHANGED <<onchain, paid, mempool, logs, handler, entry, row, stats, acts, node, crashes>>,
           \A t \in Ticket : InCharge(t) => InCharge(t)'
    PROVE  IInv'
  <1>1. RowsKept /\ ActsKept
    BY DEF RowsKept, ActsKept
  <1>2. Types'
    BY DEF IInv, Types
  <1>3. Behind'
    BY <1>1, BehindKept DEF IInv
  <1>4. HandlerInv'
    BY <1>1, HandlerKept DEF IInv
  <1>5. NoOrphan'
    BY ChargeKept DEF IInv
  <1> QED BY <1>2, <1>3, <1>4, <1>5 DEF IInv, Dropped, RedeemedIsPaid

\* Reading the channel selects nothing.
LEMMA ReadChannelStep ==
    ASSUME IInv, NEW r \in Redeemer, ReadChannel(r) PROVE IInv'
  <1>1. redeemer \in [Redeemer -> RedeemerType] /\ entry \in Channel
    BY DEF IInv, Types
  <1>2. redeemer' = [redeemer EXCEPT ![r].pc = "read", ![r].channel = entry]
    BY DEF ReadChannel
  <1>3. /\ redeemer'[r] = [pc |-> "read", channel |-> entry, todo |-> redeemer[r].todo, got |-> redeemer[r].got]
        /\ \A q \in Redeemer : q # r => redeemer'[q] = redeemer[q]
        /\ redeemer' \in [Redeemer -> RedeemerType]
    <2>1. PICK new : new = [redeemer[r] EXCEPT !.pc = "read", !.channel = entry]
      OBVIOUS
    <2>2. redeemer' = [redeemer EXCEPT ![r] = new]
      BY <1>1, <1>2, <2>1
    <2>3. new = [pc |-> "read", channel |-> entry, todo |-> redeemer[r].todo, got |-> redeemer[r].got]
      BY <1>1, <2>1 DEF RedeemerType
    <2>4. new \in RedeemerType
      BY <1>1, <2>3 DEF RedeemerType
    <2> QED BY <1>1, <2>2, <2>3, <2>4
  <1>4. \A q \in Redeemer : redeemer'[q].todo = redeemer[q].todo /\ redeemer'[q].got = redeemer[q].got
    BY <1>3
  <1>5. \A t \in Ticket : InCharge(t) => InCharge(t)'
    <2>1. acts' = acts
      BY DEF ReadChannel
    <2> QED BY <1>4, <2>1 DEF InCharge
  <1>6. redeemer[r].todo = {} /\ redeemer[r].got = <<>>
    BY DEF IInv, Selected, ReadChannel
  <1>7. Selected'
    BY <1>3, <1>4, <1>6 DEF IInv, Selected, ReadChannel
  <1>8. rounds' \in 0 .. MaxRound
    BY RedemptionAssumption DEF IInv, Types, ReadChannel
  <1> QED BY <1>3, <1>5, <1>7, <1>8, RedeemerOnly DEF ReadChannel

\* Selected tickets are stored ones, and the selection replaces nothing.
LEMMA SelectsStep ==
    ASSUME IInv, NEW r \in Redeemer, NEW T \in SUBSET Ticket, Selects(r, T),
           \A t \in T : row[t] # "none"
    PROVE  IInv'
  <1>1. redeemer \in [Redeemer -> RedeemerType]
    BY DEF IInv, Types
  <1>2. redeemer[r].todo = {} /\ redeemer[r].got = <<>>
    BY DEF IInv, Selected, Selects
  <1>3. NoChannel \in Channel
    BY RedemptionAssumption DEF NoChannel, Channel
  <1>4. /\ redeemer'[r] \in RedeemerType /\ redeemer'[r].todo = T /\ redeemer'[r].got = <<>>
        /\ redeemer'[r].pc # "selected" => T = {}
        /\ \A q \in Redeemer : q # r => redeemer'[q] = redeemer[q]
        /\ redeemer' \in [Redeemer -> RedeemerType]
    <2>1. CASE T = {}
      <3>1. redeemer' = [redeemer EXCEPT ![r] = IdleRedeemer] /\ IdleRedeemer \in RedeemerType
        BY <1>3, <2>1 DEF Selects, IdleRedeemer, RedeemerType
      <3> QED BY <1>1, <2>1, <3>1 DEF IdleRedeemer
    <2>2. CASE T # {}
      <3>1. redeemer' = [redeemer EXCEPT ![r].pc = "selected", ![r].channel = NoChannel, ![r].todo = T]
        BY <2>2 DEF Selects
      <3> QED BY <1>1, <1>2, <1>3, <2>2, <3>1 DEF RedeemerType
    <2> QED BY <2>1, <2>2
  <1>5. \A t \in Ticket : InCharge(t) => InCharge(t)'
    <2> SUFFICES ASSUME NEW t \in Ticket, InCharge(t) PROVE InCharge(t)'
      OBVIOUS
    <2>1. CASE \E q \in Redeemer : t \in redeemer[q].todo
                                   \/ \E i \in DOMAIN redeemer[q].got : redeemer[q].got[i] = t
      <3>1. PICK q \in Redeemer : t \in redeemer[q].todo
                                   \/ \E i \in DOMAIN redeemer[q].got : redeemer[q].got[i] = t
        BY <2>1
      <3>2. q # r
        BY <1>2, <3>1
      <3> QED BY <1>4, <3>1, <3>2 DEF InCharge
    <2>2. CASE \E a \in DOMAIN acts : acts[a].ticket = t /\ acts[a].pc # "done"
      BY <2>2 DEF InCharge, Selects
    <2> QED BY <2>1, <2>2 DEF InCharge
  <1>6. Selected'
    <2>1. ASSUME NEW q \in Redeemer
          PROVE  /\ redeemer'[q].pc # "selected" => redeemer'[q].todo = {} /\ redeemer'[q].got = <<>>
                 /\ \A t \in redeemer'[q].todo : row[t] # "none"
                 /\ \A i \in DOMAIN redeemer'[q].got : row[redeemer'[q].got[i]] # "none"
      <3>1. CASE q = r
        BY <1>4, <3>1
      <3>2. CASE q # r
        BY <1>4, <3>2 DEF IInv, Selected
      <3> QED BY <3>1, <3>2
    <2> QED BY <2>1 DEF IInv, Selected, Selects
  <1>7. rounds \in 0 .. MaxRound
    BY DEF IInv, Types
  <1> QED BY <1>4, <1>5, <1>6, <1>7, RedeemerOnly DEF Selects

\* Both ways to redeem select untouched tickets.
LEMMA RedeemTicketsStep ==
    ASSUME IInv, NEW r \in Redeemer,
           redeem_tickets(r) \/ \E t \in Ticket : redeem_ticket(r, t)
    PROVE  IInv'
  <1>1. \A T \in SUBSET Redeemable(r) : T \in SUBSET Ticket /\ \A t \in T : row[t] # "none"
    BY DEF Redeemable
  <1>2. CASE redeem_tickets(r)
    BY <1>1, <1>2, SelectsStep DEF redeem_tickets
  <1>3. ASSUME NEW t \in Ticket, redeem_ticket(r, t) PROVE IInv'
    <2>1. {u \in Redeemable(r) : u.index = t.index} \in SUBSET Redeemable(r)
      OBVIOUS
    <2> QED BY <1>1, <1>3, <2>1, SelectsStep DEF redeem_ticket
  <1> QED BY <1>2, <1>3

\* update_ticket_states gives a row that is stored the state and brings none back.
LEMMA UpdatedRow ==
    ASSUME Types, NEW t \in Ticket, NEW state \in {"Untouched", "BeingRedeemed"},
           row' = Updated(t, state)
    PROVE  /\ row' \in [Ticket -> {"none", "Untouched", "BeingRedeemed", "gone"}]
           /\ RowsKept
           /\ \A u \in Ticket : u # t => row'[u] = row[u]
           /\ \A u \in Ticket : row'[u] = "gone" => row[u] = "gone"
           /\ row'[t] = state \/ row'[t] = row[t]
           /\ Stored(t) => row'[t] = state
  BY DEF Types, Updated, Stored, RowsKept

\* The redeemer that marks a ticket goes on to send it.
LEMMA MarkBeingRedeemedStep ==
    ASSUME IInv, NEW r \in Redeemer, NEW t \in Ticket, MarkBeingRedeemed(r, t) PROVE IInv'
  <1>1. /\ redeemer \in [Redeemer -> RedeemerType] /\ t \in redeemer[r].todo
        /\ row' = Updated(t, "BeingRedeemed") /\ Types /\ acts' = acts
    BY DEF IInv, Types, MarkBeingRedeemed
  <1>2. /\ row' \in [Ticket -> {"none", "Untouched", "BeingRedeemed", "gone"}]
        /\ RowsKept
        /\ \A u \in Ticket : u # t => row'[u] = row[u]
        /\ \A u \in Ticket : row'[u] = "gone" => row[u] = "gone"
    BY <1>1, UpdatedRow
  <1>3. redeemer[r] \in RedeemerType /\ redeemer[r].got \in Seq(Ticket) /\ redeemer[r].todo \subseteq Ticket
    BY <1>1 DEF RedeemerType
  <1>4. PICK new : new = [redeemer[r] EXCEPT !.todo = @ \ {t}, !.got = Append(@, t)]
    OBVIOUS
  <1>5. redeemer' = [redeemer EXCEPT ![r] = new]
    BY <1>1, <1>4 DEF MarkBeingRedeemed
  <1>6. new = [pc |-> redeemer[r].pc, channel |-> redeemer[r].channel,
               todo |-> redeemer[r].todo \ {t}, got |-> Append(redeemer[r].got, t)]
    BY <1>3, <1>4 DEF RedeemerType
  <1>7. /\ Append(redeemer[r].got, t) \in Seq(Ticket)
        /\ Len(redeemer[r].got) \in Nat
        /\ DOMAIN redeemer[r].got = 1 .. Len(redeemer[r].got)
        /\ DOMAIN Append(redeemer[r].got, t) = 1 .. (Len(redeemer[r].got) + 1)
        /\ \A i \in 1 .. Len(redeemer[r].got) : Append(redeemer[r].got, t)[i] = redeemer[r].got[i]
        /\ Append(redeemer[r].got, t)[Len(redeemer[r].got) + 1] = t
    BY <1>3
  <1>8. new \in RedeemerType
    <2>1. redeemer[r].todo \ {t} \in SUBSET Ticket
      BY <1>3
    <2> QED BY <1>3, <1>6, <1>7, <2>1 DEF RedeemerType
  <1>9. /\ redeemer' \in [Redeemer -> RedeemerType]
        /\ redeemer'[r] = new
        /\ \A q \in Redeemer : q # r => redeemer'[q] = redeemer[q]
    BY <1>1, <1>5, <1>8
  <1>10. ActsKept
    BY <1>1 DEF ActsKept
  <1>11. Types'
    BY <1>2, <1>9 DEF IInv, Types, MarkBeingRedeemed
  <1>12. Behind'
    BY <1>10, BehindKept DEF IInv, MarkBeingRedeemed
  <1>13. HandlerInv'
    BY <1>2, <1>10, HandlerKept DEF IInv, MarkBeingRedeemed
  <1>14. new.todo = redeemer[r].todo \ {t} /\ new.got = Append(redeemer[r].got, t) /\ new.pc = redeemer[r].pc
    BY <1>6
  <1>15. \E i \in DOMAIN new.got : new.got[i] = t
    <2>1. Len(redeemer[r].got) + 1 \in 1 .. (Len(redeemer[r].got) + 1)
      BY <1>7
    <2> QED BY <1>7, <1>14, <2>1
  <1>16. ASSUME NEW u \in Ticket, InCharge(u) PROVE InCharge(u)'
    <2>1. CASE \E q \in Redeemer : u \in redeemer[q].todo
                                   \/ \E i \in DOMAIN redeemer[q].got : redeemer[q].got[i] = u
      <3>1. PICK q \in Redeemer : u \in redeemer[q].todo
                                   \/ \E i \in DOMAIN redeemer[q].got : redeemer[q].got[i] = u
        BY <2>1
      <3>2. CASE q # r
        BY <1>9, <3>1, <3>2 DEF InCharge
      <3>3. CASE q = r /\ u \in redeemer[r].todo /\ u # t
        BY <1>9, <1>14, <3>3 DEF InCharge
      <3>4. CASE u = t
        BY <1>9, <1>15, <3>4 DEF InCharge
      <3>5. CASE q = r /\ \E i \in DOMAIN redeemer[q].got : redeemer[q].got[i] = u
        <4>1. PICK i \in 1 .. Len(redeemer[r].got) : redeemer[r].got[i] = u
          BY <1>7, <3>5
        <4>2. i \in DOMAIN new.got /\ new.got[i] = u
          BY <1>7, <1>14, <4>1
        <4> QED BY <1>9, <4>2 DEF InCharge
      <3> QED BY <3>1, <3>2, <3>3, <3>4, <3>5
    <2>2. CASE \E a \in DOMAIN acts : acts[a].ticket = u /\ acts[a].pc # "done"
      BY <1>1, <2>2 DEF InCharge
    <2> QED BY <1>16, <2>1, <2>2 DEF InCharge
  <1>17. InCharge(t)'
    BY <1>9, <1>15 DEF InCharge
  <1>18. NoOrphan'
    <2>1. \A u \in Ticket : row'[u] = "BeingRedeemed" => row[u] = "BeingRedeemed" \/ InCharge(u)'
      BY <1>2, <1>17
    <2> QED BY <1>16, <2>1, ChargeKept DEF IInv, MarkBeingRedeemed
  <1>19. Selected'
    <2>1. redeemer[r].pc = "selected" /\ row[t] # "none"
      BY <1>1 DEF IInv, Selected
    <2>2. \A u \in Ticket : row[u] # "none" => row'[u] # "none"
      BY <1>2 DEF RowsKept
    <2>3. ASSUME NEW q \in Redeemer
          PROVE  /\ redeemer'[q].pc # "selected" => redeemer'[q].todo = {} /\ redeemer'[q].got = <<>>
                 /\ \A u \in redeemer'[q].todo : row'[u] # "none"
                 /\ \A i \in DOMAIN redeemer'[q].got : row'[redeemer'[q].got[i]] # "none"
      <3>1. CASE q # r
        <4>1. redeemer'[q] = redeemer[q] /\ redeemer[q].todo \subseteq Ticket
              /\ \A i \in DOMAIN redeemer[q].got : redeemer[q].got[i] \in Ticket
          BY <1>1, <1>9, <3>1 DEF RedeemerType
        <4> QED BY <2>2, <4>1 DEF IInv, Selected
      <3>2. CASE q = r
        <4>1. \A u \in redeemer[r].todo : row'[u] # "none"
          BY <1>3, <2>2 DEF IInv, Selected
        <4>2. ASSUME NEW i \in 1 .. Len(redeemer[r].got) + 1 PROVE row'[new.got[i]] # "none"
          <5>1. CASE i <= Len(redeemer[r].got)
            <6>1. i \in 1 .. Len(redeemer[r].got) /\ new.got[i] = redeemer[r].got[i]
                  /\ redeemer[r].got[i] \in Ticket
              BY <1>3, <1>7, <1>14, <5>1
            <6>2. row[redeemer[r].got[i]] # "none"
              BY <1>7, <6>1 DEF IInv, Selected
            <6> QED BY <2>2, <6>1, <6>2
          <5>2. CASE i = Len(redeemer[r].got) + 1
            BY <1>7, <1>14, <2>1, <2>2, <5>2
          <5> QED BY <1>7, <5>1, <5>2
        <4> QED BY <1>7, <1>9, <1>14, <2>1, <3>2, <4>1, <4>2
      <3> QED BY <3>1, <3>2
    <2>4. \A a \in DOMAIN acts : row'[acts[a].ticket] # "none"
      BY <1>1, <2>2, ActParts DEF IInv, Selected
    <2> QED BY <1>1, <2>3, <2>4 DEF Selected
  <1>20. Dropped' /\ RedeemedIsPaid'
    BY <1>2 DEF IInv, Dropped, RedeemedIsPaid, MarkBeingRedeemed
  <1> QED BY <1>11, <1>12, <1>13, <1>18, <1>19, <1>20 DEF IInv

\* The action takes over the ticket from the redeemer.
LEMMA SendStep ==
    ASSUME IInv, NEW r \in Redeemer, Send(r) PROVE IInv'
  <1> DEFINE act == [ticket |-> Head(redeemer[r].got), pc |-> "queued"]
  <1>1. /\ Types /\ redeemer \in [Redeemer -> RedeemerType]
        /\ redeemer[r].todo = {} /\ redeemer[r].got # <<>>
        /\ acts' = Append(acts, act) /\ acts \in Seq(ActType)
    BY DEF IInv, Types, Send
  <1>2. redeemer[r] \in RedeemerType /\ redeemer[r].got \in Seq(Ticket)
    BY <1>1 DEF RedeemerType
  <1>3. /\ Len(redeemer[r].got) \in Nat /\ Len(redeemer[r].got) >= 1
        /\ Head(redeemer[r].got) = redeemer[r].got[1] /\ redeemer[r].got[1] \in Ticket
        /\ Tail(redeemer[r].got) \in Seq(Ticket)
        /\ DOMAIN redeemer[r].got = 1 .. Len(redeemer[r].got)
        /\ DOMAIN Tail(redeemer[r].got) = 1 .. (Len(redeemer[r].got) - 1)
        /\ \A i \in 1 .. Len(redeemer[r].got) - 1 : Tail(redeemer[r].got)[i] = redeemer[r].got[i + 1]
    BY <1>1, <1>2
  <1>4. act \in ActType
    BY <1>3 DEF ActType
  <1>5. /\ acts' \in Seq(ActType) /\ Len(acts) \in Nat
        /\ DOMAIN acts = 1 .. Len(acts) /\ DOMAIN acts' = 1 .. (Len(acts) + 1)
        /\ \A a \in 1 .. Len(acts) : acts'[a] = acts[a]
        /\ acts'[Len(acts) + 1] = act
    <2> HIDE DEF act
    <2> QED BY <1>1, <1>4
  <1>6. PICK new : new = IF Len(redeemer[r].got) = 1 THEN IdleRedeemer
                         ELSE [redeemer[r] EXCEPT !.got = Tail(@)]
    OBVIOUS
  <1>7. redeemer' = [redeemer EXCEPT ![r] = new]
    <2>1. CASE Len(redeemer[r].got) = 1
      BY <1>6, <2>1 DEF Send
    <2>2. CASE Len(redeemer[r].got) # 1
      BY <1>6, <2>2 DEF Send
    <2> QED BY <2>1, <2>2
  <1>8. /\ new \in RedeemerType /\ new.todo = {}
        /\ Len(redeemer[r].got) = 1 => new = IdleRedeemer
        /\ Len(redeemer[r].got) # 1 => new.got = Tail(redeemer[r].got) /\ new.pc = redeemer[r].pc
    <2>1. CASE Len(redeemer[r].got) = 1
      BY <1>6, <2>1, RedemptionAssumption DEF IdleRedeemer, RedeemerType, NoChannel, Channel
    <2>2. CASE Len(redeemer[r].got) # 1
      <3>1. new = [pc |-> redeemer[r].pc, channel |-> redeemer[r].channel,
                   todo |-> redeemer[r].todo, got |-> Tail(redeemer[r].got)]
        BY <1>2, <1>6, <2>2 DEF RedeemerType
      <3> QED BY <1>1, <1>2, <1>3, <2>2, <3>1 DEF RedeemerType
    <2> QED BY <2>1, <2>2
  <1>9. /\ redeemer' \in [Redeemer -> RedeemerType]
        /\ redeemer'[r] = new
        /\ \A q \in Redeemer : q # r => redeemer'[q] = redeemer[q]
    BY <1>1, <1>7, <1>8
  <1>10. RowsKept /\ ActsKept
    BY <1>5 DEF RowsKept, ActsKept, Send
  <1>11. Types'
    <2>1. \A i \in DOMAIN mempool : mempool[i] \in DOMAIN acts'
      BY <1>5 DEF IInv, Types
    <2> QED BY <1>5, <1>9, <2>1 DEF IInv, Types, Send
  <1>12. Behind'
    BY <1>10, BehindKept DEF IInv, Send
  <1>13. HandlerInv'
    BY <1>10, HandlerKept DEF IInv, Send
  <1>14. ASSUME NEW i \in DOMAIN redeemer[r].got, i # 1
         PROVE  i - 1 \in DOMAIN new.got /\ new.got[i - 1] = redeemer[r].got[i]
    <2>1. i \in 1 .. Len(redeemer[r].got) /\ Len(redeemer[r].got) # 1
      <3>1. \A n \in Nat : \A k \in 1 .. n : k # 1 => n # 1
        OBVIOUS
      <3> QED BY <1>3, <1>14, <3>1
    <2>2. i - 1 \in 1 .. Len(redeemer[r].got) - 1 /\ (i - 1) + 1 = i
      BY <1>3, <1>14, <2>1
    <2> QED BY <1>3, <1>8, <2>1, <2>2
  <1>15. ASSUME NEW u \in Ticket, u = redeemer[r].got[1] PROVE InCharge(u)'
    <2>1. Len(acts) + 1 \in DOMAIN acts' /\ acts'[Len(acts) + 1] = act
      BY <1>5
    <2>2. act.ticket = u /\ act.pc # "done"
      BY <1>3, <1>15
    <2> HIDE DEF act
    <2> QED BY <2>1, <2>2 DEF InCharge
  <1>16. ASSUME NEW u \in Ticket, InCharge(u) PROVE InCharge(u)'
    <2>1. CASE \E q \in Redeemer : u \in redeemer[q].todo
                                   \/ \E i \in DOMAIN redeemer[q].got : redeemer[q].got[i] = u
      <3>1. PICK q \in Redeemer : u \in redeemer[q].todo
                                   \/ \E i \in DOMAIN redeemer[q].got : redeemer[q].got[i] = u
        BY <2>1
      <3>2. CASE q # r
        BY <1>9, <3>1, <3>2 DEF InCharge
      <3>3. CASE q = r
        <4>1. PICK i \in DOMAIN redeemer[r].got : redeemer[r].got[i] = u
          BY <1>1, <3>1, <3>3
        <4>2. CASE i = 1
          BY <1>15, <4>1, <4>2
        <4>3. CASE i # 1
          BY <1>9, <1>14, <4>1, <4>3 DEF InCharge
        <4> QED BY <4>2, <4>3
      <3> QED BY <3>2, <3>3
    <2>2. CASE \E a \in DOMAIN acts : acts[a].ticket = u /\ acts[a].pc # "done"
      <3>1. PICK a \in DOMAIN acts : acts[a].ticket = u /\ acts[a].pc # "done"
        BY <2>2
      <3>2. a \in DOMAIN acts' /\ acts'[a] = acts[a]
        BY <1>5
      <3> QED BY <3>1, <3>2 DEF InCharge
    <2> QED BY <1>16, <2>1, <2>2 DEF InCharge
  <1>17. NoOrphan'
    BY <1>16, ChargeKept DEF IInv, Send
  <1>18. Selected'
    <2>1. redeemer[r].pc = "selected" /\ row' = row
      BY <1>1 DEF IInv, Selected, Send
    <2>2. \A i \in DOMAIN redeemer[r].got : row[redeemer[r].got[i]] # "none"
      BY DEF IInv, Selected
    <2>3. ASSUME NEW q \in Redeemer
          PROVE  /\ redeemer'[q].pc # "selected" => redeemer'[q].todo = {} /\ redeemer'[q].got = <<>>
                 /\ \A u \in redeemer'[q].todo : row[u] # "none"
                 /\ \A i \in DOMAIN redeemer'[q].got : row[redeemer'[q].got[i]] # "none"
      <3>1. CASE q # r
        BY <1>9, <3>1 DEF IInv, Selected
      <3>2. CASE q = r /\ Len(redeemer[r].got) = 1
        BY <1>8, <1>9, <3>2 DEF IdleRedeemer
      <3>3. CASE q = r /\ Len(redeemer[r].got) # 1
        <4>1. ASSUME NEW i \in DOMAIN new.got PROVE row[new.got[i]] # "none"
          <5>1. i \in 1 .. Len(redeemer[r].got) - 1 /\ new.got[i] = redeemer[r].got[i + 1]
            BY <1>3, <1>8, <3>3
          <5>2. i + 1 \in DOMAIN redeemer[r].got
            BY <1>3, <5>1
          <5> QED BY <2>2, <5>1, <5>2
        <4> QED BY <1>8, <1>9, <2>1, <3>3, <4>1
      <3> QED BY <3>1, <3>2, <3>3
    <2>4. \A a \in DOMAIN acts' : row[acts'[a].ticket] # "none"
      <3> SUFFICES ASSUME NEW a \in DOMAIN acts' PROVE row[acts'[a].ticket] # "none"
        OBVIOUS
      <3>1. CASE a \in 1 .. Len(acts)
        BY <1>5, <3>1 DEF IInv, Selected
      <3>2. CASE a = Len(acts) + 1
        <4>1. 1 \in DOMAIN redeemer[r].got
          BY <1>3
        <4> QED BY <1>3, <1>5, <2>2, <3>2, <4>1
      <3> QED BY <1>5, <3>1, <3>2
    <2> QED BY <2>1, <2>3, <2>4 DEF Selected
  <1> QED BY <1>11, <1>12, <1>13, <1>17, <1>18 DEF IInv, Dropped, RedeemedIsPaid, Send

--------------------------------------------------------------------------------
(* Actions *)

\* A step of an action changes its progress and nothing else of it.
LEMMA ActStep ==
    ASSUME Types, NEW a \in DOMAIN acts, NEW from,
           NEW to \in {"queued", "submitted", "waiting", "failed", "done"}, Step(a, from, to)
    PROVE  /\ acts' \in Seq(ActType) /\ DOMAIN acts' = DOMAIN acts /\ ActsKept
           /\ acts[a].pc = from /\ acts'[a].pc = to
           /\ \A b \in DOMAIN acts : b # a => acts'[b] = acts[b]
  <1>1. acts \in Seq(ActType) /\ acts[a] \in ActType /\ acts' = [acts EXCEPT ![a].pc = to] /\ acts[a].pc = from
    BY ActParts DEF Types, Step
  <1>2. PICK new : new = [acts[a] EXCEPT !.pc = to]
    OBVIOUS
  <1>3. acts' = [acts EXCEPT ![a] = new]
    BY <1>1, <1>2
  <1>4. new = [ticket |-> acts[a].ticket, pc |-> to] /\ new \in ActType
    BY <1>1, <1>2 DEF ActType
  <1>5. acts' \in Seq(ActType) /\ DOMAIN acts' = DOMAIN acts
    <2>1. a \in 1 .. Len(acts)
      BY <1>1
    <2>2. acts' \in Seq(ActType)
      <3>1. acts \in Seq(ActType) /\ new \in ActType
        BY <1>1, <1>4
      <3>2. [acts EXCEPT ![a] = new] \in Seq(ActType)
        BY <2>1, <3>1, ExceptSeq
      <3> QED BY <1>3, <3>2
    <2>3. DOMAIN acts' = DOMAIN acts
      BY <1>3
    <2> QED BY <2>2, <2>3
  <1>6. acts'[a] = new /\ \A b \in DOMAIN acts : b # a => acts'[b] = acts[b]
    BY <1>3
  <1>7. ActsKept
    BY <1>4, <1>5, <1>6 DEF ActsKept
  <1> QED BY <1>1, <1>4, <1>5, <1>6, <1>7

\* An action that is not done afterwards, or whose ticket is no longer being
\* redeemed, leaves no orphan.
LEMMA ActNoOrphan ==
    ASSUME IInv, NEW a \in DOMAIN acts, NEW from,
           NEW to \in {"queued", "submitted", "waiting", "failed", "done"}, Step(a, from, to),
           UNCHANGED <<redeemer, crashes>>,
           \A t \in Ticket : row'[t] = "BeingRedeemed" => row[t] = "BeingRedeemed",
           to # "done" \/ row'[acts[a].ticket] # "BeingRedeemed"
    PROVE  NoOrphan'
  <1>1. /\ DOMAIN acts' = DOMAIN acts /\ ActsKept /\ acts'[a].pc = to
        /\ \A b \in DOMAIN acts : b # a => acts'[b] = acts[b]
    BY ActStep DEF IInv
  <1>2. ASSUME NEW t \in Ticket, InCharge(t), row'[t] = "BeingRedeemed" PROVE InCharge(t)'
    <2>1. CASE \E q \in Redeemer : t \in redeemer[q].todo
                                   \/ \E i \in DOMAIN redeemer[q].got : redeemer[q].got[i] = t
      BY <2>1 DEF InCharge
    <2>2. CASE \E b \in DOMAIN acts : acts[b].ticket = t /\ acts[b].pc # "done"
      <3>1. PICK b \in DOMAIN acts : acts[b].ticket = t /\ acts[b].pc # "done"
        BY <2>2
      <3>2. b \in DOMAIN acts' /\ acts'[b].ticket = t /\ acts'[b].pc # "done"
        BY <1>1, <1>2, <3>1 DEF ActsKept
      <3> QED BY <3>2 DEF InCharge
    <2> QED BY <1>2, <2>1, <2>2 DEF InCharge
  <1> QED BY <1>2, ChargeKept DEF IInv

\* The steps of an action that leave its ticket alone.
LEMMA ActOnly ==
    ASSUME IInv, NEW a \in DOMAIN acts, NEW from,
           NEW to \in {"queued", "submitted", "waiting", "failed"}, Step(a, from, to),
           mempool' = mempool \/ mempool' = Append(mempool, a),
           UNCHANGED <<onchain, paid, logs, handler, entry, row, stats, redeemer, node, rounds, crashes>>
    PROVE  IInv'
  <1>1. acts' \in Seq(ActType) /\ DOMAIN acts' = DOMAIN acts /\ ActsKept
    BY ActStep DEF IInv
  <1>2. RowsKept
    BY DEF RowsKept
  <1>3. mempool' \in Seq(Nat) /\ \A i \in DOMAIN mempool' : mempool'[i] \in DOMAIN acts
    <2>1. mempool \in Seq(Nat) /\ \A i \in DOMAIN mempool : mempool[i] \in DOMAIN acts
      BY DEF IInv, Types
    <2>2. a \in Nat
      BY DEF IInv, Types
    <2> QED BY <2>1, <2>2
  <1>4. Types'
    BY <1>1, <1>3 DEF IInv, Types
  <1>5. Behind'
    BY <1>1, BehindKept DEF IInv
  <1>6. HandlerInv'
    BY <1>1, <1>2, HandlerKept DEF IInv
  <1>7. Selected'
    BY <1>1, <1>2, SelectedKept DEF IInv
  <1>8. NoOrphan'
    BY ActNoOrphan
  <1> QED BY <1>4, <1>5, <1>6, <1>7, <1>8 DEF IInv, Dropped, RedeemedIsPaid

\* An action that fails makes its ticket redeemable again.
LEMMA ResetTicketStep ==
    ASSUME IInv, NEW a \in DOMAIN acts, ResetTicket(a) PROVE IInv'
  <1>1. /\ acts' \in Seq(ActType) /\ DOMAIN acts' = DOMAIN acts /\ ActsKept
        /\ acts[a].ticket \in Ticket /\ row' = Updated(acts[a].ticket, "Untouched")
    BY ActStep, ActParts DEF IInv, ResetTicket
  <1>2. /\ row' \in [Ticket -> {"none", "Untouched", "BeingRedeemed", "gone"}]
        /\ RowsKept
        /\ \A u \in Ticket : u # acts[a].ticket => row'[u] = row[u]
        /\ \A u \in Ticket : row'[u] = "gone" => row[u] = "gone"
        /\ row'[acts[a].ticket] \in {"Untouched", row[acts[a].ticket]}
        /\ Stored(acts[a].ticket) => row'[acts[a].ticket] = "Untouched"
    BY <1>1, UpdatedRow DEF IInv
  <1>3. Types'
    BY <1>1, <1>2 DEF IInv, Types, ResetTicket
  <1>4. Behind'
    BY <1>1, BehindKept DEF IInv, ResetTicket
  <1>5. HandlerInv'
    BY <1>1, <1>2, HandlerKept DEF IInv, ResetTicket
  <1>6. Selected'
    BY <1>1, <1>2, SelectedKept DEF IInv, ResetTicket
  <1>7. NoOrphan'
    <2>1. row'[acts[a].ticket] # "BeingRedeemed"
      BY <1>2 DEF Stored
    <2>2. \A t \in Ticket : row'[t] = "BeingRedeemed" => row[t] = "BeingRedeemed"
      BY <1>2, <2>1
    <2> QED BY <2>1, <2>2, ActNoOrphan DEF ResetTicket
  <1>8. Dropped' /\ RedeemedIsPaid'
    BY <1>2 DEF IInv, Dropped, RedeemedIsPaid, ResetTicket
  <1> QED BY <1>3, <1>4, <1>5, <1>6, <1>7, <1>8 DEF IInv

\* Every step of an action preserves the invariant.
LEMMA ExecuteStep ==
    ASSUME IInv, NEW a \in DOMAIN acts, Execute(a) PROVE IInv'
  <1>1. CASE Submit(a)
    BY <1>1, ActOnly DEF Submit
  <1>2. CASE SubmitFails(a)
    BY <1>2, ActOnly DEF SubmitFails
  <1>3. CASE register_expectation(a)
    BY <1>3, ActOnly DEF register_expectation
  <1>4. CASE Timeout(a)
    BY <1>4, ActOnly DEF Timeout
  <1> QED BY <1>1, <1>2, <1>3, <1>4, ResetTicketStep DEF Execute

--------------------------------------------------------------------------------
(* The chain *)

\* A log on chain moves the channel on; what was dropped stays past.
LEMMA ChainLogStep ==
    ASSUME IInv, NEW l \in LogType, logs' = Append(logs, l), onchain' \in Channel,
           paid \subseteq paid', paid' \subseteq Ticket,
           mempool' \in Seq(Nat), \A i \in DOMAIN mempool' : mempool'[i] \in DOMAIN acts,
           Follows(onchain, l, onchain'), Origin(l, onchain)',
           UNCHANGED <<handler, entry, row, stats, redeemer, acts, node, rounds, crashes>>
    PROVE  IInv'
  <1>1. Types /\ Behind /\ onchain \in Channel /\ logs \in Seq(LogType)
    BY DEF IInv, Types
  <1>2. logs' \in Seq(LogType)
    BY <1>1
  <1>3. Types'
    BY <1>2 DEF IInv, Types
  <1>4. Behind'
    BY <1>1, BehindAppend
  <1>5. Selected' /\ HandlerInv' /\ NoOrphan' /\ RedeemedIsPaid'
    BY ChainStepKept DEF IInv
  <1>6. NotAfter(onchain, onchain')
    BY <1>1, StateOrder
  <1>7. Dropped'
    <2> SUFFICES ASSUME NEW t \in Ticket, row[t] = "gone" PROVE Past(t, onchain')
      BY DEF Dropped
    <2>1. Past(t, onchain)
      BY DEF IInv, Dropped
    <2> QED BY <1>1, <1>6, <2>1, StateOrder
  <1> QED BY <1>3, <1>4, <1>5, <1>7 DEF IInv

\* A (re)opening starts a new incarnation.
LEMMA ChainOpenStep ==
    ASSUME IInv, ChainOpen PROVE IInv'
  <1>1. onchain \in Channel /\ mempool \in Seq(Nat) /\ paid \subseteq Ticket
        /\ \A i \in DOMAIN mempool : mempool[i] \in DOMAIN acts
    BY DEF IInv, Types
  <1>2. /\ onchain' = [epoch |-> onchain.epoch + 1, open |-> TRUE, index |-> 0]
        /\ ~onchain.open /\ onchain.epoch < MaxEpoch
    BY DEF ChainOpen
  <1>3. onchain' \in Channel
    BY <1>1, <1>2, RedemptionAssumption DEF Channel
  <1>4. Follows(onchain, Opened, onchain')
    BY <1>2 DEF Follows
  <1>5. Origin(Opened, onchain)'
    BY LogKinds DEF Origin, Opened
  <1> QED BY <1>1, <1>3, <1>4, <1>5, LogKinds, ChainLogStep DEF ChainOpen

\* A closure ends it.
LEMMA ChainCloseStep ==
    ASSUME IInv, ChainClose PROVE IInv'
  <1>1. onchain \in Channel /\ mempool \in Seq(Nat) /\ paid \subseteq Ticket
        /\ \A i \in DOMAIN mempool : mempool[i] \in DOMAIN acts
    BY DEF IInv, Types
  <1>2. onchain' = [epoch |-> onchain.epoch, open |-> FALSE, index |-> 0] /\ onchain.open
    BY <1>1 DEF ChainClose, Channel
  <1>3. onchain' \in Channel
    BY <1>1, <1>2 DEF Channel
  <1>4. Follows(onchain, Closed, onchain')
    BY <1>2 DEF Follows
  <1>5. Origin(Closed, onchain)'
    BY LogKinds DEF Origin, Closed
  <1> QED BY <1>1, <1>3, <1>4, <1>5, LogKinds, ChainLogStep DEF ChainClose

\* The contract pays a ticket that is not behind the channel's index, and moves
\* the index to where the ticket ends.
LEMMA ChainRedeemStep ==
    ASSUME IInv, ChainRedeem PROVE IInv'
  <1>1. onchain \in Channel /\ mempool \in Seq(Nat) /\ mempool # <<>> /\ paid \subseteq Ticket
        /\ (\A i \in DOMAIN mempool : mempool[i] \in DOMAIN acts) /\ Types
    BY DEF IInv, Types, ChainRedeem
  <1>2. PICK a : a = Head(mempool)
    OBVIOUS
  <1>3. a \in DOMAIN acts /\ a \in Nat
    BY <1>1, <1>2
  <1>4. PICK t : t = acts[a].ticket
    OBVIOUS
  <1>5. t \in Ticket /\ t.epoch \in Nat /\ t.index \in Nat /\ t.offset \in Nat /\ t.offset >= 1
    <2>1. t \in Ticket
      BY <1>1, <1>3, <1>4, ActParts
    <2> QED BY <2>1, TicketParts
  <1>6. /\ Acceptable(t)
        /\ onchain' = [onchain EXCEPT !.index = t.index + t.offset]
        /\ paid' = paid \cup {t}
        /\ logs' = Append(logs, Redeemed(t.index + t.offset, a))
        /\ mempool' = Tail(mempool)
    BY <1>2, <1>4 DEF ChainRedeem
  <1>7. onchain.open /\ onchain.open \in BOOLEAN /\ t.epoch = onchain.epoch
        /\ onchain.index \in Nat /\ onchain.index <= t.index
    BY <1>1, <1>5, <1>6, ChannelParts DEF Acceptable
  <1>8. onchain' = [epoch |-> onchain.epoch, open |-> TRUE, index |-> t.index + t.offset]
    BY <1>1, <1>6, <1>7 DEF Channel
  <1>9. onchain' \in Channel
    BY <1>1, <1>5, <1>8 DEF Channel
  <1>10. PICK l : l = Redeemed(t.index + t.offset, a)
    OBVIOUS
  <1>11. l \in LogType /\ l.name = "TicketRedeemed" /\ l.index = t.index + t.offset /\ l.act = a
    BY <1>3, <1>5, <1>10 DEF Redeemed, LogType
  <1>12. Follows(onchain, l, onchain')
    <2>1. onchain.index < l.index
      BY <1>5, <1>7, <1>11
    <2> QED BY <1>7, <1>8, <1>11, <2>1 DEF Follows
  <1>13. acts' = acts
    BY DEF ChainRedeem
  <1>14. Origin(l, onchain)'
    <2>1. onchain'.epoch = t.epoch
      BY <1>7, <1>8
    <2> QED BY <1>3, <1>4, <1>6, <1>11, <1>13, <2>1 DEF Origin
  <1>15. mempool' \in Seq(Nat) /\ \A i \in DOMAIN mempool' : mempool'[i] \in DOMAIN acts
    BY <1>1, <1>6
  <1>16. paid \subseteq paid' /\ paid' \subseteq Ticket
    BY <1>1, <1>5, <1>6
  <1>17. UNCHANGED <<handler, entry, row, stats, redeemer, acts, node, rounds, crashes>>
    BY DEF ChainRedeem
  <1> QED BY <1>6, <1>9, <1>10, <1>11, <1>12, <1>14, <1>15, <1>16, <1>17, ChainLogStep

\* A transaction that fails only leaves the mempool.
LEMMA ChainRevertStep ==
    ASSUME IInv, ChainRevert PROVE IInv'
  <1>1. mempool \in Seq(Nat) /\ mempool # <<>> /\ \A i \in DOMAIN mempool : mempool[i] \in DOMAIN acts
    BY DEF IInv, Types, ChainRevert
  <1>2. mempool' \in Seq(Nat) /\ \A i \in DOMAIN mempool' : mempool'[i] \in DOMAIN acts
    BY <1>1 DEF ChainRevert
  <1>3. Types'
    BY <1>2 DEF IInv, Types, ChainRevert
  <1>4. Behind'
    <2>1. ActsKept
      BY DEF ActsKept, ChainRevert
    <2> QED BY <2>1, BehindKept DEF IInv, ChainRevert
  <1>5. Selected' /\ HandlerInv' /\ NoOrphan' /\ RedeemedIsPaid'
    BY ChainStepKept DEF IInv, ChainRevert
  <1> QED BY <1>3, <1>4, <1>5 DEF IInv, Dropped, ChainRevert

--------------------------------------------------------------------------------
(* The indexer *)

\* Two tickets of one incarnation that end at the same index are the same.
LEMMA SameEnd ==
    ASSUME NEW t \in Ticket, NEW u \in Ticket, t.epoch = u.epoch,
           t.index + t.offset = u.index + u.offset
    PROVE  t = u
  <1>1. t.index \in Nat /\ t.offset \in Nat /\ t.offset >= 1 /\ u.index \in Nat /\ u.offset \in Nat /\ u.offset >= 1
    BY TicketParts
  <1> QED BY <1>1, RedemptionAssumption

\* Tickets that are past may be moved into the statistics, the paid ones as
\* redeemed.
LEMMA MarkStep ==
    ASSUME IInv, NEW T \in SUBSET Ticket, NEW marker \in {"redeemed", "neglected"},
           \A t \in T : Past(t, onchain),
           marker = "redeemed" => T \subseteq paid,
           MarkTicketsAs(T, marker), HandlerInv',
           handler' \in [pc : {"idle", "found", "marked", "handled"}, found : SUBSET Ticket],
           UNCHANGED <<onchain, paid, mempool, logs, entry, redeemer, acts, node, rounds, crashes>>
    PROVE  IInv'
  <1>1. row' = [t \in Ticket |-> IF t \in T THEN "gone" ELSE row[t]]
        /\ row \in [Ticket -> {"none", "Untouched", "BeingRedeemed", "gone"}]
        /\ stats \in [redeemed : SUBSET Ticket, neglected : SUBSET Ticket]
        /\ stats' = [stats EXCEPT ![marker] = @ \cup T]
    BY DEF IInv, Types, MarkTicketsAs
  <1>2. row' \in [Ticket -> {"none", "Untouched", "BeingRedeemed", "gone"}]
    BY <1>1
  <1>3. RowsKept /\ ActsKept
    BY <1>1 DEF RowsKept, ActsKept
  <1>4. stats' \in [redeemed : SUBSET Ticket, neglected : SUBSET Ticket] /\ stats'.redeemed \subseteq paid
    <2>1. stats.redeemed \subseteq paid
      BY DEF IInv, RedeemedIsPaid
    <2>2. CASE marker = "redeemed"
      BY <1>1, <2>1, <2>2
    <2>3. CASE marker = "neglected"
      BY <1>1, <2>1, <2>3
    <2> QED BY <2>2, <2>3
  <1>5. Types'
    BY <1>2, <1>4 DEF IInv, Types
  <1>6. Behind'
    BY <1>3, BehindKept DEF IInv
  <1>7. Selected'
    BY <1>3, SelectedKept DEF IInv
  <1>8. NoOrphan'
    <2>1. \A t \in Ticket : row'[t] = "BeingRedeemed" => row[t] = "BeingRedeemed"
      BY <1>1
    <2>2. \A t \in Ticket : InCharge(t) => InCharge(t)'
      BY DEF InCharge
    <2> QED BY <2>1, <2>2, ChargeKept DEF IInv
  <1>9. Dropped'
    <2> SUFFICES ASSUME NEW t \in Ticket, row'[t] = "gone" PROVE Past(t, onchain)
      BY DEF Dropped
    <2> QED BY <1>1 DEF IInv, Dropped
  <1> QED BY <1>4, <1>5, <1>6, <1>7, <1>8, <1>9 DEF IInv, RedeemedIsPaid

\* Once the chain has seen the first pending log, the incarnation that it ends
\* is past.
LEMMA EndedIsPast ==
    ASSUME IInv, logs # <<>>, log \in {Opened, Closed}, NEW t \in Ticket, t.epoch = entry.epoch
    PROVE  Past(t, onchain)
  <1>1. PICK s \in Channel : Follows(entry, log, s) /\ NotAfter(s, onchain)
    BY FirstLog DEF IInv
  <1>2. onchain \in Channel /\ entry \in Channel
    BY DEF IInv, Types
  <1>3. Past(t, s)
    <2>1. CASE s = [epoch |-> entry.epoch + 1, open |-> TRUE, index |-> 0]
      <3>1. s.epoch = entry.epoch + 1 /\ entry.epoch \in Nat
        BY <1>2, <2>1, ChannelParts
      <3> QED BY <3>1 DEF Past
    <2>2. CASE s = [epoch |-> entry.epoch, open |-> FALSE, index |-> 0]
      BY <2>2 DEF Past
    <2> QED BY <1>1, <2>1, <2>2, LogKinds DEF Follows
  <1> QED BY <1>1, <1>2, <1>3, StateOrder

\* Once the chain has seen the redemption, tickets before its index are past.
LEMMA PassedIsPast ==
    ASSUME IInv, logs # <<>>, log.name = "TicketRedeemed", NEW t \in Ticket,
           t.epoch = entry.epoch, t.index < log.index
    PROVE  Past(t, onchain)
  <1>1. PICK s \in Channel : Follows(entry, log, s) /\ NotAfter(s, onchain)
    BY FirstLog DEF IInv
  <1>2. onchain \in Channel
    BY DEF IInv, Types
  <1>3. s = [epoch |-> entry.epoch, open |-> TRUE, index |-> log.index]
    BY <1>1, LogKinds DEF Follows
  <1>4. Past(t, s)
    BY <1>3 DEF Past
  <1> QED BY <1>1, <1>2, <1>4, StateOrder

\* The ticket a redemption log was written for: it is of the incarnation of the
\* entry, it ends where the log says, it was paid and is in the database's past.
LEMMA LoggedTicket ==
    ASSUME IInv, logs # <<>>, log.name = "TicketRedeemed"
    PROVE  /\ log.act \in DOMAIN acts
           /\ acts[log.act].ticket \in Ticket
           /\ acts[log.act].ticket \in paid
           /\ acts[log.act].ticket.epoch = entry.epoch
           /\ acts[log.act].ticket.index + acts[log.act].ticket.offset = log.index
           /\ row[acts[log.act].ticket] # "none"
  <1>1. PICK s \in Channel : Follows(entry, log, s) /\ Origin(log, s)
    BY FirstLog DEF IInv
  <1>2. s = [epoch |-> entry.epoch, open |-> TRUE, index |-> log.index]
    BY <1>1, LogKinds DEF Follows
  <1>3. /\ log.act \in DOMAIN acts /\ acts[log.act].ticket \in paid
        /\ acts[log.act].ticket.epoch = s.epoch
        /\ acts[log.act].ticket.index + acts[log.act].ticket.offset = log.index
    BY <1>1 DEF Origin
  <1>4. acts[log.act].ticket \in Ticket
    BY <1>3, ActParts DEF IInv
  <1>5. row[acts[log.act].ticket] # "none"
    BY <1>3 DEF IInv, Selected
  <1> QED BY <1>2, <1>3, <1>4, <1>5

\* An opening and a closure drop the tickets of the incarnation that is over.
LEMMA HandleOpenedClosedStep ==
    ASSUME IInv, HandleOpened \/ HandleClosed PROVE IInv'
  <1> DEFINE T == {t \in Ticket : Stored(t) /\ t.epoch = entry.epoch}
  <1>1. /\ logs # <<>> /\ log \in {Opened, Closed} /\ MarkTicketsAs(T, "neglected")
        /\ handler' = [handler EXCEPT !.pc = "handled"]
        /\ handler \in [pc : {"idle", "found", "marked", "handled"}, found : SUBSET Ticket]
        /\ UNCHANGED <<onchain, paid, mempool, logs, entry, redeemer, acts, node, rounds, crashes>>
    BY DEF IInv, Types, HandleOpened, HandleClosed, NeglectIncarnation
  <1>2. /\ handler' \in [pc : {"idle", "found", "marked", "handled"}, found : SUBSET Ticket]
        /\ handler'.pc = "handled"
    BY <1>1
  <1>3. log' = log /\ log.name # "TicketRedeemed"
    BY <1>1, LogKinds DEF log
  <1>4. HandlerInv'
    BY <1>1, <1>2, <1>3 DEF HandlerInv
  <1>5. T \in SUBSET Ticket /\ \A t \in T : Past(t, onchain)
    BY <1>1, EndedIsPast
  <1> HIDE DEF T
  <1> QED BY <1>1, <1>2, <1>4, <1>5, MarkStep

\* Finding the redeemed ticket changes no row.
LEMMA FindRedeemedStep ==
    ASSUME IInv, FindRedeemed PROVE IInv'
  <1>1. /\ handler' = [pc |-> "found", found |-> Matching]
        /\ logs # <<>> /\ log.name = "TicketRedeemed"
    BY DEF FindRedeemed
  <1>2. Matching \in SUBSET Ticket /\ \A t \in Matching : t.epoch = entry.epoch /\ t.index + t.offset = log.index
    BY DEF Matching
  <1>3. log' = log
    BY DEF log, FindRedeemed
  <1>4. Types'
    BY <1>1, <1>2 DEF IInv, Types, FindRedeemed
  <1>5. HandlerInv'
    <2>1. handler'.pc = "found" /\ handler'.found = Matching
      BY <1>1
    <2>2. entry' = entry /\ logs' = logs
      BY DEF FindRedeemed
    <2> QED BY <1>1, <1>2, <1>3, <2>1, <2>2 DEF HandlerInv
  <1>6. RowsKept /\ ActsKept
    BY DEF RowsKept, ActsKept, FindRedeemed
  <1>7. Behind'
    BY <1>6, BehindKept DEF IInv, FindRedeemed
  <1>8. Selected'
    BY <1>6, SelectedKept DEF IInv, FindRedeemed
  <1>9. NoOrphan'
    BY DEF IInv, NoOrphan, Orphan, InCharge, FindRedeemed
  <1> QED BY <1>4, <1>5, <1>7, <1>8, <1>9 DEF IInv, Dropped, RedeemedIsPaid, FindRedeemed

\* The ticket found by its end is the one that was paid.
LEMMA MarkRedeemedStep ==
    ASSUME IInv, MarkRedeemed PROVE IInv'
  <1> DEFINE T == {t \in handler.found : row[t] = "BeingRedeemed"}
  <1>1. /\ handler.pc = "found" /\ MarkTicketsAs(T, "redeemed")
        /\ handler' = [pc |-> "marked", found |-> {}]
        /\ handler \in [pc : {"idle", "found", "marked", "handled"}, found : SUBSET Ticket]
        /\ UNCHANGED <<onchain, paid, mempool, logs, entry, redeemer, acts, node, rounds, crashes>>
    BY DEF IInv, Types, MarkRedeemed
  <1>2. /\ logs # <<>> /\ log.name = "TicketRedeemed"
        /\ \A t \in handler.found : t \in Ticket /\ t.epoch = entry.epoch /\ t.index + t.offset = log.index
    BY <1>1 DEF IInv, HandlerInv
  <1>3. T \in SUBSET Ticket
    BY <1>2
  <1>4. ASSUME NEW t \in T PROVE t \in paid /\ Past(t, onchain)
    <2>1. t \in Ticket /\ t.epoch = entry.epoch /\ t.index + t.offset = log.index
      BY <1>2
    <2>2. t = acts[log.act].ticket /\ t \in paid
      BY <1>2, <2>1, LoggedTicket, SameEnd
    <2>3. t.index < log.index
      BY <2>1, TicketParts
    <2> QED BY <1>2, <2>1, <2>2, <2>3, PassedIsPast
  <1>5. /\ handler' \in [pc : {"idle", "found", "marked", "handled"}, found : SUBSET Ticket]
        /\ handler'.pc = "marked"
    BY <1>1
  <1>6. HandlerInv'
    BY <1>1, <1>2, <1>5 DEF HandlerInv, log
  <1> HIDE DEF T
  <1> QED BY <1>1, <1>3, <1>4, <1>5, <1>6, MarkStep

\* Everything stored before the redeemed index is dropped, the redeemed ticket
\* too if it is still there.
LEMMA MarkNeglectedStep ==
    ASSUME IInv, MarkNeglected PROVE IInv'
  <1> DEFINE T == Passed(log.index)
  <1>1. /\ handler.pc = "marked" /\ MarkTicketsAs(T, "neglected")
        /\ handler' = [handler EXCEPT !.pc = "handled"]
        /\ handler \in [pc : {"idle", "found", "marked", "handled"}, found : SUBSET Ticket]
        /\ UNCHANGED <<onchain, paid, mempool, logs, entry, redeemer, acts, node, rounds, crashes>>
    BY DEF IInv, Types, MarkNeglected
  <1>2. logs # <<>> /\ log.name = "TicketRedeemed"
    BY <1>1 DEF IInv, HandlerInv
  <1>3. T \in SUBSET Ticket /\ \A t \in T : Past(t, onchain)
    BY <1>2, PassedIsPast DEF Passed
  <1>4. /\ handler' \in [pc : {"idle", "found", "marked", "handled"}, found : SUBSET Ticket]
        /\ handler'.pc = "handled"
    BY <1>1
  <1>5. row'[acts[log.act].ticket] = "gone"
    <2>1. PICK u : u = acts[log.act].ticket
      OBVIOUS
    <2>2. u \in Ticket /\ u.epoch = entry.epoch /\ u.index + u.offset = log.index /\ row[u] # "none"
      BY <1>2, <2>1, LoggedTicket
    <2>3. u.index < log.index
      BY <2>2, TicketParts
    <2>4. row[u] \in {"Untouched", "BeingRedeemed", "gone"}
      BY <2>2 DEF IInv, Types
    <2>5. row' = [t \in Ticket |-> IF t \in T THEN "gone" ELSE row[t]]
      BY <1>1 DEF MarkTicketsAs
    <2>6. CASE Stored(u)
      BY <2>1, <2>2, <2>3, <2>5, <2>6 DEF Passed
    <2>7. CASE row[u] = "gone"
      BY <2>1, <2>2, <2>5, <2>7
    <2> QED BY <2>4, <2>6, <2>7 DEF Stored
  <1>6. HandlerInv'
    BY <1>1, <1>2, <1>4, <1>5 DEF HandlerInv, log
  <1> HIDE DEF T
  <1> QED BY <1>1, <1>3, <1>4, <1>6, MarkStep

\* The event of a redemption ends the action that waits for it; its ticket has
\* left the database by then.
LEMMA CommitStep ==
    ASSUME IInv, Commit PROVE IInv'
  <1>1. /\ handler.pc = "handled" /\ logs # <<>> /\ Types /\ Behind /\ entry \in Channel
        /\ logs \in Seq(LogType) /\ acts \in Seq(ActType)
    BY DEF IInv, Types, HandlerInv, Commit
  <1>2. Behind' /\ entry' \in Channel
    BY <1>1, BehindCommit
  <1>3. /\ DOMAIN acts' = DOMAIN acts
        /\ \A a \in DOMAIN acts : acts'[a] = IF a = log.act /\ acts[a].pc = "waiting"
                                             THEN [acts[a] EXCEPT !.pc = "done"] ELSE acts[a]
    BY DEF Commit
  <1>4. ASSUME NEW a \in DOMAIN acts
        PROVE  acts'[a] \in ActType /\ acts'[a].ticket = acts[a].ticket
    <2>1. acts[a] \in ActType
      BY <1>1, ActParts
    <2>2. [acts[a] EXCEPT !.pc = "done"] \in ActType /\ [acts[a] EXCEPT !.pc = "done"].ticket = acts[a].ticket
      BY <2>1 DEF ActType
    <2> QED BY <1>3, <2>1, <2>2
  <1>5. acts' \in Seq(ActType) /\ ActsKept
    <2>1. acts' = [a \in 1 .. Len(acts) |-> acts'[a]] /\ DOMAIN acts = 1 .. Len(acts) /\ Len(acts) \in Nat
      BY <1>1, <1>3 DEF Commit
    <2>2. acts' \in Seq(ActType)
      BY <1>4, <2>1
    <2> QED BY <1>3, <1>4, <2>2 DEF ActsKept
  <1>6. logs' \in Seq(LogType)
    BY <1>1 DEF Commit
  <1>7. Types'
    BY <1>2, <1>3, <1>5, <1>6 DEF IInv, Types, Commit, IdleHandler
  <1>8. RowsKept
    BY DEF RowsKept, Commit
  <1>9. Selected'
    BY <1>3, <1>5, <1>8, SelectedKept DEF IInv, Commit
  <1>10. HandlerInv'
    BY DEF HandlerInv, Commit, IdleHandler
  <1>11. NoOrphan'
    <2>1. row' = row /\ crashes' = crashes /\ redeemer' = redeemer
      BY DEF Commit
    <2>2. ASSUME NEW t \in Ticket, row[t] = "BeingRedeemed", InCharge(t) PROVE InCharge(t)'
      <3>1. CASE \E q \in Redeemer : t \in redeemer[q].todo
                                     \/ \E i \in DOMAIN redeemer[q].got : redeemer[q].got[i] = t
        BY <2>1, <3>1 DEF InCharge
      <3>2. CASE \E b \in DOMAIN acts : acts[b].ticket = t /\ acts[b].pc # "done"
        <4>1. PICK b \in DOMAIN acts : acts[b].ticket = t /\ acts[b].pc # "done"
          BY <3>2
        <4>2. b # log.act
          <5>1. CASE log.name = "TicketRedeemed"
            <6>1. row[acts[log.act].ticket] = "gone"
              BY <1>1, <5>1 DEF IInv, HandlerInv
            <6> QED BY <2>2, <4>1, <6>1
          <5>2. CASE log.name # "TicketRedeemed"
            <6>1. PICK s \in Channel : Follows(entry, log, s)
              BY <1>1, FirstLog
            <6>2. log.act = 0
              BY <5>2, <6>1, LogKinds DEF Follows
            <6>3. b \in 1 .. Len(acts)
              BY <1>1
            <6> QED BY <6>2, <6>3
          <5> QED BY <5>1, <5>2
        <4>3. b \in DOMAIN acts' /\ acts'[b] = acts[b]
          BY <1>3, <4>2
        <4> QED BY <4>1, <4>3 DEF InCharge
      <3> QED BY <2>2, <3>1, <3>2 DEF InCharge
    <2> QED BY <2>1, <2>2, ChargeKept DEF IInv
  <1> QED BY <1>2, <1>7, <1>9, <1>10, <1>11 DEF IInv, Dropped, RedeemedIsPaid, Commit

--------------------------------------------------------------------------------
(* Restarts *)

\* A crash ends all actions and selections; rows and statistics survive it.
LEMMA CrashStep ==
    ASSUME IInv, Crash PROVE IInv'
  <1>1. acts \in Seq(ActType) /\ Types
    BY DEF IInv, Types
  <1>2. DOMAIN acts' = DOMAIN acts /\ \A a \in DOMAIN acts : acts'[a] = [acts[a] EXCEPT !.pc = "done"]
    BY DEF Crash
  <1>3. ASSUME NEW a \in DOMAIN acts
        PROVE  acts'[a] \in ActType /\ acts'[a].ticket = acts[a].ticket
    <2>1. acts[a] \in ActType
      BY <1>1, ActParts
    <2> QED BY <1>2, <2>1 DEF ActType
  <1>4. acts' \in Seq(ActType) /\ ActsKept
    <2>1. acts' = [a \in 1 .. Len(acts) |-> acts'[a]] /\ DOMAIN acts = 1 .. Len(acts) /\ Len(acts) \in Nat
      BY <1>1, <1>2 DEF Crash
    <2>2. acts' \in Seq(ActType)
      BY <1>3, <2>1
    <2> QED BY <1>2, <1>3, <2>2 DEF ActsKept
  <1>5. IdleRedeemer \in RedeemerType /\ IdleRedeemer.todo = {} /\ IdleRedeemer.got = <<>>
    BY RedemptionAssumption DEF IdleRedeemer, RedeemerType, NoChannel, Channel
  <1>6. redeemer' = [r \in Redeemer |-> IdleRedeemer]
    BY DEF Crash
  <1>7. crashes' \in 0 .. MaxCrash /\ crashes' # 0
    BY RedemptionAssumption DEF IInv, Types, Crash
  <1>8. Types'
    <2>1. redeemer' \in [Redeemer -> RedeemerType]
      BY <1>5, <1>6
    <2>2. \A i \in DOMAIN mempool : mempool[i] \in DOMAIN acts'
      BY <1>2 DEF IInv, Types
    <2> QED BY <1>4, <1>7, <2>1, <2>2 DEF IInv, Types, Crash, IdleHandler
  <1>9. Behind'
    BY <1>4, BehindKept DEF IInv, Crash
  <1>10. Selected'
    <2>1. row' = row
      BY DEF Crash
    <2> QED BY <1>2, <1>3, <1>5, <1>6, <2>1 DEF IInv, Selected
  <1>11. HandlerInv' /\ NoOrphan'
    BY <1>7 DEF HandlerInv, NoOrphan, Crash, IdleHandler
  <1> QED BY <1>8, <1>9, <1>10, <1>11 DEF IInv, Dropped, RedeemedIsPaid, Crash

\* Resetting the next ticket after a restart brings no row back.
LEMMA FixStep ==
    ASSUME IInv, fix_channels_next_ticket_state PROVE IInv'
  <1>1. /\ row \in [Ticket -> {"none", "Untouched", "BeingRedeemed", "gone"}]
        /\ row' = [t \in Ticket |->
                     IF row[t] = "BeingRedeemed" /\ t.epoch = entry.epoch /\ t.index = entry.index
                     THEN "Untouched" ELSE row[t]]
    BY DEF IInv, Types, fix_channels_next_ticket_state
  <1>2. RowsKept /\ ActsKept
    BY <1>1 DEF RowsKept, ActsKept, fix_channels_next_ticket_state
  <1>3. Types'
    BY <1>1 DEF IInv, Types, fix_channels_next_ticket_state
  <1>4. Behind'
    BY <1>2, BehindKept DEF IInv, fix_channels_next_ticket_state
  <1>5. HandlerInv'
    BY <1>2, HandlerKept DEF IInv, fix_channels_next_ticket_state
  <1>6. Selected'
    BY <1>2, SelectedKept DEF IInv, fix_channels_next_ticket_state
  <1>7. NoOrphan'
    <2>1. \A t \in Ticket : row'[t] = "BeingRedeemed" => row[t] = "BeingRedeemed"
      BY <1>1
    <2>2. \A t \in Ticket : InCharge(t) => InCharge(t)'
      BY DEF InCharge, fix_channels_next_ticket_state
    <2> QED BY <2>1, <2>2, ChargeKept DEF IInv, fix_channels_next_ticket_state
  <1>8. Dropped' /\ RedeemedIsPaid'
    BY <1>1 DEF IInv, Dropped, RedeemedIsPaid, fix_channels_next_ticket_state
  <1> QED BY <1>3, <1>4, <1>5, <1>6, <1>7, <1>8 DEF IInv

--------------------------------------------------------------------------------
(* The theorems *)

\* The invariant is inductive: every step of the specification preserves it.
LEMMA StepIInv == IInv /\ [Next]_vars => IInv'
  <1> SUFFICES ASSUME IInv, [Next]_vars PROVE IInv'
    OBVIOUS
  <1>1. ASSUME NEW t \in Ticket, Insert(t) PROVE IInv'
    BY <1>1, InsertStep
  <1>2. ASSUME NEW r \in Redeemer, ReadChannel(r) \/ Redeem(r) PROVE IInv'
    BY <1>2, ReadChannelStep, RedeemTicketsStep, MarkBeingRedeemedStep, SendStep DEF Redeem
  <1>3. ASSUME NEW a \in DOMAIN acts, Execute(a) PROVE IInv'
    BY <1>3, ExecuteStep
  <1>4. CASE ChainOpen \/ ChainClose \/ ChainRedeem \/ ChainRevert
    BY <1>4, ChainOpenStep, ChainCloseStep, ChainRedeemStep, ChainRevertStep
  <1>5. CASE Index
    BY <1>5, HandleOpenedClosedStep, FindRedeemedStep, MarkRedeemedStep, MarkNeglectedStep,
       CommitStep DEF Index
  <1>6. CASE Crash \/ fix_channels_next_ticket_state
    BY <1>6, CrashStep, FixStep
  <1>7. CASE UNCHANGED vars
    <2>1. RowsKept /\ ActsKept
      BY <1>7 DEF RowsKept, ActsKept, vars
    <2>2. Behind'
      BY <1>7, <2>1, BehindKept DEF IInv, vars
    <2>3. NoOrphan'
      BY <1>7 DEF IInv, vars, NoOrphan, Orphan, InCharge
    <2>4. HandlerInv'
      BY <1>7 DEF IInv, vars, HandlerInv, log
    <2>5. Types' /\ Dropped' /\ Selected' /\ RedeemedIsPaid'
      BY <1>7 DEF IInv, vars, Types, Dropped, Selected, RedeemedIsPaid
    <2> QED BY <2>2, <2>3, <2>4, <2>5 DEF IInv
  <1> QED BY <1>1, <1>2, <1>3, <1>4, <1>5, <1>6, <1>7 DEF Next

\* The invariant holds in every behaviour.
LEMMA Invariance == Spec => []IInv
  BY InitIInv, StepIInv, PTL DEF Spec

\* In every behaviour every variable has its type; among others, every pending
\* transaction and every redemption log belongs to an action of the queue.
THEOREM TypeCorrect == Spec => []TypeOK
  <1>1. IInv => TypeOK
    BY TypeOKFollows DEF IInv
  <1> QED BY Invariance, <1>1, PTL

\* Whatever restarts, timeouts, retries and concurrent redeemers there are, a
\* ticket is counted as redeemed only if the contract paid it, although the
\* indexer identifies it only by epoch, end index and state.
THEOREM RedeemedIsPaidTheorem == Spec => []RedeemedIsPaid
  <1>1. IInv => RedeemedIsPaid
    BY DEF IInv
  <1> QED BY Invariance, <1>1, PTL

\* No ticket that the contract would still pay is deleted: neither by a
\* redemption of a later ticket nor by a closure or reopening that the indexer
\* handles late or, after a restart, twice.
THEOREM NothingAcceptableDroppedTheorem == Spec => []NothingAcceptableDropped
  <1>1. IInv => NothingAcceptableDropped
    <2> SUFFICES ASSUME IInv, NEW t \in Ticket, row[t] = "gone" PROVE ~Acceptable(t)
      BY DEF NothingAcceptableDropped
    <2>1. Past(t, onchain) /\ onchain \in Channel
      BY DEF IInv, Dropped, Types
    <2> QED BY <2>1, ChannelParts, TicketParts DEF Past, Acceptable
  <1> QED BY Invariance, <1>1, PTL

\* Without a crash every ticket that is being redeemed is in the hands of a
\* redeemer or of an action that has not ended, for any number of redeemers.
THEOREM NoOrphanTheorem == Spec => []NoOrphan
  <1>1. IInv => NoOrphan
    BY DEF IInv
  <1> QED BY Invariance, <1>1, PTL
================================================================================
