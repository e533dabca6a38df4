----------------------- MODULE OutgoingTicketIndexProofs -----------------------
(***************************************************************************)
(* Proofs about OutgoingTicketIndex: the counter of an outgoing channel    *)
(* never puts an index on a ticket of the open channel that it issued      *)
(* since the last restart, or that a completed flush has made durable.     *)
(***************************************************************************)
EXTENDS OutgoingTicketIndex, TLAPS

--------------------------------------------------------------------------------
(* The inductive invariant *)

Log == [name : {"ChannelOpened", "ChannelClosed", "TicketRedeemed"}, index : Nat]
State == [epoch : Nat, open : BOOLEAN]

\* The log l takes the channel from state s to state r.
Follows(s, l, r) ==
    \/ l = Opened /\ ~s.open /\ r = [epoch |-> s.epoch + 1, open |-> TRUE]
    \/ l = Closed /\ s.open /\ r = [epoch |-> s.epoch, open |-> FALSE]
    \/ l.name = "TicketRedeemed" /\ s.open /\ r = s

\* lab names the states of the channel between the pending logs: the last one
\* is the state on chain, and the index database holds the first one, or the
\* second one once the effects of the first log are committed.
Labelling(lab) ==
    /\ lab \in [0 .. Len(logs) -> State]
    /\ \A i \in 1 .. Len(logs) : Follows(lab[i - 1], logs[i], lab[i])
    /\ \A i, j \in 0 .. Len(logs) : i <= j => lab[i].epoch <= lab[j].epoch
    /\ lab[Len(logs)].epoch = onchain.epoch
    /\ lab[Len(logs)].open = onchain.open
    /\ \/ handler # "committed" /\ entry = lab[0]
       \/ logs # <<>> /\ entry = lab[1]

\* The index database is some prefix of the pending logs behind the chain.
Behind == \E lab \in [0 .. Len(logs) -> State] : Labelling(lab)

HandlerInv == handler # "idle" => logs # <<>>

\* What tasks and the channel cache know of the channel is not newer than the
\* channel entry.
LookedUp ==
    /\ \A t \in Task : task[t] <= entry.epoch
    /\ chcache <= entry.epoch

\* Tickets of the incarnation on chain are issued only once the indexer has
\* committed its opening.
Current == recent \cup durable \cup flush.seen # {} => entry.epoch = onchain.epoch

\* The flush runs alone on the row.
FlushInv ==
    /\ flush.pc # "idle" => stored # NoRow /\ flush.row = stored
    /\ flush.pc # "loaded" => flush.seen = {}
    /\ flush.seen \subseteq recent

\* While the channel is open, the cached counter is beyond what was issued
\* since the last restart, and the stored one beyond what was flushed.
Counted ==
    onchain.open =>
        /\ \A i \in recent : cache # NotCached /\ i < cache
        /\ \A i \in durable : i < stored /\ (cache # NotCached => i < cache)
        /\ \A i \in flush.seen : i < flush.cached

IInv ==
    /\ TypeOK
    /\ Behind
    /\ HandlerInv
    /\ LookedUp
    /\ Current
    /\ FlushInv
    /\ Counted

--------------------------------------------------------------------------------
(* The pending logs *)

\* The constants' assumptions give the types of the operators of the counter:
\* what is loaded is a number, and it is the cached one if there is one.
LEMMA LoadedType ==
    ASSUME TypeOK
    PROVE  /\ Loaded \in Nat /\ RowLoaded \in Nat
           /\ cache # NotCached => Loaded = cache
           /\ cache = NotCached => Loaded = RowLoaded
           /\ stored # NoRow => RowLoaded = stored
  BY DEF TypeOK, Loaded, RowLoaded, NotCached, NoRow

\* The channel entry of the index database is never ahead of the chain.
LEMMA EntryBehind ==
    ASSUME TypeOK, Behind
    PROVE  entry.epoch <= onchain.epoch
  <1>1. PICK lab \in [0 .. Len(logs) -> State] : Labelling(lab)
    BY DEF Behind
  <1>2. Len(logs) \in Nat
    BY DEF TypeOK
  <1>3. CASE entry = lab[0]
    BY <1>1, <1>2, <1>3 DEF Labelling
  <1>4. CASE logs # <<>> /\ entry = lab[1]
    <2>1. Len(logs) >= 1
      BY <1>2, <1>4 DEF TypeOK
    <2> QED BY <1>1, <1>2, <1>4, <2>1 DEF Labelling
  <1> QED BY <1>1, <1>3, <1>4 DEF Labelling

\* Once the indexer has committed the opening of the incarnation that is open on
\* chain, handling the next log does not reset the counter, not even when the
\* log is the opening itself, handled again after a restart.
LEMMA NoResetWhenCurrent ==
    ASSUME TypeOK, Behind, logs # <<>>, onchain.open, entry.epoch = onchain.epoch
    PROVE  ~Resets
  <1>1. PICK lab \in [0 .. Len(logs) -> State] : Labelling(lab)
    BY DEF Behind
  <1>2. Len(logs) \in Nat /\ Len(logs) >= 1 /\ Head(logs) = logs[1]
    BY DEF TypeOK
  <1>3. \A i \in 0 .. Len(logs) : lab[i] \in State /\ lab[i].epoch \in Nat /\ lab[i].open \in BOOLEAN
    BY <1>1 DEF State
  <1>4. lab[1].epoch <= onchain.epoch /\ lab[0].epoch <= lab[1].epoch
    BY <1>1, <1>2 DEF Labelling
  <1>5. Opened # Closed /\ Opened.name # "TicketRedeemed" /\ Closed.name # "TicketRedeemed"
    BY DEF Opened, Closed
  <1>6. Follows(lab[0], logs[1], lab[1])
    BY <1>1, <1>2 DEF Labelling
  <1>7. onchain.epoch \in Nat
    BY DEF TypeOK
  <1>8. Head(logs) # Closed
    <2>1. SUFFICES ASSUME logs[1] = Closed PROVE FALSE
      BY <1>2
    <2>2. lab[1] = [epoch |-> lab[0].epoch, open |-> FALSE]
      BY <1>5, <1>6, <2>1 DEF Follows
    <2>3. lab[1].epoch = onchain.epoch /\ ~lab[1].open
      BY <1>1, <2>2 DEF Labelling
    <2>4. Len(logs) # 1
      BY <1>1, <2>3 DEF Labelling
    <2>5. Len(logs) >= 2
      <3>1. \A n \in Nat : n >= 1 /\ n # 1 => n >= 2
        OBVIOUS
      <3> QED BY <1>2, <2>4, <3>1
    <2>6. Follows(lab[1], logs[2], lab[2]) /\ lab[2].epoch <= onchain.epoch
      BY <1>1, <1>2, <2>5 DEF Labelling
    <2>7. lab[2].epoch = lab[1].epoch + 1
      BY <2>3, <2>6 DEF Follows
    <2> QED BY <1>7, <2>3, <2>6, <2>7
  <1>9. Head(logs) = Opened => entry.open
    <2>1. SUFFICES ASSUME logs[1] = Opened PROVE entry.open
      BY <1>2
    <2>2. lab[1] = [epoch |-> lab[0].epoch + 1, open |-> TRUE]
      BY <1>5, <1>6, <2>1 DEF Follows
    <2>3. 0 \in 0 .. Len(logs)
      BY <1>2
    <2>4. lab[0].epoch < onchain.epoch
      BY <1>3, <1>4, <1>7, <2>2, <2>3
    <2>5. entry = lab[1]
      BY <1>1, <1>7, <2>4 DEF Labelling
    <2> QED BY <2>2, <2>5
  <1> QED BY <1>8, <1>9 DEF Resets

\* A step that leaves the chain, the pending logs and the entry alone, and
\* commits nothing, leaves the database as far behind as it was.
LEMMA BehindKept ==
    ASSUME Behind, UNCHANGED <<onchain, logs, entry>>,
           handler' # "committed" \/ handler' = handler
    PROVE  Behind'
  <1>1. PICK lab \in [0 .. Len(logs) -> State] : Labelling(lab)
    BY DEF Behind
  <1>2. Labelling(lab)'
    BY <1>1 DEF Labelling
  <1> QED BY <1>1, <1>2 DEF Behind

\* A log written on chain extends the states by the new one.
LEMMA BehindAppend ==
    ASSUME TypeOK, Behind, NEW l \in Log, logs' = Append(logs, l),
           UNCHANGED <<entry, handler>>,
           onchain'.epoch \in Nat, onchain'.open \in BOOLEAN,
           Follows([epoch |-> onchain.epoch, open |-> onchain.open], l,
                   [epoch |-> onchain'.epoch, open |-> onchain'.open])
    PROVE  Behind'
  <1>1. PICK lab \in [0 .. Len(logs) -> State] : Labelling(lab)
    BY DEF Behind
  <1>a. PICK new : new = [epoch |-> onchain'.epoch, open |-> onchain'.open]
    OBVIOUS
  <1>b. PICK lab2 : lab2 = [i \in 0 .. Len(logs) + 1 |-> IF i <= Len(logs) THEN lab[i] ELSE new]
    OBVIOUS
  <1>2. /\ Len(logs) \in Nat /\ Len(logs') = Len(logs) + 1
        /\ \A i \in 1 .. Len(logs) : logs'[i] = logs[i]
        /\ logs'[Len(logs) + 1] = l
        /\ logs \in Seq(Log) /\ logs' # <<>>
    BY DEF TypeOK, Log
  <1>3. new \in State
    BY <1>a DEF State
  <1>4. lab2 \in [0 .. Len(logs') -> State]
    BY <1>b, <1>1, <1>2, <1>3
  <1>5. /\ \A i \in 0 .. Len(logs) : lab2[i] = lab[i]
        /\ lab2[Len(logs) + 1] = new
    BY <1>b, <1>2
  <1>6. lab[Len(logs)] = [epoch |-> onchain.epoch, open |-> onchain.open]
    BY <1>1, <1>2 DEF Labelling, State
  <1>7. ASSUME NEW i \in 1 .. Len(logs') PROVE Follows(lab2[i - 1], logs'[i], lab2[i])
    <2>1. CASE i <= Len(logs)
      <3>1. i \in 1 .. Len(logs) /\ i - 1 \in 0 .. Len(logs) /\ i \in 0 .. Len(logs)
        BY <1>2, <2>1
      <3> QED BY <1>1, <1>2, <1>5, <3>1 DEF Labelling
    <2>2. CASE i = Len(logs) + 1
      <3>1. i - 1 = Len(logs) /\ i - 1 \in 0 .. Len(logs)
        BY <1>2, <2>2
      <3>2. lab2[i - 1] = [epoch |-> onchain.epoch, open |-> onchain.open]
        BY <1>5, <1>6, <3>1
      <3> QED BY <1>a, <1>2, <1>5, <2>2, <3>2
    <2> QED BY <1>2, <2>1, <2>2
  <1>8. onchain.epoch <= new.epoch
    BY <1>a DEF Follows, TypeOK
  <1>9. ASSUME NEW i \in 0 .. Len(logs'), NEW j \in 0 .. Len(logs'), i <= j
        PROVE  lab2[i].epoch <= lab2[j].epoch
    <2>1. CASE j <= Len(logs)
      BY <1>1, <1>2, <1>5, <1>9, <2>1 DEF Labelling
    <2>2. CASE j = Len(logs) + 1 /\ i <= Len(logs)
      <3>1. i \in 0 .. Len(logs) /\ Len(logs) \in 0 .. Len(logs)
        BY <1>2, <2>2
      <3>2. lab[i].epoch <= onchain.epoch /\ lab[i].epoch \in Nat
        BY <1>1, <3>1 DEF Labelling, State
      <3> QED BY <1>3, <1>5, <1>8, <2>2, <3>1, <3>2 DEF TypeOK, State
    <2>3. CASE j = Len(logs) + 1 /\ i = j
      BY <1>3, <1>5, <2>3 DEF State
    <2> QED BY <1>2, <1>9, <2>1, <2>2, <2>3
  <1>10. \/ handler' # "committed" /\ entry' = lab2[0]
         \/ logs' # <<>> /\ entry' = lab2[1]
    <2>1. CASE handler # "committed" /\ entry = lab[0]
      BY <1>2, <1>5, <2>1
    <2>2. CASE logs # <<>> /\ entry = lab[1]
      <3>1. 1 \in 0 .. Len(logs)
        BY <1>2, <2>2
      <3> QED BY <1>2, <1>5, <2>2, <3>1
    <2> QED BY <1>1, <2>1, <2>2 DEF Labelling
  <1>11. Labelling(lab2)'
    BY <1>a, <1>2, <1>4, <1>5, <1>7, <1>9, <1>10 DEF Labelling
  <1> QED BY <1>4, <1>11 DEF Behind

\* Committing the effects of the first pending log moves the entry to the state
\* after it, or leaves it there when the log is handled again after a restart.
LEMMA BehindCommit ==
    ASSUME TypeOK, Behind, HandlerInv, Commit
    PROVE  Behind' /\ entry'.epoch >= entry.epoch
                   /\ entry' \in [epoch : 0 .. MaxEpoch, open : BOOLEAN]
  <1>1. PICK lab \in [0 .. Len(logs) -> State] : Labelling(lab)
    BY DEF Behind
  <1>2. Len(logs) \in Nat /\ Len(logs) >= 1 /\ Head(logs) = logs[1] /\ logs # <<>>
    BY DEF TypeOK, HandlerInv, Commit
  <1>3. 0 \in 0 .. Len(logs) /\ 1 \in 0 .. Len(logs) /\ 1 \in 1 .. Len(logs)
    BY <1>2
  <1>4. lab[0] \in State /\ lab[1] \in State
    BY <1>1, <1>3
  <1>5. Follows(lab[0], logs[1], lab[1])
    BY <1>1, <1>3 DEF Labelling
  <1>6. lab[1].epoch <= onchain.epoch /\ lab[0].epoch <= lab[1].epoch
    BY <1>1, <1>2, <1>3 DEF Labelling
  <1>7. Opened # Closed /\ Opened.name # "TicketRedeemed" /\ Closed.name # "TicketRedeemed"
    BY DEF Opened, Closed
  <1>8. entry' = CASE logs[1] = Closed -> [entry EXCEPT !.open = FALSE]
                   [] logs[1] = Opened /\ ~entry.open ->
                         [epoch |-> entry.epoch + 1, open |-> TRUE]
                   [] OTHER -> entry
    BY <1>2 DEF Commit
  <1>9. entry' = lab[1]
    <2>1. CASE logs[1] = Closed
      <3>1. lab[0].open /\ lab[1] = [epoch |-> lab[0].epoch, open |-> FALSE]
        BY <1>5, <1>7, <2>1 DEF Follows
      <3>2. entry.epoch = lab[0].epoch
        BY <1>1, <3>1 DEF Labelling
      <3>3. entry' = [entry EXCEPT !.open = FALSE]
        BY <1>7, <1>8, <2>1
      <3>4. entry' = [epoch |-> entry.epoch, open |-> FALSE]
        BY <3>3 DEF TypeOK
      <3> QED BY <3>1, <3>2, <3>4
    <2>2. CASE logs[1] = Opened
      <3>1. ~lab[0].open /\ lab[1] = [epoch |-> lab[0].epoch + 1, open |-> TRUE]
        BY <1>5, <1>7, <2>2 DEF Follows
      <3>2. CASE entry = lab[0]
        BY <1>7, <1>8, <2>2, <3>1, <3>2
      <3>3. CASE entry = lab[1]
        BY <1>7, <1>8, <2>2, <3>1, <3>3
      <3> QED BY <1>1, <3>2, <3>3 DEF Labelling
    <2>3. CASE logs[1].name = "TicketRedeemed"
      <3>1. lab[1] = lab[0]
        BY <1>5, <1>7, <2>3 DEF Follows
      <3>2. entry' = entry
        BY <1>7, <1>8, <2>3
      <3> QED BY <1>1, <3>1, <3>2 DEF Labelling
    <2> QED BY <1>5, <2>1, <2>2, <2>3 DEF Follows
  <1>10. Labelling(lab)'
    BY <1>1, <1>2, <1>9 DEF Labelling, Commit, chainVars
  <1>11. Behind'
    BY <1>1, <1>10 DEF Behind, Commit, chainVars
  <1>12. entry.epoch <= entry'.epoch
    BY <1>1, <1>4, <1>6, <1>9 DEF Labelling, State
  <1>13. entry' \in [epoch : 0 .. MaxEpoch, open : BOOLEAN]
    <2>1. lab[1].epoch \in 0 .. MaxEpoch
      BY <1>4, <1>6, OutgoingTicketIndexAssumption DEF State, TypeOK
    <2> QED BY <1>4, <1>9, <2>1 DEF State
  <1>14. entry'.epoch >= entry.epoch
    BY <1>12, <1>13 DEF TypeOK
  <1> QED BY <1>11, <1>13, <1>14

\* Marking the first log processed drops the state before it.
LEMMA BehindMark ==
    ASSUME TypeOK, Behind, HandlerInv, MarkProcessed
    PROVE  Behind'
  <1>1. PICK lab \in [0 .. Len(logs) -> State] : Labelling(lab)
    BY DEF Behind
  <1>2. /\ Len(logs) \in Nat /\ Len(logs) >= 1
        /\ logs' = Tail(logs) /\ Len(logs') = Len(logs) - 1
        /\ \A i \in 1 .. Len(logs) - 1 : logs'[i] = logs[i + 1]
    BY DEF TypeOK, HandlerInv, MarkProcessed
  <1>3. PICK lab2 : lab2 = [i \in 0 .. Len(logs) - 1 |-> lab[i + 1]]
    OBVIOUS
  <1>4. lab2 \in [0 .. Len(logs') -> State]
    BY <1>1, <1>2, <1>3
  <1>5. \A i \in 0 .. Len(logs) - 1 : lab2[i] = lab[i + 1]
    BY <1>3
  <1>6. ASSUME NEW i \in 1 .. Len(logs') PROVE Follows(lab2[i - 1], logs'[i], lab2[i])
    <2>1. /\ i \in 0 .. Len(logs) - 1 /\ i - 1 \in 0 .. Len(logs) - 1
          /\ i + 1 \in 1 .. Len(logs) /\ i \in 1 .. Len(logs) - 1
          /\ (i - 1) + 1 = i /\ (i + 1) - 1 = i
      BY <1>2
    <2>2. Follows(lab[(i + 1) - 1], logs[i + 1], lab[i + 1])
      BY <1>1, <2>1 DEF Labelling
    <2>3. lab2[i - 1] = lab[i] /\ lab2[i] = lab[i + 1] /\ logs'[i] = logs[i + 1]
      BY <1>2, <1>5, <2>1
    <2> QED BY <2>1, <2>2, <2>3
  <1>7. ASSUME NEW i \in 0 .. Len(logs'), NEW j \in 0 .. Len(logs'), i <= j
        PROVE  lab2[i].epoch <= lab2[j].epoch
    <2>1. i + 1 \in 0 .. Len(logs) /\ j + 1 \in 0 .. Len(logs) /\ i + 1 <= j + 1
      BY <1>2, <1>7
    <2>2. lab2[i] = lab[i + 1] /\ lab2[j] = lab[j + 1]
      BY <1>2, <1>5
    <2> QED BY <1>1, <2>1, <2>2 DEF Labelling
  <1>8. lab2[Len(logs')] = lab[Len(logs)]
    <2>1. Len(logs') \in 0 .. Len(logs) - 1 /\ Len(logs') + 1 = Len(logs)
      BY <1>2
    <2> QED BY <1>5, <2>1
  <1>9. handler' # "committed" /\ entry' = lab2[0]
    <2>1. lab2[0] = lab[1]
      BY <1>2, <1>5
    <2>2. entry = lab[1]
      BY <1>1 DEF Labelling, MarkProcessed
    <2> QED BY <2>1, <2>2 DEF MarkProcessed
  <1>10. Labelling(lab2)'
    BY <1>1, <1>4, <1>6, <1>7, <1>8, <1>9 DEF Labelling, MarkProcessed
  <1> QED BY <1>4, <1>10 DEF Behind

--------------------------------------------------------------------------------
(* Every step preserves the invariant *)

USE DEF chainVars, indexVars, historyVars

\* The constants and the history start empty and the index database level with
\* the chain.
LEMMA InitIInv == Init => IInv
  <1> SUFFICES ASSUME Init PROVE IInv
    OBVIOUS
  <1>1. TypeOK
    BY OutgoingTicketIndexAssumption DEF Init, TypeOK, NotCached, NoRow, Idle
  <1>2. Behind
    <2>1. PICK lab : lab = [i \in 0 .. 0 |-> [epoch |-> 0, open |-> FALSE]]
      OBVIOUS
    <2>2. Len(logs) = 0 /\ lab \in [0 .. Len(logs) -> State]
      BY <2>1 DEF Init, State
    <2>3. Labelling(lab)
      <3>1. lab[0] = [epoch |-> 0, open |-> FALSE] /\ 0 .. Len(logs) = {0} /\ 1 .. Len(logs) = {}
        BY <2>1, <2>2
      <3>2. \A i, j \in 0 .. Len(logs) : i <= j => lab[i].epoch <= lab[j].epoch
        BY <3>1
      <3>3. lab[Len(logs)] = lab[0]
        BY <2>2
      <3>4. handler # "committed" /\ entry = lab[0] /\ onchain.epoch = 0 /\ onchain.open = FALSE
        BY <3>1 DEF Init
      <3>5. lab[Len(logs)].epoch = onchain.epoch /\ lab[Len(logs)].open = onchain.open
        <4>1. lab[Len(logs)] = [epoch |-> 0, open |-> FALSE]
          BY <3>1, <3>3
        <4>2. onchain = [epoch |-> 0, open |-> FALSE, index |-> 0]
          BY DEF Init
        <4> QED BY <4>1, <4>2
      <3>6. \A i \in 1 .. Len(logs) : Follows(lab[i - 1], logs[i], lab[i])
        BY <3>1
      <3> QED BY <2>2, <3>2, <3>4, <3>5, <3>6 DEF Labelling
    <2> QED BY <2>2, <2>3 DEF Behind
  <1> QED BY <1>1, <1>2 DEF IInv, Init, HandlerInv, LookedUp, Current, FlushInv,
             Counted, NotCached, NoRow, Idle

\* A task that looks the channel up learns of no incarnation the entry lacks.
LEMMA LookUpStep ==
    ASSUME IInv, NEW t \in Task, LookUp(t) PROVE IInv'
  <1>1. Behind'
    BY BehindKept DEF IInv, LookUp
  <1>2. PICK found : /\ found = IF chcache # NotCached THEN chcache ELSE entry.epoch
                     /\ found > 0 /\ chcache' = found
                     /\ task' = [task EXCEPT ![t] = found]
    BY DEF LookUp
  <1>3. found \in 0 .. MaxEpoch /\ found <= entry.epoch
    BY <1>2, OutgoingTicketIndexAssumption DEF IInv, TypeOK, LookedUp, NotCached
  <1>4. TypeOK'
    BY <1>2, <1>3 DEF IInv, TypeOK, LookUp
  <1>5. LookedUp'
    BY <1>2, <1>3 DEF IInv, TypeOK, LookedUp, LookUp
  <1> QED BY <1>1, <1>4, <1>5 DEF IInv, LookUp, HandlerInv, Current, FlushInv, Counted

\* A task that gives up changes nothing else.
LEMMA GiveUpStep ==
    ASSUME IInv, NEW t \in Task, GiveUp(t) PROVE IInv'
  <1>1. Behind'
    BY BehindKept DEF IInv, GiveUp
  <1>2. TypeOK'
    BY OutgoingTicketIndexAssumption DEF IInv, TypeOK, GiveUp, Idle
  <1>3. LookedUp'
    BY DEF IInv, TypeOK, LookedUp, GiveUp, Idle
  <1> QED BY <1>1, <1>2, <1>3 DEF IInv, GiveUp, HandlerInv, Current, FlushInv, Counted

\* The issued index is the counter, which moves beyond it.
LEMMA IssueStep ==
    ASSUME IInv, NEW t \in Task, Issue(t) PROVE IInv'
  <1>1. Behind'
    BY BehindKept DEF IInv, Issue
  <1>2. /\ Loaded \in Index /\ cache' = Loaded + 1 /\ cache' # NotCached
        /\ stored' = RowLoaded /\ RowLoaded \in Nat /\ RowLoaded # NoRow
    BY LoadedType, OutgoingTicketIndexAssumption
       DEF IInv, Issue, increment_outgoing_ticket_index, Index, NotCached, NoRow
  <1>3. task[t] \in Epoch
    BY OutgoingTicketIndexAssumption DEF IInv, TypeOK, Issue, Idle, Epoch
  <1>4. TypeOK'
    <2>1. issued' \in [Epoch -> SUBSET Index]
      BY <1>2, <1>3 DEF IInv, TypeOK, Issue
    <2>2. recent' \in SUBSET Index
      BY <1>2 DEF IInv, TypeOK, Issue
    <2>3. cache' \in Nat \cup {NotCached} /\ stored' \in Nat \cup {NoRow}
      BY <1>2 DEF Index
    <2>4. task' \in [Task -> 0 .. MaxEpoch]
      BY OutgoingTicketIndexAssumption DEF IInv, TypeOK, Issue, Idle
    <2> QED BY <2>1, <2>2, <2>3, <2>4 DEF IInv, TypeOK, Issue
  <1>5. LookedUp'
    BY DEF IInv, TypeOK, LookedUp, Issue, Idle
  <1>6. Current'
    <2>1. CASE task[t] = onchain.epoch
      <3>1. task[t] <= entry.epoch /\ entry.epoch <= onchain.epoch
        BY EntryBehind DEF IInv, LookedUp
      <3> QED BY <2>1, <3>1 DEF IInv, TypeOK, Current, Issue
    <2>2. CASE task[t] # onchain.epoch
      BY <2>2 DEF IInv, Current, Issue
    <2> QED BY <2>1, <2>2
  <1>7. FlushInv'
    BY <1>2, LoadedType DEF IInv, FlushInv, Issue
  <1>8. Counted'
    <2> SUFFICES ASSUME onchain.open PROVE
           /\ \A i \in recent' : i < cache'
           /\ \A i \in durable : i < stored' /\ i < cache'
           /\ \A i \in flush.seen : i < flush.cached
      BY <1>2 DEF Counted, Issue
    <2>1. ASSUME NEW i \in recent PROVE i < cache'
      BY <1>2, LoadedType DEF IInv, Counted, TypeOK, Index
    <2>2. Loaded < cache'
      BY <1>2 DEF Index
    <2>3. ASSUME NEW i \in durable PROVE i < stored' /\ i < cache'
      BY <1>2, LoadedType DEF IInv, Counted, TypeOK, Index, NoRow, NotCached
    <2>4. recent' \subseteq recent \cup {Loaded}
      BY DEF Issue
    <2> QED BY <2>1, <2>2, <2>3, <2>4 DEF IInv, Counted
  <1> QED BY <1>1, <1>4, <1>5, <1>6, <1>7, <1>8 DEF IInv, HandlerInv, Issue

\* Raising the counter, for an aggregation or a redeemed ticket, keeps it
\* beyond everything it was beyond.
LEMMA RaisedCounter ==
    ASSUME TypeOK, FlushInv, Counted, NEW i \in Nat,
           compare_and_set_outgoing_ticket_index(i),
           UNCHANGED <<onchain, flush, recent, durable>>
    PROVE  /\ cache' \in Nat /\ stored' \in Nat
           /\ FlushInv' /\ Counted'
  <1>1. /\ cache' \in Nat /\ cache' >= Loaded /\ cache' # NotCached
        /\ stored' = RowLoaded /\ RowLoaded \in Nat /\ RowLoaded # NoRow
    BY LoadedType DEF compare_and_set_outgoing_ticket_index, Larger, NotCached, NoRow
  <1>2. FlushInv'
    BY <1>1, LoadedType DEF FlushInv
  <1>3. ASSUME onchain.open, NEW k \in recent PROVE k < cache'
    BY <1>1, <1>3, LoadedType DEF Counted, TypeOK, Index
  <1>4. ASSUME onchain.open, NEW k \in durable PROVE k < stored' /\ k < cache'
    BY <1>1, <1>4, LoadedType DEF Counted, TypeOK, Index, NoRow, NotCached
  <1>5. Counted'
    BY <1>1, <1>3, <1>4 DEF Counted
  <1> QED BY <1>1, <1>2, <1>5

\* An aggregation raises the counter.
LEMMA AggregateStep ==
    ASSUME IInv, NEW e \in Epoch, NEW i \in Index, aggregate_tickets(e, i) PROVE IInv'
  <1>1. Behind'
    BY BehindKept DEF IInv, aggregate_tickets
  <1>2. i + 1 \in Nat
    BY DEF Index
  <1>3. cache' \in Nat /\ stored' \in Nat /\ FlushInv' /\ Counted'
    BY <1>2, RaisedCounter DEF IInv, aggregate_tickets
  <1>4. TypeOK'
    BY <1>3 DEF IInv, TypeOK, aggregate_tickets
  <1> QED BY <1>1, <1>3, <1>4 DEF IInv, aggregate_tickets, HandlerInv, LookedUp, Current

\* The flush reads the row ...
LEMMA FlushRowsStep ==
    ASSUME IInv, FlushRows PROVE IInv'
  <1>1. Behind'
    BY BehindKept DEF IInv, FlushRows
  <1>2. /\ flush'.pc = "rows" /\ flush'.row = stored /\ flush'.seen = flush.seen
        /\ flush'.cached = flush.cached /\ stored \in Nat
        /\ flush' \in [pc : {"idle", "rows", "loaded"}, row : Nat, cached : Nat, seen : SUBSET Index]
    BY DEF IInv, TypeOK, FlushRows, NoRow
  <1>3. TypeOK'
    BY <1>2 DEF IInv, TypeOK, FlushRows
  <1>4. FlushInv'
    BY <1>2 DEF IInv, FlushInv, FlushRows
  <1> QED BY <1>1, <1>2, <1>3, <1>4 DEF IInv, FlushRows, HandlerInv, LookedUp, Current, Counted

\* ... then the counter, which is beyond the indices the flush vouches for ...
LEMMA FlushLoadStep ==
    ASSUME IInv, FlushLoad PROVE IInv'
  <1>1. Behind'
    BY BehindKept DEF IInv, FlushLoad
  <1>2. CASE cache = NotCached
    <2>1. /\ flush'.pc = "idle" /\ flush'.seen = flush.seen /\ flush'.cached = flush.cached
          /\ flush' \in [pc : {"idle", "rows", "loaded"}, row : Nat, cached : Nat, seen : SUBSET Index]
      BY <1>2 DEF IInv, TypeOK, FlushLoad
    <2>2. TypeOK'
      BY <2>1 DEF IInv, TypeOK, FlushLoad
    <2>3. FlushInv'
      BY <2>1 DEF IInv, FlushInv, FlushLoad
    <2> QED BY <1>1, <2>1, <2>2, <2>3 DEF IInv, FlushLoad, HandlerInv, LookedUp, Current, Counted
  <1>3. CASE cache # NotCached
    <2>1. /\ flush'.pc = "loaded" /\ flush'.seen = recent /\ flush'.cached = cache
          /\ flush'.row = flush.row
          /\ flush' \in [pc : {"idle", "rows", "loaded"}, row : Nat, cached : Nat, seen : SUBSET Index]
      BY <1>3 DEF IInv, TypeOK, FlushLoad
    <2>2. TypeOK'
      BY <2>1 DEF IInv, TypeOK, FlushLoad
    <2>3. FlushInv'
      BY <2>1 DEF IInv, FlushInv, FlushLoad
    <2>4. Current' /\ Counted'
      BY <2>1 DEF IInv, Current, Counted, FlushLoad
    <2> QED BY <1>1, <2>2, <2>3, <2>4 DEF IInv, FlushLoad, HandlerInv, LookedUp
  <1> QED BY <1>2, <1>3

\* ... and stores it unless the row is not smaller: either way the row is then
\* beyond those indices.
LEMMA FlushStoreStep ==
    ASSUME IInv, FlushStore PROVE IInv'
  <1>1. Behind'
    BY BehindKept DEF IInv, FlushStore
  <1>2. /\ flush'.pc = "idle" /\ flush'.seen = {}
        /\ flush' \in [pc : {"idle", "rows", "loaded"}, row : Nat, cached : Nat, seen : SUBSET Index]
        /\ flush.cached \in Nat /\ stored \in Nat /\ flush.row = stored
    BY DEF IInv, TypeOK, FlushInv, FlushStore, NoRow
  <1>3. stored' \in Nat /\ stored' >= stored /\ stored' >= flush.cached
    BY <1>2 DEF FlushStore, Flushed
  <1>4. durable' = durable \cup flush.seen /\ flush.seen \subseteq recent
    BY DEF IInv, FlushInv, FlushStore
  <1>5. TypeOK'
    BY <1>2, <1>3, <1>4 DEF IInv, TypeOK, FlushStore
  <1>6. FlushInv' /\ Current'
    BY <1>2, <1>4 DEF IInv, FlushInv, Current, FlushStore
  <1>7. Counted'
    <2> SUFFICES ASSUME onchain.open PROVE
           /\ \A i \in recent : cache # NotCached /\ i < cache
           /\ \A i \in durable' : i < stored' /\ (cache # NotCached => i < cache)
      BY <1>2 DEF Counted, FlushStore
    <2>1. ASSUME NEW i \in durable PROVE i < stored' /\ (cache # NotCached => i < cache)
      BY <1>2, <1>3 DEF IInv, Counted, TypeOK, Index
    <2>2. ASSUME NEW i \in flush.seen PROVE i < stored' /\ i < cache
      BY <1>2, <1>3, <1>4 DEF IInv, Counted, TypeOK, Index
    <2> QED BY <1>4, <2>1, <2>2 DEF IInv, Counted
  <1> QED BY <1>1, <1>5, <1>6, <1>7 DEF IInv, FlushStore, HandlerInv, LookedUp

\* A log on chain is one more pending log.
LEMMA Appended ==
    ASSUME TypeOK, NEW l \in Log, logs' = Append(logs, l)
    PROVE  logs' \in Seq(Log) /\ logs' # <<>>
  <1>1. logs \in Seq(Log)
    BY DEF TypeOK, Log
  <1>2. logs' \in Seq(Log) /\ Len(logs') = Len(logs) + 1 /\ Len(logs) \in Nat
    BY <1>1
  <1>3. logs' # <<>>
    <2>1. Len(<<>>) = 0
      OBVIOUS
    <2> QED BY <1>2, <2>1
  <1> QED BY <1>2, <1>3

\* A new incarnation starts with an empty history.
LEMMA ChainOpenStep ==
    ASSUME IInv, ChainOpen PROVE IInv'
  <1>1. /\ onchain' = [epoch |-> onchain.epoch + 1, open |-> TRUE, index |-> 0]
        /\ onchain.epoch + 1 \in 0 .. MaxEpoch
    BY OutgoingTicketIndexAssumption DEF IInv, TypeOK, ChainOpen
  <1>2. Opened \in Log /\ logs' = Append(logs, Opened)
    BY DEF ChainOpen, Opened, Log
  <1>3. Follows([epoch |-> onchain.epoch, open |-> onchain.open], Opened,
                [epoch |-> onchain'.epoch, open |-> onchain'.open])
    BY <1>1 DEF Follows, ChainOpen
  <1>4. Behind'
    <2>1. onchain'.epoch \in Nat /\ onchain'.open \in BOOLEAN
      BY <1>1, OutgoingTicketIndexAssumption
    <2>2. TypeOK /\ Behind /\ UNCHANGED <<entry, handler>>
      BY DEF IInv, ChainOpen
    <2> QED BY <1>2, <1>3, <2>1, <2>2, BehindAppend
  <1>5. /\ flush'.seen = {} /\ flush'.pc = flush.pc /\ flush'.row = flush.row
        /\ flush' \in [pc : {"idle", "rows", "loaded"}, row : Nat, cached : Nat, seen : SUBSET Index]
    BY DEF IInv, TypeOK, ChainOpen
  <1>6. TypeOK'
    <2>1. logs' \in Seq([name : {"ChannelOpened", "ChannelClosed", "TicketRedeemed"}, index : Nat])
      BY <1>2, Appended DEF IInv, Log
    <2> QED BY <1>1, <1>5, <2>1 DEF IInv, TypeOK, ChainOpen
  <1>7. HandlerInv'
    <2>1. logs' # <<>>
      BY <1>2, Appended DEF IInv
    <2> QED BY <2>1 DEF HandlerInv
  <1> QED BY <1>4, <1>5, <1>6, <1>7 DEF IInv, ChainOpen, LookedUp, Current, FlushInv, Counted

\* A closure on chain ends the claim on the counter.
LEMMA ChainCloseStep ==
    ASSUME IInv, ChainClose PROVE IInv'
  <1>1. /\ onchain'.epoch = onchain.epoch /\ onchain'.open = FALSE /\ onchain'.index = 0
        /\ onchain' \in [epoch : 0 .. MaxEpoch, open : BOOLEAN, index : Nat]
    BY DEF IInv, TypeOK, ChainClose
  <1>2. Closed \in Log /\ logs' = Append(logs, Closed)
    BY DEF ChainClose, Closed, Log
  <1>3. Follows([epoch |-> onchain.epoch, open |-> onchain.open], Closed,
                [epoch |-> onchain'.epoch, open |-> onchain'.open])
    BY <1>1 DEF Follows, ChainClose
  <1>4. Behind'
    <2>1. onchain'.epoch \in Nat /\ onchain'.open \in BOOLEAN
      BY <1>1, OutgoingTicketIndexAssumption
    <2>2. TypeOK /\ Behind /\ UNCHANGED <<entry, handler>>
      BY DEF IInv, ChainClose
    <2> QED BY <1>2, <1>3, <2>1, <2>2, BehindAppend
  <1>5. TypeOK'
    <2>1. logs' \in Seq([name : {"ChannelOpened", "ChannelClosed", "TicketRedeemed"}, index : Nat])
      BY <1>2, Appended DEF IInv, Log
    <2> QED BY <1>1, <2>1 DEF IInv, TypeOK, ChainClose
  <1>6. HandlerInv'
    <2>1. logs' # <<>>
      BY <1>2, Appended DEF IInv
    <2> QED BY <2>1 DEF HandlerInv
  <1> QED BY <1>1, <1>4, <1>5, <1>6 DEF IInv, ChainClose, LookedUp, Current, FlushInv, Counted

\* A redemption on chain only announces an index.
LEMMA ChainRedeemStep ==
    ASSUME IInv, NEW i \in Index, ChainRedeem(i) PROVE IInv'
  <1>1. /\ onchain'.epoch = onchain.epoch /\ onchain'.open = onchain.open /\ onchain.open
        /\ onchain' \in [epoch : 0 .. MaxEpoch, open : BOOLEAN, index : Nat]
    <2>1. i + 1 \in Nat
      BY DEF Index
    <2> QED BY <2>1 DEF IInv, TypeOK, ChainRedeem
  <1>2. Redeemed(i + 1) \in Log /\ logs' = Append(logs, Redeemed(i + 1))
    BY DEF ChainRedeem, Redeemed, Log, Index
  <1>3. Follows([epoch |-> onchain.epoch, open |-> onchain.open], Redeemed(i + 1),
                [epoch |-> onchain'.epoch, open |-> onchain'.open])
    BY <1>1 DEF Follows, Redeemed
  <1>4. Behind'
    <2>1. onchain'.epoch \in Nat /\ onchain'.open \in BOOLEAN
      BY <1>1, OutgoingTicketIndexAssumption
    <2>2. TypeOK /\ Behind /\ UNCHANGED <<entry, handler>>
      BY DEF IInv, ChainRedeem
    <2> QED BY <1>2, <1>3, <2>1, <2>2, BehindAppend
  <1>5. TypeOK'
    <2>1. logs' \in Seq([name : {"ChannelOpened", "ChannelClosed", "TicketRedeemed"}, index : Nat])
      BY <1>2, Appended DEF IInv, Log
    <2> QED BY <1>1, <2>1 DEF IInv, TypeOK, ChainRedeem
  <1>6. HandlerInv'
    <2>1. logs' # <<>>
      BY <1>2, Appended DEF IInv
    <2> QED BY <2>1 DEF HandlerInv
  <1> QED BY <1>1, <1>4, <1>5, <1>6 DEF IInv, ChainRedeem, LookedUp, Current, FlushInv, Counted

\* The handler resets the counter only when nothing of the open incarnation
\* depends on it.
LEMMA HandleStep ==
    ASSUME IInv, Handle PROVE IInv'
  <1>1. Behind'
    BY BehindKept DEF IInv, Handle
  <1>2. Head(logs) \in Log /\ logs # <<>>
    <2>1. logs \in Seq(Log) /\ logs # <<>>
      BY DEF IInv, TypeOK, Handle, Log
    <2> QED BY <2>1
  <1>3. cache' \in Nat \cup {NotCached} /\ stored' \in Nat \cup {NoRow} /\ FlushInv' /\ Counted'
    <2>1. CASE Resets
      <3>1. cache' = 0 /\ stored' = RowLoaded /\ RowLoaded \in Nat
        BY <2>1, LoadedType DEF IInv, Handle, reset_outgoing_ticket_index
      <3>2. FlushInv'
        BY <3>1, LoadedType DEF IInv, FlushInv, Handle, NoRow
      <3>3. onchain.open => recent \cup durable \cup flush.seen = {}
        BY <1>2, <2>1, NoResetWhenCurrent DEF IInv, Current
      <3>4. Counted'
        BY <3>3 DEF Counted, Handle
      <3> QED BY <3>1, <3>2, <3>4
    <2>2. CASE ~Resets /\ Head(logs).name = "TicketRedeemed"
      <3>1. compare_and_set_outgoing_ticket_index(Head(logs).index)
        BY <2>2 DEF Handle
      <3>2. Head(logs).index \in Nat
        BY <1>2 DEF Log
      <3> QED BY <3>1, <3>2, RaisedCounter DEF IInv, Handle
    <2>3. CASE ~Resets /\ Head(logs).name # "TicketRedeemed"
      BY <2>3 DEF IInv, TypeOK, Handle, FlushInv, Counted
    <2> QED BY <2>1, <2>2, <2>3
  <1>4. TypeOK'
    BY <1>3 DEF IInv, TypeOK, Handle, NotCached
  <1>5. LookedUp'
    BY DEF IInv, TypeOK, LookedUp, Handle, NotCached
  <1> QED BY <1>1, <1>2, <1>3, <1>4, <1>5 DEF IInv, Handle, HandlerInv, Current

\* The committed entry does not overtake the chain.
LEMMA CommitStep ==
    ASSUME IInv, Commit PROVE IInv'
  <1>1. Behind' /\ entry'.epoch >= entry.epoch
                /\ entry' \in [epoch : 0 .. MaxEpoch, open : BOOLEAN]
    BY BehindCommit DEF IInv
  <1>2. TypeOK'
    BY <1>1 DEF IInv, TypeOK, Commit
  <1>3. LookedUp'
    BY <1>1, OutgoingTicketIndexAssumption DEF IInv, TypeOK, LookedUp, Commit, NotCached
  <1>4. entry'.epoch <= onchain'.epoch
    <2>1. (TypeOK /\ Behind => entry.epoch <= onchain.epoch)'
      BY EntryBehind, PTL
    <2> QED BY <1>1, <1>2, <2>1
  <1>5. Current'
    BY <1>1, <1>4 DEF IInv, TypeOK, Current, Commit
  <1> QED BY <1>1, <1>2, <1>3, <1>5 DEF IInv, Commit, HandlerInv, FlushInv, Counted

\* Marking the log changes nothing else.
LEMMA MarkProcessedStep ==
    ASSUME IInv, MarkProcessed PROVE IInv'
  <1>1. Behind'
    BY BehindMark DEF IInv
  <1>2. logs' \in Seq([name : {"ChannelOpened", "ChannelClosed", "TicketRedeemed"}, index : Nat])
    BY DEF IInv, TypeOK, HandlerInv, MarkProcessed
  <1>3. TypeOK'
    BY <1>2 DEF IInv, TypeOK, MarkProcessed
  <1> QED BY <1>1, <1>3 DEF IInv, MarkProcessed, HandlerInv, LookedUp, Current, FlushInv, Counted

\* Losing the cached channel loses no ticket index.
LEMMA ExpireChannelStep ==
    ASSUME IInv, ExpireChannel PROVE IInv'
  <1>1. Behind'
    BY BehindKept DEF IInv, ExpireChannel
  <1>2. TypeOK'
    BY DEF IInv, TypeOK, ExpireChannel, NotCached
  <1>3. LookedUp'
    BY DEF IInv, TypeOK, LookedUp, ExpireChannel, NotCached
  <1> QED BY <1>1, <1>2, <1>3 DEF IInv, ExpireChannel, HandlerInv, Current, FlushInv, Counted

\* A restart forgets the cached counter and every index issued since the last
\* one; the stored counter stays beyond the durable indices.
LEMMA CrashStep ==
    ASSUME IInv, Crash PROVE IInv'
  <1>1. Behind'
    BY BehindKept DEF IInv, Crash
  <1>2. /\ flush'.pc = "idle" /\ flush'.seen = {}
        /\ flush' \in [pc : {"idle", "rows", "loaded"}, row : Nat, cached : Nat, seen : SUBSET Index]
    BY DEF IInv, TypeOK, Crash
  <1>3. TypeOK'
    BY <1>2, OutgoingTicketIndexAssumption DEF IInv, TypeOK, Crash, NotCached, Idle
  <1>4. LookedUp'
    BY DEF IInv, TypeOK, LookedUp, Crash, NotCached, Idle
  <1> QED BY <1>1, <1>2, <1>3, <1>4 DEF IInv, Crash, HandlerInv, Current, FlushInv, Counted

\* The invariant is inductive: every step of the specification preserves it.
LEMMA StepIInv == IInv /\ [Next]_vars => IInv'
  <1> SUFFICES ASSUME IInv, [Next]_vars PROVE IInv'
    OBVIOUS
  <1>1. ASSUME NEW t \in Task, LookUp(t) \/ GiveUp(t) \/ Issue(t) PROVE IInv'
    BY <1>1, LookUpStep, GiveUpStep, IssueStep
  <1>2. ASSUME NEW e \in Epoch, NEW i \in Index, aggregate_tickets(e, i) PROVE IInv'
    BY <1>2, AggregateStep
  <1>3. CASE FlushRows \/ FlushLoad \/ FlushStore
    BY <1>3, FlushRowsStep, FlushLoadStep, FlushStoreStep
  <1>4. CASE ChainOpen \/ ChainClose \/ \E i \in Index : ChainRedeem(i)
    BY <1>4, ChainOpenStep, ChainCloseStep, ChainRedeemStep
  <1>5. CASE Handle \/ Commit \/ MarkProcessed
    BY <1>5, HandleStep, CommitStep, MarkProcessedStep
  <1>6. CASE ExpireChannel \/ Crash
    BY <1>6, ExpireChannelStep, CrashStep
  <1>7. CASE UNCHANGED vars
    <2>1. Behind'
      BY <1>7, BehindKept DEF IInv, vars
    <2> QED BY <1>7, <2>1 DEF IInv, vars, TypeOK, HandlerInv, LookedUp, Current, FlushInv, Counted
  <1> QED BY <1>1, <1>2, <1>3, <1>4, <1>5, <1>6, <1>7 DEF Next

--------------------------------------------------------------------------------
(* The theorems *)

\* In every behaviour every variable has its type: the counters are numbers, the
\* entry is never ahead of the bound, and issued indices stay in range.
THEOREM TypeCorrect == Spec => []TypeOK
  <1>1. IInv => TypeOK
    BY DEF IInv
  <1> QED BY InitIInv, StepIInv, <1>1, PTL DEF Spec

\* For any number of tasks, incarnations, restarts and pending logs, a ticket
\* numbered for the channel that is open on chain never carries an index that
\* was issued since the last restart or made durable by a completed
\* persist_outgoing_ticket_indices: neither a reset by the indexer, a log
\* handled twice, a late lookup nor a flush that races with all of them lowers
\* the counter below such an index.
THEOREM NoReissueTheorem == Spec => NoReissue
  <1>1. IInv => FreshIndex
    <2> SUFFICES ASSUME IInv, NEW t \in Task, Numbers(t), Loaded \in recent \cup durable
                 PROVE  FALSE
      BY DEF FreshIndex
    <2>1. onchain.open
      BY DEF Numbers
    <2>2. CASE Loaded \in recent
      BY <2>1, <2>2, LoadedType DEF IInv, Counted
    <2>3. CASE Loaded \in durable
      BY <2>1, <2>3, LoadedType DEF IInv, Counted, TypeOK, NotCached, NoRow
    <2> QED BY <2>2, <2>3
  <1>2. IInv /\ [Next]_vars => [FreshIndex]_vars
    BY <1>1
  <1> QED BY InitIInv, StepIInv, <1>2, PTL DEF Spec, NoReissue
================================================================================
