---------------------------- MODULE ChannelsProofs ----------------------------
(* Machine-checked proofs about the HoprChannels contract. *)
EXTENDS Channels, FiniteSetTheorems, WellFoundedInduction, TLAPS

\* A node has no channel to itself, so that the channel a redemption spends
\* from and the one it earns into are different.
NoSelfChannel == \A n \in Node : channels[<<n, n>>].status = CLOSED

\* Nothing was paid yet for a later incarnation, nor in the current one at or
\* beyond the ticket index of the channel.
FreshUnpaid ==
    \A c \in ChannelId, e \in Epochs, i \in Indices :
        \/ e > channels[c].epoch
        \/ /\ e = channels[c].epoch
           /\ channels[c].status # CLOSED
           /\ i >= channels[c].ticketIndex
        => paid[c][e][i] = 0

\* The closure time of a pending channel stems from its latest notice.
NoticeRecorded ==
    \A c \in ChannelId :
        channels[c].status = PENDING
            => noticed[c] \in Nat /\ channels[c].closureTime = noticed[c] + NoticePeriod

\* A closed channel has no funds.
ClosedEmpty == \A c \in ChannelId : channels[c].status = CLOSED => channels[c].balance = 0

IndInv ==
    /\ TypeOK
    /\ NoSelfChannel
    /\ FreshUnpaid
    /\ IndexPaidOnce
    /\ NoticeRecorded
    /\ ClosedEmpty

-------------------------------------------------------------------------------
(* Lemmas about the operators *)

EventRecord == [name : EventName, id : ChannelId, value : Nat]

\* Events are well formed.
LEMMA EventType ==
    ASSUME NEW n \in EventName, NEW c \in ChannelId, NEW x \in Nat
    PROVE  Event(n, c, x) \in EventRecord
BY DEF Event, EventRecord

\* Funding logs are well formed.
LEMMA FundLogsType ==
    ASSUME NEW c \in ChannelId, NEW ch \in Channel, NEW a \in Nat
    PROVE  FundLogs(c, ch, a) \in Seq(EventRecord)
<1>1. Event("ChannelOpened", c, 0) \in EventRecord
  BY EventType DEF EventName
<1>2. Event("ChannelBalanceIncreased", c, ch.balance + a) \in EventRecord
  <2>1. ch.balance + a \in Nat
    BY DEF Channel
  <2> QED BY <2>1, EventType DEF EventName
<1>3. CASE ch.status = CLOSED
  BY <1>1, <1>2, <1>3 DEF FundLogs
<1>4. CASE ch.status # CLOSED
  BY <1>2, <1>4 DEF FundLogs
<1> QED BY <1>3, <1>4

\* What funding does to a channel.
LEMMA FundedFacts ==
    ASSUME NEW ch \in Channel, NEW a \in Nat,
           ch.status = CLOSED => ch.epoch < MaxEpoch
    PROVE  /\ Funded(ch, a) \in Channel
           /\ Funded(ch, a).balance = ch.balance + a
           /\ ch.status = CLOSED =>
                 /\ Funded(ch, a).status = OPEN
                 /\ Funded(ch, a).epoch = ch.epoch + 1
           /\ ch.status # CLOSED =>
                 /\ Funded(ch, a).status = ch.status
                 /\ Funded(ch, a).epoch = ch.epoch
                 /\ Funded(ch, a).ticketIndex = ch.ticketIndex
                 /\ Funded(ch, a).closureTime = ch.closureTime
<1>1. CASE ch.status = CLOSED
  <2>1. Funded(ch, a) = [ch EXCEPT !.balance = ch.balance + a, !.epoch = ch.epoch + 1,
                                  !.ticketIndex = 0, !.status = OPEN]
    BY <1>1 DEF Funded
  <2>2. /\ ch.balance + a \in Nat
        /\ ch.epoch + 1 \in Epochs
        /\ 0 \in Indices
        /\ OPEN \in Status
    BY <1>1, ChannelsAssumption DEF Channel, Epochs, Indices, Status
  <2> QED BY <1>1, <2>1, <2>2 DEF Channel
<1>2. CASE ch.status # CLOSED
  BY <1>2 DEF Funded, Channel
<1> QED BY <1>1, <1>2

\* What closing does to a channel.
LEMMA ClosedFromFacts ==
    ASSUME NEW ch \in Channel
    PROVE  /\ ClosedFrom(ch) \in Channel
           /\ ClosedFrom(ch).status = CLOSED
           /\ ClosedFrom(ch).epoch = ch.epoch
           /\ ClosedFrom(ch).balance = 0
<1>1. 0 \in Nat /\ 0 \in Indices /\ CLOSED \in Status
  BY ChannelsAssumption DEF Indices, Status
<1> QED BY <1>1 DEF ClosedFrom, Channel

\* What a redemption does to the spending and to the earning channel.
LEMMA SpentFacts ==
    ASSUME NEW ch \in Channel, NEW t \in TicketData, Redeemable(ch, t)
    PROVE  /\ Spent(ch, t) \in Channel
           /\ Spent(ch, t).status = ch.status
           /\ Spent(ch, t).epoch = ch.epoch
           /\ Spent(ch, t).closureTime = ch.closureTime
           /\ Spent(ch, t).balance = ch.balance - t.amount
           /\ Spent(ch, t).ticketIndex = t.ticketIndex + t.indexOffset
           /\ t.amount \in Nat /\ t.amount > 0 /\ t.amount <= ch.balance
           /\ t.indexOffset \in Nat /\ t.indexOffset > 0
           /\ t.ticketIndex \in Nat /\ t.ticketIndex >= ch.ticketIndex
           /\ t.epoch = ch.epoch
           /\ ch.status # CLOSED
<1>1. /\ t.amount \in Nat /\ t.amount > 0 /\ t.amount <= ch.balance
      /\ t.indexOffset \in Nat /\ t.indexOffset > 0
      /\ t.ticketIndex \in Nat /\ t.ticketIndex >= ch.ticketIndex
      /\ t.ticketIndex + t.indexOffset <= MaxTicketIndex
      /\ t.epoch = ch.epoch
  BY ChannelsAssumption DEF TicketData, Redeemable, Interval, ValidBalance, Indices
<1>2. ch.balance - t.amount \in Nat /\ t.ticketIndex + t.indexOffset \in Indices
  BY <1>1, ChannelsAssumption DEF Channel, Indices
<1>3. ch.status # CLOSED
  BY DEF Redeemable, CLOSED, OPEN, PENDING
<1> QED BY <1>1, <1>2, <1>3 DEF Spent, Channel

\* Earning adds to the redeemer's channel unless that is closed.
LEMMA EarnedFacts ==
    ASSUME NEW ch \in Channel, NEW a \in Nat
    PROVE  /\ Earned(ch, a) \in Channel
           /\ Earned(ch, a).status = ch.status
           /\ Earned(ch, a).epoch = ch.epoch
           /\ Earned(ch, a).ticketIndex = ch.ticketIndex
           /\ Earned(ch, a).closureTime = ch.closureTime
           /\ ch.status = CLOSED => Earned(ch, a) = ch
           /\ ch.status # CLOSED => Earned(ch, a).balance = ch.balance + a
<1>1. ch.balance + a \in Nat
  BY DEF Channel
<1>2. CASE ch.status = CLOSED
  BY <1>2 DEF Earned
<1>3. CASE ch.status # CLOSED
  BY <1>1, <1>3 DEF Earned, Channel
<1> QED BY <1>2, <1>3

-------------------------------------------------------------------------------
(* Each action preserves the inductive invariant *)

\* The deployed contract satisfies the invariant.
LEMMA InitIndInv == Init => IndInv
<1> SUFFICES ASSUME Init PROVE IndInv
  OBVIOUS
<1> USE ChannelsAssumption DEF Init
<1>1. Unused \in Channel /\ Unused.status = CLOSED /\ Unused.epoch = 0 /\ Unused.balance = 0
  BY DEF Unused, Channel, Epochs, Indices, Status, CLOSED
<1>2. TypeOK
  BY <1>1 DEF TypeOK
<1>3. NoSelfChannel /\ ClosedEmpty
  BY <1>1 DEF NoSelfChannel, ClosedEmpty, ChannelId
<1>4. FreshUnpaid /\ IndexPaidOnce
  BY DEF FreshUnpaid, IndexPaidOnce
<1>5. NoticeRecorded
  BY <1>1 DEF NoticeRecorded, CLOSED, PENDING
<1> QED BY <1>2, <1>3, <1>4, <1>5 DEF IndInv

\* Every channel is left alone or funded as _fundChannelInternal allows.
FundsOnly ==
    \A c \in ChannelId :
        \/ channels'[c] = channels[c]
        \/ \E a \in Nat :
              /\ channels'[c] = Funded(channels[c], a)
              /\ c[1] # c[2]
              /\ a > 0
              /\ channels[c].status # PENDING
              /\ channels[c].status = CLOSED => channels[c].epoch < MaxEpoch

\* Funding, in any direction, preserves the invariant.
LEMMA FundStep ==
    ASSUME IndInv, FundsOnly, UNCHANGED <<now, paid, noticed>>,
           channels' = [c \in ChannelId |-> channels'[c]],
           held' \in Int, logs' \in Seq(EventRecord)
    PROVE  IndInv'
<1> USE DEF IndInv
<1>0. \A c \in ChannelId : channels[c] \in Channel
  BY DEF TypeOK
<1>1. ASSUME NEW c \in ChannelId
      PROVE  /\ channels'[c] \in Channel
             /\ c[1] = c[2] => channels'[c] = channels[c]
             /\ channels'[c].status = CLOSED => channels'[c] = channels[c]
             /\ channels'[c].status = PENDING => channels'[c] = channels[c]
             /\ \/ channels[c].status = CLOSED /\ channels'[c].epoch = channels[c].epoch + 1
                \/ /\ channels'[c].epoch = channels[c].epoch
                   /\ channels'[c].status = channels[c].status
                   /\ channels'[c].ticketIndex = channels[c].ticketIndex
  <2>1. CASE channels'[c] = channels[c]
    BY <1>0, <2>1
  <2>2. CASE channels'[c] # channels[c]
    <3>1. PICK a \in Nat : /\ channels'[c] = Funded(channels[c], a)
                           /\ c[1] # c[2]
                           /\ channels[c].status # PENDING
                           /\ channels[c].status = CLOSED => channels[c].epoch < MaxEpoch
      BY <2>2 DEF FundsOnly
    <3>2. channels[c] \in Channel
      BY <1>0
    <3> QED BY <3>1, <3>2, FundedFacts DEF CLOSED, OPEN, PENDING
  <2> QED BY <2>1, <2>2
<1>2. TypeOK'
  BY <1>1 DEF TypeOK, EventRecord
<1>3. NoSelfChannel'
  <2> SUFFICES ASSUME NEW n \in Node PROVE channels'[<<n, n>>].status = CLOSED
    BY DEF NoSelfChannel
  <2>1. <<n, n>> \in ChannelId /\ <<n, n>>[1] = <<n, n>>[2]
    BY DEF ChannelId
  <2> QED BY <1>1, <2>1 DEF NoSelfChannel
<1>4. FreshUnpaid'
  <2> SUFFICES ASSUME NEW c \in ChannelId, NEW e \in Epochs, NEW i \in Indices,
                      \/ e > channels'[c].epoch
                      \/ /\ e = channels'[c].epoch
                         /\ channels'[c].status # CLOSED
                         /\ i >= channels'[c].ticketIndex
               PROVE  paid[c][e][i] = 0
    BY DEF FreshUnpaid
  <2>1. channels[c].epoch \in Nat /\ e \in Nat
    BY <1>0, ChannelsAssumption DEF Channel, Epochs
  <2> QED BY <1>1, <2>1 DEF FreshUnpaid
<1>5. IndexPaidOnce'
  BY DEF IndexPaidOnce
<1>6. NoticeRecorded'
  BY <1>1 DEF NoticeRecorded
<1>7. ClosedEmpty'
  BY <1>1 DEF ClosedEmpty
<1> QED BY <1>2, <1>3, <1>4, <1>5, <1>6, <1>7

\* fundChannel, fundChannelSafe and the one-channel hook.
LEMMA FundChannelStep ==
    ASSUME IndInv, NEW s \in Node, NEW d \in Node, NEW a \in Nat, fundChannel(s, d, a)
    PROVE  IndInv'
<1> DEFINE c == <<s, d>>
<1>1. c \in ChannelId /\ c[1] = s /\ c[2] = d
  BY DEF ChannelId
<1>2. channels \in [ChannelId -> Channel] /\ held \in Int
  BY DEF IndInv, TypeOK
<1>3. channels' = [channels EXCEPT ![c] = Funded(channels[c], a)]
  BY DEF fundChannel
<1>4. FundsOnly
  BY <1>1, <1>2, <1>3 DEF FundsOnly, fundChannel, Fundable, ValidBalance
<1>5. logs' \in Seq(EventRecord)
  BY <1>1, <1>2, FundLogsType DEF fundChannel
<1>6. held' \in Int /\ UNCHANGED <<now, paid, noticed>>
  BY <1>2 DEF fundChannel
<1>7. channels' = [x \in ChannelId |-> channels'[x]]
  BY <1>2, <1>3
<1> QED BY <1>4, <1>5, <1>6, <1>7, FundStep

\* The two-channel hook of tokensReceived.
LEMMA FundBidirectionalStep ==
    ASSUME IndInv, NEW s \in Node, NEW d \in Node, NEW a1 \in Nat, NEW a2 \in Nat,
           fundBidirectional(s, d, a1, a2)
    PROVE  IndInv'
<1> DEFINE c1 == <<s, d>>
           c2 == <<d, s>>
<1>1. /\ c1 \in ChannelId /\ c1[1] = s /\ c1[2] = d
      /\ c2 \in ChannelId /\ c2[1] = d /\ c2[2] = s
  BY DEF ChannelId
<1>2. channels \in [ChannelId -> Channel] /\ held \in Int
  BY DEF IndInv, TypeOK
<1>3. /\ a1 > 0 => Fundable(channels, s, d, a1)
      /\ a2 > 0 => Fundable(channels, d, s, a2)
      /\ a1 > 0 \/ a2 > 0
  BY DEF fundBidirectional
<1>4. s # d
  BY <1>3 DEF Fundable
<1>5. /\ a1 = 0 => channels' = [channels EXCEPT ![c2] = Funded(channels[c2], a2)]
      /\ a2 = 0 => channels' = [channels EXCEPT ![c1] = Funded(channels[c1], a1)]
      /\ a1 > 0 /\ a2 > 0 =>
            channels' = [[channels EXCEPT ![c1] = Funded(channels[c1], a1)]
                                   EXCEPT ![c2] = Funded(channels[c2], a2)]
  BY <1>1, <1>2, <1>3, <1>4 DEF fundBidirectional
<1>6. \A x \in ChannelId :
         \/ channels'[x] = channels[x]
         \/ x = c1 /\ a1 > 0 /\ channels'[x] = Funded(channels[x], a1)
         \/ x = c2 /\ a2 > 0 /\ channels'[x] = Funded(channels[x], a2)
  BY <1>1, <1>2, <1>3, <1>4, <1>5
<1>7. FundsOnly
  BY <1>1, <1>3, <1>4, <1>6 DEF FundsOnly, Fundable
<1>8. logs' \in Seq(EventRecord)
  <2>1. /\ FundLogs(c1, channels[c1], a1) \in Seq(EventRecord)
        /\ FundLogs(c2, channels[c2], a2) \in Seq(EventRecord)
    BY <1>1, <1>2, FundLogsType
  <2> DEFINE L1 == IF a1 = 0 THEN <<>> ELSE FundLogs(c1, channels[c1], a1)
             L2 == IF a2 = 0 THEN <<>> ELSE FundLogs(c2, channels[c2], a2)
  <2>2. L1 \in Seq(EventRecord) /\ L2 \in Seq(EventRecord)
    BY <2>1
  <2>3. logs' = L1 \o L2
    BY DEF fundBidirectional
  <2> HIDE DEF L1, L2
  <2> QED BY <2>2, <2>3
<1>9. held' \in Int /\ UNCHANGED <<now, paid, noticed>>
  BY <1>2 DEF fundBidirectional
<1>10. channels' = [x \in ChannelId |-> channels'[x]]
  BY <1>2, <1>5, <1>3
<1> QED BY <1>7, <1>8, <1>9, <1>10, FundStep

\* Steps that leave the channels and their history alone.
LEMMA QuietStep ==
    ASSUME IndInv, UNCHANGED <<channels, paid, noticed>>,
           held' \in Int, now' \in Nat, logs' \in Seq(EventRecord)
    PROVE  IndInv'
BY DEF IndInv, TypeOK, NoSelfChannel, FreshUnpaid, IndexPaidOnce,
       NoticeRecorded, ClosedEmpty, EventRecord

\* initiateOutgoingChannelClosure.
LEMMA InitiateStep ==
    ASSUME IndInv, NEW s \in Node, NEW d \in Node, initiateOutgoingChannelClosure(s, d)
    PROVE  IndInv'
<1> USE DEF IndInv
<1> DEFINE c == <<s, d>>
<1>1. c \in ChannelId /\ c[1] = s /\ c[2] = d
  BY DEF ChannelId
<1>2. /\ channels \in [ChannelId -> Channel] /\ now \in Nat
      /\ NoticePeriod \in Nat /\ noticed \in [ChannelId -> Nat \cup {-1}]
  BY ChannelsAssumption DEF TypeOK
<1>3. /\ channels[c].status # CLOSED
      /\ channels' = [channels EXCEPT ![c].closureTime = now + NoticePeriod,
                                      ![c].status = PENDING]
      /\ noticed' = [noticed EXCEPT ![c] = now]
      /\ UNCHANGED <<held, now, paid>>
  BY DEF initiateOutgoingChannelClosure
<1>4. /\ channels'[c] \in Channel
      /\ channels'[c].status = PENDING
      /\ channels'[c].closureTime = now + NoticePeriod
      /\ channels'[c].epoch = channels[c].epoch
      /\ channels'[c].ticketIndex = channels[c].ticketIndex
      /\ \A x \in ChannelId : x # c => channels'[x] = channels[x]
  BY <1>1, <1>2, <1>3 DEF Channel, Status
<1>5. s # d
  BY <1>3 DEF NoSelfChannel
<1>6. TypeOK'
  <2>1. channels' \in [ChannelId -> Channel]
    BY <1>1, <1>2, <1>3, <1>4
  <2>2. Event("OutgoingChannelClosureInitiated", c, now + NoticePeriod) \in EventRecord
    <3>1. now + NoticePeriod \in Nat
      BY <1>2
    <3> QED BY <1>1, <3>1, EventType DEF EventName
  <2>3. logs' \in Seq(EventRecord)
    BY <2>2 DEF initiateOutgoingChannelClosure
  <2> QED BY <1>2, <1>3, <2>1, <2>3 DEF TypeOK, EventRecord
<1>7. NoSelfChannel'
  <2> SUFFICES ASSUME NEW n \in Node PROVE channels'[<<n, n>>].status = CLOSED
    BY DEF NoSelfChannel
  <2>1. <<n, n>> \in ChannelId /\ <<n, n>> # c
    BY <1>5 DEF ChannelId
  <2> QED BY <1>4, <2>1 DEF NoSelfChannel
<1>8. FreshUnpaid'
  <2> SUFFICES ASSUME NEW x \in ChannelId, NEW e \in Epochs, NEW i \in Indices,
                      \/ e > channels'[x].epoch
                      \/ /\ e = channels'[x].epoch
                         /\ channels'[x].status # CLOSED
                         /\ i >= channels'[x].ticketIndex
               PROVE  paid[x][e][i] = 0
    BY <1>3 DEF FreshUnpaid
  <2>1. CASE x = c
    BY <1>3, <1>4, <2>1 DEF FreshUnpaid
  <2>2. CASE x # c
    BY <1>4, <2>2 DEF FreshUnpaid
  <2> QED BY <2>1, <2>2
<1>9. IndexPaidOnce'
  BY <1>3 DEF IndexPaidOnce
<1>10. NoticeRecorded'
  BY <1>1, <1>2, <1>3, <1>4 DEF NoticeRecorded
<1>11. ClosedEmpty'
  BY <1>4 DEF ClosedEmpty, CLOSED, PENDING
<1> QED BY <1>6, <1>7, <1>8, <1>9, <1>10, <1>11

\* The common end of closeIncomingChannel and finalizeOutgoingChannelClosure.
LEMMA CloseStep ==
    ASSUME IndInv, NEW s \in Node, NEW d \in Node, Close(<<s, d>>)
    PROVE  IndInv'
<1> USE DEF IndInv
<1> DEFINE c == <<s, d>>
<1>1. c \in ChannelId
  BY DEF ChannelId
<1>2. /\ channels \in [ChannelId -> Channel]
      /\ noticed \in [ChannelId -> Nat \cup {-1}]
  BY DEF TypeOK
<1>3. /\ channels' = [channels EXCEPT ![c] = ClosedFrom(channels[c])]
      /\ noticed' = [noticed EXCEPT ![c] = -1]
      /\ UNCHANGED <<now, paid>>
  BY DEF Close
<1>4. /\ channels'[c] \in Channel
      /\ channels'[c].status = CLOSED
      /\ channels'[c].epoch = channels[c].epoch
      /\ channels'[c].balance = 0
      /\ \A x \in ChannelId : x # c => channels'[x] = channels[x]
  BY <1>1, <1>2, <1>3, ClosedFromFacts
<1>5. TypeOK'
  <2>1. channels' \in [ChannelId -> Channel]
    BY <1>1, <1>2, <1>3, <1>4
  <2>2. Event("ChannelClosed", c, 0) \in EventRecord
    BY <1>1, EventType DEF EventName
  <2>3. held' \in Int
    BY <1>1, <1>2 DEF Close, TypeOK, Channel
  <2> QED BY <1>2, <1>3, <2>1, <2>2, <2>3 DEF TypeOK, EventRecord, Close
<1>6. NoSelfChannel'
  <2> SUFFICES ASSUME NEW n \in Node PROVE channels'[<<n, n>>].status = CLOSED
    BY DEF NoSelfChannel
  <2>1. <<n, n>> \in ChannelId
    BY DEF ChannelId
  <2> QED BY <1>4, <2>1 DEF NoSelfChannel
<1>7. FreshUnpaid'
  BY <1>3, <1>4 DEF FreshUnpaid
<1>8. IndexPaidOnce'
  BY <1>3 DEF IndexPaidOnce
<1>9. NoticeRecorded'
  BY <1>2, <1>3, <1>4 DEF NoticeRecorded, CLOSED, PENDING
<1>10. ClosedEmpty'
  BY <1>4 DEF ClosedEmpty
<1> QED BY <1>5, <1>6, <1>7, <1>8, <1>9, <1>10

\* redeemTicket: the paid interval lies at or beyond the ticket index, where
\* nothing was paid before.
LEMMA RedeemStep ==
    ASSUME IndInv, NEW s \in Node, NEW d \in Node, NEW t \in TicketData,
           redeemTicket(s, d, t)
    PROVE  IndInv'
<1> USE DEF IndInv
<1> DEFINE c == <<s, d>>
           b == <<d, s>>
<1>1. c \in ChannelId /\ b \in ChannelId
  BY DEF ChannelId
<1>2. /\ channels \in [ChannelId -> Channel]
      /\ paid \in [ChannelId -> [Epochs -> [Indices -> Nat]]]
  BY DEF TypeOK
<1>3. Redeemable(channels[c], t)
  BY DEF redeemTicket
<1>4. /\ Spent(channels[c], t) \in Channel
      /\ Spent(channels[c], t).status = channels[c].status
      /\ Spent(channels[c], t).epoch = channels[c].epoch
      /\ Spent(channels[c], t).closureTime = channels[c].closureTime
      /\ Spent(channels[c], t).balance = channels[c].balance - t.amount
      /\ Spent(channels[c], t).ticketIndex = t.ticketIndex + t.indexOffset
      /\ t.amount \in Nat /\ t.amount > 0 /\ t.amount <= channels[c].balance
      /\ t.indexOffset \in Nat /\ t.indexOffset > 0
      /\ t.ticketIndex \in Nat /\ t.ticketIndex >= channels[c].ticketIndex
      /\ t.epoch = channels[c].epoch
      /\ channels[c].status # CLOSED
  BY <1>1, <1>2, <1>3, SpentFacts
<1>5. s # d /\ c # b
  BY <1>4 DEF NoSelfChannel
<1>6. channels' = [[channels EXCEPT ![c] = Spent(channels[c], t)]
                             EXCEPT ![b] = Earned(channels[b], t.amount)]
  BY <1>1, <1>2, <1>5 DEF redeemTicket
<1>7. /\ channels'[c] = Spent(channels[c], t)
      /\ channels'[b] = Earned(channels[b], t.amount)
      /\ \A x \in ChannelId : x # c /\ x # b => channels'[x] = channels[x]
      /\ channels' = [x \in ChannelId |-> channels'[x]]
  BY <1>1, <1>2, <1>5, <1>6
<1>8. /\ Earned(channels[b], t.amount) \in Channel
      /\ Earned(channels[b], t.amount).status = channels[b].status
      /\ Earned(channels[b], t.amount).epoch = channels[b].epoch
      /\ Earned(channels[b], t.amount).ticketIndex = channels[b].ticketIndex
      /\ Earned(channels[b], t.amount).closureTime = channels[b].closureTime
      /\ channels[b].status = CLOSED => Earned(channels[b], t.amount) = channels[b]
  BY <1>1, <1>2, <1>4, EarnedFacts
<1>9. \A x \in ChannelId :
         /\ channels'[x] \in Channel
         /\ channels'[x].status = channels[x].status
         /\ channels'[x].epoch = channels[x].epoch
         /\ channels'[x].closureTime = channels[x].closureTime
         /\ x # c => channels'[x].ticketIndex = channels[x].ticketIndex
         /\ channels[x].status = CLOSED => channels'[x] = channels[x]
  BY <1>2, <1>4, <1>7, <1>8
<1>10. /\ paid' = [paid EXCEPT ![c][t.epoch] =
                      [i \in Indices |-> IF Covers(t, i)
                                         THEN paid[c][t.epoch][i] + 1
                                         ELSE paid[c][t.epoch][i]]]
       /\ UNCHANGED <<now, noticed>>
  BY DEF redeemTicket
<1>11. t.epoch \in Epochs
  BY DEF TicketData
<1>12. /\ paid' \in [ChannelId -> [Epochs -> [Indices -> Nat]]]
       /\ \A x \in ChannelId, e \in Epochs, i \in Indices :
             paid'[x][e][i] = IF x = c /\ e = t.epoch /\ Covers(t, i)
                              THEN paid[x][e][i] + 1 ELSE paid[x][e][i]
  <2> DEFINE R == [i \in Indices |-> IF Covers(t, i) THEN paid[c][t.epoch][i] + 1
                                    ELSE paid[c][t.epoch][i]]
  <2>1. R \in [Indices -> Nat]
    BY <1>1, <1>2, <1>11
  <2>2. \A i \in Indices : R[i] = IF Covers(t, i) THEN paid[c][t.epoch][i] + 1
                                  ELSE paid[c][t.epoch][i]
    OBVIOUS
  <2>3. paid' = [paid EXCEPT ![c][t.epoch] = R]
    BY <1>10
  <2> HIDE DEF R, c
  <2>4. /\ paid' \in [ChannelId -> [Epochs -> [Indices -> Nat]]]
        /\ \A x \in ChannelId, e \in Epochs :
              paid'[x][e] = IF x = c /\ e = t.epoch THEN R ELSE paid[x][e]
    BY <1>1, <1>2, <1>11, <2>1, <2>3
  <2> QED BY <2>2, <2>4
<1>13. TypeOK'
  <2>1. /\ Event("ChannelBalanceDecreased", c, channels[c].balance - t.amount) \in EventRecord
        /\ Event("TicketRedeemed", c, t.ticketIndex + t.indexOffset) \in EventRecord
        /\ Event("ChannelBalanceIncreased", b, channels[b].balance + t.amount) \in EventRecord
    <3>1. /\ channels[c].balance - t.amount \in Nat
          /\ t.ticketIndex + t.indexOffset \in Nat
          /\ channels[b].balance + t.amount \in Nat
      BY <1>1, <1>2, <1>4 DEF Channel
    <3> QED BY <1>1, <3>1, EventType DEF EventName
  <2> DEFINE L1 == <<Event("ChannelBalanceDecreased", c, channels[c].balance - t.amount),
                     Event("TicketRedeemed", c, t.ticketIndex + t.indexOffset)>>
             L2 == IF channels[b].status = CLOSED THEN <<>>
                   ELSE <<Event("ChannelBalanceIncreased", b,
                                channels[b].balance + t.amount)>>
  <2>2. L1 \in Seq(EventRecord) /\ L2 \in Seq(EventRecord)
    BY <2>1
  <2>3. logs' = L1 \o L2
    BY DEF redeemTicket
  <2> HIDE DEF L1, L2
  <2>4. logs' \in Seq(EventRecord)
    BY <2>2, <2>3
  <2>5. held' \in Int
    BY <1>4 DEF redeemTicket, TypeOK
  <2>6. channels' \in [ChannelId -> Channel]
    BY <1>7, <1>9
  <2> QED BY <1>10, <1>12, <2>4, <2>5, <2>6 DEF TypeOK, EventRecord
<1>14. NoSelfChannel'
  BY <1>9 DEF NoSelfChannel, ChannelId
<1>15. FreshUnpaid'
  <2> SUFFICES ASSUME NEW x \in ChannelId, NEW e \in Epochs, NEW i \in Indices,
                      \/ e > channels'[x].epoch
                      \/ /\ e = channels'[x].epoch
                         /\ channels'[x].status # CLOSED
                         /\ i >= channels'[x].ticketIndex
               PROVE  paid'[x][e][i] = 0
    BY DEF FreshUnpaid
  <2>1. e \in Nat /\ channels[x].epoch \in Nat /\ i \in Nat /\ channels[x].ticketIndex \in Nat
    <3>1. channels[x] \in Channel
      BY <1>2
    <3> QED BY <3>1, ChannelsAssumption DEF Channel, Epochs, Indices
  <2>2. CASE x # c
    <3>1. paid'[x][e][i] = paid[x][e][i]
      BY <1>12, <2>2
    <3>2. channels'[x].ticketIndex = channels[x].ticketIndex
      BY <1>9, <2>2
    <3> QED BY <1>9, <3>1, <3>2 DEF FreshUnpaid
  <2>3. CASE x = c
    <3>1. channels'[x].ticketIndex = t.ticketIndex + t.indexOffset
      BY <1>4, <1>7, <2>3
    <3>2. \/ e > channels[x].epoch
          \/ /\ e = channels[x].epoch
             /\ channels[x].status # CLOSED
             /\ i >= t.ticketIndex + t.indexOffset
      BY <1>9, <3>1
    <3>3. paid[x][e][i] = 0
      BY <1>4, <2>1, <2>3, <3>2 DEF FreshUnpaid
    <3>4. ~ (x = c /\ e = t.epoch /\ Covers(t, i))
      BY <1>4, <2>1, <2>3, <3>2 DEF Covers
    <3> QED BY <1>12, <3>3, <3>4
  <2> QED BY <2>2, <2>3
<1>16. IndexPaidOnce'
  <2> SUFFICES ASSUME NEW x \in ChannelId, NEW e \in Epochs, NEW i \in Indices
               PROVE  paid'[x][e][i] <= 1
    BY DEF IndexPaidOnce
  <2>1. CASE x = c /\ e = t.epoch /\ Covers(t, i)
    <3>1. i >= channels[x].ticketIndex
      <4>1. i \in Nat /\ channels[c].ticketIndex \in Nat
        BY <1>1, <1>2, ChannelsAssumption DEF Channel, Indices
      <4> QED BY <1>4, <2>1, <4>1 DEF Covers
    <3>2. paid[x][e][i] = 0
      BY <1>4, <2>1, <3>1 DEF FreshUnpaid
    <3> QED BY <1>12, <2>1, <3>2
  <2>2. CASE ~ (x = c /\ e = t.epoch /\ Covers(t, i))
    BY <1>12, <2>2 DEF IndexPaidOnce
  <2> QED BY <2>1, <2>2
<1>17. NoticeRecorded'
  BY <1>9, <1>10 DEF NoticeRecorded
<1>18. ClosedEmpty'
  BY <1>9 DEF ClosedEmpty
<1> QED BY <1>13, <1>14, <1>15, <1>16, <1>17, <1>18

\* Every step preserves the invariant.
LEMMA NextIndInv == IndInv /\ [Next]_vars => IndInv'
<1> SUFFICES ASSUME IndInv, [Next]_vars PROVE IndInv'
  OBVIOUS
<1>0. /\ held \in Int /\ now \in Nat /\ logs \in Seq(EventRecord)
      /\ 0 .. MaxUsedBalance + 1 \subseteq Nat /\ 0 .. MaxUsedBalance \subseteq Nat
  BY ChannelsAssumption DEF IndInv, TypeOK, EventRecord
<1>1. ASSUME NEW s \in Node, NEW d \in Node, NEW a \in 0 .. MaxUsedBalance + 1,
             fundChannel(s, d, a)
      PROVE  IndInv'
  BY <1>0, <1>1, FundChannelStep
<1>2. ASSUME NEW s \in Node, NEW d \in Node, NEW a1 \in 0 .. MaxUsedBalance + 1,
             NEW a2 \in 0 .. MaxUsedBalance + 1, fundBidirectional(s, d, a1, a2)
      PROVE  IndInv'
  BY <1>0, <1>2, FundBidirectionalStep
<1>3. ASSUME NEW a \in 0 .. MaxUsedBalance, tokensReceivedNoData(a)
      PROVE  IndInv'
  <2>1. held' \in Int /\ now' \in Nat /\ logs' \in Seq(EventRecord)
    BY <1>0, <1>3 DEF tokensReceivedNoData
  <2> QED BY <1>3, <2>1, QuietStep DEF tokensReceivedNoData
<1>4. ASSUME NEW s \in Node, NEW d \in Node, NEW t \in TicketData, redeemTicket(s, d, t)
      PROVE  IndInv'
  BY <1>4, RedeemStep
<1>5. ASSUME NEW s \in Node, NEW d \in Node, initiateOutgoingChannelClosure(s, d)
      PROVE  IndInv'
  BY <1>5, InitiateStep
<1>6. ASSUME NEW s \in Node, NEW d \in Node, closeIncomingChannel(d, s)
      PROVE  IndInv'
  BY <1>6, CloseStep DEF closeIncomingChannel
<1>7. ASSUME NEW s \in Node, NEW d \in Node, finalizeOutgoingChannelClosure(s, d)
      PROVE  IndInv'
  BY <1>7, CloseStep DEF finalizeOutgoingChannelClosure
<1>8. CASE Tick
  <2>1. held' \in Int /\ now' \in Nat /\ logs' \in Seq(EventRecord)
    BY <1>0, <1>8 DEF Tick
  <2> QED BY <1>8, <2>1, QuietStep DEF Tick
<1>9. CASE UNCHANGED vars
  BY <1>0, <1>9, QuietStep DEF vars
<1> QED BY <1>1, <1>2, <1>3, <1>4, <1>5, <1>6, <1>7, <1>8, <1>9 DEF Next

\* The inductive invariant holds in every reachable state of the contract.
THEOREM Inductive == Spec => []IndInv
BY InitIndInv, NextIndInv, PTL DEF Spec

\* Type correctness of the contract's state, for any number of nodes and any
\* bounds of the integer types.
THEOREM TypeCorrect == Spec => []TypeOK
<1>1. IndInv => TypeOK
  BY DEF IndInv
<1> QED BY Inductive, <1>1, PTL

\* Replay protection of _redeemTicketInternal: no index of any incarnation of
\* any channel is ever paid twice.
THEOREM PaidOnce == Spec => []IndexPaidOnce
<1>1. IndInv => IndexPaidOnce
  BY DEF IndInv
<1> QED BY Inductive, <1>1, PTL

-------------------------------------------------------------------------------
(* What a step may do to one channel *)

Same(c) == channels'[c] = channels[c] /\ paid'[c] = paid[c]

Opens(c) ==
    /\ channels[c].status = CLOSED /\ channels'[c].status = OPEN
    /\ channels'[c].balance > 0
    /\ channels'[c].epoch = channels[c].epoch + 1
    /\ paid'[c] = paid[c]

TopsUp(c) ==
    /\ channels[c].status # CLOSED /\ channels'[c].status = channels[c].status
    /\ channels'[c].balance > channels[c].balance
    /\ channels'[c].epoch = channels[c].epoch
    /\ paid'[c] = paid[c]

\* The index t.ticketIndex, unpaid before, is paid.
Pays(c) ==
    /\ channels[c].status # CLOSED /\ channels'[c].status = channels[c].status
    /\ channels'[c].balance < channels[c].balance
    /\ channels'[c].epoch = channels[c].epoch
    /\ \A i \in Indices : paid'[c][channels[c].epoch][i] >= paid[c][channels[c].epoch][i]
    /\ \E i \in Indices : /\ paid[c][channels[c].epoch][i] = 0
                          /\ paid'[c][channels[c].epoch][i] = 1

Announces(c) ==
    /\ channels[c].status # CLOSED /\ channels'[c].status = PENDING
    /\ channels'[c].balance = channels[c].balance
    /\ channels'[c].epoch = channels[c].epoch
    /\ paid'[c] = paid[c]

Releases(c) ==
    /\ channels[c].status # CLOSED /\ channels'[c].status = CLOSED
    /\ channels'[c].balance = 0
    /\ channels'[c].epoch = channels[c].epoch
    /\ paid'[c] = paid[c]
    /\ closeIncomingChannel(c[2], c[1]) \/ finalizeOutgoingChannelClosure(c[1], c[2])

Effect(c) == Same(c) \/ Opens(c) \/ TopsUp(c) \/ Pays(c) \/ Announces(c) \/ Releases(c)

\* Funding opens a closed channel and tops up an open one.
LEMMA FundEffect ==
    ASSUME IndInv, NEW c \in ChannelId, paid' = paid,
           \/ channels'[c] = channels[c]
           \/ \E a \in Nat : /\ a > 0
                             /\ channels'[c] = Funded(channels[c], a)
                             /\ channels[c].status = CLOSED => channels[c].epoch < MaxEpoch
    PROVE  Effect(c)
<1>1. CASE channels'[c] = channels[c]
  BY <1>1 DEF Effect, Same
<1>2. CASE channels'[c] # channels[c]
  <2>1. PICK a \in Nat : /\ a > 0
                         /\ channels'[c] = Funded(channels[c], a)
                         /\ channels[c].status = CLOSED => channels[c].epoch < MaxEpoch
    BY <1>2
  <2>2. channels[c] \in Channel /\ channels[c].balance \in Nat
    BY DEF IndInv, TypeOK, Channel
  <2>3. CASE channels[c].status = CLOSED
    <3>1. Opens(c)
      BY <2>1, <2>2, <2>3, FundedFacts DEF Opens
    <3> QED BY <3>1 DEF Effect
  <2>4. CASE channels[c].status # CLOSED
    <3>1. TopsUp(c)
      BY <2>1, <2>2, <2>4, FundedFacts DEF TopsUp
    <3> QED BY <3>1 DEF Effect
  <2> QED BY <2>3, <2>4
<1> QED BY <1>1, <1>2

\* Redeeming pays from one channel and tops up, or leaves, the other one.
LEMMA RedeemEffect ==
    ASSUME IndInv, NEW s \in Node, NEW d \in Node, NEW t \in TicketData,
           redeemTicket(s, d, t), NEW x \in ChannelId
    PROVE  Effect(x)
<1> DEFINE c == <<s, d>>
           b == <<d, s>>
<1>1. c \in ChannelId /\ b \in ChannelId
  BY DEF ChannelId
<1>2. /\ channels \in [ChannelId -> Channel]
      /\ paid \in [ChannelId -> [Epochs -> [Indices -> Nat]]]
      /\ channels[c] \in Channel /\ channels[b] \in Channel
  BY <1>1 DEF IndInv, TypeOK
<1>3. Redeemable(channels[c], t)
  BY DEF redeemTicket
<1>4. c # b
  <2>1. channels[c].status # CLOSED
    BY <1>2, <1>3, SpentFacts
  <2> QED BY <2>1 DEF IndInv, NoSelfChannel
<1>5. /\ channels'[c] = Spent(channels[c], t)
      /\ channels'[b] = Earned(channels[b], t.amount)
      /\ x # c /\ x # b => channels'[x] = channels[x]
  BY <1>1, <1>2, <1>4 DEF redeemTicket
<1>6. x # c => paid'[x] = paid[x]
  BY <1>2 DEF redeemTicket
<1>7. CASE x = c
  <2>1. t.epoch \in Epochs /\ t.epoch = channels[c].epoch
    BY <1>2, <1>3, SpentFacts DEF TicketData
  <2>2. \A i \in Indices : paid'[c][t.epoch][i] =
            IF Covers(t, i) THEN paid[c][t.epoch][i] + 1 ELSE paid[c][t.epoch][i]
    BY <1>1, <1>2, <2>1 DEF redeemTicket
  <2>3. \A i \in Indices : paid[c][t.epoch][i] \in Nat
    BY <1>1, <1>2, <2>1
  <2>4. t.ticketIndex \in Indices /\ Covers(t, t.ticketIndex)
    BY <1>2, <1>3, SpentFacts DEF Covers, TicketData
  <2>5. paid[c][t.epoch][t.ticketIndex] = 0
    BY <1>1, <1>2, <1>3, <2>1, <2>4, SpentFacts DEF IndInv, FreshUnpaid
  <2>6. /\ Spent(channels[c], t).status = channels[c].status
        /\ Spent(channels[c], t).epoch = channels[c].epoch
        /\ Spent(channels[c], t).balance < channels[c].balance
        /\ channels[c].status # CLOSED
    <3>1. channels[c].balance \in Nat
      BY <1>2 DEF Channel
    <3> QED BY <1>2, <1>3, <3>1, SpentFacts
  <2> HIDE DEF c
  <2>7. Pays(c)
    BY <1>5, <2>1, <2>2, <2>3, <2>4, <2>5, <2>6 DEF Pays
  <2> QED BY <1>7, <2>7 DEF Effect
<1>8. CASE x = b
  <2>1. t.amount \in Nat /\ t.amount > 0 /\ channels[b].balance \in Nat
    BY <1>2, <1>3, SpentFacts DEF Channel
  <2>2. CASE channels[b].status = CLOSED
    BY <1>2, <1>4, <1>5, <1>6, <1>8, <2>1, <2>2, EarnedFacts DEF Effect, Same
  <2>3. CASE channels[b].status # CLOSED
    <3>1. TopsUp(b)
      BY <1>2, <1>4, <1>5, <1>6, <1>8, <2>1, <2>3, EarnedFacts DEF TopsUp
    <3> QED BY <1>8, <3>1 DEF Effect
  <2> QED BY <2>2, <2>3
<1>9. CASE x # c /\ x # b
  BY <1>5, <1>6, <1>9 DEF Effect, Same
<1> QED BY <1>7, <1>8, <1>9

\* Closing releases one channel.
LEMMA CloseEffect ==
    ASSUME IndInv, NEW s \in Node, NEW d \in Node, NEW x \in ChannelId,
           closeIncomingChannel(d, s) \/ finalizeOutgoingChannelClosure(s, d)
    PROVE  Effect(x)
<1> DEFINE c == <<s, d>>
<1>1. c \in ChannelId /\ c[1] = s /\ c[2] = d
  BY DEF ChannelId
<1>2. Close(c) /\ channels[c].status # CLOSED
  BY DEF closeIncomingChannel, finalizeOutgoingChannelClosure, CLOSED, PENDING
<1>3. channels \in [ChannelId -> Channel] /\ channels[c] \in Channel
  BY <1>1 DEF IndInv, TypeOK
<1>4. /\ channels'[c] = ClosedFrom(channels[c])
      /\ x # c => channels'[x] = channels[x]
      /\ paid' = paid
  BY <1>1, <1>2, <1>3 DEF Close
<1>5. CASE x = c
  <2>1. Releases(c)
    BY <1>1, <1>2, <1>3, <1>4, ClosedFromFacts DEF Releases
  <2> QED BY <1>5, <2>1 DEF Effect
<1>6. CASE x # c
  BY <1>4, <1>6 DEF Effect, Same
<1> QED BY <1>5, <1>6

\* Every step has one of these effects on every channel.
LEMMA StepEffect ==
    ASSUME IndInv, Next, NEW x \in ChannelId
    PROVE  Effect(x)
<1>0. 0 .. MaxUsedBalance + 1 \subseteq Nat /\ channels \in [ChannelId -> Channel]
  BY ChannelsAssumption DEF IndInv, TypeOK
<1>1. ASSUME NEW s \in Node, NEW d \in Node, NEW a \in 0 .. MaxUsedBalance + 1,
             fundChannel(s, d, a)
      PROVE  Effect(x)
  <2>1. a \in Nat /\ a > 0 /\ Fundable(channels, s, d, a) /\ paid' = paid
    BY <1>0, <1>1 DEF fundChannel, Fundable, ValidBalance
  <2>2. \/ channels'[x] = channels[x]
        \/ channels'[x] = Funded(channels[x], a) /\ x = <<s, d>>
    BY <1>0, <1>1 DEF fundChannel
  <2> QED BY <2>1, <2>2, FundEffect DEF Fundable
<1>2. ASSUME NEW s \in Node, NEW d \in Node, NEW a1 \in 0 .. MaxUsedBalance + 1,
             NEW a2 \in 0 .. MaxUsedBalance + 1, fundBidirectional(s, d, a1, a2)
      PROVE  Effect(x)
  <2>1. /\ a1 \in Nat /\ a2 \in Nat /\ paid' = paid
        /\ a1 > 0 => Fundable(channels, s, d, a1)
        /\ a2 > 0 => Fundable(channels, d, s, a2)
        /\ a1 > 0 \/ a2 > 0
    BY <1>0, <1>2 DEF fundBidirectional
  <2>2. s # d
    BY <2>1 DEF Fundable
  <2>3. \/ channels'[x] = channels[x]
        \/ channels'[x] = Funded(channels[x], a1) /\ x = <<s, d>> /\ a1 > 0
        \/ channels'[x] = Funded(channels[x], a2) /\ x = <<d, s>> /\ a2 > 0
    BY <1>0, <1>2, <2>1, <2>2 DEF fundBidirectional
  <2> QED BY <2>1, <2>3, FundEffect DEF Fundable
<1>3. ASSUME NEW a \in 0 .. MaxUsedBalance, tokensReceivedNoData(a)
      PROVE  Effect(x)
  BY <1>3 DEF tokensReceivedNoData, Effect, Same
<1>4. ASSUME NEW s \in Node, NEW d \in Node, NEW t \in TicketData, redeemTicket(s, d, t)
      PROVE  Effect(x)
  BY <1>4, RedeemEffect
<1>5. ASSUME NEW s \in Node, NEW d \in Node, initiateOutgoingChannelClosure(s, d)
      PROVE  Effect(x)
  <2>1. CASE x = <<s, d>>
    <3>1. channels[x] \in Channel
      BY <1>0
    <3>2. Announces(x)
      BY <1>0, <1>5, <2>1, <3>1 DEF initiateOutgoingChannelClosure, Announces, Channel
    <3> QED BY <3>2 DEF Effect
  <2>2. CASE x # <<s, d>>
    BY <1>0, <1>5, <2>2 DEF initiateOutgoingChannelClosure, Effect, Same
  <2> QED BY <2>1, <2>2
<1>6. ASSUME NEW s \in Node, NEW d \in Node,
             closeIncomingChannel(d, s) \/ finalizeOutgoingChannelClosure(s, d)
      PROVE  Effect(x)
  BY <1>6, CloseEffect
<1>7. CASE Tick
  BY <1>7 DEF Tick, Effect, Same
<1> QED BY <1>1, <1>2, <1>3, <1>4, <1>5, <1>6, <1>7 DEF Next

-------------------------------------------------------------------------------
(* Action properties and refinement *)

\* The notice period of _finalizeOutgoingChannelClosureInternal is kept, however
\* often the channel was opened, announced and closed before.
THEOREM NoticeIsKept == Spec => NoticeKept
<1>1. IndInv => ClosesInTime
  <2> SUFFICES ASSUME IndInv, NEW s \in Node, NEW d \in Node,
                      finalizeOutgoingChannelClosure(s, d)
               PROVE  /\ noticed[<<s, d>>] # -1
                      /\ now > noticed[<<s, d>>] + NoticePeriod
    BY DEF ClosesInTime
  <2> DEFINE c == <<s, d>>
  <2>1. c \in ChannelId
    BY DEF ChannelId
  <2>2. channels[c].status = PENDING /\ channels[c].closureTime < now
    BY DEF finalizeOutgoingChannelClosure, NoticeDue
  <2>3. noticed[c] \in Nat /\ channels[c].closureTime = noticed[c] + NoticePeriod
    BY <2>1, <2>2 DEF IndInv, NoticeRecorded
  <2>4. now \in Nat /\ NoticePeriod \in Nat
    BY ChannelsAssumption DEF IndInv, TypeOK
  <2> HIDE DEF c
  <2>5. noticed[c] # -1 /\ now > noticed[c] + NoticePeriod
    BY <2>2, <2>3, <2>4
  <2> QED BY <2>5 DEF c
<1> QED BY Inductive, <1>1, PTL DEF Spec, NoticeKept

\* Every channel implements Escrow: a redemption claims indices that were never
\* claimed in this incarnation, and only funding, redeeming and closing move the
\* deposit.
THEOREM ChannelsImplementEscrow == Spec => ImplementsEscrow
<1>1. Init => \A c \in ChannelId : E(c)!Init
  BY DEF Init, E!Init, Claimed, Unused, CLOSED
<1>2. IndInv /\ IndInv' /\ [Next]_vars => [EscrowStep]_vars
  <2> SUFFICES ASSUME IndInv, IndInv', Next, NEW c \in ChannelId
               PROVE  [E(c)!Next]_(E(c)!evars)
    BY DEF EscrowStep
  <2>1. /\ channels[c].balance \in Nat /\ channels'[c].balance \in Nat
        /\ channels[c].epoch \in Epochs
        /\ \A i \in Indices : paid[c][channels[c].epoch][i] \in Nat
        /\ \A i \in Indices : paid'[c][channels[c].epoch][i] \in Nat
    BY DEF IndInv, TypeOK, Channel
  <2>2. CASE Same(c)
    BY <2>2 DEF Same, E!evars, Claimed
  <2>3. CASE Opens(c)
    <3>1. Claimed(c)' = {}
      <4>1. channels'[c].epoch > channels[c].epoch /\ channels'[c].epoch \in Epochs
        BY <2>1, <2>3, ChannelsAssumption DEF Opens, IndInv, TypeOK, Channel, Epochs
      <4>2. \A i \in Indices : paid'[c][channels'[c].epoch][i] = 0
        BY <2>3, <4>1 DEF IndInv, FreshUnpaid, Opens
      <4> QED BY <2>3, <4>2 DEF Claimed
    <3> QED BY <2>1, <2>3, <3>1 DEF Opens, E!Next, E!Open, CLOSED, OPEN
  <2>4. CASE TopsUp(c)
    BY <2>1, <2>4 DEF TopsUp, E!Next, E!TopUp, Claimed, CLOSED
  <2>5. CASE Pays(c)
    <3>1. /\ Claimed(c)' \in SUBSET Indices
          /\ Claimed(c) \subseteq Claimed(c)'
      BY <2>1, <2>5 DEF Pays, Claimed
    <3>2. Claimed(c) # Claimed(c)'
      BY <2>1, <2>5 DEF Pays, Claimed
    <3> QED BY <2>1, <2>5, <3>1, <3>2 DEF Pays, E!Next, E!Pay, CLOSED
  <2>6. CASE Announces(c)
    BY <2>6 DEF Announces, E!Next, E!Announce, Claimed, CLOSED, PENDING
  <2>7. CASE Releases(c)
    BY <2>7 DEF Releases, E!Next, E!Release, Claimed, CLOSED
  <2> QED BY <2>2, <2>3, <2>4, <2>5, <2>6, <2>7, StepEffect DEF Effect
<1> QED BY Inductive, <1>1, <1>2, PTL DEF Spec, ImplementsEscrow

\* A step that leaves every balance alone and takes no tokens.
LEMMA QuietConserves ==
    ASSUME IndInv, held' >= held,
           \A x \in ChannelId : channels'[x].balance = channels[x].balance
    PROVE  Conserves
<1>1. \A x \in ChannelId : channels[x].balance \in Nat
  BY DEF IndInv, TypeOK, Channel
<1>2. \A x \in ChannelId : Gain(x) = 0
  BY <1>1 DEF Gain
<1> QED BY <1>2 DEF Conserves

\* A step that changes the channels of one pair of nodes, and the tokens held by
\* as much as their balances.
LEMMA PairConserves ==
    ASSUME IndInv, NEW s \in Node, NEW d \in Node, s # d, NEW g \in Int, NEW h \in Int,
           \A x \in ChannelId \ {<<s, d>>, <<d, s>>} : channels'[x] = channels[x],
           channels'[<<s, d>>].balance = channels[<<s, d>>].balance + g,
           channels'[<<d, s>>].balance = channels[<<d, s>>].balance + h,
           held' = held + g + h
    PROVE  Conserves
<1>1. \A x \in ChannelId : channels[x].balance \in Nat
  BY DEF IndInv, TypeOK, Channel
<1>2. held \in Int /\ <<s, d>> \in ChannelId /\ <<d, s>> \in ChannelId
  BY DEF IndInv, TypeOK, ChannelId
<1>3. \A x \in ChannelId \ {<<s, d>>, <<d, s>>} : Gain(x) = 0
  BY <1>1 DEF Gain
<1>4. Gain(<<s, d>>) = g /\ Gain(<<d, s>>) = h
  BY <1>1, <1>2 DEF Gain
<1>5. held' - held = Gain(<<s, d>>) + Gain(<<d, s>>)
  BY <1>2, <1>4
<1> QED BY <1>3, <1>5 DEF Conserves

\* A transaction moves tokens within one pair of channels, or only adds to the
\* tokens held.
LEMMA NextConserves ==
    ASSUME IndInv, Next
    PROVE  Conserves
<1>0. /\ channels \in [ChannelId -> Channel] /\ held \in Int
      /\ 0 .. MaxUsedBalance + 1 \subseteq Nat /\ 0 .. MaxUsedBalance \subseteq Nat
      /\ \A x \in ChannelId : channels[x] \in Channel /\ channels[x].balance \in Nat
      /\ \A s, d \in Node : <<s, d>> \in ChannelId
  BY ChannelsAssumption DEF IndInv, TypeOK, Channel, ChannelId
<1>1. ASSUME NEW s \in Node, NEW d \in Node, NEW a \in 0 .. MaxUsedBalance + 1,
             fundChannel(s, d, a)
      PROVE  Conserves
  <2>1. s # d /\ a \in Nat /\ held' = held + a + 0
    BY <1>0, <1>1 DEF fundChannel, Fundable
  <2>2. channels' = [channels EXCEPT ![<<s, d>>] = Funded(channels[<<s, d>>], a)]
    BY <1>1 DEF fundChannel
  <2>3. channels[<<s, d>>].status = CLOSED => channels[<<s, d>>].epoch < MaxEpoch
    BY <1>1 DEF fundChannel, Fundable
  <2>4. Funded(channels[<<s, d>>], a).balance = channels[<<s, d>>].balance + a
    BY <1>0, <2>1, <2>3, FundedFacts
  <2>5. /\ channels'[<<s, d>>].balance = channels[<<s, d>>].balance + a
        /\ channels'[<<d, s>>].balance = channels[<<d, s>>].balance + 0
        /\ \A x \in ChannelId \ {<<s, d>>, <<d, s>>} : channels'[x] = channels[x]
    BY <1>0, <2>1, <2>2, <2>4
  <2> QED BY <2>1, <2>5, PairConserves
<1>2. ASSUME NEW s \in Node, NEW d \in Node, NEW a1 \in 0 .. MaxUsedBalance + 1,
             NEW a2 \in 0 .. MaxUsedBalance + 1, fundBidirectional(s, d, a1, a2)
      PROVE  Conserves
  <2> DEFINE c1 == <<s, d>>
             c2 == <<d, s>>
  <2>1. /\ a1 \in Nat /\ a2 \in Nat /\ held' = held + a1 + a2
        /\ a1 > 0 => Fundable(channels, s, d, a1)
        /\ a2 > 0 => Fundable(channels, d, s, a2)
        /\ a1 > 0 \/ a2 > 0
    BY <1>0, <1>2 DEF fundBidirectional
  <2>2. s # d /\ c1 # c2 /\ c1 \in ChannelId /\ c2 \in ChannelId
    BY <1>0, <2>1 DEF Fundable
  <2>3. /\ a1 > 0 => Funded(channels[c1], a1).balance = channels[c1].balance + a1
        /\ a2 > 0 => Funded(channels[c2], a2).balance = channels[c2].balance + a2
    BY <1>0, <2>1, <2>2, FundedFacts DEF Fundable
  <2>4. /\ a1 > 0 => channels'[c1] = Funded(channels[c1], a1)
        /\ a1 = 0 => channels'[c1] = channels[c1]
        /\ a2 > 0 => channels'[c2] = Funded(channels[c2], a2)
        /\ a2 = 0 => channels'[c2] = channels[c2]
        /\ \A x \in ChannelId \ {c1, c2} : channels'[x] = channels[x]
    BY <1>0, <1>2, <2>1, <2>2 DEF fundBidirectional
  <2>5. /\ channels'[c1].balance = channels[c1].balance + a1
        /\ channels'[c2].balance = channels[c2].balance + a2
    BY <1>0, <2>1, <2>2, <2>3, <2>4
  <2> QED BY <2>1, <2>2, <2>4, <2>5, PairConserves
<1>3. ASSUME NEW a \in 0 .. MaxUsedBalance, tokensReceivedNoData(a)
      PROVE  Conserves
  <2>1. held' >= held /\ channels' = channels
    BY <1>0, <1>3 DEF tokensReceivedNoData
  <2> QED BY <2>1, QuietConserves
<1>4. ASSUME NEW s \in Node, NEW d \in Node, NEW t \in TicketData, redeemTicket(s, d, t)
      PROVE  Conserves
  <2> DEFINE c == <<s, d>>
             b == <<d, s>>
  <2>1. c \in ChannelId /\ b \in ChannelId /\ Redeemable(channels[c], t)
    BY <1>0, <1>4 DEF redeemTicket
  <2>2. /\ t.amount \in Nat /\ channels[c].status # CLOSED
        /\ Spent(channels[c], t).balance = channels[c].balance - t.amount
    BY <1>0, <2>1, SpentFacts
  <2>3. s # d /\ c # b
    BY <2>2 DEF IndInv, NoSelfChannel
  <2>4. /\ channels'[c] = Spent(channels[c], t)
        /\ channels'[b] = Earned(channels[b], t.amount)
        /\ \A x \in ChannelId \ {c, b} : channels'[x] = channels[x]
    BY <1>0, <1>4, <2>1, <2>3 DEF redeemTicket
  <2>5. - t.amount \in Int /\ channels'[c].balance = channels[c].balance + (- t.amount)
    BY <1>0, <2>1, <2>2, <2>4
  <2>6. channels[b] \in Channel /\ channels[b].balance \in Nat
    BY <1>0, <2>1
  <2>7. CASE channels[b].status = CLOSED
    <3>0. Earned(channels[b], t.amount) = channels[b]
      BY <2>7 DEF Earned
    <3>1. channels'[b].balance = channels[b].balance + 0
      BY <2>4, <2>6, <3>0
    <3>2. held' = held - t.amount
      BY <1>4, <2>7 DEF redeemTicket
    <3>3. held' = held + (- t.amount) + 0
      BY <1>0, <2>2, <3>2
    <3> QED BY <2>3, <2>4, <2>5, <3>1, <3>3, PairConserves
  <2>8. CASE channels[b].status # CLOSED
    <3>0. Earned(channels[b], t.amount).balance = channels[b].balance + t.amount
      BY <2>2, <2>6, <2>8, EarnedFacts
    <3>1. channels'[b].balance = channels[b].balance + t.amount
      BY <2>4, <3>0
    <3>2. held' = held
      BY <1>4, <2>8 DEF redeemTicket
    <3>3. held' = held + (- t.amount) + t.amount
      BY <1>0, <2>2, <3>2
    <3> QED BY <2>2, <2>3, <2>4, <2>5, <3>1, <3>3, PairConserves
  <2> QED BY <2>7, <2>8
<1>5. ASSUME NEW s \in Node, NEW d \in Node, initiateOutgoingChannelClosure(s, d)
      PROVE  Conserves
  <2>1. \A x \in ChannelId : channels'[x].balance = channels[x].balance
    BY <1>0, <1>5 DEF initiateOutgoingChannelClosure, Channel
  <2>2. held' >= held
    BY <1>0, <1>5 DEF initiateOutgoingChannelClosure
  <2> QED BY <2>1, <2>2, QuietConserves
<1>6. ASSUME NEW s \in Node, NEW d \in Node,
             closeIncomingChannel(d, s) \/ finalizeOutgoingChannelClosure(s, d)
      PROVE  Conserves
  <2> DEFINE c == <<s, d>>
             b == <<d, s>>
  <2>1. c \in ChannelId /\ b \in ChannelId /\ Close(c) /\ channels[c].status # CLOSED
    BY <1>0, <1>6 DEF closeIncomingChannel, finalizeOutgoingChannelClosure, CLOSED, PENDING
  <2>2. s # d /\ c # b
    BY <2>1 DEF IndInv, NoSelfChannel
  <2>3. /\ channels'[c] = ClosedFrom(channels[c])
        /\ \A x \in ChannelId \ {c} : channels'[x] = channels[x]
        /\ held' = held - channels[c].balance
    BY <1>0, <2>1 DEF Close
  <2>4. channels'[c].balance = 0
    BY <1>0, <2>1, <2>3, ClosedFromFacts
  <2>5. /\ - channels[c].balance \in Int
        /\ channels'[c].balance = channels[c].balance + (- channels[c].balance)
        /\ channels'[b].balance = channels[b].balance + 0
        /\ held' = held + (- channels[c].balance) + 0
    BY <1>0, <2>1, <2>2, <2>3, <2>4
  <2> QED BY <2>2, <2>3, <2>5, PairConserves
<1>7. CASE Tick
  <2>1. held' >= held /\ channels' = channels
    BY <1>0, <1>7 DEF Tick
  <2> QED BY <2>1, QuietConserves
<1> QED BY <1>1, <1>2, <1>3, <1>4, <1>5, <1>6, <1>7 DEF Next

\* Money flows through no other channel than the two of the nodes involved, and
\* the contract's tokens change by exactly what those two balances change.
THEOREM Conservation == Spec => StepConserves
<1>1. IndInv /\ [Next]_vars => [Conserves]_vars
  BY NextConserves
<1> QED BY Inductive, <1>1, PTL DEF Spec, StepConserves

-------------------------------------------------------------------------------
(* Natural numbers *)

\* A nonempty set of natural numbers has a least element.
LEMMA LeastNatural ==
    ASSUME NEW T, T \subseteq Nat, T # {}
    PROVE  \E x \in T : \A y \in T : x <= y
  <1>1. \E R : IsWellFoundedOn(R, Nat) /\ \A x, y \in Nat : <<y, x>> \in R <=> y < x
    <2>1. IsWellFoundedOn(OpToRel(<, Nat), Nat)
      BY NatLessThanWellFounded
    <2>2. \A x, y \in Nat : <<y, x>> \in OpToRel(<, Nat) <=> y < x
      BY DEF OpToRel
    <2> QED BY <2>1, <2>2, Zenon
  <1>2. PICK R : IsWellFoundedOn(R, Nat) /\ \A x, y \in Nat : <<y, x>> \in R <=> y < x
    BY <1>1
  <1>3. \E x \in T : \A y \in T : ~ (<<y, x>> \in R)
    BY <1>2, WFMin
  <1>4. PICK x \in T : \A y \in T : ~ (<<y, x>> \in R)
    BY <1>3
  <1>5. ASSUME NEW y \in T PROVE x <= y
    <2>1. ~ (<<y, x>> \in R) /\ x \in Nat /\ y \in Nat
      BY <1>4
    <2>2. ~ (y < x)
      BY <2>1, <1>2, Zenon
    <2> QED BY <2>1, <2>2
  <1> QED BY <1>5

\* Induction over the natural numbers, for a set.
LEMMA SetInduction ==
    ASSUME NEW S, 0 \in S, \A n \in Nat : n \in S => n + 1 \in S
    PROVE  Nat \subseteq S
  <1> SUFFICES ASSUME Nat \ S # {} PROVE FALSE
    OBVIOUS
  <1>1. PICK x \in Nat \ S : \A y \in Nat \ S : x <= y
    BY LeastNatural
  <1>2. x # 0
    BY <1>1
  <1>3. x - 1 \in Nat /\ x - 1 \in S
    BY <1>1, <1>2
  <1> QED BY <1>1, <1>3

-------------------------------------------------------------------------------
(* Sums over a finite set *)

\* The element with which SumFunction starts.
First(s) == CHOOSE x \in s : TRUE

\* t is the sum of f over s, given the sums over the smaller sets.
Added(t, f, s) == IF s = {} THEN 0 ELSE f[First(s)] + t[s \ {First(s)}]

\* t holds the sum of f over every set of D.
Tallies(t, f, D) == \A s \in D : t[s] = Added(t, f, s)

UpTo(S, n) == {s \in SUBSET S : Cardinality(s) <= n}

\* A subset of a finite set is empty, or one element larger than without its
\* first one.
LEMMA FirstRemoved ==
    ASSUME NEW S, IsFiniteSet(S), NEW s \in SUBSET S
    PROVE  /\ IsFiniteSet(s) /\ Cardinality(s) \in Nat
           /\ s # {} => /\ First(s) \in s
                        /\ s \ {First(s)} \in SUBSET S
                        /\ Cardinality(s \ {First(s)}) = Cardinality(s) - 1
           /\ Cardinality(s) <= 0 => s = {}
  <1>1. IsFiniteSet(s)
    BY FS_Subset
  <1>2. Cardinality(s) \in Nat
    BY <1>1, FS_CardinalityType
  <1>3. Cardinality(s) <= 0 => s = {}
    <2>1. Cardinality(s) = 0 <=> s = {}
      BY <1>1, FS_EmptySet
    <2> QED BY <1>2, <2>1
  <1>4. s # {} => First(s) \in s
    BY Zenon DEF First
  <1>5. s # {} => Cardinality(s \ {First(s)}) = Cardinality(s) - 1
    BY <1>1, <1>4, FS_RemoveElement
  <1> QED BY <1>1, <1>2, <1>3, <1>4, <1>5

\* The sums over all the subsets exist.
LEMMA TallyExists ==
    ASSUME NEW S, IsFiniteSet(S), NEW f \in [S -> Int]
    PROVE  \E t \in [SUBSET S -> Int] : Tallies(t, f, SUBSET S)
  <1> DEFINE I == {n \in Nat : \E t \in [UpTo(S, n) -> Int] : Tallies(t, f, UpTo(S, n))}
  <1>1. 0 \in I
    <2>1. ASSUME NEW s \in UpTo(S, 0) PROVE s = {}
      <3>1. s \in SUBSET S /\ Cardinality(s) <= 0
        BY DEF UpTo
      <3> QED BY <3>1, FirstRemoved, Zenon
    <2>2. PICK t : t = [s \in UpTo(S, 0) |-> 0]
      OBVIOUS
    <2>3. t \in [UpTo(S, 0) -> Int] /\ Tallies(t, f, UpTo(S, 0))
      BY <2>1, <2>2 DEF Tallies, Added
    <2> QED BY <2>3
  <1>2. ASSUME NEW n \in Nat, n \in I PROVE n + 1 \in I
    <2>1. PICK t \in [UpTo(S, n) -> Int] : Tallies(t, f, UpTo(S, n))
      BY <1>2
    <2>2. PICK u : u = [s \in UpTo(S, n + 1) |-> Added(t, f, s)]
      OBVIOUS
    <2>3. \A s \in UpTo(S, n + 1) : s # {} => s \ {First(s)} \in UpTo(S, n) /\ First(s) \in S
      BY FirstRemoved DEF UpTo
    <2>4. ASSUME NEW s \in UpTo(S, n) PROVE s \in UpTo(S, n + 1)
      <3>1. s \in SUBSET S /\ Cardinality(s) <= n
        BY DEF UpTo
      <3>2. Cardinality(s) \in Nat
        BY <3>1, FirstRemoved, Zenon
      <3>3. Cardinality(s) <= n + 1
        BY <3>1, <3>2
      <3> QED BY <3>1, <3>3 DEF UpTo
    <2>5. \A s \in UpTo(S, n) : u[s] = t[s]
      BY <2>1, <2>2, <2>4 DEF Tallies
    <2>6. \A s \in UpTo(S, n + 1) : Added(t, f, s) \in Int
      BY <2>1, <2>3 DEF Added
    <2>7. \A s \in UpTo(S, n + 1) : u[s] = Added(u, f, s)
      BY <2>2, <2>3, <2>5 DEF Added
    <2>8. u \in [UpTo(S, n + 1) -> Int] /\ Tallies(u, f, UpTo(S, n + 1))
      BY <2>2, <2>6, <2>7 DEF Tallies
    <2> QED BY <2>8
  <1>3. Nat \subseteq I
    <2> HIDE DEF I
    <2> QED BY <1>1, <1>2, SetInduction
  <1>4. PICK n \in Nat : n = Cardinality(S)
    BY FS_CardinalityType
  <1>5. UpTo(S, n) = SUBSET S
    BY <1>4, FS_Subset DEF UpTo
  <1> QED BY <1>3, <1>5

\* SumFunction is the sum over the whole domain.
LEMMA SumIsTally ==
    ASSUME NEW S, IsFiniteSet(S), NEW f \in [S -> Int]
    PROVE  \E t \in [SUBSET S -> Int] : Tallies(t, f, SUBSET S) /\ SumFunction(f) = t[S]
  <1>1. DOMAIN f = S
    OBVIOUS
  <1>2. PICK w : w = CHOOSE t : t = [s \in SUBSET S |-> Added(t, f, s)]
    OBVIOUS
  <1>3. SumFunction(f) = w[S]
    BY <1>1, <1>2, Zenon
      DEF First, Added, SumFunction, SumFunctionOnSet, FoldFunctionOnSet, MapThenFoldSet
  <1>4. PICK t \in [SUBSET S -> Int] : Tallies(t, f, SUBSET S)
    BY TallyExists
  <1>5. t = [s \in SUBSET S |-> Added(t, f, s)]
    BY <1>4 DEF Tallies
  <1>6. w = [s \in SUBSET S |-> Added(w, f, s)]
    BY <1>2, <1>5, Zenon
  <1> DEFINE I == {n \in Nat : \A s \in SUBSET S : Cardinality(s) <= n => w[s] = t[s]}
  <1>7. 0 \in I
    <2>1. ASSUME NEW s \in SUBSET S, Cardinality(s) <= 0 PROVE s = {}
      BY <2>1, FirstRemoved, Zenon
    <2>2. w[{}] = 0 /\ t[{}] = 0
      BY <1>5, <1>6 DEF Added
    <2> QED BY <2>1, <2>2
  <1>8. ASSUME NEW n \in Nat, n \in I PROVE n + 1 \in I
    <2> SUFFICES ASSUME NEW s \in SUBSET S, Cardinality(s) <= n + 1 PROVE w[s] = t[s]
      OBVIOUS
    <2>1. w[s] = Added(w, f, s) /\ t[s] = Added(t, f, s)
      BY <1>5, <1>6
    <2>2. s # {} => w[s \ {First(s)}] = t[s \ {First(s)}]
      BY <1>8, FirstRemoved
    <2> QED BY <2>1, <2>2 DEF Added
  <1>9. Nat \subseteq I
    <2> HIDE DEF I
    <2> QED BY <1>7, <1>8, SetInduction
  <1>10. w[S] = t[S]
    BY <1>9, FS_CardinalityType
  <1> QED BY <1>3, <1>4, <1>10

\* Changing f in one place changes the sum by as much.
LEMMA SumChanges ==
    ASSUME NEW S, IsFiniteSet(S), NEW f \in [S -> Int], NEW g \in [S -> Int], NEW x \in S,
           \A y \in S \ {x} : g[y] = f[y]
    PROVE  /\ SumFunction(f) \in Int /\ SumFunction(g) \in Int
           /\ SumFunction(g) = SumFunction(f) + (g[x] - f[x])
  <1>1. PICK t \in [SUBSET S -> Int] : Tallies(t, f, SUBSET S) /\ SumFunction(f) = t[S]
    BY SumIsTally
  <1>2. PICK u \in [SUBSET S -> Int] : Tallies(u, g, SUBSET S) /\ SumFunction(g) = u[S]
    BY SumIsTally
  <1>3. PICK a \in Int : a = g[x] - f[x]
    OBVIOUS
  <1> DEFINE Moved(s) == u[s] = t[s] + (IF x \in s THEN a ELSE 0)
  <1> DEFINE I == {n \in Nat : \A s \in SUBSET S : Cardinality(s) <= n => Moved(s)}
  <1>4. 0 \in I
    <2>1. ASSUME NEW s \in SUBSET S, Cardinality(s) <= 0 PROVE s = {}
      BY <2>1, FirstRemoved, Zenon
    <2>2. u[{}] = 0 /\ t[{}] = 0
      BY <1>1, <1>2 DEF Tallies, Added
    <2>3. ASSUME NEW s \in SUBSET S, Cardinality(s) <= 0 PROVE Moved(s)
      <3>1. s = {}
        BY <2>1, <2>3
      <3> QED BY <2>2, <3>1
    <2> QED BY <2>3
  <1>5. ASSUME NEW n \in Nat, n \in I PROVE n + 1 \in I
    <2> SUFFICES ASSUME NEW s \in SUBSET S, Cardinality(s) <= n + 1 PROVE Moved(s)
      OBVIOUS
    <2>1. u[s] = Added(u, g, s) /\ t[s] = Added(t, f, s)
      BY <1>1, <1>2 DEF Tallies
    <2>2. CASE s = {}
      BY <2>1, <2>2 DEF Added
    <2>3. CASE s # {}
      <3>1. PICK y \in s : y = First(s) /\ s \ {y} \in SUBSET S /\ Cardinality(s \ {y}) <= n
        BY <2>3, FirstRemoved
      <3>2. PICK r \in SUBSET S : r = s \ {y}
        BY <3>1
      <3>3. u[s] = g[y] + u[r] /\ t[s] = f[y] + t[r]
        BY <2>1, <2>3, <3>1, <3>2 DEF Added
      <3>4. Moved(r)
        BY <1>5, <3>1, <3>2
      <3>5. g[y] \in Int /\ f[y] \in Int /\ u[r] \in Int /\ t[r] \in Int
        OBVIOUS
      <3>6. CASE y = x
        BY <1>3, <3>2, <3>3, <3>4, <3>5, <3>6
      <3>7. CASE y # x
        BY <1>3, <3>2, <3>3, <3>4, <3>5, <3>7
      <3> QED BY <3>6, <3>7
    <2> QED BY <2>2, <2>3
  <1>6. Nat \subseteq I
    <2> HIDE DEF I
    <2> QED BY <1>4, <1>5, SetInduction
  <1>7. Moved(S)
    BY <1>6, FS_CardinalityType
  <1> QED BY <1>1, <1>2, <1>3, <1>7

\* A function that is zero everywhere sums to zero.
LEMMA SumOfZeros ==
    ASSUME NEW S, IsFiniteSet(S), NEW f \in [S -> Int], \A x \in S : f[x] = 0
    PROVE  SumFunction(f) = 0
  <1>1. PICK t \in [SUBSET S -> Int] : Tallies(t, f, SUBSET S) /\ SumFunction(f) = t[S]
    BY SumIsTally
  <1> DEFINE I == {n \in Nat : \A s \in SUBSET S : Cardinality(s) <= n => t[s] = 0}
  <1>2. 0 \in I
    <2>1. ASSUME NEW s \in SUBSET S, Cardinality(s) <= 0 PROVE t[s] = 0
      <3>1. s = {}
        BY <2>1, FirstRemoved, Zenon
      <3> QED BY <1>1, <3>1 DEF Tallies, Added
    <2> QED BY <2>1
  <1>3. ASSUME NEW n \in Nat, n \in I PROVE n + 1 \in I
    <2> SUFFICES ASSUME NEW s \in SUBSET S, Cardinality(s) <= n + 1 PROVE t[s] = 0
      OBVIOUS
    <2>1. t[s] = Added(t, f, s)
      BY <1>1 DEF Tallies
    <2>2. s # {} => f[First(s)] = 0 /\ t[s \ {First(s)}] = 0
      BY <1>3, FirstRemoved
    <2> QED BY <2>1, <2>2 DEF Added
  <1>4. Nat \subseteq I
    <2> HIDE DEF I
    <2> QED BY <1>2, <1>3, SetInduction
  <1> QED BY <1>1, <1>4, FS_CardinalityType

-------------------------------------------------------------------------------
(* Solvency *)

\* What the channels can pay out together is a number, and a step changes it by
\* what the tokens held change, or leaves it alone.
LEMMA SolventStep ==
    ASSUME IndInv, IndInv', Solvent, [Next]_vars
    PROVE  Solvent'
<1>1. IsFiniteSet(ChannelId)
  BY ChannelsAssumption, FS_Product DEF ChannelId
<1>2. /\ channels \in [ChannelId -> Channel] /\ held \in Int
      /\ channels' \in [ChannelId -> Channel] /\ held' \in Int
  BY DEF IndInv, TypeOK
<1>3. ASSUME NEW c \in ChannelId
      PROVE  channels[c].balance \in Int /\ channels'[c].balance \in Int
  <2>1. channels[c] \in Channel /\ channels'[c] \in Channel
    BY <1>2
  <2> QED BY <2>1 DEF Channel
<1>4. PICK f \in [ChannelId -> Int] : f = [c \in ChannelId |-> channels[c].balance]
  BY <1>3
<1>5. PICK g \in [ChannelId -> Int] : g = [c \in ChannelId |-> channels'[c].balance]
  BY <1>3
<1>6. \A x \in ChannelId : Gain(x) = g[x] - f[x]
  BY <1>4, <1>5 DEF Gain
<1>7. SumFunction(f) <= held
  BY <1>4 DEF Solvent
<1>8. SUFFICES SumFunction(g) <= held'
  BY <1>5 DEF Solvent
<1>9. CASE UNCHANGED vars
  <2>1. f = g /\ held' = held
    BY <1>4, <1>5, <1>9 DEF vars
  <2> QED BY <1>7, <2>1
<1>10. CASE (\A x \in ChannelId : Gain(x) = 0) /\ held' >= held
  <2>1. \A x \in ChannelId : g[x] = f[x]
    <3>1. ASSUME NEW x \in ChannelId PROVE g[x] = f[x]
      <4>1. g[x] - f[x] = 0 /\ g[x] \in Int /\ f[x] \in Int
        BY <1>6, <1>10
      <4> QED BY <4>1
    <3> QED BY <3>1
  <2>2. f = g
    BY <2>1
  <2>3. SumFunction(f) \in Int
    <3>1. PICK t \in [SUBSET ChannelId -> Int] : SumFunction(f) = t[ChannelId]
      BY <1>1, SumIsTally
    <3> QED BY <3>1
  <2> QED BY <1>2, <1>7, <1>10, <2>2, <2>3
<1>11. ASSUME NEW s \in Node, NEW d \in Node, s # d,
             \A x \in ChannelId \ {<<s, d>>, <<d, s>>} : Gain(x) = 0,
             held' - held = Gain(<<s, d>>) + Gain(<<d, s>>)
      PROVE  SumFunction(g) <= held'
  <2>1. PICK a \in ChannelId, b \in ChannelId : a = <<s, d>> /\ b = <<d, s>>
    BY DEF ChannelId
  <2>2. a # b
    BY <1>11, <2>1
  <2>3. \A x \in ChannelId \ {a, b} : g[x] = f[x]
    <3>1. ASSUME NEW x \in ChannelId \ {a, b} PROVE g[x] = f[x]
      <4>1. g[x] - f[x] = 0 /\ g[x] \in Int /\ f[x] \in Int
        BY <1>6, <1>11, <2>1
      <4> QED BY <4>1
    <3> QED BY <3>1
  <2>4. held' - held = (g[a] - f[a]) + (g[b] - f[b])
    BY <1>6, <1>11, <2>1
  <2>5. PICK h \in [ChannelId -> Int] : h = [f EXCEPT ![a] = g[a]]
    OBVIOUS
  <2>6. /\ SumFunction(f) \in Int /\ SumFunction(h) \in Int
        /\ SumFunction(h) = SumFunction(f) + (h[a] - f[a])
    <3>1. \A x \in ChannelId \ {a} : h[x] = f[x]
      BY <2>5
    <3> QED BY <1>1, <3>1, SumChanges
  <2>7. /\ SumFunction(g) \in Int
        /\ SumFunction(g) = SumFunction(h) + (g[b] - h[b])
    <3>1. \A x \in ChannelId \ {b} : g[x] = h[x]
      BY <2>3, <2>5
    <3> QED BY <1>1, <3>1, SumChanges
  <2>8. h[a] = g[a] /\ h[b] = f[b]
    BY <2>2, <2>5
  <2> QED BY <1>2, <1>7, <2>4, <2>6, <2>7, <2>8
<1>12. CASE Next
  <2>1. Conserves
    BY <1>12, NextConserves
  <2> QED BY <1>10, <1>11, <2>1 DEF Conserves
<1> QED BY <1>9, <1>12

\* Whatever was funded, redeemed and closed, and however many nodes there are,
\* the contract holds at least the sum of all the channels' balances: every
\* channel can be paid out.
THEOREM ContractIsSolvent == Spec => []Solvent
<1>1. Init => Solvent
  <2> SUFFICES ASSUME Init PROVE Solvent
    OBVIOUS
  <2>1. PICK f : f = [c \in ChannelId |-> channels[c].balance]
    OBVIOUS
  <2>2. f \in [ChannelId -> Int] /\ \A c \in ChannelId : f[c] = 0
    BY <2>1 DEF Init, Unused
  <2>3. IsFiniteSet(ChannelId)
    BY ChannelsAssumption, FS_Product DEF ChannelId
  <2>4. SumFunction(f) = 0
    BY <2>2, <2>3, SumOfZeros
  <2> QED BY <2>1, <2>4 DEF Solvent, Init
<1>2. IndInv /\ IndInv' /\ Solvent /\ [Next]_vars => Solvent'
  BY SolventStep
<1> QED BY Inductive, <1>1, <1>2, PTL DEF Spec
===============================================================================
