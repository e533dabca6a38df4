------------------------------- MODULE Channels -------------------------------
(***************************************************************************)
(* The HoprChannels contract: unidirectional payment channels between      *)
(* nodes.  A channel <<s, d>> escrows tokens of s, from which d draws by   *)
(* redeeming winning tickets that s signed.                                *)
(*                                                                         *)
(* One action is one successful transaction; a call that reverts changes   *)
(* nothing and is the action being disabled.  For every node exactly one   *)
(* account may act: the node when no Safe is registered for it, otherwise  *)
(* its Safe (HoprMultiSig), so `XSafe' and `X' are one action.  Tokens     *)
(* outside the contract are TotalSupply - held; whose wallet they are in   *)
(* is left out.  Every ticket the source can sign may be presented at any  *)
(* time and any number of times; one that loses, or whose VRF proof or     *)
(* signature is wrong, reverts.                                            *)
(***************************************************************************)
EXTENDS Integers, Sequences, FiniteSets, Functions

CONSTANTS
    Node,             \* addresses of the nodes
    MaxUsedBalance,   \* MAX_USED_BALANCE, largest amount of one call
    NoticePeriod,     \* noticePeriodChannelClosure
    MaxEpoch,         \* largest ChannelEpoch (2^24 - 1)
    MaxTicketIndex,   \* largest TicketIndex (2^48 - 1)
    MaxOffset,        \* largest TicketIndexOffset (2^32 - 1)
    TotalSupply,      \* of the token
    MaxTime           \* bound on block.timestamp

ASSUME ChannelsAssumption ==
    /\ MaxUsedBalance \in Nat /\ MaxEpoch \in Nat /\ MaxTicketIndex \in Nat
    /\ MaxOffset \in Nat /\ TotalSupply \in Nat /\ MaxTime \in Nat
    /\ NoticePeriod \in Nat \ {0}
    /\ IsFiniteSet(Node)

VARIABLES
    channels,  \* channelId -> Channel
    held,      \* token.balanceOf(address(this))
    now,       \* block.timestamp
    logs,      \* events emitted by the latest transaction
    paid,      \* history: how often each index of each incarnation was paid
    noticed    \* history: time of the latest closure notice of the incarnation

vars == <<channels, held, now, logs, paid, noticed>>

CLOSED == "CLOSED"
OPEN == "OPEN"
PENDING == "PENDING_TO_CLOSE"
Status == {CLOSED, OPEN, PENDING}

ChannelId == Node \X Node
Epochs == 0 .. MaxEpoch
Indices == 0 .. MaxTicketIndex

Channel == [balance : Nat, ticketIndex : Indices, closureTime : Nat,
            epoch : Epochs, status : Status]

\* Ticket data as signed by the source; zero amounts and offsets, outdated
\* epochs and used indices included.
TicketData == [amount : 0 .. MaxUsedBalance + 1, ticketIndex : Indices,
               indexOffset : 0 .. MaxOffset, epoch : Epochs]

EventName == {"ChannelOpened", "ChannelBalanceIncreased",
              "ChannelBalanceDecreased", "OutgoingChannelClosureInitiated",
              "ChannelClosed", "TicketRedeemed"}

\* An event, with its one numeric argument (0 where it has none).
Event(name, c, x) == [name |-> name, id |-> c, value |-> x]

Unused == [balance |-> 0, ticketIndex |-> 0, closureTime |-> 0, epoch |-> 0,
           status |-> CLOSED]

Init ==
    /\ channels = [c \in ChannelId |-> Unused]
    /\ held = 0
    /\ now = 0
    /\ logs = <<>>
    /\ paid = [c \in ChannelId |-> [e \in Epochs |-> [i \in Indices |-> 0]]]
    /\ noticed = [c \in ChannelId |-> -1]

-------------------------------------------------------------------------------
(* Funding *)

ValidBalance(amount) == amount >= 1 /\ amount <= MaxUsedBalance

\* The checks of _fundChannelInternal against the channels chs; opening needs
\* the checked uint24 increment of the epoch to succeed.
Fundable(chs, s, d, amount) ==
    /\ ValidBalance(amount)
    /\ s # d
    /\ chs[<<s, d>>].status # PENDING
    /\ chs[<<s, d>>].status = CLOSED => chs[<<s, d>>].epoch < MaxEpoch

BugFunded(ch, amount) ==
    [ch EXCEPT !.balance = @ + amount, !.status = OPEN,
               !.ticketIndex = IF ch.status = CLOSED THEN 0 ELSE @]

Funded(ch, amount) ==
    IF ch.status = CLOSED
    THEN [ch EXCEPT !.balance = @ + amount, !.epoch = @ + 1,
                    !.ticketIndex = 0, !.status = OPEN]
    ELSE [ch EXCEPT !.balance = @ + amount]

FundLogs(c, ch, amount) ==
    (IF ch.status = CLOSED THEN <<Event("ChannelOpened", c, 0)>> ELSE <<>>)
    \o <<Event("ChannelBalanceIncreased", c, ch.balance + amount)>>

\* fundChannel and fundChannelSafe, which pull the tokens, and the ERC777 hook
\* tokensReceived with one channel as payload, after the tokens arrived.
fundChannel(s, d, amount) ==
    LET c == <<s, d>> IN
    /\ held + amount <= TotalSupply
    /\ Fundable(channels, s, d, amount)
    /\ channels' = [channels EXCEPT ![c] = Funded(@, amount)]
    /\ held' = held + amount
    /\ logs' = FundLogs(c, channels[c], amount)
    /\ UNCHANGED <<now, paid, noticed>>

\* The hook with a bidirectional payload: anybody funds both directions, each
\* skipped when its amount is 0.
fundBidirectional(s, d, amount1, amount2) ==
    LET c1 == <<s, d>>
        c2 == <<d, s>>
        chs1 == [channels EXCEPT ![c1] = Funded(@, amount1)]
        chs2 == [chs1 EXCEPT ![c2] = Funded(@, amount2)]
    IN
    /\ amount1 + amount2 > 0
    /\ held + amount1 + amount2 <= TotalSupply
    /\ amount1 > 0 => Fundable(channels, s, d, amount1)
    /\ amount2 > 0 => Fundable(channels, d, s, amount2)
    /\ channels' = IF amount1 = 0 THEN [channels EXCEPT ![c2] = Funded(@, amount2)]
                   ELSE IF amount2 = 0 THEN chs1 ELSE chs2
    /\ held' = held + amount1 + amount2
    /\ logs' = (IF amount1 = 0 THEN <<>> ELSE FundLogs(c1, channels[c1], amount1))
               \o (IF amount2 = 0 THEN <<>> ELSE FundLogs(c2, channels[c2], amount2))
    /\ UNCHANGED <<now, paid, noticed>>

\* Tokens sent without a payload are kept and credited to no channel.
tokensReceivedNoData(amount) ==
    /\ amount > 0
    /\ held + amount <= TotalSupply
    /\ held' = held + amount
    /\ logs' = <<>>
    /\ UNCHANGED <<channels, now, paid, noticed>>

-------------------------------------------------------------------------------
(* Redeeming *)

BugInterval(ch, t) == t.indexOffset >= 1 /\ t.ticketIndex + 1 >= ch.ticketIndex

\* The validity interval of an aggregatable ticket; the new index is a checked
\* uint48 addition.
Interval(ch, t) ==
    /\ t.indexOffset >= 1
    /\ t.ticketIndex >= ch.ticketIndex
    /\ t.ticketIndex + t.indexOffset <= MaxTicketIndex

Redeemable(ch, t) ==
    /\ ValidBalance(t.amount)
    /\ ch.status \in {OPEN, PENDING}
    /\ ch.epoch = t.epoch
    /\ Interval(ch, t)
    /\ ch.balance >= t.amount

Spent(ch, t) == [ch EXCEPT !.ticketIndex = t.ticketIndex + t.indexOffset,
                           !.balance = @ - t.amount]

BugEarned(ch, amount) == [ch EXCEPT !.balance = @ + amount]

\* The earnings go to the redeemer's own channel towards the issuer, which may
\* be pending closure, unless that channel is closed.
Earned(ch, amount) ==
    IF ch.status = CLOSED THEN ch ELSE [ch EXCEPT !.balance = @ + amount]

Covers(t, i) == i >= t.ticketIndex /\ i < t.ticketIndex + t.indexOffset

redeemTicket(s, d, t) ==
    LET c == <<s, d>>
        back == <<d, s>>
    IN
    /\ Redeemable(channels[c], t)
    /\ channels' = [[channels EXCEPT ![c] = Spent(@, t)]
                              EXCEPT ![back] = Earned(@, t.amount)]
    /\ held' = IF channels[back].status = CLOSED THEN held - t.amount ELSE held
    /\ logs' = <<Event("ChannelBalanceDecreased", c, channels[c].balance - t.amount),
                 Event("TicketRedeemed", c, t.ticketIndex + t.indexOffset)>>
               \o IF channels[back].status = CLOSED THEN <<>>
                  ELSE <<Event("ChannelBalanceIncreased", back,
                               channels[back].balance + t.amount)>>
    /\ paid' = [paid EXCEPT ![c][t.epoch] =
                   [i \in Indices |-> IF Covers(t, i) THEN @[i] + 1 ELSE @[i]]]
    /\ UNCHANGED <<now, noticed>>

-------------------------------------------------------------------------------
(* Closing *)

initiateOutgoingChannelClosure(s, d) ==
    LET c == <<s, d>> IN
    /\ channels[c].status # CLOSED
    /\ channels' = [channels EXCEPT ![c].closureTime = now + NoticePeriod,
                                    ![c].status = PENDING]
    /\ logs' = <<Event("OutgoingChannelClosureInitiated", c, now + NoticePeriod)>>
    /\ noticed' = [noticed EXCEPT ![c] = now]
    /\ UNCHANGED <<held, now, paid>>

BugClosedFrom(ch) == [ch EXCEPT !.closureTime = 0, !.ticketIndex = 0, !.status = CLOSED]

\* Everything but the epoch is reset.
ClosedFrom(ch) == [ch EXCEPT !.closureTime = 0, !.ticketIndex = 0,
                             !.balance = 0, !.status = CLOSED]

Close(c) ==
    /\ channels' = [channels EXCEPT ![c] = ClosedFrom(@)]
    /\ held' = held - channels[c].balance
    /\ logs' = <<Event("ChannelClosed", c, 0)>>
    /\ noticed' = [noticed EXCEPT ![c] = -1]
    /\ UNCHANGED <<now, paid>>

\* The destination d closes the channel from s at once.
closeIncomingChannel(d, s) ==
    /\ channels[<<s, d>>].status # CLOSED
    /\ Close(<<s, d>>)

BugNoticeDue(ch) == ch.closureTime <= now

BugNoticeTwice(ch) == ch.closureTime + NoticePeriod < now

NoticeDue(ch) == ch.closureTime < now

finalizeOutgoingChannelClosure(s, d) ==
    /\ channels[<<s, d>>].status = PENDING
    /\ NoticeDue(channels[<<s, d>>])
    /\ Close(<<s, d>>)

-------------------------------------------------------------------------------
\* A later block.
Tick ==
    /\ now < MaxTime
    /\ now' = now + 1
    /\ logs' = <<>>
    /\ UNCHANGED <<channels, held, paid, noticed>>

Next ==
    \/ \E s, d \in Node, a \in 0 .. MaxUsedBalance + 1 : fundChannel(s, d, a)
    \/ \E s, d \in Node, a1, a2 \in 0 .. MaxUsedBalance + 1 :
          fundBidirectional(s, d, a1, a2)
    \/ \E a \in 0 .. MaxUsedBalance : tokensReceivedNoData(a)
    \/ \E s, d \in Node, t \in TicketData : redeemTicket(s, d, t)
    \/ \E s, d \in Node : initiateOutgoingChannelClosure(s, d)
    \/ \E s, d \in Node : closeIncomingChannel(d, s)
    \/ \E s, d \in Node : finalizeOutgoingChannelClosure(s, d)
    \/ Tick

Spec == Init /\ [][Next]_vars

\* Blocks keep coming, and the source of a channel whose notice is due takes
\* its funds back (the closure finalizer strategy retries on every tick).
Fairness ==
    /\ WF_vars(Tick)
    /\ \A s, d \in Node : WF_vars(finalizeOutgoingChannelClosure(s, d))

LiveSpec == Spec /\ Fairness

-------------------------------------------------------------------------------
(* Properties *)

\* Every variable has its type.
TypeOK ==
    /\ channels \in [ChannelId -> Channel]
    /\ held \in Int
    /\ now \in Nat
    /\ logs \in Seq([name : EventName, id : ChannelId, value : Nat])
    /\ paid \in [ChannelId -> [Epochs -> [Indices -> Nat]]]
    /\ noticed \in [ChannelId -> Nat \cup {-1}]

\* Replay protection of _redeemTicketInternal across closing and reopening: no
\* index of an incarnation of a channel is paid twice, neither by one ticket
\* presented again nor by an aggregated ticket and one it contains.
IndexPaidOnce ==
    \A c \in ChannelId, e \in Epochs, i \in Indices : paid[c][e][i] <= 1

\* Whatever sequence of funding, redeeming and closing happened, the contract
\* holds the tokens that all channels together can still pay out.
Solvent == SumFunction([c \in ChannelId |-> channels[c].balance]) <= held

\* No transaction moves tokens between unrelated channels: it changes the two
\* channels of one pair of nodes only, and the tokens held follow the sum of
\* those two balances (tokens sent without a payload stay on top).
Gain(c) == channels'[c].balance - channels[c].balance

Conserves ==
    \/ /\ \A x \in ChannelId : Gain(x) = 0
       /\ held' >= held
    \/ \E s, d \in Node :
          /\ s # d
          /\ \A x \in ChannelId \ {<<s, d>>, <<d, s>>} : Gain(x) = 0
          /\ held' - held = Gain(<<s, d>>) + Gain(<<d, s>>)

StepConserves == [][Conserves]_vars

\* The destination has the whole notice period to redeem: the source takes its
\* funds back strictly more than NoticePeriod after the LATEST closure notice it
\* gave for this incarnation of the channel, whatever notices came before, also
\* in earlier incarnations.
ClosesInTime ==
    \A s, d \in Node :
        finalizeOutgoingChannelClosure(s, d)
           => /\ noticed[<<s, d>>] # -1
              /\ now > noticed[<<s, d>>] + NoticePeriod

NoticeKept == [][ClosesInTime]_vars

\* The claims of the current incarnation are the ticket indices paid in it.
Claimed(c) ==
    IF channels[c].status = CLOSED THEN {}
    ELSE {i \in Indices : paid[c][channels[c].epoch][i] > 0}

E(c) == INSTANCE Escrow WITH
    Index <- Indices,
    phase <- channels[c].status,
    deposit <- channels[c].balance,
    incarnation <- channels[c].epoch,
    claimed <- Claimed(c)

EscrowStep == \A c \in ChannelId : [E(c)!Next]_(E(c)!evars)

\* Every channel implements the escrow it promises (Escrow!Spec, conjoined over
\* all channels): in particular a redemption always claims a fresh index.
ImplementsEscrow == (\A c \in ChannelId : E(c)!Init) /\ [][EscrowStep]_vars

\* A closure that was announced before the last NoticePeriod of the modelled
\* time is carried out, or the destination closes first, although the source
\* may extend the notice again and again.
ClosureCompletes ==
    \A c \in ChannelId :
        channels[c].status = PENDING /\ channels[c].closureTime < MaxTime
            ~> \/ channels[c].status = CLOSED
               \/ channels[c].closureTime >= MaxTime
===============================================================================
