-------------------------------- MODULE Tickets --------------------------------
(***************************************************************************)
(* The winning tickets of one incoming channel, in one epoch, from their   *)
(* acknowledgement to the chain: they are queued, stored, aggregated with  *)
(* the issuer and redeemed.  Every plain ticket is worth one unit; a       *)
(* ticket carries the set of plain tickets it pays for.                    *)
(*                                                                         *)
(* The variable disturbed is a history variable: it records that one of    *)
(* the three things happened by which the code is known to lose tickets    *)
(* of an aggregation.                                                      *)
(***************************************************************************)
EXTENDS Integers, Sequences, FiniteSets, FiniteSetsExt

CONSTANTS
    Index,           \* indices of the winning tickets
    Stake,           \* balance of the channel
    Caller,          \* callers of aggregate_tickets: strategy, API
    QueueSize,       \* capacity of the queue of ticket operations
    MaxAggregation,  \* bound on the batches that are prepared
    MaxRedemption,   \* bound on the tickets taken for redemption
    MaxCrash         \* bound on restarts

ASSUME TicketsAssumption ==
    /\ Index \subseteq Nat /\ Index # {} /\ IsFiniteSet(Index)
    /\ Stake \in Nat /\ QueueSize \in Nat \ {0}
    /\ MaxAggregation \in Nat /\ MaxRedemption \in Nat /\ MaxCrash \in Nat

VARIABLES
    pending,      \* tickets that are validated and not acknowledged
    dropped,      \* acknowledged tickets that found the queue full
    queue,        \* operations on their way to the ticket database
    rows,         \* the ticket database
    marking,      \* what the handler of TicketRedeemed is about to mark
    selected,     \* tickets a redeemer has read and not yet marked
    submitted,    \* redeem actions that are not finished
    ticket_index, \* ticket index of the channel
    paid,         \* plain ticket -> how often it was paid
    callers,      \* caller -> batch it waits for, Idle or Failed
    net,          \* aggregation requests and replies on their way
    disturbed,    \* whether an aggregation was abandoned or overtaken
    batches, redemptions, crashes

pipeVars == <<pending, dropped>>
redeemVars == <<selected, submitted, ticket_index, paid, marking>>
aggVars == <<callers, net, batches>>
vars == <<pipeVars, queue, rows, redeemVars, aggVars, disturbed, redemptions, crashes>>

Idle == 0
Failed == -1

Plain(i) == [index |-> i, offset |-> 1, pays |-> {i}]
Insertion(i) == [op |-> "Insert", ticket |-> Plain(i)]
Amount(t) == Cardinality(t.pays)
Total(T) == MapThenSumSet(Amount, T)
BugEnd(t) == t.index + 1
End(t) == t.index + t.offset

Row(t, state) == [ticket |-> t, state |-> state]
TicketsOf(R) == {r.ticket : r \in R}
InState(state) == {r \in rows : r.state = state}
Aggregating == InState("BeingAggregated")

\* Rows get a new state, whatever their state was.
Updated(R, state) == (rows \ R) \cup {Row(r.ticket, state) : r \in R}

balance == Stake - MapThenSumSet(LAMBDA i : paid[i], Index)

\* The write lock of the ticket database is held while tickets are marked.
Unlocked == marking = "none"

Init ==
    /\ pending = Index /\ dropped = {}
    /\ queue = <<>> /\ rows = {}
    /\ marking = "none" /\ selected = {} /\ submitted = {}
    /\ ticket_index = 0 /\ paid = [i \in Index |-> 0]
    /\ callers = [c \in Caller |-> Idle] /\ net = {}
    /\ disturbed = FALSE /\ batches = 0 /\ redemptions = 0 /\ crashes = 0

--------------------------------------------------------------------------------
(* Acknowledgements *)

\* The ticket leaves the pending ones before it is known whether the queue
\* has room for it.
handle_acknowledgement(i) ==
    /\ i \in pending
    /\ pending' = pending \ {i}
    /\ \/ /\ Len(queue) < QueueSize
          /\ queue' = Append(queue, Insertion(i))
          /\ UNCHANGED dropped
       \/ /\ Len(queue) = QueueSize
          /\ dropped' = dropped \cup {i}
          /\ UNCHANGED queue
    /\ UNCHANGED <<rows, redeemVars, aggVars, disturbed, redemptions, crashes>>

--------------------------------------------------------------------------------
(* The task that empties the queue *)

BugReplaced(t) == {r \in rows : r.ticket.index \in t.index .. End(t) - 1}

\* What an aggregated ticket replaces.
Replaced(t) == {r \in Aggregating : r.ticket.index \in t.index .. End(t) - 1}

BugStored(R, t) == R \cup {Row(t, "Untouched")}

\* Channel, epoch and index of a row are unique.
Stored(R, t) == IF t.index \in {r.ticket.index : r \in R} THEN rows
                ELSE R \cup {Row(t, "Untouched")}

ProcessTicket ==
    /\ queue # <<>> /\ Unlocked
    /\ LET t == Head(queue).ticket IN
       rows' = IF Head(queue).op = "Insert" THEN Stored(rows, t)
               ELSE Stored(rows \ Replaced(t), t)
    /\ queue' = Tail(queue)
    /\ UNCHANGED <<pipeVars, redeemVars, aggVars, disturbed, redemptions, crashes>>

--------------------------------------------------------------------------------
(* Aggregation *)

\* Candidates in the order of their indices, as far as the stake goes.
Affordable(T) == {t \in T : Total({u \in T : u.index <= t.index}) <= balance}

\* Tickets inside the first one are left out.
Distinct(T) == {t \in T : \A u \in T : \/ t.index = u.index
                                       \/ \E v \in T : v.index < u.index
                                       \/ t.index \notin u.index .. End(u) - 1}

FirstToTake == Max({ticket_index} \cup {r.ticket.index + 1 : r \in InState("BeingRedeemed")})

ToAggregate == Distinct(Affordable({t \in TicketsOf(rows) : t.index >= FirstToTake}))

prepare_aggregation_in_channel(c) ==
    /\ callers[c] = Idle /\ Unlocked
    /\ Aggregating = {} /\ ToAggregate # {}
    /\ batches < MaxAggregation
    /\ batches' = batches + 1
    /\ rows' = Updated({r \in rows : r.ticket \in ToAggregate}, "BeingAggregated")
    /\ callers' = [callers EXCEPT ![c] = batches + 1]
    /\ net' = net \cup {[type |-> "Request", batch |-> batches + 1, tickets |-> ToAggregate]}
    /\ UNCHANGED <<pipeVars, queue, redeemVars, disturbed, redemptions, crashes>>

\* Another aggregation is under way: the error drops the finalizer, and the
\* caller takes that for a failure of its own aggregation.
PrepareFails(c) ==
    /\ callers[c] = Idle /\ Unlocked
    /\ Aggregating # {}
    /\ callers' = [callers EXCEPT ![c] = Failed]
    /\ UNCHANGED <<pipeVars, queue, rows, redeemVars, net, batches, disturbed, redemptions, crashes>>

Overlapping(T) == \E t, u \in T : t.index < u.index /\ End(t) > u.index

First(T) == CHOOSE t \in T : \A u \in T : t.index <= u.index
Last(T) == CHOOSE t \in T : \A u \in T : t.index >= u.index

\* Where the last ticket ends is not looked at.
Aggregated(T) == [index |-> First(T).index,
                  offset |-> Last(T).index - First(T).index + 1,
                  pays |-> UNION {t.pays : t \in T}]

\* aggregate_tickets of the issuer; a single ticket is sent back as it is.
Issue(m) ==
    /\ m \in net /\ m.type = "Request"
    /\ LET T == m.tickets IN
       net' = (net \ {m}) \cup
              IF Cardinality(T) = 1 THEN {[m EXCEPT !.type = "Reply"]}
              ELSE IF Overlapping(T) \/ Total(T) > balance THEN {}
              ELSE {[m EXCEPT !.type = "Reply", !.tickets = {Aggregated(T)}]}
    /\ UNCHANGED <<pipeVars, queue, rows, redeemVars, callers, batches, disturbed, redemptions, crashes>>

\* A reply is not compared with the batch that was asked for.  Only aggregates
\* always win.
Acceptable(t) ==
    /\ Aggregating # {}
    /\ t.offset > 1
    /\ Amount(t) >= Total(TicketsOf(Aggregating))
    /\ Len(queue) < QueueSize

process_received_aggregated_ticket(m) ==
    /\ m \in net /\ m.type = "Reply"
    /\ net' = net \ {m}
    /\ \E t \in m.tickets :
       \/ /\ Acceptable(t)
          /\ queue' = Append(queue, [op |-> "Replace", ticket |-> t])
          /\ callers' = [c \in Caller |-> IF callers[c] = m.batch THEN Idle ELSE callers[c]]
       \/ ~Acceptable(t) /\ UNCHANGED <<queue, callers>>
    /\ UNCHANGED <<pipeVars, rows, redeemVars, batches, disturbed, redemptions, crashes>>

AggregationTimeout(c) ==
    /\ callers[c] > Idle
    /\ callers' = [callers EXCEPT ![c] = Failed]
    /\ UNCHANGED <<pipeVars, queue, rows, redeemVars, net, batches, disturbed, redemptions, crashes>>

\* The aggregation may still be answered, or is and waits in the queue.
Answered == \/ net # {}
            \/ \E k \in DOMAIN queue : queue[k].op = "Replace"

BugRollback(c) ==
    /\ callers[c] = Failed /\ Unlocked
    /\ callers' = [callers EXCEPT ![c] = Idle]
    /\ disturbed' = (disturbed \/ Answered)
    /\ UNCHANGED <<pipeVars, queue, rows, redeemVars, net, batches, redemptions, crashes>>

rollback_aggregation_in_channel(c) ==
    /\ callers[c] = Failed /\ Unlocked
    /\ rows' = Updated(Aggregating, "Untouched")
    /\ callers' = [callers EXCEPT ![c] = Idle]
    /\ disturbed' = (disturbed \/ Answered)
    /\ UNCHANGED <<pipeVars, queue, redeemVars, net, batches, redemptions, crashes>>

--------------------------------------------------------------------------------
(* Redemption *)

\* update_ticket_states_and_fetch: the stream reads a row ...
Select(r) ==
    /\ r \in InState("Untouched") /\ r.ticket.index >= ticket_index
    /\ redemptions < MaxRedemption
    /\ redemptions' = redemptions + 1
    /\ selected' = selected \cup {r.ticket}
    /\ UNCHANGED <<pipeVars, queue, rows, submitted, ticket_index, paid, marking, aggVars, disturbed, crashes>>

\* ... and marks it later: mutex.lock() is not awaited, and the state of the row
\* is not looked at again.
MarkBeingRedeemed(t) ==
    /\ t \in selected
    /\ selected' = selected \ {t}
    /\ rows' = Updated({r \in rows : r.ticket = t}, "BeingRedeemed")
    /\ submitted' = submitted \cup {t}
    /\ disturbed' = (disturbed \/ Row(t, "Untouched") \notin rows)
    /\ UNCHANGED <<pipeVars, queue, ticket_index, paid, marking, aggVars, redemptions, crashes>>

RedeemFails(t) ==
    /\ t \in submitted /\ Unlocked
    /\ submitted' = submitted \ {t}
    /\ rows' = Updated({r \in rows : r.ticket.index = t.index}, "Untouched")
    /\ UNCHANGED <<pipeVars, queue, selected, ticket_index, paid, marking, aggVars, disturbed, redemptions, crashes>>

\* A ticket inside the range of an aggregate is redeemed before it.
Overtakes(t) == \E u \in TicketsOf(rows) \cup {queue[k].ticket : k \in DOMAIN queue} :
                   /\ u # t /\ u.index < End(t)
                   /\ \E i \in u.pays : i >= End(t)

\* The contract pays the ticket and the event is handled.
Redeemed(t) ==
    /\ t \in submitted /\ Unlocked
    /\ t.index >= ticket_index /\ Amount(t) <= balance
    /\ submitted' = submitted \ {t}
    /\ ticket_index' = End(t)
    /\ paid' = [i \in Index |-> IF i \in t.pays THEN paid[i] + 1 ELSE paid[i]]
    /\ marking' = "redeemed"
    /\ disturbed' = (disturbed \/ Overtakes(t))
    /\ UNCHANGED <<pipeVars, queue, rows, selected, aggVars, redemptions, crashes>>

MarkRedeemed ==
    /\ marking = "redeemed"
    /\ rows' = {r \in rows : r.state # "BeingRedeemed" \/ End(r.ticket) # ticket_index}
    /\ marking' = "neglected"
    /\ UNCHANGED <<pipeVars, queue, selected, submitted, ticket_index, paid, aggVars, disturbed, redemptions, crashes>>

MarkNeglected ==
    /\ marking = "neglected"
    /\ rows' = {r \in rows : r.ticket.index >= ticket_index}
    /\ marking' = "none"
    /\ UNCHANGED <<pipeVars, queue, selected, submitted, ticket_index, paid, aggVars, disturbed, redemptions, crashes>>

--------------------------------------------------------------------------------

\* At the start tickets being aggregated are reset, as is the ticket that is next
\* to be redeemed; an event that was not handled to the end is handled again.
Crash ==
    /\ crashes < MaxCrash
    /\ crashes' = crashes + 1
    /\ dropped' = dropped \cup pending \cup {i \in Index : \E k \in DOMAIN queue : queue[k] = Insertion(i)}
    /\ pending' = {} /\ queue' = <<>>
    /\ rows' = Updated(Aggregating \cup {r \in InState("BeingRedeemed") : r.ticket.index = ticket_index},
                       "Untouched")
    /\ marking' = IF Unlocked THEN "none" ELSE "redeemed"
    /\ selected' = {} /\ submitted' = {}
    /\ callers' = [c \in Caller |-> Idle] /\ net' = {}
    /\ UNCHANGED <<ticket_index, paid, batches, disturbed, redemptions>>

Aggregate(c) ==
    \/ prepare_aggregation_in_channel(c) \/ PrepareFails(c)
    \/ AggregationTimeout(c) \/ rollback_aggregation_in_channel(c)

Transfer(m) == Issue(m) \/ process_received_aggregated_ticket(m)

Next ==
    \/ \E i \in Index : handle_acknowledgement(i)
    \/ ProcessTicket
    \/ \E c \in Caller : Aggregate(c)
    \/ \E m \in net : Transfer(m)
    \/ \E r \in rows : Select(r)
    \/ \E t \in selected : MarkBeingRedeemed(t)
    \/ \E t \in submitted : RedeemFails(t) \/ Redeemed(t)
    \/ MarkRedeemed \/ MarkNeglected
    \/ Crash

Spec == Init /\ [][Next]_vars

\* Tasks that were started run on and the timer of a caller goes off; the
\* strategy calls again at every tick.  Messages may stay away for ever.
Fairness ==
    /\ WF_vars(MarkRedeemed \/ MarkNeglected) /\ WF_vars(ProcessTicket)
    /\ \A c \in Caller : WF_vars(Aggregate(c))

FairSpec == Spec /\ Fairness

--------------------------------------------------------------------------------

Ticket == [index : Index, offset : 1 .. Max(Index) + 1, pays : (SUBSET Index) \ {{}}]
State == {"Untouched", "BeingRedeemed", "BeingAggregated"}

\* The types of the variables, and that no two rows share an index although the
\* task that empties the queue, callers and redeemers all write to the database.
TypeOK ==
    /\ pending \subseteq Index /\ dropped \subseteq Index \ pending
    /\ Len(queue) <= QueueSize
    /\ \A k \in DOMAIN queue : queue[k].op \in {"Insert", "Replace"} /\ queue[k].ticket \in Ticket
    /\ rows \subseteq [ticket : Ticket, state : State]
    /\ \A r, q \in rows : r.ticket.index = q.ticket.index => r = q
    /\ marking \in {"none", "redeemed", "neglected"}
    /\ selected \subseteq Ticket /\ submitted \subseteq Ticket
    /\ ticket_index \in 0 .. 2 * (Max(Index) + 1) /\ paid \in [Index -> Nat]
    /\ callers \in [Caller -> Failed .. MaxAggregation]
    /\ net \subseteq [type : {"Request", "Reply"}, batch : 1 .. MaxAggregation, tickets : SUBSET Ticket]
    /\ disturbed \in BOOLEAN

\* No ticket is paid twice, once by itself and once inside an aggregate, although
\* redeemers and aggregations work on the same rows.
PaidOnce == disturbed \/ \A i \in Index : paid[i] <= 1

InQueue == UNION {queue[k].ticket.pays : k \in DOMAIN queue}
InDatabase == UNION {t.pays : t \in TicketsOf(rows)}

\* An acknowledged ticket that found room in the queue and survived no restart
\* there stays in the queue or in the database, by itself or inside an aggregate,
\* until it is paid or the ticket index of the channel has passed it.
NothingLost ==
    \/ disturbed
    \/ \A i \in Index : \/ i \in pending \cup dropped \cup InQueue \cup InDatabase
                        \/ i < ticket_index \/ paid[i] > 0

\* Tickets do not stay in the state BeingAggregated, in which they can neither be
\* redeemed nor aggregated, whatever becomes of the request and its reply.
AggregationEnds == Aggregating # {} ~> Aggregating = {}
================================================================================
