-------------------------- MODULE OutgoingTicketIndex --------------------------
(***************************************************************************)
(* The counter from which a node numbers the tickets it issues in one of   *)
(* its outgoing channels.  The counter lives in a cache; a periodic task   *)
(* copies it into the tickets database, from where it is loaded again      *)
(* after a restart.  The indexer resets it when the channel closes or      *)
(* reopens and raises it when a ticket is redeemed.                        *)
(*                                                                         *)
(* Packets are sent by concurrent tasks: each first looks the channel up,  *)
(* in the channel cache if it is there, and numbers its ticket later.      *)
(* Every block holds one log of the channel, and the indexer handles it in *)
(* one transaction: the effects on the caches are visible at once, those   *)
(* on the channel entry when the transaction commits.                      *)
(***************************************************************************)
EXTENDS Integers, Sequences

CONSTANTS
    Task,        \* concurrent tasks that send packets
    MaxEpoch,    \* bound on the incarnations of the channel
    MaxIndex,    \* bound on the counter
    MaxBehind,   \* bound on the logs the indexer is behind the chain
    MaxCrash     \* bound on crashes

ASSUME OutgoingTicketIndexAssumption ==
    /\ MaxEpoch \in Nat /\ MaxIndex \in Nat
    /\ MaxBehind \in Nat /\ MaxCrash \in Nat

VARIABLES
    onchain,    \* the channel on chain: incarnation, open or not, ticket index
    logs,       \* logs of the channel the indexer has not marked processed
    handler,    \* the log being handled: "idle", "handled" or "committed"
    entry,      \* the channel entry of the index database
    chcache,    \* src_dst_to_channel: the entry as it is cached, or NotCached
    cache,      \* ticket_index: the cached counter, or NotCached
    stored,     \* index column of the outgoing_ticket_index row, or NoRow
    flush,      \* progress of persist_outgoing_ticket_indices
    task,       \* task -> epoch of the channel it looked up, 0 when idle
    issued,     \* history: epoch -> indices of issued tickets
    recent,     \* history: indices issued since the cache was last lost ...
    durable,    \* ... and before the latest completed flush (current epoch)
    crashes

chainVars == <<onchain, logs>>
indexVars == <<handler, entry, chcache>>
historyVars == <<issued, recent, durable>>
vars == <<onchain, logs, handler, entry, chcache, cache, stored, flush, task,
          issued, recent, durable, crashes>>

NotCached == -1
NoRow == -1
Idle == 0

Epoch == 1 .. MaxEpoch
Index == 0 .. MaxIndex

Opened == [name |-> "ChannelOpened", index |-> 0]
Closed == [name |-> "ChannelClosed", index |-> 0]
Redeemed(i) == [name |-> "TicketRedeemed", index |-> i]

\* Before the first ChannelOpened there is no entry, here epoch 0.
Init ==
    /\ onchain = [epoch |-> 0, open |-> FALSE, index |-> 0]
    /\ logs = <<>>
    /\ handler = "idle"
    /\ entry = [epoch |-> 0, open |-> FALSE]
    /\ chcache = NotCached
    /\ cache = NotCached
    /\ stored = NoRow
    /\ flush = [pc |-> "idle", row |-> 0, cached |-> 0, seen |-> {}]
    /\ task = [t \in Task |-> Idle]
    /\ issued = [e \in Epoch |-> {}]
    /\ recent = {}
    /\ durable = {}
    /\ crashes = 0

--------------------------------------------------------------------------------
(* The counter *)

BugLoaded == IF cache # NotCached THEN cache ELSE stored

\* get_outgoing_ticket_index: the cached counter, else the stored one, else a
\* new row with 0.
Loaded == IF cache # NotCached THEN cache ELSE IF stored = NoRow THEN 0 ELSE stored

RowLoaded == IF stored = NoRow THEN 0 ELSE stored

Larger(i, j) == IF i > j THEN i ELSE j

BugCompareAndSet(i) == cache' = i /\ stored' = RowLoaded

compare_and_set_outgoing_ticket_index(i) ==
    cache' = Larger(Loaded, i) /\ stored' = RowLoaded

reset_outgoing_ticket_index == cache' = 0 /\ stored' = RowLoaded

increment_outgoing_ticket_index == cache' = Loaded + 1 /\ stored' = RowLoaded

--------------------------------------------------------------------------------
(* Sending packets *)

\* get_channel_by_parties with use_cache: a task gets hold of the channel.
LookUp(t) ==
    /\ task[t] = Idle
    /\ LET found == IF chcache # NotCached THEN chcache ELSE entry.epoch IN
       /\ found > 0
       /\ chcache' = found
       /\ task' = [task EXCEPT ![t] = found]
    /\ UNCHANGED <<chainVars, handler, entry, cache, stored, flush, historyVars, crashes>>

\* The lookup found no funds in the channel, or the packet fails.
GiveUp(t) ==
    /\ task[t] # Idle
    /\ task' = [task EXCEPT ![t] = Idle]
    /\ UNCHANGED <<chainVars, indexVars, cache, stored, flush, historyVars, crashes>>

\* create_multihop_ticket numbers the ticket.
Issue(t) ==
    /\ task[t] # Idle
    /\ Loaded < MaxIndex
    /\ increment_outgoing_ticket_index
    /\ task' = [task EXCEPT ![t] = Idle]
    /\ issued' = [issued EXCEPT ![task[t]] = @ \cup {Loaded}]
    /\ recent' = IF task[t] = onchain.epoch THEN recent \cup {Loaded} ELSE recent
    /\ UNCHANGED <<chainVars, indexVars, flush, durable, crashes>>

\* aggregate_tickets raises the counter beyond the last ticket presented by the
\* counterparty; a single ticket is accepted from any incarnation.
aggregate_tickets(e, i) ==
    /\ i \in issued[e]
    /\ compare_and_set_outgoing_ticket_index(i + 1)
    /\ UNCHANGED <<chainVars, indexVars, flush, task, historyVars, crashes>>

--------------------------------------------------------------------------------
(* persist_outgoing_ticket_indices, run every 5 seconds *)

FlushRows ==
    /\ flush.pc = "idle"
    /\ stored # NoRow
    /\ flush' = [flush EXCEPT !.pc = "rows", !.row = stored]
    /\ UNCHANGED <<chainVars, indexVars, cache, stored, task, historyVars, crashes>>

FlushLoad ==
    /\ flush.pc = "rows"
    /\ flush' = IF cache = NotCached
                THEN [flush EXCEPT !.pc = "idle"]
                ELSE [flush EXCEPT !.pc = "loaded", !.cached = cache, !.seen = recent]
    /\ UNCHANGED <<chainVars, indexVars, cache, stored, task, historyVars, crashes>>

BugFlushed(row, cached) == IF cached > row + 1 THEN cached ELSE row

Flushed(row, cached) == IF cached > row THEN cached ELSE row

\* Written only if larger than the row read at the start.
FlushStore ==
    /\ flush.pc = "loaded"
    /\ stored' = IF Flushed(flush.row, flush.cached) = flush.row THEN stored
                 ELSE Flushed(flush.row, flush.cached)
    /\ flush' = [flush EXCEPT !.pc = "idle", !.seen = {}]
    /\ durable' = durable \cup flush.seen
    /\ UNCHANGED <<chainVars, indexVars, cache, task, issued, recent, crashes>>

--------------------------------------------------------------------------------
(* The chain and the indexer *)

ChainOpen ==
    /\ ~onchain.open
    /\ onchain.epoch < MaxEpoch
    /\ onchain' = [epoch |-> onchain.epoch + 1, open |-> TRUE, index |-> 0]
    /\ Len(logs) < MaxBehind
    /\ logs' = Append(logs, Opened)
    /\ recent' = {}
    /\ durable' = {}
    /\ flush' = [flush EXCEPT !.seen = {}]
    /\ UNCHANGED <<indexVars, cache, stored, task, issued, crashes>>

ChainClose ==
    /\ onchain.open
    /\ onchain' = [onchain EXCEPT !.open = FALSE, !.index = 0]
    /\ Len(logs) < MaxBehind
    /\ logs' = Append(logs, Closed)
    /\ UNCHANGED <<indexVars, cache, stored, flush, task, historyVars, crashes>>

\* The counterparty redeems one of the tickets.
ChainRedeem(i) ==
    /\ onchain.open
    /\ i \in issued[onchain.epoch]
    /\ i >= onchain.index
    /\ onchain' = [onchain EXCEPT !.index = i + 1]
    /\ Len(logs) < MaxBehind
    /\ logs' = Append(logs, Redeemed(i + 1))
    /\ UNCHANGED <<indexVars, cache, stored, flush, task, historyVars, crashes>>

\* Whether the handler resets the counter: on closure, and on opening when the
\* channel is known and was closed (a first opening only creates the entry; one
\* of a channel that is not closed is an error, which is logged).
Resets ==
    \/ Head(logs) = Closed /\ entry.epoch > 0
    \/ Head(logs) = Opened /\ entry.epoch > 0 /\ ~entry.open

Handle ==
    /\ handler = "idle" /\ logs # <<>>
    /\ handler' = "handled"
    /\ IF Resets THEN reset_outgoing_ticket_index
       ELSE IF Head(logs).name = "TicketRedeemed"
       THEN compare_and_set_outgoing_ticket_index(Head(logs).index)
       ELSE UNCHANGED <<cache, stored>>
    /\ chcache' = NotCached
    /\ UNCHANGED <<chainVars, entry, flush, task, historyVars, crashes>>

Commit ==
    /\ handler = "handled"
    /\ handler' = "committed"
    /\ entry' = CASE Head(logs) = Closed -> [entry EXCEPT !.open = FALSE]
                  [] Head(logs) = Opened /\ ~entry.open ->
                        [epoch |-> entry.epoch + 1, open |-> TRUE]
                  [] OTHER -> entry
    /\ UNCHANGED <<chainVars, chcache, cache, stored, flush, task, historyVars, crashes>>

\* set_logs_processed, in another database.
MarkProcessed ==
    /\ handler = "committed"
    /\ handler' = "idle"
    /\ logs' = Tail(logs)
    /\ UNCHANGED <<onchain, entry, chcache, cache, stored, flush, task, historyVars, crashes>>

--------------------------------------------------------------------------------
(* Losing the caches *)

\* The time to live of a cached channel entry, 10 minutes, is over.
ExpireChannel ==
    /\ chcache # NotCached
    /\ chcache' = NotCached
    /\ UNCHANGED <<chainVars, handler, entry, cache, stored, flush, task, historyVars, crashes>>

\* A restart; the log whose handling was not marked is handled again.
Crash ==
    /\ crashes < MaxCrash
    /\ crashes' = crashes + 1
    /\ handler' = "idle" /\ chcache' = NotCached /\ cache' = NotCached
    /\ flush' = [flush EXCEPT !.pc = "idle", !.seen = {}]
    /\ task' = [t \in Task |-> Idle]
    /\ recent' = {}
    /\ UNCHANGED <<chainVars, entry, stored, issued, durable>>

Next ==
    \/ \E t \in Task : LookUp(t) \/ GiveUp(t) \/ Issue(t)
    \/ \E e \in Epoch, i \in Index : aggregate_tickets(e, i)
    \/ FlushRows \/ FlushLoad \/ FlushStore
    \/ ChainOpen \/ ChainClose \/ \E i \in Index : ChainRedeem(i)
    \/ Handle \/ Commit \/ MarkProcessed
    \/ ExpireChannel \/ Crash

Spec == Init /\ [][Next]_vars

\* The flush task runs on a timer and the indexer follows the chain; nobody has
\* to open, close, redeem or send anything.
Fairness ==
    /\ WF_vars(FlushRows \/ FlushLoad \/ FlushStore)
    /\ WF_vars(Handle \/ Commit \/ MarkProcessed)

LiveSpec == Spec /\ Fairness

--------------------------------------------------------------------------------
(* Properties *)

\* Every variable has its type.
TypeOK ==
    /\ onchain \in [epoch : 0 .. MaxEpoch, open : BOOLEAN, index : Nat]
    /\ logs \in Seq([name : {"ChannelOpened", "ChannelClosed", "TicketRedeemed"}, index : Nat])
    /\ handler \in {"idle", "handled", "committed"}
    /\ entry \in [epoch : 0 .. MaxEpoch, open : BOOLEAN]
    /\ chcache \in Nat \cup {NotCached}
    /\ cache \in Nat \cup {NotCached}
    /\ stored \in Nat \cup {NoRow}
    /\ flush \in [pc : {"idle", "rows", "loaded"}, row : Nat, cached : Nat, seen : SUBSET Index]
    /\ task \in [Task -> 0 .. MaxEpoch]
    /\ issued \in [Epoch -> SUBSET Index]
    /\ recent \in SUBSET Index /\ durable \in SUBSET Index
    /\ crashes \in Nat

\* The index a task is about to put on a ticket for the open channel.
Numbers(t) == Issue(t) /\ onchain.open /\ task[t] = onchain.epoch

\* While a channel is open on chain, a ticket never reuses an index that was
\* issued since the last restart, nor one that was issued before a completed
\* run of persist_outgoing_ticket_indices, whatever restarts, resets and late
\* lookups happen: at most the tickets of the last flush interval before a
\* restart are numbered again.
FreshIndex == \A t \in Task : Numbers(t) => Loaded \notin recent \cup durable

NoReissue == [][FreshIndex]_vars

\* persist_outgoing_ticket_indices catches up with the counter, although the
\* counter keeps moving while it runs.
FlushCatchesUp == \A v \in Index : cache = v ~> (stored >= v \/ cache < v)
================================================================================
