-------------------------------- MODULE Indexer --------------------------------
(***************************************************************************)
(* The indexer: it follows the blocks of the chain and keeps a replica of  *)
(* the payment channels in the index database.  The logs of each block are *)
(* first stored in a second database, where they are later marked as       *)
(* processed and checksummed; at start the two databases decide which      *)
(* blocks are handled again (fast sync) and from where the RPC stream is   *)
(* read.                                                                   *)
(*                                                                         *)
(* One channel, own or foreign to the node, stands for the indexed data.   *)
(* Blocks without logs are left out; all blocks are final.  Between two    *)
(* steps of the indexer the node may crash.                                *)
(***************************************************************************)
EXTENDS Integers, Sequences, SequencesExt, FiniteSetsExt

CONSTANTS
    FastSync,       \* cfg.fast_sync
    MaxTxPerBlock,  \* bound (1 or 2) on the channel's transactions in one block
    MaxBlock,       \* bound on the number of blocks
    MaxBalance,     \* bound on the balance of the channel
    MaxCrash,       \* bound on crashes
    MaxStop,        \* bound on orderly restarts
    MaxFail         \* bound on steps of process_block that fail

ASSUME IndexerAssumption ==
    /\ FastSync \in BOOLEAN
    /\ MaxTxPerBlock \in 1 .. 2
    /\ {MaxBlock, MaxBalance, MaxCrash, MaxStop, MaxFail} \subseteq Nat

VARIABLES
    own,          \* the node is one of the channel's two parties
    blocks,       \* the chain: per block its logs and the channel after it
    entry,        \* row of the channel table, or NoEntry
    filled,       \* ~index_is_empty
    stored,       \* blocks whose logs are in the log table ...
    processed,    \* ... of which these are marked processed ...
    checksummed,  \* ... and these have a checksum
    mode,         \* "down", "fast" (fast sync) or "rpc"
    queue,        \* blocks that fast sync still has to handle
    next,         \* next block of the RPC stream
    cur, stage,   \* block in process_block and how far it got, 0 and "none"
    applied,      \* history: blocks committed since the index was last emptied
    crashes, stops, fails

chainVars == <<own, blocks>>
logVars == <<stored, processed, checksummed>>
syncVars == <<mode, queue, next>>
boundVars == <<crashes, stops, fails>>
vars == <<own, blocks, entry, filled, stored, processed, checksummed, mode, queue,
          next, cur, stage, applied, crashes, stops, fails>>

CLOSED == "Closed"
OPEN == "Open"
PENDING == "PendingToClose"

Unused == [status |-> CLOSED, epoch |-> 0, index |-> 0, balance |-> 0]
NoEntry == [status |-> "None", epoch |-> 0, index |-> 0, balance |-> 0]

Log(name, x) == [name |-> name, value |-> x]

onchain == IF blocks = <<>> THEN Unused ELSE Last(blocks).after

\* The largest block of a set, 0 if there is none.
LastOf(S) == Max(S \cup {0})

Init ==
    /\ own \in BOOLEAN
    /\ blocks = <<>>
    /\ entry = NoEntry /\ filled = FALSE
    /\ stored = {} /\ processed = {} /\ checksummed = {}
    /\ mode = "down" /\ queue = {} /\ next = 1
    /\ cur = 0 /\ stage = "none"
    /\ applied = {}
    /\ crashes = 0 /\ stops = 0 /\ fails = 0

--------------------------------------------------------------------------------
(* The chain *)

\* The transactions the contract accepts for channel ch, each with the channel
\* after it and the logs it emits (fundChannel, redeemTicket, the two closures).
Tx(ch) ==
    LET funded == [ch EXCEPT !.balance = @ + 1, !.status = IF @ = CLOSED THEN OPEN ELSE @,
                             !.epoch = IF ch.status = CLOSED THEN @ + 1 ELSE @]
        spent == [ch EXCEPT !.balance = @ - 1, !.index = @ + 1]
    IN
    (IF ch.status # PENDING /\ ch.balance < MaxBalance
     THEN {[after |-> funded,
            logs |-> (IF ch.status = CLOSED THEN <<Log("ChannelOpened", 0)>> ELSE <<>>)
                     \o <<Log("ChannelBalanceIncreased", funded.balance)>>]}
     ELSE {})
    \cup
    (IF ch.status # CLOSED /\ ch.balance > 0
     THEN {[after |-> spent,
            logs |-> <<Log("ChannelBalanceDecreased", spent.balance),
                       Log("TicketRedeemed", spent.index)>>]}
     ELSE {})
    \cup
    (IF ch.status # CLOSED
     THEN {[after |-> [ch EXCEPT !.status = PENDING],
            logs |-> <<Log("OutgoingChannelClosureInitiated", 0)>>],
           [after |-> [Unused EXCEPT !.epoch = ch.epoch],
            logs |-> <<Log("ChannelClosed", 0)>>]}
     ELSE {})

Mine ==
    /\ Len(blocks) < MaxBlock
    /\ \E tx1 \in Tx(onchain) :
          \/ blocks' = Append(blocks, tx1)
          \/ /\ MaxTxPerBlock = 2
             /\ \E tx2 \in Tx(tx1.after) :
                   blocks' = Append(blocks, [after |-> tx2.after, logs |-> tx1.logs \o tx2.logs])
    /\ UNCHANGED <<own, entry, filled, logVars, syncVars, cur, stage, applied, boundVars>>

--------------------------------------------------------------------------------
(* on_channel_event: the entry after one log; an error leaves it unchanged *)

BugRebalanced(e, newBalance) == [e EXCEPT !.balance = @ - newBalance]

Rebalanced(e, newBalance) == [e EXCEPT !.balance = newBalance]

on_channel_event(e, log) ==
    CASE log.name = "ChannelOpened" ->
            IF e = NoEntry THEN [Unused EXCEPT !.status = OPEN, !.epoch = 1]
            ELSE IF e.status # CLOSED THEN e
            ELSE [e EXCEPT !.status = OPEN, !.epoch = @ + 1, !.index = 0]
      [] log.name # "ChannelOpened" /\ e = NoEntry -> e
      [] log.name \in {"ChannelBalanceIncreased", "ChannelBalanceDecreased"} /\ e # NoEntry ->
            Rebalanced(e, log.value)
      [] log.name = "TicketRedeemed" /\ e # NoEntry -> [e EXCEPT !.index = log.value]
      [] log.name = "OutgoingChannelClosureInitiated" /\ e # NoEntry ->
            [e EXCEPT !.status = PENDING]
      [] log.name = "ChannelClosed" /\ e # NoEntry ->
            IF own THEN [e EXCEPT !.status = CLOSED, !.balance = 0, !.index = 0]
            ELSE NoEntry

\* collect_block_events: the logs of a block one after the other, in one
\* transaction.
Handled(e, logs) ==
    LET after[k \in 0 .. Len(logs)] == IF k = 0 THEN e ELSE on_channel_event(after[k - 1], logs[k])
    IN  after[Len(logs)]

Collected(b) == Handled(entry, blocks[b].logs)

--------------------------------------------------------------------------------
(* Starting: Indexer::start *)

BugFastSyncBlocks == IF ~FastSync \/ filled THEN {} ELSE stored

\* The blocks fast sync goes through: all of them when the index is empty, else
\* those not marked processed.
FastSyncBlocks ==
    IF ~FastSync THEN {} ELSE IF filled THEN stored \ processed ELSE stored

BugMarksKept == processed

\* set_logs_unprocessed: in every mode, when the index is empty.
MarksKept == IF filled THEN processed ELSE {}

Start ==
    /\ mode = "down"
    /\ mode' = "fast"
    /\ queue' = FastSyncBlocks
    /\ processed' = MarksKept
    /\ UNCHANGED <<chainVars, entry, filled, stored, checksummed, next, cur, stage,
                   applied, boundVars>>

FastSyncBlock ==
    /\ mode = "fast" /\ cur = 0 /\ queue # {}
    /\ cur' = Min(queue)
    /\ stage' = "stored"
    /\ queue' = queue \ {cur'}
    /\ UNCHANGED <<chainVars, entry, filled, logVars, mode, next, applied, boundVars>>

\* cfg.start_block_number: the contracts are deployed right before block 1.
StartBlock == 1

\* The last checksummed log decides where the stream starts.
next_block_to_process ==
    IF LastOf(checksummed) > StartBlock THEN LastOf(checksummed) + 1 ELSE StartBlock

\* A start block beyond the head of the chain becomes the head.
BuildRpcIndexer ==
    LET start == next_block_to_process IN
    /\ mode = "fast" /\ cur = 0 /\ queue = {}
    /\ mode' = "rpc"
    /\ next' = IF start > Len(blocks) /\ blocks # <<>> THEN Len(blocks) ELSE start
    /\ UNCHANGED <<chainVars, entry, filled, logVars, queue, cur, stage, applied, boundVars>>

--------------------------------------------------------------------------------
(* Indexing *)

\* store_logs fails on logs that are stored already; the block is dropped.
StoreLogs ==
    /\ mode = "rpc" /\ cur = 0 /\ next <= Len(blocks)
    /\ next' = next + 1
    /\ IF next \in stored
       THEN UNCHANGED <<stored, cur, stage>>
       ELSE stored' = stored \cup {next} /\ cur' = next /\ stage' = "stored"
    /\ UNCHANGED <<chainVars, entry, filled, processed, checksummed, mode, queue,
                   applied, boundVars>>

CollectBlockEvents ==
    /\ stage = "stored"
    /\ entry' = Collected(cur)
    /\ filled' = TRUE
    /\ applied' = applied \cup {cur}
    /\ stage' = "committed"
    /\ UNCHANGED <<chainVars, logVars, syncVars, cur, boundVars>>

\* The transaction, the marking or the checksumming fails: the error is logged and
\* the indexer goes on with the next block.
ProcessBlockFails ==
    /\ stage # "none"
    /\ fails < MaxFail
    /\ fails' = fails + 1
    /\ cur' = 0 /\ stage' = "none"
    /\ UNCHANGED <<chainVars, entry, filled, logVars, syncVars, applied, crashes, stops>>

SetLogsProcessed ==
    /\ stage = "committed"
    /\ processed' = processed \cup {cur}
    /\ stage' = "marked"
    /\ UNCHANGED <<chainVars, entry, filled, stored, checksummed, syncVars, cur,
                   applied, boundVars>>

\* update_logs_checksums covers every stored log, whatever its block.
UpdateLogsChecksums ==
    /\ stage = "marked"
    /\ checksummed' = stored
    /\ cur' = 0 /\ stage' = "none"
    /\ UNCHANGED <<chainVars, entry, filled, stored, processed, syncVars, applied, boundVars>>

--------------------------------------------------------------------------------
(* Stopping *)

Down ==
    /\ mode' = "down" /\ queue' = {} /\ next' = 1
    /\ cur' = 0 /\ stage' = "none"

Crash ==
    /\ mode # "down" /\ crashes < MaxCrash
    /\ crashes' = crashes + 1
    /\ Down
    /\ UNCHANGED <<chainVars, entry, filled, logVars, applied, stops, fails>>

\* The operator restarts an idle node, and may remove the index database.
Stop(drop) ==
    /\ mode = "rpc" /\ cur = 0 /\ stops < MaxStop
    /\ stops' = stops + 1
    /\ Down
    /\ entry' = IF drop THEN NoEntry ELSE entry
    /\ filled' = (~drop /\ filled)
    /\ applied' = IF drop THEN {} ELSE applied
    /\ UNCHANGED <<chainVars, logVars, crashes, fails>>

Step ==
    \/ Start \/ FastSyncBlock \/ BuildRpcIndexer \/ StoreLogs
    \/ CollectBlockEvents \/ SetLogsProcessed \/ UpdateLogsChecksums

Next ==
    \/ Mine
    \/ Step
    \/ ProcessBlockFails
    \/ Crash
    \/ \E drop \in BOOLEAN : Stop(drop)

Spec == Init /\ [][Next]_vars

\* A node that is down is started again, and the indexer runs.
LiveSpec == Spec /\ WF_vars(Step)

--------------------------------------------------------------------------------
(* Properties *)

\* Every variable has its type.
TypeOK ==
    /\ own \in BOOLEAN /\ filled \in BOOLEAN
    /\ entry.status \in {CLOSED, OPEN, PENDING, "None"}
    /\ {entry.epoch, entry.index, entry.balance} \subseteq Nat
    /\ checksummed \subseteq stored /\ processed \subseteq stored
    /\ stored \subseteq 1 .. Len(blocks) /\ queue \subseteq stored
    /\ mode \in {"down", "fast", "rpc"}
    /\ next \in 1 .. MaxBlock + 1
    /\ cur \in stored \cup {0}
    /\ stage \in {"none", "stored", "committed", "marked"}

\* The entry shows channel ch: a channel that was never opened has no entry, nor
\* has a closed one of other nodes, whose epoch starts over when it reopens.
Shows(ch) ==
    IF own
    THEN entry = (IF ch.epoch = 0 THEN NoEntry ELSE ch)
    ELSE IF ch.status = CLOSED THEN entry = NoEntry
    ELSE [entry EXCEPT !.epoch = ch.epoch] = ch

\* Between two blocks the replica shows the channel after the last processed
\* block and no block is missing before it, after any crash, restart, fast sync
\* or removal of the index database, unless a step of process_block failed.
ReplicaAgrees ==
    LET last == LastOf(processed) IN
    mode = "rpc" /\ cur = 0 /\ fails = 0
        => /\ processed = 1 .. last
           /\ Shows(IF last = 0 THEN Unused ELSE blocks[last].after)

\* A block marked processed is part of the index, even when steps of
\* process_block fail: fast sync never loses a block.
MarkedIsApplied == mode # "down" => processed \subseteq applied

\* Every block of the chain is indexed in the end, although the node may crash
\* at any point of the handling of the block, unless a step of process_block failed.
EveryBlockIndexed == \A b \in 1 .. MaxBlock : Len(blocks) >= b ~> b \in processed \/ fails > 0
================================================================================
