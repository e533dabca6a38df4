------------------------------ MODULE Redemption ------------------------------
(***************************************************************************)
(* How a node turns the winning tickets of one of its incoming channels    *)
(* into money.  Redeemers (REST calls, strategies) select untouched        *)
(* tickets, mark them as being redeemed and queue an action for each.  An  *)
(* action submits a transaction, registers the event it expects and waits  *)
(* for it until a timeout.  The indexer sees the redemption on chain and   *)
(* moves the ticket from the database into the statistics.                 *)
(*                                                                         *)
(* The chain is the final one: a transaction that is not yet final is still *)
(* in mempool.  Ticket values are left out, a ticket is its position.      *)
(***************************************************************************)
EXTENDS Integers, Sequences, FiniteSets

CONSTANTS
    Ticket,      \* the winning tickets: records of epoch, index and offset
    Redeemer,    \* concurrent calls of redeem_tickets and redeem_ticket
    MaxEpoch,    \* bound on the incarnations of the channel
    MaxRound,    \* bound on the selections of tickets
    MaxCrash     \* bound on crashes

\* Ticket indices of one incarnation do not overlap.
ASSUME RedemptionAssumption ==
    /\ MaxEpoch \in Nat /\ MaxRound \in Nat /\ MaxCrash \in Nat
    /\ Ticket \subseteq [epoch : 1 .. MaxEpoch, index : Nat, offset : Nat \ {0}]
    /\ \A t, u \in Ticket : t # u /\ t.epoch = u.epoch =>
          t.index + t.offset <= u.index \/ u.index + u.offset <= t.index

VARIABLES
    onchain,     \* the channel on chain: incarnation, open or not, ticket index
    paid,        \* history: tickets redeemed on chain
    mempool,     \* actions whose transaction is not yet final, in nonce order
    logs,        \* logs of the channel the indexer has not marked processed
    handler,     \* the log being handled: its step and the ticket found for it
    entry,       \* the channel entry of the index database
    row,         \* ticket -> state of its row; "none" before, "gone" after it
    stats,       \* tickets counted as redeemed and as neglected
    redeemer,    \* redeemer -> the channel it read, what it still has to mark
                 \* and, in order, to send
    acts,        \* every action queued so far, in order
    node,        \* "syncing" or "running"
    rounds, crashes

chainVars == <<onchain, paid, mempool>>
dbVars == <<row, stats>>
boundVars == <<rounds, crashes>>
vars == <<onchain, paid, mempool, logs, handler, entry, row, stats, redeemer,
          acts, node, rounds, crashes>>

Channel == [epoch : 0 .. MaxEpoch, open : BOOLEAN, index : Nat]
NoChannel == [epoch |-> 0, open |-> FALSE, index |-> 0]
IdleHandler == [pc |-> "idle", found |-> {}]
IdleRedeemer == [pc |-> "idle", channel |-> NoChannel, todo |-> {}, got |-> <<>>]

Opened == [name |-> "ChannelOpened", index |-> 0, act |-> 0]
Closed == [name |-> "ChannelClosed", index |-> 0, act |-> 0]
Redeemed(i, a) == [name |-> "TicketRedeemed", index |-> i, act |-> a]

Init ==
    /\ onchain = NoChannel
    /\ paid = {}
    /\ mempool = <<>>
    /\ logs = <<>>
    /\ handler = IdleHandler
    /\ entry = NoChannel
    /\ row = [t \in Ticket |-> "none"]
    /\ stats = [redeemed |-> {}, neglected |-> {}]
    /\ redeemer = [r \in Redeemer |-> IdleRedeemer]
    /\ acts = <<>>
    /\ node = "running"
    /\ rounds = 0 /\ crashes = 0

Stored(t) == row[t] \in {"Untouched", "BeingRedeemed"}

\* update_ticket_states and update_ticket_states_and_fetch: a row, if it is
\* still there, gets the state whatever its state was.
Updated(t, state) == IF Stored(t) THEN [row EXCEPT ![t] = state] ELSE row

\* mark_tickets_as: the rows are deleted and counted in one transaction.
MarkTicketsAs(T, marker) ==
    /\ row' = [t \in Ticket |-> IF t \in T THEN "gone" ELSE row[t]]
    /\ stats' = [stats EXCEPT ![marker] = @ \cup T]

--------------------------------------------------------------------------------
(* Tickets and redeemers *)

\* The queue of acknowledged tickets is emptied into the database by a task of
\* its own, so that a ticket may be stored long after it was validated.
Insert(t) ==
    /\ node = "running"
    /\ row[t] = "none"
    /\ t.epoch <= entry.epoch
    /\ row' = [row EXCEPT ![t] = "Untouched"]
    /\ UNCHANGED <<chainVars, logs, handler, entry, stats, redeemer, acts, node, boundVars>>

\* The caller reads the channel entry before it selects tickets.
ReadChannel(r) ==
    /\ node = "running"
    /\ redeemer[r].pc = "idle"
    /\ entry.epoch > 0
    /\ rounds < MaxRound
    /\ rounds' = rounds + 1
    /\ redeemer' = [redeemer EXCEPT ![r].pc = "read", ![r].channel = entry]
    /\ UNCHANGED <<chainVars, logs, handler, entry, dbVars, acts, node, crashes>>

\* TicketSelector: untouched tickets of the channel as it was read.
Redeemable(r) == {t \in Ticket : /\ row[t] = "Untouched"
                                 /\ t.epoch = redeemer[r].channel.epoch
                                 /\ t.index >= redeemer[r].channel.index}

\* The stream of update_ticket_states_and_fetch sees the rows as they are now.
Selects(r, T) ==
    /\ redeemer[r].pc = "read"
    /\ redeemer' = IF T = {} THEN [redeemer EXCEPT ![r] = IdleRedeemer]
                   ELSE [redeemer EXCEPT ![r].pc = "selected", ![r].channel = NoChannel,
                                         ![r].todo = T]
    /\ UNCHANGED <<chainVars, logs, handler, entry, dbVars, acts, node, boundVars>>

redeem_tickets(r) == Selects(r, Redeemable(r))

\* Only the index is taken from the ticket, the epoch is the channel's.
redeem_ticket(r, t) == Selects(r, {u \in Redeemable(r) : u.index = t.index})

\* The stream marks a row and yields its ticket, even if the row is gone.
MarkBeingRedeemed(r, t) ==
    /\ t \in redeemer[r].todo
    /\ row' = Updated(t, "BeingRedeemed")
    /\ redeemer' = [redeemer EXCEPT ![r].todo = @ \ {t}, ![r].got = Append(@, t)]
    /\ UNCHANGED <<chainVars, logs, handler, entry, stats, acts, node, boundVars>>

\* ActionSender::send, once all selected tickets are marked.
Send(r) ==
    /\ redeemer[r].todo = {} /\ redeemer[r].got # <<>>
    /\ acts' = Append(acts, [ticket |-> Head(redeemer[r].got), pc |-> "queued"])
    /\ redeemer' = [redeemer EXCEPT ![r] =
                      IF Len(@.got) = 1 THEN IdleRedeemer ELSE [redeemer[r] EXCEPT !.got = Tail(@)]]
    /\ UNCHANGED <<chainVars, logs, handler, entry, dbVars, node, boundVars>>

--------------------------------------------------------------------------------
(* Actions: each is executed by a task of its own *)

Step(a, from, to) == acts[a].pc = from /\ acts' = [acts EXCEPT ![a].pc = to]

Submit(a) ==
    /\ Step(a, "queued", "submitted")
    /\ mempool' = Append(mempool, a)
    /\ UNCHANGED <<onchain, paid, logs, handler, entry, dbVars, redeemer, node, boundVars>>

\* The RPC provider refuses the transaction or does not answer in time.
SubmitFails(a) ==
    /\ Step(a, "queued", "failed")
    /\ UNCHANGED <<chainVars, logs, handler, entry, dbVars, redeemer, node, boundVars>>

\* The expectation is registered after the transaction hash is known.
register_expectation(a) ==
    /\ Step(a, "submitted", "waiting")
    /\ UNCHANGED <<chainVars, logs, handler, entry, dbVars, redeemer, node, boundVars>>

Timeout(a) ==
    /\ Step(a, "waiting", "failed")
    /\ UNCHANGED <<chainVars, logs, handler, entry, dbVars, redeemer, node, boundVars>>

BugReset(a) ==
    /\ Step(a, "failed", "done")
    /\ UNCHANGED <<chainVars, logs, handler, entry, dbVars, redeemer, node, boundVars>>

\* On any error the ticket is made redeemable again.
ResetTicket(a) ==
    /\ Step(a, "failed", "done")
    /\ row' = Updated(acts[a].ticket, "Untouched")
    /\ UNCHANGED <<chainVars, logs, handler, entry, stats, redeemer, node, boundVars>>

--------------------------------------------------------------------------------
(* The chain *)

ChainOpen ==
    /\ ~onchain.open
    /\ onchain.epoch < MaxEpoch
    /\ onchain' = [epoch |-> onchain.epoch + 1, open |-> TRUE, index |-> 0]
    /\ logs' = Append(logs, Opened)
    /\ UNCHANGED <<paid, mempool, handler, entry, dbVars, redeemer, acts, node, boundVars>>

ChainClose ==
    /\ onchain.open
    /\ onchain' = [onchain EXCEPT !.open = FALSE, !.index = 0]
    /\ logs' = Append(logs, Closed)
    /\ UNCHANGED <<paid, mempool, handler, entry, dbVars, redeemer, acts, node, boundVars>>

\* What the contract requires of a ticket.
Acceptable(t) == onchain.open /\ t.epoch = onchain.epoch /\ t.index >= onchain.index

ChainRedeem ==
    /\ mempool # <<>>
    /\ LET t == acts[Head(mempool)].ticket IN
       /\ Acceptable(t)
       /\ onchain' = [onchain EXCEPT !.index = t.index + t.offset]
       /\ paid' = paid \cup {t}
       /\ logs' = Append(logs, Redeemed(t.index + t.offset, Head(mempool)))
    /\ mempool' = Tail(mempool)
    /\ UNCHANGED <<handler, entry, dbVars, redeemer, acts, node, boundVars>>

\* Also when the source of the channel cannot pay.
ChainRevert ==
    /\ mempool # <<>>
    /\ mempool' = Tail(mempool)
    /\ UNCHANGED <<onchain, paid, logs, handler, entry, dbVars, redeemer, acts, node, boundVars>>

--------------------------------------------------------------------------------
(* The indexer *)

log == Head(logs)

BugMatching == {t \in Ticket : row[t] = "BeingRedeemed" /\ t.epoch = entry.epoch
                                /\ t.index < log.index}

BugMatchingAnyEpoch == {t \in Ticket : row[t] = "BeingRedeemed" /\ t.index + t.offset = log.index}

\* The ticket of a TicketRedeemed log is looked up by where it ends.
Matching == {t \in Ticket : /\ row[t] = "BeingRedeemed"
                            /\ t.epoch = entry.epoch
                            /\ t.index + t.offset = log.index}

\* All tickets of the incarnation that ends are neglected.
NeglectIncarnation ==
    MarkTicketsAs({t \in Ticket : Stored(t) /\ t.epoch = entry.epoch}, "neglected")

\* On reopening, tickets that were stored after the closure; at the first opening
\* there is no entry, hence no ticket.
HandleOpened ==
    /\ handler.pc = "idle" /\ logs # <<>> /\ log = Opened
    /\ NeglectIncarnation
    /\ handler' = [handler EXCEPT !.pc = "handled"]
    /\ UNCHANGED <<chainVars, logs, entry, redeemer, acts, node, boundVars>>

HandleClosed ==
    /\ handler.pc = "idle" /\ logs # <<>> /\ log = Closed
    /\ NeglectIncarnation
    /\ handler' = [handler EXCEPT !.pc = "handled"]
    /\ UNCHANGED <<chainVars, logs, entry, redeemer, acts, node, boundVars>>

FindRedeemed ==
    /\ handler.pc = "idle" /\ logs # <<>> /\ log.name = "TicketRedeemed"
    /\ handler' = [pc |-> "found", found |-> Matching]
    /\ UNCHANGED <<chainVars, logs, entry, dbVars, redeemer, acts, node, boundVars>>

\* The ticket found is selected again, in its state BeingRedeemed.
MarkRedeemed ==
    /\ handler.pc = "found"
    /\ MarkTicketsAs({t \in handler.found : row[t] = "BeingRedeemed"}, "redeemed")
    /\ handler' = [pc |-> "marked", found |-> {}]
    /\ UNCHANGED <<chainVars, logs, entry, redeemer, acts, node, boundVars>>

BugPassed(i) == {t \in Ticket : Stored(t) /\ t.epoch = entry.epoch /\ t.index <= i}

BugPassedShort(i) == {t \in Ticket : Stored(t) /\ t.epoch = entry.epoch /\ t.index + 1 < i}

Passed(i) == {t \in Ticket : Stored(t) /\ t.epoch = entry.epoch /\ t.index < i}

MarkNeglected ==
    /\ handler.pc = "marked"
    /\ MarkTicketsAs(Passed(log.index), "neglected")
    /\ handler' = [handler EXCEPT !.pc = "handled"]
    /\ UNCHANGED <<chainVars, logs, entry, redeemer, acts, node, boundVars>>

BugCommit ==
    /\ handler.pc = "handled"
    /\ handler' = IdleHandler
    /\ entry' = CASE log = Opened -> [epoch |-> entry.epoch + 1, open |-> TRUE, index |-> 0]
                  [] log = Closed -> [entry EXCEPT !.open = FALSE, !.index = 0]
                  [] OTHER -> [entry EXCEPT !.index = log.index]
    /\ UNCHANGED <<chainVars, logs, dbVars, redeemer, acts, node, boundVars>>

\* The entry is updated, the log is marked processed, and the event resolves the
\* expectation of the transaction, if it is registered.
Commit ==
    /\ handler.pc = "handled"
    /\ handler' = IdleHandler
    /\ logs' = Tail(logs)
    /\ entry' = CASE log = Opened -> [epoch |-> entry.epoch + 1, open |-> TRUE, index |-> 0]
                  [] log = Closed -> [entry EXCEPT !.open = FALSE, !.index = 0]
                  [] OTHER -> [entry EXCEPT !.index = log.index]
    /\ acts' = [a \in DOMAIN acts |->
                  IF a = log.act /\ acts[a].pc = "waiting"
                  THEN [acts[a] EXCEPT !.pc = "done"] ELSE acts[a]]
    /\ UNCHANGED <<chainVars, dbVars, redeemer, node, boundVars>>

--------------------------------------------------------------------------------
(* Restarts *)

Crash ==
    /\ crashes < MaxCrash
    /\ crashes' = crashes + 1
    /\ node' = "syncing"
    /\ handler' = IdleHandler
    /\ redeemer' = [r \in Redeemer |-> IdleRedeemer]
    /\ acts' = [a \in DOMAIN acts |-> [acts[a] EXCEPT !.pc = "done"]]
    /\ UNCHANGED <<chainVars, logs, entry, dbVars, rounds>>

\* Once the indexer is in sync: the ticket that is next in the channel is reset.
fix_channels_next_ticket_state ==
    /\ node = "syncing"
    /\ logs = <<>>
    /\ node' = "running"
    /\ row' = [t \in Ticket |->
                 IF row[t] = "BeingRedeemed" /\ t.epoch = entry.epoch /\ t.index = entry.index
                 THEN "Untouched" ELSE row[t]]
    /\ UNCHANGED <<chainVars, logs, handler, entry, stats, redeemer, acts, boundVars>>

Redeem(r) == redeem_tickets(r) \/ (\E t \in Ticket : redeem_ticket(r, t) \/ MarkBeingRedeemed(r, t)) \/ Send(r)

Execute(a) == Submit(a) \/ SubmitFails(a) \/ register_expectation(a) \/ Timeout(a) \/ ResetTicket(a)

Index == HandleOpened \/ HandleClosed \/ FindRedeemed \/ MarkRedeemed \/ MarkNeglected \/ Commit

Next ==
    \/ \E t \in Ticket : Insert(t)
    \/ \E r \in Redeemer : ReadChannel(r) \/ Redeem(r)
    \/ \E a \in DOMAIN acts : Execute(a)
    \/ ChainOpen \/ ChainClose \/ ChainRedeem \/ ChainRevert
    \/ Index
    \/ Crash \/ fix_channels_next_ticket_state

Spec == Init /\ [][Next]_vars

\* Tasks that were started run on, the timer of an action goes off, and the
\* indexer follows the chain; the mempool may keep a transaction for ever.
Fairness ==
    /\ \A r \in Redeemer : WF_vars(Redeem(r))
    /\ \A a \in 1 .. MaxRound * Cardinality(Ticket) :
          WF_vars(a \in DOMAIN acts /\ Execute(a))
    /\ WF_vars(Index)
    /\ WF_vars(fix_channels_next_ticket_state)

LiveSpec == Spec /\ Fairness

--------------------------------------------------------------------------------
(* Properties *)

\* Every variable has its type.
TypeOK ==
    /\ onchain \in Channel /\ entry \in Channel
    /\ paid \subseteq Ticket
    /\ \A i \in DOMAIN mempool : mempool[i] \in DOMAIN acts
    /\ \A i \in DOMAIN logs : logs[i] \in {Opened, Closed} \/ logs[i].act \in DOMAIN acts
    /\ handler \in [pc : {"idle", "found", "marked", "handled"}, found : SUBSET Ticket]
    /\ row \in [Ticket -> {"none", "Untouched", "BeingRedeemed", "gone"}]
    /\ stats \in [redeemed : SUBSET Ticket, neglected : SUBSET Ticket]
    /\ \A r \in Redeemer : /\ redeemer[r].pc \in {"idle", "read", "selected"}
                           /\ redeemer[r].channel \in Channel
                           /\ redeemer[r].todo \subseteq Ticket
                           /\ redeemer[r].got \in Seq(Ticket)
    /\ acts \in Seq([ticket : Ticket, pc : {"queued", "submitted", "waiting", "failed", "done"}])
    /\ node \in {"syncing", "running"}
    /\ rounds \in 0 .. MaxRound /\ crashes \in 0 .. MaxCrash

\* A ticket is counted as redeemed only if it was redeemed on chain, although
\* the TicketRedeemed handler identifies it by its position and its state alone.
RedeemedIsPaid == stats.redeemed \subseteq paid

\* No ticket that the contract would still accept is deleted: what is counted as
\* neglected or redeemed cannot be redeemed any more.
NothingAcceptableDropped == \A t \in Ticket : row[t] = "gone" => ~Acceptable(t)

\* Who looks after a ticket that is being redeemed: a redeemer that selected it
\* or an action that has not ended.
InCharge(t) ==
    \/ \E r \in Redeemer : t \in redeemer[r].todo
                           \/ \E i \in DOMAIN redeemer[r].got : redeemer[r].got[i] = t
    \/ \E a \in DOMAIN acts : acts[a].ticket = t /\ acts[a].pc # "done"

\* Without a crash no ticket is left behind in the state BeingRedeemed, in which
\* no redeemer selects it: whoever put it there is still at work.
Orphan(t) == row[t] = "BeingRedeemed" /\ ~InCharge(t)

NoOrphan == crashes = 0 => ~\E t \in Ticket : Orphan(t)

\* Every redemption of a ticket that was started comes to an end, unless the node
\* crashes.
RedemptionEnds ==
    \A t \in Ticket : row[t] = "BeingRedeemed" ~> row[t] # "BeingRedeemed" \/ crashes > 0

\* A ticket that was redeemed on chain leaves the database, also when its action
\* gave up waiting and it was made redeemable again, and despite crashes.
PaidLeaves == \A t \in Ticket : t \in paid ~> row[t] = "gone"
================================================================================
