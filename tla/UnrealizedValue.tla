---------------------------- MODULE UnrealizedValue ----------------------------
(***************************************************************************)
(* The cached unrealized value of one incoming channel: the sum of the     *)
(* tickets in the database.  The packet pipeline subtracts it from the     *)
(* stake to decide whether the next ticket is covered.  Acknowledgements   *)
(* are handled concurrently; each counts its ticket on top of the value it *)
(* has read, while a task of its own empties the queue into the database.  *)
(* Every ticket is worth one unit.                                         *)
(***************************************************************************)
EXTENDS Integers, Sequences, FiniteSets

CONSTANTS
    Ticket,      \* winning tickets
    Stake,       \* balance of the channel
    QueueSize,   \* capacity of the queue of ticket operations
    MaxHandler   \* packets and acknowledgements handled at a time

None == -1

VARIABLES
    fresh,       \* tickets whose packet has not arrived
    pending,     \* tickets that are validated and not acknowledged
    handlers,    \* packets and acknowledgements being handled
    queue,       \* acknowledged tickets on their way to the database
    rows,        \* tickets in the database
    unrealized,  \* the cached value, or None
    marking,     \* tickets mark_tickets_as is about to remove
    redeemed     \* tickets redeemed or neglected

vars == <<fresh, pending, handlers, queue, rows, unrealized, marking, redeemed>>

Init ==
    /\ fresh = Ticket /\ pending = {} /\ handlers = {} /\ queue = <<>>
    /\ rows = {} /\ unrealized = None /\ marking = {} /\ redeemed = {}

Handler(t, does) == [ticket |-> t, does |-> does, at |-> "read", value |-> 0]

Moved(h, at, value) == (handlers \ {h}) \cup {[h EXCEPT !.at = at, !.value = value]}

\* A packet arrives.
Validate(t) ==
    /\ t \in fresh /\ Cardinality(handlers) < MaxHandler
    /\ fresh' = fresh \ {t}
    /\ handlers' = handlers \cup {Handler(t, "validate")}
    /\ UNCHANGED <<pending, queue, rows, unrealized, marking, redeemed>>

\* insert_ticket fails when the queue is full; the ticket is no longer pending.
handle_acknowledgement(t) ==
    /\ t \in pending /\ Cardinality(handlers) < MaxHandler
    /\ pending' = pending \ {t}
    /\ \/ /\ Len(queue) < QueueSize
          /\ queue' = Append(queue, t)
          /\ handlers' = handlers \cup {Handler(t, "insert")}
       \/ Len(queue) = QueueSize /\ UNCHANGED <<queue, handlers>>
    /\ UNCHANGED <<fresh, rows, unrealized, marking, redeemed>>

\* unrealized_value: the cached value, or the sum over the database, which one
\* handler computes while the others wait for it.
ReadValue(h) ==
    /\ h.at = "read"
    /\ \/ unrealized # None /\ handlers' = Moved(h, "have", unrealized)
       \/ /\ unrealized = None /\ \A g \in handlers : g.at # "fill"
          /\ handlers' = Moved(h, "fill", Cardinality(rows))
    /\ UNCHANGED <<fresh, pending, queue, rows, unrealized, marking, redeemed>>

FillCache(h) ==
    /\ h.at = "fill"
    /\ unrealized' = h.value
    /\ handlers' = Moved(h, "have", h.value)
    /\ UNCHANGED <<fresh, pending, queue, rows, marking, redeemed>>

\* The ticket is accepted if what the stake leaves covers it.
Accept(h) ==
    /\ h.at = "have" /\ h.does = "validate"
    /\ handlers' = handlers \ {h}
    /\ pending' = IF Stake - Cardinality(redeemed) - h.value >= 1
                  THEN pending \cup {h.ticket} ELSE pending
    /\ UNCHANGED <<fresh, queue, rows, unrealized, marking, redeemed>>

StoreValue(h) ==
    /\ h.at = "have" /\ h.does = "insert"
    /\ handlers' = handlers \ {h}
    /\ unrealized' = h.value + 1
    /\ UNCHANGED <<fresh, pending, queue, rows, marking, redeemed>>

Insert ==
    /\ queue # <<>> /\ marking = {}
    /\ rows' = rows \cup {Head(queue)}
    /\ queue' = Tail(queue)
    /\ UNCHANGED <<fresh, pending, handlers, unrealized, marking, redeemed>>

\* mark_tickets_as drops the cached value inside its transaction ...
mark_tickets_as(T) ==
    /\ marking = {} /\ T # {} /\ T \subseteq rows
    /\ marking' = T
    /\ unrealized' = None
    /\ UNCHANGED <<fresh, pending, handlers, queue, rows, redeemed>>

\* ... which commits later; then the channel entry is updated.
CommitMarking ==
    /\ marking # {}
    /\ rows' = rows \ marking
    /\ redeemed' = redeemed \cup marking
    /\ marking' = {}
    /\ unrealized' = None
    /\ UNCHANGED <<fresh, pending, handlers, queue>>

\* Any other update of the channel entry.
finish_channel_update ==
    /\ unrealized # None
    /\ unrealized' = None
    /\ UNCHANGED <<fresh, pending, handlers, queue, rows, marking, redeemed>>

Handle(h) == ReadValue(h) \/ FillCache(h) \/ Accept(h) \/ StoreValue(h)

Next ==
    \/ \E t \in Ticket : Validate(t) \/ handle_acknowledgement(t)
    \/ \E h \in handlers : Handle(h)
    \/ Insert
    \/ \E T \in SUBSET rows : mark_tickets_as(T)
    \/ CommitMarking \/ finish_channel_update

Spec == Init /\ [][Next]_vars

\* When no ticket is on its way to the database, the cached value is the value of
\* the tickets stored there.
UnrealizedIsStored ==
    handlers = {} /\ queue = <<>> /\ marking = {} => unrealized \in {None, Cardinality(rows)}

================================================================================
