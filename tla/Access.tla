------------------------------- MODULE Access -------------------------------
(***************************************************************************)
(* How the network registry reaches the swarm of a running node.  Registry *)
(* and announcement logs are indexed into the database; once the indexer   *)
(* is synced each of them also becomes an event, which the pipeline of     *)
(* hopr-lib translates into a discovery update and the transport applies   *)
(* to the stored peers and, if that succeeds, to the swarm.  A start loads *)
(* the peers of the database through a second queue, merged with the first *)
(* in any order.                                                           *)
(***************************************************************************)
EXTENDS Naturals, Sequences, FiniteSets, SequencesExt

CONSTANTS
    Node,           \* the other nodes
    NoNode,
    MaxInFlight,    \* bound on the logs, events and updates under way
    MaxRestart      \* bound on the restarts

ASSUME AccessAssumption ==
    /\ IsFiniteSet(Node) /\ NoNode \notin Node
    /\ MaxInFlight \in Nat \ {0} /\ MaxRestart \in Nat

VARIABLES
    admitted, logs,  \* the registry contract, see Admission
    backlog,         \* chain logs the indexer has not processed
    lag,             \* those of them that were there at the start
    synced,          \* the indexer's is_synced
    bound,           \* nodes with an account (key binding) in the database
    announced,       \* nodes with an announcement in the database
    allowed,         \* the network_registry table
    cache,           \* caches.chain_to_offchain
    events,          \* significant chain events, indexer to pipeline
    lookup,          \* node whose missing key the pipeline is about to cache
    updates,         \* discovery updates, pipeline to transport
    internal,        \* discovery updates of the initial load
    phase,           \* how far the start of the node is
    toLoad,          \* public nodes still to be checked by the initial load
    peers,           \* the network_peer table
    allowedPeers,    \* the swarm's allowed_peers
    connected,       \* the swarm's connected_peers
    closing,         \* peers whose CloseConnection is pending
    restarts,
    overtaken        \* history: nodes whose ban was overtaken or lost

chainVars == <<admitted, logs>>
dbVars == <<bound, announced, allowed>>
startVars == <<phase, toLoad>>
swarmVars == <<peers, allowedPeers, connected, closing>>
vars == <<chainVars, backlog, lag, synced, dbVars, cache, events, lookup,
          updates, internal, startVars, swarmVars, restarts, overtaken>>

Registry == INSTANCE Admission

LogType == {"Registered", "Deregistered", "KeyBinding", "AddressAnnouncement", "RevokeAnnouncement"}
EventType == {"Allowed", "Denied", "Announcement"}
UpdateType == {"Allow", "Ban", "Announce"}
Item(type, n) == [type |-> type, node |-> n]
Has(queue, type, n) == Item(type, n) \in ToSet(queue)

TypeOK ==
    /\ admitted \subseteq Node
    /\ backlog \in BoundedSeq([type : LogType, node : Node], MaxInFlight)
    /\ lag \in 0..MaxInFlight /\ synced \in BOOLEAN
    /\ bound \subseteq Node /\ announced \subseteq bound /\ allowed \subseteq Node
    /\ cache \in [Node -> {"absent", "none", "key"}]
    /\ ToSet(events) \subseteq [type : EventType, node : Node]
    /\ lookup \in Node \cup {NoNode}
    /\ ToSet(updates) \subseteq [type : UpdateType, node : Node]
    /\ ToSet(internal) \subseteq [type : {"Allow", "Announce"}, node : Node]
    /\ phase \in {"syncing", "loading", "running"}
    /\ toLoad \subseteq Node
    /\ peers \cup allowedPeers \cup connected \cup closing \cup overtaken \subseteq Node
    /\ restarts \in 0..MaxRestart

\* A node with an empty database starts.
Init ==
    /\ Registry!Init
    /\ backlog = <<>> /\ lag = 0 /\ synced = FALSE
    /\ bound = {} /\ announced = {} /\ allowed = {}
    /\ cache = [n \in Node |-> "absent"]
    /\ events = <<>> /\ lookup = NoNode /\ updates = <<>> /\ internal = <<>>
    /\ phase = "syncing" /\ toLoad = {}
    /\ peers = {} /\ allowedPeers = {} /\ connected = {} /\ closing = {}
    /\ restarts = 0 /\ overtaken = {}

-----------------------------------------------------------------------------
(* The chain *)

Emit(new) ==
    /\ Len(backlog) + Len(events) + Len(updates) + Len(new) <= MaxInFlight
    /\ backlog' = backlog \o new
    /\ UNCHANGED <<lag, synced, dbVars, cache, events, lookup, updates, internal,
                   startVars, swarmVars, restarts, overtaken>>

RegistryTx ==
    /\ Registry!Next
    /\ admitted' # admitted
    /\ Emit(SetToSeq(logs'))

\* The contract keeps nothing: it lets the node, or its Safe, emit events.
bindKeys(n) == Emit(<<Item("KeyBinding", n)>>) /\ UNCHANGED chainVars
announce(n) == Emit(<<Item("AddressAnnouncement", n)>>) /\ UNCHANGED chainVars
revoke(n) == Emit(<<Item("RevokeAnnouncement", n)>>) /\ UNCHANGED chainVars

-----------------------------------------------------------------------------
(* The indexer *)

\* Mutant: a node without an account keeps its access.
BugAllowedAfter(log) ==
    CASE log.type = "Registered" -> allowed \cup {log.node}
      [] log.type = "Deregistered" -> allowed \ ({log.node} \cap bound)
      [] OTHER -> allowed

\* set_access_in_network_registry
AllowedAfter(log) ==
    CASE log.type = "Registered" -> allowed \cup {log.node}
      [] log.type = "Deregistered" -> allowed \ {log.node}
      [] OTHER -> allowed

\* Mutant: an announcement before the key binding is stored.
BugAnnouncedAfter(log) ==
    CASE log.type = "AddressAnnouncement" -> announced \cup {log.node}
      [] log.type = "RevokeAnnouncement" -> announced \ {log.node}
      [] OTHER -> announced

\* insert_announcement and delete_all_announcements: for a node without an
\* account both are errors, which are logged.
AnnouncedAfter(log) ==
    CASE log.type = "AddressAnnouncement" -> announced \cup ({log.node} \cap bound)
      [] log.type = "RevokeAnnouncement" -> announced \ {log.node}
      [] OTHER -> announced

\* Mutant: expelling a node is no significant event.
BugEventsOf(log) ==
    CASE log.type = "Registered" -> <<Item("Allowed", log.node)>>
      [] log.type = "AddressAnnouncement" /\ log.node \in bound ->
            <<Item("Announcement", log.node)>>
      [] OTHER -> <<>>

\* The significant events of a log, given the state it is processed in.
EventsOf(log) ==
    CASE log.type = "Registered" -> <<Item("Allowed", log.node)>>
      [] log.type = "Deregistered" -> <<Item("Denied", log.node)>>
      [] log.type = "AddressAnnouncement" /\ log.node \in bound ->
            <<Item("Announcement", log.node)>>
      [] OTHER -> <<>>

\* Is set as the block at the head known at the start is reached; the events of
\* that block are the first to be passed on.
CompleteSync ==
    /\ ~synced /\ lag <= 1
    /\ synced' = TRUE
    /\ UNCHANGED <<chainVars, backlog, lag, dbVars, cache, events, lookup, updates,
                   internal, startVars, swarmVars, restarts, overtaken>>

\* insert_account fills the cache before its transaction commits.
IndexLog ==
    LET log == Head(backlog)
        n == log.node
    IN  /\ backlog # <<>>
        /\ synced \/ lag > 0
        /\ backlog' = Tail(backlog)
        /\ lag' = IF lag = 0 THEN 0 ELSE lag - 1
        /\ allowed' = AllowedAfter(log)
        /\ bound' = IF log.type = "KeyBinding" THEN bound \cup {n} ELSE bound
        /\ announced' = AnnouncedAfter(log)
        /\ cache' = IF log.type = "KeyBinding" THEN [cache EXCEPT ![n] = "key"] ELSE cache
        /\ events' = IF synced THEN events \o EventsOf(log) ELSE events
        /\ UNCHANGED <<chainVars, synced, lookup, updates, internal, startVars,
                       swarmVars, restarts, overtaken>>

-----------------------------------------------------------------------------
(* chain_events_to_transport_events *)

UpdateOf(type) ==
    CASE type = "Allowed" -> "Allow" [] type = "Denied" -> "Ban" [] OTHER -> "Announce"

Forward(e) ==
    /\ events' = Tail(events)
    /\ updates' = Append(updates, Item(UpdateOf(e.type), e.node))
    /\ UNCHANGED <<lookup, overtaken>>

\* A key that is not known drops the event, and is remembered as unknown.
Drop(e) ==
    /\ events' = Tail(events)
    /\ lookup' = NoNode
    /\ overtaken' = IF e.type = "Denied" /\ e.node \in bound THEN overtaken \cup {e.node}
                                                             ELSE overtaken
    /\ UNCHANGED updates

pipelineFrame == <<chainVars, backlog, lag, synced, dbVars, internal, startVars,
                   swarmVars, restarts>>

TranslateEvent ==
    LET e == Head(events)
        n == e.node
    IN  /\ events # <<>> /\ lookup = NoNode
        /\ UNCHANGED pipelineFrame
        /\ \/ /\ e.type = "Announcement" \/ cache[n] = "key"
              /\ Forward(e) /\ UNCHANGED cache
           \/ /\ e.type # "Announcement" /\ cache[n] = "none"
              /\ Drop(e) /\ UNCHANGED cache
           \/ /\ e.type # "Announcement" /\ cache[n] = "absent" /\ n \in bound
              /\ Forward(e)
              /\ cache' = [cache EXCEPT ![n] = "key"]
           \/ /\ e.type # "Announcement" /\ cache[n] = "absent" /\ n \notin bound
              /\ lookup' = n
              /\ UNCHANGED <<cache, events, updates, overtaken>>

\* The outcome of the query is stored whatever the cache holds by now.
CacheMissing ==
    /\ lookup # NoNode
    /\ cache' = [cache EXCEPT ![lookup] = "none"]
    /\ Drop(Head(events))
    /\ UNCHANGED pipelineFrame

\* time_to_idle
Expire(n) ==
    /\ cache[n] # "absent" /\ lookup # n
    /\ cache' = [cache EXCEPT ![n] = "absent"]
    /\ UNCHANGED <<pipelineFrame, events, lookup, updates, overtaken>>

-----------------------------------------------------------------------------
(* The start of the transport *)

loadFrame == <<chainVars, backlog, lag, synced, dbVars, cache, events, lookup,
               updates, swarmVars, restarts, overtaken>>

\* The rest of the start waits for the indexer to be synced.
StartLoad ==
    /\ phase = "syncing" /\ synced
    /\ phase' = "loading"
    /\ toLoad' = announced
    /\ UNCHANGED <<loadFrame, internal>>

LoadPeer(n) ==
    /\ phase = "loading" /\ n \in toLoad
    /\ toLoad' = toLoad \ {n}
    /\ internal' = IF n \in allowed THEN internal \o <<Item("Allow", n), Item("Announce", n)>>
                                    ELSE internal
    /\ UNCHANGED <<loadFrame, phase>>

FinishLoad ==
    /\ phase = "loading" /\ toLoad = {}
    /\ phase' = "running"
    /\ UNCHANGED <<loadFrame, internal, toLoad>>

-----------------------------------------------------------------------------
(* The transport's discovery updates and the swarm's discovery behaviour *)

\* Mutant: the peer is not stored.
BugAllow(n) ==
    /\ allowedPeers' = allowedPeers \cup {n}
    /\ UNCHANGED <<peers, connected, closing>>

Allow(n) ==
    /\ peers' = peers \cup {n}
    /\ allowedPeers' = allowedPeers \cup {n}
    /\ UNCHANGED <<connected, closing>>

\* Mutant: an open connection is left alone.
BugBan(n) ==
    /\ peers' = peers \ {n}
    /\ allowedPeers' = IF n \in peers THEN allowedPeers \ {n} ELSE allowedPeers
    /\ UNCHANGED <<connected, closing>>

\* Removing a peer that is not stored is an error, and the swarm is not told.
Ban(n) ==
    /\ peers' = peers \ {n}
    /\ allowedPeers' = IF n \in peers THEN allowedPeers \ {n} ELSE allowedPeers
    /\ closing' = IF n \in peers \cap connected THEN closing \cup {n} ELSE closing
    /\ UNCHANGED connected

\* The dial that follows an announcement succeeds only for an allowed peer.
Announce(n) ==
    /\ peers' = IF n \in allowed THEN peers \cup {n} ELSE peers
    /\ UNCHANGED <<allowedPeers, connected, closing>>

Apply(u) ==
    CASE u.type = "Allow" -> Allow(u.node)
      [] u.type = "Ban" -> Ban(u.node)
      [] u.type = "Announce" -> Announce(u.node)

transportFrame == <<chainVars, backlog, lag, synced, dbVars, cache, events, lookup,
                    startVars, restarts>>

HandleUpdate ==
    /\ phase = "running" /\ updates # <<>>
    /\ Apply(Head(updates))
    /\ updates' = Tail(updates)
    /\ LET u == Head(updates)
       IN  overtaken' = CASE u.type = "Ban" /\ Has(internal, "Allow", u.node) ->
                                overtaken \cup {u.node}
                          [] u.type = "Ban" /\ ~ Has(internal, "Allow", u.node) ->
                                overtaken \ {u.node}
                          [] OTHER -> overtaken
    /\ UNCHANGED <<transportFrame, internal>>

HandleInternal ==
    /\ phase = "running" /\ internal # <<>>
    /\ Apply(Head(internal))
    /\ internal' = Tail(internal)
    /\ UNCHANGED <<transportFrame, updates, overtaken>>

\* Inbound or outbound: an established connection is denied unless allowed.
Connect(n) ==
    /\ phase = "running"
    /\ n \in allowedPeers \ connected
    /\ connected' = connected \cup {n}
    /\ UNCHANGED <<transportFrame, updates, internal, overtaken, peers, allowedPeers, closing>>

\* The pending CloseConnection, or a connection lost for any other reason.
Close(n) ==
    /\ n \in connected
    /\ connected' = connected \ {n}
    /\ closing' = closing \ {n}
    /\ UNCHANGED <<transportFrame, updates, internal, overtaken, peers, allowedPeers>>

-----------------------------------------------------------------------------
\* Databases survive, except for peers not seen in the last minutes.
Restart ==
    /\ restarts < MaxRestart
    /\ restarts' = restarts + 1
    /\ peers' \in SUBSET peers
    /\ allowedPeers' = {} /\ connected' = {} /\ closing' = {}
    /\ cache' = [n \in Node |-> "absent"]
    /\ events' = <<>> /\ lookup' = NoNode /\ updates' = <<>> /\ internal' = <<>>
    /\ phase' = "syncing" /\ toLoad' = {}
    /\ synced' = FALSE /\ lag' = Len(backlog)
    /\ overtaken' = {}
    /\ UNCHANGED <<chainVars, backlog, dbVars>>

Pipeline == TranslateEvent \/ CacheMissing
Load == StartLoad \/ (\E n \in Node : LoadPeer(n)) \/ FinishLoad

Next ==
    \/ RegistryTx
    \/ \E n \in Node : bindKeys(n) \/ announce(n) \/ revoke(n)
    \/ CompleteSync \/ IndexLog
    \/ Pipeline \/ (\E n \in Node : Expire(n))
    \/ Load
    \/ HandleUpdate \/ HandleInternal
    \/ \E n \in Node : Connect(n) \/ Close(n)
    \/ Restart

Spec == Init /\ [][Next]_vars

\* The tasks of the node keep being polled, and the swarm executes the closing
\* of connections it has been asked for.  Nothing is assumed of the chain.
FairSpec ==
    /\ Spec
    /\ WF_vars(CompleteSync) /\ WF_vars(IndexLog) /\ WF_vars(Pipeline) /\ WF_vars(Load)
    /\ WF_vars(HandleUpdate) /\ WF_vars(HandleInternal)
    /\ \A n \in Node : WF_vars(n \in closing /\ Close(n))

-----------------------------------------------------------------------------
(* Properties *)

\* Every peer the swarm allows is stored: were one not, its ban would fail on
\* the missing row and never reach the swarm.
AllowedIsStored == allowedPeers \subseteq peers

\* A node the registry has expelled and the swarm still allows has its ban on
\* the way, in some queue, unless a late answer of the initial load overtook
\* the ban or the ban was dropped for a stale "unknown key" in the cache.
BanIsComing ==
    \A n \in allowedPeers \ admitted :
        \/ Has(backlog, "Deregistered", n) \/ Has(events, "Denied", n)
        \/ Has(updates, "Ban", n)
        \/ n \in overtaken

\* The database follows the registry: with nothing left to index, the table of
\* allowed nodes holds exactly the nodes the contract admits, although logs are
\* indexed before, during and after the synchronisation, and across restarts.
IndexFollows == backlog = <<>> => allowed = admitted

\* A node expelled for good ends up disconnected for good, with the exception
\* BanIsComing names.
ExpelledIsDisconnected ==
    \A n \in Node :
        <>[](n \notin admitted) => <>[](n \notin connected \/ n \in overtaken)

\* A registered peer that is dialled because it announced itself is one the
\* swarm allows, or is told to allow by an update under way: otherwise the
\* first connection the dial is for is denied.
DialIsAllowed ==
    [][\A n \in Node : /\ HandleUpdate /\ Head(updates) = Item("Announce", n)
                       /\ n \in allowed
                       => \/ n \in allowedPeers
                          \/ Has(events, "Allowed", n) \/ Has(updates \o internal, "Allow", n)]_vars
=============================================================================
