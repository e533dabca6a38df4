-------------------------------- MODULE Session --------------------------------
(***************************************************************************)
(* The Session protocol: frames written at one end are cut into segments,  *)
(* travel over a network that loses and reorders them, and are reassembled *)
(* and emitted in order at the other end.  The receiver acknowledges the   *)
(* frames that were read and asks for missing segments; the sender repeats *)
(* frames that are not acknowledged.  Frames that stay incomplete expire.  *)
(*                                                                         *)
(* One direction is modelled; the other is a second, independent instance. *)
(* Time is kept as ages: an age grows with Tick up to Old, where it is     *)
(* above frame_expiration_age.  When a retry is due is left open, only the *)
(* number of retries counts.                                               *)
(***************************************************************************)
EXTENDS Integers, Sequences, FiniteSets

CONSTANTS
    Segments,     \* frame number -> its number of segments; bounds the frames
    Features,     \* enabled features of both ends
    MaxBuffered,  \* max_buffered_segments: size of the lookbehind buffer
    AckBuffer,    \* acknowledged_frames_buffer: size of the acknowledgement ring
    MaxAge,       \* frame_expiration_age
    MaxResend,    \* retransmissions of a frame until the sender's backoff, which
    MaxRequest,   \* grows from rto_base_sender, reaches frame_expiration_age; the
                  \* same for the receiver's requests and rto_base_receiver
    MaxInFlight,  \* bound on the messages on their way
    Parallel      \* whether the tasks of a socket run on several threads

ASSUME SessionAssumption ==
    /\ Segments \in Seq(Nat \ {0})
    /\ Features \subseteq {"AcknowledgeFrames", "RequestIncompleteFrames", "RetransmitFrames"}
    /\ MaxBuffered \in Nat \ {0} /\ AckBuffer \in Nat \ {0}
    /\ MaxAge \in Nat /\ MaxResend \in Nat /\ MaxRequest \in Nat
    /\ MaxInFlight \in Nat
    /\ Parallel \in BOOLEAN

Frame == 1 .. Len(Segments)
SegmentsOf(f) == {f} \X (0 .. Segments[f] - 1)
SegmentId == UNION {SegmentsOf(f) : f \in Frame}

Old == MaxAge + 1
Never == -1
NoToken == -1
Nobody == 0

VARIABLES
    \* at the sender
    age_sent,      \* ages of the frames sent so far; its length numbers them
    lookbehind,    \* segments kept for retransmission
    resends,       \* outgoing_frame_resends: frame -> retries made, or NoToken
    \* the network
    net,           \* messages on their way, in both directions
    \* at the receiver
    sequences,     \* frame -> its buffered segments; {} when it has no builder
    age,           \* frame -> age of its last segment
    highest,       \* highest_buffered_frame
    next,          \* next_emitted_frame
    last_emission, \* age of the last emission, Never before the first
    emitting,      \* frame taken out for emission and not yet emitted
    egress,        \* the emitted frames
    retries,       \* incoming_frame_retries: frame -> retries made, or NoToken
    to_acknowledge \* frames emitted and not yet acknowledged

senderVars == <<age_sent, lookbehind, resends>>
bufferVars == <<sequences, age, highest, next, last_emission, emitting>>
streamVars == <<egress, retries, to_acknowledge>>
vars == <<age_sent, lookbehind, resends, net, sequences, age, highest, next,
          last_emission, emitting, egress, retries, to_acknowledge>>

Segment(s) == [type |-> "Segment", frames |-> {s[1]}, segments |-> {s}]
Request(f, S) == [type |-> "Request", frames |-> {f}, segments |-> S]
Acknowledge(F) == [type |-> "Acknowledge", frames |-> F, segments |-> {}]

\* When too many messages are on their way the earlier ones are lost, as any
\* message may be at any time.
With(messages, M) == IF Cardinality(messages \cup M) <= MaxInFlight
                     THEN messages \cup M ELSE M

Init ==
    /\ age_sent = <<>> /\ lookbehind = {} /\ resends = [f \in Frame |-> NoToken]
    /\ net = {}
    /\ sequences = [f \in Frame |-> {}] /\ age = [f \in Frame |-> 0]
    /\ highest = 0 /\ next = 1 /\ last_emission = Never /\ emitting = Nobody
    /\ egress = <<>> /\ retries = [f \in Frame |-> NoToken] /\ to_acknowledge = <<>>

Sent == 1 .. Len(age_sent)

--------------------------------------------------------------------------------
(* The sender *)

\* Segments are ordered by frame and position, pop_front drops the first.
Before(s, t) == s[1] < t[1] \/ (s[1] = t[1] /\ s[2] < t[2])

\* Mutation: the ring holds one segment less than configured.
BugRinged(S) == {s \in S : Cardinality({t \in S : Before(s, t)}) < MaxBuffered - 1}

Ringed(S) == {s \in S : Cardinality({t \in S : Before(s, t)}) < MaxBuffered}

send_frame_data ==
    /\ Len(age_sent) < Len(Segments)
    /\ LET f == Len(age_sent) + 1 IN
          /\ age_sent' = Append(age_sent, 0)
          /\ net' = With(net, {Segment(s) : s \in SegmentsOf(f)})
          /\ lookbehind' = Ringed(lookbehind \cup SegmentsOf(f))
          /\ resends' = [resends EXCEPT ![f] = 0]
    /\ UNCHANGED <<bufferVars, streamVars>>

\* Only what is still in the lookbehind buffer can be sent again; the receiver
\* is in charge of the frame from now on.
retransmit_segments(m) ==
    /\ m \in net /\ m.type = "Request"
    /\ net' = With(net \ {m}, {Segment(s) : s \in m.segments \cap lookbehind})
    /\ resends' = [f \in Frame |-> IF f \in m.frames THEN NoToken ELSE resends[f]]
    /\ UNCHANGED <<age_sent, lookbehind, bufferVars, streamVars>>

acknowledged_frames(m) ==
    /\ m \in net /\ m.type = "Acknowledge"
    /\ net' = net \ {m}
    /\ resends' = [f \in Frame |-> IF f \in m.frames THEN NoToken ELSE resends[f]]
    /\ lookbehind' = {s \in lookbehind : s[1] \notin m.frames}
    /\ UNCHANGED <<age_sent, bufferVars, streamVars>>

\* A frame whose token is checked after it is due; an expired token is dropped.
retransmit_unacknowledged_frames(f) ==
    /\ "RetransmitFrames" \in Features
    /\ resends[f] # NoToken
    /\ IF resends[f] >= MaxResend
       THEN /\ resends' = [resends EXCEPT ![f] = NoToken]
            /\ net' = net
       ELSE /\ resends' = [resends EXCEPT ![f] = @ + 1]
            /\ net' = With(net, {Segment(s) : s \in SegmentsOf(f) \cap lookbehind})
    /\ UNCHANGED <<age_sent, lookbehind, bufferVars, streamVars>>

--------------------------------------------------------------------------------
(* The receiver: reassembly *)

HasBuilder(f) == f \in Frame /\ sequences[f] # {}
is_complete(f) == f \in Frame /\ sequences[f] = SegmentsOf(f)
is_expired(f) == age[f] = Old

\* First frame from f on that the sequencer cannot pass, given those it can.
Until(f, P) == CHOOSE e \in f .. Len(Segments) + 1 : e \notin P /\ f .. e - 1 \subseteq P

\* Mutation: the queue is cut too late.
BugLastOf(q, n) == IF Len(q) > n + 1 THEN SubSeq(q, Len(q) - n, Len(q)) ELSE q

LastOf(q, n) == IF Len(q) > n THEN SubSeq(q, Len(q) - n + 1, Len(q)) ELSE q

\* Mutation: a complete frame that is too old is dropped.
BugEmits(f) == is_complete(f) /\ ~ is_expired(f)

\* emit_if_complete_discard_otherwise.
Emits(f) == is_complete(f)

\* The numbers in S, from the smallest to the largest.
Ascending(S) ==
    CHOOSE q \in [1 .. Cardinality(S) -> S] :
        /\ \A x \in S : \E i \in DOMAIN q : q[i] = x
        /\ \A i, j \in DOMAIN q : i < j => q[i] < q[j]

\* first is emitted, then the frames f .. e - 1 leave the buffer, the complete
\* ones by being emitted.  The application reads them at once: retry tokens
\* are dropped, and emitted frames wait for their acknowledgement in a ring
\* that forgets its oldest entries.
PassTo(first, f, e) ==
    LET done == first \o Ascending({g \in f .. e - 1 : Emits(g)})
        gone == {first[i] : i \in DOMAIN first} \cup f .. e - 1
    IN /\ egress' = egress \o done
       /\ to_acknowledge' = IF "AcknowledgeFrames" \in Features
                            THEN LastOf(to_acknowledge \o done, AckBuffer) ELSE <<>>
       /\ retries' = [g \in Frame |-> IF g \in gone THEN NoToken ELSE retries[g]]
       /\ sequences' = [g \in Frame |-> IF g \in f .. e - 1 THEN {} ELSE sequences[g]]
       /\ age' = [g \in Frame |-> IF g \in f .. e - 1 THEN 0 ELSE age[g]]
       /\ next' = e
       /\ last_emission' = 0

\* Mutation: a frame is emitted as soon as it is complete.
BugIsNext(f) == TRUE

\* The compare_exchange of next_emitted_frame.
IsNext(f) == f = next

\* consume_segment and push_segment up to the point where the completed next
\* frame has left the map of builders; a segment of a passed frame is refused.
push_segment(m) ==
    /\ m \in net /\ m.type = "Segment" /\ emitting = Nobody
    /\ net' = net \ {m}
    /\ \E s \in m.segments :
          LET f == s[1]
              segments == sequences[f] \cup {s}
              taken == segments = SegmentsOf(f) /\ IsNext(f)
          IN IF f < next THEN UNCHANGED <<bufferVars, retries>>
             ELSE /\ sequences' = [sequences EXCEPT ![f] = IF taken THEN {} ELSE segments]
                  /\ age' = [age EXCEPT ![f] = IF s \in sequences[f] /\ ~ taken THEN @ ELSE 0]
                  /\ highest' = IF taken \/ f < highest THEN highest ELSE f
                  /\ next' = IF taken THEN next + 1 ELSE next
                  /\ emitting' = IF taken THEN f ELSE Nobody
                  /\ retries' = [retries EXCEPT ![f] = 0]
                  /\ UNCHANGED last_emission
    /\ UNCHANGED <<senderVars, egress, to_acknowledge>>

\* The rest of push_segment: the frame is sent out, and the complete frames
\* behind it follow.
emit ==
    /\ emitting # Nobody
    /\ PassTo(<<emitting>>, next, Until(next, {f \in Frame : is_complete(f)}))
    /\ emitting' = Nobody
    /\ UNCHANGED <<senderVars, net, highest>>

\* On one thread the state loop does not run in the middle of push_segment.
LoopRuns == Parallel \/ emitting = Nobody

\* A frame that never showed up is passed when nothing was emitted for too
\* long, and that counts as an emission.
Skips == ~ HasBuilder(next) /\ last_emission = Old
Passable == {f \in Frame : HasBuilder(f) /\ (is_complete(f) \/ is_expired(f))}
EvictFrom == IF Skips THEN next + 1 ELSE next

evict ==
    /\ LoopRuns
    /\ \E f \in Frame : HasBuilder(f)
    /\ Skips \/ next \in Passable
    /\ PassTo(<<>>, EvictFrom, Until(EvictFrom, Passable))
    /\ UNCHANGED <<senderVars, net, highest, emitting>>

--------------------------------------------------------------------------------
(* The receiver: acknowledging and requesting *)

acknowledge_segments ==
    /\ LoopRuns
    /\ to_acknowledge # <<>>
    /\ net' = With(net, {Acknowledge({to_acknowledge[i] : i \in DOMAIN to_acknowledge})})
    /\ to_acknowledge' = <<>>
    /\ UNCHANGED <<senderVars, bufferVars, egress, retries>>

\* Mutation: frames that never showed up are not asked for.
BugMissing(f) == IF HasBuilder(f) THEN SegmentsOf(f) \ sequences[f] ELSE {}

\* incomplete_frames: of a frame that never showed up only the first segment
\* is known to be missing.
Missing(f) == IF HasBuilder(f) THEN SegmentsOf(f) \ sequences[f] ELSE {<<f, 0>>}

request_missing_segments(f) ==
    /\ "RequestIncompleteFrames" \in Features
    /\ LoopRuns
    /\ f \in next .. highest /\ ~ is_complete(f)
    /\ IF retries[f] >= MaxRequest
       THEN /\ retries' = [retries EXCEPT ![f] = NoToken]
            /\ net' = net
       ELSE /\ retries' = [retries EXCEPT ![f] = @ + 1]
            /\ net' = With(net, {Request(f, Missing(f))})
    /\ UNCHANGED <<senderVars, bufferVars, egress, to_acknowledge>>

--------------------------------------------------------------------------------
(* The environment *)

Lose(m) ==
    /\ m \in net
    /\ net' = net \ {m}
    /\ UNCHANGED <<senderVars, bufferVars, streamVars>>

Older(a) == IF a \in {Never, Old} THEN a ELSE a + 1

\* An age is kept only where it is looked at.
Tick ==
    /\ age_sent' = [f \in Sent |-> Older(age_sent[f])]
    /\ age' = [f \in Frame |-> IF HasBuilder(f) THEN Older(age[f]) ELSE 0]
    /\ last_emission' = Older(last_emission)
    /\ UNCHANGED <<lookbehind, resends, net, sequences, highest, next, emitting,
                   streamVars>>

Next ==
    \/ send_frame_data
    \/ \E f \in Frame : \/ retransmit_unacknowledged_frames(f)
                        \/ request_missing_segments(f)
    \/ \E m \in net : \/ retransmit_segments(m) \/ acknowledged_frames(m)
                      \/ push_segment(m) \/ Lose(m)
    \/ emit \/ evict \/ acknowledge_segments \/ Tick

Spec == Init /\ [][Next]_vars

\* The network is lossy but fair to the frame the sequencer waits for: when
\* segments and requests of it are sent again and again, some arrive.  The
\* receiver's tasks run.  Nobody has to write, and no frame has to expire.
Fairness ==
    /\ SF_vars(next \in Frame /\ \E s \in SegmentsOf(next) : push_segment(Segment(s)))
    /\ SF_vars(next \in Frame /\ \E S \in SUBSET SegmentsOf(next) : retransmit_segments(Request(next, S)))
    /\ WF_vars(request_missing_segments(next))
    /\ WF_vars(emit) /\ WF_vars(evict)

FairSpec == Spec /\ Fairness

--------------------------------------------------------------------------------
(* Properties *)

TypeOK ==
    /\ age_sent \in Seq(0 .. Old) /\ Len(age_sent) <= Len(Segments)
    /\ lookbehind \subseteq SegmentId
    /\ resends \in [Frame -> NoToken .. MaxResend]
    /\ net \subseteq [type : {"Segment", "Request", "Acknowledge"}, frames : SUBSET Frame,
                      segments : SUBSET SegmentId]
    /\ \A f \in Frame : sequences[f] \subseteq SegmentsOf(f)
    /\ age \in [Frame -> 0 .. Old]
    /\ highest \in 0 .. Len(Segments)
    /\ next \in 1 .. Len(age_sent) + 1
    /\ last_emission \in Never .. Old
    /\ emitting \in 0 .. Len(Segments)
    /\ egress \in Seq(Frame)
    /\ retries \in [Frame -> NoToken .. MaxRequest]
    /\ to_acknowledge \in Seq(Frame) /\ Len(to_acknowledge) <= AckBuffer

\* Frames are never emitted out of order or twice.
InOrder == \A i, j \in DOMAIN egress : i < j => egress[i] < egress[j]

Stream == INSTANCE FrameStream WITH
            written <- Len(age_sent), position <- IF emitting = Nobody THEN next ELSE emitting,
            delivered <- egress

\* A session is a frame stream: in order, without repetition, with gaps.
ImplementsStream == Stream!Spec

\* What is missing at the receiver can still be sent again by the sender: a
\* segment of a frame that was not passed yet leaves the lookbehind buffer only
\* when max_buffered_segments later ones were sent.
Recoverable ==
    \A f \in Sent : \A s \in SegmentsOf(f) :
        /\ f >= next
        /\ Cardinality({t \in UNION {SegmentsOf(g) : g \in Sent} : Before(s, t)}) < MaxBuffered
        => s \in lookbehind

\* A frame that arrived completely is never discarded, however old it is and
\* whatever happens to its neighbours.
CompleteIsEmitted ==
    [][\A f \in Frame : is_complete(f) /\ f >= next /\ f < next' =>
          \E i \in DOMAIN egress' : egress'[i] = f]_vars

\* The sequencer does not wait for ever for a frame the sender still keeps.
Available(f) == f \in Frame /\ SegmentsOf(f) \ sequences[f] \subseteq lookbehind
NoStall == []<>(next > highest \/ ~ Available(next))
================================================================================
