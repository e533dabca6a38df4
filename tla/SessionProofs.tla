---------------------------- MODULE SessionProofs ----------------------------
(***************************************************************************)
(* Proofs about Session: the types, that what the receiver waits for can   *)
(* be sent again, that a frame which arrived completely is emitted, and    *)
(* that on one thread a session is the frame stream FrameStream.           *)
(***************************************************************************)
EXTENDS Session, FiniteSetTheorems, SequenceTheorems, WellFoundedInduction, TLAPS

--------------------------------------------------------------------------------
(* The inductive invariant *)

Message == [type : {"Segment", "Request", "Acknowledge"}, frames : SUBSET Frame,
            segments : SUBSET SegmentId]

\* The segments of the frames sent so far.
Written == UNION {SegmentsOf(g) : g \in Sent}

\* What the sender keeps was sent.
SenderInv ==
    /\ age_sent \in Seq(0 .. Old) /\ Len(age_sent) <= Len(Segments)
    /\ lookbehind \subseteq Written
    /\ resends \in [Frame -> NoToken .. MaxResend]
    /\ Recoverable

\* A segment on its way is of a sent frame, and an acknowledgement is only of
\* frames the receiver has passed.
NetInv ==
    /\ net \subseteq Message
    /\ \A m \in net : m.type = "Segment" =>
          \E s \in SegmentId : s[1] \in Sent /\ m = Segment(s)
    /\ \A m \in net : m.type = "Acknowledge" => \A f \in m.frames : f < next

\* Builders exist for sent frames that were not passed.  The frame taken out for
\* emission has been passed; on one thread it is the last that was.  When there
\* is none the sequencer waits for an incomplete frame.
BufferInv ==
    /\ sequences \in [Frame -> SUBSET SegmentId]
    /\ \A f \in Frame : sequences[f] \subseteq SegmentsOf(f)
    /\ \A f \in Frame : sequences[f] # {} => f \in Sent /\ f >= next
    /\ age \in [Frame -> 0 .. Old]
    /\ highest \in 0 .. Len(Segments)
    /\ next \in 1 .. Len(age_sent) + 1
    /\ last_emission \in Never .. Old
    /\ emitting \in 0 .. Len(Segments)
    /\ emitting < next
    /\ ~ Parallel /\ emitting # Nobody => next = emitting + 1
    /\ emitting = Nobody => ~ is_complete(next)

\* What waits for its acknowledgement has been passed.
StreamInv ==
    /\ egress \in Seq(Frame)
    /\ retries \in [Frame -> NoToken .. MaxRequest]
    /\ to_acknowledge \in Seq(Frame) /\ Len(to_acknowledge) <= AckBuffer
    /\ \A i \in DOMAIN to_acknowledge : to_acknowledge[i] < next

IInv ==
    /\ SenderInv
    /\ NetInv
    /\ BufferInv
    /\ StreamInv

--------------------------------------------------------------------------------
(* Natural numbers *)

\* A nonempty set of natural numbers has a least element.
LEMMA LeastNatural ==
    ASSUME NEW T, T \subseteq Nat, T # {}
    PROVE  \E x \in T : \A y \in T : x <= y
  <1>1. \E R : IsWellFoundedOn(R, Nat) /\ \A x, y \in Nat : <<y, x>> \in R <=> y < x
    <2>1. IsWellFoundedOn(OpToRel(<, Nat), Nat)
      BY NatLessThanWellFounded
    <2>2. \A x, y \in Nat : <<y, x>> \in OpToRel(<, Nat) <=> y < x
      BY DEF OpToRel
    <2> QED BY <2>1, <2>2, Zenon
  <1>2. PICK R : IsWellFoundedOn(R, Nat) /\ \A x, y \in Nat : <<y, x>> \in R <=> y < x
    BY <1>1
  <1>3. \E x \in T : \A y \in T : ~ (<<y, x>> \in R)
    BY <1>2, WFMin
  <1>4. PICK x \in T : \A y \in T : ~ (<<y, x>> \in R)
    BY <1>3
  <1>5. ASSUME NEW y \in T PROVE x <= y
    <2>1. ~ (<<y, x>> \in R) /\ x \in Nat /\ y \in Nat
      BY <1>4
    <2>2. ~ (y < x)
      BY <2>1, <1>2, Zenon
    <2> QED BY <2>1, <2>2
  <1> QED BY <1>5

\* Induction over the natural numbers, for a set.
LEMMA SetInduction ==
    ASSUME NEW S, 0 \in S, \A n \in Nat : n \in S => n + 1 \in S
    PROVE  Nat \subseteq S
  <1> SUFFICES ASSUME Nat \ S # {} PROVE FALSE
    OBVIOUS
  <1>1. PICK x \in Nat \ S : \A y \in Nat \ S : x <= y
    BY LeastNatural
  <1>2. x # 0
    BY <1>1
  <1>3. x - 1 \in Nat /\ x - 1 \in S
    BY <1>1, <1>2
  <1> QED BY <1>1, <1>3

\* q lists the elements of S from the smallest to the largest.
Lists(q, S) ==
    /\ \A x \in S : \E i \in DOMAIN q : q[i] = x
    /\ \A i, j \in DOMAIN q : i < j => q[i] < q[j]

\* A finite set of frame numbers can be listed in order.
LEMMA Listable ==
    ASSUME NEW k \in Nat, NEW S \in SUBSET (1 .. k)
    PROVE  \E q \in [1 .. Cardinality(S) -> S] : Lists(q, S)
  <1> DEFINE I == {n \in Nat : \A T \in SUBSET (1 .. n) :
                                 \E q \in [1 .. Cardinality(T) -> T] : Lists(q, T)}
  <1>1. 0 \in I
    <2>1. \A T \in SUBSET (1 .. 0) : T = {}
      OBVIOUS
    <2>2. Cardinality({}) = 0
      BY FS_EmptySet
    <2>3. [i \in {} |-> i] \in [1 .. Cardinality({}) -> {}] /\ Lists([i \in {} |-> i], {})
      BY <2>2 DEF Lists
    <2> QED BY <2>1, <2>3
  <1>2. ASSUME NEW n \in Nat, n \in I PROVE n + 1 \in I
    <2>0. n + 1 \in Nat
      OBVIOUS
    <2> SUFFICES ASSUME NEW T \in SUBSET (1 .. n + 1)
                 PROVE  \E q \in [1 .. Cardinality(T) -> T] : Lists(q, T)
      BY <2>0, Zenon
    <2>1. CASE n + 1 \notin T
      <3>1. T \in SUBSET (1 .. n)
        BY <2>1
      <3> QED BY <3>1, <1>2
    <2>2. CASE n + 1 \in T
      <3>1. PICK U : U = T \ {n + 1}
        OBVIOUS
      <3>2. IsFiniteSet(T)
        <4>1. IsFiniteSet(1 .. n + 1)
          BY FS_Interval
        <4> QED BY <4>1, FS_Subset
      <3>3. Cardinality(U) = Cardinality(T) - 1 /\ IsFiniteSet(U)
        BY <3>1, <3>2, <2>2, FS_RemoveElement
      <3>4. PICK c \in Nat : c = Cardinality(U) /\ Cardinality(T) = c + 1
        <4>1. Cardinality(U) \in Nat /\ Cardinality(T) \in Nat
          BY <3>2, <3>3, FS_CardinalityType
        <4> QED BY <4>1, <3>3
      <3>5. U \in SUBSET (1 .. n)
        BY <3>1
      <3>6. PICK p \in [1 .. c -> U] : Lists(p, U)
        BY <3>5, <3>4, <1>2
      <3>7. PICK q : q = [i \in 1 .. c + 1 |-> IF i = c + 1 THEN n + 1 ELSE p[i]]
        OBVIOUS
      <3>8. ASSUME NEW i \in 1 .. c PROVE q[i] = p[i] /\ p[i] \in U /\ p[i] < n + 1
        <4>1. p[i] \in U
          BY <3>6
        <4>2. i \in 1 .. c + 1 /\ i # c + 1
          OBVIOUS
        <4>3. p[i] \in 1 .. n
          BY <4>1, <3>5
        <4>4. q[i] = p[i]
          BY <4>2, <3>7
        <4> QED BY <4>1, <4>3, <4>4
      <3>9. q[c + 1] = n + 1 /\ DOMAIN q = 1 .. c + 1 /\ DOMAIN p = 1 .. c
        BY <3>6, <3>7
      <3>10. q \in [1 .. Cardinality(T) -> T]
        <4>1. \A i \in 1 .. c + 1 : (IF i = c + 1 THEN n + 1 ELSE p[i]) \in T
          BY <3>1, <3>8, <2>2
        <4>2. q \in [1 .. c + 1 -> T]
          BY <4>1, <3>7
        <4> QED BY <4>2, <3>4
      <3>11. ASSUME NEW x \in T PROVE \E i \in DOMAIN q : q[i] = x
        <4>1. CASE x = n + 1
          BY <4>1, <3>9
        <4>2. CASE x # n + 1
          <5>1. PICK i \in 1 .. c : p[i] = x
            BY <4>2, <3>1, <3>6, <3>9 DEF Lists
          <5> QED BY <5>1, <3>8, <3>9
        <4> QED BY <4>1, <4>2
      <3>12. ASSUME NEW i \in DOMAIN q, NEW j \in DOMAIN q, i < j PROVE q[i] < q[j]
        <4>1. i \in 1 .. c
          BY <3>9, <3>12
        <4>2. CASE j = c + 1
          BY <4>1, <4>2, <3>8, <3>9
        <4>3. CASE j \in 1 .. c
          BY <4>1, <4>3, <3>6, <3>8, <3>9, <3>12 DEF Lists
        <4> QED BY <4>2, <4>3, <3>9
      <3>13. Lists(q, T)
        BY <3>11, <3>12 DEF Lists
      <3> QED BY <3>10, <3>13
    <2> QED BY <2>1, <2>2
  <1> HIDE DEF I
  <1>3. Nat \subseteq I
    BY <1>1, <1>2, SetInduction
  <1>4. k \in I
    BY <1>3
  <1> QED BY <1>4 DEF I

\* What Ascending returns.
LEMMA AscendingLists ==
    ASSUME NEW k \in Nat, NEW S \in SUBSET (1 .. k)
    PROVE  /\ Ascending(S) \in Seq(S)
           /\ Lists(Ascending(S), S)
  <1>1. \E q \in [1 .. Cardinality(S) -> S] : Lists(q, S)
    BY Listable
  <1>2. Ascending(S) \in [1 .. Cardinality(S) -> S] /\ Lists(Ascending(S), S)
    BY <1>1 DEF Ascending, Lists
  <1>3. Cardinality(S) \in Nat
    <2>1. IsFiniteSet(1 .. k)
      BY FS_Interval
    <2> QED BY <2>1, FS_Subset, FS_CardinalityType
  <1>4. PICK n \in Nat : n = Cardinality(S)
    BY <1>3
  <1> QED BY <1>2, <1>4

--------------------------------------------------------------------------------
(* Frames and segments *)

\* Frames are positive numbers, and a frame has at least one segment.
LEMMA Frames ==
    /\ Len(Segments) \in Nat
    /\ \A f \in Frame : f \in Nat /\ f >= 1 /\ f <= Len(Segments)
    /\ \A f \in Frame : Segments[f] \in Nat /\ Segments[f] >= 1
    /\ \A f \in Frame : SegmentsOf(f) # {} /\ SegmentsOf(f) \subseteq SegmentId
    /\ \A f \in Frame : \A s \in SegmentsOf(f) : s[1] = f
    /\ \A s \in SegmentId : s[1] \in Frame /\ s \in SegmentsOf(s[1])
  <1>1. Len(Segments) \in Nat
    BY SessionAssumption
  <1>2. \A f \in Frame : f \in Nat /\ f >= 1 /\ f <= Len(Segments)
    BY <1>1 DEF Frame
  <1>3. \A f \in Frame : Segments[f] \in Nat /\ Segments[f] >= 1
    BY SessionAssumption, <1>1 DEF Frame
  <1>4. ASSUME NEW f \in Frame PROVE SegmentsOf(f) # {} /\ SegmentsOf(f) \subseteq SegmentId
    <2>1. <<f, 0>> \in SegmentsOf(f)
      BY <1>3 DEF SegmentsOf
    <2> QED BY <2>1 DEF SegmentId
  <1>5. \A f \in Frame : \A s \in SegmentsOf(f) : s[1] = f
    BY DEF SegmentsOf
  <1>6. \A s \in SegmentId : s[1] \in Frame /\ s \in SegmentsOf(s[1])
    BY <1>5 DEF SegmentId
  <1> QED BY <1>1, <1>2, <1>3, <1>4, <1>5, <1>6

\* There are finitely many segments.
LEMMA FiniteSegments == IsFiniteSet(SegmentId)
  <1>1. ASSUME NEW f \in Frame PROVE IsFiniteSet(SegmentsOf(f))
    <2>1. IsFiniteSet({f})
      BY FS_Singleton
    <2>2. IsFiniteSet(0 .. Segments[f] - 1)
      <3>1. Segments[f] - 1 \in Int
        BY Frames
      <3> QED BY <3>1, FS_Interval
    <2> QED BY <2>1, <2>2, FS_Product DEF SegmentsOf
  <1>2. IsFiniteSet({SegmentsOf(f) : f \in Frame})
    <2>1. IsFiniteSet(Frame)
      BY Frames, FS_Interval DEF Frame
    <2>2. PICK h : h = [f \in Frame |-> SegmentsOf(f)]
      OBVIOUS
    <2>3. h \in Surjection(Frame, {SegmentsOf(f) : f \in Frame})
      BY <2>2 DEF Surjection
    <2> QED BY <2>1, <2>3, FS_Surjection
  <1> QED BY <1>1, <1>2, FS_UNION DEF SegmentId

\* Sets of segments are finite, and smaller sets count less.
LEMMA Counting ==
    ASSUME NEW S, NEW T, S \subseteq T, T \subseteq SegmentId
    PROVE  /\ Cardinality(S) \in Nat /\ Cardinality(T) \in Nat
           /\ Cardinality(S) <= Cardinality(T)
  <1>1. IsFiniteSet(T)
    BY FiniteSegments, FS_Subset
  <1>2. IsFiniteSet(S) /\ Cardinality(S) <= Cardinality(T)
    BY <1>1, FS_Subset
  <1> QED BY <1>1, <1>2, FS_CardinalityType

\* What Until returns.
LEMMA UntilStops ==
    ASSUME NEW f \in 1 .. Len(Segments) + 1, NEW P, P \subseteq Frame
    PROVE  /\ Until(f, P) \in f .. Len(Segments) + 1
           /\ Until(f, P) \notin P
           /\ \A g \in f .. Until(f, P) - 1 : g \in P
  <1>1. PICK T : T = {e \in f .. Len(Segments) + 1 : e \notin P}
    OBVIOUS
  <1>2. Len(Segments) + 1 \in T /\ T \subseteq Nat
    BY <1>1, Frames DEF Frame
  <1>3. PICK e \in T : \A y \in T : e <= y
    BY <1>2, LeastNatural
  <1>4. e \in f .. Len(Segments) + 1 /\ e \notin P
    BY <1>1
  <1>5. ASSUME NEW g \in f .. e - 1 PROVE g \in P
    <2>1. g \in f .. Len(Segments) + 1 /\ ~ (e <= g)
      BY <1>4, Frames
    <2> QED BY <2>1, <1>1, <1>3
  <1>6. f .. e - 1 \subseteq P
    BY <1>5
  <1>7. \E d \in f .. Len(Segments) + 1 : d \notin P /\ f .. d - 1 \subseteq P
    BY <1>4, <1>6
  <1>8. /\ Until(f, P) \in f .. Len(Segments) + 1
        /\ Until(f, P) \notin P /\ f .. Until(f, P) - 1 \subseteq P
    BY <1>7, Zenon DEF Until
  <1> QED BY <1>8

\* What LastOf returns.
LEMMA LastOfEnds ==
    ASSUME NEW S, NEW q \in Seq(S), NEW n \in Nat
    PROVE  /\ LastOf(q, n) \in Seq(S)
           /\ Len(LastOf(q, n)) <= n
           /\ \A i \in DOMAIN LastOf(q, n) : \E j \in DOMAIN q : LastOf(q, n)[i] = q[j]
  <1>1. CASE Len(q) > n
    <2>1. LastOf(q, n) = SubSeq(q, Len(q) - n + 1, Len(q))
      BY <1>1 DEF LastOf
    <2>2. /\ Len(q) \in Nat /\ Len(q) - n + 1 \in 1 .. Len(q) + 1
          /\ \A i \in Len(q) - n + 1 .. Len(q) : q[i] \in S
      BY <1>1
    <2>3. PICK m \in Nat : m = Len(q) - n + 1 /\ m >= 1
      BY <2>2
    <2>4. /\ SubSeq(q, m, Len(q)) \in Seq(S)
          /\ Len(SubSeq(q, m, Len(q))) = IF m <= Len(q) THEN Len(q) - m + 1 ELSE 0
          /\ \A i \in 1 .. Len(q) - m + 1 : SubSeq(q, m, Len(q))[i] = q[m + i - 1]
      BY <2>2, <2>3, SubSeqProperties
    <2>5. Len(SubSeq(q, m, Len(q))) = n
      BY <2>2, <2>3, <2>4
    <2>6. ASSUME NEW i \in 1 .. n PROVE SubSeq(q, m, Len(q))[i] = q[m + i - 1] /\ m + i - 1 \in 1 .. Len(q)
      BY <2>2, <2>3, <2>4
    <2>7. DOMAIN SubSeq(q, m, Len(q)) = 1 .. n /\ DOMAIN q = 1 .. Len(q)
      BY <2>4, <2>5
    <2> QED BY <2>1, <2>3, <2>4, <2>5, <2>6, <2>7
  <1>2. CASE ~ (Len(q) > n)
    BY <1>2 DEF LastOf
  <1> QED BY <1>1, <1>2

--------------------------------------------------------------------------------
(* Messages *)

\* What is on its way after sending was on its way before or is sent now.
LEMMA WithSubset ==
    ASSUME NEW messages, NEW M
    PROVE  With(messages, M) \subseteq messages \cup M
  BY DEF With

\* The three kinds of message have their types.
LEMMA Messages ==
    /\ \A s \in SegmentId : Segment(s) \in Message
    /\ \A s \in SegmentId : Segment(s).type = "Segment" /\ Segment(s).segments = {s}
    /\ \A f \in Frame, S \in SUBSET SegmentId :
          Request(f, S) \in Message /\ Request(f, S).type = "Request"
    /\ \A F \in SUBSET Frame :
          /\ Acknowledge(F) \in Message
          /\ Acknowledge(F).type = "Acknowledge" /\ Acknowledge(F).frames = F
  BY Frames DEF Message, Segment, Request, Acknowledge

\* Segments of sent frames, requests, and acknowledgements of passed frames.
MayTravel(m) ==
    \/ \E s \in SegmentId : s[1] \in Sent /\ m = Segment(s)
    \/ m \in Message /\ m.type = "Request"
    \/ \E F \in SUBSET Frame : m = Acknowledge(F) /\ \A f \in F : f < next

\* Messages may be added that may travel, and any may be lost.
LEMMA NetKept ==
    ASSUME NetInv, next \in Nat, next' \in Nat, next <= next', Sent \subseteq Sent',
           NEW M, net' \subseteq net \cup M,
           \A m \in M : MayTravel(m)'
    PROVE  NetInv'
  <1>1. \A m \in M : m \in Message
    BY Messages DEF MayTravel
  <1>2. \A m \in net' : m \in Message
    BY <1>1 DEF NetInv
  <1>3. ASSUME NEW m \in net', m.type = "Segment"
        PROVE  \E s \in SegmentId : s[1] \in Sent' /\ m = Segment(s)
    <2>1. CASE m \in net
      BY <2>1, <1>3 DEF NetInv
    <2>2. CASE m \in M
      BY <2>2, <1>3, Messages DEF MayTravel
    <2> QED BY <2>1, <2>2
  <1>4. ASSUME NEW m \in net', m.type = "Acknowledge", NEW f \in m.frames
        PROVE  f < next'
    <2>1. CASE m \in net
      <3>1. f < next /\ f \in Frame
        BY <2>1, <1>4 DEF NetInv, Message
      <3> QED BY <3>1, Frames
    <2>2. CASE m \in M
      BY <2>2, <1>4, Messages DEF MayTravel
    <2> QED BY <2>1, <2>2
  <1> QED BY <1>2, <1>3, <1>4 DEF NetInv

--------------------------------------------------------------------------------
(* What a step leaves alone *)

\* The numbers of frames sent and passed.
LEMMA Positions ==
    ASSUME SenderInv, BufferInv
    PROVE  /\ Len(age_sent) \in Nat /\ Len(age_sent) <= Len(Segments)
           /\ next \in Nat /\ next >= 1 /\ next <= Len(age_sent) + 1
           /\ emitting \in Nat
           /\ Sent \subseteq Frame
  <1>1. Len(age_sent) \in Nat
    BY DEF SenderInv
  <1> QED BY <1>1, Frames DEF SenderInv, BufferInv, Sent, Frame

\* What the sender keeps stays recoverable when the receiver only moves on.
LEMMA SenderKept ==
    ASSUME SenderInv, UNCHANGED <<age_sent, lookbehind>>,
           resends' \in [Frame -> NoToken .. MaxResend],
           next \in Nat, next' \in Nat, next <= next'
    PROVE  SenderInv'
  <1>1. /\ age_sent' = age_sent /\ lookbehind' = lookbehind
        /\ Sent' = Sent /\ Written' = Written
    BY DEF Sent, Written
  <1>2. Recoverable'
    <2> SUFFICES ASSUME NEW f \in Sent, NEW s \in SegmentsOf(f), f >= next',
                        Cardinality({t \in UNION {SegmentsOf(g) : g \in Sent} : Before(s, t)}) < MaxBuffered
                 PROVE  s \in lookbehind
      BY <1>1 DEF Recoverable
    <2>1. f >= next
      <3>1. f \in Int
        BY DEF Sent
      <3> QED BY <3>1
    <2> QED BY <2>1 DEF SenderInv, Recoverable
  <1> QED BY <1>1, <1>2 DEF SenderInv

\* The reassembly buffer does not mind further frames being sent.
LEMMA BufferKept ==
    ASSUME BufferInv, UNCHANGED bufferVars, Len(age_sent) \in Nat, Len(age_sent') \in Nat,
           Len(age_sent) <= Len(age_sent')
    PROVE  BufferInv'
  <1>1. /\ sequences' = sequences /\ age' = age /\ highest' = highest /\ next' = next
        /\ last_emission' = last_emission /\ emitting' = emitting
    BY DEF bufferVars
  <1>2. Sent \subseteq Sent'
    BY DEF Sent
  <1>3. next' \in 1 .. Len(age_sent') + 1
    BY <1>1 DEF BufferInv
  <1>4. is_complete(next)' <=> is_complete(next)
    BY <1>1 DEF is_complete
  <1> QED BY <1>1, <1>2, <1>3, <1>4 DEF BufferInv

\* Pending acknowledgements stay those of passed frames.
LEMMA StreamKept ==
    ASSUME StreamInv, UNCHANGED streamVars, next \in Nat, next' \in Nat, next <= next'
    PROVE  StreamInv'
  <1>1. egress' = egress /\ retries' = retries /\ to_acknowledge' = to_acknowledge
    BY DEF streamVars
  <1>2. ASSUME NEW i \in DOMAIN to_acknowledge PROVE to_acknowledge[i] < next'
    <2>1. to_acknowledge[i] \in Frame /\ to_acknowledge[i] < next
      BY DEF StreamInv
    <2> QED BY <2>1, Frames
  <1> QED BY <1>1, <1>2 DEF StreamInv

--------------------------------------------------------------------------------
(* The steps of the sender *)

\* Nothing has been sent.
LEMMA InitInv == Init => IInv
  <1> SUFFICES ASSUME Init PROVE IInv
    OBVIOUS
  <1>1. age_sent = <<>> /\ Len(age_sent) = 0 /\ Sent = {}
    BY DEF Init, Sent
  <1>2. SenderInv
    BY <1>1, Frames, SessionAssumption DEF Init, SenderInv, Recoverable, NoToken, Old
  <1>3. NetInv
    BY DEF Init, NetInv
  <1>4. BufferInv
    <2>1. ~ is_complete(1)
      BY Frames DEF Init, is_complete
    <2>2. next = 1 /\ emitting = 0 /\ sequences = [f \in Frame |-> {}]
      BY DEF Init, Nobody
    <2>3. sequences \in [Frame -> SUBSET SegmentId]
      BY <2>2
    <2> QED BY <1>1, <2>1, <2>2, <2>3, Frames, SessionAssumption DEF Init, BufferInv, Old, Never, Nobody
  <1>5. StreamInv
    BY SessionAssumption DEF Init, StreamInv, NoToken
  <1> QED BY <1>2, <1>3, <1>4, <1>5 DEF IInv

\* send_frame_data: what the ring forgets has max_buffered_segments later ones.
LEMMA SendInv ==
    ASSUME IInv, send_frame_data
    PROVE  IInv'
  <1> USE DEF IInv
  <1>1. PICK f \in Frame : f = Len(age_sent) + 1
    BY Positions, Frames DEF send_frame_data, Frame
  <1>2. /\ age_sent' = Append(age_sent, 0)
        /\ net' = With(net, {Segment(s) : s \in SegmentsOf(f)})
        /\ lookbehind' = Ringed(lookbehind \cup SegmentsOf(f))
        /\ resends' = [resends EXCEPT ![f] = 0]
        /\ UNCHANGED bufferVars /\ UNCHANGED streamVars
    BY <1>1 DEF send_frame_data
  <1>3. /\ next' = next /\ next \in Nat
    BY <1>2, Positions DEF bufferVars
  <1>4. /\ age_sent' \in Seq(0 .. Old) /\ Len(age_sent') = f
        /\ Len(age_sent) = f - 1 /\ f \in Nat /\ f <= Len(Segments)
    BY <1>1, <1>2, Positions, Frames, SessionAssumption DEF SenderInv, Old
  <1>5. Sent \subseteq Sent' /\ f \in Sent' /\ \A g \in Sent' : g = f \/ g \in Sent
    BY <1>4 DEF Sent
  <1>6. Sent' \subseteq Frame
    BY <1>4, Frames DEF Sent, Frame
  <1>7. Written' = Written \cup SegmentsOf(f)
    BY <1>5 DEF Written
  <1>8. Written' \subseteq SegmentId
    BY <1>6, Frames DEF Written
  <1>9. lookbehind \cup SegmentsOf(f) \subseteq Written'
    BY <1>7 DEF SenderInv
  <1>10. Recoverable'
    <2> SUFFICES ASSUME NEW g \in Sent', NEW s \in SegmentsOf(g), g >= next',
                        Cardinality({t \in Written' : Before(s, t)}) < MaxBuffered
                 PROVE  s \in lookbehind'
      BY DEF Recoverable, Written
    <2>1. s \in lookbehind \cup SegmentsOf(f)
      <3>1. CASE g \in Sent
        <4>1. {t \in Written : Before(s, t)} \subseteq {t \in Written' : Before(s, t)}
          BY <1>7
        <4>2. {t \in Written' : Before(s, t)} \subseteq SegmentId
          BY <1>8
        <4>3. Cardinality({t \in Written : Before(s, t)}) < MaxBuffered
          BY <4>1, <4>2, Counting, SessionAssumption
        <4> QED BY <3>1, <4>3, <1>3 DEF SenderInv, Recoverable, Written
      <3>2. CASE g = f
        BY <3>2
      <3> QED BY <3>1, <3>2, <1>5
    <2>2. PICK S : S = lookbehind \cup SegmentsOf(f)
      OBVIOUS
    <2>3. {t \in S : Before(s, t)} \subseteq {t \in Written' : Before(s, t)}
      BY <2>2, <1>9
    <2>4. {t \in Written' : Before(s, t)} \subseteq SegmentId
      BY <1>8
    <2>5. Cardinality({t \in S : Before(s, t)}) < MaxBuffered
      BY <2>3, <2>4, Counting, SessionAssumption
    <2> QED BY <1>2, <2>1, <2>2, <2>5 DEF Ringed
  <1>11. SenderInv'
    <2>1. lookbehind' \subseteq Written'
      BY <1>2, <1>9 DEF Ringed
    <2>2. resends' \in [Frame -> NoToken .. MaxResend]
      BY <1>2, SessionAssumption DEF SenderInv, NoToken
    <2> QED BY <1>4, <1>10, <2>1, <2>2 DEF SenderInv
  <1>12. NetInv'
    <2>1. PICK M : M = {Segment(s) : s \in SegmentsOf(f)}
      OBVIOUS
    <2>2. \A m \in M : \E s \in SegmentId : s[1] \in Sent' /\ m = Segment(s)
      BY <2>1, <1>5, Frames
    <2>3. net' \subseteq net \cup M
      BY <1>2, <2>1, WithSubset
    <2>4. \A m \in M : MayTravel(m)'
      BY <2>2 DEF MayTravel
    <2>5. next' \in Nat /\ next <= next'
      BY <1>3
    <2> QED BY <2>3, <2>4, <2>5, <1>3, <1>5, NetKept
  <1>13. BufferInv'
    BY <1>2, <1>4, BufferKept
  <1>14. StreamInv'
    BY <1>2, <1>3, StreamKept
  <1> QED BY <1>11, <1>12, <1>13, <1>14

\* A step that only changes messages and retry tokens.
LEMMA MessageStep ==
    ASSUME IInv, UNCHANGED <<age_sent, lookbehind, bufferVars, egress>>,
           resends' \in [Frame -> NoToken .. MaxResend],
           retries' \in [Frame -> NoToken .. MaxRequest],
           to_acknowledge' = to_acknowledge \/ to_acknowledge' = <<>>,
           NEW M, net' \subseteq net \cup M, \A m \in M : MayTravel(m)
    PROVE  IInv'
  <1> USE DEF IInv
  <1>1. /\ next' = next /\ age_sent' = age_sent /\ next \in Nat /\ Len(age_sent) \in Nat
        /\ UNCHANGED <<age_sent, lookbehind>> /\ UNCHANGED bufferVars
    BY Positions DEF bufferVars
  <1>2. next' \in Nat /\ next <= next' /\ Sent' = Sent
    BY <1>1 DEF Sent
  <1>3. SenderInv'
    BY <1>1, <1>2, SenderKept
  <1>4. NetInv'
    <2>1. \A m \in M : MayTravel(m)'
      BY <1>1, <1>2 DEF MayTravel
    <2> QED BY <2>1, <1>1, <1>2, NetKept
  <1>5. BufferInv'
    <2>1. Len(age_sent') \in Nat /\ Len(age_sent) <= Len(age_sent')
      BY <1>1
    <2> QED BY <1>1, <2>1, BufferKept
  <1>6. StreamInv'
    <2>1. CASE to_acknowledge' = to_acknowledge
      BY <1>1, <2>1 DEF StreamInv
    <2>2. CASE to_acknowledge' = <<>>
      <3>1. /\ to_acknowledge' \in Seq(Frame) /\ Len(to_acknowledge') = 0
            /\ DOMAIN to_acknowledge' = {}
        BY <2>2
      <3>2. egress' = egress
        OBVIOUS
      <3> QED BY <3>1, <3>2, SessionAssumption DEF StreamInv
    <2> QED BY <2>1, <2>2
  <1> QED BY <1>3, <1>4, <1>5, <1>6

\* Requests for what the sender does not keep any more are left unanswered.
LEMMA RetransmitSegmentsInv ==
    ASSUME IInv, NEW m, retransmit_segments(m)
    PROVE  IInv'
  <1> USE DEF IInv
  <1>1. /\ UNCHANGED <<age_sent, lookbehind, bufferVars, egress>>
        /\ to_acknowledge' = to_acknowledge /\ retries' = retries
    BY DEF retransmit_segments, streamVars
  <1>2. resends' \in [Frame -> NoToken .. MaxResend]
    BY SessionAssumption DEF retransmit_segments, SenderInv, NoToken
  <1>3. PICK M : M = {Segment(s) : s \in m.segments \cap lookbehind}
    OBVIOUS
  <1>4. net' \subseteq net \cup M
    BY <1>3, WithSubset DEF retransmit_segments
  <1>5. \A n \in M : MayTravel(n)
    <2>1. \A s \in lookbehind : s \in SegmentId /\ s[1] \in Sent
      BY Positions, Frames DEF SenderInv, Written
    <2> QED BY <2>1, <1>3 DEF MayTravel
  <1>6. retries' \in [Frame -> NoToken .. MaxRequest]
    BY <1>1 DEF StreamInv
  <1> QED BY <1>1, <1>2, <1>4, <1>5, <1>6, MessageStep

\* The sender repeats an unacknowledged frame from what it still keeps.
LEMMA RetransmitFramesInv ==
    ASSUME IInv, NEW f \in Frame, retransmit_unacknowledged_frames(f)
    PROVE  IInv'
  <1> USE DEF IInv
  <1>1. /\ UNCHANGED <<age_sent, lookbehind, bufferVars, egress>>
        /\ to_acknowledge' = to_acknowledge /\ retries' = retries
    BY DEF retransmit_unacknowledged_frames, streamVars
  <1>2. resends' \in [Frame -> NoToken .. MaxResend]
    BY SessionAssumption DEF retransmit_unacknowledged_frames, SenderInv, NoToken
  <1>3. PICK M : M = {Segment(s) : s \in SegmentsOf(f) \cap lookbehind}
    OBVIOUS
  <1>4. net' \subseteq net \cup M
    BY <1>3, WithSubset DEF retransmit_unacknowledged_frames
  <1>5. \A n \in M : MayTravel(n)
    <2>1. \A s \in lookbehind : s \in SegmentId /\ s[1] \in Sent
      BY Positions, Frames DEF SenderInv, Written
    <2> QED BY <2>1, <1>3 DEF MayTravel
  <1>6. retries' \in [Frame -> NoToken .. MaxRequest]
    BY <1>1 DEF StreamInv
  <1> QED BY <1>1, <1>2, <1>4, <1>5, <1>6, MessageStep

\* A message is lost.
LEMMA LoseInv ==
    ASSUME IInv, NEW m, Lose(m)
    PROVE  IInv'
  <1> USE DEF IInv
  <1>1. /\ UNCHANGED <<age_sent, lookbehind, bufferVars, egress>>
        /\ to_acknowledge' = to_acknowledge /\ retries' = retries /\ resends' = resends
    BY DEF Lose, senderVars, streamVars
  <1>2. /\ resends' \in [Frame -> NoToken .. MaxResend]
        /\ retries' \in [Frame -> NoToken .. MaxRequest]
    BY <1>1 DEF SenderInv, StreamInv
  <1>3. PICK M : M = {}
    OBVIOUS
  <1>4. net' \subseteq net \cup M /\ \A n \in M : MayTravel(n)
    BY <1>3 DEF Lose
  <1> QED BY <1>1, <1>2, <1>4, MessageStep

\* The receiver acknowledges frames, all of which it has passed.
LEMMA AcknowledgeSegmentsInv ==
    ASSUME IInv, acknowledge_segments
    PROVE  IInv'
  <1> USE DEF IInv
  <1>1. /\ UNCHANGED <<age_sent, lookbehind, bufferVars, egress>>
        /\ to_acknowledge' = <<>> /\ retries' = retries /\ resends' = resends
    BY DEF acknowledge_segments, senderVars
  <1>2. PICK F : F = {to_acknowledge[i] : i \in DOMAIN to_acknowledge}
    OBVIOUS
  <1>3. PICK M : M = {Acknowledge(F)}
    OBVIOUS
  <1>4. F \subseteq Frame /\ \A f \in F : f < next
    BY <1>2 DEF StreamInv
  <1>5. net' \subseteq net \cup M /\ \A m \in M : MayTravel(m)
    BY <1>2, <1>3, <1>4, WithSubset DEF acknowledge_segments, MayTravel
  <1>6. /\ resends' \in [Frame -> NoToken .. MaxResend]
        /\ retries' \in [Frame -> NoToken .. MaxRequest]
    BY <1>1 DEF SenderInv, StreamInv
  <1> QED BY <1>1, <1>3, <1>5, <1>6, MessageStep

\* The receiver asks for the missing segments of a frame.
LEMMA RequestInv ==
    ASSUME IInv, NEW f \in Frame, request_missing_segments(f)
    PROVE  IInv'
  <1> USE DEF IInv
  <1>1. /\ UNCHANGED <<age_sent, lookbehind, bufferVars, egress>>
        /\ to_acknowledge' = to_acknowledge /\ resends' = resends
    BY DEF request_missing_segments, senderVars
  <1>2. retries' \in [Frame -> NoToken .. MaxRequest]
    BY SessionAssumption DEF request_missing_segments, StreamInv, NoToken
  <1>3. PICK M : M = {Request(f, Missing(f))}
    OBVIOUS
  <1>4. Missing(f) \subseteq SegmentId
    <2>1. <<f, 0>> \in SegmentsOf(f)
      BY Frames DEF SegmentsOf
    <2> QED BY <2>1, Frames DEF Missing
  <1>5. net' \subseteq net \cup M
    BY <1>3, WithSubset DEF request_missing_segments
  <1>7. \A m \in M : MayTravel(m)
    BY <1>3, <1>4, Messages DEF MayTravel
  <1>6. resends' \in [Frame -> NoToken .. MaxResend]
    BY <1>1 DEF SenderInv
  <1> QED BY <1>1, <1>2, <1>5, <1>6, <1>7, MessageStep

\* acknowledged_frames: what the sender gives up has been passed.
LEMMA AcknowledgedInv ==
    ASSUME IInv, NEW m, acknowledged_frames(m)
    PROVE  IInv'
  <1> USE DEF IInv
  <1>1. /\ m \in net /\ m.type = "Acknowledge" /\ net' = net \ {m}
        /\ age_sent' = age_sent /\ UNCHANGED bufferVars /\ UNCHANGED streamVars
        /\ lookbehind' = {s \in lookbehind : s[1] \notin m.frames}
    BY DEF acknowledged_frames
  <1>2. /\ next' = next /\ next \in Nat /\ next <= next' /\ Sent' = Sent /\ Written' = Written
        /\ Len(age_sent) \in Nat /\ Sent \subseteq Frame /\ Len(age_sent) <= Len(age_sent')
    BY <1>1, Positions DEF bufferVars, Sent, Written
  <1>3. Recoverable'
    <2> SUFFICES ASSUME NEW f \in Sent, NEW s \in SegmentsOf(f), f >= next,
                        Cardinality({t \in UNION {SegmentsOf(g) : g \in Sent} : Before(s, t)}) < MaxBuffered
                 PROVE  s \in lookbehind'
      BY <1>2 DEF Recoverable
    <2>1. s \in lookbehind
      BY DEF SenderInv, Recoverable
    <2>2. s[1] = f
      BY <1>2, Frames
    <2>3. f \notin m.frames
      <3>1. f \in m.frames => f < next
        BY <1>1 DEF NetInv
      <3>2. f \in Nat
        BY <1>2, Frames
      <3> QED BY <3>1, <3>2, <1>2
    <2> QED BY <1>1, <2>1, <2>2, <2>3
  <1>4. SenderInv'
    <2>1. resends' \in [Frame -> NoToken .. MaxResend]
      BY SessionAssumption DEF acknowledged_frames, SenderInv, NoToken
    <2>2. lookbehind' \subseteq Written'
      BY <1>1, <1>2 DEF SenderInv
    <2> QED BY <1>1, <1>3, <2>1, <2>2 DEF SenderInv
  <1>5. NetInv'
    BY <1>1, <1>2 DEF NetInv
  <1>6. BufferInv'
    BY <1>1, <1>2, BufferKept
  <1>7. StreamInv'
    BY <1>1, <1>2, StreamKept
  <1> QED BY <1>4, <1>5, <1>6, <1>7

\* Older keeps ages in their range.
LEMMA OlderAge ==
    ASSUME NEW a \in Never .. Old
    PROVE  Older(a) \in Never .. Old /\ (a \in 0 .. Old => Older(a) \in 0 .. Old)
  BY SessionAssumption DEF Older, Never, Old

\* Time passes: only ages change.
LEMMA TickInv ==
    ASSUME IInv, Tick
    PROVE  IInv'
  <1> USE DEF IInv
  <1>1. /\ age_sent' = [f \in Sent |-> Older(age_sent[f])]
        /\ age' = [f \in Frame |-> IF HasBuilder(f) THEN Older(age[f]) ELSE 0]
        /\ last_emission' = Older(last_emission)
        /\ lookbehind' = lookbehind /\ resends' = resends /\ net' = net
        /\ sequences' = sequences /\ highest' = highest /\ next' = next
        /\ emitting' = emitting /\ UNCHANGED streamVars
    BY DEF Tick
  <1>2. next \in Nat /\ Len(age_sent) \in Nat
    BY Positions
  <1>3. age_sent' \in Seq(0 .. Old) /\ Len(age_sent') = Len(age_sent)
    <2>1. PICK n \in Nat : n = Len(age_sent)
      BY <1>2
    <2>2. \A f \in 1 .. n : Older(age_sent[f]) \in 0 .. Old
      <3>1. ASSUME NEW f \in 1 .. n PROVE Older(age_sent[f]) \in 0 .. Old
        <4>1. age_sent[f] \in 0 .. Old
          BY <2>1, ElementOfSeq DEF SenderInv
        <4>2. age_sent[f] \in Never .. Old
          BY <4>1 DEF Never
        <4> QED BY <4>1, <4>2, OlderAge
      <3> QED BY <3>1
    <2>3. age_sent' = [f \in 1 .. n |-> Older(age_sent[f])]
      BY <1>1, <2>1 DEF Sent
    <2>4. PICK A : A = 0 .. Old
      OBVIOUS
    <2>5. age_sent' \in [1 .. n -> A]
      BY <2>2, <2>3, <2>4
    <2>6. age_sent' \in Seq(A) /\ Len(age_sent') = n
      BY <2>5
    <2> QED BY <2>1, <2>4, <2>6
  <1>4. Sent' = Sent /\ Written' = Written
    BY <1>3 DEF Sent, Written
  <1>5. SenderInv'
    <2>1. Recoverable'
      BY <1>1, <1>4 DEF SenderInv, Recoverable
    <2> QED BY <1>1, <1>3, <1>4, <2>1 DEF SenderInv
  <1>6. NetInv'
    BY <1>1, <1>4 DEF NetInv
  <1>7. BufferInv'
    <2>1. last_emission' \in Never .. Old
      BY <1>1, OlderAge DEF BufferInv
    <2>2. age' \in [Frame -> 0 .. Old]
      <3>1. ASSUME NEW f \in Frame PROVE Older(age[f]) \in 0 .. Old
        <4>1. age[f] \in 0 .. Old
          BY DEF BufferInv
        <4>2. age[f] \in Never .. Old
          BY <4>1 DEF Never
        <4> QED BY <4>1, <4>2, OlderAge
      <3>2. 0 \in 0 .. Old
        BY SessionAssumption DEF Old
      <3> QED BY <3>1, <3>2, <1>1
    <2>3. is_complete(next)' <=> is_complete(next)
      BY <1>1 DEF is_complete
    <2> QED BY <1>1, <1>3, <1>4, <2>1, <2>2, <2>3 DEF BufferInv
  <1>8. StreamInv'
    BY <1>1 DEF StreamInv, streamVars
  <1> QED BY <1>5, <1>6, <1>7, <1>8

--------------------------------------------------------------------------------
(* The steps of the sequencer *)

\* push_segment: a segment that does not complete the frame the sequencer waits
\* for is stored, one that does makes the sequencer take the frame out.
LEMMA PushInv ==
    ASSUME IInv, NEW m, push_segment(m)
    PROVE  IInv'
  <1> USE DEF IInv
  <1>1. /\ m \in net /\ m.type = "Segment" /\ emitting = Nobody /\ net' = net \ {m}
        /\ age_sent' = age_sent /\ lookbehind' = lookbehind /\ resends' = resends
        /\ egress' = egress /\ to_acknowledge' = to_acknowledge
    BY DEF push_segment, senderVars
  <1>2. PICK s \in SegmentId : s[1] \in Sent /\ m = Segment(s)
    BY <1>1 DEF NetInv
  <1>3. m.segments = {s}
    BY <1>2, Messages
  <1>4. PICK f \in Frame : f = s[1] /\ s \in SegmentsOf(f) /\ f \in Sent
    BY <1>2, Frames
  <1>5. PICK S : S = sequences[f] \cup {s}
    OBVIOUS
  <1>6. PICK taken \in BOOLEAN : taken <=> S = SegmentsOf(f) /\ f = next
    OBVIOUS
  <1>7. /\ Len(age_sent) \in Nat /\ Len(age_sent) <= Len(Segments)
        /\ next \in Nat /\ next >= 1 /\ next <= Len(age_sent) + 1
        /\ Sent' = Sent /\ f \in Nat /\ f >= 1 /\ f <= Len(age_sent)
    BY <1>1, <1>4, Positions, Frames DEF Sent
  <1>8. CASE f < next
    <2>1. UNCHANGED bufferVars /\ retries' = retries
      BY <1>3, <1>4, <1>8 DEF push_segment
    <2>2. UNCHANGED <<age_sent, lookbehind, bufferVars, egress>>
      BY <1>1, <2>1
    <2>3. /\ resends' \in [Frame -> NoToken .. MaxResend]
          /\ retries' \in [Frame -> NoToken .. MaxRequest]
      BY <1>1, <2>1 DEF SenderInv, StreamInv
    <2>4. PICK M : M = {}
      OBVIOUS
    <2>5. net' \subseteq net \cup M /\ \A n \in M : MayTravel(n)
      BY <1>1, <2>4
    <2> QED BY <1>1, <2>2, <2>3, <2>5, MessageStep
  <1>9. CASE ~ (f < next)
    <2>1. /\ sequences' = [sequences EXCEPT ![f] = IF taken THEN {} ELSE S]
          /\ age' = [age EXCEPT ![f] = IF s \in sequences[f] /\ ~ taken THEN @ ELSE 0]
          /\ highest' = IF taken \/ f < highest THEN highest ELSE f
          /\ next' = IF taken THEN next + 1 ELSE next
          /\ emitting' = IF taken THEN f ELSE Nobody
          /\ retries' = [retries EXCEPT ![f] = 0]
          /\ last_emission' = last_emission
      BY <1>3, <1>4, <1>5, <1>6, <1>9 DEF push_segment, IsNext
    <2>2. next' \in Nat /\ next <= next'
      BY <1>7, <2>1
    <2>3. SenderInv'
      <3>1. resends' \in [Frame -> NoToken .. MaxResend] /\ UNCHANGED <<age_sent, lookbehind>>
        BY <1>1 DEF SenderInv
      <3> QED BY <3>1, <1>7, <2>2, SenderKept
    <2>4. NetInv'
      <3>1. PICK M : M = {}
        OBVIOUS
      <3>2. net' \subseteq net \cup M /\ \A n \in M : MayTravel(n)'
        BY <1>1, <3>1
      <3>3. Sent \subseteq Sent'
        BY <1>7
      <3> QED BY <3>2, <3>3, <1>7, <2>2, NetKept
    <2>5. StreamInv'
      <3>1. retries' \in [Frame -> NoToken .. MaxRequest]
        BY <2>1, SessionAssumption DEF StreamInv, NoToken
      <3>2. ASSUME NEW i \in DOMAIN to_acknowledge PROVE to_acknowledge[i] < next'
        <4>1. to_acknowledge[i] \in Frame /\ to_acknowledge[i] < next
          BY DEF StreamInv
        <4>2. to_acknowledge[i] \in Nat
          BY <4>1, Frames
        <4> QED BY <4>1, <4>2, <1>7, <2>2
      <3> QED BY <1>1, <3>1, <3>2 DEF StreamInv
    <2>6. BufferInv'
      <3>1. S \subseteq SegmentsOf(f) /\ S \subseteq SegmentId
        BY <1>4, <1>5, Frames DEF BufferInv
      <3>2. sequences' \in [Frame -> SUBSET SegmentId]
        BY <2>1, <3>1 DEF BufferInv
      <3>3. sequences'[f] = (IF taken THEN {} ELSE S) /\ \A g \in Frame \ {f} : sequences'[g] = sequences[g]
        BY <2>1 DEF BufferInv
      <3>4. ASSUME NEW g \in Frame PROVE sequences'[g] \subseteq SegmentsOf(g)
        BY <3>1, <3>3 DEF BufferInv
      <3>5. ASSUME NEW g \in Frame, sequences'[g] # {} PROVE g \in Sent' /\ g >= next'
        <4>1. CASE g = f
          BY <4>1, <3>3, <3>5, <1>4, <1>7, <1>9, <2>1
        <4>2. CASE g # f
          <5>1. g \in Sent /\ g >= next /\ g \in Nat
            BY <4>2, <3>3, <3>5, Frames DEF BufferInv
          <5> QED BY <5>1, <4>2, <1>6, <1>7, <2>1
        <4> QED BY <4>1, <4>2
      <3>6. age' \in [Frame -> 0 .. Old]
        <4>1. 0 \in 0 .. Old
          BY SessionAssumption DEF Old
        <4> QED BY <4>1, <2>1 DEF BufferInv
      <3>7. highest' \in 0 .. Len(Segments)
        BY <2>1, <1>7 DEF BufferInv
      <3>8. /\ next' \in 1 .. Len(age_sent') + 1
            /\ emitting' \in 0 .. Len(Segments) /\ emitting' < next'
            /\ emitting' # Nobody => next' = emitting' + 1
        BY <1>1, <1>6, <1>7, <2>1 DEF Nobody
      <3>9. emitting' = Nobody => ~ is_complete(next)'
        <4> SUFFICES ASSUME emitting' = Nobody, next \in Frame PROVE sequences'[next] # SegmentsOf(next)
          BY <2>1, <1>7, <1>6 DEF is_complete, Nobody
        <4>1. ~ taken
          BY <2>1, <1>7 DEF Nobody
        <4>2. CASE f = next
          BY <4>1, <4>2, <1>6, <3>3
        <4>3. CASE f # next
          BY <4>3, <3>3, <1>1 DEF BufferInv, is_complete
        <4> QED BY <4>2, <4>3
      <3>10. last_emission' \in Never .. Old
        BY <2>1 DEF BufferInv
      <3> QED BY <3>2, <3>4, <3>5, <3>6, <3>7, <3>8, <3>9, <3>10 DEF BufferInv
    <2> QED BY <2>3, <2>4, <2>5, <2>6
  <1> QED BY <1>8, <1>9

\* The frames f .. e - 1 that are emitted.
Emitted(f, e) == {g \in f .. e - 1 : Emits(g)}

\* They come in order, and all of them do.
LEMMA EmittedInOrder ==
    ASSUME NEW f \in Nat, f >= 1, NEW e \in Nat
    PROVE  /\ Emitted(f, e) \subseteq Frame /\ Emitted(f, e) \subseteq f .. e - 1
           /\ Ascending(Emitted(f, e)) \in Seq(Emitted(f, e))
           /\ Lists(Ascending(Emitted(f, e)), Emitted(f, e))
  <1>1. Emitted(f, e) \subseteq Frame /\ Emitted(f, e) \subseteq f .. e - 1
    BY DEF Emitted, Emits, is_complete
  <1>2. Emitted(f, e) \in SUBSET (1 .. Len(Segments))
    BY <1>1 DEF Frame
  <1> QED BY <1>1, <1>2, Frames, AscendingLists

\* PassTo, as both emit and evict use it.
LEMMA PassInv ==
    ASSUME IInv, NEW first \in Seq(Frame), NEW f \in Nat, NEW e \in Nat,
           PassTo(first, f, e), UNCHANGED <<senderVars, net, highest>>,
           next <= f, f <= e, e <= Len(age_sent) + 1,
           \A i \in DOMAIN first : first[i] < e,
           \A g \in Frame : g \in next .. f - 1 => sequences[g] = {},
           ~ is_complete(e),
           emitting' \in 0 .. Len(Segments), emitting' < e,
           ~ Parallel /\ emitting' # Nobody => e = emitting' + 1
    PROVE  IInv'
  <1> USE DEF IInv
  <1>1. PICK D : D = Ascending(Emitted(f, e))
    OBVIOUS
  <1>2. /\ age_sent' = age_sent /\ lookbehind' = lookbehind /\ resends' = resends
        /\ net' = net /\ highest' = highest /\ next' = e /\ last_emission' = 0
        /\ Sent' = Sent
    BY DEF PassTo, senderVars, Sent
  <1>3. /\ egress' = egress \o (first \o D)
        /\ to_acknowledge' = IF "AcknowledgeFrames" \in Features
                             THEN LastOf(to_acknowledge \o (first \o D), AckBuffer) ELSE <<>>
    BY <1>1, Zenon DEF PassTo, Emitted
  <1>4. /\ sequences' = [g \in Frame |-> IF g \in f .. e - 1 THEN {} ELSE sequences[g]]
        /\ age' = [g \in Frame |-> IF g \in f .. e - 1 THEN 0 ELSE age[g]]
    BY DEF PassTo
  <1>5. /\ next \in Nat /\ next >= 1 /\ next <= e /\ f >= 1 /\ Len(age_sent) \in Nat
        /\ Len(age_sent) <= Len(Segments)
    BY Positions
  <1>6. D \in Seq(Frame) /\ \A i \in DOMAIN D : D[i] < e
    <2>1. D \in Seq(Emitted(f, e)) /\ Emitted(f, e) \subseteq Frame /\ Emitted(f, e) \subseteq f .. e - 1
      BY <1>1, <1>5, EmittedInOrder
    <2>2. ASSUME NEW i \in DOMAIN D PROVE D[i] < e
      <3>1. D[i] \in f .. e - 1
        BY <2>1, ElementOfSeq, LenProperties
      <3> QED BY <3>1
    <2> QED BY <2>1, <2>2, SeqMonotonic
  <1>7. PICK d \in Seq(Frame) : d = first \o D /\ \A i \in DOMAIN d : d[i] < e
    <2>1. /\ first \o D \in Seq(Frame) /\ Len(first \o D) = Len(first) + Len(D)
          /\ \A i \in 1 .. Len(first) + Len(D) : (first \o D)[i] =
                     IF i <= Len(first) THEN first[i] ELSE D[i - Len(first)]
      BY <1>6, ConcatProperties
    <2>2. ASSUME NEW i \in DOMAIN (first \o D) PROVE (first \o D)[i] < e
      <3>1. i \in 1 .. Len(first) + Len(D) /\ Len(first) \in Nat /\ Len(D) \in Nat
        BY <2>1, <1>6, LenProperties
      <3>2. CASE i <= Len(first)
        <4>1. i \in DOMAIN first
          BY <3>1, <3>2, LenProperties
        <4> QED BY <4>1, <3>1, <3>2, <2>1
      <3>3. CASE ~ (i <= Len(first))
        <4>1. i - Len(first) \in DOMAIN D
          BY <3>1, <3>3, <1>6, LenProperties
        <4> QED BY <4>1, <3>1, <3>3, <2>1, <1>6
      <3> QED BY <3>2, <3>3
    <2> QED BY <2>1, <2>2
  <1>8. SenderInv'
    <2>1. resends' \in [Frame -> NoToken .. MaxResend] /\ UNCHANGED <<age_sent, lookbehind>>
      BY <1>2 DEF SenderInv
    <2> QED BY <2>1, <1>2, <1>5, SenderKept
  <1>9. NetInv'
    <2>1. PICK M : M = {}
      OBVIOUS
    <2>2. net' \subseteq net \cup M /\ \A n \in M : MayTravel(n)'
      BY <1>2, <2>1
    <2>3. Sent \subseteq Sent'
      BY <1>2
    <2> QED BY <2>2, <2>3, <1>2, <1>5, NetKept
  <1>10. BufferInv'
    <2>1. sequences' \in [Frame -> SUBSET SegmentId]
      BY <1>4 DEF BufferInv
    <2>2. \A g \in Frame : sequences'[g] = IF g \in f .. e - 1 THEN {} ELSE sequences[g]
      BY <1>4
    <2>3. \A g \in Frame : sequences'[g] \subseteq SegmentsOf(g)
      BY <2>2 DEF BufferInv
    <2>4. ASSUME NEW g \in Frame, sequences'[g] # {} PROVE g \in Sent' /\ g >= next'
      <3>1. g \notin f .. e - 1 /\ sequences[g] # {}
        BY <2>2, <2>4
      <3>2. g \in Sent /\ g >= next /\ g \in Nat
        BY <3>1, Frames DEF BufferInv
      <3>3. g \notin next .. f - 1
        BY <3>1
      <3> QED BY <3>1, <3>2, <3>3, <1>2, <1>5
    <2>5. age' \in [Frame -> 0 .. Old] /\ last_emission' \in Never .. Old
      <3>1. 0 \in 0 .. Old /\ 0 \in Never .. Old
        BY SessionAssumption DEF Old, Never
      <3> QED BY <3>1, <1>2, <1>4 DEF BufferInv
    <2>6. next' \in 1 .. Len(age_sent') + 1
      BY <1>2, <1>5
    <2>7. ~ is_complete(next)'
      <3> SUFFICES ASSUME e \in Frame PROVE sequences'[e] # SegmentsOf(e)
        BY <1>2 DEF is_complete
      <3>1. sequences'[e] = sequences[e]
        BY <2>2
      <3> QED BY <3>1 DEF is_complete
    <2> QED BY <1>2, <2>1, <2>3, <2>4, <2>5, <2>6, <2>7 DEF BufferInv
  <1>11. StreamInv'
    <2>1. egress' \in Seq(Frame)
      BY <1>3, <1>7, ConcatProperties DEF StreamInv
    <2>2. retries' \in [Frame -> NoToken .. MaxRequest]
      <3>1. NoToken \in NoToken .. MaxRequest
        BY SessionAssumption DEF NoToken
      <3> QED BY <3>1 DEF PassTo, StreamInv
    <2>3. CASE "AcknowledgeFrames" \notin Features
      <3>1. to_acknowledge' = <<>>
        BY <1>3, <2>3
      <3>2. /\ to_acknowledge' \in Seq(Frame) /\ Len(to_acknowledge') = 0
            /\ DOMAIN to_acknowledge' = {}
        BY <3>1
      <3> QED BY <3>2, <2>1, <2>2, SessionAssumption DEF StreamInv
    <2>4. CASE "AcknowledgeFrames" \in Features
      <3>1. PICK q : q = to_acknowledge \o d
        OBVIOUS
      <3>2. /\ q \in Seq(Frame) /\ Len(q) = Len(to_acknowledge) + Len(d)
            /\ \A i \in 1 .. Len(to_acknowledge) + Len(d) : q[i] =
                   IF i <= Len(to_acknowledge) THEN to_acknowledge[i] ELSE d[i - Len(to_acknowledge)]
        BY <3>1, <1>7, ConcatProperties DEF StreamInv
      <3>3. ASSUME NEW i \in DOMAIN q PROVE q[i] < e
        <4>1. i \in 1 .. Len(to_acknowledge) + Len(d) /\ Len(to_acknowledge) \in Nat /\ Len(d) \in Nat
          BY <3>2, <1>7, LenProperties DEF StreamInv
        <4>2. CASE i <= Len(to_acknowledge)
          <5>1. i \in 1 .. Len(to_acknowledge)
            BY <4>1, <4>2
          <5>2. to_acknowledge[i] \in Frame /\ to_acknowledge[i] < next
            BY <5>1, ElementOfSeq, LenProperties DEF StreamInv
          <5> QED BY <5>1, <5>2, <4>1, <4>2, <3>2, <1>5, Frames
        <4>3. CASE ~ (i <= Len(to_acknowledge))
          <5>1. i - Len(to_acknowledge) \in DOMAIN d
            BY <4>1, <4>3, <1>7, LenProperties
          <5> QED BY <5>1, <4>1, <4>3, <3>2, <1>7
        <4> QED BY <4>2, <4>3
      <3>4. to_acknowledge' = LastOf(q, AckBuffer)
        BY <1>3, <1>7, <2>4, <3>1
      <3>5. /\ to_acknowledge' \in Seq(Frame) /\ Len(to_acknowledge') <= AckBuffer
            /\ \A i \in DOMAIN to_acknowledge' : \E j \in DOMAIN q : to_acknowledge'[i] = q[j]
        <4>1. q \in Seq(Frame)
          BY <3>2
        <4>2. PICK n \in Nat : n = AckBuffer
          BY SessionAssumption
        <4>3. /\ LastOf(q, n) \in Seq(Frame)
              /\ Len(LastOf(q, n)) <= n
              /\ \A i \in DOMAIN LastOf(q, n) : \E j \in DOMAIN q : LastOf(q, n)[i] = q[j]
          BY <4>1, LastOfEnds
        <4> QED BY <4>2, <4>3, <3>4
      <3>6. \A i \in DOMAIN to_acknowledge' : to_acknowledge'[i] < next'
        BY <3>3, <3>5, <1>2
      <3> QED BY <3>5, <3>6, <2>1, <2>2 DEF StreamInv
    <2> QED BY <2>3, <2>4
  <1> QED BY <1>8, <1>9, <1>10, <1>11

\* Where the sequencer stops, given that it passes only frames with a builder.
LEMMA PassTarget ==
    ASSUME IInv, NEW f \in Nat, f >= 1, f <= Len(age_sent) + 1, NEW P, P \subseteq Frame,
           \A g \in P : HasBuilder(g), \A g \in Frame : is_complete(g) => g \in P,
           NEW e, e = Until(f, P)
    PROVE  /\ e \in Nat /\ f <= e /\ e <= Len(age_sent) + 1
           /\ e \notin P /\ ~ is_complete(e)
           /\ \A g \in f .. e - 1 : g \in P
  <1> USE DEF IInv
  <1>1. Len(age_sent) \in Nat /\ Len(age_sent) <= Len(Segments) /\ Len(Segments) \in Nat
    BY Positions, Frames
  <1>2. f \in 1 .. Len(Segments) + 1
    BY <1>1
  <1>3. /\ e \in f .. Len(Segments) + 1 /\ e \notin P
        /\ \A g \in f .. e - 1 : g \in P
    BY <1>2, UntilStops
  <1>4. e <= Len(age_sent) + 1
    <2>1. CASE e = f
      BY <2>1
    <2>2. CASE e # f
      <3>1. e - 1 \in f .. e - 1
        BY <2>2, <1>1, <1>3
      <3>2. e - 1 \in Frame /\ sequences[e - 1] # {}
        BY <3>1, <1>3 DEF HasBuilder
      <3>3. e - 1 \in Sent
        BY <3>2 DEF BufferInv
      <3> QED BY <3>3, <1>1, <1>3 DEF Sent
    <2> QED BY <2>1, <2>2
  <1>5. ~ is_complete(e)
    BY <1>3 DEF is_complete
  <1> QED BY <1>1, <1>3, <1>4, <1>5

\* A complete frame has a builder.
LEMMA CompleteHasBuilder ==
    ASSUME NEW f, is_complete(f)
    PROVE  f \in Frame /\ HasBuilder(f)
  BY Frames DEF is_complete, HasBuilder

\* What emit does: it emits the frame taken out and the complete ones behind it.
LEMMA EmitPasses ==
    ASSUME IInv, emit, NEW e, e = Until(next, {f \in Frame : is_complete(f)})
    PROVE  /\ emitting \in Frame /\ emitting < next /\ next \in Nat /\ emitting' = Nobody
           /\ e \in Nat /\ next <= e /\ e <= Len(age_sent) + 1
           /\ ~ is_complete(e)
           /\ PassTo(<<emitting>>, next, e)
           /\ UNCHANGED <<senderVars, net, highest>>
  <1> USE DEF IInv
  <1>1. PICK P : P = {f \in Frame : is_complete(f)}
    OBVIOUS
  <1>2. \A g \in P : HasBuilder(g)
    BY <1>1, CompleteHasBuilder
  <1>3. \A g \in Frame : is_complete(g) => g \in P
    BY <1>1
  <1>4. /\ next \in Nat /\ next >= 1 /\ next <= Len(age_sent) + 1
    BY Positions
  <1>5. P \subseteq Frame /\ e = Until(next, P)
    BY <1>1
  <1>6. e \in Nat /\ next <= e /\ e <= Len(age_sent) + 1 /\ ~ is_complete(e)
    BY <1>2, <1>3, <1>4, <1>5, PassTarget
  <1>7. emitting \in Frame /\ emitting < next
    BY Frames DEF emit, BufferInv, Frame, Nobody
  <1> QED BY <1>4, <1>6, <1>7 DEF emit

\* The frame taken out is emitted, with the complete ones behind it.
LEMMA EmitInv ==
    ASSUME IInv, emit
    PROVE  IInv'
  <1>1. PICK e : e = Until(next, {f \in Frame : is_complete(f)})
    OBVIOUS
  <1>2. /\ emitting \in Frame /\ emitting < next /\ next \in Nat /\ emitting' = Nobody
        /\ e \in Nat /\ next <= e /\ e <= Len(age_sent) + 1
        /\ ~ is_complete(e)
        /\ PassTo(<<emitting>>, next, e)
        /\ UNCHANGED <<senderVars, net, highest>>
    BY <1>1, EmitPasses
  <1>3. PICK first : first = <<emitting>>
    OBVIOUS
  <1>4. first \in Seq(Frame) /\ \A i \in DOMAIN first : first[i] < e
    <2>1. emitting < e
      BY <1>2, Frames
    <2> QED BY <1>2, <1>3, <2>1
  <1>5. \A g \in Frame : g \in next .. next - 1 => sequences[g] = {}
    BY <1>2
  <1>6. next <= next /\ next >= 1
    BY <1>2, Positions DEF IInv
  <1>7. emitting' \in 0 .. Len(Segments) /\ emitting' < e
    BY <1>2, <1>6, Frames DEF Nobody
  <1>8. PICK f : f = next
    OBVIOUS
  <1>9. /\ f \in Nat /\ next <= f /\ f <= e /\ PassTo(first, f, e)
        /\ \A g \in Frame : g \in next .. f - 1 => sequences[g] = {}
        /\ ~ Parallel /\ emitting' # Nobody => e = emitting' + 1
    BY <1>2, <1>3, <1>5, <1>6, <1>8
  <1> QED BY <1>2, <1>4, <1>7, <1>9, PassInv

\* What evict does: a frame that never showed up is skipped only when a later one
\* did, and at least one frame is passed.
LEMMA EvictPasses ==
    ASSUME IInv, evict, NEW f, f = EvictFrom, NEW e, e = Until(EvictFrom, Passable)
    PROVE  /\ next \in Nat /\ next >= 1 /\ f \in Nat /\ e \in Nat
           /\ next <= f /\ f <= e /\ next < e /\ e <= Len(age_sent) + 1
           /\ ~ is_complete(e)
           /\ \A g \in Frame : g \in next .. f - 1 => sequences[g] = {}
           /\ PassTo(<<>>, f, e)
           /\ UNCHANGED <<senderVars, net, highest, emitting>>
  <1> USE DEF IInv
  <1>1. /\ next \in Nat /\ next >= 1 /\ next <= Len(age_sent) + 1 /\ Len(age_sent) \in Nat
    BY Positions
  <1>2. PICK P : P = Passable
    OBVIOUS
  <1>3. /\ P \subseteq Frame /\ \A g \in P : HasBuilder(g)
        /\ \A g \in Frame : is_complete(g) => g \in P
    BY <1>2, CompleteHasBuilder DEF Passable
  <1>4. /\ f \in Nat /\ next <= f /\ f <= Len(age_sent) + 1
        /\ f = next \/ (f = next + 1 /\ ~ HasBuilder(next))
    <2>1. CASE Skips
      <3>1. PICK g \in Frame : HasBuilder(g)
        BY DEF evict
      <3>2. g \in Sent /\ g >= next /\ g # next
        BY <2>1, <3>1 DEF Skips, HasBuilder, BufferInv
      <3>3. f = next + 1
        BY <2>1 DEF EvictFrom
      <3> QED BY <2>1, <3>2, <3>3, <1>1 DEF Sent, Skips
    <2>2. CASE ~ Skips
      BY <2>2, <1>1 DEF EvictFrom
    <2> QED BY <2>1, <2>2
  <1>5. /\ e \in Nat /\ f <= e /\ e <= Len(age_sent) + 1 /\ e \notin P /\ ~ is_complete(e)
    <2>1. e = Until(f, P) /\ f >= 1
      BY <1>1, <1>2, <1>4
    <2> QED BY <2>1, <1>3, <1>4, PassTarget
  <1>6. next < e
    <2>1. CASE Skips
      <3>1. f = next + 1
        BY <2>1 DEF EvictFrom
      <3> QED BY <3>1, <1>1, <1>5
    <2>2. CASE ~ Skips
      <3>1. next \in P
        BY <2>2, <1>2 DEF evict
      <3> QED BY <3>1, <1>1, <1>4, <1>5
    <2> QED BY <2>1, <2>2
  <1>7. \A g \in Frame : g \in next .. f - 1 => sequences[g] = {}
    BY <1>1, <1>4, Frames DEF HasBuilder
  <1>8. PassTo(<<>>, f, e) /\ UNCHANGED <<senderVars, net, highest, emitting>>
    BY DEF evict
  <1> QED BY <1>1, <1>4, <1>5, <1>6, <1>7, <1>8

\* Eviction passes frames up to one that is neither complete nor expired.
LEMMA EvictInv ==
    ASSUME IInv, evict
    PROVE  IInv'
  <1>1. PICK f : f = EvictFrom
    OBVIOUS
  <1>2. PICK e : e = Until(EvictFrom, Passable)
    OBVIOUS
  <1>3. /\ next \in Nat /\ next >= 1 /\ f \in Nat /\ e \in Nat
        /\ next <= f /\ f <= e /\ next < e /\ e <= Len(age_sent) + 1
        /\ ~ is_complete(e)
        /\ \A g \in Frame : g \in next .. f - 1 => sequences[g] = {}
        /\ PassTo(<<>>, f, e)
        /\ UNCHANGED <<senderVars, net, highest, emitting>>
    BY <1>1, <1>2, EvictPasses
  <1>4. PICK first : first = <<>>
    OBVIOUS
  <1>5. first \in Seq(Frame) /\ \A i \in DOMAIN first : first[i] < e
    BY <1>4
  <1>6. /\ emitting' \in 0 .. Len(Segments) /\ emitting' < e
        /\ ~ Parallel /\ emitting' # Nobody => e = emitting' + 1
    <2>1. emitting' = emitting /\ emitting \in 0 .. Len(Segments) /\ emitting < next
      BY <1>3 DEF IInv, BufferInv
    <2>2. emitting' < e
      BY <2>1, <1>3, Frames
    <2>3. ~ Parallel => emitting = Nobody
      BY DEF evict, LoopRuns
    <2> QED BY <2>1, <2>2, <2>3
  <1>7. PassTo(first, f, e) /\ UNCHANGED <<senderVars, net, highest>>
    BY <1>3, <1>4
  <1> QED BY <1>3, <1>5, <1>6, <1>7, PassInv

--------------------------------------------------------------------------------
(* The theorems *)

\* Every step keeps the invariant.
LEMMA NextInv == IInv /\ [Next]_vars => IInv'
  <1> SUFFICES ASSUME IInv, [Next]_vars PROVE IInv'
    OBVIOUS
  <1>1. CASE send_frame_data
    BY <1>1, SendInv
  <1>2. ASSUME NEW f \in Frame, retransmit_unacknowledged_frames(f) PROVE IInv'
    BY <1>2, RetransmitFramesInv
  <1>3. ASSUME NEW f \in Frame, request_missing_segments(f) PROVE IInv'
    BY <1>3, RequestInv
  <1>4. ASSUME NEW m \in net, retransmit_segments(m) PROVE IInv'
    BY <1>4, RetransmitSegmentsInv
  <1>5. ASSUME NEW m \in net, acknowledged_frames(m) PROVE IInv'
    BY <1>5, AcknowledgedInv
  <1>6. ASSUME NEW m \in net, push_segment(m) PROVE IInv'
    BY <1>6, PushInv
  <1>7. ASSUME NEW m \in net, Lose(m) PROVE IInv'
    BY <1>7, LoseInv
  <1>8. CASE emit
    BY <1>8, EmitInv
  <1>9. CASE evict
    BY <1>9, EvictInv
  <1>10. CASE acknowledge_segments
    BY <1>10, AcknowledgeSegmentsInv
  <1>11. CASE Tick
    BY <1>11, TickInv
  <1>12. CASE UNCHANGED vars
    <2>1. /\ UNCHANGED <<age_sent, lookbehind, bufferVars, egress>>
          /\ to_acknowledge' = to_acknowledge /\ retries' = retries /\ resends' = resends
      BY <1>12 DEF vars, bufferVars
    <2>2. /\ resends' \in [Frame -> NoToken .. MaxResend]
          /\ retries' \in [Frame -> NoToken .. MaxRequest]
      BY <2>1 DEF IInv, SenderInv, StreamInv
    <2>3. PICK M : M = {}
      OBVIOUS
    <2>4. net' \subseteq net \cup M /\ \A n \in M : MayTravel(n)
      BY <1>12, <2>3 DEF vars
    <2> QED BY <2>1, <2>2, <2>4, MessageStep
  <1> QED BY <1>1, <1>2, <1>3, <1>4, <1>5, <1>6, <1>7, <1>8, <1>9, <1>10, <1>11, <1>12 DEF Next

\* The inductive invariant holds in every reachable state.
THEOREM Invariance == Spec => []IInv
  BY InitInv, NextInv, PTL DEF Spec

\* Every variable of a session keeps its type: in particular the sequencer never
\* runs ahead of what was sent, no retry counter exceeds its limit, and the ring
\* of frames to acknowledge stays within acknowledged_frames_buffer.
THEOREM TypeCorrect == Spec => []TypeOK
  <1>1. IInv => TypeOK
    <2> SUFFICES ASSUME IInv PROVE TypeOK
      OBVIOUS
    <2>1. lookbehind \subseteq SegmentId
      BY Positions, Frames DEF IInv, SenderInv, Written
    <2> QED BY <2>1 DEF IInv, TypeOK, SenderInv, NetInv, Message, BufferInv, StreamInv
  <1> QED BY Invariance, <1>1, PTL

\* Every segment of a frame the receiver has not passed is still held by the
\* sender unless max_buffered_segments later ones were sent, for any frames,
\* features, buffer sizes and number of threads: an acknowledgement never makes
\* the sender give up what the receiver can still ask for.
THEOREM RecoverableTheorem == Spec => []Recoverable
  <1>1. IInv => Recoverable
    BY DEF IInv, SenderInv
  <1> QED BY Invariance, <1>1, PTL

\* What PassTo appends to the emitted frames: first, which has at most one frame,
\* below f, then the complete frames of f .. e - 1 in order.
LEMMA EgressGrows ==
    ASSUME IInv, NEW first \in Seq(Frame), NEW p \in Nat, NEW f \in Nat, NEW e \in Nat,
           f >= 1, f <= e, p <= f, PassTo(first, f, e), Len(first) <= 1,
           \A i \in DOMAIN first : p <= first[i] /\ first[i] < f
    PROVE  /\ egress' \in Seq(Frame) /\ Len(egress) \in Nat
           /\ SubSeq(egress', 1, Len(egress)) = egress
           /\ \A i \in Len(egress) + 1 .. Len(egress') :
                 /\ egress'[i] \in p .. e - 1
                 /\ i > Len(egress) + 1 => egress'[i - 1] < egress'[i]
           /\ \A g \in Emitted(f, e) : \E i \in DOMAIN egress' : egress'[i] = g
  <1>1. PICK D : D = Ascending(Emitted(f, e))
    OBVIOUS
  <1>2. /\ Emitted(f, e) \subseteq Frame /\ Emitted(f, e) \subseteq f .. e - 1
        /\ D \in Seq(Emitted(f, e)) /\ Lists(D, Emitted(f, e))
    BY <1>1, EmittedInOrder
  <1>3. D \in Seq(Frame) /\ egress \in Seq(Frame)
    BY <1>2, SeqMonotonic DEF IInv, StreamInv
  <1>4. PICK k \in Nat, l \in Nat, n \in Nat : k = Len(egress) /\ l = Len(first) /\ n = Len(D)
    BY <1>3, LenProperties
  <1>5. PICK d : d = first \o D
    OBVIOUS
  <1>6. /\ d \in Seq(Frame) /\ Len(d) = l + n
        /\ \A i \in 1 .. l + n : d[i] = IF i <= l THEN first[i] ELSE D[i - l]
    BY <1>3, <1>4, <1>5, ConcatProperties
  <1>7. egress' = egress \o d
    BY <1>1, <1>5, Zenon DEF PassTo, Emitted
  <1>8. /\ egress' \in Seq(Frame) /\ Len(egress') = k + (l + n)
        /\ \A i \in 1 .. k + (l + n) : egress'[i] = IF i <= k THEN egress[i] ELSE d[i - k]
    <2>1. /\ egress \o d \in Seq(Frame) /\ Len(egress \o d) = Len(egress) + Len(d)
          /\ \A i \in 1 .. Len(egress) + Len(d) : (egress \o d)[i] =
                IF i <= Len(egress) THEN egress[i] ELSE d[i - Len(egress)]
      BY <1>3, <1>6, ConcatProperties
    <2> QED BY <2>1, <1>4, <1>6, <1>7, Zenon
  <1>9. DOMAIN D = 1 .. n /\ DOMAIN egress' = 1 .. k + (l + n) /\ DOMAIN first = 1 .. l
    BY <1>2, <1>4, <1>8, LenProperties
  <1>10. SubSeq(egress', 1, Len(egress)) = egress
    <2>1. \A i \in 1 .. k : egress'[i] = egress[i] /\ egress'[i] \in Frame
      BY <1>4, <1>8, <1>3, ElementOfSeq
    <2>2. /\ SubSeq(egress', 1, k) \in Seq(Frame)
          /\ Len(SubSeq(egress', 1, k)) = IF 1 <= k THEN k - 1 + 1 ELSE 0
          /\ \A i \in 1 .. k - 1 + 1 : SubSeq(egress', 1, k)[i] = egress'[1 + i - 1]
      BY <2>1, SubSeqProperties
    <2>3. Len(SubSeq(egress', 1, k)) = k
      BY <2>2
    <2>4. ASSUME NEW i \in 1 .. k PROVE SubSeq(egress', 1, k)[i] = egress[i]
      <3>1. i \in 1 .. k - 1 + 1 /\ 1 + i - 1 = i
        OBVIOUS
      <3> QED BY <3>1, <2>1, <2>2
    <2> QED BY <2>2, <2>3, <2>4, <1>3, <1>4, SeqEqual
  <1>11. \A i \in 1 .. n : D[i] \in f .. e - 1
    BY <1>2, <1>4, ElementOfSeq
  <1>12. \A i, j \in 1 .. n : i < j => D[i] < D[j]
    BY <1>2, <1>9 DEF Lists
  <1>13. ASSUME NEW i \in k + 1 .. k + (l + n)
         PROVE  /\ egress'[i] \in p .. e - 1
                /\ i > k + 1 => egress'[i - 1] < egress'[i]
    <2>1. egress'[i] = d[i - k] /\ i - k \in 1 .. l + n
      BY <1>8
    <2>2. CASE i - k <= l
      <3>1. egress'[i] = first[i - k] /\ i - k \in 1 .. l /\ i = k + 1
        BY <2>1, <2>2, <1>4, <1>6
      <3>2. first[i - k] \in Frame /\ p <= first[i - k] /\ first[i - k] < f
        BY <3>1, <1>4, <1>9, ElementOfSeq
      <3>3. first[i - k] \in Nat
        BY <3>2, Frames
      <3> QED BY <3>1, <3>2, <3>3
    <2>3. CASE ~ (i - k <= l)
      <3>1. egress'[i] = D[i - k - l] /\ i - k - l \in 1 .. n
        BY <2>1, <2>3, <1>6
      <3>2. egress'[i] \in f .. e - 1
        BY <3>1, <1>11
      <3>3. ASSUME i > k + 1 PROVE egress'[i - 1] < egress'[i]
        <4>1. egress'[i - 1] = d[i - 1 - k] /\ i - 1 - k \in 1 .. l + n
          BY <3>3, <1>8
        <4>2. CASE i - 1 - k <= l
          <5>1. egress'[i - 1] = first[i - 1 - k] /\ i - 1 - k \in 1 .. l
            BY <4>1, <4>2, <1>6
          <5>2. first[i - 1 - k] \in Frame /\ first[i - 1 - k] < f
            BY <5>1, <1>4, <1>9, ElementOfSeq
          <5>3. first[i - 1 - k] \in Nat
            BY <5>2, Frames
          <5> QED BY <5>1, <5>2, <5>3, <3>2
        <4>3. CASE ~ (i - 1 - k <= l)
          <5>1. egress'[i - 1] = D[i - 1 - k - l] /\ i - 1 - k - l \in 1 .. n
            BY <4>1, <4>3, <1>6
          <5>2. i - 1 - k - l < i - k - l
            OBVIOUS
          <5> QED BY <5>1, <5>2, <3>1, <1>12
        <4> QED BY <4>2, <4>3
      <3>4. egress'[i] \in p .. e - 1
        BY <3>2
      <3> QED BY <3>3, <3>4
    <2> QED BY <2>2, <2>3
  <1>14. ASSUME NEW g \in Emitted(f, e) PROVE \E i \in DOMAIN egress' : egress'[i] = g
    <2>1. PICK j \in 1 .. n : D[j] = g
      BY <1>2, <1>9 DEF Lists
    <2>2. l + j \in 1 .. l + n /\ ~ (l + j <= l) /\ l + j - l = j
      OBVIOUS
    <2>3. d[l + j] = g
      BY <2>1, <2>2, <1>6
    <2>4. k + (l + j) \in 1 .. k + (l + n) /\ ~ (k + (l + j) <= k) /\ k + (l + j) - k = l + j
      OBVIOUS
    <2>5. egress'[k + (l + j)] = g
      BY <2>3, <2>4, <1>8
    <2> QED BY <2>4, <2>5, <1>9
  <1> QED BY <1>4, <1>8, <1>10, <1>13, <1>14

\* The steps that move the sequencer are push_segment, emit and evict.
LEMMA NextKept ==
    ASSUME [Next]_vars
    PROVE  \/ /\ next' = next /\ emitting' = emitting /\ egress' = egress
              /\ age_sent' = age_sent \/ send_frame_data \/ Tick
           \/ \E m \in net : push_segment(m)
           \/ emit
           \/ evict
  <1>1. CASE send_frame_data
    BY <1>1 DEF send_frame_data, bufferVars, streamVars
  <1>2. ASSUME NEW f \in Frame, retransmit_unacknowledged_frames(f)
        PROVE  next' = next /\ emitting' = emitting /\ egress' = egress /\ age_sent' = age_sent
    BY <1>2 DEF retransmit_unacknowledged_frames, bufferVars, streamVars
  <1>3. ASSUME NEW f \in Frame, request_missing_segments(f)
        PROVE  next' = next /\ emitting' = emitting /\ egress' = egress /\ age_sent' = age_sent
    BY <1>3 DEF request_missing_segments, bufferVars, senderVars
  <1>4. ASSUME NEW m \in net, retransmit_segments(m) \/ acknowledged_frames(m) \/ Lose(m)
        PROVE  next' = next /\ emitting' = emitting /\ egress' = egress /\ age_sent' = age_sent
    BY <1>4 DEF retransmit_segments, acknowledged_frames, Lose, bufferVars, streamVars, senderVars
  <1>5. CASE acknowledge_segments
    BY <1>5 DEF acknowledge_segments, bufferVars, senderVars
  <1>6. CASE Tick
    BY <1>6 DEF Tick, streamVars
  <1>7. CASE UNCHANGED vars
    BY <1>7 DEF vars
  <1> QED BY <1>1, <1>2, <1>3, <1>4, <1>5, <1>6, <1>7 DEF Next

\* push_segment takes out the frame the sequencer waits for, or leaves it waiting.
LEMMA PushMoves ==
    ASSUME IInv, NEW m \in net, push_segment(m)
    PROVE  /\ emitting = Nobody /\ egress' = egress /\ age_sent' = age_sent
           /\ \/ next' = next /\ emitting' = Nobody
              \/ next' = next + 1 /\ emitting' = next
  <1>1. /\ emitting = Nobody /\ egress' = egress /\ age_sent' = age_sent
        /\ m.type = "Segment"
    BY DEF push_segment, senderVars
  <1>2. PICK s \in m.segments :
          IF s[1] < next THEN UNCHANGED bufferVars
          ELSE /\ next' = IF sequences[s[1]] \cup {s} = SegmentsOf(s[1]) /\ IsNext(s[1])
                          THEN next + 1 ELSE next
               /\ emitting' = IF sequences[s[1]] \cup {s} = SegmentsOf(s[1]) /\ IsNext(s[1])
                              THEN s[1] ELSE Nobody
    BY DEF push_segment
  <1>3. CASE s[1] < next
    BY <1>1, <1>2, <1>3 DEF bufferVars
  <1>4. CASE ~ (s[1] < next)
    BY <1>1, <1>2, <1>4 DEF IsNext
  <1> QED BY <1>3, <1>4

\* A frame that arrived completely is emitted when the sequencer passes it, for any
\* number of threads and however old it is: neither emit nor evict discards it.
THEOREM CompleteIsEmittedTheorem == Spec => CompleteIsEmitted
  <1>1. ASSUME IInv, [Next]_vars
        PROVE  [\A f \in Frame : is_complete(f) /\ f >= next /\ f < next' =>
                  \E i \in DOMAIN egress' : egress'[i] = f]_vars
    <2> SUFFICES ASSUME NEW g \in Frame, is_complete(g), g >= next, g < next'
                 PROVE  \E i \in DOMAIN egress' : egress'[i] = g
      OBVIOUS
    <2>0. next \in Nat /\ next >= 1 /\ g \in Nat
      BY <1>1, Positions, Frames DEF IInv
    <2>1. CASE next' = next
      BY <2>0, <2>1
    <2>2. CASE \E m \in net : push_segment(m)
      <3>1. emitting = Nobody /\ next' = next + 1
        <4>1. next' # next
          BY <2>0
        <4> QED BY <1>1, <2>2, <4>1, PushMoves
      <3>2. g = next
        BY <2>0, <3>1
      <3> QED BY <1>1, <3>1, <3>2 DEF IInv, BufferInv
    <2>3. CASE emit
      <3>1. PICK e : e = Until(next, {f \in Frame : is_complete(f)})
        OBVIOUS
      <3>2. /\ emitting \in Frame /\ emitting < next
            /\ e \in Nat /\ next <= e /\ PassTo(<<emitting>>, next, e)
        BY <1>1, <2>3, <3>1, EmitPasses
      <3>3. PICK first, f, p : first = <<emitting>> /\ f = next /\ p = emitting
        OBVIOUS
      <3>4. first \in Seq(Frame) /\ Len(first) <= 1 /\ \A i \in DOMAIN first : first[i] = emitting
        BY <3>2, <3>3
      <3>5. p \in Nat /\ f \in Nat /\ p <= f /\ f >= 1 /\ f <= e /\ PassTo(first, f, e)
        BY <3>2, <3>3, <2>0, Frames
      <3>6. \A i \in DOMAIN first : p <= first[i] /\ first[i] < f
        BY <3>2, <3>3, <3>4, <3>5
      <3>7. \A h \in Emitted(f, e) : \E i \in DOMAIN egress' : egress'[i] = h
        BY <1>1, <3>2, <3>4, <3>5, <3>6, EgressGrows
      <3>8. next' = e
        BY <3>2 DEF PassTo
      <3>9. g \in Emitted(f, e)
        BY <2>0, <3>2, <3>3, <3>8 DEF Emitted, Emits
      <3> QED BY <3>7, <3>9
    <2>4. CASE evict
      <3>1. PICK f, e : f = EvictFrom /\ e = Until(EvictFrom, Passable)
        OBVIOUS
      <3>2. /\ f \in Nat /\ e \in Nat /\ next <= f /\ f <= e
            /\ \A h \in Frame : h \in next .. f - 1 => sequences[h] = {}
            /\ PassTo(<<>>, f, e)
        BY <1>1, <2>4, <3>1, EvictPasses
      <3>3. PICK first : first = <<>>
        OBVIOUS
      <3>4. first \in Seq(Frame) /\ Len(first) <= 1 /\ DOMAIN first = {}
        BY <3>3
      <3>5. f >= 1 /\ f <= f /\ PassTo(first, f, e)
        BY <3>2, <3>3, <2>0
      <3>6. \A h \in Emitted(f, e) : \E i \in DOMAIN egress' : egress'[i] = h
        BY <1>1, <3>2, <3>4, <3>5, EgressGrows
      <3>7. next' = e
        BY <3>2 DEF PassTo
      <3>8. sequences[g] # {}
        BY CompleteHasBuilder DEF HasBuilder
      <3>9. g \in Emitted(f, e)
        BY <2>0, <3>2, <3>7, <3>8 DEF Emitted, Emits
      <3> QED BY <3>6, <3>9
    <2> QED BY <1>1, <2>1, <2>2, <2>3, <2>4, NextKept
  <1> QED BY Invariance, <1>1, PTL DEF Spec, CompleteIsEmitted

\* On one thread a session is a frame stream: the frames come out in the order in
\* which they were written, each at most once, and a frame that was passed never
\* comes later, whatever is lost, reordered, repeated or expired.
THEOREM SessionIsStream ==
    ASSUME ~ Parallel
    PROVE  Spec => ImplementsStream
  <1>1. Init => Stream!Init
    BY DEF Init, Stream!Init, Nobody
  <1>2. ASSUME IInv, [Next]_vars PROVE [Stream!Next]_(Stream!vars)
    <2>0. /\ next \in Nat /\ next >= 1 /\ emitting \in Nat /\ emitting < next
          /\ Len(age_sent) \in Nat
      BY <1>2, Positions DEF IInv, BufferInv
    <2>1. CASE next' = next /\ emitting' = emitting /\ egress' = egress /\ age_sent' = age_sent
      BY <2>1 DEF Stream!vars
    <2>2. CASE next' = next /\ emitting' = emitting /\ egress' = egress /\ send_frame_data
      <3>1. Len(age_sent') = Len(age_sent) + 1
        BY <1>2, <2>2, <2>0 DEF send_frame_data, IInv, SenderInv
      <3> QED BY <2>2, <3>1 DEF Stream!Next, Stream!Write
    <2>3. CASE next' = next /\ emitting' = emitting /\ egress' = egress /\ Tick
      <3>1. Len(age_sent') = Len(age_sent)
        <4>1. age_sent' = [f \in 1 .. Len(age_sent) |-> Older(age_sent[f])]
          BY <2>3 DEF Tick, Sent
        <4> QED BY <4>1, <2>0
      <3> QED BY <2>3, <3>1 DEF Stream!vars
    <2>4. CASE \E m \in net : push_segment(m)
      <3>1. /\ emitting = Nobody /\ egress' = egress /\ age_sent' = age_sent
            /\ \/ next' = next /\ emitting' = Nobody
               \/ next' = next + 1 /\ emitting' = next
        BY <1>2, <2>4, PushMoves
      <3> QED BY <3>1, <2>0 DEF Stream!vars, Nobody
    <2>5. CASE emit
      <3>1. PICK e : e = Until(next, {f \in Frame : is_complete(f)})
        OBVIOUS
      <3>2. /\ emitting \in Frame /\ emitting' = Nobody
            /\ e \in Nat /\ next <= e /\ e <= Len(age_sent) + 1
            /\ PassTo(<<emitting>>, next, e)
            /\ UNCHANGED <<senderVars, net, highest>>
        BY <1>2, <2>5, <3>1, EmitPasses
      <3>3. PICK first, f, p : first = <<emitting>> /\ f = next /\ p = emitting
        OBVIOUS
      <3>4. first \in Seq(Frame) /\ Len(first) <= 1 /\ \A i \in DOMAIN first : first[i] = emitting
        BY <3>2, <3>3
      <3>5. p \in Nat /\ f \in Nat /\ p <= f /\ f >= 1 /\ f <= e /\ PassTo(first, f, e)
        BY <3>2, <3>3, <2>0
      <3>6. \A i \in DOMAIN first : p <= first[i] /\ first[i] < f
        BY <3>3, <3>4, <3>5, <2>0
      <3>7. /\ SubSeq(egress', 1, Len(egress)) = egress
            /\ \A i \in Len(egress) + 1 .. Len(egress') :
                 /\ egress'[i] \in p .. e - 1
                 /\ i > Len(egress) + 1 => egress'[i - 1] < egress'[i]
        BY <1>2, <3>2, <3>4, <3>5, <3>6, EgressGrows
      <3>8. next' = e /\ age_sent' = age_sent
        BY <3>2 DEF PassTo, senderVars
      <3>9. emitting # Nobody /\ emitting < e
        BY <2>5, <3>2, <2>0 DEF emit
      <3> QED BY <3>2, <3>3, <3>7, <3>8, <3>9 DEF Stream!Next, Stream!Advance
    <2>6. CASE evict
      <3>1. PICK f, e : f = EvictFrom /\ e = Until(EvictFrom, Passable)
        OBVIOUS
      <3>2. /\ f \in Nat /\ e \in Nat /\ next <= f /\ f <= e /\ next < e /\ e <= Len(age_sent) + 1
            /\ PassTo(<<>>, f, e)
            /\ UNCHANGED <<senderVars, net, highest, emitting>>
        BY <1>2, <2>6, <3>1, EvictPasses
      <3>3. PICK first, p : first = <<>> /\ p = next
        OBVIOUS
      <3>4. first \in Seq(Frame) /\ Len(first) <= 1 /\ DOMAIN first = {}
        BY <3>3
      <3>5. f >= 1 /\ p \in Nat /\ p <= f /\ PassTo(first, f, e)
        BY <3>2, <3>3, <2>0
      <3>6. /\ SubSeq(egress', 1, Len(egress)) = egress
            /\ \A i \in Len(egress) + 1 .. Len(egress') :
                 /\ egress'[i] \in p .. e - 1
                 /\ i > Len(egress) + 1 => egress'[i - 1] < egress'[i]
        BY <1>2, <3>2, <3>4, <3>5, EgressGrows
      <3>7. next' = e /\ age_sent' = age_sent /\ emitting' = emitting
        BY <3>2 DEF PassTo, senderVars
      <3>8. emitting = Nobody
        BY <2>6 DEF evict, LoopRuns
      <3> QED BY <3>2, <3>3, <3>6, <3>7, <3>8 DEF Stream!Next, Stream!Advance
    <2> QED BY <1>2, <2>1, <2>2, <2>3, <2>4, <2>5, <2>6, NextKept
  <1> QED BY Invariance, <1>1, <1>2, PTL DEF Spec, ImplementsStream, Stream!Spec
==============================================================================
