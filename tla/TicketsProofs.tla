---------------------------- MODULE TicketsProofs ----------------------------
(***************************************************************************)
(* Proofs about Tickets: the types and the uniqueness of rows in every     *)
(* state and, as long as none of the recorded disturbances happened, that  *)
(* no ticket is paid twice and none is lost.                               *)
(***************************************************************************)
EXTENDS Tickets, FiniteSetTheorems, WellFoundedInduction, TLAPS

--------------------------------------------------------------------------------
(* The inductive invariant *)

\* A ticket pays for its own index and for the last one of its range.
Sound == {t \in Ticket : t.index \in t.pays /\ End(t) - 1 \in t.pays}

Operation == [op : {"Insert", "Replace"}, ticket : Sound]
Message == [type : {"Request", "Reply"}, batch : 1 .. MaxAggregation,
            tickets : (SUBSET Sound) \ {{}}]

QueueOK(q) ==
    /\ q \in Seq(Operation) /\ Len(q) <= QueueSize
    /\ \A k \in DOMAIN q : q[k].op = "Insert" => \E i \in Index : q[k] = Insertion(i)

RowsOK(R) ==
    /\ R \subseteq [ticket : Sound, state : State]
    /\ \A r, q \in R : r.ticket.index = q.ticket.index => r = q

NetOK(N) ==
    /\ N \subseteq Message
    /\ \A m \in N : m.type = "Reply" => \E t \in Sound : m.tickets = {t}

Types ==
    /\ pending \subseteq Index /\ dropped \subseteq Index \ pending
    /\ QueueOK(queue) /\ RowsOK(rows) /\ NetOK(net)
    /\ marking \in {"none", "redeemed", "neglected"}
    /\ selected \subseteq Sound /\ submitted \subseteq Sound
    /\ ticket_index \in 0 .. 2 * (Max(Index) + 1) /\ paid \in [Index -> Nat]
    /\ callers \in [Caller -> Failed .. MaxAggregation]
    /\ disturbed \in BOOLEAN /\ batches \in 0 .. MaxAggregation

\* What the issuer answers, if it does.
Answer(T) == IF Cardinality(T) = 1 THEN First(T) ELSE Aggregated(T)

\* Tickets that are to replace rows: those of messages and those in the queue.
Replaces == {k \in DOMAIN queue : queue[k].op = "Replace"}
Inserts == {k \in DOMAIN queue : queue[k].op = "Insert"}
Flying == {Answer(m.tickets) : m \in net} \cup {queue[k].ticket : k \in Replaces}

Held == TicketsOf(rows)

Disjoint(t, u) == t.pays \cap u.pays = {}

\* No plain ticket is in two places, except that the rows of an aggregation and
\* what is to replace them pay for the same ones.
Apart ==
    /\ \A t, u \in Held : t # u => Disjoint(t, u)
    /\ \A k, l \in DOMAIN queue : k # l => Disjoint(queue[k].ticket, queue[l].ticket)
    /\ \A m, n \in net : m # n => Disjoint(Answer(m.tickets), Answer(n.tickets))
    /\ \A m \in net, k \in DOMAIN queue : Disjoint(Answer(m.tickets), queue[k].ticket)
    /\ \A t \in Held, k \in Inserts : Disjoint(t, queue[k].ticket)
    /\ \A i \in pending : /\ \A t \in Held : i \notin t.pays
                          /\ \A k \in DOMAIN queue : i \notin queue[k].ticket.pays
                          /\ \A m \in net : i \notin Answer(m.tickets).pays

\* A row that t replaces is part of t.
Part(r, t) == r \in Aggregating /\ r.ticket.index \in t.index .. End(t) - 1

\* What replaces rows replaces exactly those it pays for, and some of them are
\* still there unless the ticket index has passed them.
Fitting ==
    \A t \in Flying :
        /\ \A r \in rows : IF Part(r, t) THEN r.ticket.pays \subseteq t.pays
                           ELSE Disjoint(r.ticket, t)
        /\ \/ End(t) <= ticket_index
           \/ \E r \in Aggregating : End(t) - 1 \in r.ticket.pays

\* What can still be redeemed is not paid.
Unpaid ==
    /\ \A i \in pending : paid[i] = 0
    /\ \A k \in Inserts : \A i \in queue[k].ticket.pays : paid[i] = 0
    /\ \A t \in Flying \cup Held :
          t.index >= ticket_index => \A i \in t.pays : paid[i] = 0

\* A ticket that is being redeemed has its row until the ticket index passes it.
Submitted ==
    \A t \in submitted : t.index >= ticket_index => Row(t, "BeingRedeemed") \in rows

\* Only tickets the ticket index has not passed are being aggregated.
Current == Unlocked => \A r \in Aggregating : r.ticket.index >= ticket_index

\* What the handler of TicketRedeemed removes has been paid or passed.
Removable ==
    marking # "none" =>
        \A r \in rows : r.ticket.index < ticket_index =>
            \/ \A i \in r.ticket.pays : i < ticket_index
            \/ /\ r.state = "BeingRedeemed"
               /\ \A i \in r.ticket.pays : paid[i] > 0

\* Every ticket is on its way to the database, in it, passed or paid.
Kept(i) == i \in InDatabase \/ i < ticket_index \/ paid[i] > 0
Waiting(i) == i \in pending \cup dropped \/ \E k \in DOMAIN queue : queue[k] = Insertion(i)
AllKept == \A i \in Index : Waiting(i) \/ Kept(i)

Once == \A i \in Index : paid[i] <= 1

Calm == Apart /\ Fitting /\ Unpaid /\ Submitted /\ Current /\ Removable /\ AllKept /\ Once

IInv == Types /\ (disturbed \/ Calm)
--------------------------------------------------------------------------------
(* Natural numbers *)

\* A nonempty set of natural numbers has a least element.
LEMMA LeastNatural ==
    ASSUME NEW T, T \subseteq Nat, T # {}
    PROVE  \E x \in T : \A y \in T : x <= y
  <1>1. \E R : IsWellFoundedOn(R, Nat) /\ \A x, y \in Nat : <<y, x>> \in R <=> y < x
    <2>1. IsWellFoundedOn(OpToRel(<, Nat), Nat)
      BY NatLessThanWellFounded
    <2>2. \A x, y \in Nat : <<y, x>> \in OpToRel(<, Nat) <=> y < x
      BY DEF OpToRel
    <2> QED BY <2>1, <2>2, Zenon
  <1>2. PICK R : IsWellFoundedOn(R, Nat) /\ \A x, y \in Nat : <<y, x>> \in R <=> y < x
    BY <1>1
  <1>3. \E x \in T : \A y \in T : ~ (<<y, x>> \in R)
    BY <1>2, WFMin
  <1>4. PICK x \in T : \A y \in T : ~ (<<y, x>> \in R)
    BY <1>3
  <1>5. ASSUME NEW y \in T PROVE x <= y
    <2>1. ~ (<<y, x>> \in R) /\ x \in Nat /\ y \in Nat
      BY <1>4
    <2>2. ~ (y < x)
      BY <2>1, <1>2, Zenon
    <2> QED BY <2>1, <2>2
  <1> QED BY <1>5

\* Induction over the natural numbers, for a set.
LEMMA SetInduction ==
    ASSUME NEW S, 0 \in S, \A n \in Nat : n \in S => n + 1 \in S
    PROVE  Nat \subseteq S
  <1> SUFFICES ASSUME Nat \ S # {} PROVE FALSE
    OBVIOUS
  <1>1. PICK x \in Nat \ S : \A y \in Nat \ S : x <= y
    BY LeastNatural
  <1>2. x # 0
    BY <1>1
  <1>3. x - 1 \in Nat /\ x - 1 \in S
    BY <1>1, <1>2
  <1> QED BY <1>1, <1>3

\* Max finds the largest number of a bounded set.
LEMMA Largest ==
    ASSUME NEW S, S \subseteq Nat, S # {}, NEW b \in Nat, \A x \in S : x <= b
    PROVE  Max(S) \in S /\ \A x \in S : x <= Max(S)
  <1> DEFINE U == {n \in Nat : \A x \in S : x <= n}
  <1>1. U \subseteq Nat /\ U # {}
    OBVIOUS
  <1>2. PICK l \in U : \A y \in U : l <= y
    <2> HIDE DEF U
    <2> QED BY <1>1, LeastNatural
  <1>3. l \in Nat /\ \A x \in S : x <= l
    OBVIOUS
  <1>4. l \in S
    <2> SUFFICES ASSUME l \notin S PROVE FALSE
      OBVIOUS
    <2>1. PICK x \in S : TRUE
      OBVIOUS
    <2>2. x \in Nat /\ x <= l /\ x # l
      BY <1>3, <2>1
    <2>3. l - 1 \in Nat
      BY <1>3, <2>2
    <2>4. ASSUME NEW y \in S PROVE y <= l - 1
      <3>1. y \in Nat /\ y <= l /\ y # l
        BY <1>3
      <3> QED BY <1>3, <3>1
    <2>5. l - 1 \in U
      BY <2>3, <2>4
    <2> QED BY <1>2, <1>3, <2>5
  <1>5. \E x \in S : \A y \in S : x >= y
    BY <1>3, <1>4
  <1>6. Max(S) \in S /\ \A y \in S : Max(S) >= y
    BY <1>5, Zenon DEF Max
  <1> QED BY <1>6

\* A finite set of natural numbers has an upper bound.
LEMMA Bounded ==
    ASSUME NEW S, S \subseteq Nat, IsFiniteSet(S)
    PROVE  \E b \in Nat : \A x \in S : x <= b
  <1> DEFINE I == {n \in Nat : \A T \in SUBSET S : Cardinality(T) = n =>
                                 \E b \in Nat : \A x \in T : x <= b}
  <1>1. 0 \in I
    <2>1. ASSUME NEW T \in SUBSET S, Cardinality(T) = 0 PROVE T = {}
      <3>1. IsFiniteSet(T)
        BY FS_Subset
      <3> QED BY <2>1, <3>1, FS_EmptySet
    <2>2. ASSUME NEW T \in SUBSET S, Cardinality(T) = 0
          PROVE  \E b \in Nat : \A x \in T : x <= b
      <3>1. T = {}
        BY <2>1, <2>2
      <3>2. \A x \in T : x <= 0
        BY <3>1
      <3> QED BY <3>2
    <2> QED BY <2>2
  <1>2. ASSUME NEW n \in Nat, n \in I PROVE n + 1 \in I
    <2> SUFFICES ASSUME NEW T \in SUBSET S, Cardinality(T) = n + 1
                 PROVE  \E b \in Nat : \A x \in T : x <= b
      OBVIOUS
    <2>1. IsFiniteSet(T)
      BY FS_Subset
    <2>2. T # {}
      BY <2>1, FS_EmptySet
    <2>3. PICK y \in T : TRUE
      BY <2>2
    <2>4. Cardinality(T \ {y}) = n /\ T \ {y} \in SUBSET S
      <3>1. Cardinality(T \ {y}) = Cardinality(T) - 1
        BY <2>1, FS_RemoveElement
      <3>2. Cardinality(T) - 1 = n
        OBVIOUS
      <3> QED BY <3>1, <3>2
    <2>5. PICK b \in Nat : \A x \in T \ {y} : x <= b
      BY <1>2, <2>4
    <2>6. PICK d \in Nat : b <= d /\ y <= d
      <3>1. y \in Nat
        OBVIOUS
      <3>2. b <= b + y /\ y <= b + y /\ b + y \in Nat
        BY <3>1
      <3> QED BY <3>2
    <2>7. ASSUME NEW x \in T PROVE x <= d
      <3>1. x \in Nat
        OBVIOUS
      <3> QED BY <2>5, <2>6, <3>1
    <2> QED BY <2>7
  <1>3. Nat \subseteq I
    <2> HIDE DEF I
    <2> QED BY <1>1, <1>2, SetInduction
  <1>4. Cardinality(S) \in Nat
    BY FS_CardinalityType
  <1> QED BY <1>3, <1>4

--------------------------------------------------------------------------------
(* Tickets *)

\* The largest index.
LEMMA LastIndex ==
    /\ Max(Index) \in Nat
    /\ \A i \in Index : i \in Nat /\ i <= Max(Index)
  <1>1. PICK b \in Nat : \A x \in Index : x <= b
    BY TicketsAssumption, Bounded
  <1>2. Max(Index) \in Index /\ \A x \in Index : x <= Max(Index)
    BY <1>1, TicketsAssumption, Largest
  <1> QED BY <1>2, TicketsAssumption

\* What is known of a ticket.
LEMMA TicketFacts ==
    ASSUME NEW t \in Sound
    PROVE  /\ t \in Ticket
           /\ t.index \in Index /\ t.index \in Nat /\ t.offset \in Nat
           /\ t.index <= Max(Index)
           /\ End(t) \in Nat /\ End(t) > t.index /\ End(t) <= 2 * (Max(Index) + 1)
           /\ t.pays \subseteq Index /\ t.index \in t.pays /\ End(t) - 1 \in t.pays
  <1>1. t \in Ticket /\ t.index \in t.pays /\ End(t) - 1 \in t.pays
    BY DEF Sound
  <1>2. /\ t.index \in Index /\ t.offset \in 1 .. Max(Index) + 1
        /\ t.pays \in (SUBSET Index) \ {{}}
    BY <1>1 DEF Ticket
  <1>3. PICK x \in Nat : x = Max(Index)
    BY LastIndex
  <1>4. t.index \in Nat /\ t.index <= x
    BY <1>2, <1>3, LastIndex
  <1>5. t.offset \in Nat /\ 1 <= t.offset /\ t.offset <= x + 1
    BY <1>2, <1>3
  <1>6. /\ End(t) \in Nat /\ End(t) > t.index /\ End(t) <= 2 * (x + 1)
    BY <1>4, <1>5 DEF End
  <1> QED BY <1>1, <1>2, <1>3, <1>4, <1>5, <1>6

\* A plain ticket.
LEMMA PlainFacts ==
    ASSUME NEW i \in Index
    PROVE  /\ Plain(i) \in Sound /\ Plain(i).index = i /\ Plain(i).pays = {i}
           /\ Insertion(i) \in Operation /\ Insertion(i).op = "Insert"
           /\ Insertion(i).ticket = Plain(i)
  <1>1. Plain(i).index = i /\ Plain(i).pays = {i} /\ Plain(i).offset = 1
    BY DEF Plain
  <1>2. i \in Nat /\ Max(Index) \in Nat
    BY LastIndex
  <1>3. Plain(i) \in Ticket
    BY <1>2 DEF Plain, Ticket
  <1>4. End(Plain(i)) - 1 = i
    BY <1>1, <1>2 DEF End
  <1>5. Plain(i) \in Sound
    BY <1>1, <1>3, <1>4 DEF Sound
  <1> QED BY <1>1, <1>5 DEF Insertion, Operation

\* There are finitely many tickets.
LEMMA TicketsFinite ==
    ASSUME NEW T \in SUBSET Sound
    PROVE  IsFiniteSet(T)
  <1>1. PICK n \in Int : n = Max(Index) + 1
    BY LastIndex
  <1>2. PICK C : C = (Index \X (1 .. n)) \X SUBSET Index
    OBVIOUS
  <1>3. IsFiniteSet(C)
    <2>1. IsFiniteSet(Index) /\ IsFiniteSet(1 .. n)
      BY FS_Interval, TicketsAssumption
    <2>2. IsFiniteSet(Index \X (1 .. n)) /\ IsFiniteSet(SUBSET Index)
      BY <2>1, FS_Product, FS_SUBSET
    <2> QED BY <1>2, <2>2, FS_Product
  <1>4. PICK f : f = [t \in Ticket |-> <<<<t.index, t.offset>>, t.pays>>]
    OBVIOUS
  <1>5. f \in [Ticket -> C]
    BY <1>1, <1>2, <1>4 DEF Ticket
  <1>6. ASSUME NEW t \in Ticket, NEW u \in Ticket, f[t] = f[u] PROVE t = u
    <2>1. t.index = u.index /\ t.offset = u.offset /\ t.pays = u.pays
      BY <1>4, <1>6
    <2> QED BY <2>1 DEF Ticket
  <1>7. f \in Injection(Ticket, C)
    BY <1>5, <1>6 DEF Injection, IsInjective
  <1>8. IsFiniteSet(Ticket)
    BY <1>3, <1>7, FS_Injection
  <1>9. T \in SUBSET Ticket
    BY DEF Sound
  <1> QED BY <1>8, <1>9, FS_Subset

\* First and Last find the tickets they are named for.
LEMMA FirstAndLast ==
    ASSUME NEW T \in SUBSET Sound, T # {}
    PROVE  /\ First(T) \in T /\ \A u \in T : First(T).index <= u.index
           /\ Last(T) \in T /\ \A u \in T : u.index <= Last(T).index
  <1> DEFINE N == {t.index : t \in T}
  <1>1. \A t \in T : t.index \in Nat /\ t.index <= Max(Index)
    BY TicketFacts
  <1>2. N \subseteq Nat /\ N # {} /\ \A n \in N : n <= Max(Index)
    BY <1>1
  <1>3. PICK n \in N : \A y \in N : n <= y
    <2> HIDE DEF N
    <2> QED BY <1>2, LeastNatural
  <1>4. \E t \in T : \A u \in T : t.index <= u.index
    BY <1>3
  <1>5. Max(N) \in N /\ \A y \in N : y <= Max(N)
    <2> HIDE DEF N
    <2> QED BY <1>2, LastIndex, Largest
  <1>6. \E t \in T : \A u \in T : t.index >= u.index
    <2>1. PICK t \in T : t.index = Max(N)
      BY <1>5
    <2>2. ASSUME NEW u \in T PROVE t.index >= u.index
      <3>1. u.index <= t.index
        BY <1>5, <2>1
      <3> QED BY <3>1, <1>1
    <2> QED BY <2>2
  <1>7. First(T) \in T /\ \A u \in T : First(T).index <= u.index
    BY <1>4, Zenon DEF First
  <1>8. Last(T) \in T /\ \A u \in T : Last(T).index >= u.index
    BY <1>6, Zenon DEF Last
  <1> QED BY <1>1, <1>7, <1>8

\* What the issuer answers is a ticket for all those it was asked to aggregate,
\* whose range holds their indices and ends with the last of them.
LEMMA AnswerFacts ==
    ASSUME NEW T \in SUBSET Sound, T # {}
    PROVE  /\ Answer(T) \in Sound
           /\ Answer(T).pays = UNION {t.pays : t \in T}
           /\ Answer(T).index = First(T).index
           /\ \A u \in T : u.index \in Answer(T).index .. End(Answer(T)) - 1
           /\ \E u \in T : End(Answer(T)) - 1 \in u.pays
  <1>1. /\ First(T) \in T /\ \A u \in T : First(T).index <= u.index
        /\ Last(T) \in T /\ \A u \in T : u.index <= Last(T).index
    BY FirstAndLast
  <1>2. \A u \in T : /\ u.index \in Index /\ u.index \in Nat /\ u.index <= Max(Index)
                     /\ u.pays \subseteq Index /\ u.index \in u.pays
                     /\ End(u) - 1 \in u.pays /\ End(u) \in Nat /\ End(u) > u.index
    BY TicketFacts
  <1>3. CASE Cardinality(T) = 1
    <2>1. PICK t : T = {t}
      BY <1>3, TicketsFinite, FS_Singleton
    <2>2. Answer(T) = t /\ First(T) = t
      BY <1>1, <1>3, <2>1 DEF Answer
    <2>3. t.index \in t.index .. End(t) - 1
      BY <1>2, <2>1
    <2> QED BY <1>2, <2>1, <2>2, <2>3
  <1>4. CASE Cardinality(T) # 1
    <2>1. PICK a, b \in Nat : a = First(T).index /\ b = Last(T).index
      BY <1>1, <1>2
    <2>2. a <= b /\ b <= Max(Index) /\ a \in Index
      BY <1>1, <1>2, <2>1
    <2>3. PICK P \in SUBSET Index : P = UNION {t.pays : t \in T}
      BY <1>2
    <2>4. a \in P /\ b \in P
      BY <1>1, <1>2, <2>1, <2>3
    <2>5. PICK c \in Nat : c = b - a + 1
      BY <2>1, <2>2
    <2>6. c \in 1 .. Max(Index) + 1
      BY <2>1, <2>2, <2>5, LastIndex
    <2>7. Answer(T) = [index |-> a, offset |-> c, pays |-> P]
      BY <1>4, <2>1, <2>3, <2>5 DEF Answer, Aggregated
    <2>8. Answer(T) \in Ticket
      BY <2>2, <2>3, <2>4, <2>6, <2>7 DEF Ticket
    <2>9. End(Answer(T)) - 1 = b
      BY <2>1, <2>5, <2>7 DEF End
    <2>10. Answer(T) \in Sound
      BY <2>4, <2>7, <2>8, <2>9 DEF Sound
    <2>11. \A u \in T : u.index \in a .. b
      BY <1>1, <1>2, <2>1
    <2>12. b \in Last(T).pays
      BY <1>1, <1>2, <2>1
    <2>13. Answer(T).pays = P /\ Answer(T).index = a
      BY <2>7
    <2>14. \A u \in T : u.index \in Answer(T).index .. End(Answer(T)) - 1
      BY <2>9, <2>11, <2>13
    <2>15. \E u \in T : End(Answer(T)) - 1 \in u.pays
      BY <1>1, <2>9, <2>12
    <2> QED BY <2>1, <2>3, <2>10, <2>13, <2>14, <2>15
  <1> QED BY <1>3, <1>4

\* A single ticket is answered by itself.
LEMMA SingleAnswer ==
    ASSUME NEW t \in Sound
    PROVE  Answer({t}) = t
  <1>1. Cardinality({t}) = 1
    BY FS_Singleton
  <1>2. First({t}) \in {t}
    BY FirstAndLast
  <1> QED BY <1>1, <1>2 DEF Answer

--------------------------------------------------------------------------------
(* Queue, rows and messages *)

\* What remains of the queue when its first operation is taken.
LEMMA TailFacts ==
    ASSUME NEW q, QueueOK(q), q # <<>>
    PROVE  /\ QueueOK(Tail(q))
           /\ 1 \in DOMAIN q /\ Head(q) = q[1] /\ q[1] \in Operation
           /\ \A k \in DOMAIN Tail(q) : k \in Nat \ {0} /\ k + 1 \in DOMAIN q /\ Tail(q)[k] = q[k + 1]
           /\ \A k \in DOMAIN q : k # 1 => k \in Nat /\ k - 1 \in DOMAIN Tail(q)
  <1>1. q \in Seq(Operation) /\ Len(q) \in Nat /\ Len(q) <= QueueSize
    BY DEF QueueOK
  <1>2. PICK n \in Nat : n = Len(q) /\ n # 0
    BY <1>1
  <1>3. /\ Tail(q) \in Seq(Operation) /\ Len(Tail(q)) = n - 1 /\ DOMAIN q = 1 .. n
        /\ DOMAIN Tail(q) = 1 .. n - 1
        /\ Head(q) = q[1] /\ \A k \in 1 .. n - 1 : Tail(q)[k] = q[k + 1]
    BY <1>1, <1>2
  <1>4. \A k \in DOMAIN Tail(q) : k \in Nat \ {0} /\ k + 1 \in DOMAIN q /\ Tail(q)[k] = q[k + 1]
    BY <1>2, <1>3
  <1>5. Len(Tail(q)) <= QueueSize
    BY <1>1, <1>2, <1>3, TicketsAssumption
  <1>6. \A k \in DOMAIN Tail(q) : Tail(q)[k].op = "Insert" =>
           \E i \in Index : Tail(q)[k] = Insertion(i)
    BY <1>4 DEF QueueOK
  <1>7. QueueOK(Tail(q))
    BY <1>3, <1>5, <1>6 DEF QueueOK
  <1>8. \A k \in DOMAIN q : k # 1 => k \in Nat /\ k - 1 \in DOMAIN Tail(q)
    BY <1>2, <1>3
  <1>9. 1 \in DOMAIN q /\ q[1] \in Operation
    BY <1>1, <1>2, <1>3
  <1> QED BY <1>3, <1>4, <1>7, <1>8, <1>9

\* The queue with one more operation.
LEMMA AppendFacts ==
    ASSUME NEW q, QueueOK(q), Len(q) < QueueSize, NEW o \in Operation,
           o.op = "Insert" => \E i \in Index : o = Insertion(i)
    PROVE  /\ QueueOK(Append(q, o))
           /\ DOMAIN q \subseteq DOMAIN Append(q, o)
           /\ \A k \in DOMAIN q : Append(q, o)[k] = q[k]
           /\ \E e : /\ e \notin DOMAIN q /\ DOMAIN Append(q, o) = DOMAIN q \cup {e}
                     /\ Append(q, o)[e] = o
  <1>1. q \in Seq(Operation) /\ Len(q) \in Nat /\ Len(q) <= QueueSize
    BY DEF QueueOK
  <1>2. PICK n \in Nat : n = Len(q)
    BY <1>1
  <1>3. /\ Append(q, o) \in Seq(Operation) /\ Len(Append(q, o)) = n + 1 /\ DOMAIN q = 1 .. n
        /\ DOMAIN Append(q, o) = 1 .. n + 1 /\ Append(q, o)[n + 1] = o
        /\ \A k \in 1 .. n : Append(q, o)[k] = q[k]
    BY <1>1, <1>2
  <1>4. Len(Append(q, o)) <= QueueSize
    BY <1>2, <1>3, TicketsAssumption
  <1>5. n + 1 \notin DOMAIN q /\ DOMAIN Append(q, o) = DOMAIN q \cup {n + 1}
    BY <1>3
  <1>6. ASSUME NEW k \in DOMAIN Append(q, o), Append(q, o)[k].op = "Insert"
        PROVE  \E i \in Index : Append(q, o)[k] = Insertion(i)
    <2>1. CASE k \in DOMAIN q
      BY <1>3, <1>6, <2>1 DEF QueueOK
    <2>2. CASE k = n + 1
      BY <1>3, <1>6, <2>2
    <2> QED BY <1>5, <2>1, <2>2
  <1>7. QueueOK(Append(q, o))
    BY <1>3, <1>4, <1>6 DEF QueueOK
  <1> QED BY <1>3, <1>5, <1>7

\* Rows whose state is changed keep their tickets.
LEMMA UpdatedFacts ==
    ASSUME RowsOK(rows), NEW R \in SUBSET rows, NEW st \in State
    PROVE  /\ RowsOK(Updated(R, st)) /\ TicketsOf(Updated(R, st)) = Held
           /\ \A q \in Updated(R, st) :
                 \E r \in rows : q = IF r \in R THEN Row(r.ticket, st) ELSE r
           /\ \A r \in rows : (IF r \in R THEN Row(r.ticket, st) ELSE r) \in Updated(R, st)
  <1>1. \A r \in rows : r.ticket \in Sound /\ r.state \in State
    BY DEF RowsOK
  <1>2. \A r \in rows : /\ Row(r.ticket, st) \in [ticket : Sound, state : State]
                        /\ Row(r.ticket, st).ticket = r.ticket /\ Row(r.ticket, st).state = st
    BY <1>1 DEF Row
  <1>3. \A q \in Updated(R, st) :
           \E r \in rows : q = (IF r \in R THEN Row(r.ticket, st) ELSE r) /\ q.ticket = r.ticket
    BY <1>2 DEF Updated
  <1>4. \A r \in rows : (IF r \in R THEN Row(r.ticket, st) ELSE r) \in Updated(R, st)
    BY DEF Updated
  <1>5. Updated(R, st) \subseteq [ticket : Sound, state : State]
    BY <1>2, <1>3 DEF RowsOK
  <1>6. ASSUME NEW p \in Updated(R, st), NEW q \in Updated(R, st), p.ticket.index = q.ticket.index
        PROVE  p = q
    <2>1. PICK r \in rows : p = (IF r \in R THEN Row(r.ticket, st) ELSE r) /\ p.ticket = r.ticket
      BY <1>3
    <2>2. PICK u \in rows : q = (IF u \in R THEN Row(u.ticket, st) ELSE u) /\ q.ticket = u.ticket
      BY <1>3
    <2>3. r = u
      BY <1>6, <2>1, <2>2 DEF RowsOK
    <2> QED BY <2>1, <2>2, <2>3
  <1>7. TicketsOf(Updated(R, st)) = Held
    <2>1. \A q \in Updated(R, st) : \E r \in rows : q.ticket = r.ticket
      BY <1>3
    <2>2. \A r \in rows : \E q \in Updated(R, st) : q.ticket = r.ticket
      BY <1>2, <1>4
    <2> QED BY <2>1, <2>2 DEF TicketsOf, Held
  <1> QED BY <1>3, <1>4, <1>5, <1>6, <1>7 DEF RowsOK

\* Fewer rows are as well formed as before.
LEMMA FewerRows ==
    ASSUME RowsOK(rows), NEW R \in SUBSET rows
    PROVE  RowsOK(R)
  BY DEF RowsOK

\* What is known of everything that holds a ticket.
LEMMA Elements ==
    ASSUME Types
    PROVE  /\ Held \subseteq Sound /\ Flying \subseteq Sound
           /\ \A r \in rows : r.ticket \in Held /\ r.ticket \in Sound /\ r.state \in State
           /\ \A t \in Held : \E r \in rows : r.ticket = t
           /\ \A k \in DOMAIN queue : queue[k] \in Operation /\ queue[k].ticket \in Sound
           /\ \A k \in DOMAIN queue : k \in Inserts \/ k \in Replaces
           /\ \A m \in net : /\ m.tickets \in SUBSET Sound /\ m.tickets # {}
                             /\ Answer(m.tickets) \in Sound /\ Answer(m.tickets) \in Flying
           /\ \A k \in Replaces : queue[k].ticket \in Flying
           /\ ticket_index \in Nat
  <1>1. \A r \in rows : r.ticket \in Sound /\ r.state \in State
    BY DEF Types, RowsOK
  <1>2. Held \subseteq Sound
    BY <1>1 DEF Held, TicketsOf
  <1>3. /\ \A r \in rows : r.ticket \in Held
        /\ \A t \in Held : \E r \in rows : r.ticket = t
    BY DEF Held, TicketsOf
  <1>4. \A k \in DOMAIN queue : queue[k] \in Operation
    BY DEF Types, QueueOK
  <1>5. \A k \in DOMAIN queue : queue[k].ticket \in Sound /\ queue[k].op \in {"Insert", "Replace"}
    BY <1>4 DEF Operation
  <1>6. \A m \in net : m.tickets \in SUBSET Sound /\ m.tickets # {}
    BY DEF Types, NetOK, Message
  <1>7. \A m \in net : Answer(m.tickets) \in Sound
    BY <1>6, AnswerFacts
  <1>8. Flying \subseteq Sound
    BY <1>5, <1>7 DEF Flying, Replaces
  <1>9. \A k \in DOMAIN queue : k \in Inserts \/ k \in Replaces
    BY <1>5 DEF Inserts, Replaces
  <1>10. /\ \A m \in net : Answer(m.tickets) \in Flying
         /\ \A k \in Replaces : queue[k].ticket \in Flying
    BY DEF Flying
  <1>11. ticket_index \in Nat
    BY LastIndex DEF Types
  <1> QED BY <1>1, <1>2, <1>3, <1>4, <1>5, <1>6, <1>7, <1>8, <1>9, <1>10, <1>11

\* The invariant holds when the node starts for the first time.
LEMMA InitInv == Init => IInv
  <1> SUFFICES ASSUME Init PROVE IInv
    OBVIOUS
  <1>1. Types
    <2>1. QueueOK(<<>>)
      BY TicketsAssumption DEF QueueOK
    <2>2. RowsOK({}) /\ NetOK({})
      BY DEF RowsOK, NetOK
    <2>3. 0 \in 0 .. 2 * (Max(Index) + 1)
      BY LastIndex
    <2>4. 0 \in Failed .. MaxAggregation /\ 0 \in 0 .. MaxAggregation
      BY TicketsAssumption DEF Failed
    <2> QED BY <2>1, <2>2, <2>3, <2>4 DEF Init, Types, Idle
  <1>2. Held = {} /\ Flying = {} /\ DOMAIN queue = {} /\ Aggregating = {}
    BY DEF Init, Held, TicketsOf, Flying, Replaces, Aggregating, InState
  <1>3. Apart /\ Fitting /\ Submitted /\ Current /\ Removable
    BY <1>2 DEF Init, Apart, Fitting, Submitted, Current, Removable, Inserts
  <1>4. Unpaid /\ AllKept /\ Once
    BY <1>2 DEF Init, Unpaid, AllKept, Once, Inserts, Waiting
  <1> QED BY <1>1, <1>3, <1>4 DEF IInv, Calm

\* Steps that leave tickets and rows alone.
LEMMA QuietCalm ==
    ASSUME Calm,
           UNCHANGED <<pending, dropped, queue, rows, net, submitted, ticket_index, paid, marking>>
    PROVE  Calm'
  <1>1. Held' = Held /\ Flying' = Flying /\ Inserts' = Inserts /\ Aggregating' = Aggregating
    BY DEF Held, TicketsOf, Flying, Inserts, Replaces, Aggregating, InState
  <1>2. Apart'
    BY <1>1 DEF Calm, Apart
  <1>3. Fitting'
    BY <1>1 DEF Calm, Fitting, Part
  <1>4. Unpaid' /\ Submitted' /\ Current' /\ Removable' /\ Once'
    BY <1>1 DEF Calm, Unpaid, Submitted, Current, Removable, Once, Unlocked
  <1>5. AllKept'
    BY DEF Calm, AllKept, Kept, Waiting, InDatabase, TicketsOf
  <1> QED BY <1>2, <1>3, <1>4, <1>5 DEF Calm

\* The ticket of an acknowledgement is queued, or dropped when the queue is full.
LEMMA AcknowledgementInv ==
    ASSUME IInv, NEW i \in Index, handle_acknowledgement(i)
    PROVE  IInv'
  <1>1. /\ i \in pending /\ pending' = pending \ {i} /\ rows' = rows /\ net' = net
        /\ UNCHANGED <<selected, submitted, ticket_index, paid, marking, callers, batches, disturbed>>
    BY DEF handle_acknowledgement, redeemVars, aggVars
  <1>2. Types
    BY DEF IInv
  <1>3. CASE dropped' = dropped \cup {i} /\ queue' = queue
    <2>1. Types'
      BY <1>1, <1>2, <1>3 DEF Types
    <2>2. ASSUME Calm PROVE Calm'
      <3>1. Held' = Held /\ Flying' = Flying /\ Inserts' = Inserts /\ Aggregating' = Aggregating
        BY <1>1, <1>3 DEF Held, TicketsOf, Flying, Inserts, Replaces, Aggregating, InState
      <3>2. Apart'
        BY <1>1, <1>3, <2>2, <3>1 DEF Calm, Apart
      <3>3. Fitting'
        BY <1>1, <1>3, <2>2, <3>1 DEF Calm, Fitting, Part
      <3>4. Unpaid' /\ Submitted' /\ Current' /\ Removable' /\ Once'
        BY <1>1, <1>3, <2>2, <3>1 DEF Calm, Unpaid, Submitted, Current, Removable, Once, Unlocked
      <3>5. \A j \in Index : (Kept(j) => Kept(j)') /\ (Waiting(j) => Waiting(j)')
        BY <1>1, <1>3 DEF Kept, Waiting, InDatabase, TicketsOf
      <3>6. AllKept'
        BY <2>2, <3>5 DEF Calm, AllKept
      <3> QED BY <3>2, <3>3, <3>4, <3>6 DEF Calm
    <2> QED BY <1>1, <2>1, <2>2 DEF IInv
  <1>4. CASE Len(queue) < QueueSize /\ queue' = Append(queue, Insertion(i)) /\ dropped' = dropped
    <2>1. /\ QueueOK(queue') /\ DOMAIN queue \subseteq DOMAIN queue'
          /\ \A k \in DOMAIN queue : queue'[k] = queue[k]
          /\ \E e : /\ e \notin DOMAIN queue /\ DOMAIN queue' = DOMAIN queue \cup {e}
                    /\ queue'[e] = Insertion(i)
      <3>1. QueueOK(queue) /\ Insertion(i) \in Operation
        BY <1>2, PlainFacts DEF Types
      <3>2. PICK o \in Operation : o = Insertion(i)
        BY <3>1
      <3> QED BY <1>4, <3>1, <3>2, AppendFacts, Zenon
    <2>2. PICK e : /\ e \notin DOMAIN queue /\ DOMAIN queue' = DOMAIN queue \cup {e}
                   /\ queue'[e] = Insertion(i)
      BY <2>1
    <2>3. Types'
      BY <1>1, <1>2, <1>4, <2>1 DEF Types
    <2>4. ASSUME Calm PROVE Calm'
      <3>1. queue'[e].op = "Insert" /\ queue'[e].ticket.pays = {i}
        BY <2>2, PlainFacts
      <3>2. Replaces' = Replaces /\ Inserts' = Inserts \cup {e}
        BY <2>1, <2>2, <3>1 DEF Replaces, Inserts
      <3>3. Held' = Held /\ Aggregating' = Aggregating
        BY <1>1 DEF Held, TicketsOf, Aggregating, InState
      <3>4. Flying' = Flying
        BY <1>1, <2>1, <3>2 DEF Flying, Replaces
      <3>5. \A k \in DOMAIN queue : Disjoint(queue'[k].ticket, queue'[e].ticket)
                                    /\ Disjoint(queue'[e].ticket, queue'[k].ticket)
        BY <1>1, <2>1, <2>4, <3>1 DEF Calm, Apart, Disjoint
      <3>6. /\ \A m \in net : Disjoint(Answer(m.tickets), queue'[e].ticket)
            /\ \A t \in Held : Disjoint(t, queue'[e].ticket)
        BY <1>1, <2>4, <3>1 DEF Calm, Apart, Disjoint
      <3>7. Apart'
        <4>1. \A k, l \in DOMAIN queue' : k # l => Disjoint(queue'[k].ticket, queue'[l].ticket)
          BY <2>1, <2>2, <2>4, <3>5 DEF Calm, Apart
        <4>2. \A m \in net', k \in DOMAIN queue' : Disjoint(Answer(m.tickets), queue'[k].ticket)
          BY <1>1, <2>1, <2>2, <2>4, <3>6 DEF Calm, Apart
        <4>3. \A t \in Held', k \in Inserts' : Disjoint(t, queue'[k].ticket)
          BY <2>1, <2>4, <3>2, <3>3, <3>6 DEF Calm, Apart, Inserts
        <4>4. ASSUME NEW j \in pending'
              PROVE  /\ \A t \in Held' : j \notin t.pays
                     /\ \A k \in DOMAIN queue' : j \notin queue'[k].ticket.pays
                     /\ \A m \in net' : j \notin Answer(m.tickets).pays
          <5>1. j \in pending /\ j # i
            BY <1>1
          <5>2. \A k \in DOMAIN queue : j \notin queue'[k].ticket.pays
            BY <2>1, <2>4, <5>1 DEF Calm, Apart
          <5> QED BY <1>1, <2>2, <2>4, <3>1, <3>3, <5>1, <5>2 DEF Calm, Apart
        <4> QED BY <1>1, <2>4, <3>3, <4>1, <4>2, <4>3, <4>4 DEF Calm, Apart
      <3>8. Fitting'
        BY <1>1, <2>4, <3>3, <3>4 DEF Calm, Fitting, Part
      <3>9. Unpaid'
        <4>1. \A k \in Inserts' : \A j \in queue'[k].ticket.pays : paid[j] = 0
          BY <1>1, <2>1, <2>4, <3>1, <3>2 DEF Calm, Unpaid, Inserts
        <4> QED BY <1>1, <2>4, <3>3, <3>4, <4>1 DEF Calm, Unpaid
      <3>10. Submitted' /\ Current' /\ Removable' /\ Once'
        BY <1>1, <2>4, <3>3 DEF Calm, Submitted, Current, Removable, Once, Unlocked
      <3>11. \A j \in Index : (Kept(j) => Kept(j)') /\ (Waiting(j) => Waiting(j)')
        <4>1. \A j \in Index : Kept(j) => Kept(j)'
          BY <1>1 DEF Kept, InDatabase, TicketsOf
        <4>2. \A j \in Index : Waiting(j) => Waiting(j)'
          BY <1>1, <1>4, <2>1, <2>2 DEF Waiting
        <4> QED BY <4>1, <4>2
      <3>12. AllKept'
        BY <2>4, <3>11 DEF Calm, AllKept
      <3> QED BY <3>7, <3>8, <3>9, <3>10, <3>12 DEF Calm
    <2> QED BY <1>1, <2>3, <2>4 DEF IInv
  <1> QED BY <1>3, <1>4 DEF handle_acknowledgement

--------------------------------------------------------------------------------
(* The task that empties the queue *)

\* A ticket is stored unless its index is taken.
LEMMA StoredFacts ==
    ASSUME RowsOK(rows), NEW R \in SUBSET rows, NEW t \in Sound
    PROVE  RowsOK(Stored(R, t))
  <1>1. CASE t.index \in {r.ticket.index : r \in R}
    BY <1>1 DEF Stored
  <1>2. CASE t.index \notin {r.ticket.index : r \in R}
    <2>1. /\ Row(t, "Untouched") \in [ticket : Sound, state : State]
          /\ Row(t, "Untouched").ticket = t
      BY DEF Row, State
    <2>2. Stored(R, t) = R \cup {Row(t, "Untouched")}
      BY <1>2 DEF Stored
    <2>3. \A r \in R : r.ticket.index # t.index
      BY <1>2
    <2> QED BY <2>1, <2>2, <2>3 DEF RowsOK
  <1> QED BY <1>1, <1>2

\* What the task makes of the rows: the ticket is stored, in the place of the rows
\* it pays for if it replaces any.
LEMMA ProcessFacts ==
    ASSUME Types, Calm, ProcessTicket, NEW t, t = queue[1].ticket
    PROVE  /\ 1 \in DOMAIN queue /\ t \in Sound /\ Row(t, "Untouched").ticket = t
           /\ Row(t, "Untouched").state = "Untouched"
           /\ \E R \in SUBSET rows :
                /\ rows' = R \cup {Row(t, "Untouched")}
                /\ \A r \in R : Disjoint(r.ticket, t)
                /\ \A r \in rows \ R : Part(r, t) /\ r.ticket.pays \subseteq t.pays
  <1>1. queue # <<>> /\ QueueOK(queue)
    BY DEF ProcessTicket, Types
  <1>2. 1 \in DOMAIN queue /\ Head(queue) = queue[1] /\ queue[1] \in Operation
    BY <1>1, TailFacts
  <1>3. t \in Sound
    BY <1>2 DEF Operation
  <1>4. ASSUME NEW R \in SUBSET rows, \A r \in R : Disjoint(r.ticket, t)
        PROVE  Stored(R, t) = R \cup {Row(t, "Untouched")}
    <2>1. \A r \in R : r.ticket.index \in r.ticket.pays
      BY Elements, TicketFacts
    <2>2. t.index \in t.pays
      BY <1>3, TicketFacts
    <2>3. \A r \in R : r.ticket.index # t.index
      BY <1>4, <2>1, <2>2 DEF Disjoint
    <2> QED BY <2>3 DEF Stored
  <1>5. CASE queue[1].op = "Insert"
    <2>1. rows' = Stored(rows, t)
      BY <1>2, <1>5 DEF ProcessTicket
    <2>2. 1 \in Inserts
      BY <1>2, <1>5 DEF Inserts
    <2>3. \A r \in rows : Disjoint(r.ticket, t)
      BY <2>2, Elements DEF Calm, Apart
    <2>4. rows' = rows \cup {Row(t, "Untouched")}
      BY <1>4, <2>1, <2>3
    <2> QED BY <1>2, <1>3, <2>3, <2>4 DEF Row
  <1>6. CASE queue[1].op = "Replace"
    <2>1. rows' = Stored(rows \ Replaced(t), t)
      BY <1>2, <1>6 DEF ProcessTicket
    <2>2. 1 \in Replaces
      BY <1>2, <1>6 DEF Replaces
    <2>3. t \in Flying
      BY <2>2, Elements
    <2>4. \A r \in rows : r \in Replaced(t) <=> Part(r, t)
      BY DEF Replaced, Part
    <2>5. \A r \in rows \ Replaced(t) : Disjoint(r.ticket, t)
      BY <2>3, <2>4 DEF Calm, Fitting
    <2>6. \A r \in Replaced(t) : r \in rows
      BY DEF Replaced, Aggregating, InState
    <2>7. \A r \in rows \ (rows \ Replaced(t)) : Part(r, t) /\ r.ticket.pays \subseteq t.pays
      BY <2>3, <2>4 DEF Calm, Fitting
    <2>8. rows' = (rows \ Replaced(t)) \cup {Row(t, "Untouched")}
      BY <1>4, <2>1, <2>5
    <2> QED BY <1>2, <1>3, <2>5, <2>7, <2>8 DEF Row
  <1> QED BY <1>2, <1>5, <1>6 DEF Operation

\* The task takes the first operation of the queue.
LEMMA ProcessInv ==
    ASSUME IInv, ProcessTicket
    PROVE  IInv'
  <1>1. /\ queue' = Tail(queue) /\ queue # <<>> /\ marking = "none"
        /\ UNCHANGED <<pending, dropped, selected, submitted, ticket_index, paid, marking,
                       callers, net, batches, disturbed>>
    BY DEF ProcessTicket, Unlocked, pipeVars, redeemVars, aggVars
  <1>2. Types
    BY DEF IInv
  <1>3. /\ QueueOK(queue')
        /\ 1 \in DOMAIN queue /\ Head(queue) = queue[1] /\ queue[1] \in Operation
        /\ \A k \in DOMAIN queue' : k \in Nat \ {0} /\ k + 1 \in DOMAIN queue /\ queue'[k] = queue[k + 1]
        /\ \A k \in DOMAIN queue : k # 1 => k \in Nat /\ k - 1 \in DOMAIN queue'
    <2>1. QueueOK(queue)
      BY <1>2 DEF Types
    <2> QED BY <1>1, <2>1, TailFacts
  <1>4. Types'
    <2>1. RowsOK(rows')
      <3>1. PICK t \in Sound : t = Head(queue).ticket
        BY <1>3 DEF Operation
      <3>2. PICK R \in SUBSET rows : rows' = Stored(R, t)
        <4>1. CASE Head(queue).op = "Insert"
          BY <3>1, <4>1 DEF ProcessTicket
        <4>2. CASE Head(queue).op # "Insert"
          BY <3>1, <4>2 DEF ProcessTicket
        <4> QED BY <4>1, <4>2
      <3> QED BY <1>2, <3>2, StoredFacts DEF Types
    <2> QED BY <1>1, <1>2, <1>3, <2>1 DEF Types
  <1>5. ASSUME Calm PROVE Calm'
    <2>1. PICK t : t = queue[1].ticket
      OBVIOUS
    <2>2. /\ t \in Sound /\ Row(t, "Untouched").ticket = t
          /\ Row(t, "Untouched").state = "Untouched"
      BY <1>2, <1>5, <2>1, ProcessFacts
    <2>3. PICK R \in SUBSET rows :
                /\ rows' = R \cup {Row(t, "Untouched")}
                /\ \A r \in R : Disjoint(r.ticket, t)
                /\ \A r \in rows \ R : Part(r, t) /\ r.ticket.pays \subseteq t.pays
      BY <1>2, <1>5, <2>1, ProcessFacts
    <2>4. \A u \in Held' : u = t \/ (u \in Held /\ Disjoint(u, t))
      BY <2>2, <2>3 DEF Held, TicketsOf
    <2>5. t \in Held' /\ \A r \in R : r.ticket \in Held'
      BY <2>2, <2>3 DEF Held, TicketsOf
    <2>6. \A r \in rows' : r \in Aggregating' <=> (r \in R /\ r \in Aggregating)
      BY <2>2, <2>3 DEF Aggregating, InState
    <2>7. \A k \in DOMAIN queue' : /\ k + 1 \in DOMAIN queue /\ k + 1 # 1
                                   /\ queue'[k] = queue[k + 1]
                                   /\ Disjoint(t, queue'[k].ticket)
                                   /\ Disjoint(queue'[k].ticket, t)
      <3>1. \A k \in DOMAIN queue' : k + 1 \in DOMAIN queue /\ k + 1 # 1 /\ queue'[k] = queue[k + 1]
        BY <1>3
      <3> QED BY <1>3, <1>5, <2>1, <3>1 DEF Calm, Apart
    <2>8. /\ \A k \in Inserts' : k + 1 \in Inserts
          /\ \A k \in Replaces' : k + 1 \in Replaces
      BY <2>7 DEF Inserts, Replaces
    <2>9. \A u \in Flying' : u \in Flying /\ Disjoint(u, t) /\ Disjoint(t, u)
      <3>1. ASSUME NEW m \in net
            PROVE  /\ Answer(m.tickets) \in Flying
                   /\ Disjoint(Answer(m.tickets), t) /\ Disjoint(t, Answer(m.tickets))
        <4>1. Answer(m.tickets) \in Flying
          BY <1>2, Elements
        <4>2. Disjoint(Answer(m.tickets), t)
          BY <1>3, <1>5, <2>1 DEF Calm, Apart
        <4> QED BY <4>1, <4>2 DEF Disjoint
      <3>2. \A k \in Replaces' : queue'[k].ticket \in Flying
        BY <2>7, <2>8 DEF Flying, Replaces
      <3> QED BY <1>1, <2>7, <3>1, <3>2 DEF Flying, Replaces
    <2>10. Apart'
      <3>1. \A u, v \in Held' : u # v => Disjoint(u, v)
        <4>1. \A u, v \in Held : u # v => Disjoint(u, v)
          BY <1>5 DEF Calm, Apart
        <4> QED BY <2>4, <4>1 DEF Disjoint
      <3>2. \A k, l \in DOMAIN queue' : k # l => Disjoint(queue'[k].ticket, queue'[l].ticket)
        <4>1. \A k, l \in DOMAIN queue' : k # l => k + 1 # l + 1
          BY <1>3
        <4> QED BY <1>5, <2>7, <4>1 DEF Calm, Apart
      <3>3. \A m \in net', k \in DOMAIN queue' : Disjoint(Answer(m.tickets), queue'[k].ticket)
        BY <1>1, <1>5, <2>7 DEF Calm, Apart
      <3>4. \A u \in Held', k \in Inserts' : Disjoint(u, queue'[k].ticket)
        <4>1. \A k \in Inserts' : k \in DOMAIN queue'
          BY DEF Inserts
        <4> QED BY <1>5, <2>4, <2>7, <2>8, <4>1 DEF Calm, Apart
      <3>5. \A j \in pending' : /\ \A u \in Held' : j \notin u.pays
                                /\ \A k \in DOMAIN queue' : j \notin queue'[k].ticket.pays
                                /\ \A m \in net' : j \notin Answer(m.tickets).pays
        BY <1>1, <1>3, <1>5, <2>1, <2>4, <2>7 DEF Calm, Apart
      <3>6. \A m, n \in net' : m # n => Disjoint(Answer(m.tickets), Answer(n.tickets))
        BY <1>1, <1>5 DEF Calm, Apart
      <3> QED BY <3>1, <3>2, <3>3, <3>4, <3>5, <3>6 DEF Apart
    <2>11. Fitting'
      <3> SUFFICES ASSUME NEW u \in Flying'
                   PROVE  /\ \A r \in rows' : IF Part(r, u)' THEN r.ticket.pays \subseteq u.pays
                                              ELSE Disjoint(r.ticket, u)
                          /\ \/ End(u) <= ticket_index'
                             \/ \E r \in Aggregating' : End(u) - 1 \in r.ticket.pays
        BY DEF Fitting
      <3>1. /\ \A r \in rows : IF Part(r, u) THEN r.ticket.pays \subseteq u.pays
                               ELSE Disjoint(r.ticket, u)
            /\ \/ End(u) <= ticket_index
               \/ \E r \in Aggregating : End(u) - 1 \in r.ticket.pays
        BY <1>5, <2>9 DEF Calm, Fitting
      <3>2. ASSUME NEW r \in rows'
            PROVE  IF Part(r, u)' THEN r.ticket.pays \subseteq u.pays ELSE Disjoint(r.ticket, u)
        <4>1. CASE r \in R
          <5>1. Part(r, u)' <=> Part(r, u)
            BY <2>6, <4>1 DEF Part
          <5> QED BY <3>1, <4>1, <5>1
        <4>2. CASE r = Row(t, "Untouched")
          <5>1. ~ Part(r, u)'
            BY <2>2, <4>2 DEF Part, Aggregating, InState
          <5> QED BY <2>2, <2>9, <4>2, <5>1
        <4> QED BY <2>3, <4>1, <4>2
      <3>3. ASSUME NEW r \in Aggregating, End(u) - 1 \in r.ticket.pays
            PROVE  r \in Aggregating'
        <4>1. r \in rows
          BY DEF Aggregating, InState
        <4>2. End(u) - 1 \in u.pays
          BY <1>2, <2>9, Elements, TicketFacts
        <4>3. r \in R
          BY <2>3, <2>9, <3>3, <4>1, <4>2 DEF Disjoint
        <4> QED BY <2>3, <2>6, <4>3
      <3> QED BY <1>1, <3>1, <3>2, <3>3
    <2>12. Unpaid'
      <3>1. \A k \in Inserts' : \A j \in queue'[k].ticket.pays : paid[j] = 0
        <4>1. \A k \in Inserts' : k \in DOMAIN queue'
          BY DEF Inserts
        <4> QED BY <1>5, <2>7, <2>8, <4>1 DEF Calm, Unpaid
      <3>2. t.index >= ticket_index => \A j \in t.pays : paid[j] = 0
        <4>1. CASE 1 \in Inserts
          BY <1>5, <2>1, <4>1 DEF Calm, Unpaid
        <4>2. CASE 1 \in Replaces
          BY <1>2, <1>5, <2>1, <4>2, Elements DEF Calm, Unpaid
        <4> QED BY <1>2, <1>3, <4>1, <4>2, Elements
      <3> QED BY <1>1, <1>5, <2>4, <2>9, <3>1, <3>2 DEF Calm, Unpaid
    <2>13. Submitted'
      <3>1. ASSUME NEW u, Row(u, "BeingRedeemed") \in rows PROVE Row(u, "BeingRedeemed") \in rows'
        <4>1. Row(u, "BeingRedeemed") \notin Aggregating
          BY DEF Row, Aggregating, InState
        <4> QED BY <2>3, <3>1, <4>1 DEF Part
      <3> QED BY <1>1, <1>5, <3>1 DEF Calm, Submitted
    <2>14. Current'
      <3>1. \A r \in Aggregating' : r \in Aggregating
        BY <2>6 DEF Aggregating, InState
      <3> QED BY <1>1, <1>5, <3>1 DEF Calm, Current, Unlocked
    <2>15. Removable'
      BY <1>1 DEF Removable
    <2>16. AllKept'
      <3> SUFFICES ASSUME NEW j \in Index PROVE Waiting(j)' \/ Kept(j)'
        BY DEF AllKept
      <3>1. \A u \in Held' : j \in u.pays => Kept(j)'
        BY DEF Kept, InDatabase, Held
      <3>2. CASE Kept(j)
        <4>1. CASE j \in InDatabase
          <5>1. PICK r \in rows : j \in r.ticket.pays
            BY <4>1 DEF InDatabase, TicketsOf
          <5>2. CASE r \in R
            BY <2>5, <3>1, <5>1, <5>2
          <5>3. CASE r \notin R
            BY <2>3, <2>5, <3>1, <5>1, <5>3
          <5> QED BY <5>2, <5>3
        <4> QED BY <1>1, <3>2, <4>1 DEF Kept
      <3>3. CASE j \in pending \cup dropped
        BY <1>1, <3>3 DEF Waiting
      <3>4. ASSUME NEW k \in DOMAIN queue, queue[k] = Insertion(j) PROVE Waiting(j)' \/ Kept(j)'
        <4>1. CASE k = 1
          <5>1. j \in t.pays
            BY <2>1, <3>4, <4>1, PlainFacts
          <5> QED BY <2>5, <3>1, <5>1
        <4>2. CASE k # 1
          <5>1. k \in Nat /\ k - 1 \in DOMAIN queue'
            BY <1>3, <4>2
          <5>2. queue'[k - 1] = queue[k]
            <6>1. queue'[k - 1] = queue[(k - 1) + 1]
              BY <1>3, <5>1
            <6>2. (k - 1) + 1 = k
              BY <5>1
            <6> QED BY <6>1, <6>2
          <5> QED BY <3>4, <5>1, <5>2 DEF Waiting
        <4> QED BY <4>1, <4>2
      <3> QED BY <1>5, <3>2, <3>3, <3>4 DEF Calm, AllKept, Waiting
    <2>17. Once'
      BY <1>1, <1>5 DEF Calm, Once
    <2> QED BY <2>10, <2>11, <2>12, <2>13, <2>14, <2>15, <2>16, <2>17 DEF Calm
  <1> QED BY <1>1, <1>4, <1>5 DEF IInv

--------------------------------------------------------------------------------
(* Aggregation *)

\* Steps that keep the tickets of the rows and of the queue lose nothing.
LEMMA SameTickets ==
    ASSUME Calm, Held' = Held, UNCHANGED <<pending, dropped, queue, ticket_index, paid>>
    PROVE  AllKept' /\ Once'
  <1>1. InDatabase' = InDatabase
    BY DEF InDatabase, Held
  <1>2. \A j \in Index : (Kept(j) => Kept(j)') /\ (Waiting(j) => Waiting(j)')
    BY <1>1 DEF Kept, Waiting
  <1> QED BY <1>2 DEF Calm, AllKept, Once

\* The tickets of a batch are in the database, the ticket index has not passed
\* them, and none of those being redeemed is among them.
LEMMA TakenFacts ==
    ASSUME Types
    PROVE  /\ ToAggregate \in SUBSET Held
           /\ \A t \in ToAggregate :
                 /\ t.index >= ticket_index
                 /\ \A r \in rows : r.state = "BeingRedeemed" => r.ticket.index # t.index
  <1> DEFINE S == {ticket_index} \cup {r.ticket.index + 1 : r \in InState("BeingRedeemed")}
  <1>1. PICK b \in Nat : b = 2 * (Max(Index) + 1)
    BY LastIndex
  <1>2. \A r \in rows : /\ r.ticket.index \in Nat /\ r.ticket.index + 1 \in Nat
                        /\ r.ticket.index + 1 <= b
    <2>1. \A r \in rows : r.ticket.index \in Nat /\ r.ticket.index <= Max(Index)
      BY Elements, TicketFacts
    <2> QED BY <1>1, <2>1, LastIndex
  <1>3. ticket_index \in Nat /\ ticket_index <= b
    BY <1>1 DEF Types
  <1>4. S \subseteq Nat /\ S # {} /\ \A x \in S : x <= b
    BY <1>2, <1>3 DEF InState
  <1>5. Max(S) \in S /\ \A x \in S : x <= Max(S)
    <2> HIDE DEF S
    <2> QED BY <1>4, Largest
  <1>6. PICK f \in Nat : /\ f = FirstToTake /\ ticket_index <= f
                         /\ \A r \in InState("BeingRedeemed") : r.ticket.index + 1 <= f
    BY <1>4, <1>5 DEF FirstToTake
  <1>7. \A t \in ToAggregate : t \in Held /\ t.index >= f
    BY <1>6 DEF ToAggregate, Distinct, Affordable, Held
  <1>8. ASSUME NEW t \in ToAggregate
        PROVE  /\ t.index >= ticket_index
               /\ \A r \in rows : r.state = "BeingRedeemed" => r.ticket.index # t.index
    <2>1. t.index \in Nat /\ t.index >= f
      BY <1>7, Elements, TicketFacts
    <2>2. ASSUME NEW r \in rows, r.state = "BeingRedeemed" PROVE r.ticket.index # t.index
      <3>1. r \in InState("BeingRedeemed")
        BY <2>2 DEF InState
      <3>2. r.ticket.index + 1 <= f /\ r.ticket.index \in Nat
        BY <1>2, <1>6, <3>1
      <3> QED BY <2>1, <3>2
    <2> QED BY <1>3, <1>6, <2>1, <2>2
  <1> QED BY <1>7, <1>8

\* A batch is marked and requested.
LEMMA PrepareInv ==
    ASSUME IInv, NEW c \in Caller, prepare_aggregation_in_channel(c)
    PROVE  IInv'
  <1>1. /\ marking = "none" /\ Aggregating = {} /\ ToAggregate # {} /\ batches < MaxAggregation
        /\ batches' = batches + 1 /\ callers' = [callers EXCEPT ![c] = batches + 1]
        /\ UNCHANGED <<pending, dropped, queue, selected, submitted, ticket_index, paid, marking,
                       disturbed>>
    BY DEF prepare_aggregation_in_channel, Unlocked, pipeVars, redeemVars
  <1>2. Types
    BY DEF IInv
  <1>3. PICK T \in SUBSET Held : T = ToAggregate
    BY <1>2, TakenFacts
  <1>4. T \in SUBSET Sound /\ T # {}
    BY <1>1, <1>2, <1>3, Elements
  <1>5. PICK R \in SUBSET rows : R = {r \in rows : r.ticket \in T}
    OBVIOUS
  <1>6. rows' = Updated(R, "BeingAggregated")
    BY <1>3, <1>5 DEF prepare_aggregation_in_channel
  <1>7. PICK n : n = [type |-> "Request", batch |-> batches + 1, tickets |-> T]
    OBVIOUS
  <1>8. net' = net \cup {n} /\ n.tickets = T /\ n.type = "Request"
    BY <1>3, <1>7 DEF prepare_aggregation_in_channel
  <1>9. /\ RowsOK(rows') /\ Held' = Held
        /\ \A q \in rows' : \E r \in rows : q = IF r \in R THEN Row(r.ticket, "BeingAggregated") ELSE r
        /\ \A r \in rows : (IF r \in R THEN Row(r.ticket, "BeingAggregated") ELSE r) \in rows'
    <2>1. RowsOK(rows) /\ "BeingAggregated" \in State
      BY <1>2 DEF Types, State
    <2>2. TicketsOf(rows') = Held' 
      BY DEF Held, TicketsOf
    <2> QED BY <1>6, <2>1, <2>2, UpdatedFacts
  <1>10. Types'
    <2>1. batches + 1 \in 1 .. MaxAggregation
      BY <1>1, <1>2, TicketsAssumption DEF Types
    <2>2. n \in Message
      BY <1>4, <1>7, <2>1 DEF Message
    <2>3. NetOK(net')
      BY <1>2, <1>8, <2>2 DEF Types, NetOK
    <2>4. batches + 1 \in Failed .. MaxAggregation /\ batches + 1 \in 0 .. MaxAggregation
      BY <2>1, TicketsAssumption DEF Failed
    <2>5. callers' \in [Caller -> Failed .. MaxAggregation] /\ batches' \in 0 .. MaxAggregation
      BY <1>1, <1>2, <2>4 DEF Types
    <2> QED BY <1>1, <1>2, <1>9, <2>3, <2>5 DEF Types
  <1>11. ASSUME Calm PROVE Calm'
    <2>1. PICK A \in Sound :
             /\ A = Answer(T) /\ A.pays = UNION {t.pays : t \in T}
             /\ \A u \in T : u.index \in A.index .. End(A) - 1
             /\ \E u \in T : End(A) - 1 \in u.pays
      BY <1>4, AnswerFacts
    <2>2. A.index = First(T).index /\ First(T) \in T
      BY <1>4, <2>1, AnswerFacts, FirstAndLast
    <2>3. \A q \in rows' : q.ticket \in Held /\ (q \in Aggregating' <=> q.ticket \in T)
      <3> SUFFICES ASSUME NEW q \in rows'
                   PROVE  q.ticket \in Held /\ (q.state = "BeingAggregated" <=> q.ticket \in T)
        BY DEF Aggregating, InState
      <3>1. PICK r \in rows : q = IF r \in R THEN Row(r.ticket, "BeingAggregated") ELSE r
        BY <1>9
      <3>2. r.state # "BeingAggregated"
        BY <1>1 DEF Aggregating, InState
      <3>3. CASE r \in R
        BY <1>5, <3>1, <3>3 DEF Row, Held, TicketsOf
      <3>4. CASE r \notin R
        BY <1>5, <3>1, <3>2, <3>4 DEF Held, TicketsOf
      <3> QED BY <3>3, <3>4
    <2>4. Flying' = Flying \cup {A}
      BY <1>1, <1>8, <2>1 DEF Flying, Replaces
    <2>5. ASSUME NEW u \in Flying
          PROVE  End(u) <= ticket_index /\ \A t \in Held : Disjoint(t, u)
      <3>1. \A r \in rows : ~ Part(r, u)
        BY <1>1 DEF Part
      <3>2. \A r \in rows : Disjoint(r.ticket, u)
        BY <1>11, <3>1 DEF Calm, Fitting
      <3>3. End(u) <= ticket_index
        BY <1>1, <1>11 DEF Calm, Fitting
      <3> QED BY <3>2, <3>3 DEF Held, TicketsOf
    <2>6. ASSUME NEW u, \A t \in T : Disjoint(t, u) PROVE Disjoint(A, u) /\ Disjoint(u, A)
      BY <2>1, <2>6 DEF Disjoint
    <2>7. \A u \in Flying : Disjoint(A, u) /\ Disjoint(u, A)
      BY <1>3, <2>5, <2>6
    <2>8. \A k \in DOMAIN queue : Disjoint(A, queue[k].ticket)
      <3>1. \A k \in Inserts : \A t \in T : Disjoint(t, queue[k].ticket)
        BY <1>3, <1>11 DEF Calm, Apart
      <3>2. \A k \in Inserts : Disjoint(A, queue[k].ticket)
        BY <2>6, <3>1
      <3> QED BY <1>2, <2>7, <3>2, Elements
    <2>9. \A t \in T : t.index >= ticket_index
      BY <1>2, <1>3, TakenFacts
    <2>10. Apart'
      <3>1. \A x, y \in net' : x # y => Disjoint(Answer(x.tickets), Answer(y.tickets))
        <4>1. \A x \in net : Answer(x.tickets) \in Flying
          BY <1>2, Elements
        <4>2. \A x, y \in net : x # y => Disjoint(Answer(x.tickets), Answer(y.tickets))
          BY <1>11 DEF Calm, Apart
        <4>3. Answer(n.tickets) = A
          BY <1>8, <2>1
        <4> QED BY <1>8, <2>7, <4>1, <4>2, <4>3
      <3>2. \A x \in net', k \in DOMAIN queue' : Disjoint(Answer(x.tickets), queue'[k].ticket)
        BY <1>1, <1>8, <1>11, <2>1, <2>8 DEF Calm, Apart
      <3>3. \A j \in pending : j \notin A.pays
        BY <1>3, <1>11, <2>1 DEF Calm, Apart
      <3>4. \A j \in pending' : /\ \A t \in Held' : j \notin t.pays
                                /\ \A k \in DOMAIN queue' : j \notin queue'[k].ticket.pays
                                /\ \A x \in net' : j \notin Answer(x.tickets).pays
        BY <1>1, <1>8, <1>9, <1>11, <2>1, <3>3 DEF Calm, Apart
      <3>5. Inserts' = Inserts
        BY <1>1 DEF Inserts
      <3> QED BY <1>1, <1>9, <1>11, <3>1, <3>2, <3>4, <3>5 DEF Calm, Apart
    <2>11. Fitting'
      <3>1. ASSUME NEW u \in Flying, NEW q \in rows' PROVE ~ Part(q, u)' /\ Disjoint(q.ticket, u)
        <4>1. CASE q.ticket \in T
          <5>1. q.ticket.index >= ticket_index /\ q.ticket.index \in Nat
            BY <1>4, <2>9, <4>1, TicketFacts
          <5>2. End(u) <= ticket_index /\ End(u) \in Nat /\ u.index \in Nat /\ ticket_index \in Nat
            BY <1>2, <2>5, Elements, TicketFacts
          <5>3. q.ticket.index \notin u.index .. End(u) - 1
            BY <5>1, <5>2
          <5> QED BY <2>3, <2>5, <5>3 DEF Part
        <4>2. CASE q.ticket \notin T
          BY <2>3, <2>5, <4>2 DEF Part
        <4> QED BY <4>1, <4>2
      <3>2. ASSUME NEW q \in rows'
            PROVE  IF Part(q, A)' THEN q.ticket.pays \subseteq A.pays ELSE Disjoint(q.ticket, A)
        <4>1. CASE q.ticket \in T
          <5>1. q.ticket.pays \subseteq A.pays /\ q.ticket.index \in A.index .. End(A) - 1
            BY <2>1, <4>1
          <5> QED BY <2>3, <4>1, <5>1 DEF Part
        <4>2. CASE q.ticket \notin T
          <5>1. \A t \in T : Disjoint(t, q.ticket)
            BY <1>3, <1>11, <2>3, <4>2 DEF Calm, Apart
          <5> QED BY <2>3, <2>6, <4>2, <5>1 DEF Part
        <4> QED BY <4>1, <4>2
      <3>3. \E q \in Aggregating' : End(A) - 1 \in q.ticket.pays
        <4>1. PICK u \in T : End(A) - 1 \in u.pays
          BY <2>1
        <4>2. PICK q \in rows' : q.ticket = u
          BY <1>3, <1>9 DEF Held, TicketsOf
        <4> QED BY <2>3, <4>1, <4>2
      <3> QED BY <1>1, <2>4, <2>5, <3>1, <3>2, <3>3 DEF Fitting
    <2>12. Unpaid'
      <3>1. \A j \in A.pays : paid[j] = 0
        BY <1>3, <1>11, <2>1, <2>9 DEF Calm, Unpaid
      <3>2. Inserts' = Inserts
        BY <1>1 DEF Inserts
      <3> QED BY <1>1, <1>9, <1>11, <2>4, <3>1, <3>2 DEF Calm, Unpaid
    <2>13. Submitted'
      <3>1. ASSUME NEW u, Row(u, "BeingRedeemed") \in rows PROVE Row(u, "BeingRedeemed") \in rows'
        <4>1. Row(u, "BeingRedeemed").ticket = u /\ Row(u, "BeingRedeemed").state = "BeingRedeemed"
          BY DEF Row
        <4>2. u \notin T
          BY <1>2, <1>3, <3>1, <4>1, TakenFacts
        <4> QED BY <1>5, <1>9, <3>1, <4>1, <4>2
      <3> QED BY <1>1, <1>11, <3>1 DEF Calm, Submitted
    <2>14. Current'
      <3>1. \A q \in Aggregating' : q \in rows'
        BY DEF Aggregating, InState
      <3> QED BY <1>1, <2>3, <2>9, <3>1 DEF Current
    <2>15. Removable' /\ AllKept' /\ Once'
      BY <1>1, <1>9, <1>11, SameTickets DEF Removable
    <2> QED BY <2>10, <2>11, <2>12, <2>13, <2>14, <2>15 DEF Calm
  <1> QED BY <1>1, <1>10, <1>11 DEF IInv

\* A caller that finds another aggregation under way, or waits in vain, fails.
LEMMA CallerFails ==
    ASSUME IInv, NEW c \in Caller, PrepareFails(c) \/ AggregationTimeout(c)
    PROVE  IInv'
  <1>1. /\ callers' = [callers EXCEPT ![c] = Failed]
        /\ UNCHANGED <<pending, dropped, queue, rows, selected, submitted, ticket_index, paid,
                       marking, net, batches, disturbed>>
    BY DEF PrepareFails, AggregationTimeout, pipeVars, redeemVars
  <1>2. Failed \in Failed .. MaxAggregation
    BY TicketsAssumption DEF Failed
  <1>3. Types'
    BY <1>1, <1>2 DEF IInv, Types
  <1>4. Calm => Calm'
    BY <1>1, QuietCalm
  <1> QED BY <1>1, <1>3, <1>4 DEF IInv

\* A caller that failed sets the rows free.
LEMMA RollbackInv ==
    ASSUME IInv, NEW c \in Caller, rollback_aggregation_in_channel(c)
    PROVE  IInv'
  <1>1. /\ marking = "none" /\ rows' = Updated(Aggregating, "Untouched")
        /\ callers' = [callers EXCEPT ![c] = Idle] /\ disturbed' = (disturbed \/ Answered)
        /\ UNCHANGED <<pending, dropped, queue, selected, submitted, ticket_index, paid,
                       marking, net, batches>>
    BY DEF rollback_aggregation_in_channel, Unlocked, pipeVars, redeemVars
  <1>2. Types
    BY DEF IInv
  <1>3. /\ RowsOK(rows') /\ Held' = Held
        /\ \A q \in rows' : \E r \in rows : q = IF r \in Aggregating THEN Row(r.ticket, "Untouched") ELSE r
        /\ \A r \in rows : (IF r \in Aggregating THEN Row(r.ticket, "Untouched") ELSE r) \in rows'
    <2>1. RowsOK(rows) /\ "Untouched" \in State /\ Aggregating \in SUBSET rows
      BY <1>2 DEF Types, State, Aggregating, InState
    <2>2. TicketsOf(rows') = Held'
      BY DEF Held, TicketsOf
    <2> QED BY <1>1, <2>1, <2>2, UpdatedFacts
  <1>4. Types'
    <2>1. Idle \in Failed .. MaxAggregation
      BY TicketsAssumption DEF Failed, Idle
    <2>2. disturbed' \in BOOLEAN
      BY <1>1, <1>2 DEF Types
    <2> QED BY <1>1, <1>2, <1>3, <2>1, <2>2 DEF Types
  <1>5. ASSUME Calm, ~ Answered PROVE Calm'
    <2>1. Flying' = {} /\ Inserts' = Inserts
      BY <1>1, <1>5 DEF Answered, Flying, Replaces, Inserts
    <2>2. Aggregating' = {}
      <3> SUFFICES ASSUME NEW q \in rows' PROVE q.state # "BeingAggregated"
        BY DEF Aggregating, InState
      <3>1. PICK r \in rows : q = IF r \in Aggregating THEN Row(r.ticket, "Untouched") ELSE r
        BY <1>3
      <3> QED BY <3>1 DEF Row, Aggregating, InState
    <2>3. Apart' /\ Fitting' /\ Unpaid'
      BY <1>1, <1>3, <1>5, <2>1 DEF Calm, Apart, Fitting, Unpaid
    <2>4. Submitted'
      <3>1. ASSUME NEW u, Row(u, "BeingRedeemed") \in rows PROVE Row(u, "BeingRedeemed") \in rows'
        <4>1. Row(u, "BeingRedeemed") \notin Aggregating
          BY DEF Row, Aggregating, InState
        <4> QED BY <1>3, <3>1, <4>1
      <3> QED BY <1>1, <1>5, <3>1 DEF Calm, Submitted
    <2>5. Current' /\ Removable'
      BY <1>1, <2>2 DEF Current, Removable
    <2>6. AllKept' /\ Once'
      BY <1>1, <1>3, <1>5, SameTickets
    <2> QED BY <2>3, <2>4, <2>5, <2>6 DEF Calm
  <1> QED BY <1>1, <1>2, <1>4, <1>5 DEF IInv, Types

\* Messages that go, or are followed by another with the same answer, change
\* nothing for the rows.
LEMMA FewerFlying ==
    ASSUME Calm, Flying' \subseteq Flying, Inserts' = Inserts,
           \A k \in Inserts : queue'[k] = queue[k],
           UNCHANGED <<pending, rows, submitted, ticket_index, paid, marking>>
    PROVE  Fitting' /\ Unpaid' /\ Submitted' /\ Current' /\ Removable' /\ Held' = Held
  <1>1. Held' = Held /\ Aggregating' = Aggregating
    BY DEF Held, TicketsOf, Aggregating, InState
  <1>2. Fitting'
    BY <1>1 DEF Calm, Fitting, Part
  <1>3. Unpaid'
    BY <1>1 DEF Calm, Unpaid
  <1>4. Submitted' /\ Current' /\ Removable'
    BY <1>1 DEF Calm, Submitted, Current, Removable, Unlocked
  <1> QED BY <1>1, <1>2, <1>3, <1>4

\* The issuer answers, or refuses.
LEMMA IssueInv ==
    ASSUME IInv, NEW m \in net, Issue(m)
    PROVE  IInv'
  <1>1. /\ m.type = "Request"
        /\ UNCHANGED <<pending, dropped, queue, rows, selected, submitted, ticket_index, paid,
                       marking, callers, batches, disturbed>>
    BY DEF Issue, pipeVars, redeemVars
  <1>2. Types /\ m \in Message
    BY DEF IInv, Types, NetOK
  <1>3. m.tickets \in SUBSET Sound /\ m.tickets # {}
    BY <1>2 DEF Message
  <1>4. PICK T \in SUBSET Sound : T = m.tickets /\ T # {}
    BY <1>3
  <1>5. PICK A \in Sound : A = Answer(T)
    BY <1>4, AnswerFacts
  <1>6. \E N : /\ net' = (net \ {m}) \cup N
               /\ N = {} \/ N = {[m EXCEPT !.type = "Reply", !.tickets = {A}]}
    <2>1. CASE Cardinality(T) = 1
      <3>1. PICK t : T = {t}
        BY <2>1, <1>4, TicketsFinite, FS_Singleton
      <3>2. t \in Sound /\ A = t
        BY <1>4, <1>5, <3>1, SingleAnswer
      <3>3. net' = (net \ {m}) \cup {[m EXCEPT !.type = "Reply"]}
        BY <1>4, <2>1 DEF Issue
      <3>4. [m EXCEPT !.type = "Reply"] = [m EXCEPT !.type = "Reply", !.tickets = {A}]
        BY <1>2, <1>4, <3>1, <3>2 DEF Message
      <3> QED BY <3>3, <3>4
    <2>2. CASE Cardinality(T) # 1
      <3>1. A = Aggregated(T)
        BY <1>5, <2>2 DEF Answer
      <3>2. CASE Overlapping(T) \/ Total(T) > balance
        <4>1. net' = (net \ {m}) \cup {}
          BY <1>4, <2>2, <3>2 DEF Issue
        <4> QED BY <4>1
      <3>3. CASE ~ (Overlapping(T) \/ Total(T) > balance)
        <4>1. net' = (net \ {m}) \cup {[m EXCEPT !.type = "Reply", !.tickets = {A}]}
          BY <1>4, <2>2, <3>1, <3>3 DEF Issue
        <4> QED BY <4>1
      <3> QED BY <3>2, <3>3
    <2> QED BY <2>1, <2>2
  <1>7. PICK N : /\ net' = (net \ {m}) \cup N
                 /\ N = {} \/ N = {[m EXCEPT !.type = "Reply", !.tickets = {A}]}
    BY <1>6
  <1>8. \A n \in N : n \in Message /\ n.tickets = {A} /\ Answer(n.tickets) = Answer(m.tickets)
    <2>1. PICK n : n = [m EXCEPT !.type = "Reply", !.tickets = {A}]
      OBVIOUS
    <2>2. n \in Message /\ n.tickets = {A}
      BY <1>2, <2>1 DEF Message
    <2>3. Answer(n.tickets) = Answer(m.tickets)
      BY <1>4, <1>5, <2>2, SingleAnswer
    <2> QED BY <1>7, <2>1, <2>2, <2>3
  <1>9. Types'
    <2>1. NetOK(net')
      BY <1>2, <1>7, <1>8 DEF Types, NetOK
    <2> QED BY <1>1, <1>2, <2>1 DEF Types
  <1>10. ASSUME Calm PROVE Calm'
    <2>1. \A x \in net' : \E y \in net : /\ Answer(x.tickets) = Answer(y.tickets)
                                         /\ y = (IF x \in N THEN m ELSE x)
      BY <1>7, <1>8
    <2>2. Flying' \subseteq Flying /\ Inserts' = Inserts
      BY <1>1, <2>1 DEF Flying, Inserts, Replaces
    <2>3. Fitting' /\ Unpaid' /\ Submitted' /\ Current' /\ Removable' /\ Held' = Held
      BY <1>1, <1>10, <2>2, FewerFlying
    <2>4. AllKept' /\ Once'
      BY <1>1, <1>10, <2>3, SameTickets
    <2>5. ASSUME NEW x \in net', NEW y \in net', x # y
          PROVE  Disjoint(Answer(x.tickets), Answer(y.tickets))
      <3>1. CASE x \in N
        <4>1. y \in net /\ y # m
          BY <1>7, <2>5, <3>1
        <4> QED BY <1>8, <1>10, <3>1, <4>1 DEF Calm, Apart
      <3>2. CASE y \in N
        <4>1. x \in net /\ x # m
          BY <1>7, <2>5, <3>2
        <4> QED BY <1>8, <1>10, <3>2, <4>1 DEF Calm, Apart
      <3>3. CASE x \notin N /\ y \notin N
        BY <1>7, <1>10, <2>5, <3>3 DEF Calm, Apart
      <3> QED BY <3>1, <3>2, <3>3
    <2>6. \A x \in net', k \in DOMAIN queue : Disjoint(Answer(x.tickets), queue[k].ticket)
      BY <1>10, <2>1 DEF Calm, Apart
    <2>7. \A j \in pending : \A x \in net' : j \notin Answer(x.tickets).pays
      BY <1>10, <2>1 DEF Calm, Apart
    <2>8. Apart'
      BY <1>1, <1>10, <2>2, <2>3, <2>5, <2>6, <2>7 DEF Calm, Apart
    <2> QED BY <2>3, <2>4, <2>8 DEF Calm
  <1> QED BY <1>1, <1>9, <1>10 DEF IInv

\* The reply is queued, or thrown away.
LEMMA ReceiveInv ==
    ASSUME IInv, NEW m \in net, process_received_aggregated_ticket(m)
    PROVE  IInv'
  <1>1. /\ m.type = "Reply" /\ net' = net \ {m}
        /\ UNCHANGED <<pending, dropped, rows, selected, submitted, ticket_index, paid,
                       marking, batches, disturbed>>
    BY DEF process_received_aggregated_ticket, pipeVars, redeemVars
  <1>2. Types /\ m \in Message
    BY DEF IInv, Types, NetOK
  <1>3. PICK t \in Sound : m.tickets = {t}
    BY <1>1, <1>2 DEF Types, NetOK
  <1>4. Answer(m.tickets) = t
    BY <1>3, SingleAnswer
  <1>5. NetOK(net')
    BY <1>1, <1>2 DEF Types, NetOK
  <1>6. CASE queue' = queue /\ callers' = callers
    <2>1. Types'
      BY <1>1, <1>2, <1>5, <1>6 DEF Types
    <2>2. ASSUME Calm PROVE Calm'
      <3>1. Flying' \subseteq Flying /\ Inserts' = Inserts
        BY <1>1, <1>6 DEF Flying, Inserts, Replaces
      <3>2. Fitting' /\ Unpaid' /\ Submitted' /\ Current' /\ Removable' /\ Held' = Held
        BY <1>1, <1>6, <2>2, <3>1, FewerFlying
      <3>3. AllKept' /\ Once'
        BY <1>1, <1>6, <2>2, <3>2, SameTickets
      <3>4. Apart'
        BY <1>1, <1>6, <2>2, <3>1, <3>2 DEF Calm, Apart
      <3> QED BY <3>2, <3>3, <3>4 DEF Calm
    <2> QED BY <1>1, <2>1, <2>2 DEF IInv
  <1>7. CASE /\ Len(queue) < QueueSize
             /\ queue' = Append(queue, [op |-> "Replace", ticket |-> t])
             /\ callers' = [c \in Caller |-> IF callers[c] = m.batch THEN Idle ELSE callers[c]]
    <2>1. PICK o \in Operation : /\ o = [op |-> "Replace", ticket |-> t]
                                 /\ o.op = "Replace" /\ o.ticket = t
      <3>1. PICK o : o = [op |-> "Replace", ticket |-> t]
        OBVIOUS
      <3>2. o \in Operation /\ o.op = "Replace" /\ o.ticket = t
        BY <3>1 DEF Operation
      <3> QED BY <3>1, <3>2
    <2>2. /\ QueueOK(queue') /\ \A k \in DOMAIN queue : queue'[k] = queue[k]
          /\ \E e : /\ e \notin DOMAIN queue /\ DOMAIN queue' = DOMAIN queue \cup {e}
                    /\ queue'[e] = o
      <3>1. QueueOK(queue)
        BY <1>2 DEF Types
      <3>2. o.op = "Insert" => \E i \in Index : o = Insertion(i)
        BY <2>1
      <3>3. queue' = Append(queue, o) /\ Len(queue) < QueueSize
        BY <1>7, <2>1
      <3> QED BY <3>1, <3>2, <3>3, AppendFacts, Zenon
    <2>3. PICK e : /\ e \notin DOMAIN queue /\ DOMAIN queue' = DOMAIN queue \cup {e}
                   /\ queue'[e] = o
      BY <2>2
    <2>4. Types'
      <3>1. callers' \in [Caller -> Failed .. MaxAggregation]
        <4>1. Idle \in Failed .. MaxAggregation
          BY TicketsAssumption DEF Failed, Idle
        <4> QED BY <1>2, <1>7, <4>1 DEF Types
      <3> QED BY <1>1, <1>2, <1>5, <2>2, <3>1 DEF Types
    <2>5. ASSUME Calm PROVE Calm'
      <3>1. Inserts' = Inserts /\ Replaces' = Replaces \cup {e}
        BY <2>1, <2>2, <2>3 DEF Inserts, Replaces
      <3>2. t \in Flying
        BY <1>2, <1>4, Elements
      <3>3. Flying' \subseteq Flying
        BY <1>1, <2>1, <2>2, <2>3, <3>1, <3>2 DEF Flying, Replaces
      <3>4. \A k \in Inserts : queue'[k] = queue[k]
        BY <2>2 DEF Inserts
      <3>5. Fitting' /\ Unpaid' /\ Submitted' /\ Current' /\ Removable' /\ Held' = Held
        BY <1>1, <2>5, <3>1, <3>3, <3>4, FewerFlying
      <3>6. AllKept' /\ Once'
        <4>1. InDatabase' = InDatabase
          BY <3>5 DEF InDatabase, Held
        <4>2. \A j \in Index : (Kept(j) => Kept(j)') /\ (Waiting(j) => Waiting(j)')
          BY <1>1, <2>2, <2>3, <4>1 DEF Kept, Waiting
        <4> QED BY <1>1, <2>5, <4>2 DEF Calm, AllKept, Once
      <3>7. \A k \in DOMAIN queue : Disjoint(t, queue[k].ticket) /\ Disjoint(queue[k].ticket, t)
        <4>1. \A k \in DOMAIN queue : Disjoint(t, queue[k].ticket)
          BY <1>4, <2>5 DEF Calm, Apart
        <4> QED BY <4>1 DEF Disjoint
      <3>8. \A k, l \in DOMAIN queue' : k # l => Disjoint(queue'[k].ticket, queue'[l].ticket)
        BY <2>1, <2>2, <2>3, <2>5, <3>7 DEF Calm, Apart
      <3>9. \A x \in net' : Disjoint(Answer(x.tickets), t)
        BY <1>1, <1>4, <2>5 DEF Calm, Apart
      <3>10. \A x \in net', k \in DOMAIN queue' : Disjoint(Answer(x.tickets), queue'[k].ticket)
        BY <1>1, <2>1, <2>2, <2>3, <2>5, <3>9 DEF Calm, Apart
      <3>11. \A j \in pending : j \notin t.pays
        BY <1>4, <2>5 DEF Calm, Apart
      <3>12. \A j \in pending : \A k \in DOMAIN queue' : j \notin queue'[k].ticket.pays
        BY <2>1, <2>2, <2>3, <2>5, <3>11 DEF Calm, Apart
      <3>13. \A u \in Held, k \in Inserts : Disjoint(u, queue'[k].ticket)
        BY <2>5, <3>4 DEF Calm, Apart
      <3>14. Apart'
        BY <1>1, <2>5, <3>1, <3>5, <3>8, <3>10, <3>12, <3>13 DEF Calm, Apart
      <3> QED BY <3>5, <3>6, <3>14 DEF Calm
    <2> QED BY <1>1, <2>4, <2>5 DEF IInv
  <1>8. \/ queue' = queue /\ callers' = callers
        \/ /\ Len(queue) < QueueSize
           /\ queue' = Append(queue, [op |-> "Replace", ticket |-> t])
           /\ callers' = [c \in Caller |-> IF callers[c] = m.batch THEN Idle ELSE callers[c]]
    BY <1>3 DEF process_received_aggregated_ticket, Acceptable
  <1> QED BY <1>6, <1>7, <1>8

--------------------------------------------------------------------------------
(* Redemption *)

\* A redeemer reads a row.
LEMMA SelectInv ==
    ASSUME IInv, NEW r \in rows, Select(r)
    PROVE  IInv'
  <1>1. /\ selected' = selected \cup {r.ticket}
        /\ UNCHANGED <<pending, dropped, queue, rows, submitted, ticket_index, paid, marking,
                       callers, net, batches, disturbed>>
    BY DEF Select, pipeVars, aggVars
  <1>2. Types /\ r.ticket \in Sound
    BY Elements DEF IInv
  <1>3. Types'
    BY <1>1, <1>2 DEF Types
  <1>4. Calm => Calm'
    BY <1>1, QuietCalm
  <1> QED BY <1>1, <1>3, <1>4 DEF IInv

\* Rows outside of an aggregation change their state.
LEMMA RestatedCalm ==
    ASSUME Types, Calm, NEW R \in SUBSET rows, NEW st \in {"Untouched", "BeingRedeemed"},
           rows' = Updated(R, st), \A r \in R : r.state # "BeingAggregated",
           UNCHANGED <<pending, dropped, queue, net, ticket_index, paid, marking>>
    PROVE  Apart' /\ Fitting' /\ Unpaid' /\ Current' /\ AllKept' /\ Once'
  <1>1. /\ Held' = Held
        /\ \A q \in rows' : \E r \in rows : q = IF r \in R THEN Row(r.ticket, st) ELSE r
        /\ \A r \in rows : (IF r \in R THEN Row(r.ticket, st) ELSE r) \in rows'
    <2>1. RowsOK(rows) /\ st \in State
      BY DEF Types, State
    <2>2. TicketsOf(rows') = Held'
      BY DEF Held, TicketsOf
    <2> QED BY <2>1, <2>2, UpdatedFacts
  <1>2. Flying' = Flying /\ Inserts' = Inserts
    BY DEF Flying, Inserts, Replaces
  <1>3. \A q \in rows' : \E r \in rows : q.ticket = r.ticket /\ (q \in Aggregating' <=> r \in Aggregating)
    <2> SUFFICES ASSUME NEW q \in rows'
                 PROVE  \E r \in rows : /\ q.ticket = r.ticket
                                        /\ q.state = "BeingAggregated" <=> r.state = "BeingAggregated"
      BY DEF Aggregating, InState
    <2>1. PICK r \in rows : q = IF r \in R THEN Row(r.ticket, st) ELSE r
      BY <1>1
    <2>2. CASE r \in R
      BY <2>1, <2>2 DEF Row
    <2>3. CASE r \notin R
      BY <2>1, <2>3
    <2> QED BY <2>2, <2>3
  <1>4. \A r \in Aggregating : r \in Aggregating'
    BY <1>1 DEF Aggregating, InState
  <1>5. Apart' /\ Unpaid'
    BY <1>1, <1>2 DEF Calm, Apart, Unpaid
  <1>6. Fitting'
    <2> SUFFICES ASSUME NEW u \in Flying'
                 PROVE  /\ \A q \in rows' : IF Part(q, u)' THEN q.ticket.pays \subseteq u.pays
                                            ELSE Disjoint(q.ticket, u)
                        /\ \/ End(u) <= ticket_index'
                           \/ \E q \in Aggregating' : End(u) - 1 \in q.ticket.pays
      BY DEF Fitting
    <2>1. u \in Flying
      BY <1>2
    <2>2. ASSUME NEW q \in rows'
          PROVE  IF Part(q, u)' THEN q.ticket.pays \subseteq u.pays ELSE Disjoint(q.ticket, u)
      <3>1. PICK r \in rows : q.ticket = r.ticket /\ (q \in Aggregating' <=> r \in Aggregating)
        BY <1>3
      <3>2. Part(q, u)' <=> Part(r, u)
        BY <3>1 DEF Part
      <3>3. IF Part(r, u) THEN r.ticket.pays \subseteq u.pays ELSE Disjoint(r.ticket, u)
        BY <2>1 DEF Calm, Fitting
      <3> QED BY <3>1, <3>2, <3>3
    <2>3. \/ End(u) <= ticket_index
          \/ \E q \in Aggregating : End(u) - 1 \in q.ticket.pays
      BY <2>1 DEF Calm, Fitting
    <2> QED BY <1>4, <2>2, <2>3
  <1>7. Current'
    <2>1. \A q \in Aggregating' : \E r \in Aggregating : q.ticket = r.ticket
      BY <1>3 DEF Aggregating, InState
    <2> QED BY <2>1 DEF Calm, Current, Unlocked
  <1>8. AllKept' /\ Once'
    BY <1>1, SameTickets
  <1> QED BY <1>5, <1>6, <1>7, <1>8

\* A redeemer marks the row it has read.
LEMMA MarkBeingRedeemedInv ==
    ASSUME IInv, NEW t \in selected, MarkBeingRedeemed(t)
    PROVE  IInv'
  <1>1. /\ selected' = selected \ {t} /\ submitted' = submitted \cup {t}
        /\ disturbed' = (disturbed \/ Row(t, "Untouched") \notin rows)
        /\ UNCHANGED <<pending, dropped, queue, ticket_index, paid, marking, callers, net, batches>>
    BY DEF MarkBeingRedeemed, pipeVars, aggVars
  <1>2. Types /\ t \in Sound
    BY DEF IInv, Types
  <1>3. PICK R \in SUBSET rows : R = {r \in rows : r.ticket = t}
    OBVIOUS
  <1>4. rows' = Updated(R, "BeingRedeemed")
    BY <1>3 DEF MarkBeingRedeemed
  <1>5. /\ RowsOK(rows')
        /\ \A q \in rows' : \E r \in rows : q = IF r \in R THEN Row(r.ticket, "BeingRedeemed") ELSE r
        /\ \A r \in rows : (IF r \in R THEN Row(r.ticket, "BeingRedeemed") ELSE r) \in rows'
    <2>1. RowsOK(rows) /\ "BeingRedeemed" \in State
      BY <1>2 DEF Types, State
    <2> QED BY <1>4, <2>1, UpdatedFacts
  <1>6. Types'
    <2>1. disturbed' \in BOOLEAN
      BY <1>1, <1>2 DEF Types
    <2> QED BY <1>1, <1>2, <1>5, <2>1 DEF Types
  <1>7. ASSUME Calm, Row(t, "Untouched") \in rows PROVE Calm'
    <2>1. PICK p \in rows : p.ticket = t /\ p.state = "Untouched"
      BY <1>7 DEF Row
    <2>2. \A r \in R : r.state # "BeingAggregated"
      BY <1>2, <1>3, <2>1 DEF Types, RowsOK
    <2>3. Apart' /\ Fitting' /\ Unpaid' /\ Current' /\ AllKept' /\ Once'
      BY <1>1, <1>2, <1>4, <1>7, <2>2, RestatedCalm
    <2>4. Submitted'
      <3>1. ASSUME NEW u \in submitted', u.index >= ticket_index
            PROVE  Row(u, "BeingRedeemed") \in rows'
        <4>1. CASE u = t
          <5>1. p \in R
            BY <1>3, <2>1
          <5> QED BY <1>5, <2>1, <4>1, <5>1
        <4>2. CASE u # t
          <5>1. Row(u, "BeingRedeemed") \in rows
            BY <1>1, <1>7, <3>1, <4>2 DEF Calm, Submitted
          <5>2. Row(u, "BeingRedeemed") \notin R
            BY <1>3, <4>2 DEF Row
          <5> QED BY <1>5, <5>1, <5>2
        <4> QED BY <4>1, <4>2
      <3> QED BY <1>1, <3>1 DEF Submitted
    <2>5. Removable'
      <3> SUFFICES ASSUME marking # "none", NEW q \in rows', q.ticket.index < ticket_index
                   PROVE  \/ \A i \in q.ticket.pays : i < ticket_index
                          \/ /\ q.state = "BeingRedeemed"
                             /\ \A i \in q.ticket.pays : paid[i] > 0
        BY <1>1 DEF Removable
      <3>1. PICK r \in rows : q = IF r \in R THEN Row(r.ticket, "BeingRedeemed") ELSE r
        BY <1>5
      <3>2. q.ticket = r.ticket /\ (r.state = "BeingRedeemed" => q.state = "BeingRedeemed")
        <4>1. CASE r \in R
          BY <3>1, <4>1 DEF Row
        <4>2. CASE r \notin R
          BY <3>1, <4>2
        <4> QED BY <4>1, <4>2
      <3> QED BY <1>7, <3>2 DEF Calm, Removable
    <2> QED BY <2>3, <2>4, <2>5 DEF Calm
  <1> QED BY <1>1, <1>2, <1>6, <1>7 DEF IInv, Types

\* A redemption that fails sets its row free.
LEMMA RedeemFailsInv ==
    ASSUME IInv, NEW t \in submitted, RedeemFails(t)
    PROVE  IInv'
  <1>1. /\ marking = "none" /\ submitted' = submitted \ {t}
        /\ UNCHANGED <<pending, dropped, queue, selected, ticket_index, paid, marking,
                       callers, net, batches, disturbed>>
    BY DEF RedeemFails, Unlocked, pipeVars, aggVars
  <1>2. Types /\ t \in Sound
    BY DEF IInv, Types
  <1>3. PICK R \in SUBSET rows : R = {r \in rows : r.ticket.index = t.index}
    OBVIOUS
  <1>4. rows' = Updated(R, "Untouched")
    BY <1>3 DEF RedeemFails
  <1>5. /\ RowsOK(rows')
        /\ \A r \in rows : (IF r \in R THEN Row(r.ticket, "Untouched") ELSE r) \in rows'
    <2>1. RowsOK(rows) /\ "Untouched" \in State
      BY <1>2 DEF Types, State
    <2> QED BY <1>4, <2>1, UpdatedFacts
  <1>6. Types'
    BY <1>1, <1>2, <1>5 DEF Types
  <1>7. ASSUME Calm PROVE Calm'
    <2>1. t.index >= ticket_index => \A r \in R : r = Row(t, "BeingRedeemed")
      <3>1. ASSUME t.index >= ticket_index, NEW r \in R PROVE r = Row(t, "BeingRedeemed")
        <4>1. Row(t, "BeingRedeemed") \in rows
          BY <1>7, <3>1 DEF Calm, Submitted
        <4>2. Row(t, "BeingRedeemed").ticket = t
          BY DEF Row
        <4> QED BY <1>2, <1>3, <4>1, <4>2 DEF Types, RowsOK
      <3> QED BY <3>1
    <2>2. ASSUME NEW r \in R, r.state = "BeingAggregated" PROVE FALSE
      <3>1. r \in Aggregating
        BY <2>2 DEF Aggregating, InState
      <3>2. r.ticket.index >= ticket_index
        BY <1>1, <1>7, <3>1 DEF Calm, Current, Unlocked
      <3>3. r = Row(t, "BeingRedeemed")
        BY <1>3, <2>1, <3>2
      <3> QED BY <2>2, <3>3 DEF Row
    <2>3. Apart' /\ Fitting' /\ Unpaid' /\ Current' /\ AllKept' /\ Once'
      BY <1>1, <1>2, <1>4, <1>7, <2>2, RestatedCalm
    <2>4. ASSUME NEW u \in submitted', u.index >= ticket_index
          PROVE  Row(u, "BeingRedeemed") \in rows'
      <3>1. PICK q \in rows : q = Row(u, "BeingRedeemed") /\ q.ticket = u
        BY <1>1, <1>7, <2>4 DEF Calm, Submitted, Row
      <3>2. q \notin R
        <4> SUFFICES ASSUME q \in R PROVE FALSE
          OBVIOUS
        <4>1. t.index >= ticket_index
          BY <1>3, <2>4, <3>1
        <4>2. q = Row(t, "BeingRedeemed")
          BY <2>1, <4>1
        <4>3. u = t
          BY <3>1, <4>2 DEF Row
        <4> QED BY <1>1, <4>3
      <3> QED BY <1>5, <3>1, <3>2
    <2>5. Submitted' /\ Removable'
      BY <1>1, <2>4 DEF Submitted, Removable
    <2> QED BY <2>3, <2>5 DEF Calm
  <1> QED BY <1>1, <1>6, <1>7 DEF IInv

\* The contract pays a ticket.
LEMMA RedeemedInv ==
    ASSUME IInv, NEW t \in submitted, Redeemed(t)
    PROVE  IInv'
  <1>1. /\ t.index >= ticket_index /\ submitted' = submitted \ {t}
        /\ ticket_index' = End(t) /\ marking' = "redeemed"
        /\ paid' = [i \in Index |-> IF i \in t.pays THEN paid[i] + 1 ELSE paid[i]]
        /\ disturbed' = (disturbed \/ Overtakes(t))
        /\ UNCHANGED <<pending, dropped, queue, rows, selected, callers, net, batches>>
    BY DEF Redeemed, pipeVars, aggVars
  <1>2. Types /\ t \in Sound /\ paid \in [Index -> Nat]
    BY DEF IInv, Types
  <1>3. /\ End(t) \in Nat /\ End(t) > t.index /\ End(t) <= 2 * (Max(Index) + 1)
        /\ t.index \in Nat /\ ticket_index \in Nat /\ t.pays \subseteq Index
    BY <1>2, TicketFacts, Elements
  <1>4. Types'
    <2>1. End(t) \in 0 .. 2 * (Max(Index) + 1)
      BY <1>3, LastIndex
    <2>2. paid' \in [Index -> Nat]
      BY <1>1, <1>2
    <2>3. disturbed' \in BOOLEAN
      BY <1>1, <1>2 DEF Types
    <2> QED BY <1>1, <1>2, <2>1, <2>2, <2>3 DEF Types
  <1>5. ASSUME Calm, ~ Overtakes(t) PROVE Calm'
    <2>1. PICK p \in rows : p = Row(t, "BeingRedeemed") /\ p.ticket = t /\ p.state = "BeingRedeemed"
      BY <1>1, <1>5 DEF Calm, Submitted, Row
    <2>2. t \in Held /\ p \notin Aggregating
      BY <2>1 DEF Held, TicketsOf, Aggregating, InState
    <2>3. \A i \in t.pays : paid[i] = 0
      BY <1>1, <1>5, <2>2 DEF Calm, Unpaid
    <2>4. \A i \in Index : /\ i \in t.pays => paid'[i] = 1
                           /\ i \notin t.pays => paid'[i] = paid[i]
      <3>1. \A i \in Index : i \in t.pays => paid'[i] = paid[i] + 1
        BY <1>1
      <3> QED BY <1>1, <2>3, <3>1
    <2>5. Held' = Held /\ Flying' = Flying /\ Inserts' = Inserts /\ Aggregating' = Aggregating
      BY <1>1 DEF Held, TicketsOf, Flying, Inserts, Replaces, Aggregating, InState
    <2>6. ticket_index < ticket_index'
      BY <1>1, <1>3
    <2>7. Apart'
      BY <1>1, <1>5, <2>5 DEF Calm, Apart
    <2>8. Fitting'
      <3> SUFFICES ASSUME NEW u \in Flying
                   PROVE  /\ \A r \in rows : IF Part(r, u) THEN r.ticket.pays \subseteq u.pays
                                             ELSE Disjoint(r.ticket, u)
                          /\ \/ End(u) <= ticket_index'
                             \/ \E r \in Aggregating : End(u) - 1 \in r.ticket.pays
        BY <1>1, <2>5 DEF Fitting, Part
      <3>1. End(u) \in Nat
        BY <1>2, Elements, TicketFacts
      <3>2. End(u) <= ticket_index => End(u) <= ticket_index'
        BY <1>1, <1>3, <2>6, <3>1
      <3> QED BY <1>5, <3>2 DEF Calm, Fitting
    <2>9. Unpaid'
      <3>1. \A i \in pending : i \in Index /\ i \notin t.pays
        BY <1>2, <1>5, <2>2 DEF Calm, Apart, Types
      <3>2. \A k \in Inserts : Disjoint(t, queue[k].ticket) /\ queue[k].ticket.pays \subseteq Index
        <4>1. \A k \in Inserts : queue[k].ticket \in Sound
          BY <1>2, Elements DEF Inserts
        <4>2. \A k \in Inserts : queue[k].ticket.pays \subseteq Index
          BY <4>1, TicketFacts
        <4> QED BY <1>5, <2>2, <4>2 DEF Calm, Apart
      <3>3. ASSUME NEW u \in Flying \cup Held, u.index >= ticket_index'
            PROVE  \A i \in u.pays : paid'[i] = 0
        <4>1. u \in Sound /\ u.index \in Nat /\ u.pays \subseteq Index
          BY <1>2, Elements, TicketFacts
        <4>2. u # t /\ u.index >= ticket_index
          BY <1>1, <1>3, <3>3, <4>1
        <4>3. Disjoint(t, u)
          <5>1. CASE u \in Held
            BY <1>5, <2>2, <4>2, <5>1 DEF Calm, Apart
          <5>2. CASE u \in Flying
            <6>1. ~ Part(p, u)
              BY <2>2 DEF Part
            <6> QED BY <1>5, <2>1, <5>2, <6>1 DEF Calm, Fitting
          <5> QED BY <5>1, <5>2
        <4>4. \A i \in u.pays : i \in Index /\ i \notin t.pays
          BY <4>1, <4>3 DEF Disjoint
        <4> QED BY <1>5, <2>4, <4>2, <4>4 DEF Calm, Unpaid
      <3>4. \A i \in pending : paid'[i] = 0
        BY <1>5, <2>4, <3>1 DEF Calm, Unpaid
      <3>5. \A k \in Inserts : \A i \in queue[k].ticket.pays : paid'[i] = 0
        <4>1. \A k \in Inserts : \A i \in queue[k].ticket.pays : i \in Index /\ i \notin t.pays
          BY <3>2 DEF Disjoint
        <4> QED BY <1>5, <2>4, <4>1 DEF Calm, Unpaid
      <3> QED BY <1>1, <2>5, <3>3, <3>4, <3>5 DEF Unpaid
    <2>10. Submitted'
      <3>1. ASSUME NEW u \in submitted', u.index >= ticket_index'
            PROVE  Row(u, "BeingRedeemed") \in rows'
        <4>1. u \in submitted /\ u.index \in Nat
          BY <1>1, <1>2, TicketFacts DEF Types
        <4>2. u.index >= ticket_index
          BY <1>1, <1>3, <2>6, <3>1, <4>1
        <4> QED BY <1>1, <1>5, <4>1, <4>2 DEF Calm, Submitted
      <3> QED BY <3>1 DEF Submitted
    <2>11. Current'
      BY <1>1 DEF Current, Unlocked
    <2>12. Removable'
      <3> SUFFICES ASSUME NEW r \in rows, r.ticket.index < End(t)
                   PROVE  \/ \A i \in r.ticket.pays : i < End(t)
                          \/ /\ r.state = "BeingRedeemed"
                             /\ \A i \in r.ticket.pays : paid'[i] > 0
        BY <1>1 DEF Removable
      <3>1. CASE r.ticket = t
        <4>1. r = p
          BY <1>2, <2>1, <3>1 DEF Types, RowsOK
        <4>2. \A i \in t.pays : paid'[i] > 0
          BY <1>3, <2>4
        <4> QED BY <2>1, <4>1, <4>2
      <3>2. CASE r.ticket # t
        <4>1. ~ \E i \in r.ticket.pays : i >= End(t)
          BY <1>5, <3>2 DEF Overtakes, TicketsOf
        <4>2. \A i \in r.ticket.pays : i \in Nat
          BY <1>2, Elements, TicketFacts, LastIndex
        <4> QED BY <1>3, <4>1, <4>2
      <3> QED BY <3>1, <3>2
    <2>13. AllKept'
      <3>1. ASSUME NEW j \in Index PROVE (Waiting(j) => Waiting(j)') /\ (Kept(j) => Kept(j)')
        <4>1. Waiting(j) => Waiting(j)'
          BY <1>1 DEF Waiting
        <4>2. InDatabase' = InDatabase
          BY <1>1 DEF InDatabase, TicketsOf
        <4>3. j < ticket_index => j < ticket_index'
          BY <1>1, <1>3, <2>6, LastIndex
        <4>4. paid[j] > 0 => paid'[j] > 0
          BY <2>4
        <4> QED BY <4>1, <4>2, <4>3, <4>4 DEF Kept
      <3> QED BY <1>5, <3>1 DEF Calm, AllKept
    <2>14. Once'
      BY <1>5, <2>4 DEF Calm, Once
    <2> QED BY <2>7, <2>8, <2>9, <2>10, <2>11, <2>12, <2>13, <2>14 DEF Calm
  <1> QED BY <1>1, <1>2, <1>4, <1>5 DEF IInv, Types

\* The handler removes rows the ticket index has passed.
LEMMA RemovedCalm ==
    ASSUME Types, Calm, marking # "none", rows' \in SUBSET rows,
           \A r \in rows \ rows' : r.ticket.index < ticket_index,
           UNCHANGED <<pending, dropped, queue, net, submitted, ticket_index, paid>>
    PROVE  Apart' /\ Fitting' /\ Unpaid' /\ Submitted' /\ AllKept' /\ Once'
  <1>1. Held' \subseteq Held /\ Flying' = Flying /\ Inserts' = Inserts
    BY DEF Held, TicketsOf, Flying, Inserts, Replaces
  <1>2. \A r \in rows' : r \in Aggregating' <=> r \in Aggregating
    BY DEF Aggregating, InState
  <1>3. Apart' /\ Unpaid' /\ Once'
    BY <1>1 DEF Calm, Apart, Unpaid, Once
  <1>4. Fitting'
    <2> SUFFICES ASSUME NEW u \in Flying
                 PROVE  /\ \A r \in rows' : IF Part(r, u)' THEN r.ticket.pays \subseteq u.pays
                                            ELSE Disjoint(r.ticket, u)
                        /\ \/ End(u) <= ticket_index
                           \/ \E r \in Aggregating' : End(u) - 1 \in r.ticket.pays
      BY <1>1 DEF Fitting
    <2>1. \A r \in rows' : Part(r, u)' <=> Part(r, u)
      BY <1>2 DEF Part
    <2>2. \A r \in rows' : IF Part(r, u)' THEN r.ticket.pays \subseteq u.pays
                           ELSE Disjoint(r.ticket, u)
      BY <2>1 DEF Calm, Fitting
    <2>3. ASSUME NEW r \in Aggregating, End(u) - 1 \in r.ticket.pays, r \notin rows'
          PROVE  End(u) <= ticket_index
      <3>1. r \in rows /\ r.state # "BeingRedeemed"
        BY DEF Aggregating, InState
      <3>2. End(u) - 1 < ticket_index
        BY <2>3, <3>1 DEF Calm, Removable
      <3>3. End(u) \in Nat /\ ticket_index \in Nat
        BY Elements, TicketFacts
      <3> QED BY <3>2, <3>3
    <2>4. \/ End(u) <= ticket_index
          \/ \E r \in Aggregating : End(u) - 1 \in r.ticket.pays
      BY DEF Calm, Fitting
    <2> QED BY <1>2, <2>2, <2>3, <2>4
  <1>5. Submitted'
    <2>1. ASSUME NEW u \in submitted, u.index >= ticket_index
          PROVE  Row(u, "BeingRedeemed") \in rows'
      <3>1. Row(u, "BeingRedeemed") \in rows /\ Row(u, "BeingRedeemed").ticket = u
        BY <2>1 DEF Calm, Submitted, Row
      <3>2. ~ (u.index < ticket_index)
        BY <2>1, Elements, TicketFacts DEF Types
      <3> QED BY <3>1, <3>2
    <2> QED BY <2>1 DEF Submitted
  <1>6. AllKept'
    <2>1. ASSUME NEW j \in Index, j \in InDatabase PROVE Kept(j)'
      <3>1. PICK r \in rows : j \in r.ticket.pays
        BY <2>1 DEF InDatabase, TicketsOf
      <3>2. CASE r \in rows'
        BY <3>1, <3>2 DEF Kept, InDatabase, TicketsOf
      <3>3. CASE r \notin rows'
        BY <3>1, <3>3 DEF Calm, Removable, Kept
      <3> QED BY <3>2, <3>3
    <2>2. \A j \in Index : (Waiting(j) => Waiting(j)') /\ (Kept(j) => Kept(j)')
      BY <2>1 DEF Waiting, Kept
    <2> QED BY <2>2 DEF Calm, AllKept
  <1> QED BY <1>3, <1>4, <1>5, <1>6

\* The handler marks the redeemed ticket, and then the neglected ones.
LEMMA MarkInv ==
    ASSUME IInv, MarkRedeemed \/ MarkNeglected
    PROVE  IInv'
  <1>1. /\ marking # "none" /\ rows' \in SUBSET rows
        /\ UNCHANGED <<pending, dropped, queue, selected, submitted, ticket_index, paid,
                       callers, net, batches, disturbed>>
    BY DEF MarkRedeemed, MarkNeglected, pipeVars, aggVars
  <1>2. Types
    BY DEF IInv
  <1>3. Types'
    <2>1. RowsOK(rows')
      BY <1>1, <1>2, FewerRows DEF Types
    <2>2. marking' \in {"none", "redeemed", "neglected"}
      BY DEF MarkRedeemed, MarkNeglected
    <2> QED BY <1>1, <1>2, <2>1, <2>2 DEF Types
  <1>4. \A r \in rows : r.ticket.index \in Nat /\ End(r.ticket) \in Nat
                        /\ End(r.ticket) > r.ticket.index /\ ticket_index \in Nat
    BY <1>2, Elements, TicketFacts
  <1>5. ASSUME Calm PROVE Calm'
    <2>1. CASE MarkRedeemed
      <3>1. \A r \in rows \ rows' : r.ticket.index < ticket_index
        BY <1>4, <2>1 DEF MarkRedeemed
      <3>2. Current' /\ Removable'
        BY <1>1, <1>5, <2>1 DEF Calm, MarkRedeemed, Current, Removable, Unlocked
      <3> QED BY <1>1, <1>2, <1>5, <3>1, <3>2, RemovedCalm DEF Calm
    <2>2. CASE MarkNeglected
      <3>1. \A r \in rows \ rows' : r.ticket.index < ticket_index
        BY <1>4, <2>2 DEF MarkNeglected
      <3>2. Current' /\ Removable'
        BY <1>1, <2>2 DEF MarkNeglected, Current, Removable, Aggregating, InState
      <3> QED BY <1>1, <1>2, <1>5, <3>1, <3>2, RemovedCalm DEF Calm
    <2> QED BY <2>1, <2>2
  <1> QED BY <1>1, <1>3, <1>5 DEF IInv

--------------------------------------------------------------------------------
(* The theorems *)

\* A restart resets what was being aggregated, and the ticket that is next.
LEMMA CrashInv ==
    ASSUME IInv, Crash
    PROVE  IInv'
  <1> DEFINE R == Aggregating \cup {r \in InState("BeingRedeemed") : r.ticket.index = ticket_index}
  <1>1. /\ dropped' = dropped \cup pending
                          \cup {i \in Index : \E k \in DOMAIN queue : queue[k] = Insertion(i)}
        /\ pending' = {} /\ queue' = <<>> /\ rows' = Updated(R, "Untouched")
        /\ marking' = (IF Unlocked THEN "none" ELSE "redeemed")
        /\ selected' = {} /\ submitted' = {} /\ callers' = [c \in Caller |-> Idle] /\ net' = {}
        /\ UNCHANGED <<ticket_index, paid, batches, disturbed>>
    BY DEF Crash
  <1>2. Types /\ R \in SUBSET rows
    BY DEF IInv, Aggregating, InState
  <1>3. /\ RowsOK(rows') /\ Held' = Held
        /\ \A q \in rows' : \E r \in rows : q = IF r \in R THEN Row(r.ticket, "Untouched") ELSE r
    <2>1. RowsOK(rows) /\ "Untouched" \in State
      BY <1>2 DEF Types, State
    <2>2. TicketsOf(rows') = Held'
      BY DEF Held, TicketsOf
    <2> HIDE DEF R
    <2> QED BY <1>1, <1>2, <2>1, <2>2, UpdatedFacts
  <1>4. Types'
    <2>1. QueueOK(<<>>) /\ NetOK({}) /\ Idle \in Failed .. MaxAggregation
      BY TicketsAssumption DEF QueueOK, NetOK, Failed, Idle
    <2>2. dropped' \subseteq Index
      BY <1>1, <1>2 DEF Types
    <2>3. marking' \in {"none", "redeemed", "neglected"}
      BY <1>1
    <2> QED BY <1>1, <1>2, <1>3, <2>1, <2>2, <2>3 DEF Types
  <1>5. ASSUME Calm PROVE Calm'
    <2>1. Flying' = {} /\ DOMAIN queue' = {} /\ Inserts' = {}
      BY <1>1 DEF Flying, Replaces, Inserts
    <2>2. Apart' /\ Fitting' /\ Unpaid' /\ Submitted' /\ Once'
      BY <1>1, <1>3, <1>5, <2>1 DEF Calm, Apart, Fitting, Unpaid, Submitted, Once
    <2>3. ASSUME NEW q \in rows'
          PROVE  /\ q.state # "BeingAggregated"
                 /\ \E r \in rows : /\ q.ticket = r.ticket
                                    /\ \/ q.state = r.state \/ r.state # "BeingRedeemed"
                                       \/ r.ticket.index = ticket_index
      <3>1. PICK r \in rows : q = IF r \in R THEN Row(r.ticket, "Untouched") ELSE r
        BY <1>3
      <3>2. CASE r \in R
        <4>1. q.ticket = r.ticket /\ q.state = "Untouched"
          BY <3>1, <3>2 DEF Row
        <4>2. r.state # "BeingRedeemed" \/ r.ticket.index = ticket_index
          BY <3>2 DEF Aggregating, InState
        <4> QED BY <4>1, <4>2
      <3>3. CASE r \notin R
        <4>1. q = r
          BY <3>1, <3>3
        <4>2. r.state # "BeingAggregated"
          BY <3>3 DEF Aggregating, InState
        <4> QED BY <4>1, <4>2
      <3> QED BY <3>2, <3>3
    <2>4. Current'
      <3>1. Aggregating' = {}
        BY <2>3 DEF Aggregating, InState
      <3> QED BY <3>1 DEF Current
    <2>5. Removable'
      <3> SUFFICES ASSUME marking' # "none", NEW q \in rows', q.ticket.index < ticket_index
                   PROVE  \/ \A i \in q.ticket.pays : i < ticket_index
                          \/ /\ q.state = "BeingRedeemed"
                             /\ \A i \in q.ticket.pays : paid[i] > 0
        BY <1>1 DEF Removable
      <3>1. marking # "none"
        BY <1>1 DEF Unlocked
      <3>2. PICK r \in rows : /\ q.ticket = r.ticket
                              /\ \/ q.state = r.state \/ r.state # "BeingRedeemed"
                                 \/ r.ticket.index = ticket_index
        BY <2>3
      <3>3. r.ticket.index < ticket_index /\ r.ticket.index # ticket_index
        BY <1>2, <3>2, Elements, TicketFacts
      <3>4. \/ \A i \in r.ticket.pays : i < ticket_index
            \/ r.state = "BeingRedeemed" /\ \A i \in r.ticket.pays : paid[i] > 0
        BY <1>5, <3>1, <3>3 DEF Calm, Removable
      <3> QED BY <3>2, <3>3, <3>4
    <2>6. AllKept'
      <3>1. InDatabase' = InDatabase
        BY <1>3 DEF InDatabase, Held
      <3>2. ASSUME NEW j \in Index PROVE (Waiting(j) => Waiting(j)') /\ (Kept(j) => Kept(j)')
        <4>1. Waiting(j) => j \in dropped'
          BY <1>1 DEF Waiting
        <4>2. Kept(j) => Kept(j)'
          BY <1>1, <3>1 DEF Kept
        <4> QED BY <4>1, <4>2 DEF Waiting
      <3> QED BY <1>5, <3>2 DEF Calm, AllKept
    <2> QED BY <2>2, <2>4, <2>5, <2>6 DEF Calm
  <1> QED BY <1>1, <1>4, <1>5 DEF IInv

\* Every step preserves the invariant.
LEMMA NextInv == IInv /\ [Next]_vars => IInv'
  <1> SUFFICES ASSUME IInv, [Next]_vars PROVE IInv'
    OBVIOUS
  <1>1. CASE UNCHANGED vars
    <2>1. UNCHANGED <<pending, dropped, queue, rows, selected, submitted, ticket_index, paid,
                      marking, callers, net, batches, disturbed>>
      BY <1>1 DEF vars, pipeVars, redeemVars, aggVars
    <2>2. Types'
      BY <2>1 DEF IInv, Types
    <2>3. Calm => Calm'
      BY <2>1, QuietCalm
    <2> QED BY <2>1, <2>2, <2>3 DEF IInv
  <1>2. ASSUME NEW i \in Index, handle_acknowledgement(i) PROVE IInv'
    BY <1>2, AcknowledgementInv
  <1>3. CASE ProcessTicket
    BY <1>3, ProcessInv
  <1>4. ASSUME NEW c \in Caller, Aggregate(c) PROVE IInv'
    BY <1>4, PrepareInv, CallerFails, RollbackInv DEF Aggregate
  <1>5. ASSUME NEW m \in net, Transfer(m) PROVE IInv'
    BY <1>5, IssueInv, ReceiveInv DEF Transfer
  <1>6. ASSUME NEW r \in rows, Select(r) PROVE IInv'
    BY <1>6, SelectInv
  <1>7. ASSUME NEW t \in selected, MarkBeingRedeemed(t) PROVE IInv'
    BY <1>7, MarkBeingRedeemedInv
  <1>8. ASSUME NEW t \in submitted, RedeemFails(t) \/ Redeemed(t) PROVE IInv'
    BY <1>8, RedeemFailsInv, RedeemedInv
  <1>9. CASE MarkRedeemed \/ MarkNeglected
    BY <1>9, MarkInv
  <1>10. CASE Crash
    BY <1>10, CrashInv
  <1> QED BY <1>1, <1>2, <1>3, <1>4, <1>5, <1>6, <1>7, <1>8, <1>9, <1>10 DEF Next

\* The invariant holds in every reachable state, whatever the tickets, callers and
\* bounds.
THEOREM Invariance == Spec => []IInv
  <1> QED BY InitInv, NextInv, PTL DEF Spec

\* Every variable has its type, and no two rows share an index, although the task
\* that empties the queue, callers and redeemers all write to the database.
THEOREM TypeCorrect == Spec => []TypeOK
  <1>1. IInv => TypeOK
    <2> SUFFICES ASSUME IInv PROVE TypeOK
      OBVIOUS
    <2>1. Types
      BY DEF IInv
    <2>2. Sound \subseteq Ticket
      BY DEF Sound
    <2>3. \A k \in DOMAIN queue : queue[k].op \in {"Insert", "Replace"} /\ queue[k].ticket \in Ticket
      BY <2>1, <2>2, Elements DEF Operation
    <2>4. rows \subseteq [ticket : Ticket, state : State]
      BY <2>1, <2>2 DEF Types, RowsOK
    <2>5. net \subseteq [type : {"Request", "Reply"}, batch : 1 .. MaxAggregation,
                         tickets : SUBSET Ticket]
      BY <2>1, <2>2 DEF Types, NetOK, Message
    <2> QED BY <2>1, <2>2, <2>3, <2>4, <2>5 DEF Types, TypeOK, RowsOK, QueueOK
  <1> QED BY <1>1, Invariance, PTL

\* No ticket is paid twice, once by itself and once inside an aggregate, although
\* redeemers and aggregations work on the same rows, unless a disturbance happened.
THEOREM PaidOnceTheorem == Spec => []PaidOnce
  <1>1. IInv => PaidOnce
    BY DEF IInv, Calm, Once, PaidOnce
  <1> QED BY <1>1, Invariance, PTL

\* An acknowledged ticket that found room in the queue stays in the queue or in the
\* database until it is paid or passed, unless a disturbance happened.
THEOREM NothingLostTheorem == Spec => []NothingLost
  <1>1. IInv => NothingLost
    <2> SUFFICES ASSUME Calm, NEW i \in Index
                 PROVE  \/ i \in pending \cup dropped \cup InQueue \cup InDatabase
                        \/ i < ticket_index \/ paid[i] > 0
      BY DEF IInv, NothingLost
    <2>1. CASE Kept(i)
      BY <2>1 DEF Kept
    <2>2. CASE Waiting(i)
      <3>1. ASSUME NEW k \in DOMAIN queue, queue[k] = Insertion(i) PROVE i \in InQueue
        <4>1. i \in queue[k].ticket.pays
          BY <3>1, PlainFacts
        <4> QED BY <4>1 DEF InQueue
      <3> QED BY <2>2, <3>1 DEF Waiting
    <2> QED BY <2>1, <2>2 DEF Calm, AllKept
  <1> QED BY <1>1, Invariance, PTL
================================================================================
