------------------------- MODULE EventPollerProofs -------------------------
(***************************************************************************)
(* Proofs about the delivery of ui_events, for any databases, listeners,   *)
(* rows and failing queries, and any capacity of the channels.             *)
(***************************************************************************)
EXTENDS EventPoller, SequenceTheorems, WellFoundedInduction, TLAPS

-----------------------------------------------------------------------------
(* Where the rows of a database are on their way to a listener. *)

Occurs(x, q) == \E i \in 1..Len(q) : q[i] = x
OnceIn(q)    == \A i, j \in 1..Len(q) : q[i] = q[j] => i = j

\* The ids of a database in a sequence of batches.
IdsIn(q, d) == {n \in Ids : \E i \in 1..Len(q) : q[i].db = d /\ n \in q[i].ids}
UnionOf(q) == {n \in Ids : \E i \in 1..Len(q) : n \in q[i]}

ReadIds(l, d)  == IdsIn(received[l], d)
InboxIds(l, d) == IdsIn(inbox[l], d)
MergeIds(l, d) == {n \in Ids : /\ merge # NoMerge /\ merge.batch.db = d /\ n \in merge.batch.ids
                               /\ Occurs(l, merge.todo)}
ChannelIds(d)  == UnionOf(channel[d])
PollIds(d)     == poller[d].ids
\* Between the read and the delete a row that was read is still in the table.
TableIds(d)    == IF poller[d].pc = "delete" THEN table[d] \ poller[d].ids ELSE table[d]

\* The row m may be sent before the row n, where o are the overtaken rows.
Before(o, d, m, n) == m < n \/ (m # n /\ <<d, n>> \in o)
Ahead(o, d, A, B) == \A m \in A, n \in B : Before(o, d, m, n)
Sorted(o, q) == \A i, j \in 1..Len(q) : i < j /\ q[i].db = q[j].db => Ahead(o, q[i].db, q[i].ids, q[j].ids)
SortedSets(o, d, q) == \A i, j \in 1..Len(q) : i < j => Ahead(o, d, q[i], q[j])

\* Each stage is ahead of the ones behind it.
Chain(o, d, R, I, M, C, P, T) ==
    /\ Ahead(o, d, R, I \cup M \cup C \cup P \cup T)
    /\ Ahead(o, d, I, M \cup C \cup P \cup T)
    /\ Ahead(o, d, M, C \cup P \cup T)
    /\ Ahead(o, d, C, P \cup T)
    /\ Ahead(o, d, P, T)

-----------------------------------------------------------------------------
(* The inductive invariant. *)

\* A row is written and committed once.
FreshInv ==
    \A d \in Databases : /\ \A i \in writing[d] \cup committed[d] : i < nextId[d]
                         /\ writing[d] \cap committed[d] = {}

\* What is on its way has been committed.
CommittedInv ==
    \A d \in Databases :
        /\ table[d] \cup PollIds(d) \cup ChannelIds(d) \subseteq committed[d]
        /\ \A l \in Listeners : MergeIds(l, d) \cup InboxIds(l, d) \cup ReadIds(l, d) \subseteq committed[d]

\* A row committed between the read and the delete has a higher id than all that
\* were read, or was overtaken by one of them.
PollInv ==
    \A d \in Databases :
        /\ poller[d].pc \in {"delete", "send"} <=> poller[d].ids # {}
        /\ poller[d].pc = "delete" => Ahead(overtaken, d, poller[d].ids, table[d] \ poller[d].ids)

\* Each listener is in one place, once, while it is there.
RegistryInv ==
    /\ merge # NoMerge => listeners = <<>>
    /\ OnceIn(listeners) /\ OnceIn(merge.todo) /\ OnceIn(merge.alive)
    /\ \A l \in Listeners : ~(Occurs(l, merge.todo) /\ Occurs(l, merge.alive))
    /\ \A l \in Listeners : client[l] = "open" =>
          Occurs(l, listeners) \/ Occurs(l, merge.todo) \/ Occurs(l, merge.alive)
    /\ \A l \in Listeners : client[l] = "new" =>
          owed[l] = {} /\ ~Occurs(l, listeners) /\ ~Occurs(l, merge.todo) /\ ~Occurs(l, merge.alive)

\* What a listener is owed and was not overtaken is with it or on its way.
KeptInv ==
    \A l \in Listeners, d \in Databases : client[l] = "open" =>
        \A n \in Ids : <<d, n>> \in owed[l] \ overtaken =>
            n \in table[d] \cup PollIds(d) \cup ChannelIds(d) \cup MergeIds(l, d) \cup InboxIds(l, d) \cup ReadIds(l, d)

\* From the table to the listener the rows stay in order.
OrderInv ==
    /\ \A l \in Listeners, d \in Databases : SortedSets(overtaken, d, channel[d])
    /\ \A l \in Listeners : Sorted(overtaken, received[l]) /\ Sorted(overtaken, inbox[l])
    /\ \A l \in Listeners, d \in Databases :
          Chain(overtaken, d, ReadIds(l, d), InboxIds(l, d), MergeIds(l, d), ChannelIds(d), PollIds(d), TableIds(d))

IInv == TypeOK /\ FreshInv /\ CommittedInv /\ PollInv /\ RegistryInv /\ KeptInv /\ (faults = 0 => OrderInv)

-----------------------------------------------------------------------------
(* Sequences: one element is appended, or the first is taken. *)

LEMMA Appended ==
    ASSUME NEW S, NEW q \in Seq(S), NEW x \in S, NEW r, r = Append(q, x)
    PROVE  /\ r \in Seq(S) /\ Len(q) \in Nat /\ Len(r) = Len(q) + 1
           /\ r[Len(q) + 1] = x /\ \A i \in 1..Len(q) : r[i] = q[i]
  BY AppendProperties, LenProperties

LEMMA Popped ==
    ASSUME NEW S, NEW q \in Seq(S), q # <<>>, NEW r, r = Tail(q)
    PROVE  /\ r \in Seq(S) /\ Len(r) \in Nat /\ Len(q) = Len(r) + 1 /\ Head(q) = q[1] /\ Head(q) \in S
           /\ \A i \in 1..Len(r) : r[i] = q[i + 1]
  <1>1. /\ Head(q) \in S /\ Tail(q) \in Seq(S) /\ Len(Tail(q)) = Len(q) - 1
        /\ \A i \in 1..Len(Tail(q)) : Tail(q)[i] = q[i + 1]
    BY HeadTailProperties
  <1>2. Len(q) \in Nat /\ Len(r) \in Nat
    BY <1>1, LenProperties
  <1>3. Head(q) = q[1]
    OBVIOUS
  <1> QED
    BY <1>1, <1>2, <1>3

LEMMA OccursAppend ==
    ASSUME NEW S, NEW q \in Seq(S), NEW x \in S, NEW r, r = Append(q, x), NEW y
    PROVE  Occurs(y, r) <=> Occurs(y, q) \/ y = x
  <1>1. /\ r \in Seq(S) /\ Len(q) \in Nat /\ Len(r) = Len(q) + 1
        /\ r[Len(q) + 1] = x /\ \A i \in 1..Len(q) : r[i] = q[i]
    BY Appended
  <1>2. ASSUME NEW i \in 1..Len(r) PROVE i \in 1..Len(q) \/ i = Len(q) + 1
    BY <1>1, <1>2
  <1>3. Len(q) + 1 \in 1..Len(r) /\ \A i \in 1..Len(q) : i \in 1..Len(r)
    BY <1>1
  <1> QED
    BY <1>1, <1>2, <1>3 DEF Occurs

LEMMA OccursTail ==
    ASSUME NEW S, NEW q \in Seq(S), q # <<>>, NEW r, r = Tail(q), NEW y
    PROVE  Occurs(y, q) <=> Occurs(y, r) \/ y = Head(q)
  <1>1. /\ Len(r) \in Nat /\ Len(q) = Len(r) + 1 /\ Head(q) = q[1]
        /\ \A i \in 1..Len(r) : r[i] = q[i + 1]
    BY Popped
  <1>2. ASSUME NEW i \in 1..Len(q), i # 1 PROVE i - 1 \in 1..Len(r) /\ r[i - 1] = q[i]
    <2>1. i - 1 \in 1..Len(r) /\ (i - 1) + 1 = i
      BY <1>1, <1>2
    <2> QED
      BY <1>1, <2>1
  <1>3. 1 \in 1..Len(q) /\ \A i \in 1..Len(r) : i + 1 \in 1..Len(q)
    BY <1>1
  <1> QED
    BY <1>1, <1>2, <1>3 DEF Occurs

LEMMA OnceAppend ==
    ASSUME NEW S, NEW q \in Seq(S), NEW x \in S, NEW r, r = Append(q, x), OnceIn(q), ~Occurs(x, q)
    PROVE  OnceIn(r)
  <1>1. /\ r \in Seq(S) /\ Len(q) \in Nat /\ Len(r) = Len(q) + 1
        /\ r[Len(q) + 1] = x /\ \A i \in 1..Len(q) : r[i] = q[i]
    BY Appended
  <1>2. ASSUME NEW i \in 1..Len(r) PROVE i \in 1..Len(q) \/ i = Len(q) + 1
    BY <1>1, <1>2
  <1> QED
    BY <1>1, <1>2 DEF Occurs, OnceIn

LEMMA OnceTail ==
    ASSUME NEW S, NEW q \in Seq(S), q # <<>>, NEW r, r = Tail(q), OnceIn(q)
    PROVE  OnceIn(r) /\ ~Occurs(Head(q), r)
  <1>1. /\ Len(r) \in Nat /\ Len(q) = Len(r) + 1 /\ Head(q) = q[1]
        /\ \A i \in 1..Len(r) : r[i] = q[i + 1]
    BY Popped
  <1>2. 1 \in 1..Len(q) /\ \A i \in 1..Len(r) : i + 1 \in 1..Len(q) /\ i + 1 # 1
    BY <1>1
  <1>3. \A i, j \in 1..Len(r) : i + 1 = j + 1 => i = j
    BY <1>1
  <1> QED
    BY <1>1, <1>2, <1>3 DEF Occurs, OnceIn

\* What a batch holds of a database.
Part(b, d) == {n \in Ids : b.db = d /\ n \in b.ids}

LEMMA BatchFields ==
    /\ \A b \in Batch : b.db \in Databases /\ b.ids \subseteq Ids /\ Part(b, b.db) = b.ids
    /\ \A b \in Batch : \A d : d # b.db => Part(b, d) = {}
  BY DEF Batch, Part

LEMMA IdsAppend ==
    ASSUME NEW q \in Seq(Batch), NEW b \in Batch, NEW r, r = Append(q, b), NEW d
    PROVE  IdsIn(r, d) = IdsIn(q, d) \cup Part(b, d)
  <1>1. /\ r \in Seq(Batch) /\ Len(q) \in Nat /\ Len(r) = Len(q) + 1
        /\ r[Len(q) + 1] = b /\ \A i \in 1..Len(q) : r[i] = q[i]
    BY Appended
  <1>2. ASSUME NEW i \in 1..Len(r) PROVE i \in 1..Len(q) \/ i = Len(q) + 1
    BY <1>1, <1>2
  <1>3. Len(q) + 1 \in 1..Len(r) /\ \A i \in 1..Len(q) : i \in 1..Len(r)
    BY <1>1
  <1>4. ASSUME NEW n \in Ids PROVE n \in IdsIn(r, d) <=> n \in IdsIn(q, d) \/ n \in Part(b, d)
    BY <1>1, <1>2, <1>3 DEF IdsIn, Part
  <1>5. IdsIn(r, d) \subseteq Ids /\ IdsIn(q, d) \subseteq Ids /\ Part(b, d) \subseteq Ids
    BY DEF IdsIn, Part
  <1> QED
    BY <1>4, <1>5

LEMMA IdsTail ==
    ASSUME NEW q \in Seq(Batch), q # <<>>, NEW r, r = Tail(q), NEW d
    PROVE  IdsIn(q, d) = IdsIn(r, d) \cup Part(Head(q), d)
  <1>1. /\ Len(r) \in Nat /\ Len(q) = Len(r) + 1 /\ Head(q) = q[1]
        /\ \A i \in 1..Len(r) : r[i] = q[i + 1]
    BY Popped
  <1>2. ASSUME NEW i \in 1..Len(q), i # 1 PROVE i - 1 \in 1..Len(r) /\ r[i - 1] = q[i]
    <2>1. i - 1 \in 1..Len(r) /\ (i - 1) + 1 = i
      BY <1>1, <1>2
    <2> QED
      BY <1>1, <2>1
  <1>3. 1 \in 1..Len(q) /\ \A i \in 1..Len(r) : i + 1 \in 1..Len(q)
    BY <1>1
  <1>4. ASSUME NEW n \in Ids PROVE n \in IdsIn(q, d) <=> n \in IdsIn(r, d) \/ n \in Part(Head(q), d)
    BY <1>1, <1>2, <1>3 DEF IdsIn, Part
  <1>5. IdsIn(r, d) \subseteq Ids /\ IdsIn(q, d) \subseteq Ids /\ Part(Head(q), d) \subseteq Ids
    BY DEF IdsIn, Part
  <1> QED
    BY <1>4, <1>5

LEMMA IdsEmpty == (\A d : IdsIn(<<>>, d) = {}) /\ UnionOf(<<>>) = {} /\ \A x : ~Occurs(x, <<>>)
  <1>1. Len(<<>>) = 0
    OBVIOUS
  <1> QED
    BY <1>1 DEF IdsIn, UnionOf, Occurs

LEMMA UnionAppend ==
    ASSUME NEW q \in Seq(SUBSET Ids), NEW B \in SUBSET Ids, NEW r, r = Append(q, B)
    PROVE  UnionOf(r) = UnionOf(q) \cup B
  <1>1. /\ r \in Seq(SUBSET Ids) /\ Len(q) \in Nat /\ Len(r) = Len(q) + 1
        /\ r[Len(q) + 1] = B /\ \A i \in 1..Len(q) : r[i] = q[i]
    BY Appended
  <1>2. ASSUME NEW i \in 1..Len(r) PROVE i \in 1..Len(q) \/ i = Len(q) + 1
    BY <1>1, <1>2
  <1>3. Len(q) + 1 \in 1..Len(r) /\ \A i \in 1..Len(q) : i \in 1..Len(r)
    BY <1>1
  <1>4. ASSUME NEW n \in Ids PROVE n \in UnionOf(r) <=> n \in UnionOf(q) \/ n \in B
    BY <1>1, <1>2, <1>3 DEF UnionOf
  <1>5. UnionOf(r) \subseteq Ids /\ UnionOf(q) \subseteq Ids
    BY DEF UnionOf
  <1> QED
    BY <1>4, <1>5

LEMMA UnionTail ==
    ASSUME NEW q \in Seq(SUBSET Ids), q # <<>>, NEW r, r = Tail(q)
    PROVE  UnionOf(q) = UnionOf(r) \cup Head(q)
  <1>1. /\ Len(r) \in Nat /\ Len(q) = Len(r) + 1 /\ Head(q) = q[1] /\ Head(q) \in SUBSET Ids
        /\ \A i \in 1..Len(r) : r[i] = q[i + 1]
    BY Popped
  <1>2. ASSUME NEW i \in 1..Len(q), i # 1 PROVE i - 1 \in 1..Len(r) /\ r[i - 1] = q[i]
    <2>1. i - 1 \in 1..Len(r) /\ (i - 1) + 1 = i
      BY <1>1, <1>2
    <2> QED
      BY <1>1, <2>1
  <1>3. 1 \in 1..Len(q) /\ \A i \in 1..Len(r) : i + 1 \in 1..Len(q)
    BY <1>1
  <1>4. ASSUME NEW n \in Ids PROVE n \in UnionOf(q) <=> n \in UnionOf(r) \/ n \in Head(q)
    BY <1>1, <1>2, <1>3 DEF UnionOf
  <1>5. UnionOf(r) \subseteq Ids /\ UnionOf(q) \subseteq Ids
    BY DEF UnionOf
  <1> QED
    BY <1>1, <1>4, <1>5

-----------------------------------------------------------------------------
(* Order. *)

LEMMA SortedAppend ==
    ASSUME NEW o, NEW q \in Seq(Batch), NEW b \in Batch, NEW r, r = Append(q, b),
           Sorted(o, q), Ahead(o, b.db, IdsIn(q, b.db), b.ids)
    PROVE  Sorted(o, r)
  <1>1. /\ r \in Seq(Batch) /\ Len(q) \in Nat /\ Len(r) = Len(q) + 1
        /\ r[Len(q) + 1] = b /\ \A i \in 1..Len(q) : r[i] = q[i]
    BY Appended
  <1> SUFFICES ASSUME NEW i \in 1..Len(r), NEW j \in 1..Len(r), i < j, r[i].db = r[j].db
               PROVE  Ahead(o, r[i].db, r[i].ids, r[j].ids)
    BY DEF Sorted
  <1>2. i \in 1..Len(q) /\ (j \in 1..Len(q) \/ j = Len(q) + 1)
    BY <1>1
  <1>3. CASE j \in 1..Len(q)
    BY <1>1, <1>2, <1>3 DEF Sorted
  <1>4. CASE j = Len(q) + 1
    <2>1. q[i] \in Batch /\ r[j] = b /\ r[i] = q[i] /\ q[i].db = b.db
      BY <1>1, <1>2, <1>4
    <2>2. q[i].ids \subseteq IdsIn(q, b.db)
      BY <1>2, <2>1, BatchFields DEF IdsIn
    <2> QED
      BY <2>1, <2>2 DEF Ahead
  <1> QED
    BY <1>2, <1>3, <1>4

LEMMA SortedTail ==
    ASSUME NEW o, NEW q \in Seq(Batch), q # <<>>, NEW r, r = Tail(q), Sorted(o, q)
    PROVE  Sorted(o, r) /\ Ahead(o, Head(q).db, Head(q).ids, IdsIn(r, Head(q).db))
  <1>1. /\ Len(r) \in Nat /\ Len(q) = Len(r) + 1 /\ Head(q) = q[1]
        /\ \A i \in 1..Len(r) : r[i] = q[i + 1]
    BY Popped
  <1>2. 1 \in 1..Len(q) /\ \A i \in 1..Len(r) : i + 1 \in 1..Len(q) /\ 1 < i + 1
    BY <1>1
  <1>3. \A i, j \in 1..Len(r) : i < j => i + 1 < j + 1
    BY <1>1
  <1>4. Sorted(o, r)
    BY <1>1, <1>2, <1>3 DEF Sorted
  <1>5. ASSUME NEW i \in 1..Len(r), r[i].db = Head(q).db PROVE Ahead(o, Head(q).db, Head(q).ids, r[i].ids)
    BY <1>1, <1>2, <1>5 DEF Sorted
  <1> QED
    BY <1>4, <1>5 DEF Ahead, IdsIn

LEMMA SortedMore ==
    ASSUME NEW o, NEW p, o \subseteq p, NEW q
    PROVE  (Sorted(o, q) => Sorted(p, q)) /\ \A d : SortedSets(o, d, q) => SortedSets(p, d, q)
  BY DEF Sorted, SortedSets, Ahead, Before

LEMMA SetsAppend ==
    ASSUME NEW o, NEW d, NEW q \in Seq(SUBSET Ids), NEW B \in SUBSET Ids, NEW r, r = Append(q, B),
           SortedSets(o, d, q), Ahead(o, d, UnionOf(q), B)
    PROVE  SortedSets(o, d, r)
  <1>1. /\ r \in Seq(SUBSET Ids) /\ Len(q) \in Nat /\ Len(r) = Len(q) + 1
        /\ r[Len(q) + 1] = B /\ \A i \in 1..Len(q) : r[i] = q[i]
    BY Appended
  <1> SUFFICES ASSUME NEW i \in 1..Len(r), NEW j \in 1..Len(r), i < j
               PROVE  Ahead(o, d, r[i], r[j])
    BY DEF SortedSets
  <1>2. i \in 1..Len(q) /\ (j \in 1..Len(q) \/ j = Len(q) + 1)
    BY <1>1
  <1>3. CASE j \in 1..Len(q)
    BY <1>1, <1>2, <1>3 DEF SortedSets
  <1>4. CASE j = Len(q) + 1
    <2>1. q[i] \in SUBSET Ids /\ r[j] = B /\ r[i] = q[i]
      BY <1>1, <1>2, <1>4
    <2>2. q[i] \subseteq UnionOf(q)
      BY <1>2, <2>1 DEF UnionOf
    <2> QED
      BY <2>1, <2>2 DEF Ahead
  <1> QED
    BY <1>2, <1>3, <1>4

LEMMA SetsTail ==
    ASSUME NEW o, NEW d, NEW q \in Seq(SUBSET Ids), q # <<>>, NEW r, r = Tail(q), SortedSets(o, d, q)
    PROVE  SortedSets(o, d, r) /\ Ahead(o, d, Head(q), UnionOf(r))
  <1>1. /\ Len(r) \in Nat /\ Len(q) = Len(r) + 1 /\ Head(q) = q[1]
        /\ \A i \in 1..Len(r) : r[i] = q[i + 1]
    BY Popped
  <1>2. 1 \in 1..Len(q) /\ \A i \in 1..Len(r) : i + 1 \in 1..Len(q) /\ 1 < i + 1
    BY <1>1
  <1>3. \A i, j \in 1..Len(r) : i < j => i + 1 < j + 1
    BY <1>1
  <1>4. SortedSets(o, d, r)
    BY <1>1, <1>2, <1>3 DEF SortedSets
  <1>5. ASSUME NEW i \in 1..Len(r) PROVE Ahead(o, d, Head(q), r[i])
    BY <1>1, <1>2 DEF SortedSets
  <1> QED
    BY <1>4, <1>5 DEF Ahead, UnionOf

\* A set of ids that is not empty has a greatest one.
LEMMA MaxOfIds ==
    ASSUME NEW S \in SUBSET Ids, S # {}
    PROVE  MaxOf(S) \in S /\ \A j \in S : j <= MaxOf(S)
  <1>1. MaxId \in Nat /\ \A i \in S : i \in Nat /\ MaxId - i \in Nat
    BY BoundsAssumption DEF Ids
  <1> DEFINE T == {MaxId - i : i \in S}
             L == OpToRel(<, Nat)
  <1>2. T \subseteq Nat /\ T # {}
    BY <1>1
  <1>3. \A x, y \in Nat : y < x => <<y, x>> \in L
    BY DEF OpToRel
  <1>4. IsWellFoundedOn(L, Nat)
    BY NatLessThanWellFounded
  <1> HIDE DEF L
  <1>5. PICK x \in T : \A y \in T : ~(<<y, x>> \in L)
    <2> HIDE DEF T
    <2> QED
      BY <1>2, <1>4, WFMin
  <1>6. PICK i \in S : x = MaxId - i
    OBVIOUS
  <1>7. ASSUME NEW j \in S PROVE j <= i
    <2>1. MaxId - j \in T /\ MaxId - j \in Nat /\ x \in Nat
      BY <1>1, <1>6
    <2>2. ~(MaxId - j < x)
      BY <1>3, <1>5, <2>1
    <2> QED
      BY <1>1, <1>6, <2>2
  <1>8. \E k \in S : \A j \in S : j <= k
    BY <1>7
  <1> QED
    BY <1>8 DEF MaxOf

LEMMA AheadMore ==
    ASSUME NEW o, NEW p, o \subseteq p, NEW d, NEW A, NEW B, Ahead(o, d, A, B), NEW X, NEW Y, X \subseteq A, Y \subseteq B
    PROVE  Ahead(p, d, X, Y)
  BY DEF Ahead, Before

LEMMA ChainLess ==
    ASSUME NEW o, NEW d, NEW R, NEW I, NEW M, NEW C, NEW P, NEW T, Chain(o, d, R, I, M, C, P, T),
           NEW I2, I2 \subseteq I, NEW M2, M2 \subseteq M, NEW C2, C2 \subseteq C, NEW T2, T2 \subseteq T
    PROVE  Chain(o, d, R, I2, M2, C2, P, T2)
  BY DEF Chain, Ahead

LEMMA ChainCommit ==
    ASSUME NEW o, NEW d, NEW R, NEW I, NEW M, NEW C, NEW P, NEW T, Chain(o, d, R, I, M, C, P, T),
           NEW p, o \subseteq p, NEW i, NEW T2, T2 \subseteq T \cup {i},
           Ahead(p, d, R \cup I \cup M \cup C \cup P, {i})
    PROVE  Chain(p, d, R, I, M, C, P, T2)
  <1>1. /\ Ahead(p, d, R, I \cup M \cup C \cup P \cup T) /\ Ahead(p, d, I, M \cup C \cup P \cup T)
        /\ Ahead(p, d, M, C \cup P \cup T) /\ Ahead(p, d, C, P \cup T) /\ Ahead(p, d, P, T)
    BY AheadMore DEF Chain
  <1> QED
    BY <1>1 DEF Chain, Ahead

\* The rows are read, the batch is sent, received, dispatched and read.
LEMMA ChainFetch ==
    ASSUME NEW o, NEW d, NEW R, NEW I, NEW M, NEW C, NEW T, Chain(o, d, R, I, M, C, {}, T)
    PROVE  Chain(o, d, R, I, M, C, T, {})
  BY DEF Chain, Ahead

LEMMA ChainSend ==
    ASSUME NEW o, NEW d, NEW R, NEW I, NEW M, NEW C, NEW P, NEW T, Chain(o, d, R, I, M, C, P, T)
    PROVE  Chain(o, d, R, I, M, C \cup P, {}, T)
  BY DEF Chain, Ahead

LEMMA ChainMerge ==
    ASSUME NEW o, NEW d, NEW R, NEW I, NEW C, NEW P, NEW T, NEW H, Chain(o, d, R, I, {}, C \cup H, P, T),
           Ahead(o, d, H, C), NEW M, M \subseteq H
    PROVE  Chain(o, d, R, I, M, C, P, T)
  BY DEF Chain, Ahead

LEMMA ChainInbox ==
    ASSUME NEW o, NEW d, NEW R, NEW I, NEW M, NEW C, NEW P, NEW T, Chain(o, d, R, I, M, C, P, T)
    PROVE  Chain(o, d, R, I \cup M, {}, C, P, T)
  BY DEF Chain, Ahead

LEMMA ChainRead ==
    ASSUME NEW o, NEW d, NEW R, NEW I, NEW M, NEW C, NEW P, NEW T, NEW H, Chain(o, d, R, I \cup H, M, C, P, T),
           Ahead(o, d, H, I)
    PROVE  Chain(o, d, R \cup H, I, M, C, P, T)
  BY DEF Chain, Ahead

-----------------------------------------------------------------------------
(* The initial states, and steps that move no row. *)

LEMMA NoMergeFields == NoMerge.todo = <<>> /\ NoMerge.alive = <<>>
  BY Zenon DEF NoMerge

LEMMA InvInit == Init => IInv
  <1> SUFFICES ASSUME Init PROVE IInv
    OBVIOUS
  <1>1. /\ MaxId \in Nat /\ MaxFaults \in Nat /\ ChannelCap \in Nat
        /\ \A S : <<>> \in Seq(S)
    BY BoundsAssumption, ChannelCapAssumption
  <1>2. Len(<<>>) = 0
    OBVIOUS
  <1>3. TypeOK
    <2>1. nextId \in [Databases -> 1..MaxId + 1]
      BY <1>1 DEF Init
    <2>2. poller \in [Databases -> [pc : {"wait", "fetch", "delete", "send"}, ids : SUBSET Ids]]
      BY DEF Init
    <2>3. /\ channel \in [Databases -> Seq(SUBSET Ids)] /\ inbox \in [Listeners -> Seq(Batch)]
          /\ received \in [Listeners -> Seq(Batch)] /\ listeners \in Seq(Listeners)
      BY <1>1 DEF Init
    <2>4. /\ \A d \in Databases : Len(channel[d]) <= ChannelCap
          /\ \A l \in Listeners : Len(inbox[l]) <= ChannelCap
      BY <1>1, <1>2 DEF Init
    <2> QED
      BY <1>1, <2>1, <2>2, <2>3, <2>4 DEF Init, TypeOK
  <1>4. FreshInv
    BY DEF Init, FreshInv
  <1>5. /\ \A d \in Databases : table[d] = {} /\ PollIds(d) = {} /\ ChannelIds(d) = {} /\ TableIds(d) = {}
        /\ \A l \in Listeners, d \in Databases : MergeIds(l, d) = {} /\ InboxIds(l, d) = {} /\ ReadIds(l, d) = {}
    BY IdsEmpty DEF Init, PollIds, ChannelIds, TableIds, MergeIds, InboxIds, ReadIds
  <1>6. CommittedInv
    BY <1>5 DEF CommittedInv
  <1>7. PollInv
    BY DEF Init, PollInv
  <1>8. RegistryInv
    <2>1. merge = NoMerge /\ listeners = <<>> /\ merge.todo = <<>> /\ merge.alive = <<>>
      BY NoMergeFields DEF Init
    <2>2. \A l \in Listeners : client[l] = "new" /\ owed[l] = {}
      BY DEF Init
    <2>3. OnceIn(<<>>)
      BY <1>2 DEF OnceIn
    <2> QED
      BY <2>1, <2>2, <2>3, IdsEmpty DEF RegistryInv
  <1>9. KeptInv
    BY DEF Init, KeptInv
  <1>10. OrderInv
    <2>1. \A o, d : SortedSets(o, d, <<>>) /\ Sorted(o, <<>>)
      BY <1>2 DEF Sorted, SortedSets
    <2>2. \A o, d : Chain(o, d, {}, {}, {}, {}, {}, {})
      BY DEF Chain, Ahead
    <2>3. (\A d \in Databases : channel[d] = <<>>) /\ \A l \in Listeners : received[l] = <<>> /\ inbox[l] = <<>>
      BY DEF Init
    <2> QED
      BY <1>5, <2>1, <2>2, <2>3 DEF OrderInv
  <1> QED
    BY <1>3, <1>4, <1>6, <1>7, <1>8, <1>9, <1>10 DEF IInv

LEMMA RegistrySame ==
    ASSUME IInv, UNCHANGED <<listeners, merge, client, owed>>
    PROVE  RegistryInv'
  BY DEF IInv, RegistryInv, OnceIn, Occurs

LEMMA SetsSame ==
    ASSUME UNCHANGED <<channel, merge, inbox, received>>
    PROVE  /\ \A d : ChannelIds(d)' = ChannelIds(d)
           /\ \A l, d : MergeIds(l, d)' = MergeIds(l, d) /\ InboxIds(l, d)' = InboxIds(l, d)
                        /\ ReadIds(l, d)' = ReadIds(l, d)
  BY DEF ChannelIds, UnionOf, MergeIds, Occurs, InboxIds, ReadIds, IdsIn

\* No row moves; a failing query ends the promise of order.
LEMMA Steady ==
    ASSUME IInv, UNCHANGED <<table, channel, delivery, observers>>, faults' = faults \/ faults' # 0,
           \A d \in Databases :
               /\ poller'[d].ids = poller[d].ids
               /\ poller'[d].pc = poller[d].pc \/ {poller[d].pc, poller'[d].pc} \subseteq {"wait", "fetch"}
    PROVE  CommittedInv' /\ PollInv' /\ RegistryInv' /\ KeptInv' /\ (faults' = 0 => OrderInv')
  <1>1. UNCHANGED <<listeners, merge, client, owed, inbox, received, committed, overtaken>>
    BY DEF delivery, observers
  <1>2. /\ \A d : ChannelIds(d)' = ChannelIds(d)
        /\ \A l, d : MergeIds(l, d)' = MergeIds(l, d) /\ InboxIds(l, d)' = InboxIds(l, d)
                     /\ ReadIds(l, d)' = ReadIds(l, d)
    BY <1>1, SetsSame
  <1>3. \A d \in Databases : /\ PollIds(d)' = PollIds(d) /\ TableIds(d)' = TableIds(d) /\ table'[d] = table[d]
                             /\ poller[d].pc = "delete" <=> poller'[d].pc = "delete"
                             /\ poller[d].pc \in {"delete", "send"} <=> poller'[d].pc \in {"delete", "send"}
    BY DEF PollIds, TableIds
  <1>4. CommittedInv'
    BY <1>1, <1>2, <1>3 DEF IInv, CommittedInv
  <1>5. PollInv'
    <2>1. PollInv
      BY DEF IInv
    <2> QED
      BY <1>1, <1>3, <2>1 DEF PollInv
  <1>6. RegistryInv'
    BY <1>1, RegistrySame
  <1>7. KeptInv'
    BY <1>1, <1>2, <1>3 DEF IInv, KeptInv
  <1>8. ASSUME faults' = 0 PROVE OrderInv'
    <2>1. OrderInv
      BY <1>8 DEF IInv
    <2>2. (\A d \in Databases : channel'[d] = channel[d]) /\ \A l \in Listeners : received'[l] = received[l] /\ inbox'[l] = inbox[l]
      BY <1>1
    <2>3. \A d \in Databases : SortedSets(overtaken, d, channel[d])' = SortedSets(overtaken, d, channel[d])
      BY <1>1, <2>2 DEF SortedSets, Ahead, Before
    <2>4. \A l \in Listeners : /\ Sorted(overtaken, received[l])' = Sorted(overtaken, received[l])
                               /\ Sorted(overtaken, inbox[l])' = Sorted(overtaken, inbox[l])
      BY <1>1, <2>2 DEF Sorted, Ahead, Before
    <2> QED
      BY <1>1, <1>2, <1>3, <2>1, <2>3, <2>4 DEF OrderInv
  <1> QED
    BY <1>4, <1>5, <1>6, <1>7, <1>8

-----------------------------------------------------------------------------
(* Transactions and the rounds of a PgEventPoller. *)

Points == {"wait", "fetch", "delete", "send"}
Pollers == [pc : Points, ids : SUBSET Ids]

LEMMA PollerFields ==
    /\ \A r \in Pollers : r.pc \in Points /\ r.ids \subseteq Ids
    /\ Idle \in Pollers /\ Idle.pc = "wait" /\ Idle.ids = {}
    /\ \A S \in SUBSET Ids : /\ [pc |-> "delete", ids |-> S] \in Pollers
                             /\ [pc |-> "delete", ids |-> S].pc = "delete" /\ [pc |-> "delete", ids |-> S].ids = S
  BY DEF Pollers, Points, Idle

LEMMA TypeFacts ==
    ASSUME IInv
    PROVE  /\ poller \in [Databases -> Pollers] /\ table \in [Databases -> SUBSET Ids]
           /\ writing \in [Databases -> SUBSET Ids] /\ committed \in [Databases -> SUBSET Ids]
           /\ nextId \in [Databases -> 1..MaxId + 1] /\ channel \in [Databases -> Seq(SUBSET Ids)]
           /\ listeners \in Seq(Listeners) /\ inbox \in [Listeners -> Seq(Batch)]
           /\ received \in [Listeners -> Seq(Batch)] /\ client \in [Listeners -> {"new", "open", "closed"}]
           /\ owed \in [Listeners -> SUBSET Event] /\ faults \in 0..MaxFaults
           /\ notified \in [Databases -> BOOLEAN] /\ listening \in [Databases -> BOOLEAN]
           /\ overtaken \subseteq Event
  BY DEF IInv, TypeOK, Pollers, Points

LEMMA FaultCounts ==
    ASSUME IInv, Fault
    PROVE  faults' \in 0..MaxFaults /\ faults' # 0
  BY BoundsAssumption, TypeFacts DEF Fault

LEMMA FreshSame ==
    ASSUME IInv, UNCHANGED <<writing, nextId, committed>>
    PROVE  FreshInv'
  BY DEF IInv, FreshInv

\* A row is written or rolled back, a round starts, or its query fails.
LEMMA WriteInv ==
    ASSUME IInv, NEW d \in Databases, Write(d) \/ \E i \in Ids : Rollback(d, i)
    PROVE  IInv'
  <1>1. UNCHANGED <<table, wake, poller, channel, delivery, faults, observers>>
    BY DEF Write, Rollback
  <1>2. UNCHANGED <<notified, listening, listeners, merge, inbox, client, received, committed, overtaken, owed>>
    BY <1>1 DEF wake, delivery, observers
  <1>3. /\ nextId' \in [Databases -> 1..MaxId + 1] /\ writing' \in [Databases -> SUBSET Ids]
        /\ FreshInv'
    <2>0. /\ nextId \in [Databases -> 1..MaxId + 1] /\ writing \in [Databases -> SUBSET Ids]
          /\ committed \in [Databases -> SUBSET Ids] /\ MaxId \in Nat /\ FreshInv
      BY TypeFacts, BoundsAssumption DEF IInv
    <2>1. CASE Write(d)
      <3>1. /\ nextId[d] <= MaxId /\ nextId' = [nextId EXCEPT ![d] = nextId[d] + 1]
            /\ writing' = [writing EXCEPT ![d] = writing[d] \cup {nextId[d]}]
        BY <2>1 DEF Write
      <3>2. nextId[d] \in Ids /\ nextId[d] + 1 \in 1..MaxId + 1 /\ nextId[d] \in Nat
        BY <2>0, <3>1 DEF Ids
      <3>3. nextId' \in [Databases -> 1..MaxId + 1] /\ writing' \in [Databases -> SUBSET Ids]
        BY <2>0, <3>1, <3>2
      <3>4. ASSUME NEW e \in Databases
            PROVE  (\A i \in writing'[e] \cup committed'[e] : i < nextId'[e]) /\ writing'[e] \cap committed'[e] = {}
        <4>1. (\A i \in writing[e] \cup committed[e] : i < nextId[e]) /\ writing[e] \cap committed[e] = {}
          BY <2>0 DEF FreshInv
        <4>2. CASE e # d
          BY <1>2, <2>0, <3>1, <4>1, <4>2
        <4>3. CASE e = d
          <5>1. writing'[d] = writing[d] \cup {nextId[d]} /\ nextId'[d] = nextId[d] + 1 /\ committed' = committed
            BY <1>2, <2>0, <3>1
          <5>2. \A i \in writing[d] \cup committed[d] : i \in Nat
            BY <2>0 DEF Ids
          <5>3. nextId[d] \notin committed[d]
            BY <3>2, <4>1, <4>3
          <5> QED
            BY <3>2, <4>1, <4>3, <5>1, <5>2, <5>3
        <4> QED
          BY <4>2, <4>3
      <3> QED
        BY <3>3, <3>4 DEF FreshInv
    <2>2. CASE \E i \in Ids : Rollback(d, i)
      <3>1. PICK i \in Ids : writing' = [writing EXCEPT ![d] = writing[d] \ {i}] /\ nextId' = nextId
        BY <2>2 DEF Rollback
      <3>2. writing' \in [Databases -> SUBSET Ids] /\ \A e \in Databases : writing'[e] \subseteq writing[e]
        BY <2>0, <3>1
      <3> QED
        BY <1>2, <2>0, <3>1, <3>2 DEF FreshInv
    <2> QED
      BY <2>1, <2>2
  <1>4. TypeOK'
    BY <1>1, <1>2, <1>3 DEF IInv, TypeOK
  <1>5. CommittedInv' /\ PollInv' /\ RegistryInv' /\ KeptInv' /\ (faults' = 0 => OrderInv')
    BY <1>1, Steady
  <1> QED
    BY <1>3, <1>4, <1>5 DEF IInv

LEMMA WakeInv ==
    ASSUME IInv, NEW d \in Databases, Wake(d) \/ (FetchEvents(d) /\ faults' # faults)
    PROVE  IInv'
  <1>1. UNCHANGED <<table, channel, delivery, observers, writing, nextId>>
    BY DEF Wake, WakeNotification, WakeTimeout, WakeListenError, FetchEvents, database
  <1>2. UNCHANGED <<listeners, merge, inbox, client, received, committed, overtaken, owed>>
    BY <1>1 DEF delivery, observers
  <1>3. PICK x \in {"wait", "fetch"} : poller' = [poller EXCEPT ![d].pc = x] /\ poller[d].pc \in {"wait", "fetch"}
    BY DEF Wake, WakeNotification, WakeTimeout, WakeListenError, FetchEvents, At, Goto
  <1>4. /\ poller' \in [Databases -> Pollers] /\ poller'[d].pc = x /\ poller'[d].ids = poller[d].ids
        /\ \A e \in Databases : e # d => poller'[e] = poller[e]
    <2>1. poller \in [Databases -> Pollers] /\ x \in Points
      BY TypeFacts DEF Points
    <2> QED
      BY <1>3, <2>1 DEF Pollers
  <1>5. faults' \in 0..MaxFaults /\ (faults' = faults \/ faults' # 0)
    <2>1. faults' = faults \/ Fault
      BY DEF Wake, WakeNotification, WakeTimeout, WakeListenError, FetchEvents
    <2> QED
      BY <2>1, TypeFacts, FaultCounts
  <1>6. notified' \in [Databases -> BOOLEAN] /\ listening' \in [Databases -> BOOLEAN]
    <2>1. notified \in [Databases -> BOOLEAN] /\ listening \in [Databases -> BOOLEAN]
      BY TypeFacts
    <2>2. /\ notified' = notified \/ notified' = [notified EXCEPT ![d] = FALSE]
          /\ listening' = listening \/ \E ok \in BOOLEAN : listening' = [listening EXCEPT ![d] = ok]
      BY DEF Wake, WakeNotification, WakeTimeout, WakeListenError, FetchEvents, wake
    <2> QED
      BY <2>1, <2>2
  <1>7. TypeOK'
    BY <1>1, <1>2, <1>4, <1>5, <1>6 DEF IInv, TypeOK, Pollers, Points
  <1>8. CommittedInv' /\ PollInv' /\ RegistryInv' /\ KeptInv' /\ (faults' = 0 => OrderInv')
    <2>1. \A e \in Databases :
               /\ poller'[e].ids = poller[e].ids
               /\ poller'[e].pc = poller[e].pc \/ {poller[e].pc, poller'[e].pc} \subseteq {"wait", "fetch"}
      BY <1>3, <1>4
    <2> QED
      BY <1>1, <1>5, <2>1, Steady
  <1>9. FreshInv'
    BY <1>1, <1>2, FreshSame
  <1> QED
    BY <1>7, <1>8, <1>9 DEF IInv

LEMMA ChainMore ==
    ASSUME NEW o, NEW p, o \subseteq p, NEW d, NEW R, NEW I, NEW M, NEW C, NEW P, NEW T,
           Chain(o, d, R, I, M, C, P, T)
    PROVE  Chain(p, d, R, I, M, C, P, T)
  BY AheadMore DEF Chain

\* A row becomes visible: all that is on its way was committed before it.
LEMMA CommitInv ==
    ASSUME IInv, NEW d \in Databases, NEW i \in Ids, Commit(d, i)
    PROVE  IInv'
  <1>1. /\ UNCHANGED <<nextId, listening, poller, channel, listeners, merge, inbox, client, received, faults>>
        /\ i \in writing[d] /\ writing' = [writing EXCEPT ![d] = writing[d] \ {i}]
        /\ table' = [table EXCEPT ![d] = table[d] \cup {i}]
        /\ notified' = [notified EXCEPT ![d] = listening[d]]
        /\ committed' = [committed EXCEPT ![d] = committed[d] \cup {i}]
        /\ overtaken' = IF \E j \in committed[d] : j > i THEN overtaken \cup {<<d, i>>} ELSE overtaken
        /\ owed' = [l \in Listeners |-> IF client[l] = "open" THEN owed[l] \cup {<<d, i>>} ELSE owed[l]]
    BY DEF Commit, delivery
  <1>2. /\ table \in [Databases -> SUBSET Ids] /\ writing \in [Databases -> SUBSET Ids]
        /\ committed \in [Databases -> SUBSET Ids] /\ poller \in [Databases -> Pollers]
        /\ notified \in [Databases -> BOOLEAN] /\ listening \in [Databases -> BOOLEAN]
        /\ owed \in [Listeners -> SUBSET Event] /\ overtaken \subseteq Event /\ <<d, i>> \in Event
        /\ nextId \in [Databases -> 1..MaxId + 1]
    BY TypeFacts DEF Event
  <1>3. /\ table'[d] = table[d] \cup {i} /\ \A e \in Databases : e # d => table'[e] = table[e]
        /\ committed'[d] = committed[d] \cup {i} /\ \A e \in Databases : e # d => committed'[e] = committed[e]
        /\ writing'[d] = writing[d] \ {i} /\ \A e \in Databases : e # d => writing'[e] = writing[e]
    BY <1>1, <1>2
  <1>4. overtaken \subseteq overtaken' /\ overtaken' \subseteq Event
    BY <1>1, <1>2
  <1>5. /\ FreshInv /\ CommittedInv /\ PollInv /\ KeptInv
    BY DEF IInv
  <1>6. i \notin committed[d]
    BY <1>1, <1>5 DEF FreshInv
  <1>7. ASSUME NEW m \in committed[d] PROVE Before(overtaken', d, m, i)
    <2>1. m \in Nat /\ i \in Nat /\ m # i
      BY <1>2, <1>6 DEF Ids
    <2>2. CASE m < i
      BY <2>2 DEF Before
    <2>3. CASE m > i
      BY <1>1, <2>1, <2>3 DEF Before
    <2> QED
      BY <2>1, <2>2, <2>3
  <1>8. TypeOK'
    <2>1. /\ table' \in [Databases -> SUBSET Ids] /\ writing' \in [Databases -> SUBSET Ids]
          /\ committed' \in [Databases -> SUBSET Ids]
      BY <1>1, <1>2
    <2>2. notified' \in [Databases -> BOOLEAN]
      BY <1>1, <1>2
    <2>3. owed' \in [Listeners -> SUBSET Event]
      BY <1>1, <1>2
    <2> QED
      BY <1>1, <1>4, <2>1, <2>2, <2>3 DEF IInv, TypeOK
  <1>9. FreshInv'
    <2>1. ASSUME NEW e \in Databases
          PROVE  (\A j \in writing'[e] \cup committed'[e] : j < nextId'[e]) /\ writing'[e] \cap committed'[e] = {}
      BY <1>1, <1>3, <1>5 DEF FreshInv
    <2> QED
      BY <2>1 DEF FreshInv
  <1>10. /\ \A e : ChannelIds(e)' = ChannelIds(e)
         /\ \A l, e : MergeIds(l, e)' = MergeIds(l, e) /\ InboxIds(l, e)' = InboxIds(l, e)
                      /\ ReadIds(l, e)' = ReadIds(l, e)
         /\ \A e : PollIds(e)' = PollIds(e)
    BY <1>1, SetsSame DEF PollIds
  <1>11. \A e \in Databases : committed[e] \subseteq committed'[e] /\ table[e] \subseteq table'[e]
                              /\ table'[e] \subseteq table[e] \cup (IF e = d THEN {i} ELSE {})
    BY <1>3
  <1>12. CommittedInv'
    <2>1. \A e \in Databases : table'[e] \subseteq committed'[e]
      BY <1>3, <1>5 DEF CommittedInv
    <2> QED
      BY <1>5, <1>10, <1>11, <2>1 DEF CommittedInv
  <1>13. \A e \in Databases :
             /\ PollIds(e) \subseteq committed[e] /\ ChannelIds(e) \subseteq committed[e] /\ table[e] \subseteq committed[e]
             /\ \A l \in Listeners : MergeIds(l, e) \cup InboxIds(l, e) \cup ReadIds(l, e) \subseteq committed[e]
    BY <1>5 DEF CommittedInv
  <1>14. PollInv'
    <2>1. ASSUME NEW e \in Databases, poller[e].pc = "delete"
          PROVE  Ahead(overtaken', e, poller[e].ids, table'[e] \ poller[e].ids)
      <3>1. Ahead(overtaken, e, poller[e].ids, table[e] \ poller[e].ids)
        BY <1>5, <2>1 DEF PollInv
      <3>2. Ahead(overtaken', e, poller[e].ids, table[e] \ poller[e].ids)
        BY <1>4, <3>1, AheadMore
      <3>3. e = d => \A m \in poller[e].ids : Before(overtaken', e, m, i)
        BY <1>7, <1>13 DEF PollIds
      <3> QED
        BY <1>11, <3>2, <3>3 DEF Ahead
    <2> QED
      BY <1>1, <1>5, <2>1 DEF PollInv
  <1>15. RegistryInv'
    <2>1. RegistryInv /\ \A l \in Listeners : client[l] = "new" => owed'[l] = owed[l]
      BY <1>1 DEF IInv
    <2>2. \A l : Occurs(l, listeners)' = Occurs(l, listeners) /\ Occurs(l, merge.todo)' = Occurs(l, merge.todo)
                 /\ Occurs(l, merge.alive)' = Occurs(l, merge.alive)
      BY <1>1 DEF Occurs
    <2>3. OnceIn(listeners)' = OnceIn(listeners) /\ OnceIn(merge.todo)' = OnceIn(merge.todo)
          /\ OnceIn(merge.alive)' = OnceIn(merge.alive)
      BY <1>1 DEF OnceIn
    <2> QED
      BY <1>1, <2>1, <2>2, <2>3 DEF RegistryInv
  <1>16. KeptInv'
    <2> SUFFICES ASSUME NEW l \in Listeners, NEW e \in Databases, client'[l] = "open", NEW n \in Ids,
                        <<e, n>> \in owed'[l] \ overtaken'
                 PROVE  n \in table'[e] \cup PollIds(e)' \cup ChannelIds(e)' \cup MergeIds(l, e)' \cup InboxIds(l, e)'
                              \cup ReadIds(l, e)'
      BY DEF KeptInv
    <2>1. client[l] = "open" /\ owed'[l] = owed[l] \cup {<<d, i>>} /\ <<e, n>> \notin overtaken
      BY <1>1, <1>4
    <2>2. CASE <<e, n>> \in owed[l]
      BY <1>5, <1>10, <1>11, <2>1, <2>2 DEF KeptInv
    <2>3. CASE <<e, n>> = <<d, i>>
      BY <1>3, <2>3
    <2> QED
      BY <2>1, <2>2, <2>3
  <1>17. ASSUME faults' = 0 PROVE OrderInv'
    <2>1. OrderInv
      BY <1>1, <1>17 DEF IInv
    <2>2. \A l \in Listeners, e \in Databases : SortedSets(overtaken', e, channel'[e])
      BY <1>1, <1>4, <2>1, SortedMore DEF OrderInv
    <2>3. \A l \in Listeners : Sorted(overtaken', received'[l]) /\ Sorted(overtaken', inbox'[l])
      BY <1>1, <1>4, <2>1, SortedMore DEF OrderInv
    <2>4. ASSUME NEW l \in Listeners, NEW e \in Databases
          PROVE  Chain(overtaken', e, ReadIds(l, e), InboxIds(l, e), MergeIds(l, e), ChannelIds(e), PollIds(e), TableIds(e)')
      <3>1. Chain(overtaken, e, ReadIds(l, e), InboxIds(l, e), MergeIds(l, e), ChannelIds(e), PollIds(e), TableIds(e))
        BY <2>1 DEF OrderInv
      <3>2. CASE e # d
        <4>1. TableIds(e)' = TableIds(e)
          BY <1>1, <1>3, <3>2 DEF TableIds
        <4> QED
          BY <1>4, <3>1, <4>1, ChainMore
      <3>3. CASE e = d
        <4>1. TableIds(e)' \subseteq TableIds(e) \cup {i}
          BY <1>1, <1>3, <3>3 DEF TableIds
        <4>2. Ahead(overtaken', e, ReadIds(l, e) \cup InboxIds(l, e) \cup MergeIds(l, e) \cup ChannelIds(e) \cup PollIds(e), {i})
          <5>1. ReadIds(l, e) \cup InboxIds(l, e) \cup MergeIds(l, e) \cup ChannelIds(e) \cup PollIds(e) \subseteq committed[d]
            BY <1>13, <3>3
          <5> QED
            BY <1>7, <3>3, <5>1 DEF Ahead
        <4> QED
          BY <1>4, <3>1, <4>1, <4>2, ChainCommit
      <3> QED
        BY <3>2, <3>3
    <2> QED
      BY <1>10, <2>2, <2>3, <2>4 DEF OrderInv
  <1> QED
    BY <1>8, <1>9, <1>12, <1>14, <1>15, <1>16, <1>17 DEF IInv

\* The rows are read.
LEMMA FetchInv ==
    ASSUME IInv, NEW d \in Databases, FetchEvents(d), faults' = faults
    PROVE  IInv'
  <1>1. /\ UNCHANGED <<nextId, writing, table, notified, listening, channel, listeners, merge, inbox, client, received,
                       committed, overtaken, owed>>
        /\ poller[d].pc = "fetch"
    BY DEF FetchEvents, At, database, wake, delivery, observers
  <1>2. faults \in Nat
    BY TypeFacts
  <1>3. poller' = [poller EXCEPT ![d] = IF table[d] = {} THEN Idle ELSE [pc |-> "delete", ids |-> table[d]]]
    BY <1>2 DEF FetchEvents, Fault
  <1>4. PICK x \in Pollers : /\ poller' = [poller EXCEPT ![d] = x] /\ x.ids = table[d]
                             /\ x.pc = (IF table[d] = {} THEN "wait" ELSE "delete")
    <2>1. table[d] \in SUBSET Ids
      BY TypeFacts
    <2>2. CASE table[d] = {}
      BY <1>3, <2>2, PollerFields
    <2>3. CASE table[d] # {}
      BY <1>3, <2>1, <2>3, PollerFields
    <2> QED
      BY <2>2, <2>3
  <1>5. /\ poller' \in [Databases -> Pollers] /\ poller'[d] = x
        /\ \A e \in Databases : e # d => poller'[e] = poller[e]
    BY <1>4, TypeFacts
  <1>6. /\ FreshInv /\ CommittedInv /\ PollInv /\ KeptInv
    BY DEF IInv
  <1>7. /\ PollIds(d) = {} /\ PollIds(d)' = table[d] /\ TableIds(d) = table[d] /\ TableIds(d)' = {}
        /\ \A e \in Databases : e # d => PollIds(e)' = PollIds(e) /\ TableIds(e)' = TableIds(e)
    <2>1. poller[d].ids = {}
      BY <1>1, <1>6 DEF PollInv
    <2> QED
      BY <1>1, <1>4, <1>5, <2>1 DEF PollIds, TableIds
  <1>8. /\ \A e : ChannelIds(e)' = ChannelIds(e)
        /\ \A l, e : MergeIds(l, e)' = MergeIds(l, e) /\ InboxIds(l, e)' = InboxIds(l, e)
                     /\ ReadIds(l, e)' = ReadIds(l, e)
    BY <1>1, SetsSame
  <1>9. TypeOK'
    BY <1>1, <1>5 DEF IInv, TypeOK, Pollers, Points
  <1>10. FreshInv' /\ RegistryInv'
    BY <1>1, FreshSame, RegistrySame
  <1>11. CommittedInv'
    BY <1>1, <1>6, <1>7, <1>8 DEF CommittedInv
  <1>12. PollInv'
    <2>1. ASSUME NEW e \in Databases
          PROVE  /\ poller'[e].pc \in {"delete", "send"} <=> poller'[e].ids # {}
                 /\ poller'[e].pc = "delete" => Ahead(overtaken', e, poller'[e].ids, table'[e] \ poller'[e].ids)
      <3>1. CASE e = d
        BY <1>1, <1>4, <1>5, <3>1 DEF Ahead
      <3>2. CASE e # d
        BY <1>1, <1>5, <1>6, <3>2 DEF PollInv
      <3> QED
        BY <3>1, <3>2
    <2> QED
      BY <2>1 DEF PollInv
  <1>13. KeptInv'
    BY <1>1, <1>6, <1>7, <1>8 DEF KeptInv
  <1>14. ASSUME faults' = 0 PROVE OrderInv'
    <2>1. OrderInv
      BY <1>14 DEF IInv
    <2>2. /\ \A l \in Listeners, e \in Databases : SortedSets(overtaken', e, channel'[e])
          /\ \A l \in Listeners : Sorted(overtaken', received'[l]) /\ Sorted(overtaken', inbox'[l])
      BY <1>1, <2>1 DEF OrderInv
    <2>3. ASSUME NEW l \in Listeners, NEW e \in Databases
          PROVE  Chain(overtaken', e, ReadIds(l, e), InboxIds(l, e), MergeIds(l, e), ChannelIds(e), PollIds(e)', TableIds(e)')
      <3>1. Chain(overtaken, e, ReadIds(l, e), InboxIds(l, e), MergeIds(l, e), ChannelIds(e), PollIds(e), TableIds(e))
        BY <2>1 DEF OrderInv
      <3>2. CASE e = d
        BY <1>1, <1>7, <3>1, <3>2, ChainFetch
      <3>3. CASE e # d
        BY <1>1, <1>7, <3>1, <3>3
      <3> QED
        BY <3>2, <3>3
    <2> QED
      BY <1>8, <2>2, <2>3 DEF OrderInv
  <1> QED
    BY <1>9, <1>10, <1>11, <1>12, <1>13, <1>14 DEF IInv

\* What was read is deleted, and with it only what was overtaken.
LEMMA DeleteInv ==
    ASSUME IInv, NEW d \in Databases, DeleteEvents(d)
    PROVE  IInv'
  <1>1. /\ UNCHANGED <<nextId, writing, notified, listening, channel, listeners, merge, inbox, client, received,
                       committed, overtaken, owed>>
        /\ poller[d].pc = "delete" /\ poller' = [poller EXCEPT ![d].pc = "send"]
    BY DEF DeleteEvents, At, Goto, wake, delivery, observers
  <1>2. \/ table' = [table EXCEPT ![d] = Remaining(d)] /\ faults' = faults
        \/ Fault /\ table' = table
    BY DEF DeleteEvents
  <1>3. faults' \in 0..MaxFaults /\ (faults' = 0 => faults = 0 /\ table' = [table EXCEPT ![d] = Remaining(d)])
    BY <1>2, TypeFacts, FaultCounts
  <1>4. poller \in [Databases -> Pollers] /\ table \in [Databases -> SUBSET Ids]
    BY TypeFacts
  <1>5. /\ poller' \in [Databases -> Pollers] /\ poller'[d].pc = "send" /\ poller'[d].ids = poller[d].ids
        /\ \A e \in Databases : e # d => poller'[e] = poller[e]
    BY <1>1, <1>4 DEF Pollers, Points
  <1>6. /\ FreshInv /\ CommittedInv /\ PollInv /\ KeptInv
    BY DEF IInv
  <1>7. poller[d].ids # {} /\ poller[d].ids \in SUBSET Ids /\ Ahead(overtaken, d, poller[d].ids, table[d] \ poller[d].ids)
    BY <1>1, <1>4, <1>6, PollerFields DEF PollInv
  <1>8. MaxOf(poller[d].ids) \in poller[d].ids /\ \A j \in poller[d].ids : j <= MaxOf(poller[d].ids)
    BY <1>7, MaxOfIds
  <1>9. /\ Remaining(d) \subseteq table[d] \ poller[d].ids
        /\ \A n \in table[d] : n \in Remaining(d) \/ n \in poller[d].ids \/ <<d, n>> \in overtaken
    <2>1. \A n \in Ids : n \in Nat
      BY DEF Ids
    <2>2. ASSUME NEW n \in table[d], n \notin poller[d].ids, <<d, n>> \notin overtaken PROVE n > MaxOf(poller[d].ids)
      <3>1. MaxOf(poller[d].ids) < n
        BY <1>7, <1>8, <2>2 DEF Ahead, Before
      <3>2. n \in Nat /\ MaxOf(poller[d].ids) \in Nat
        BY <1>4, <1>7, <1>8, <2>1
      <3> QED
        BY <3>1, <3>2
    <2>3. ASSUME NEW n \in table[d], n > MaxOf(poller[d].ids) PROVE n \notin poller[d].ids
      <3>1. n \in Nat /\ MaxOf(poller[d].ids) \in Nat
        BY <1>4, <1>7, <1>8, <2>1
      <3> QED
        BY <1>8, <2>3, <3>1
    <2> QED
      BY <2>2, <2>3 DEF Remaining
  <1>10. /\ table' \in [Databases -> SUBSET Ids] /\ \A e \in Databases : e # d => table'[e] = table[e]
         /\ table'[d] = table[d] \/ table'[d] = Remaining(d)
         /\ faults' = 0 => table'[d] = Remaining(d)
    <2>1. Remaining(d) \in SUBSET Ids
      BY <1>4, <1>9
    <2> QED
      BY <1>2, <1>3, <1>4, <2>1
  <1>11. \A e \in Databases : PollIds(e)' = PollIds(e) /\ table'[e] \subseteq table[e]
    BY <1>5, <1>9, <1>10 DEF PollIds
  <1>12. /\ \A e : ChannelIds(e)' = ChannelIds(e)
         /\ \A l, e : MergeIds(l, e)' = MergeIds(l, e) /\ InboxIds(l, e)' = InboxIds(l, e)
                      /\ ReadIds(l, e)' = ReadIds(l, e)
    BY <1>1, SetsSame
  <1>13. TypeOK'
    BY <1>1, <1>3, <1>5, <1>10 DEF IInv, TypeOK, Pollers, Points
  <1>14. FreshInv' /\ RegistryInv'
    BY <1>1, FreshSame, RegistrySame
  <1>15. CommittedInv'
    BY <1>1, <1>6, <1>11, <1>12 DEF CommittedInv
  <1>16. PollInv'
    <2>1. ASSUME NEW e \in Databases
          PROVE  /\ poller'[e].pc \in {"delete", "send"} <=> poller'[e].ids # {}
                 /\ poller'[e].pc = "delete" => Ahead(overtaken', e, poller'[e].ids, table'[e] \ poller'[e].ids)
      <3>1. CASE e = d
        BY <1>5, <1>7, <3>1
      <3>2. CASE e # d
        BY <1>1, <1>5, <1>6, <1>10, <3>2 DEF PollInv
      <3> QED
        BY <3>1, <3>2
    <2> QED
      BY <2>1 DEF PollInv
  <1>17. KeptInv'
    <2> SUFFICES ASSUME NEW l \in Listeners, NEW e \in Databases, client[l] = "open", NEW n \in Ids,
                        <<e, n>> \in owed[l] \ overtaken
                 PROVE  n \in table'[e] \cup PollIds(e) \cup ChannelIds(e) \cup MergeIds(l, e) \cup InboxIds(l, e)
                              \cup ReadIds(l, e)
      BY <1>1, <1>11, <1>12 DEF KeptInv
    <2>1. n \in table[e] \cup PollIds(e) \cup ChannelIds(e) \cup MergeIds(l, e) \cup InboxIds(l, e) \cup ReadIds(l, e)
      BY <1>6 DEF KeptInv
    <2>2. n \in table[e] => n \in table'[e] \/ n \in PollIds(e)
      BY <1>9, <1>10 DEF PollIds
    <2> QED
      BY <2>1, <2>2
  <1>18. ASSUME faults' = 0 PROVE OrderInv'
    <2>1. OrderInv
      BY <1>3, <1>18 DEF IInv
    <2>2. /\ \A l \in Listeners, e \in Databases : SortedSets(overtaken', e, channel'[e])
          /\ \A l \in Listeners : Sorted(overtaken', received'[l]) /\ Sorted(overtaken', inbox'[l])
      BY <1>1, <2>1 DEF OrderInv
    <2>3. \A e \in Databases : TableIds(e)' \subseteq TableIds(e)
      BY <1>1, <1>5, <1>9, <1>10, <1>18 DEF TableIds
    <2>4. ASSUME NEW l \in Listeners, NEW e \in Databases
          PROVE  Chain(overtaken', e, ReadIds(l, e), InboxIds(l, e), MergeIds(l, e), ChannelIds(e), PollIds(e)', TableIds(e)')
      <3>1. Chain(overtaken, e, ReadIds(l, e), InboxIds(l, e), MergeIds(l, e), ChannelIds(e), PollIds(e), TableIds(e))
        BY <2>1 DEF OrderInv
      <3> QED
        BY <1>1, <1>11, <2>3, <3>1, ChainLess
    <2> QED
      BY <1>12, <2>2, <2>4 DEF OrderInv
  <1> QED
    BY <1>13, <1>14, <1>15, <1>16, <1>17, <1>18 DEF IInv

\* The batch goes to the merge loop.
LEMMA SendInv ==
    ASSUME IInv, NEW d \in Databases, SendBatch(d)
    PROVE  IInv'
  <1>1. /\ UNCHANGED <<nextId, writing, table, notified, listening, listeners, merge, inbox, client, received,
                       faults, committed, overtaken, owed>>
        /\ poller[d].pc = "send" /\ poller' = [poller EXCEPT ![d] = Idle]
        /\ Len(channel[d]) < ChannelCap /\ channel' = [channel EXCEPT ![d] = Append(channel[d], poller[d].ids)]
    BY DEF SendBatch, At, database, wake, delivery, observers
  <1>2. /\ poller \in [Databases -> Pollers] /\ channel \in [Databases -> Seq(SUBSET Ids)]
        /\ poller[d].ids \in SUBSET Ids /\ channel[d] \in Seq(SUBSET Ids) /\ ChannelCap \in Nat
    BY TypeFacts, PollerFields, ChannelCapAssumption
  <1>3. /\ poller' \in [Databases -> Pollers] /\ poller'[d] = Idle
        /\ \A e \in Databases : e # d => poller'[e] = poller[e]
    BY <1>1, <1>2, PollerFields
  <1>4. PICK r : r = Append(channel[d], poller[d].ids)
    OBVIOUS
  <1>5. /\ r \in Seq(SUBSET Ids) /\ Len(r) <= ChannelCap
        /\ UnionOf(r) = UnionOf(channel[d]) \cup poller[d].ids
    <2>1. r \in Seq(SUBSET Ids) /\ Len(channel[d]) \in Nat /\ Len(r) = Len(channel[d]) + 1
      BY <1>2, <1>4, Appended
    <2>2. UnionOf(r) = UnionOf(channel[d]) \cup poller[d].ids
      BY <1>2, <1>4, UnionAppend
    <2> QED
      BY <1>1, <1>2, <2>1, <2>2
  <1>6. /\ channel' \in [Databases -> Seq(SUBSET Ids)] /\ channel'[d] = r
        /\ \A e \in Databases : e # d => channel'[e] = channel[e]
    <2>1. channel' = [channel EXCEPT ![d] = r]
      BY <1>1, <1>4
    <2> QED
      BY <1>2, <1>5, <2>1
  <1>7. /\ FreshInv /\ CommittedInv /\ PollInv /\ KeptInv
    BY DEF IInv
  <1>8. /\ PollIds(d)' = {} /\ ChannelIds(d)' = ChannelIds(d) \cup PollIds(d)
        /\ TableIds(d)' = TableIds(d)
        /\ \A e \in Databases : e # d => /\ PollIds(e)' = PollIds(e) /\ TableIds(e)' = TableIds(e)
                                         /\ ChannelIds(e)' = ChannelIds(e)
    BY <1>1, <1>3, <1>5, <1>6, PollerFields DEF PollIds, ChannelIds, TableIds, UnionOf
  <1>9. \A l, e : MergeIds(l, e)' = MergeIds(l, e) /\ InboxIds(l, e)' = InboxIds(l, e) /\ ReadIds(l, e)' = ReadIds(l, e)
    BY <1>1 DEF MergeIds, Occurs, InboxIds, ReadIds, IdsIn
  <1>10. TypeOK'
    <2>1. \A e \in Databases : Len(channel'[e]) <= ChannelCap
      BY <1>5, <1>6 DEF IInv, TypeOK
    <2> QED
      BY <1>1, <1>3, <1>6, <2>1 DEF IInv, TypeOK, Pollers, Points
  <1>11. FreshInv' /\ RegistryInv'
    BY <1>1, FreshSame, RegistrySame
  <1>12. CommittedInv'
    BY <1>1, <1>7, <1>8, <1>9 DEF CommittedInv
  <1>13. PollInv'
    <2>1. ASSUME NEW e \in Databases
          PROVE  /\ poller'[e].pc \in {"delete", "send"} <=> poller'[e].ids # {}
                 /\ poller'[e].pc = "delete" => Ahead(overtaken', e, poller'[e].ids, table'[e] \ poller'[e].ids)
      <3>1. CASE e = d
        BY <1>3, <3>1, PollerFields
      <3>2. CASE e # d
        BY <1>1, <1>3, <1>7, <3>2 DEF PollInv
      <3> QED
        BY <3>1, <3>2
    <2> QED
      BY <2>1 DEF PollInv
  <1>14. KeptInv'
    BY <1>1, <1>7, <1>8, <1>9 DEF KeptInv
  <1>15. ASSUME faults' = 0 PROVE OrderInv'
    <2>1. OrderInv
      BY <1>1, <1>15 DEF IInv
    <2>2. \A l \in Listeners : Sorted(overtaken', received'[l]) /\ Sorted(overtaken', inbox'[l])
      BY <1>1, <2>1 DEF OrderInv
    <2>3. ASSUME NEW l \in Listeners, NEW e \in Databases
          PROVE  /\ Chain(overtaken', e, ReadIds(l, e), InboxIds(l, e), MergeIds(l, e), ChannelIds(e)', PollIds(e)', TableIds(e)')
                 /\ Ahead(overtaken, e, ChannelIds(e), PollIds(e))
      <3>1. Chain(overtaken, e, ReadIds(l, e), InboxIds(l, e), MergeIds(l, e), ChannelIds(e), PollIds(e), TableIds(e))
        BY <2>1 DEF OrderInv
      <3>2. CASE e = d
        BY <1>1, <1>8, <3>1, <3>2, ChainSend DEF Chain, Ahead
      <3>3. CASE e # d
        BY <1>1, <1>8, <3>1, <3>3 DEF Chain, Ahead
      <3> QED
        BY <3>2, <3>3
    <2>4. ASSUME NEW l \in Listeners, NEW e \in Databases PROVE SortedSets(overtaken', e, channel'[e])
      <3>1. CASE e # d
        BY <1>1, <1>6, <2>1, <3>1 DEF OrderInv
      <3>2. CASE e = d
        <4>1. SortedSets(overtaken, d, channel[d])
          BY <2>1 DEF OrderInv
        <4>2. Ahead(overtaken, d, UnionOf(channel[d]), poller[d].ids)
          BY <2>3, <3>2 DEF ChannelIds, PollIds
        <4>3. SortedSets(overtaken, d, r)
          BY <1>2, <1>4, <4>1, <4>2, SetsAppend
        <4> QED
          BY <1>1, <1>6, <3>2, <4>3
      <3> QED
        BY <3>1, <3>2
    <2> QED
      BY <1>9, <2>2, <2>3, <2>4 DEF OrderInv
  <1> QED
    BY <1>10, <1>11, <1>12, <1>13, <1>14, <1>15 DEF IInv

-----------------------------------------------------------------------------
(* The merge loop and the listeners. *)

LEMMA PollSame ==
    ASSUME IInv, UNCHANGED <<poller, table, overtaken>>
    PROVE  PollInv' /\ \A d : PollIds(d)' = PollIds(d) /\ TableIds(d)' = TableIds(d)
  <1>1. PollInv
    BY DEF IInv
  <1> QED
    BY <1>1 DEF PollInv, PollIds, TableIds, Ahead, Before

LEMMA ChannelSame ==
    ASSUME UNCHANGED channel
    PROVE  \A d : ChannelIds(d)' = ChannelIds(d)
  BY DEF ChannelIds, UnionOf

LEMMA MergeSame ==
    ASSUME UNCHANGED merge
    PROVE  \A l, d : MergeIds(l, d)' = MergeIds(l, d)
  BY DEF MergeIds, Occurs

\* The channels of the listeners that are not concerned.
LEMMA InboxSame ==
    ASSUME NEW l, inbox'[l] = inbox[l]
    PROVE  \A d : InboxIds(l, d)' = InboxIds(l, d)
  BY DEF InboxIds, IdsIn

LEMMA ReceivedSame ==
    ASSUME NEW l, received'[l] = received[l]
    PROVE  \A d : ReadIds(l, d)' = ReadIds(l, d)
  BY DEF ReadIds, IdsIn

\* A listener registers: it is owed nothing of before.
LEMMA AddListenerInv ==
    ASSUME IInv, NEW l \in Listeners, AddListener(l)
    PROVE  IInv'
  <1>1. /\ UNCHANGED <<nextId, writing, table, notified, listening, poller, channel, merge, inbox, received, faults,
                       committed, overtaken, owed>>
        /\ client[l] = "new" /\ merge = NoMerge
        /\ client' = [client EXCEPT ![l] = "open"] /\ listeners' = Append(listeners, l)
    BY DEF AddListener, database, wake, observers
  <1>2. client \in [Listeners -> {"new", "open", "closed"}] /\ listeners \in Seq(Listeners)
    BY TypeFacts
  <1>3. /\ client' \in [Listeners -> {"new", "open", "closed"}] /\ client'[l] = "open"
        /\ \A k \in Listeners : k # l => client'[k] = client[k]
    BY <1>1, <1>2
  <1>4. listeners' \in Seq(Listeners) /\ \A k : Occurs(k, listeners)' <=> Occurs(k, listeners) \/ k = l
    <2>1. PICK r : r = Append(listeners, l)
      OBVIOUS
    <2>2. r \in Seq(Listeners) /\ \A k : Occurs(k, r) <=> Occurs(k, listeners) \/ k = l
      BY <1>2, <2>1, Appended, OccursAppend
    <2> QED
      BY <1>1, <2>1, <2>2 DEF Occurs
  <1>5. FreshInv /\ CommittedInv /\ KeptInv /\ RegistryInv
    BY DEF IInv
  <1>6. /\ PollInv' /\ \A d : PollIds(d)' = PollIds(d) /\ TableIds(d)' = TableIds(d)
        /\ \A d : ChannelIds(d)' = ChannelIds(d)
        /\ \A k, d : MergeIds(k, d)' = MergeIds(k, d) /\ InboxIds(k, d)' = InboxIds(k, d) /\ ReadIds(k, d)' = ReadIds(k, d)
    BY <1>1, PollSame, SetsSame
  <1>7. TypeOK'
    BY <1>1, <1>3, <1>4 DEF IInv, TypeOK
  <1>8. FreshInv'
    BY <1>1, FreshSame
  <1>9. CommittedInv'
    BY <1>1, <1>5, <1>6 DEF CommittedInv
  <1>10. RegistryInv'
    <2>1. ~Occurs(l, listeners) /\ ~Occurs(l, merge.todo) /\ ~Occurs(l, merge.alive) /\ OnceIn(listeners)
      BY <1>1, <1>5 DEF RegistryInv
    <2>2. OnceIn(listeners)'
      <3>1. PICK r : r = Append(listeners, l)
        OBVIOUS
      <3>2. OnceIn(r)
        BY <1>2, <2>1, <3>1, OnceAppend
      <3> QED
        BY <1>1, <3>1, <3>2 DEF OnceIn
    <2>3. \A k : Occurs(k, merge.todo)' = Occurs(k, merge.todo) /\ Occurs(k, merge.alive)' = Occurs(k, merge.alive)
      BY <1>1 DEF Occurs
    <2>4. OnceIn(merge.todo)' /\ OnceIn(merge.alive)'
      BY <1>1, <1>5 DEF RegistryInv, OnceIn
    <2>5. merge' = NoMerge
      BY <1>1
    <2> QED
      BY <1>1, <1>3, <1>4, <1>5, <2>2, <2>3, <2>4, <2>5 DEF RegistryInv
  <1>11. KeptInv'
    <2>1. owed[l] = {}
      BY <1>1, <1>5 DEF RegistryInv
    <2> QED
      BY <1>1, <1>3, <1>5, <1>6, <2>1 DEF KeptInv
  <1>12. ASSUME faults' = 0 PROVE OrderInv'
    <2>1. OrderInv
      BY <1>1, <1>12 DEF IInv
    <2>2. /\ \A k \in Listeners, e \in Databases : SortedSets(overtaken', e, channel'[e])
          /\ \A k \in Listeners : Sorted(overtaken', received'[k]) /\ Sorted(overtaken', inbox'[k])
      BY <1>1, <2>1 DEF OrderInv
    <2> QED
      BY <1>1, <1>6, <2>1, <2>2 DEF OrderInv
  <1> QED
    BY <1>6, <1>7, <1>8, <1>9, <1>10, <1>11, <1>12 DEF IInv

\* The client goes away with what it had not read.
LEMMA CloseListenerInv ==
    ASSUME IInv, NEW l \in Listeners, CloseListener(l)
    PROVE  IInv'
  <1>1. /\ UNCHANGED <<nextId, writing, table, notified, listening, poller, channel, listeners, merge, received, faults,
                       committed, overtaken, owed>>
        /\ client' = [client EXCEPT ![l] = "closed"] /\ inbox' = [inbox EXCEPT ![l] = <<>>]
    BY DEF CloseListener, database, wake, observers
  <1>2. client \in [Listeners -> {"new", "open", "closed"}] /\ inbox \in [Listeners -> Seq(Batch)]
    BY TypeFacts
  <1>3. /\ client' \in [Listeners -> {"new", "open", "closed"}] /\ client'[l] = "closed"
        /\ \A k \in Listeners : k # l => client'[k] = client[k]
    BY <1>1, <1>2
  <1>4. PICK z \in Seq(Batch) : z = <<>>
    <2>1. <<>> \in Seq(Batch)
      OBVIOUS
    <2> QED
      BY <2>1, Zenon
  <1>5. inbox' \in [Listeners -> Seq(Batch)] /\ inbox'[l] = z /\ \A k \in Listeners : k # l => inbox'[k] = inbox[k]
    <2>1. inbox' = [inbox EXCEPT ![l] = z]
      BY <1>1, <1>4, Zenon
    <2> QED
      BY <1>2, <2>1
  <1>6. Len(z) = 0 /\ (\A d : IdsIn(z, d) = {}) /\ \A o : Sorted(o, z)
    <2>1. Len(z) = 0
      BY <1>4
    <2> QED
      BY <2>1 DEF IdsIn, Sorted
  <1>7. FreshInv /\ CommittedInv /\ KeptInv /\ RegistryInv
    BY DEF IInv
  <1>8. /\ PollInv' /\ \A d : PollIds(d)' = PollIds(d) /\ TableIds(d)' = TableIds(d)
        /\ \A d : ChannelIds(d)' = ChannelIds(d)
        /\ \A k, d : MergeIds(k, d)' = MergeIds(k, d)
        /\ \A k \in Listeners : \A d : ReadIds(k, d)' = ReadIds(k, d)
        /\ \A k \in Listeners : k # l => \A d : InboxIds(k, d)' = InboxIds(k, d)
    BY <1>1, <1>5, PollSame, ChannelSame, MergeSame, InboxSame, ReceivedSame
  <1>9. \A d : InboxIds(l, d)' = {}
    BY <1>5, <1>6 DEF InboxIds, IdsIn
  <1>10. TypeOK'
    <2>1. ChannelCap \in Nat
      BY ChannelCapAssumption
    <2>2. ASSUME NEW k \in Listeners PROVE Len(inbox'[k]) <= ChannelCap
      <3>1. Len(inbox[k]) <= ChannelCap
        BY DEF IInv, TypeOK
      <3>2. CASE k = l
        BY <1>5, <1>6, <2>1, <3>2
      <3>3. CASE k # l
        BY <1>5, <3>1, <3>3
      <3> QED
        BY <3>2, <3>3
    <2> QED
      BY <1>1, <1>3, <1>5, <2>2 DEF IInv, TypeOK
  <1>11. FreshInv'
    BY <1>1, FreshSame
  <1>12. CommittedInv'
    <2>1. ASSUME NEW k \in Listeners, NEW d \in Databases
          PROVE  MergeIds(k, d)' \cup InboxIds(k, d)' \cup ReadIds(k, d)' \subseteq committed'[d]
      BY <1>1, <1>7, <1>8, <1>9 DEF CommittedInv
    <2> QED
      BY <1>1, <1>7, <1>8, <2>1 DEF CommittedInv
  <1>13. RegistryInv'
    <2>1. \A k \in Listeners : client'[k] = "open" => client[k] = "open"
      BY <1>3
    <2>2. \A k \in Listeners : client'[k] = "new" => client[k] = "new"
      BY <1>3
    <2>3. \A k : Occurs(k, merge.todo)' = Occurs(k, merge.todo) /\ Occurs(k, merge.alive)' = Occurs(k, merge.alive)
                 /\ Occurs(k, listeners)' = Occurs(k, listeners)
      BY <1>1 DEF Occurs
    <2>4. OnceIn(merge.todo)' /\ OnceIn(merge.alive)' /\ OnceIn(listeners)'
      BY <1>1, <1>7 DEF RegistryInv, OnceIn
    <2> QED
      BY <1>1, <1>7, <2>1, <2>2, <2>3, <2>4 DEF RegistryInv
  <1>14. KeptInv'
    <2> SUFFICES ASSUME NEW k \in Listeners, NEW d \in Databases, client'[k] = "open", NEW n \in Ids,
                        <<d, n>> \in owed[k] \ overtaken
                 PROVE  n \in table[d] \cup PollIds(d)' \cup ChannelIds(d)' \cup MergeIds(k, d)' \cup InboxIds(k, d)'
                              \cup ReadIds(k, d)'
      BY <1>1 DEF KeptInv
    <2>1. k # l /\ client[k] = "open"
      BY <1>3
    <2> QED
      BY <1>7, <1>8, <2>1 DEF KeptInv
  <1>15. ASSUME faults' = 0 PROVE OrderInv'
    <2>1. OrderInv
      BY <1>1, <1>15 DEF IInv
    <2>2. /\ \A k \in Listeners, e \in Databases : SortedSets(overtaken', e, channel'[e])
          /\ \A k \in Listeners : Sorted(overtaken', received'[k])
      BY <1>1, <2>1 DEF OrderInv
    <2>3. ASSUME NEW k \in Listeners PROVE Sorted(overtaken', inbox'[k])
      BY <1>1, <1>5, <1>6, <2>1 DEF OrderInv
    <2>4. ASSUME NEW k \in Listeners, NEW e \in Databases
          PROVE  Chain(overtaken', e, ReadIds(k, e), InboxIds(k, e)', MergeIds(k, e), ChannelIds(e), PollIds(e), TableIds(e))
      <3>1. Chain(overtaken, e, ReadIds(k, e), InboxIds(k, e), MergeIds(k, e), ChannelIds(e), PollIds(e), TableIds(e))
        BY <2>1 DEF OrderInv
      <3>2. InboxIds(k, e)' \subseteq InboxIds(k, e)
        BY <1>8, <1>9
      <3> QED
        BY <1>1, <3>1, <3>2, ChainLess
    <2> QED
      BY <1>8, <2>2, <2>3, <2>4 DEF OrderInv
  <1> QED
    BY <1>8, <1>10, <1>11, <1>12, <1>13, <1>14, <1>15 DEF IInv

\* A client reads the next batch.
LEMMA ReceiveInv ==
    ASSUME IInv, NEW l \in Listeners, Receive(l)
    PROVE  IInv'
  <1>1. /\ UNCHANGED <<nextId, writing, table, notified, listening, poller, channel, listeners, merge, client, faults,
                       committed, overtaken, owed>>
        /\ inbox[l] # <<>> /\ inbox' = [inbox EXCEPT ![l] = Tail(inbox[l])]
        /\ received' = [received EXCEPT ![l] = Append(received[l], Head(inbox[l]))]
    BY DEF Receive, database, wake, observers
  <1>2. /\ received \in [Listeners -> Seq(Batch)] /\ inbox \in [Listeners -> Seq(Batch)]
        /\ inbox[l] \in Seq(Batch) /\ received[l] \in Seq(Batch)
    BY TypeFacts
  <1>3. PICK t : t = Tail(inbox[l])
    OBVIOUS
  <1>4. PICK h : h = Head(inbox[l])
    OBVIOUS
  <1>5. PICK r : r = Append(received[l], h)
    OBVIOUS
  <1>6. t \in Seq(Batch) /\ h \in Batch /\ Len(inbox[l]) = Len(t) + 1 /\ Len(t) \in Nat
    BY <1>1, <1>2, <1>3, <1>4, Popped
  <1>7. r \in Seq(Batch)
    BY <1>2, <1>5, <1>6, Appended
  <1>8. /\ inbox' \in [Listeners -> Seq(Batch)] /\ inbox'[l] = t /\ \A k \in Listeners : k # l => inbox'[k] = inbox[k]
        /\ received' \in [Listeners -> Seq(Batch)] /\ received'[l] = r
        /\ \A k \in Listeners : k # l => received'[k] = received[k]
    <2>1. inbox' = [inbox EXCEPT ![l] = t] /\ received' = [received EXCEPT ![l] = r]
      BY <1>1, <1>3, <1>4, <1>5
    <2> QED
      BY <1>2, <1>6, <1>7, <2>1
  <1>9. \A d : IdsIn(inbox[l], d) = IdsIn(t, d) \cup Part(h, d) /\ IdsIn(r, d) = IdsIn(received[l], d) \cup Part(h, d)
    <2>1. \A d : IdsIn(inbox[l], d) = IdsIn(t, d) \cup Part(h, d)
      <3>1. PICK q \in Seq(Batch) : q = inbox[l]
        BY <1>2
      <3>2. q # <<>> /\ t = Tail(q) /\ h = Head(q)
        BY <1>1, <1>3, <1>4, <3>1
      <3>3. \A d : IdsIn(q, d) = IdsIn(t, d) \cup Part(h, d)
        BY <3>2, IdsTail
      <3> QED
        BY <3>1, <3>3
    <2>2. \A d : IdsIn(r, d) = IdsIn(received[l], d) \cup Part(h, d)
      <3>1. PICK q \in Seq(Batch) : q = received[l]
        BY <1>2
      <3>2. r = Append(q, h) /\ h \in Batch
        BY <1>5, <1>6, <3>1
      <3>3. \A d : IdsIn(Append(q, h), d) = IdsIn(q, d) \cup Part(h, d)
        BY <3>2, IdsAppend
      <3> QED
        BY <3>1, <3>2, <3>3
    <2> QED
      BY <2>1, <2>2
  <1>10. \A d : InboxIds(l, d) = InboxIds(l, d)' \cup Part(h, d) /\ ReadIds(l, d)' = ReadIds(l, d) \cup Part(h, d)
    <2>1. \A d : InboxIds(l, d)' = IdsIn(t, d) /\ ReadIds(l, d)' = IdsIn(r, d)
      BY <1>8 DEF InboxIds, ReadIds, IdsIn
    <2> QED
      BY <1>9, <2>1 DEF InboxIds, ReadIds
  <1>11. FreshInv /\ CommittedInv /\ KeptInv
    BY DEF IInv
  <1>12. /\ PollInv' /\ \A d : PollIds(d)' = PollIds(d) /\ TableIds(d)' = TableIds(d)
         /\ \A d : ChannelIds(d)' = ChannelIds(d)
         /\ \A k, d : MergeIds(k, d)' = MergeIds(k, d)
         /\ \A k \in Listeners : k # l => \A d : ReadIds(k, d)' = ReadIds(k, d)
         /\ \A k \in Listeners : k # l => \A d : InboxIds(k, d)' = InboxIds(k, d)
    BY <1>1, <1>8, PollSame, ChannelSame, MergeSame, InboxSame, ReceivedSame
  <1>13. TypeOK'
    <2>1. \A k \in Listeners : Len(inbox[k]) <= ChannelCap
      BY DEF IInv, TypeOK
    <2>2. ASSUME NEW k \in Listeners PROVE Len(inbox'[k]) <= ChannelCap
      <3>1. CASE k = l
        <4>1. Len(t) + 1 <= ChannelCap /\ ChannelCap \in Nat /\ Len(t) \in Nat
          BY <1>6, <2>1, ChannelCapAssumption
        <4>2. Len(t) <= ChannelCap
          BY <4>1
        <4> QED
          BY <1>8, <3>1, <4>2
      <3>2. CASE k # l
        BY <1>8, <2>1, <3>2
      <3> QED
        BY <3>1, <3>2
    <2> QED
      BY <1>1, <1>8, <2>2 DEF IInv, TypeOK
  <1>14. FreshInv' /\ RegistryInv'
    BY <1>1, FreshSame, RegistrySame
  <1>15. CommittedInv'
    <2>1. ASSUME NEW k \in Listeners, NEW d \in Databases
          PROVE  MergeIds(k, d)' \cup InboxIds(k, d)' \cup ReadIds(k, d)' \subseteq committed'[d]
      <3>1. MergeIds(k, d) \cup InboxIds(k, d) \cup ReadIds(k, d) \subseteq committed[d]
        BY <1>11 DEF CommittedInv
      <3>2. CASE k = l
        BY <1>1, <1>10, <1>12, <3>1, <3>2
      <3>3. CASE k # l
        BY <1>1, <1>12, <3>1, <3>3
      <3> QED
        BY <3>2, <3>3
    <2> QED
      BY <1>1, <1>11, <1>12, <2>1 DEF CommittedInv
  <1>16. KeptInv'
    <2> SUFFICES ASSUME NEW k \in Listeners, NEW d \in Databases, client[k] = "open", NEW n \in Ids,
                        <<d, n>> \in owed[k] \ overtaken
                 PROVE  n \in table[d] \cup PollIds(d) \cup ChannelIds(d) \cup MergeIds(k, d) \cup InboxIds(k, d)'
                              \cup ReadIds(k, d)'
      BY <1>1, <1>12 DEF KeptInv
    <2>1. n \in table[d] \cup PollIds(d) \cup ChannelIds(d) \cup MergeIds(k, d) \cup InboxIds(k, d) \cup ReadIds(k, d)
      BY <1>11 DEF KeptInv
    <2>2. CASE k = l
      BY <1>10, <2>1, <2>2
    <2>3. CASE k # l
      BY <1>12, <2>1, <2>3
    <2> QED
      BY <2>2, <2>3
  <1>17. ASSUME faults' = 0 PROVE OrderInv'
    <2>1. OrderInv
      BY <1>1, <1>17 DEF IInv
    <2>2. \A k \in Listeners, e \in Databases : SortedSets(overtaken', e, channel'[e])
      BY <1>1, <2>1 DEF OrderInv
    <2>3. Sorted(overtaken, t) /\ Ahead(overtaken, h.db, h.ids, IdsIn(t, h.db))
      BY <1>1, <1>2, <1>3, <1>4, <2>1, SortedTail DEF OrderInv
    <2>4. \A d : Ahead(overtaken, d, Part(h, d), InboxIds(l, d)')
      <3>1. \A d : InboxIds(l, d)' = IdsIn(t, d)
        BY <1>8 DEF InboxIds, IdsIn
      <3> QED
        BY <1>6, <2>3, <3>1, BatchFields DEF Ahead
    <2>5. h.db \in Databases /\ Part(h, h.db) = h.ids
      BY <1>6, BatchFields
    <2>6. Sorted(overtaken, r)
      <3>1. Chain(overtaken, h.db, ReadIds(l, h.db), InboxIds(l, h.db), MergeIds(l, h.db), ChannelIds(h.db),
                  PollIds(h.db), TableIds(h.db))
        BY <2>1, <2>5 DEF OrderInv
      <3>2. h.ids \subseteq InboxIds(l, h.db)
        BY <1>10, <2>5
      <3>3. Ahead(overtaken, h.db, IdsIn(received[l], h.db), h.ids)
        BY <3>1, <3>2 DEF Chain, Ahead, ReadIds
      <3>4. Sorted(overtaken, received[l])
        BY <2>1 DEF OrderInv
      <3> QED
        BY <1>2, <1>5, <1>6, <3>3, <3>4, SortedAppend
    <2>7. ASSUME NEW k \in Listeners PROVE Sorted(overtaken', received'[k]) /\ Sorted(overtaken', inbox'[k])
      <3>1. CASE k = l
        BY <1>1, <1>8, <2>3, <2>6, <3>1
      <3>2. CASE k # l
        BY <1>1, <1>8, <2>1, <3>2 DEF OrderInv
      <3> QED
        BY <3>1, <3>2
    <2>8. ASSUME NEW k \in Listeners, NEW e \in Databases
          PROVE  Chain(overtaken', e, ReadIds(k, e)', InboxIds(k, e)', MergeIds(k, e), ChannelIds(e), PollIds(e), TableIds(e))
      <3>1. Chain(overtaken, e, ReadIds(k, e), InboxIds(k, e), MergeIds(k, e), ChannelIds(e), PollIds(e), TableIds(e))
        BY <2>1 DEF OrderInv
      <3>2. CASE k = l
        <4>1. PICK I : I = InboxIds(k, e)'
          OBVIOUS
        <4>2. InboxIds(k, e) = I \cup Part(h, e) /\ Ahead(overtaken, e, Part(h, e), I)
          BY <1>10, <2>4, <3>2, <4>1
        <4>3. Chain(overtaken, e, ReadIds(k, e) \cup Part(h, e), I, MergeIds(k, e), ChannelIds(e), PollIds(e), TableIds(e))
          BY <3>1, <4>2, ChainRead
        <4> QED
          BY <1>1, <1>10, <3>2, <4>1, <4>3
      <3>3. CASE k # l
        BY <1>1, <1>12, <3>1, <3>3
      <3> QED
        BY <3>2, <3>3
    <2> QED
      BY <1>12, <2>2, <2>7, <2>8 DEF OrderInv
  <1> QED
    BY <1>12, <1>13, <1>14, <1>15, <1>16, <1>17 DEF IInv

Merges == [batch : Batch, todo : Seq(Listeners) \ {<<>>}, alive : Seq(Listeners)]

LEMMA MergeFields ==
    /\ merge \in Merges => merge.batch \in Batch /\ merge.todo \in Seq(Listeners) /\ merge.todo # <<>>
                           /\ merge.alive \in Seq(Listeners) /\ merge # NoMerge
  <1> SUFFICES ASSUME merge \in Merges
               PROVE  merge.batch \in Batch /\ merge.todo \in Seq(Listeners) /\ merge.todo # <<>>
                      /\ merge.alive \in Seq(Listeners) /\ merge # NoMerge
    OBVIOUS
  <1>1. merge.batch \in Batch /\ merge.todo \in Seq(Listeners) \ {<<>>} /\ merge.alive \in Seq(Listeners)
    BY DEF Merges
  <1> QED
    BY <1>1, NoMergeFields

\* A batch of the channel becomes the dispatch, for all that are registered.
LEMMA MergeReceiveInv ==
    ASSUME IInv, NEW d \in Databases, MergeReceive(d)
    PROVE  IInv'
  <1>1. /\ UNCHANGED <<nextId, writing, table, notified, listening, poller, inbox, client, received, faults,
                       committed, overtaken, owed>>
        /\ merge = NoMerge /\ channel[d] # <<>> /\ channel' = [channel EXCEPT ![d] = Tail(channel[d])]
    BY DEF MergeReceive, database, wake, observers
  <1>2. /\ channel \in [Databases -> Seq(SUBSET Ids)] /\ channel[d] \in Seq(SUBSET Ids) /\ listeners \in Seq(Listeners)
    BY TypeFacts
  <1>3. PICK t : t = Tail(channel[d])
    OBVIOUS
  <1>4. PICK h : h = Head(channel[d])
    OBVIOUS
  <1>5. t \in Seq(SUBSET Ids) /\ h \in SUBSET Ids /\ Len(channel[d]) = Len(t) + 1 /\ Len(t) \in Nat
    BY <1>1, <1>2, <1>3, <1>4, Popped
  <1>6. /\ channel' \in [Databases -> Seq(SUBSET Ids)] /\ channel'[d] = t
        /\ \A e \in Databases : e # d => channel'[e] = channel[e]
    <2>1. channel' = [channel EXCEPT ![d] = t]
      BY <1>1, <1>3
    <2> QED
      BY <1>2, <1>5, <2>1
  <1>7. /\ ChannelIds(d) = ChannelIds(d)' \cup h
        /\ \A e \in Databases : e # d => ChannelIds(e)' = ChannelIds(e)
    <2>1. PICK q \in Seq(SUBSET Ids) : q = channel[d]
      BY <1>2
    <2>2. q # <<>> /\ t = Tail(q) /\ h = Head(q)
      BY <1>1, <1>3, <1>4, <2>1
    <2>3. UnionOf(q) = UnionOf(t) \cup h
      BY <2>2, UnionTail
    <2>4. UnionOf(channel[d])' = UnionOf(t)
      BY <1>6 DEF UnionOf
    <2>5. ChannelIds(d) = ChannelIds(d)' \cup h
      BY <2>1, <2>3, <2>4 DEF ChannelIds
    <2>6. \A e \in Databases : e # d => ChannelIds(e)' = ChannelIds(e)
      BY <1>6 DEF ChannelIds, UnionOf
    <2> QED
      BY <2>5, <2>6
  <1>8. FreshInv /\ CommittedInv /\ KeptInv /\ RegistryInv
    BY DEF IInv
  <1>9. merge.todo = <<>> /\ merge.alive = <<>>
    BY <1>1, NoMergeFields
  <1>10. \A k \in Listeners : client[k] = "open" => Occurs(k, listeners)
    BY <1>8, <1>9, IdsEmpty DEF RegistryInv
  <1>11. \A k, e : MergeIds(k, e) = {}
    BY <1>1 DEF MergeIds
  <1>12. /\ merge' = NoMerge \/ merge' \in Merges
         /\ listeners' \in Seq(Listeners)
         /\ RegistryInv'
         /\ \A k, e : MergeIds(k, e)' \subseteq (IF e = d THEN h ELSE {})
         /\ \A k \in Listeners : Occurs(k, listeners) => MergeIds(k, d)' = h
    <2>1. CASE listeners = <<>>
      <3>1. merge' = NoMerge /\ listeners' = listeners /\ merge' = merge
        BY <1>1, <2>1 DEF MergeReceive
      <3>2. RegistryInv'
        BY <1>1, <3>1, RegistrySame
      <3>3. \A k, e : MergeIds(k, e)' = {}
        BY <3>1 DEF MergeIds
      <3>4. \A k : ~Occurs(k, listeners)
        BY <2>1, IdsEmpty
      <3> QED
        BY <1>2, <3>1, <3>2, <3>3, <3>4
    <2>2. CASE listeners # <<>>
      <3>1. merge' = [batch |-> [db |-> d, ids |-> h], todo |-> listeners, alive |-> <<>>] /\ listeners' = <<>>
        BY <1>4, <2>2 DEF MergeReceive
      <3>2. PICK z \in Seq(Listeners) : z = <<>>
        <4>1. <<>> \in Seq(Listeners)
          OBVIOUS
        <4> QED
          BY <4>1, Zenon
      <3>3. PICK b \in Batch : b = [db |-> d, ids |-> h] /\ b.db = d /\ b.ids = h
        <4>1. h \in SUBSET Ids
          BY <1>5
        <4>2. [db |-> d, ids |-> h] \in Batch /\ [db |-> d, ids |-> h].db = d /\ [db |-> d, ids |-> h].ids = h
          BY <4>1 DEF Batch
        <4> QED
          BY <4>2, Zenon
      <3>4. merge' = [batch |-> b, todo |-> listeners, alive |-> z] /\ listeners' = z
        BY <3>1, <3>2, <3>3, Zenon
      <3>5. merge' \in Merges /\ merge'.batch = b /\ merge'.todo = listeners /\ merge'.alive = z
        BY <1>2, <2>2, <3>4 DEF Merges
      <3>6. merge' # NoMerge
        BY <2>2, <3>5, NoMergeFields
      <3>7. /\ \A k : Occurs(k, merge.todo)' = Occurs(k, listeners)
            /\ \A k : ~Occurs(k, merge.alive)' /\ ~Occurs(k, listeners)'
            /\ OnceIn(merge.todo)' = OnceIn(listeners) /\ OnceIn(merge.alive)' /\ OnceIn(listeners)'
        <4>1. Len(z) = 0
          BY <3>2
        <4> QED
          BY <3>4, <3>5, <4>1 DEF Occurs, OnceIn
      <3>8. RegistryInv'
        BY <1>1, <1>8, <1>10, <3>2, <3>4, <3>7 DEF RegistryInv
      <3>9. \A k, e : MergeIds(k, e)' = {n \in Ids : d = e /\ n \in h /\ Occurs(k, listeners)}
        BY <3>3, <3>5, <3>6, <3>7 DEF MergeIds
      <3> QED
        BY <1>5, <3>4, <3>5, <3>8, <3>9
    <2> QED
      BY <2>1, <2>2
  <1>13. /\ PollInv' /\ \A e : PollIds(e)' = PollIds(e) /\ TableIds(e)' = TableIds(e)
         /\ \A k \in Listeners : \A e : ReadIds(k, e)' = ReadIds(k, e) /\ InboxIds(k, e)' = InboxIds(k, e)
    BY <1>1, PollSame, InboxSame, ReceivedSame
  <1>14. TypeOK'
    <2>1. \A e \in Databases : Len(channel[e]) <= ChannelCap
      BY DEF IInv, TypeOK
    <2>2. ASSUME NEW e \in Databases PROVE Len(channel'[e]) <= ChannelCap
      <3>1. CASE e = d
        <4>1. Len(t) + 1 <= ChannelCap /\ ChannelCap \in Nat /\ Len(t) \in Nat
          BY <1>5, <2>1, ChannelCapAssumption
        <4>2. Len(t) <= ChannelCap
          BY <4>1
        <4> QED
          BY <1>6, <3>1, <4>2
      <3>2. CASE e # d
        BY <1>6, <2>1, <3>2
      <3> QED
        BY <3>1, <3>2
    <2> QED
      BY <1>1, <1>6, <1>12, <2>2 DEF IInv, TypeOK, Merges
  <1>15. FreshInv'
    BY <1>1, FreshSame
  <1>16. CommittedInv'
    <2>1. \A e \in Databases : ChannelIds(e)' \subseteq ChannelIds(e) /\ (IF e = d THEN h ELSE {}) \subseteq ChannelIds(e)
      BY <1>7
    <2>2. ASSUME NEW k \in Listeners, NEW e \in Databases
          PROVE  MergeIds(k, e)' \cup InboxIds(k, e)' \cup ReadIds(k, e)' \subseteq committed'[e]
      <3>1. ChannelIds(e) \subseteq committed[e] /\ InboxIds(k, e) \cup ReadIds(k, e) \subseteq committed[e]
        BY <1>8 DEF CommittedInv
      <3>2. MergeIds(k, e)' \subseteq ChannelIds(e)
        BY <1>12, <2>1
      <3> QED
        BY <1>1, <1>13, <3>1, <3>2
    <2> QED
      BY <1>1, <1>8, <1>13, <2>1, <2>2 DEF CommittedInv
  <1>17. KeptInv'
    <2> SUFFICES ASSUME NEW k \in Listeners, NEW e \in Databases, client[k] = "open", NEW n \in Ids,
                        <<e, n>> \in owed[k] \ overtaken
                 PROVE  n \in table[e] \cup PollIds(e) \cup ChannelIds(e)' \cup MergeIds(k, e)' \cup InboxIds(k, e)
                              \cup ReadIds(k, e)
      BY <1>1, <1>13 DEF KeptInv
    <2>1. n \in table[e] \cup PollIds(e) \cup ChannelIds(e) \cup MergeIds(k, e) \cup InboxIds(k, e) \cup ReadIds(k, e)
      BY <1>8 DEF KeptInv
    <2>2. ChannelIds(e) \subseteq ChannelIds(e)' \cup MergeIds(k, e)'
      BY <1>7, <1>10, <1>12
    <2> QED
      BY <1>11, <2>1, <2>2
  <1>18. ASSUME faults' = 0 PROVE OrderInv'
    <2>1. OrderInv
      BY <1>1, <1>18 DEF IInv
    <2>2. \A k \in Listeners : Sorted(overtaken', received'[k]) /\ Sorted(overtaken', inbox'[k])
      BY <1>1, <2>1 DEF OrderInv
    <2>3. ASSUME NEW k \in Listeners PROVE SortedSets(overtaken, d, t) /\ Ahead(overtaken, d, h, UnionOf(t))
      <3>1. PICK q \in Seq(SUBSET Ids) : q = channel[d]
        BY <1>2
      <3>2. q # <<>> /\ t = Tail(q) /\ h = Head(q)
        BY <1>1, <1>3, <1>4, <3>1
      <3>3. SortedSets(overtaken, d, q)
        BY <2>1, <3>1 DEF OrderInv
      <3> QED
        BY <3>2, <3>3, SetsTail
    <2>4. ASSUME NEW k \in Listeners, NEW e \in Databases PROVE SortedSets(overtaken', e, channel'[e])
      BY <1>1, <1>6, <2>1, <2>3 DEF OrderInv
    <2>5. ASSUME NEW k \in Listeners, NEW e \in Databases
          PROVE  Chain(overtaken', e, ReadIds(k, e), InboxIds(k, e), MergeIds(k, e)', ChannelIds(e)', PollIds(e), TableIds(e))
      <3>1. Chain(overtaken, e, ReadIds(k, e), InboxIds(k, e), {}, ChannelIds(e), PollIds(e), TableIds(e))
        BY <1>11, <2>1 DEF OrderInv
      <3>2. CASE e # d
        <4>1. MergeIds(k, e)' = {} /\ ChannelIds(e)' = ChannelIds(e)
          BY <1>7, <1>12, <3>2
        <4> QED
          BY <1>1, <3>1, <4>1
      <3>3. CASE e = d
        <4>1. PICK C : C = ChannelIds(e)'
          OBVIOUS
        <4>2. PICK M : M = MergeIds(k, e)'
          OBVIOUS
        <4>3. ChannelIds(e) = C \cup h /\ M \subseteq h
          BY <1>7, <1>12, <3>3, <4>1, <4>2
        <4>4. UnionOf(channel[d])' = UnionOf(t)
          BY <1>6 DEF UnionOf
        <4>5. Ahead(overtaken, e, h, C)
          BY <2>3, <3>3, <4>1, <4>4 DEF ChannelIds
        <4>6. Chain(overtaken, e, ReadIds(k, e), InboxIds(k, e), M, C, PollIds(e), TableIds(e))
          BY <3>1, <4>3, <4>5, ChainMerge
        <4> QED
          BY <1>1, <4>1, <4>2, <4>6
      <3> QED
        BY <3>2, <3>3
    <2> QED
      BY <1>13, <2>2, <2>4, <2>5 DEF OrderInv
  <1> QED
    BY <1>12, <1>13, <1>14, <1>15, <1>16, <1>17, <1>18 DEF IInv

\* The first of the listeners to do is sent the batch, or pruned.
LEMMA MergeSendInv ==
    ASSUME IInv, MergeSend
    PROVE  IInv'
  <1>0. PICK l, a : l = Head(merge.todo) /\ a = Alive(l)
    OBVIOUS
  <1>1. /\ UNCHANGED <<nextId, writing, table, notified, listening, poller, channel, client, received, faults,
                       committed, overtaken, owed>>
        /\ merge # NoMerge
    BY DEF MergeSend, database, wake, observers
  <1>2. merge \in Merges
    BY <1>1 DEF IInv, TypeOK, Merges
  <1>3. /\ merge.batch \in Batch /\ merge.todo \in Seq(Listeners) /\ merge.todo # <<>> /\ merge.alive \in Seq(Listeners)
        /\ inbox \in [Listeners -> Seq(Batch)]
    BY <1>2, MergeFields, TypeFacts
  <1>4. PICK t : t = Tail(merge.todo)
    OBVIOUS
  <1>5. PICK w \in Seq(Listeners) : w = merge.todo /\ w # <<>> /\ t = Tail(w) /\ l = Head(w)
    BY <1>0, <1>3, <1>4
  <1>6. /\ t \in Seq(Listeners) /\ Len(t) \in Nat /\ Len(merge.todo) = Len(t) + 1 /\ l \in Listeners
    BY <1>5, Popped
  <1>7. FreshInv /\ CommittedInv /\ KeptInv /\ RegistryInv
    BY DEF IInv
  <1>8. /\ OnceIn(t) /\ ~Occurs(l, t) /\ Occurs(l, merge.todo)
        /\ \A k : Occurs(k, merge.todo) <=> Occurs(k, t) \/ k = l
    <2>1. OnceIn(w)
      BY <1>5, <1>7 DEF RegistryInv
    <2>2. OnceIn(t) /\ ~Occurs(l, t)
      BY <1>5, <2>1, OnceTail
    <2>3. \A k : Occurs(k, w) <=> Occurs(k, t) \/ k = l
      BY <1>5, OccursTail
    <2> QED
      BY <1>5, <2>2, <2>3
  <1>9. listeners = <<>> /\ client[l] # "new" /\ ~Occurs(l, merge.alive) /\ OnceIn(merge.alive)
    BY <1>1, <1>6, <1>7, <1>8 DEF RegistryInv
  <1>10. /\ a \in Seq(Listeners) /\ OnceIn(a)
         /\ \A k : Occurs(k, a) <=> Occurs(k, merge.alive) \/ (k = l /\ client[l] = "open")
    <2>1. CASE client[l] = "open"
      <3>1. a = Append(merge.alive, l)
        BY <1>0, <2>1 DEF Alive
      <3>2. PICK q \in Seq(Listeners) : q = merge.alive
        BY <1>3
      <3>3. PICK r : r = Append(q, l)
        OBVIOUS
      <3>4. r \in Seq(Listeners) /\ OnceIn(r)
        BY <1>6, <1>9, <3>2, <3>3, Appended, OnceAppend
      <3>5. \A k : Occurs(k, r) <=> Occurs(k, q) \/ k = l
        BY <1>6, <3>2, <3>3, OccursAppend
      <3>6. a = r
        BY <3>1, <3>2, <3>3
      <3> QED
        BY <2>1, <3>2, <3>4, <3>5, <3>6
    <2>2. CASE client[l] # "open"
      <3>1. a = merge.alive
        BY <1>0, <2>2 DEF Alive
      <3> QED
        BY <1>3, <1>9, <2>2, <3>1
    <2> QED
      BY <2>1, <2>2
  <1>11. /\ Len(merge.todo) = 1 => merge' = NoMerge /\ listeners' = a
         /\ Len(merge.todo) # 1 => merge' = [merge EXCEPT !.todo = t, !.alive = a] /\ listeners' = listeners
    BY <1>0, <1>4 DEF MergeSend
  <1>12. /\ client[l] = "open" => Len(inbox[l]) < ChannelCap /\ inbox' = [inbox EXCEPT ![l] = Append(inbox[l], merge.batch)]
         /\ client[l] # "open" => inbox' = inbox
    BY <1>0 DEF MergeSend
  <1>13. /\ merge' = NoMerge \/ merge' \in Merges
         /\ listeners' \in Seq(Listeners)
         /\ RegistryInv'
         /\ \A k, e : k # l => MergeIds(k, e)' = MergeIds(k, e)
         /\ \A e : MergeIds(l, e)' = {} /\ MergeIds(l, e) = Part(merge.batch, e)
    <2>1. \A k \in Listeners : client[k] = "open" => Occurs(k, t) \/ Occurs(k, a)
      BY <1>7, <1>8, <1>9, <1>10, IdsEmpty DEF RegistryInv
    <2>2. \A k \in Listeners : client[k] = "new" => owed[k] = {} /\ ~Occurs(k, t) /\ ~Occurs(k, a)
      BY <1>7, <1>8, <1>9, <1>10 DEF RegistryInv
    <2>3. \A k \in Listeners : ~(Occurs(k, t) /\ Occurs(k, a))
      BY <1>7, <1>8, <1>10 DEF RegistryInv
    <2>4. \A k, e : MergeIds(k, e) = {n \in Ids : merge.batch.db = e /\ n \in merge.batch.ids /\ Occurs(k, merge.todo)}
      BY <1>1 DEF MergeIds
    <2>5. \A e : MergeIds(l, e) = Part(merge.batch, e)
      BY <1>8, <2>4 DEF Part
    <2>6. CASE Len(merge.todo) = 1
      <3>1. merge' = NoMerge /\ listeners' = a /\ merge'.todo = <<>> /\ merge'.alive = <<>>
        BY <1>11, <2>6, NoMergeFields
      <3>2. Len(t) = 0 /\ \A k : ~Occurs(k, t)
        <4>1. PICK n \in Nat : n = Len(t)
          BY <1>6
        <4>2. n + 1 = 1
          BY <1>6, <2>6, <4>1, Zenon
        <4>3. n = 0
          BY <4>1, <4>2
        <4> QED
          BY <4>1, <4>3 DEF Occurs
      <3>3. \A k, e : MergeIds(k, e)' = {}
        BY <3>1 DEF MergeIds
      <3>4. \A k, e : k # l => MergeIds(k, e) = {}
        BY <1>8, <2>4, <3>2
      <3>5. /\ \A k : ~Occurs(k, merge.todo)' /\ ~Occurs(k, merge.alive)' /\ Occurs(k, listeners)' = Occurs(k, a)
            /\ OnceIn(merge.todo)' /\ OnceIn(merge.alive)' /\ OnceIn(listeners)' = OnceIn(a)
        <4>1. Len(<<>>) = 0
          OBVIOUS
        <4>2. Len(merge.todo)' = 0 /\ Len(merge.alive)' = 0 /\ listeners' = a
          BY <3>1, <4>1
        <4> QED
          BY <4>2 DEF Occurs, OnceIn
      <3>6. RegistryInv'
        BY <1>1, <1>10, <2>1, <2>2, <3>1, <3>2, <3>5 DEF RegistryInv
      <3> QED
        BY <1>10, <2>5, <3>1, <3>3, <3>4, <3>6
    <2>7. CASE Len(merge.todo) # 1
      <3>1. merge' = [merge EXCEPT !.todo = t, !.alive = a] /\ listeners' = listeners
        BY <1>11, <2>7
      <3>2. Len(t) # 0
        BY <1>6, <2>7
      <3>3. t \in Seq(Listeners) \ {<<>>}
        BY <1>6, <3>2
      <3>4. merge' \in Merges /\ merge'.batch = merge.batch /\ merge'.todo = t /\ merge'.alive = a
        BY <1>2, <1>10, <3>1, <3>3 DEF Merges
      <3>5. merge' # NoMerge
        BY <3>3, <3>4, NoMergeFields
      <3>6. /\ \A k : Occurs(k, merge.todo)' = Occurs(k, t) /\ Occurs(k, merge.alive)' = Occurs(k, a)
            /\ OnceIn(merge.todo)' = OnceIn(t) /\ OnceIn(merge.alive)' = OnceIn(a)
        BY <3>4 DEF Occurs, OnceIn
      <3>7. listeners' = <<>> /\ OnceIn(listeners)' /\ \A k : ~Occurs(k, listeners)'
        <4>1. Len(<<>>) = 0
          OBVIOUS
        <4>2. listeners' = <<>> /\ Len(listeners') = 0
          BY <1>9, <3>1, <4>1
        <4> QED
          BY <4>2 DEF OnceIn, Occurs
      <3>8. RegistryInv'
        BY <1>1, <1>8, <1>10, <2>1, <2>2, <2>3, <3>6, <3>7 DEF RegistryInv
      <3>9. \A k, e : MergeIds(k, e)' = {n \in Ids : merge.batch.db = e /\ n \in merge.batch.ids /\ Occurs(k, t)}
        BY <3>4, <3>5, <3>6 DEF MergeIds
      <3>10. \A k, e : k # l => MergeIds(k, e)' = MergeIds(k, e)
        BY <1>8, <2>4, <3>9
      <3>11. \A e : MergeIds(l, e)' = {}
        BY <1>8, <3>9
      <3>12. listeners' \in Seq(Listeners)
        BY <3>1, TypeFacts
      <3> QED
        BY <2>5, <3>4, <3>8, <3>10, <3>11, <3>12
    <2> QED
      BY <2>6, <2>7
  <1>14. PICK r : r = (IF client[l] = "open" THEN Append(inbox[l], merge.batch) ELSE inbox[l])
    OBVIOUS
  <1>15. /\ r \in Seq(Batch) /\ Len(r) <= ChannelCap
         /\ client[l] = "open" => \A e : IdsIn(r, e) = IdsIn(inbox[l], e) \cup Part(merge.batch, e)
         /\ client[l] # "open" => r = inbox[l]
    <2>1. PICK q \in Seq(Batch) : q = inbox[l] /\ Len(q) <= ChannelCap
      BY <1>3, <1>6 DEF IInv, TypeOK
    <2>2. PICK b \in Batch : b = merge.batch
      BY <1>3
    <2>3. CASE client[l] = "open"
      <3>1. r = Append(q, b) /\ Len(q) < ChannelCap
        BY <1>12, <1>14, <2>1, <2>2, <2>3
      <3>2. r \in Seq(Batch) /\ Len(q) \in Nat /\ Len(r) = Len(q) + 1
        BY <3>1, Appended
      <3>3. Len(r) <= ChannelCap
        BY <3>1, <3>2, ChannelCapAssumption
      <3>4. \A e : IdsIn(Append(q, b), e) = IdsIn(q, e) \cup Part(b, e)
        BY IdsAppend
      <3> QED
        BY <2>1, <2>2, <2>3, <3>1, <3>2, <3>3, <3>4
    <2>4. CASE client[l] # "open"
      BY <1>14, <2>1, <2>4
    <2> QED
      BY <2>3, <2>4
  <1>16. inbox' \in [Listeners -> Seq(Batch)] /\ inbox'[l] = r /\ \A k \in Listeners : k # l => inbox'[k] = inbox[k]
    <2>1. CASE client[l] = "open"
      <3>1. inbox' = [inbox EXCEPT ![l] = r]
        BY <1>12, <1>14, <2>1
      <3> QED
        BY <1>3, <1>6, <1>15, <3>1
    <2>2. CASE client[l] # "open"
      BY <1>3, <1>12, <1>15, <2>2
    <2> QED
      BY <2>1, <2>2
  <1>17. /\ client[l] = "open" => \A e : InboxIds(l, e)' = InboxIds(l, e) \cup MergeIds(l, e)
         /\ client[l] # "open" => \A e : InboxIds(l, e)' = InboxIds(l, e)
         /\ \A k \in Listeners : k # l => \A e : InboxIds(k, e)' = InboxIds(k, e)
    <2>1. \A e : InboxIds(l, e)' = IdsIn(r, e)
      BY <1>16 DEF InboxIds, IdsIn
    <2>2. \A k \in Listeners : k # l => \A e : InboxIds(k, e)' = InboxIds(k, e)
      BY <1>16, InboxSame
    <2> QED
      BY <1>13, <1>15, <2>1, <2>2 DEF InboxIds
  <1>18. /\ PollInv' /\ \A e : PollIds(e)' = PollIds(e) /\ TableIds(e)' = TableIds(e) /\ ChannelIds(e)' = ChannelIds(e)
         /\ \A k \in Listeners : \A e : ReadIds(k, e)' = ReadIds(k, e)
    BY <1>1, PollSame, ChannelSame, ReceivedSame
  <1>19. TypeOK'
    <2>1. ASSUME NEW k \in Listeners PROVE Len(inbox'[k]) <= ChannelCap
      <3>1. CASE k = l
        BY <1>15, <1>16, <3>1
      <3>2. CASE k # l
        BY <1>16, <3>2 DEF IInv, TypeOK
      <3> QED
        BY <3>1, <3>2
    <2> QED
      BY <1>1, <1>13, <1>16, <2>1 DEF IInv, TypeOK, Merges
  <1>20. FreshInv'
    BY <1>1, FreshSame
  <1>21. CommittedInv'
    <2>1. ASSUME NEW k \in Listeners, NEW e \in Databases
          PROVE  MergeIds(k, e)' \cup InboxIds(k, e)' \cup ReadIds(k, e)' \subseteq committed'[e]
      <3>1. MergeIds(k, e) \cup InboxIds(k, e) \cup ReadIds(k, e) \subseteq committed[e]
        BY <1>7 DEF CommittedInv
      <3>2. MergeIds(k, e)' \cup InboxIds(k, e)' \subseteq MergeIds(k, e) \cup InboxIds(k, e)
        <4>1. CASE k = l
          BY <1>13, <1>17, <4>1
        <4>2. CASE k # l
          BY <1>13, <1>17, <4>2
        <4> QED
          BY <4>1, <4>2
      <3> QED
        BY <1>1, <1>18, <3>1, <3>2
    <2> QED
      BY <1>1, <1>7, <1>18, <2>1 DEF CommittedInv
  <1>22. KeptInv'
    <2> SUFFICES ASSUME NEW k \in Listeners, NEW e \in Databases, client[k] = "open", NEW n \in Ids,
                        <<e, n>> \in owed[k] \ overtaken
                 PROVE  n \in table[e] \cup PollIds(e) \cup ChannelIds(e) \cup MergeIds(k, e)' \cup InboxIds(k, e)'
                              \cup ReadIds(k, e)
      BY <1>1, <1>18 DEF KeptInv
    <2>1. n \in table[e] \cup PollIds(e) \cup ChannelIds(e) \cup MergeIds(k, e) \cup InboxIds(k, e) \cup ReadIds(k, e)
      BY <1>7 DEF KeptInv
    <2>2. MergeIds(k, e) \cup InboxIds(k, e) \subseteq MergeIds(k, e)' \cup InboxIds(k, e)'
      <3>1. CASE k = l
        BY <1>17, <3>1
      <3>2. CASE k # l
        BY <1>13, <1>17, <3>2
      <3> QED
        BY <3>1, <3>2
    <2> QED
      BY <2>1, <2>2
  <1>23. ASSUME faults' = 0 PROVE OrderInv'
    <2>1. OrderInv
      BY <1>1, <1>23 DEF IInv
    <2>2. /\ \A k \in Listeners, e \in Databases : SortedSets(overtaken', e, channel'[e])
          /\ \A k \in Listeners : Sorted(overtaken', received'[k])
      BY <1>1, <2>1 DEF OrderInv
    <2>3. Sorted(overtaken, r)
      <3>1. CASE client[l] # "open"
        BY <1>6, <1>15, <2>1, <3>1 DEF OrderInv
      <3>2. CASE client[l] = "open"
        <4>1. PICK q \in Seq(Batch) : q = inbox[l]
          BY <1>3, <1>6
        <4>2. PICK b \in Batch : b = merge.batch
          BY <1>3
        <4>3. b.db \in Databases /\ MergeIds(l, b.db) = b.ids
          BY <1>13, <4>2, BatchFields
        <4>4. Chain(overtaken, b.db, ReadIds(l, b.db), InboxIds(l, b.db), MergeIds(l, b.db), ChannelIds(b.db),
                    PollIds(b.db), TableIds(b.db))
          BY <1>6, <2>1, <4>3 DEF OrderInv
        <4>5. Ahead(overtaken, b.db, IdsIn(q, b.db), b.ids)
          BY <4>1, <4>3, <4>4 DEF Chain, Ahead, InboxIds
        <4>6. Sorted(overtaken, q) /\ r = Append(q, b)
          BY <1>6, <1>14, <2>1, <3>2, <4>1, <4>2 DEF OrderInv
        <4> QED
          BY <4>5, <4>6, SortedAppend
      <3> QED
        BY <3>1, <3>2
    <2>4. ASSUME NEW k \in Listeners PROVE Sorted(overtaken', inbox'[k])
      <3>1. CASE k = l
        BY <1>1, <1>16, <2>3, <3>1
      <3>2. CASE k # l
        BY <1>1, <1>16, <2>1, <3>2 DEF OrderInv
      <3> QED
        BY <3>1, <3>2
    <2>5. ASSUME NEW k \in Listeners, NEW e \in Databases
          PROVE  Chain(overtaken', e, ReadIds(k, e), InboxIds(k, e)', MergeIds(k, e)', ChannelIds(e), PollIds(e), TableIds(e))
      <3>1. Chain(overtaken, e, ReadIds(k, e), InboxIds(k, e), MergeIds(k, e), ChannelIds(e), PollIds(e), TableIds(e))
        BY <2>1 DEF OrderInv
      <3>2. CASE k # l
        BY <1>1, <1>13, <1>17, <3>1, <3>2
      <3>3. CASE k = l /\ client[l] = "open"
        <4>1. Chain(overtaken, e, ReadIds(k, e), InboxIds(k, e) \cup MergeIds(k, e), {}, ChannelIds(e), PollIds(e), TableIds(e))
          BY <3>1, ChainInbox
        <4> QED
          BY <1>1, <1>13, <1>17, <3>3, <4>1
      <3>4. CASE k = l /\ client[l] # "open"
        <4>1. Chain(overtaken, e, ReadIds(k, e), InboxIds(k, e), {}, ChannelIds(e), PollIds(e), TableIds(e))
          BY <3>1, ChainLess
        <4> QED
          BY <1>1, <1>13, <1>17, <3>4, <4>1
      <3> QED
        BY <3>2, <3>3, <3>4
    <2> QED
      BY <1>18, <2>2, <2>4, <2>5 DEF OrderInv
  <1> QED
    BY <1>13, <1>18, <1>19, <1>20, <1>21, <1>22, <1>23 DEF IInv

-----------------------------------------------------------------------------
LEMMA InvStep == IInv /\ [Next]_vars => IInv'
  <1> SUFFICES ASSUME IInv, [Next]_vars
               PROVE  IInv'
    OBVIOUS
  <1>1. ASSUME NEW d \in Databases, Write(d) \/ \E i \in Ids : Rollback(d, i)
        PROVE  IInv'
    BY <1>1, WriteInv
  <1>2. ASSUME NEW d \in Databases, NEW i \in Ids, Commit(d, i)
        PROVE  IInv'
    BY <1>2, CommitInv
  <1>3. ASSUME NEW d \in Databases, FetchEvents(d)
        PROVE  IInv'
    <2>1. CASE faults' = faults
      BY <1>3, <2>1, FetchInv
    <2>2. CASE faults' # faults
      BY <1>3, <2>2, WakeInv
    <2> QED
      BY <2>1, <2>2
  <1>4. ASSUME NEW d \in Databases, DeleteEvents(d)
        PROVE  IInv'
    BY <1>4, DeleteInv
  <1>5. ASSUME NEW d \in Databases, SendBatch(d)
        PROVE  IInv'
    BY <1>5, SendInv
  <1>6. ASSUME NEW d \in Databases, Wake(d)
        PROVE  IInv'
    BY <1>6, WakeInv
  <1>7. ASSUME NEW d \in Databases, MergeReceive(d)
        PROVE  IInv'
    BY <1>7, MergeReceiveInv
  <1>8. CASE MergeSend
    BY <1>8, MergeSendInv
  <1>9. ASSUME NEW l \in Listeners, AddListener(l)
        PROVE  IInv'
    BY <1>9, AddListenerInv
  <1>10. ASSUME NEW l \in Listeners, Receive(l)
         PROVE  IInv'
    BY <1>10, ReceiveInv
  <1>11. ASSUME NEW l \in Listeners, CloseListener(l)
         PROVE  IInv'
    BY <1>11, CloseListenerInv
  <1>12. CASE UNCHANGED vars
    <2>1. /\ UNCHANGED <<nextId, writing, table, notified, listening, poller, channel, listeners, merge, inbox,
                         client, received, faults, committed, overtaken, owed>>
          /\ UNCHANGED <<delivery, observers>>
      BY <1>12 DEF vars, database, wake, delivery, observers
    <2>2. CommittedInv' /\ PollInv' /\ RegistryInv' /\ KeptInv' /\ (faults' = 0 => OrderInv')
      BY <2>1, Steady
    <2>3. FreshInv' /\ TypeOK'
      BY <2>1, FreshSame DEF IInv, TypeOK
    <2> QED
      BY <2>2, <2>3 DEF IInv
  <1> QED
    BY <1>1, <1>2, <1>3, <1>4, <1>5, <1>6, <1>7, <1>8, <1>9, <1>10, <1>11, <1>12 DEF Next, PollStep

\* Whatever the transactions, the pollers, the merge loop and the clients do.
THEOREM InvCorrect == Spec => []IInv
  BY InvInit, InvStep, PTL DEF Spec

\* Every variable of the two pollers (db_events, ui_event_poller.rs) holds a
\* value of its kind and no channel exceeds its capacity.
THEOREM TypeCorrect == Spec => []TypeOK
  <1>1. IInv => TypeOK
    BY DEF IInv
  <1> QED
    BY <1>1, InvCorrect, PTL

\* Deleting by id what was read, dispatching what could not be deleted, waiting
\* at a full channel and pruning a listener lose no event, overtaken ones aside
\* (poll_once, dispatch_batch).
THEOREM NotLostCorrect == Spec => []NotLost
  <1>1. ASSUME IInv, NEW l \in Listeners, client[l] = "open", NEW e \in owed[l] \ overtaken
        PROVE  Read(e, l) \/ OnTheWay(e, l)
    <2>1. e \in Databases \X Ids
      BY <1>1, TypeFacts DEF Event
    <2>2. PICK d \in Databases, n \in Ids : e = <<d, n>>
      BY <2>1
    <2>3. e[1] = d /\ e[2] = n
      BY <2>2
    <2>4. n \in table[d] \cup PollIds(d) \cup ChannelIds(d) \cup MergeIds(l, d) \cup InboxIds(l, d) \cup ReadIds(l, d)
      BY <1>1, <2>2 DEF IInv, KeptInv
    <2>5. n \in ReadIds(l, d) => Read(e, l)
      BY <2>3 DEF ReadIds, IdsIn, Read, InSeq, In
    <2>6. n \in InboxIds(l, d) => InSeq(e, inbox[l])
      BY <2>3 DEF InboxIds, IdsIn, InSeq, In
    <2>7. n \in MergeIds(l, d) => /\ merge # NoMerge /\ In(e, merge.batch)
                                  /\ \E i \in 1..Len(merge.todo) : merge.todo[i] = l
      BY <2>3 DEF MergeIds, Occurs, In
    <2>8. n \in ChannelIds(d) => \E i \in 1..Len(channel[d]) : n \in channel[d][i]
      BY DEF ChannelIds, UnionOf
    <2> QED
      BY <2>3, <2>4, <2>5, <2>6, <2>7, <2>8 DEF PollIds, OnTheWay
  <1>2. IInv => NotLost
    BY <1>1 DEF NotLost
  <1> QED
    BY <1>2, InvCorrect, PTL

\* While no query fails a listener reads each event once and, overtaken ones
\* aside, the events of a database by their ids: the rows that a delete leaves
\* are behind the ones that it removed (delete_events), through every channel.
THEOREM OnceInOrderCorrect == Spec => []OnceInOrder
  <1>1. IInv => OnceInOrder
    BY DEF IInv, OrderInv, Sorted, Ahead, Before, OnceInOrder
  <1> QED
    BY <1>1, InvCorrect, PTL

\* A listener that is there is registered, or is registered again by the dispatch
\* that drained the registry (dispatch_batch of ui_event_poller.rs).
THEOREM StaysRegisteredCorrect == Spec => []StaysRegistered
  <1>1. IInv => StaysRegistered
    BY DEF IInv, RegistryInv, Occurs, StaysRegistered
  <1> QED
    BY <1>1, InvCorrect, PTL
=============================================================================
