------------------------- MODULE TicketStoreProofs -------------------------
(***************************************************************************)
(* Proofs about the ticket database, for any number of concurrent callers, *)
(* any finite set of ids and any number of calls.                          *)
(***************************************************************************)
EXTENDS TicketStore, FiniteSetTheorems, WellFoundedInduction, TLAPS

-----------------------------------------------------------------------------
(* The inductive invariant. *)

\* What a call, as the record r, is doing: it updates its ticket, from the first
\* statement on; it has read the row; it has written one and has not committed.
Updates(r) == r.pc \in {"children", "read"} \cup AfterRead
HasRead(r) == r.pc \in AfterRead
Commits(r) == r.pc = "commit"
Renames(r) == r.newId # r.id

\* The row it writes, and the table with it.
New(r) == Written(r.seen, r.change)
After(R, r) == [R EXCEPT ![r.id] = NoRow, ![r.newId] = New(r)]

\* An update has a ticket and a change, and looks for a new id only if the
\* project changes.
CallOK(r) ==
    /\ Updates(r) => /\ r.id \in Ids /\ r.newId \in Ids /\ r.change \in Change
    /\ r.pc = "rekey" => r.change.project # 0
    /\ HasRead(r) => r.seen \in Row /\ r.seen.parent # r.id
    /\ r.pc \in {"active", "insert"} => r.id \in Ids

CallInv == \A c \in Callers : CallOK(call[c])

Present == {j \in Ids : Exists(j)}

\* The parent of a row has a row.
ParentInv == \A i \in Ids : rows[i].parent \in ({None} \cup Present) \ {i}

\* A write that has not been committed will not break a key: its own row and
\* its parent are there, and it neither takes an id that is in use nor leaves one.
WriteOK(r) ==
    /\ Exists(r.id)
    /\ New(r).parent \in ({None} \cup Present) \ {r.id, r.newId}
    /\ Renames(r) => ~Exists(r.newId) /\ \A j \in Ids : rows[j].parent # r.id

WriteInv == \A c \in Callers : Commits(call[c]) => WriteOK(call[c])

\* Nor do two of them together.
PairOK(r, s) ==
    /\ r.id # s.id
    /\ Renames(s) => New(r).parent # s.id
    /\ Renames(r) /\ Renames(s) => r.newId # s.newId

PairInv ==
    \A c, d \in Callers : c # d /\ Commits(call[c]) /\ Commits(call[d]) => PairOK(call[c], call[d])

KeyInv == CallInv /\ ParentInv /\ WriteInv /\ PairInv

\* The update has looked at the children, or read a closed row, and will write
\* a closed row.
WillClose(r) ==
    \/ r.pc = "read" /\ Closing(r.change)
    \/ HasRead(r) /\ New(r).status = "closed"

ChildrenClosed(i) == i \notin unchecked => \A j \in Ids : rows[j].parent = i => rows[j].status # "open"

\* A ticket that is closed, or about to be, has no open child that a close could see.
EpicInv ==
    /\ \A i \in Ids : rows[i].status = "closed" => ChildrenClosed(i)
    /\ \A c \in Callers : WillClose(call[c]) => ChildrenClosed(call[c].id)

\* No set of tickets holds the parents of all its members.
Acyclic(R) == \A S \in SUBSET Ids : S # {} => \E i \in S : R[i].parent \notin S

\* As long as no two updates were uncommitted at a time, neither the rows nor
\* the rows with the uncommitted update have a cycle.
CycleInv ==
    ~tangled => /\ Acyclic(rows)
                /\ \A c, d \in Callers : Commits(call[c]) /\ Commits(call[d]) => c = d
                /\ \A c \in Callers : Commits(call[c]) => Acyclic(After(rows, call[c]))

\* On a ticket on which no calls overlapped, one update has read the row, and
\* the row is still what it read.
LostInv ==
    /\ ChangesKept
    /\ \A i \in Ids : asked[i] = NoRow <=> rows[i] = NoRow
    /\ \A c \in Callers : HasRead(call[c]) /\ call[c].id \notin overlapped => call[c].seen = rows[call[c].id]
    /\ \A c, d \in Callers : c # d /\ HasRead(call[c]) /\ HasRead(call[d]) /\ call[c].id = call[d].id
                                 => call[c].id \in overlapped

\* Likewise for a workflow that is about to be inserted.
ActiveInv ==
    /\ OneActiveWorkflow
    /\ \A c \in Callers : call[c].pc = "insert" /\ call[c].id \notin overlapped \cup spare
                              => workflows[call[c].id] = 0
    /\ \A c, d \in Callers : c # d /\ call[c].pc = "insert" /\ call[d].pc = "insert" /\ call[c].id = call[d].id
                                 => call[c].id \in overlapped

IInv == TypeOK /\ KeyInv /\ EpicInv /\ CycleInv /\ LostInv /\ ActiveInv

-----------------------------------------------------------------------------
(* Ids, rows, changes and calls. *)

LEMMA IdsTyped ==
    /\ None \notin Ids /\ IsFiniteSet(Ids) /\ Cardinality(Ids) \in Nat
    /\ \A i \in Ids : i[1] \in Projects /\ i[2] \in Hashes
    /\ \A p \in Projects : \A h \in Hashes : <<p, h>> \in Ids
    /\ Same \notin Ids \cup {None}
  <1>1. IsFiniteSet(Ids)
    BY StoreAssumption, FS_Product DEF Ids
  <1>2. Cardinality(Ids) \in Nat
    BY <1>1, FS_CardinalityType
  <1>3. None \notin Ids /\ Same \notin Ids
    BY StoreAssumption DEF Ids, None, Same
  <1>4. Same # None
    BY DEF None, Same
  <1> QED
    BY <1>1, <1>2, <1>3, <1>4, StoreAssumption DEF Ids

LEMMA RowTyped ==
    /\ NoRow \notin Row /\ NoRow.parent = None /\ NoRow.status = "none"
    /\ \A row \in Row : /\ row.status \in {"open", "closed"} /\ row.lifecycle \in {"open", "design", "done"}
                        /\ row.parent \in Ids \cup {None} /\ row # NoRow
    /\ \A p \in Ids \cup {None} : /\ NewRow(p) \in Row /\ NewRow(p) # NoRow
                                  /\ NewRow(p).status = "open" /\ NewRow(p).parent = p
  BY DEF Row, NoRow, NewRow

\* A row that is closed keeps its parent.
LEMMA ClosedRow ==
    ASSUME NEW row \in Row
    PROVE  /\ [row EXCEPT !.status = "closed"] \in Row
           /\ [row EXCEPT !.status = "closed"].status = "closed"
           /\ [row EXCEPT !.status = "closed"].parent = row.parent
  BY DEF Row

LEMMA ChangeTyped ==
    ASSUME NEW ch \in Change
    PROVE  /\ ch.status \in {"same", "open", "closed"} /\ ch.lifecycle \in {"same", "design", "done"}
           /\ ch.parent \in Ids \cup {None, Same} /\ ch.project \in Projects \cup {0}
  BY DEF Change

\* A change sets its columns and leaves the others.
LEMMA WithTyped ==
    ASSUME NEW row \in Row, NEW ch \in Change
    PROVE  /\ With(row, ch) \in Row
           /\ With(row, ch).status = IF ch.status = "same" THEN row.status ELSE ch.status
           /\ With(row, ch).parent = IF ch.parent = Same THEN row.parent ELSE ch.parent
  <1>1. PICK st \in {"open", "closed"} : st = IF ch.status = "same" THEN row.status ELSE ch.status
    BY ChangeTyped, RowTyped
  <1>2. PICK lc \in {"open", "design", "done"} :
            lc = IF ch.lifecycle = "same" THEN row.lifecycle ELSE ch.lifecycle
    BY ChangeTyped, RowTyped
  <1>3. PICK pa \in Ids \cup {None} : pa = IF ch.parent = Same THEN row.parent ELSE ch.parent
    BY ChangeTyped, RowTyped
  <1>4. With(row, ch) = [status |-> st, lifecycle |-> lc, parent |-> pa]
    BY <1>1, <1>2, <1>3 DEF With
  <1> QED
    BY <1>1, <1>2, <1>3, <1>4 DEF Row

LEMMA NewTyped ==
    ASSUME NEW r \in Call, CallOK(r), HasRead(r)
    PROVE  /\ r.id \in Ids /\ r.newId \in Ids /\ r.change \in Change /\ r.seen \in Row
           /\ New(r) \in Row /\ New(r).status \in {"open", "closed"} /\ New(r).parent \in Ids \cup {None}
           /\ New(r).parent = IF r.change.parent = Same THEN r.seen.parent ELSE r.change.parent
           /\ New(r).status = IF r.change.status = "same" THEN r.seen.status ELSE r.change.status
  <1>1. r.id \in Ids /\ r.newId \in Ids /\ r.change \in Change /\ r.seen \in Row
    BY DEF CallOK, HasRead, Updates
  <1>2. New(r) = With(r.seen, r.change)
    BY DEF New, Written
  <1> QED
    BY <1>1, <1>2, WithTyped, RowTyped

Pcs == {"idle", "children", "read", "active", "insert", "hungBelow"} \cup AfterRead

LEMMA CallTyped ==
    /\ NoCall \in Call /\ NoCall.pc = "idle" /\ CallOK(NoCall)
    /\ \A r \in Call : \A x \in Pcs :
          /\ [r EXCEPT !.pc = x] \in Call /\ [r EXCEPT !.pc = x].pc = x
          /\ [r EXCEPT !.pc = x].id = r.id /\ [r EXCEPT !.pc = x].newId = r.newId
          /\ [r EXCEPT !.pc = x].change = r.change /\ [r EXCEPT !.pc = x].seen = r.seen
  <1>1. NoRow \in Row \cup {NoRow} /\ None \in Ids \cup {None} /\ NoChange \in Change
    BY DEF NoChange, Change
  <1>2. NoCall \in Call /\ NoCall.pc = "idle"
    BY <1>1 DEF NoCall, Call
  <1>3. CallOK(NoCall)
    BY <1>2 DEF CallOK, Updates, HasRead, AfterRead
  <1>4. ASSUME NEW r \in Call, NEW x \in Pcs
        PROVE  /\ [r EXCEPT !.pc = x] \in Call /\ [r EXCEPT !.pc = x].pc = x
               /\ [r EXCEPT !.pc = x].id = r.id /\ [r EXCEPT !.pc = x].newId = r.newId
               /\ [r EXCEPT !.pc = x].change = r.change /\ [r EXCEPT !.pc = x].seen = r.seen
    BY DEF Call, Pcs
  <1> QED
    BY <1>2, <1>3, <1>4

-----------------------------------------------------------------------------
(* The functions that Ancestor and Upstream define by recursion exist. *)

LEMMA Least ==
    ASSUME NEW T \in SUBSET Nat, T # {}
    PROVE  \E m \in T : \A k \in T : ~(k < m)
  <1> DEFINE L == OpToRel(<, Nat)
  <1>1. \A x, y \in Nat : y < x => <<y, x>> \in L
    BY DEF OpToRel
  <1>2. IsWellFoundedOn(L, Nat)
    BY NatLessThanWellFounded
  <1> HIDE DEF L
  <1>3. PICK m \in T : \A y \in T : ~(<<y, m>> \in L)
    BY <1>2, WFMin
  <1> QED
    BY <1>1, <1>3

\* The first values of F iterated from x.
Iterates(f, S, F, x, N) ==
    f \in [0..N -> S] /\ f[0] = x /\ \A n \in 1..N : f[n] = F[f[n - 1]]

\* A step F from values of a set to values of the set can be iterated.
LEMMA Iterate ==
    ASSUME NEW S, NEW F \in [S -> S], NEW x \in S, NEW N \in Nat
    PROVE  \E f : Iterates(f, S, F, x, N)
  <1> DEFINE Good(m) == \E f \in [0..m -> S] : f[0] = x /\ \A n \in 1..m : f[n] = F[f[n - 1]]
             T == {m \in Nat : ~Good(m)}
  <1>1. Good(0)
    <2>1. \E f \in [0..0 -> S] : f[0] = x
      <3>1. [n \in 0..0 |-> x] \in [0..0 -> S] /\ [n \in 0..0 |-> x][0] = x
        OBVIOUS
      <3> QED
        BY <3>1, Zenon
    <2>2. 1..0 = {}
      OBVIOUS
    <2> QED
      BY <2>1, <2>2, Zenon
  <1>2. ASSUME NEW m \in Nat, m # 0, Good(m - 1) PROVE Good(m)
    <2>1. PICK f \in [0..(m - 1) -> S] : f[0] = x /\ \A n \in 1..(m - 1) : f[n] = F[f[n - 1]]
      BY <1>2
    <2> DEFINE g == [n \in 0..m |-> IF n = m THEN F[f[m - 1]] ELSE f[n]]
    <2>2. m - 1 \in 0..(m - 1) /\ m - 1 \in Nat /\ f[m - 1] \in S
      BY <1>2, <2>1
    <2>3. g \in [0..m -> S]
      BY <2>1, <2>2
    <2>4. g[0] = x
      BY <1>2, <2>1
    <2>5. ASSUME NEW n \in 1..m PROVE g[n] = F[g[n - 1]]
      <3>1. CASE n = m
        BY <2>2, <3>1
      <3>2. CASE n # m
        <4>1. n \in 1..(m - 1) /\ n \in 0..m /\ n - 1 \in 0..m /\ n - 1 # m
          BY <3>2
        <4>2. g[n] = f[n] /\ g[n - 1] = f[n - 1]
          BY <3>2, <4>1
        <4> QED
          BY <2>1, <4>1, <4>2
      <3> QED
        BY <3>1, <3>2
    <2> HIDE DEF g
    <2> QED
      BY <2>3, <2>4, <2>5
  <1> HIDE DEF Good
  <1>3. T = {}
    <2> SUFFICES ASSUME T # {} PROVE FALSE
      OBVIOUS
    <2>1. PICK m \in T : \A k \in T : ~(k < m)
      BY Least
    <2>2. m # 0 /\ m - 1 \in Nat /\ m - 1 < m
      BY <1>1, <2>1
    <2>3. Good(m - 1)
      BY <2>1, <2>2
    <2> QED
      BY <1>2, <2>1, <2>2, <2>3
  <1>4. Good(N)
    BY <1>3
  <1> QED
    BY <1>4, Zenon DEF Good, Iterates

\* What holds at 0 and goes from a number to the next below N holds up to N.
LEMMA CountUp ==
    ASSUME NEW N \in Nat, NEW G \in SUBSET (0..N), 0 \in G, \A n \in 1..N : n - 1 \in G => n \in G
    PROVE  G = 0..N
  <1> DEFINE T == (0..N) \ G
  <1> SUFFICES ASSUME T # {} PROVE FALSE
    OBVIOUS
  <1>1. T \in SUBSET Nat
    OBVIOUS
  <1>2. PICK m \in T : \A k \in T : ~(k < m)
    BY <1>1, Least
  <1>3. m \in 1..N /\ m - 1 \in 0..N /\ m - 1 < m
    BY <1>2
  <1> QED
    BY <1>2, <1>3

LEMMA AncestorTyped ==
    ASSUME NEW R \in [Ids -> Row \cup {NoRow}], NEW i \in Ids
    PROVE  /\ Ancestor(R, i) \in [0..Cardinality(Ids) -> Ids \cup {None}]
           /\ Ancestor(R, i)[0] = i
           /\ \A n \in 1..Cardinality(Ids) :
                 Ancestor(R, i)[n] = IF Ancestor(R, i)[n - 1] = None THEN None
                                     ELSE R[Ancestor(R, i)[n - 1]].parent
  <1>1. PICK N \in Nat : N = Cardinality(Ids)
    BY IdsTyped
  <1> DEFINE S == Ids \cup {None}
             F == [j \in S |-> IF j = None THEN None ELSE R[j].parent]
             Def(f, n) == IF n = 0 THEN i ELSE IF f[n - 1] = None THEN None ELSE R[f[n - 1]].parent
  <1>2. F \in [S -> S]
    BY IdsTyped, RowTyped
  <1>3. PICK f : Iterates(f, S, F, i, N)
    <2> HIDE DEF F, S
    <2>1. i \in S
      BY DEF S
    <2> QED
      BY <1>1, <1>2, <2>1, Iterate
  <1>4. ASSUME NEW n \in 0..N PROVE f[n] = Def(f, n)
    <2>1. CASE n = 0
      BY <1>3, <2>1 DEF Iterates
    <2>2. CASE n # 0
      <3>1. n \in 1..N /\ n - 1 \in 0..N
        BY <2>2
      <3> QED
        BY <1>3, <2>2, <3>1 DEF Iterates
    <2> QED
      BY <2>1, <2>2
  <1>5. f = [n \in 0..N |-> Def(f, n)]
    BY <1>3, <1>4 DEF Iterates
  <1> DEFINE u == Ancestor(R, i)
  <1>6. u = [n \in 0..N |-> Def(u, n)]
    BY <1>1, <1>5, Zenon DEF Ancestor
  <1>7. DOMAIN u = 0..N /\ \A n \in 0..N : u[n] = Def(u, n)
    <2> HIDE DEF u
    <2> QED
      BY <1>6
  <1> HIDE DEF u
  <1>8. u[0] = i
    BY <1>7
  <1>9. \A n \in 1..N : u[n] = IF u[n - 1] = None THEN None ELSE R[u[n - 1]].parent
    BY <1>7
  <1>10. {n \in 0..N : u[n] \in S} = 0..N
    <2> DEFINE G == {n \in 0..N : u[n] \in S}
    <2>1. 0 \in G
      BY <1>8
    <2>2. ASSUME NEW n \in 1..N, n - 1 \in G PROVE n \in G
      BY <1>9, <2>2, RowTyped
    <2> HIDE DEF G
    <2>3. G \in SUBSET (0..N)
      BY DEF G
    <2> QED
      BY <2>1, <2>2, <2>3, CountUp DEF G
  <1>11. u \in [0..N -> S]
    <2>1. u = [n \in 0..N |-> u[n]]
      BY <1>6, <1>7
    <2> QED
      BY <1>10, <2>1
  <1> QED
    BY <1>1, <1>8, <1>9, <1>11 DEF u

-----------------------------------------------------------------------------
(* Cycles of parents. *)

\* The walk of the triggers never leaves a set that holds the parents of its members.
LEMMA EndlessInside ==
    ASSUME NEW R \in [Ids -> Row \cup {NoRow}], NEW S \in SUBSET Ids, NEW i \in S,
           \A j \in S : R[j].parent \in S
    PROVE  Endless(R, i)
  <1>1. PICK N \in Nat : N = Cardinality(Ids)
    BY IdsTyped
  <1>2. i \in Ids
    OBVIOUS
  <1>3. PICK u : u = Ancestor(R, i)
    OBVIOUS
  <1>4. /\ u[0] = i
        /\ \A n \in 1..N : u[n] = IF u[n - 1] = None THEN None ELSE R[u[n - 1]].parent
    BY <1>1, <1>2, <1>3, AncestorTyped
  <1> DEFINE G == {n \in 0..N : u[n] \in S}
  <1>5. 0 \in G
    BY <1>4
  <1>6. ASSUME NEW n \in 1..N, n - 1 \in G PROVE n \in G
    BY <1>4, <1>6, IdsTyped
  <1>7. G = 0..N
    <2> HIDE DEF G
    <2>1. G \in SUBSET (0..N)
      BY DEF G
    <2> QED
      BY <1>5, <1>6, <2>1, CountUp
  <1>8. u[N] \in S
    BY <1>7
  <1> QED
    BY <1>1, <1>3, <1>8, IdsTyped DEF Endless

\* Without such a set no ticket is its own ancestor.
LEMMA NoOwnAncestor ==
    ASSUME NEW R \in [Ids -> Row \cup {NoRow}], Acyclic(R), NEW i \in Ids,
           NEW m \in 1..Cardinality(Ids)
    PROVE  Ancestor(R, i)[m] # i
  <1> SUFFICES ASSUME Ancestor(R, i)[m] = i PROVE FALSE
    OBVIOUS
  <1>1. PICK N \in Nat : N = Cardinality(Ids)
    BY IdsTyped
  <1>2. PICK u : u = Ancestor(R, i)
    OBVIOUS
  <1>3. /\ u \in [0..N -> Ids \cup {None}] /\ u[0] = i /\ u[m] = i
        /\ \A n \in 1..N : u[n] = IF u[n - 1] = None THEN None ELSE R[u[n - 1]].parent
    BY <1>1, <1>2, AncestorTyped
  <1>4. m \in 1..N
    BY <1>1
  <1> DEFINE G == {n \in 0..m : u[m - n] # None}
  <1>5. G = 0..m
    <2>1. 0 \in G
      BY <1>3, <1>4, IdsTyped
    <2>2. ASSUME NEW n \in 1..m, n - 1 \in G PROVE n \in G
      <3>1. PICK k \in 1..N : k = m - (n - 1)
        BY <1>4
      <3>2. u[k] # None
        BY <2>2, <3>1
      <3>3. k - 1 = m - n
        BY <1>4, <3>1
      <3>4. u[k - 1] # None
        BY <1>3, <3>2
      <3>5. n \in 0..m /\ u[m - n] # None
        BY <3>3, <3>4
      <3> QED
        BY <3>5
    <2> HIDE DEF G
    <2>3. G \in SUBSET (0..m)
      BY DEF G
    <2>4. m \in Nat
      BY <1>4
    <2> QED
      BY <2>1, <2>2, <2>3, <2>4, CountUp
  <1>6. ASSUME NEW k \in 0..m PROVE u[k] \in Ids
    <2>1. m - k \in 0..m /\ m - (m - k) = k /\ k \in 0..N
      BY <1>4
    <2>2. m - k \in G
      BY <1>5, <2>1
    <2> QED
      BY <1>3, <2>1, <2>2
  <1> DEFINE S == {u[k] : k \in 0..(m - 1)}
  <1>7. S \in SUBSET Ids /\ u[0] \in S
    BY <1>4, <1>6
  <1>8. ASSUME NEW j \in S PROVE R[j].parent \in S
    <2>1. PICK k \in 0..(m - 1) : j = u[k]
      OBVIOUS
    <2>2. k + 1 \in 1..N /\ (k + 1) - 1 = k /\ k \in 0..m /\ k + 1 \in 0..m
      BY <1>4
    <2>3. u[k + 1] = R[j].parent
      BY <1>3, <1>6, <2>1, <2>2, IdsTyped
    <2>4. CASE k + 1 = m
      BY <1>3, <1>7, <2>3, <2>4
    <2>5. CASE k + 1 # m
      <3>1. k + 1 \in 0..(m - 1)
        BY <1>4, <2>5
      <3> QED
        BY <2>3, <3>1
    <2> QED
      BY <2>4, <2>5
  <1> HIDE DEF S
  <1> QED
    BY <1>7, <1>8 DEF Acyclic

\* A new row to which no row refers closes no cycle.
LEMMA AcyclicLeaf ==
    ASSUME NEW R \in [Ids -> Row \cup {NoRow}], Acyclic(R), NEW i \in Ids, NEW row, row.parent # i,
           \A j \in Ids : R[j].parent # i
    PROVE  Acyclic([R EXCEPT ![i] = row])
  <1> DEFINE Q == [R EXCEPT ![i] = row]
  <1> SUFFICES ASSUME NEW S \in SUBSET Ids, S # {}, \A j \in S : Q[j].parent \in S PROVE FALSE
    BY DEF Acyclic
  <1>1. Q[i] = row /\ \A j \in Ids : j # i => Q[j] = R[j]
    OBVIOUS
  <1> HIDE DEF Q
  <1>2. PICK T : T = S \ {i}
    OBVIOUS
  <1>3. T # {}
    BY <1>1, <1>2
  <1>4. T \in SUBSET Ids /\ \A j \in T : R[j].parent \in T
    BY <1>1, <1>2
  <1> QED
    BY <1>3, <1>4 DEF Acyclic

\* An update closes no cycle if the walk from its row ends.
LEMMA AcyclicAfter ==
    ASSUME NEW R \in [Ids -> Row \cup {NoRow}], Acyclic(R), NEW r, r.id \in Ids, r.newId \in Ids,
           New(r) \in Row, ~Endless(After(R, r), r.newId)
    PROVE  Acyclic(After(R, r))
  <1>1. PICK Q : Q = After(R, r)
    OBVIOUS
  <1>2. PICK i \in Ids : i = r.id
    OBVIOUS
  <1>3. PICK k \in Ids : k = r.newId
    OBVIOUS
  <1>4. PICK row \in Row : row = New(r)
    OBVIOUS
  <1>5. Q = [R EXCEPT ![i] = NoRow, ![k] = row]
    BY <1>1, <1>2, <1>3, <1>4 DEF After
  <1>6. /\ Q \in [Ids -> Row \cup {NoRow}]
        /\ i # k => Q[i].parent = None
        /\ \A j \in Ids : j # i /\ j # k => Q[j] = R[j]
    BY <1>5, RowTyped
  <1> SUFFICES ASSUME NEW S \in SUBSET Ids, S # {}, \A j \in S : Q[j].parent \in S PROVE FALSE
    BY <1>1 DEF Acyclic
  <1>7. k \notin S
    <2> SUFFICES ASSUME k \in S PROVE FALSE
      OBVIOUS
    <2>1. Endless(Q, k)
      BY <1>6, EndlessInside
    <2> QED
      BY <1>1, <1>3, <2>1
  <1>8. i \notin S
    BY <1>6, <1>7, IdsTyped
  <1>9. \A j \in S : R[j].parent \in S
    BY <1>6, <1>7, <1>8
  <1> QED
    BY <1>9 DEF Acyclic

-----------------------------------------------------------------------------
(* compute_blocked *)

\* The tickets one edge of E further up than X, and X.
Upper(E, X) == X \cup {e[1] : e \in {d \in E : d[2] \in X}}

\* A chain of sets of ids of which each is the one before and what is above it
\* comes to its end within the number of ids.
LEMMA ChainEnds ==
    ASSUME NEW N \in Nat, N = Cardinality(Ids), NEW E \in SUBSET (Ids \X Ids), NEW i \in Ids,
           NEW u \in [0..N -> SUBSET Ids], u[0] = {i}, \A n \in 1..N : u[n] = Upper(E, u[n - 1])
    PROVE  Upper(E, u[N]) = u[N]
  <1>1. \A n \in 0..N : u[n] \in SUBSET Ids /\ IsFiniteSet(u[n]) /\ Cardinality(u[n]) \in Nat
    <2> SUFFICES ASSUME NEW n \in 0..N PROVE u[n] \in SUBSET Ids /\ IsFiniteSet(u[n]) /\ Cardinality(u[n]) \in Nat
      OBVIOUS
    <2>1. u[n] \in SUBSET Ids
      OBVIOUS
    <2>2. IsFiniteSet(u[n])
      BY <2>1, IdsTyped, FS_Subset
    <2> QED
      BY <2>1, <2>2, FS_CardinalityType
  <1> DEFINE G == {n \in 0..N : Upper(E, u[n]) = u[n] \/ Cardinality(u[n]) >= n + 1}
  <1>2. 0 \in G
    <2>1. Cardinality({i}) = 1
      BY FS_Singleton
    <2>2. Cardinality(u[0]) = 1
      BY <2>1
    <2>3. Cardinality(u[0]) >= 0 + 1 /\ 0 \in 0..N
      BY <2>2
    <2> QED
      BY <2>3
  <1>3. ASSUME NEW n \in 1..N, n - 1 \in G PROVE n \in G
    <2>1. PICK k \in 0..N : k = n - 1 /\ n = k + 1
      OBVIOUS
    <2>2. u[n] = Upper(E, u[k])
      BY <2>1
    <2>3. CASE Upper(E, u[k]) = u[k]
      BY <2>2, <2>3
    <2>4. CASE Upper(E, u[k]) # u[k]
      <3>1. Cardinality(u[k]) >= k + 1
        BY <1>3, <2>1, <2>4
      <3>2. u[k] \subseteq u[n] /\ u[k] # u[n]
        BY <2>2, <2>4 DEF Upper
      <3>3. Cardinality(u[k]) < Cardinality(u[n])
        <4>1. PICK A : A = u[k]
          OBVIOUS
        <4>2. PICK B : B = u[n] /\ IsFiniteSet(B)
          BY <1>1
        <4>3. A \in SUBSET B /\ A # B
          BY <3>2, <4>1, <4>2
        <4>4. Cardinality(A) <= Cardinality(B) /\ Cardinality(B) # Cardinality(A)
          BY <4>2, <4>3, FS_Subset, Zenon
        <4>5. Cardinality(A) \in Nat /\ Cardinality(B) \in Nat
          BY <1>1, <4>1, <4>2
        <4>6. Cardinality(A) < Cardinality(B)
          BY <4>4, <4>5
        <4> QED
          BY <4>1, <4>2, <4>6
      <3>4. Cardinality(u[n]) >= n + 1
        BY <1>1, <2>1, <3>1, <3>3
      <3> QED
        BY <3>4
    <2> QED
      BY <2>3, <2>4
  <1>4. G = 0..N
    <2> HIDE DEF G
    <2>1. G \in SUBSET (0..N)
      BY DEF G
    <2> QED
      BY <1>2, <1>3, <2>1, CountUp
  <1>5. N \in G
    BY <1>4
  <1>6. Cardinality(u[N]) <= N
    <2>1. u[N] \in SUBSET Ids
      OBVIOUS
    <2> QED
      BY <2>1, IdsTyped, FS_Subset
  <1> QED
    BY <1>1, <1>5, <1>6

\* i and what is above it, as the search of graph.rs finds it: closed under the
\* edges upwards, and all of it leads to i.
LEMMA UpstreamTyped ==
    ASSUME TypeOK, NEW i \in Ids
    PROVE  \E X \in SUBSET Ids :
              /\ Upstream(i) = X \ {i} /\ i \in X
              /\ \A e \in Edges : e[2] \in X => e[1] \in X
              /\ \A j \in X : j = i \/ Path(j, i)
              /\ \A j \in X : j = i \/ Exists(j)
  <1>1. PICK N \in Nat : N = Cardinality(Ids)
    BY IdsTyped
  <1>2. PICK E \in SUBSET (Ids \X Ids) : E = Edges
    BY DEF Edges, TypeOK
  <1> DEFINE S == SUBSET Ids
             F == [X \in S |-> Upper(E, X)]
             Def(f, n) == IF n = 0 THEN {i} ELSE f[n - 1] \cup {e[1] : e \in {d \in E : d[2] \in f[n - 1]}}
  <1>3. F \in [S -> S]
    BY DEF Upper
  <1>4. PICK f : Iterates(f, S, F, {i}, N)
    <2> HIDE DEF F, S
    <2>1. {i} \in S
      BY DEF S
    <2> QED
      BY <1>1, <1>3, <2>1, Iterate
  <1>5. f \in [0..N -> S] /\ f[0] = {i} /\ \A n \in 1..N : f[n] = F[f[n - 1]]
    <2> HIDE DEF F, S
    <2> QED
      BY <1>4 DEF Iterates
  <1>6. ASSUME NEW n \in 0..N PROVE f[n] = Def(f, n)
    <2>1. CASE n = 0
      BY <1>5, <2>1
    <2>2. CASE n # 0
      <3>1. n \in 1..N /\ n - 1 \in 0..N
        BY <2>2
      <3>2. f[n] = Upper(E, f[n - 1])
        BY <1>5, <3>1
      <3> QED
        BY <2>2, <3>2 DEF Upper
    <2> QED
      BY <2>1, <2>2
  <1>7. f = [n \in 0..N |-> Def(f, n)]
    <2> HIDE DEF Def
    <2> QED
      BY <1>5, <1>6
  <1> DEFINE Chosen == CHOOSE g : g = [n \in 0..N |-> Def(g, n)]
  <1>8. Upstream(i) = Chosen[N] \ {i}
    BY <1>1, <1>2, Zenon DEF Upstream
  <1>9. Chosen = [n \in 0..N |-> Def(Chosen, n)]
    BY <1>7, Zenon
  <1>10. PICK u : u = Chosen
    OBVIOUS
  <1>11. u = [n \in 0..N |-> Def(u, n)]
    BY <1>9, <1>10, Zenon
  <1> HIDE DEF Chosen
  <1>12. DOMAIN u = 0..N /\ u[0] = {i} /\ \A n \in 1..N : u[n] = Upper(E, u[n - 1])
    <2>1. \A n \in 0..N : u[n] = Def(u, n)
      <3> HIDE DEF Def
      <3> QED
        BY <1>11
    <2>2. DOMAIN u = 0..N
      BY <1>11
    <2>3. \A n \in 1..N : n \in 0..N /\ n # 0
      OBVIOUS
    <2> QED
      BY <2>1, <2>2, <2>3 DEF Upper
  <1> HIDE DEF Def
  <1>13. \A n \in 0..N : u[n] \in S /\ i \in u[n]
    <2> DEFINE G == {n \in 0..N : u[n] \in S /\ i \in u[n]}
    <2>1. 0 \in G
      BY <1>12
    <2>2. ASSUME NEW n \in 1..N, n - 1 \in G PROVE n \in G
      BY <1>12, <2>2 DEF Upper
    <2> HIDE DEF G
    <2>3. G \in SUBSET (0..N)
      BY DEF G
    <2>4. G = 0..N
      BY <2>1, <2>2, <2>3, CountUp
    <2> QED
      BY <2>4 DEF G
  <1>14. u \in [0..N -> SUBSET Ids]
    <2>1. u = [n \in 0..N |-> u[n]]
      BY <1>11, <1>12
    <2> QED
      BY <1>13, <2>1
  <1>15. Upper(E, u[N]) = u[N]
    BY <1>1, <1>12, <1>14, ChainEnds
  <1>16. \A j \in u[N] : j = i \/ (Path(j, i) /\ Exists(j))
    <2> DEFINE G == {n \in 0..N : \A j \in u[n] : j = i \/ (Path(j, i) /\ Exists(j))}
    <2>1. 0 \in G
      BY <1>12
    <2>2. ASSUME NEW n \in 1..N, n - 1 \in G PROVE n \in G
      <3> SUFFICES ASSUME NEW j \in u[n], j \notin u[n - 1], j # i PROVE Path(j, i) /\ Exists(j)
        BY <2>2
      <3>1. PICK e \in E : e[2] \in u[n - 1] /\ j = e[1]
        BY <1>12 DEF Upper
      <3>2. Exists(j)
        BY <1>2, <3>1 DEF Edges
      <3>3. e[2] = i \/ Path(e[2], i)
        BY <2>2, <3>1
      <3>4. Path(j, i)
        <4> SUFFICES ASSUME NEW T \in SUBSET Ids, \A d \in Edges : d[1] \in T \cup {j} => d[2] \in T
                     PROVE  i \in T
          BY DEF Path
        <4>1. e[2] \in T
          BY <1>2, <3>1
        <4>2. T \cup {e[2]} = T
          BY <4>1
        <4>3. \A d \in Edges : d[1] \in T \cup {e[2]} => d[2] \in T
          BY <4>2
        <4> QED
          BY <3>3, <4>1, <4>3 DEF Path
      <3> QED
        BY <3>2, <3>4
    <2> HIDE DEF G
    <2>3. G \in SUBSET (0..N)
      BY DEF G
    <2>4. G = 0..N
      BY <2>1, <2>2, <2>3, CountUp
    <2> QED
      BY <2>4 DEF G
  <1>17. \A e \in Edges : e[2] \in u[N] => e[1] \in u[N]
    BY <1>2, <1>15 DEF Upper
  <1>18. u[N] \in SUBSET Ids /\ i \in u[N]
    BY <1>13
  <1>19. Upstream(i) = u[N] \ {i}
    BY <1>8, <1>10
  <1> QED
    BY <1>16, <1>17, <1>18, <1>19

\* A path leads to i only from what the search finds.
LEMMA PathUpstream ==
    ASSUME TypeOK, NEW i \in Ids, NEW j \in Ids, j # i
    PROVE  j \in Upstream(i) <=> Path(j, i)
  <1>1. PICK X \in SUBSET Ids :
              /\ Upstream(i) = X \ {i} /\ i \in X
              /\ \A e \in Edges : e[2] \in X => e[1] \in X
              /\ \A k \in X : k = i \/ Path(k, i)
    BY UpstreamTyped
  <1>2. ASSUME Path(j, i), j \notin X PROVE FALSE
    <2>1. PICK S \in SUBSET Ids : S = Ids \ X
      OBVIOUS
    <2>2. \A e \in Edges : e[1] \in S \cup {j} => e[2] \in S
      BY <1>1, <1>2, <2>1 DEF Edges, TypeOK
    <2>3. i \in S
      BY <1>2, <2>1, <2>2 DEF Path
    <2> QED
      BY <1>1, <2>1, <2>3
  <1> QED
    BY <1>1, <1>2

\* Only a ticket with a row is at the end of a path.
LEMMA PathExists ==
    ASSUME NEW i \in Ids, NEW j \in Ids, Path(j, i), TypeOK
    PROVE  Exists(i)
  <1>1. PICK S \in SUBSET Ids : S = {k \in Ids : Exists(k)}
    OBVIOUS
  <1>2. \A e \in Edges : e[2] \in S
    BY <1>1 DEF Edges, TypeOK
  <1> QED
    BY <1>1, <1>2 DEF Path

LEMMA BlockedFacts == TypeOK => BlockedExact
  <1> SUFFICES ASSUME TypeOK, NEW i \in Ids
               PROVE  (Exists(i) /\ \E j \in Upstream(i) : Open(j))
                          <=> \E j \in Ids \ {i} : Exists(j) /\ Open(j) /\ Path(j, i)
    BY DEF BlockedExact, ComputeBlocked
  <1>1. \A j \in Upstream(i) : j \in Ids \ {i} /\ Exists(j)
    BY UpstreamTyped
  <1> QED
    BY <1>1, PathUpstream, PathExists

-----------------------------------------------------------------------------
(* The initial state. *)

LEMMA InvInit == Init => IInv
  <1> SUFFICES ASSUME Init PROVE IInv
    OBVIOUS
  <1>1. Sound(rows, blocks) /\ calls \in 0..MaxCalls
    BY StartAssumption DEF Init
  <1>2. /\ rows \in [Ids -> Row \cup {NoRow}] /\ blocks \subseteq Present \X Present
        /\ \A i \in Ids : rows[i].parent \in {None} \cup Present /\ ~Endless(rows, i)
        /\ \A i, j \in Ids : rows[i].status = "closed" /\ rows[j].parent = i => rows[j].status # "open"
    BY <1>1 DEF Sound, Present, Exists
  <1>3. \A c \in Callers : call[c] = NoCall /\ call[c].pc = "idle"
    BY CallTyped DEF Init
  <1>4. TypeOK
    <2>1. rows \in [Ids -> Row \cup {NoRow}] /\ asked \in [Ids -> Row \cup {NoRow}]
      BY <1>2 DEF Init
    <2>2. call \in [Callers -> Call]
      BY CallTyped DEF Init
    <2>3. workflows \in [Ids -> Nat]
      BY DEF Init
    <2>4. blocks \subseteq Ids \X Ids
      BY <1>2 DEF Present
    <2>5. /\ tangled \in BOOLEAN
          /\ {meta, activities, comments, overlapped, spare} \subseteq SUBSET Ids
          /\ unchecked \subseteq Ids \cup {None}
      BY DEF Init
    <2> QED
      BY <1>1, <2>1, <2>2, <2>3, <2>4, <2>5 DEF TypeOK
  <1>5. CallInv
    BY <1>3, CallTyped DEF CallInv
  <1>6. ASSUME NEW S \in SUBSET Ids, NEW i \in S, \A j \in S : rows[j].parent \in S PROVE FALSE
    <2>1. PICK Q \in [Ids -> Row \cup {NoRow}] : Q = rows
      BY <1>2
    <2>2. Endless(Q, i)
      BY <1>6, <2>1, EndlessInside
    <2> QED
      BY <1>2, <2>1, <2>2
  <1>7. ParentInv
    <2> SUFFICES ASSUME NEW i \in Ids, rows[i].parent = i PROVE FALSE
      BY <1>2 DEF ParentInv
    <2>1. PICK S \in SUBSET Ids : S = {i}
      OBVIOUS
    <2> QED
      BY <1>6, <2>1
  <1>8. WriteInv /\ PairInv
    BY <1>3 DEF WriteInv, PairInv, Commits
  <1>9. EpicInv
    BY <1>2, <1>3 DEF EpicInv, ChildrenClosed, WillClose, HasRead, AfterRead
  <1>10. CycleInv
    <2>1. Acyclic(rows)
      BY <1>6 DEF Acyclic
    <2> QED
      BY <1>3, <2>1 DEF CycleInv, Commits
  <1>11. LostInv
    BY <1>3 DEF LostInv, ChangesKept, HasRead, AfterRead, Init
  <1>12. ActiveInv
    BY <1>3 DEF ActiveInv, OneActiveWorkflow, Init
  <1> QED
    BY <1>4, <1>5, <1>7, <1>8, <1>9, <1>10, <1>11, <1>12 DEF IInv, KeyInv

-----------------------------------------------------------------------------
(* Steps of one call that leave the rows alone. *)

\* What the invariant says apart from the types.
Facts == KeyInv /\ EpicInv /\ CycleInv /\ LostInv /\ ActiveInv

\* The keys, if the call does not get to its commit.
LEMMA KeyKept ==
    ASSUME IInv, NEW c \in Callers, NEW r \in Call, call' = [call EXCEPT ![c] = r], UNCHANGED rows,
           CallOK(r), ~Commits(r)
    PROVE  KeyInv'
  <1>1. call'[c] = r /\ \A d \in Callers : d # c => call'[d] = call[d]
    BY DEF IInv, TypeOK
  <1>2. CallInv'
    BY <1>1 DEF IInv, KeyInv, CallInv
  <1>3. ParentInv'
    BY DEF IInv, KeyInv, ParentInv, Present, Exists
  <1>4. WriteInv'
    <2> SUFFICES ASSUME NEW d \in Callers, Commits(call'[d]) PROVE WriteOK(call[d])' /\ call'[d] = call[d]
      BY DEF WriteInv
    <2>1. d # c /\ call'[d] = call[d]
      BY <1>1
    <2>2. WriteOK(call[d])
      BY <2>1 DEF IInv, KeyInv, WriteInv
    <2> QED
      BY <2>1, <2>2 DEF WriteOK, Present, Exists
  <1>5. PairInv'
    BY <1>1 DEF IInv, KeyInv, PairInv
  <1> QED
    BY <1>2, <1>3, <1>4, <1>5 DEF KeyInv

LEMMA CycleKept ==
    ASSUME IInv, NEW c \in Callers, NEW r \in Call, call' = [call EXCEPT ![c] = r],
           UNCHANGED <<rows, tangled>>, ~Commits(r)
    PROVE  CycleInv'
  <1>1. call'[c] = r /\ \A d \in Callers : d # c => call'[d] = call[d]
    BY DEF IInv, TypeOK
  <1> QED
    BY <1>1 DEF IInv, CycleInv, After, Acyclic

\* The tickets that are closed, if the call has looked at the children.
LEMMA EpicKept ==
    ASSUME IInv, NEW c \in Callers, NEW r \in Call, call' = [call EXCEPT ![c] = r],
           UNCHANGED <<rows, unchecked>>, WillClose(r) => ChildrenClosed(r.id)
    PROVE  EpicInv'
  <1>1. call'[c] = r /\ \A d \in Callers : d # c => call'[d] = call[d]
    BY DEF IInv, TypeOK
  <1> QED
    BY <1>1 DEF IInv, EpicInv, ChildrenClosed

\* The rows that updates have read, if overlaps are noted.
LEMMA LostKept ==
    ASSUME IInv, NEW c \in Callers, NEW r \in Call, call' = [call EXCEPT ![c] = r],
           UNCHANGED <<rows, asked>>, overlapped \subseteq overlapped',
           HasRead(r) /\ r.id \notin overlapped' =>
               /\ r.seen = rows[r.id]
               /\ \A d \in Callers \ {c} : ~(HasRead(call[d]) /\ call[d].id = r.id)
    PROVE  LostInv'
  <1>1. call'[c] = r /\ \A d \in Callers : d # c => call'[d] = call[d]
    BY DEF IInv, TypeOK
  <1>2. ChangesKept' /\ \A i \in Ids : asked'[i] = NoRow <=> rows'[i] = NoRow
    BY DEF IInv, LostInv, ChangesKept
  <1>3. ASSUME NEW d \in Callers, HasRead(call'[d]), call'[d].id \notin overlapped'
        PROVE  call'[d].seen = rows'[call'[d].id]
    BY <1>1, <1>3 DEF IInv, LostInv
  <1>4. ASSUME NEW d \in Callers, NEW e \in Callers, d # e, HasRead(call'[d]), HasRead(call'[e]),
               call'[d].id = call'[e].id
        PROVE  call'[d].id \in overlapped'
    BY <1>1, <1>4 DEF IInv, LostInv
  <1> QED
    BY <1>2, <1>3, <1>4 DEF LostInv

LEMMA ActiveKept ==
    ASSUME IInv, NEW c \in Callers, NEW r \in Call, call' = [call EXCEPT ![c] = r],
           UNCHANGED <<workflows, spare>>, overlapped \subseteq overlapped',
           r.pc = "insert" => workflows[r.id] = 0,
           r.pc = "insert" /\ r.id \notin overlapped' =>
               \A d \in Callers \ {c} : ~(call[d].pc = "insert" /\ call[d].id = r.id)
    PROVE  ActiveInv'
  <1>1. call'[c] = r /\ \A d \in Callers : d # c => call'[d] = call[d]
    BY DEF IInv, TypeOK
  <1>2. OneActiveWorkflow'
    BY DEF IInv, ActiveInv, OneActiveWorkflow
  <1>3. ASSUME NEW d \in Callers, call'[d].pc = "insert", call'[d].id \notin overlapped' \cup spare'
        PROVE  workflows'[call'[d].id] = 0
    BY <1>1, <1>3 DEF IInv, ActiveInv
  <1>4. ASSUME NEW d \in Callers, NEW e \in Callers, d # e, call'[d].pc = "insert", call'[e].pc = "insert",
               call'[d].id = call'[e].id
        PROVE  call'[d].id \in overlapped'
    BY <1>1, <1>4 DEF IInv, ActiveInv
  <1> QED
    BY <1>2, <1>3, <1>4 DEF ActiveInv

\* A call that begins, ends, or goes on with what it has read.
LEMMA QuietStep ==
    ASSUME IInv, NEW c \in Callers, NEW r \in Call, call' = [call EXCEPT ![c] = r],
           UNCHANGED <<rows, workflows, observers>>, CallOK(r), ~Commits(r), r.pc # "insert",
           r.pc = "read" => ~Closing(r.change),
           HasRead(r) => /\ HasRead(call[c]) /\ r.id = call[c].id
                         /\ r.seen = call[c].seen /\ r.change = call[c].change
    PROVE  Facts'
  <1>1. KeyInv' /\ CycleInv'
    BY KeyKept, CycleKept DEF observers
  <1>2. EpicInv'
    <2>1. WillClose(r) => ChildrenClosed(r.id)
      BY DEF WillClose, New, IInv, EpicInv
    <2> QED
      BY <2>1, EpicKept DEF observers
  <1>3. LostInv'
    BY LostKept DEF observers, IInv, LostInv
  <1>4. ActiveInv'
    BY ActiveKept DEF observers
  <1> QED
    BY <1>1, <1>2, <1>3, <1>4 DEF Facts

\* A call that goes from one statement to the next.
LEMMA GoesOn ==
    ASSUME TypeOK, NEW c \in Callers, NEW x \in Pcs, Goto(c, x)
    PROVE  \E r \in Call : /\ call' = [call EXCEPT ![c] = r] /\ r.pc = x
                           /\ r.id = call[c].id /\ r.newId = call[c].newId
                           /\ r.change = call[c].change /\ r.seen = call[c].seen
  <1>1. PICK r : r = [call[c] EXCEPT !.pc = x]
    OBVIOUS
  <1>2. call[c] \in Call
    BY DEF TypeOK
  <1>3. /\ r \in Call /\ r.pc = x /\ r.id = call[c].id /\ r.newId = call[c].newId
        /\ r.change = call[c].change /\ r.seen = call[c].seen
    BY <1>1, <1>2, CallTyped
  <1>4. call' = [call EXCEPT ![c] = r]
    BY <1>1 DEF Goto
  <1> QED
    BY <1>3, <1>4

\* A call that is over.
LEMMA ReturnQuiet ==
    ASSUME IInv, NEW c \in Callers, Return(c), UNCHANGED <<rows, workflows, observers>>
    PROVE  Facts' /\ call' \in [Callers -> Call]
  <1>1. PICK r : r = NoCall
    OBVIOUS
  <1>2. r \in Call /\ r.pc = "idle" /\ CallOK(r)
    BY <1>1, CallTyped
  <1>3. call' = [call EXCEPT ![c] = r]
    BY <1>1 DEF Return
  <1>4. Facts'
    BY <1>2, <1>3, QuietStep DEF HasRead, AfterRead, Commits
  <1> QED
    BY <1>2, <1>3, <1>4 DEF IInv, TypeOK

\* A call that goes on with what it has read.
LEMMA GotoQuiet ==
    ASSUME IInv, NEW c \in Callers, NEW x \in AfterRead, HasRead(call[c]), Goto(c, x), x \notin {"rekey", "commit"},
           UNCHANGED <<rows, workflows, observers>>
    PROVE  Facts' /\ call' \in [Callers -> Call]
  <1>1. PICK r \in Call : /\ call' = [call EXCEPT ![c] = r] /\ r.pc = x
                          /\ r.id = call[c].id /\ r.newId = call[c].newId
                          /\ r.change = call[c].change /\ r.seen = call[c].seen
    <2>1. TypeOK /\ x \in Pcs
      BY DEF IInv, Pcs
    <2> QED
      BY <2>1, GoesOn
  <1>2. CallOK(call[c])
    BY DEF IInv, KeyInv, CallInv
  <1>3. x \notin {"read", "insert", "active", "children", "commit", "rekey"}
    BY DEF AfterRead
  <1>4. CallOK(r)
    BY <1>1, <1>2, <1>3 DEF CallOK, Updates, HasRead, Renames
  <1>5. Facts'
    BY <1>1, <1>3, <1>4, QuietStep DEF HasRead, Commits
  <1> QED
    BY <1>1, <1>5 DEF IInv, TypeOK

\* Calls of one statement that do not touch the rows.
LEMMA TableInv ==
    ASSUME IInv, NEW c \in Callers, NEW i \in Ids, NEW j \in Ids,
           \/ AddBlock(c, i, j) \/ RemoveBlock(c, i, j) \/ SetMeta(c, i) \/ DeleteMeta(c, i)
           \/ AddActivity(c, i) \/ InsertTicketComment(c, i)
    PROVE  IInv'
  <1>1. UNCHANGED <<rows, call, workflows, asked, overlapped, unchecked, tangled, spare>>
    BY DEF AddBlock, RemoveBlock, SetMeta, DeleteMeta, AddActivity, InsertTicketComment, observers
  <1>2. calls' \in 0..MaxCalls
    BY StoreAssumption DEF AddBlock, RemoveBlock, SetMeta, DeleteMeta, AddActivity, InsertTicketComment, StartCall, IInv, TypeOK
  <1>3. /\ blocks' \subseteq Ids \X Ids /\ meta' \subseteq Ids /\ activities' \subseteq Ids /\ comments' \subseteq Ids
    BY DEF AddBlock, RemoveBlock, SetMeta, DeleteMeta, AddActivity, InsertTicketComment, IInv, TypeOK
  <1>4. TypeOK'
    BY <1>1, <1>2, <1>3 DEF IInv, TypeOK
  <1>5. KeyInv'
    BY <1>1 DEF IInv, KeyInv, CallInv, ParentInv, WriteInv, WriteOK, PairInv, Present, Exists
  <1>6. EpicInv' /\ CycleInv'
    BY <1>1 DEF IInv, EpicInv, ChildrenClosed, CycleInv
  <1>7. LostInv' /\ ActiveInv'
    BY <1>1 DEF IInv, LostInv, ChangesKept, ActiveInv, OneActiveWorkflow
  <1> QED
    BY <1>4, <1>5, <1>6, <1>7 DEF IInv

LEMMA TypeKept ==
    ASSUME TypeOK, call' \in [Callers -> Call], calls' \in 0..MaxCalls, UNCHANGED tables, UNCHANGED observers
    PROVE  TypeOK'
  BY DEF TypeOK, tables, observers

LEMMA UpdateTicketInv ==
    ASSUME IInv, NEW c \in Callers, NEW i \in Ids, NEW ch \in Change, UpdateTicket(c, i, ch)
    PROVE  IInv'
  <1>1. PICK r : r = [pc |-> IF Closing(ch) THEN "children" ELSE "read", id |-> i, change |-> ch,
                      seen |-> NoRow, newId |-> i]
    OBVIOUS
  <1>2. /\ r.pc = IF Closing(ch) THEN "children" ELSE "read"
        /\ r.id = i /\ r.change = ch /\ r.seen = NoRow /\ r.newId = i
    BY <1>1
  <1>3. r \in Call
    BY <1>1 DEF Call
  <1>4. CallOK(r)
    BY <1>2 DEF CallOK, Updates, HasRead, AfterRead, Renames
  <1>5. call' = [call EXCEPT ![c] = r] /\ UNCHANGED tables /\ UNCHANGED observers
    BY <1>1 DEF UpdateTicket
  <1>6. Facts'
    BY <1>2, <1>3, <1>4, <1>5, QuietStep DEF HasRead, AfterRead, Commits, tables
  <1>7. TypeOK'
    BY <1>3, <1>5, StoreAssumption, TypeKept DEF IInv, TypeOK, UpdateTicket, StartCall
  <1> QED
    BY <1>6, <1>7 DEF IInv, Facts

\* close_ticket of the merge: nothing is promised of the children of the ticket.
LEMMA CloseTicketInv ==
    ASSUME IInv, NEW c \in Callers, NEW i \in Ids, CloseTicket(c, i)
    PROVE  IInv'
  <1>1. Merged \in Change
    <2>1. NoChange \in Change
      BY DEF NoChange, Change
    <2> QED
      BY <2>1 DEF Merged, Change
  <1>2. PICK r : r = [pc |-> "read", id |-> i, change |-> Merged, seen |-> NoRow, newId |-> i]
    OBVIOUS
  <1>3. r \in Call /\ r.pc = "read" /\ r.id = i /\ r.change = Merged /\ r.newId = i
    BY <1>1, <1>2 DEF Call
  <1>4. CallOK(r) /\ ~HasRead(r) /\ ~Commits(r)
    BY <1>1, <1>3 DEF CallOK, Updates, HasRead, AfterRead, Commits
  <1>5. /\ call' = [call EXCEPT ![c] = r] /\ UNCHANGED tables /\ UNCHANGED <<asked, overlapped, tangled, spare>>
        /\ unchecked' = unchecked \cup {i}
    BY <1>2 DEF CloseTicket
  <1>6. call'[c] = r /\ \A d \in Callers : d # c => call'[d] = call[d]
    BY <1>3, <1>5 DEF IInv, TypeOK
  <1>7. KeyInv' /\ CycleInv'
    BY <1>3, <1>4, <1>5, KeyKept, CycleKept DEF tables
  <1>8. EpicInv'
    <2>1. UNCHANGED rows /\ unchecked \subseteq unchecked' /\ i \in unchecked'
      BY <1>5 DEF tables
    <2>2. \A k \in Ids : ChildrenClosed(k) => ChildrenClosed(k)'
      BY <2>1 DEF ChildrenClosed
    <2>3. \A k \in Ids : rows'[k].status = "closed" => ChildrenClosed(k)'
      BY <2>1, <2>2 DEF IInv, EpicInv
    <2>4. ASSUME NEW d \in Callers, d # c, WillClose(call[d]) PROVE ChildrenClosed(call[d].id)'
      <3>1. PICK k \in Ids : k = call[d].id
        BY <2>4 DEF IInv, KeyInv, CallInv, CallOK, WillClose, HasRead, Updates
      <3>2. ChildrenClosed(k)'
        BY <2>2, <2>4, <3>1 DEF IInv, EpicInv
      <3> QED
        BY <1>6, <2>4, <3>1, <3>2 DEF ChildrenClosed
    <2>5. ChildrenClosed(i)'
      BY <2>1 DEF ChildrenClosed
    <2> QED
      BY <1>3, <1>6, <2>3, <2>4, <2>5 DEF EpicInv, ChildrenClosed
  <1>9. LostInv' /\ ActiveInv'
    BY <1>3, <1>4, <1>5, LostKept, ActiveKept DEF tables
  <1>10. TypeOK'
    <2>1. call' \in [Callers -> Call] /\ calls' \in 0..MaxCalls
      BY <1>3, <1>5, StoreAssumption DEF IInv, TypeOK, CloseTicket, StartCall
    <2> QED
      BY <1>5, <2>1 DEF IInv, TypeOK, tables
  <1> QED
    BY <1>7, <1>8, <1>9, <1>10 DEF IInv

LEMMA CreateWorkflowInv ==
    ASSUME IInv, NEW c \in Callers, NEW i \in Ids, CreateWorkflow(c, i)
    PROVE  IInv'
  <1>1. PICK r : r = [NoCall EXCEPT !.pc = "active", !.id = i]
    OBVIOUS
  <1>2. r \in Call /\ r.pc = "active" /\ r.id = i
    BY <1>1, CallTyped DEF Call
  <1>3. CallOK(r)
    BY <1>2 DEF CallOK, Updates, HasRead, AfterRead
  <1>4. call' = [call EXCEPT ![c] = r] /\ UNCHANGED tables /\ UNCHANGED observers
    BY <1>1 DEF CreateWorkflow
  <1>5. Facts'
    BY <1>2, <1>3, <1>4, QuietStep DEF HasRead, AfterRead, Commits, tables
  <1>6. TypeOK'
    BY <1>2, <1>4, StoreAssumption, TypeKept DEF IInv, TypeOK, CreateWorkflow, StartCall
  <1> QED
    BY <1>5, <1>6 DEF IInv, Facts

\* rekey_ticket_id and the references, one statement after the other.
LEMMA RekeyInv ==
    ASSUME IInv, NEW c \in Callers,
           RekeyTicketId(c) \/ UpdateReferences(c) \/ UpdateMeta(c) \/ UpdateComments(c)
    PROVE  IInv'
  <1>1. UNCHANGED <<rows, workflows, blocks, activities, comments, calls>> /\ UNCHANGED observers
    BY DEF RekeyTicketId, UpdateReferences, UpdateMeta, UpdateComments, tables
  <1>2. HasRead(call[c])
    BY DEF RekeyTicketId, UpdateReferences, UpdateMeta, UpdateComments, Step, HasRead, AfterRead
  <1>3. CallOK(call[c]) /\ call[c] \in Call
    BY DEF IInv, KeyInv, CallInv, TypeOK
  <1>4. call[c].id \in Ids /\ call[c].newId \in Ids /\ call[c].change \in Change
    BY <1>2, <1>3, NewTyped
  <1>5. meta' \subseteq Ids
    BY <1>4 DEF RekeyTicketId, UpdateReferences, UpdateMeta, UpdateComments, tables, IInv, TypeOK
  <1>6. Facts' /\ call' \in [Callers -> Call]
    <2>1. CASE Return(c)
      BY <1>1, <2>1, ReturnQuiet
    <2>2. CASE \E x \in {"meta", "comments", "write"} : Goto(c, x)
      BY <1>1, <1>2, <2>2, GotoQuiet DEF AfterRead
    <2>3. CASE \E j \in Candidates(call[c].id, call[c].change.project) :
                  /\ call[c].pc = "rekey"
                  /\ call' = [call EXCEPT ![c].pc = "refs", ![c].newId = j]
      <3>1. call[c].change.project \in Projects
        BY <1>3, <1>4, <2>3, ChangeTyped DEF CallOK
      <3>2. Candidates(call[c].id, call[c].change.project) \subseteq Ids
        BY <1>4, <3>1, IdsTyped DEF Candidates
      <3>3. PICK j \in Ids : call' = [call EXCEPT ![c].pc = "refs", ![c].newId = j]
        BY <2>3, <3>2
      <3>4. PICK r : r = [call[c] EXCEPT !.pc = "refs", !.newId = j]
        OBVIOUS
      <3>5. /\ r \in Call /\ r.pc = "refs" /\ r.id = call[c].id /\ r.newId = j
            /\ r.change = call[c].change /\ r.seen = call[c].seen
        BY <1>3, <3>4 DEF Call, AfterRead
      <3>6. call' = [call EXCEPT ![c] = r]
        BY <3>3, <3>4 DEF IInv, TypeOK
      <3>7. CallOK(r)
        BY <1>2, <1>3, <1>4, <3>1, <3>5 DEF CallOK, Updates, HasRead, AfterRead
      <3>8. Facts'
        BY <1>1, <1>2, <3>5, <3>6, <3>7, QuietStep DEF HasRead, AfterRead, Commits
      <3> QED
        BY <3>5, <3>6, <3>8 DEF IInv, TypeOK
    <2> QED
      BY <2>1, <2>2, <2>3 DEF RekeyTicketId, UpdateReferences, UpdateMeta, UpdateComments, Step
  <1>7. TypeOK'
    BY <1>1, <1>5, <1>6 DEF IInv, TypeOK, observers
  <1> QED
    BY <1>6, <1>7 DEF IInv, Facts

LEMMA ReadTicketInv ==
    ASSUME IInv, NEW c \in Callers, ReadTicket(c)
    PROVE  IInv'
  <1>1. call[c].pc = "read" /\ call[c] \in Call /\ CallOK(call[c])
    BY DEF ReadTicket, Step, IInv, TypeOK, KeyInv, CallInv
  <1>2. PICK i \in Ids : i = call[c].id
    BY <1>1 DEF CallOK, Updates
  <1>3. UNCHANGED tables /\ UNCHANGED <<calls, asked, unchecked, tangled, spare>>
    BY DEF ReadTicket
  <1>4. CASE ~Exists(i)
    <2>1. Return(c) /\ UNCHANGED observers
      BY <1>2, <1>4 DEF ReadTicket, observers
    <2>2. Facts' /\ call' \in [Callers -> Call]
      BY <1>3, <2>1, ReturnQuiet DEF tables
    <2>3. TypeOK'
      BY <1>3, <2>1, <2>2, TypeKept DEF IInv, TypeOK
    <2> QED
      BY <2>2, <2>3 DEF IInv, Facts
  <1>5. CASE Exists(i)
    <2>1. PICK x : x = IF call[c].change.project \notin {0, i[1]}
                       THEN "rekey" ELSE "write"
      OBVIOUS
    <2>2. PICK r : r = [call[c] EXCEPT !.pc = x, !.seen = rows[i]]
      OBVIOUS
    <2>3. rows[i] \in Row /\ rows[i].parent # i
      BY <1>5 DEF IInv, TypeOK, KeyInv, ParentInv, Exists
    <2>4. /\ r \in Call /\ r.pc = x /\ r.id = i /\ r.newId = call[c].newId
          /\ r.change = call[c].change /\ r.seen = rows[i]
      BY <1>1, <1>2, <2>1, <2>2, <2>3 DEF Call, AfterRead
    <2>5. call' = [call EXCEPT ![c] = r]
      BY <1>2, <1>5, <2>1, <2>2 DEF ReadTicket, IInv, TypeOK
    <2>6. CallOK(r)
      BY <1>1, <1>2, <2>1, <2>3, <2>4 DEF CallOK, Updates, HasRead, AfterRead, Renames
    <2>7. HasRead(r) /\ ~Commits(r) /\ r.pc # "insert" /\ r.pc # "read"
      BY <2>1, <2>4 DEF HasRead, AfterRead, Commits
    <2>8. overlapped' = IF BusyOn(i, c) THEN overlapped \cup {i} ELSE overlapped
      BY <1>2, <1>5 DEF ReadTicket
    <2>9. KeyInv' /\ CycleInv'
      BY <1>3, <2>4, <2>5, <2>6, <2>7, KeyKept, CycleKept DEF tables
    <2>10. EpicInv'
      <3>1. ASSUME WillClose(r) PROVE ChildrenClosed(i)
        <4>1. New(r).status = "closed"
          BY <2>7, <3>1 DEF WillClose
        <4>2. CASE r.change.status # "same"
          <5>1. Closing(call[c].change)
            BY <2>4, <2>6, <2>7, <4>1, <4>2, NewTyped DEF Closing
          <5> QED
            BY <1>1, <1>2, <5>1 DEF IInv, EpicInv, WillClose
        <4>3. CASE r.change.status = "same"
          <5>1. rows[i].status = "closed"
            BY <2>4, <2>6, <2>7, <4>1, <4>3, NewTyped
          <5> QED
            BY <5>1 DEF IInv, EpicInv
        <4> QED
          BY <4>2, <4>3
      <3> QED
        BY <1>3, <2>4, <2>5, <3>1, EpicKept DEF tables
    <2>11. LostInv'
      <3>1. r.id \notin overlapped' => \A d \in Callers \ {c} : ~(HasRead(call[d]) /\ call[d].id = r.id)
        BY <2>4, <2>8 DEF BusyOn, HasRead
      <3>2. overlapped \subseteq overlapped'
        BY <2>8
      <3> QED
        BY <1>3, <2>4, <2>5, <3>1, <3>2, LostKept DEF tables
    <2>12. ActiveInv'
      <3>1. overlapped \subseteq overlapped'
        BY <2>8
      <3> QED
        BY <1>3, <2>4, <2>5, <2>7, <3>1, ActiveKept DEF tables
    <2>13. TypeOK'
      <3>1. call' \in [Callers -> Call] /\ overlapped' \in SUBSET Ids
        BY <2>4, <2>5, <2>8 DEF IInv, TypeOK
      <3> QED
        BY <1>3, <3>1 DEF IInv, TypeOK, tables
    <2> QED
      BY <2>9, <2>10, <2>11, <2>12, <2>13 DEF IInv
  <1> QED
    BY <1>4, <1>5

LEMMA CheckActiveInv ==
    ASSUME IInv, NEW c \in Callers, CheckActive(c)
    PROVE  IInv'
  <1>1. call[c].pc = "active" /\ call[c] \in Call /\ CallOK(call[c])
    BY DEF CheckActive, Step, IInv, TypeOK, KeyInv, CallInv
  <1>2. PICK i \in Ids : i = call[c].id
    BY <1>1 DEF CallOK
  <1>3. UNCHANGED tables /\ UNCHANGED <<calls, asked, unchecked, tangled, spare>>
    BY DEF CheckActive
  <1>4. /\ overlapped \subseteq overlapped' /\ overlapped' \in SUBSET Ids
        /\ i \notin overlapped' => \A d \in Callers \ {c} : ~(call[d].pc = "insert" /\ call[d].id = i)
    BY <1>2 DEF CheckActive, IInv, TypeOK
  <1>5. PICK r \in Call : /\ call' = [call EXCEPT ![c] = r] /\ CallOK(r)
                          /\ \/ r.pc = "idle"
                             \/ r.pc = "insert" /\ r.id = i /\ ~HasActive(i)
    <2>1. CASE HasActive(i)
      BY <1>2, <2>1, CallTyped DEF CheckActive, Return
    <2>2. CASE ~HasActive(i)
      <3>1. Goto(c, "insert") /\ "insert" \in Pcs /\ TypeOK
        BY <1>2, <2>2 DEF CheckActive, Pcs, IInv
      <3>2. PICK r \in Call : call' = [call EXCEPT ![c] = r] /\ r.pc = "insert" /\ r.id = call[c].id
        BY <3>1, GoesOn
      <3>3. CallOK(r)
        BY <1>2, <3>2 DEF CallOK, Updates, HasRead, AfterRead
      <3> QED
        BY <1>2, <2>2, <3>2, <3>3
    <2> QED
      BY <2>1, <2>2
  <1>6. ~HasRead(r) /\ ~Commits(r) /\ ~WillClose(r)
    BY <1>5 DEF HasRead, AfterRead, Commits, WillClose
  <1>7. r.pc = "insert" => r.id = i /\ workflows[i] = 0
    BY <1>5 DEF HasActive, IInv, TypeOK
  <1>8. KeyInv' /\ CycleInv' /\ EpicInv'
    BY <1>3, <1>5, <1>6, KeyKept, CycleKept, EpicKept DEF tables
  <1>9. LostInv'
    BY <1>3, <1>4, <1>5, <1>6, LostKept DEF tables
  <1>10. ActiveInv'
    BY <1>3, <1>4, <1>5, <1>7, ActiveKept DEF tables
  <1>11. TypeOK'
    <2>1. call' \in [Callers -> Call]
      BY <1>5 DEF IInv, TypeOK
    <2> QED
      BY <1>3, <1>4, <2>1 DEF IInv, TypeOK, tables
  <1> QED
    BY <1>8, <1>9, <1>10, <1>11 DEF IInv

LEMMA InsertWorkflowInv ==
    ASSUME IInv, NEW c \in Callers, InsertWorkflow(c)
    PROVE  IInv'
  <1>1. call[c].pc = "insert" /\ call[c] \in Call /\ CallOK(call[c])
    BY DEF InsertWorkflow, Step, IInv, TypeOK, KeyInv, CallInv
  <1>2. PICK i \in Ids : i = call[c].id
    BY <1>1 DEF CallOK
  <1>3. /\ UNCHANGED <<rows, blocks, meta, activities, comments, calls>> /\ UNCHANGED observers
        /\ workflows' = [workflows EXCEPT ![i] = workflows[i] + 1]
    BY <1>2 DEF InsertWorkflow
  <1>4. PICK r \in Call : call' = [call EXCEPT ![c] = r] /\ CallOK(r) /\ r.pc = "idle"
    BY CallTyped DEF InsertWorkflow, Return
  <1>5. ~HasRead(r) /\ ~Commits(r) /\ ~WillClose(r)
    BY <1>4 DEF HasRead, AfterRead, Commits, WillClose
  <1>6. KeyInv' /\ CycleInv' /\ EpicInv'
    BY <1>3, <1>4, <1>5, KeyKept, CycleKept, EpicKept DEF observers
  <1>7. LostInv'
    BY <1>3, <1>4, <1>5, LostKept DEF observers
  <1>8. workflows' \in [Ids -> Nat] /\ \A j \in Ids : j # i => workflows'[j] = workflows[j]
    BY <1>3 DEF IInv, TypeOK
  <1>9. ActiveInv'
    <2>1. call'[c].pc = "idle" /\ \A d \in Callers : d # c => call'[d] = call[d]
      BY <1>4 DEF IInv, TypeOK
    <2>2. i \notin overlapped \cup spare => workflows'[i] = 1
      BY <1>1, <1>2, <1>3 DEF IInv, ActiveInv, TypeOK
    <2>3. OneActiveWorkflow'
      BY <1>3, <1>8, <2>2 DEF IInv, ActiveInv, OneActiveWorkflow, observers
    <2>4. ASSUME NEW d \in Callers, call'[d].pc = "insert", call'[d].id \notin overlapped' \cup spare'
          PROVE  workflows'[call'[d].id] = 0
      <3>1. d # c /\ call'[d] = call[d] /\ call[d].id \notin overlapped \cup spare
        BY <1>3, <2>1, <2>4 DEF observers
      <3>2. call[d].id # i
        BY <1>1, <1>2, <2>4, <3>1 DEF IInv, ActiveInv
      <3>3. call[d].id \in Ids
        BY <2>4, <3>1 DEF IInv, KeyInv, CallInv, CallOK
      <3> QED
        BY <1>8, <2>4, <3>1, <3>2, <3>3 DEF IInv, ActiveInv
    <2>5. ASSUME NEW d \in Callers, NEW e \in Callers, d # e, call'[d].pc = "insert", call'[e].pc = "insert",
                 call'[d].id = call'[e].id
          PROVE  call'[d].id \in overlapped'
      BY <1>3, <2>1, <2>5 DEF IInv, ActiveInv, observers
    <2> QED
      BY <2>3, <2>4, <2>5 DEF ActiveInv
  <1>10. TypeOK'
    <2>1. call' \in [Callers -> Call]
      BY <1>4 DEF IInv, TypeOK
    <2> QED
      BY <1>3, <1>8, <2>1 DEF IInv, TypeOK, observers
  <1> QED
    BY <1>6, <1>7, <1>9, <1>10 DEF IInv

LEMMA RunHandlerInv ==
    ASSUME IInv, NEW c \in Callers, NEW i \in Ids, RunHandler(c, i)
    PROVE  IInv'
  <1>1. /\ UNCHANGED <<rows, blocks, meta, activities, comments, call, asked, overlapped, unchecked, tangled>>
        /\ workflows' = [workflows EXCEPT ![i] = workflows[i] + 1]
        /\ spare' = spare \cup {i}
    BY DEF RunHandler
  <1>2. workflows' \in [Ids -> Nat] /\ \A j \in Ids : j # i => workflows'[j] = workflows[j]
    BY <1>1 DEF IInv, TypeOK
  <1>3. TypeOK'
    <2>1. calls' \in 0..MaxCalls
      BY StoreAssumption DEF RunHandler, StartCall, IInv, TypeOK
    <2> QED
      BY <1>1, <1>2, <2>1 DEF IInv, TypeOK
  <1>4. KeyInv'
    BY <1>1 DEF IInv, KeyInv, CallInv, ParentInv, WriteInv, WriteOK, PairInv, Present, Exists
  <1>5. EpicInv' /\ CycleInv'
    BY <1>1 DEF IInv, EpicInv, ChildrenClosed, CycleInv
  <1>6. LostInv'
    BY <1>1 DEF IInv, LostInv, ChangesKept
  <1>7. ActiveInv'
    <2>1. OneActiveWorkflow'
      BY <1>1, <1>2 DEF IInv, ActiveInv, OneActiveWorkflow
    <2>2. ASSUME NEW d \in Callers, call[d].pc = "insert", call[d].id \notin overlapped \cup spare'
          PROVE  workflows'[call[d].id] = 0
      <3>1. call[d].id \in Ids /\ call[d].id # i /\ call[d].id \notin overlapped \cup spare
        BY <1>1, <2>2 DEF IInv, KeyInv, CallInv, CallOK
      <3> QED
        BY <1>2, <2>2, <3>1 DEF IInv, ActiveInv
    <2> QED
      BY <1>1, <2>1, <2>2 DEF IInv, ActiveInv
  <1> QED
    BY <1>3, <1>4, <1>5, <1>6, <1>7 DEF IInv

-----------------------------------------------------------------------------
(* UPDATE ticket: the write. *)

LEMMA RowMoved ==
    ASSUME NEW R, NEW c \in Callers, NEW r \in Call, r.id = call[c].id, r.newId = call[c].newId,
           r.seen = call[c].seen, r.change = call[c].change
    PROVE  Moved(R, c, Written(call[c].seen, call[c].change)) = After(R, r)
  BY DEF Moved, After, New

LEMMA AfterTyped ==
    ASSUME NEW R \in [Ids -> Row \cup {NoRow}], NEW r \in Call, CallOK(r), HasRead(r)
    PROVE  /\ After(R, r) \in [Ids -> Row \cup {NoRow}]
           /\ After(R, r)[r.newId] = New(r)
           /\ Renames(r) => After(R, r)[r.id] = NoRow
           /\ \A j \in Ids : j # r.id /\ j # r.newId => After(R, r)[j] = R[j]
  BY NewTyped DEF After, Renames

\* The write that goes to its commit breaks no key.
LEMMA WriteAllowed ==
    ASSUME IInv, NEW c \in Callers, WriteTicket(c), NEW r \in Call, HasRead(r), CallOK(r),
           r.id = call[c].id, r.newId = call[c].newId, r.seen = call[c].seen, r.change = call[c].change,
           Exists(r.id), Allowed(c, New(r)), ~Endless(After(rows, r), r.newId)
    PROVE  WriteOK(r)
  <1>1. r.id \in Ids /\ r.newId \in Ids /\ New(r) \in Row
    BY NewTyped
  <1>2. PICK Q \in [Ids -> Row \cup {NoRow}] :
            /\ Q = After(rows, r) /\ Q[r.newId] = New(r)
            /\ Renames(r) => Q[r.id] = NoRow
            /\ \A j \in Ids : j # r.id /\ j # r.newId => Q[j] = rows[j]
    BY AfterTyped DEF IInv, TypeOK
  <1>3. New(r).parent \in {None} \cup {j \in Ids : Q[j] # NoRow}
    BY <1>2, RowMoved DEF Allowed, New
  <1>4. New(r).parent # r.newId
    <2> SUFFICES ASSUME New(r).parent = r.newId PROVE FALSE
      OBVIOUS
    <2>1. PICK S \in SUBSET Ids : S = {r.newId}
      BY <1>1
    <2>2. r.newId \in S /\ \A j \in S : Q[j].parent \in S
      BY <1>2, <2>1
    <2>3. Endless(Q, r.newId)
      BY <2>2, EndlessInside
    <2> QED
      BY <1>2, <2>3
  <1>5. New(r).parent # r.id
    BY <1>1, <1>2, <1>3, <1>4, IdsTyped DEF Renames
  <1>6. New(r).parent \in {None} \cup Present
    BY <1>2, <1>3, <1>4, <1>5 DEF Present, Exists
  <1>7. ASSUME Renames(r) PROVE ~Exists(r.newId) /\ \A j \in Ids : rows[j].parent # r.id
    <2>1. ~Exists(r.newId) /\ ~Referred(r.id)
      BY <1>7 DEF Allowed, Renaming, Renames
    <2>2. \A j \in Ids : Exists(j) => rows[j].parent # r.id
      BY <2>1 DEF Referred, Children
    <2> QED
      BY <1>1, <2>1, <2>2, RowTyped, IdsTyped DEF Exists
  <1> QED
    BY <1>4, <1>5, <1>6, <1>7 DEF WriteOK

LEMMA WriteTicketInv ==
    ASSUME IInv, NEW c \in Callers, WriteTicket(c)
    PROVE  IInv'
  <1>1. call[c].pc = "write" /\ call[c] \in Call /\ CallOK(call[c]) /\ HasRead(call[c])
    BY DEF WriteTicket, Step, IInv, TypeOK, KeyInv, CallInv, HasRead, AfterRead
  <1>2. UNCHANGED tables /\ UNCHANGED <<calls, asked, overlapped, unchecked, spare>>
    BY DEF WriteTicket
  <1>3. CASE Return(c) /\ UNCHANGED tangled
    <2>1. UNCHANGED observers
      BY <1>2, <1>3 DEF observers
    <2>2. Facts' /\ call' \in [Callers -> Call]
      BY <1>2, <1>3, <2>1, ReturnQuiet DEF tables
    <2>3. TypeOK'
      BY <1>2, <2>1, <2>2, TypeKept DEF IInv, TypeOK
    <2> QED
      BY <2>2, <2>3 DEF IInv, Facts
  <1>4. CASE /\ Exists(call[c].id)
             /\ Allowed(c, Written(call[c].seen, call[c].change))
             /\ Goto(c, IF Endless(Moved(rows, c, Written(call[c].seen, call[c].change)), call[c].newId)
                        THEN "hung" ELSE "commit")
             /\ tangled' = (tangled \/ \E d \in Callers \ {c} : call[d].pc = "commit")
    <2>1. PICK x \in {"hung", "commit"} :
              x = IF Endless(Moved(rows, c, Written(call[c].seen, call[c].change)), call[c].newId)
                  THEN "hung" ELSE "commit"
      OBVIOUS
    <2>2. Goto(c, x) /\ x \in Pcs /\ TypeOK
      BY <1>4, <2>1 DEF IInv, Pcs, AfterRead
    <2>3. PICK r \in Call : /\ call' = [call EXCEPT ![c] = r] /\ r.pc = x
                            /\ r.id = call[c].id /\ r.newId = call[c].newId
                            /\ r.change = call[c].change /\ r.seen = call[c].seen
      BY <2>2, GoesOn
    <2>4. HasRead(r) /\ CallOK(r) /\ r.pc # "insert" /\ r.pc # "read"
      BY <1>1, <2>1, <2>3 DEF HasRead, AfterRead, CallOK, Updates, Renames
    <2>5. New(r) = Written(call[c].seen, call[c].change) /\ New(r) = New(call[c])
      BY <2>3 DEF New
    <2>6. Commits(r) => ~Endless(After(rows, r), r.newId)
      BY <2>1, <2>3, RowMoved DEF Commits
    <2>7. call'[c] = r /\ \A d \in Callers : d # c => call'[d] = call[d]
      BY <2>3 DEF IInv, TypeOK
    <2>8. Commits(r) => WriteOK(r)
      BY <1>4, <2>3, <2>4, <2>5, <2>6, WriteAllowed
    <2>9. ASSUME NEW d \in Callers, d # c, Commits(call[d]), Commits(r)
          PROVE  PairOK(r, call[d]) /\ PairOK(call[d], r)
      <3>1. r.id # call[d].id
        BY <2>3, <2>9 DEF WriteTicket, Held, Commits
      <3>2. /\ Renaming(d) => New(r).parent # call[d].id
            /\ Renaming(c) => New(call[d]).parent # r.id /\ call[d].newId # call[c].newId
        BY <2>3, <2>5, <2>9 DEF WriteTicket, Commits, New
      <3> QED
        BY <2>3, <3>1, <3>2 DEF PairOK, Renames, Renaming
    <2>10. KeyInv'
      <3>1. CallInv'
        BY <2>4, <2>7 DEF IInv, KeyInv, CallInv
      <3>2. ParentInv'
        BY <1>2 DEF IInv, KeyInv, ParentInv, Present, Exists, tables
      <3>3. \A d \in Callers : Commits(call'[d]) => WriteOK(call'[d])
        BY <2>7, <2>8 DEF IInv, KeyInv, WriteInv
      <3>4. WriteInv'
        BY <1>2, <3>3 DEF WriteInv, WriteOK, Present, Exists, tables
      <3>5. PairInv'
        BY <2>7, <2>9 DEF IInv, KeyInv, PairInv
      <3> QED
        BY <3>1, <3>2, <3>4, <3>5 DEF KeyInv
    <2>11. CycleInv'
      <3> SUFFICES ASSUME ~tangled'
                   PROVE  /\ Acyclic(rows)
                          /\ \A d, e \in Callers : Commits(call'[d]) /\ Commits(call'[e]) => d = e
                          /\ \A d \in Callers : Commits(call'[d]) => Acyclic(After(rows, call'[d]))
        BY <1>2 DEF CycleInv, tables
      <3>1. ~tangled /\ \A d \in Callers : d # c => ~Commits(call[d])
        BY <1>4 DEF Commits
      <3>2. Acyclic(rows)
        BY <3>1 DEF IInv, CycleInv
      <3>3. ASSUME Commits(r) PROVE Acyclic(After(rows, r))
        BY <2>4, <2>6, <3>2, <3>3, NewTyped, AcyclicAfter DEF IInv, TypeOK
      <3> QED
        BY <2>7, <3>1, <3>2, <3>3
    <2>12. EpicInv'
      <3>1. WillClose(r) => ChildrenClosed(r.id)
        BY <1>1, <2>3, <2>4, <2>5 DEF WillClose, IInv, EpicInv
      <3> QED
        BY <1>2, <2>3, <3>1, EpicKept DEF tables
    <2>13. LostInv' /\ ActiveInv'
      BY <1>1, <1>2, <2>3, <2>4, LostKept, ActiveKept DEF tables, IInv, LostInv
    <2>14. TypeOK'
      <3>1. tangled' \in BOOLEAN
        BY <1>4, Zenon DEF IInv, TypeOK
      <3>2. call' \in [Callers -> Call]
        BY <2>3 DEF IInv, TypeOK
      <3> QED
        BY <1>2, <3>1, <3>2 DEF IInv, TypeOK, tables
    <2> QED
      BY <2>10, <2>11, <2>12, <2>13, <2>14 DEF IInv
  <1> QED
    BY <1>3, <1>4 DEF WriteTicket

-----------------------------------------------------------------------------
(* Statements that change rows: new ones, the children closed by force, the commit. *)

\* New rows, each open and below a row that is there or new.
LEMMA RowsAdded ==
    ASSUME IInv, NEW A \in SUBSET Ids, \A k \in A : ~Exists(k) /\ Settled(k),
           UNCHANGED <<call, overlapped, workflows, spare>>, unchecked \subseteq unchecked',
           \A k \in Ids : k \notin A => rows'[k] = rows[k] /\ asked'[k] = asked[k],
           \A k \in A : /\ asked'[k] = rows'[k] /\ rows'[k] # NoRow /\ rows'[k].status = "open"
                        /\ rows'[k].parent \in unchecked' \cup {None} /\ rows'[k].parent # k
                        /\ rows'[k].parent \in {None} \cup A \cup {j \in Ids : Referable(j)}
    PROVE  KeyInv' /\ EpicInv' /\ LostInv' /\ ActiveInv'
  <1>1. /\ \A k \in A : rows[k] = NoRow
        /\ \A k \in Ids : rows'[k] # NoRow <=> rows[k] # NoRow \/ k \in A
    BY DEF Exists
  <1>2. Present' = Present \cup A
    BY <1>1 DEF Present, Exists
  <1>3. KeyInv'
    <2>1. CallInv'
      BY DEF IInv, KeyInv, CallInv
    <2>2. ParentInv'
      <3> SUFFICES ASSUME NEW k \in Ids PROVE rows'[k].parent \in ({None} \cup Present \cup A) \ {k}
        BY <1>2 DEF ParentInv
      <3>1. CASE k \in A
        BY <3>1 DEF Referable, Present
      <3>2. CASE k \notin A
        BY <3>2 DEF IInv, KeyInv, ParentInv
      <3> QED
        BY <3>1, <3>2
    <2>3. WriteInv'
      <3> SUFFICES ASSUME NEW c \in Callers, Commits(call[c])
                   PROVE  /\ rows'[call[c].id] # NoRow
                          /\ New(call[c]).parent \in ({None} \cup Present \cup A) \ {call[c].id, call[c].newId}
                          /\ Renames(call[c]) => /\ rows'[call[c].newId] = NoRow
                                                 /\ \A j \in Ids : rows'[j].parent # call[c].id
        BY <1>2 DEF WriteInv, WriteOK, Exists
      <3>1. WriteOK(call[c]) /\ call[c].id \in Ids /\ call[c].newId \in Ids
        BY DEF IInv, KeyInv, WriteInv, CallInv, CallOK, Commits, Updates, AfterRead
      <3>2. ASSUME Renames(call[c]) PROVE \A k \in Ids : Settled(k) => k # call[c].id /\ k # call[c].newId
        BY <3>2 DEF Settled, Commits, Renames
      <3>3. ASSUME Renames(call[c]), NEW j \in Ids PROVE rows'[j].parent # call[c].id
        <4>1. CASE j \in A
          BY <3>1, <3>2, <3>3, <4>1, IdsTyped DEF Referable
        <4>2. CASE j \notin A
          BY <3>1, <3>3, <4>2 DEF WriteOK
        <4> QED
          BY <4>1, <4>2
      <3>4. Renames(call[c]) => rows'[call[c].newId] = NoRow
        BY <1>1, <3>1, <3>2 DEF WriteOK, Exists
      <3> QED
        BY <1>1, <3>1, <3>3, <3>4 DEF WriteOK, Exists
    <2>4. PairInv'
      BY DEF IInv, KeyInv, PairInv
    <2> QED
      BY <2>1, <2>2, <2>3, <2>4 DEF KeyInv
  <1>4. EpicInv'
    <2>1. ASSUME NEW i \in Ids, ChildrenClosed(i), i \notin unchecked', NEW j \in Ids, rows'[j].parent = i
          PROVE  rows'[j].status # "open"
      BY <2>1, IdsTyped DEF ChildrenClosed
    <2>2. ASSUME NEW i \in Ids, rows'[i].status = "closed", i \notin unchecked', NEW j \in Ids, rows'[j].parent = i
          PROVE  rows'[j].status # "open"
      <3>1. ChildrenClosed(i)
        BY <2>2 DEF IInv, EpicInv
      <3> QED
        BY <2>1, <2>2, <3>1
    <2>3. ASSUME NEW c \in Callers, WillClose(call[c]), call[c].id \notin unchecked', NEW j \in Ids,
                 rows'[j].parent = call[c].id
          PROVE  rows'[j].status # "open"
      <3>1. ChildrenClosed(call[c].id) /\ call[c].id \in Ids
        BY <2>3 DEF IInv, EpicInv, KeyInv, CallInv, CallOK, WillClose, HasRead, Updates
      <3> QED
        BY <2>1, <2>3, <3>1
    <2> QED
      BY <2>2, <2>3 DEF EpicInv, ChildrenClosed
  <1>5. LostInv'
    <2>1. ChangesKept' /\ \A i \in Ids : asked'[i] = NoRow <=> rows'[i] = NoRow
      BY DEF IInv, LostInv, ChangesKept
    <2>2. ASSUME NEW c \in Callers, HasRead(call[c]), call[c].id \notin overlapped
          PROVE  call[c].seen = rows'[call[c].id]
      <3>1. call[c].id \in Ids /\ call[c].seen # NoRow
        BY <2>2, RowTyped DEF IInv, KeyInv, CallInv, CallOK, HasRead, Updates
      <3>2. call[c].seen = rows[call[c].id]
        BY <2>2 DEF IInv, LostInv
      <3> QED
        BY <1>1, <3>1, <3>2
    <2> QED
      BY <2>1, <2>2 DEF IInv, LostInv
  <1>6. ActiveInv'
    BY DEF IInv, ActiveInv, OneActiveWorkflow
  <1> QED
    BY <1>3, <1>4, <1>5, <1>6

\* A row is added below one that is there, before and after a commit.
LEMMA CycleAdded ==
    ASSUME IInv, ~tangled, NEW i \in Ids, ~Exists(i), Settled(i), NEW row, row.parent # i
    PROVE  /\ Acyclic([rows EXCEPT ![i] = row])
           /\ \A c \in Callers : Commits(call[c]) =>
                 /\ Acyclic(After([rows EXCEPT ![i] = row], call[c]))
                 /\ \A j \in Ids : rows[j].parent # i /\ After(rows, call[c])[j].parent # i
                 /\ call[c].id # i /\ call[c].newId # i
  <1>1. rows \in [Ids -> Row \cup {NoRow}] /\ Acyclic(rows) /\ \A j \in Ids : rows[j].parent # i
    BY IdsTyped DEF IInv, TypeOK, CycleInv, KeyInv, ParentInv, Present
  <1>2. Acyclic([rows EXCEPT ![i] = row])
    BY <1>1, AcyclicLeaf
  <1>3. ASSUME NEW c \in Callers, Commits(call[c])
        PROVE  /\ Acyclic(After([rows EXCEPT ![i] = row], call[c]))
               /\ \A j \in Ids : After(rows, call[c])[j].parent # i
               /\ call[c].id # i /\ call[c].newId # i
    <2>1. PICK r : r = call[c]
      OBVIOUS
    <2>2. r \in Call /\ CallOK(r) /\ HasRead(r) /\ WriteOK(r)
      BY <1>3, <2>1 DEF IInv, TypeOK, KeyInv, CallInv, WriteInv, HasRead, AfterRead, Commits
    <2>3. r.id \in Ids /\ r.newId \in Ids /\ New(r) \in Row
      BY <2>2, NewTyped
    <2>4. r.id # i /\ r.newId # i
      BY <1>3, <2>1, <2>2 DEF WriteOK, Settled, Renames, Commits
    <2>5. PICK Q \in [Ids -> Row \cup {NoRow}] :
              /\ Q = After(rows, r) /\ Q[r.newId] = New(r)
              /\ Renames(r) => Q[r.id] = NoRow
              /\ \A j \in Ids : j # r.id /\ j # r.newId => Q[j] = rows[j]
      BY <1>1, <2>2, AfterTyped
    <2>6. \A j \in Ids : Q[j].parent # i
      BY <1>1, <2>2, <2>3, <2>5, RowTyped, IdsTyped DEF WriteOK, Present, Renames
    <2>7. Acyclic(Q)
      BY <1>3, <2>1, <2>5 DEF IInv, CycleInv
    <2>8. Acyclic([Q EXCEPT ![i] = row])
      BY <2>6, <2>7, AcyclicLeaf
    <2>9. After([rows EXCEPT ![i] = row], r) = [Q EXCEPT ![i] = row]
      BY <1>1, <2>3, <2>4, <2>5 DEF After
    <2> QED
      BY <2>1, <2>4, <2>5, <2>6, <2>8, <2>9
  <1> QED
    BY <1>1, <1>2, <1>3

LEMMA CreateTicketInv ==
    ASSUME IInv, NEW c \in Callers, NEW i \in Ids, NEW p \in Ids \cup {None}, CreateTicket(c, i, p)
    PROVE  IInv'
  <1>1. /\ ~Exists(i) /\ Settled(i) /\ p # i
        /\ p \in {None} \cup {j \in Ids : Referable(j)}
    BY IdsTyped DEF CreateTicket, Referable
  <1>2. /\ rows' = [rows EXCEPT ![i] = NewRow(p)] /\ asked' = [asked EXCEPT ![i] = NewRow(p)]
        /\ unchecked' = unchecked \cup {p}
        /\ UNCHANGED <<blocks, meta, activities, comments, workflows, call, overlapped, tangled, spare>>
    BY DEF CreateTicket
  <1>3. PICK row \in Row : row = NewRow(p) /\ row # NoRow /\ row.status = "open" /\ row.parent = p
    BY RowTyped
  <1>4. rows' = [rows EXCEPT ![i] = row] /\ asked' = [asked EXCEPT ![i] = row]
    BY <1>2, <1>3
  <1>5. TypeOK'
    <2>1. calls' \in 0..MaxCalls
      BY StoreAssumption DEF CreateTicket, StartCall, IInv, TypeOK
    <2>2. rows' \in [Ids -> Row \cup {NoRow}] /\ asked' \in [Ids -> Row \cup {NoRow}]
      BY <1>3, <1>4 DEF IInv, TypeOK
    <2> QED
      BY <1>2, <2>1, <2>2 DEF IInv, TypeOK
  <1>6. KeyInv' /\ EpicInv' /\ LostInv' /\ ActiveInv'
    <2>1. PICK A \in SUBSET Ids : A = {i}
      OBVIOUS
    <2>2. rows'[i] = row /\ asked'[i] = row /\ \A k \in Ids : k # i => rows'[k] = rows[k] /\ asked'[k] = asked[k]
      BY <1>4 DEF IInv, TypeOK
    <2> QED
      BY <1>1, <1>2, <1>3, <2>1, <2>2, RowsAdded
  <1>7. CycleInv'
    <2> SUFFICES ASSUME ~tangled PROVE CycleInv'
      BY <1>2 DEF CycleInv
    <2>1. /\ Acyclic([rows EXCEPT ![i] = row])
          /\ \A d \in Callers : Commits(call[d]) => Acyclic(After([rows EXCEPT ![i] = row], call[d]))
      BY <1>1, <1>3, CycleAdded
    <2> QED
      BY <1>2, <1>4, <2>1 DEF IInv, CycleInv
  <1> QED
    BY <1>5, <1>6, <1>7 DEF IInv

LEMMA ImportRecordsInv ==
    ASSUME IInv, NEW c \in Callers, NEW i \in Ids, NEW j \in Ids, ImportRecords(c, i, j)
    PROVE  IInv'
  <1>1. ~Exists(i) /\ Settled(i) /\ ~Exists(j) /\ Settled(j) /\ i # j
    BY DEF ImportRecords
  <1>2. PICK top \in Row : top = NewRow(None) /\ top # NoRow /\ top.status = "open" /\ top.parent = None
    BY RowTyped
  <1>3. PICK sub \in Row : sub = NewRow(i) /\ sub # NoRow /\ sub.status = "open" /\ sub.parent = i
    BY RowTyped
  <1>4. /\ rows' = [k \in Ids |-> IF k = i THEN top ELSE IF k = j THEN sub ELSE rows[k]]
        /\ asked' = [k \in Ids |-> IF k = i THEN top ELSE IF k = j THEN sub ELSE asked[k]]
    BY <1>1, <1>2, <1>3 DEF ImportRecords
  <1>5. /\ unchecked' = unchecked \cup {i}
        /\ UNCHANGED <<blocks, meta, activities, comments, workflows, call, overlapped, tangled, spare>>
    BY DEF ImportRecords
  <1>6. TypeOK'
    <2>1. calls' \in 0..MaxCalls
      BY StoreAssumption DEF ImportRecords, StartCall, IInv, TypeOK
    <2>2. rows' \in [Ids -> Row \cup {NoRow}] /\ asked' \in [Ids -> Row \cup {NoRow}]
      BY <1>2, <1>3, <1>4 DEF IInv, TypeOK
    <2> QED
      BY <1>5, <2>1, <2>2 DEF IInv, TypeOK
  <1>7. KeyInv' /\ EpicInv' /\ LostInv' /\ ActiveInv'
    <2>1. PICK A \in SUBSET Ids : A = {i, j}
      OBVIOUS
    <2>2. /\ rows'[i] = top /\ asked'[i] = top /\ rows'[j] = sub /\ asked'[j] = sub
          /\ \A k \in Ids : k \notin A => rows'[k] = rows[k] /\ asked'[k] = asked[k]
      BY <1>1, <1>4, <2>1
    <2>3. \A k \in A : /\ asked'[k] = rows'[k] /\ rows'[k] # NoRow /\ rows'[k].status = "open"
                       /\ rows'[k].parent \in unchecked' \cup {None} /\ rows'[k].parent # k
                       /\ rows'[k].parent \in {None} \cup A \cup {m \in Ids : Referable(m)}
      BY <1>1, <1>2, <1>3, <1>5, <2>1, <2>2, IdsTyped
    <2> QED
      BY <1>1, <1>5, <2>1, <2>2, <2>3, RowsAdded
  <1>8. CycleInv'
    <2> SUFFICES ASSUME ~tangled PROVE CycleInv'
      BY <1>5 DEF CycleInv
    <2>1. PICK R \in [Ids -> Row \cup {NoRow}] : R = [rows EXCEPT ![i] = top]
      BY <1>2 DEF IInv, TypeOK
    <2>2. /\ Acyclic(R)
          /\ \A d \in Callers : Commits(call[d]) =>
                /\ Acyclic(After(R, call[d]))
                /\ call[d].id # i /\ call[d].newId # i
      <3>1. top.parent # i
        BY <1>2, IdsTyped
      <3>2. /\ Acyclic([rows EXCEPT ![i] = top])
            /\ \A d \in Callers : Commits(call[d]) =>
                  /\ Acyclic(After([rows EXCEPT ![i] = top], call[d]))
                  /\ call[d].id # i /\ call[d].newId # i
        BY <1>1, <3>1, CycleAdded
      <3> QED
        BY <2>1, <3>2
    <2>3. \A d \in Callers : Commits(call[d]) =>
              /\ \A k \in Ids : After(rows, call[d])[k].parent # j
              /\ call[d].id # j /\ call[d].newId # j
      BY <1>1, <1>3, CycleAdded
    <2>4. rows' = [R EXCEPT ![j] = sub]
      BY <1>1, <1>4, <2>1 DEF IInv, TypeOK
    <2>5. \A k \in Ids : R[k].parent # j
      BY <1>1, <1>2, <2>1, IdsTyped DEF IInv, TypeOK, KeyInv, ParentInv, Present
    <2>6. Acyclic(rows')
      BY <1>1, <1>3, <2>2, <2>4, <2>5, AcyclicLeaf
    <2>7. ASSUME NEW d \in Callers, Commits(call[d]) PROVE Acyclic(After(rows', call[d]))
      <3>1. PICK r : r = call[d]
        OBVIOUS
      <3>2. r \in Call /\ CallOK(r) /\ HasRead(r)
        BY <2>7, <3>1 DEF IInv, TypeOK, KeyInv, CallInv, HasRead, AfterRead, Commits
      <3>3. r.id \in Ids /\ r.newId \in Ids /\ New(r) \in Row
        BY <3>2, NewTyped
      <3>4. r.id # i /\ r.newId # i /\ r.id # j /\ r.newId # j
        BY <2>2, <2>3, <2>7, <3>1
      <3>5. PICK Q \in [Ids -> Row \cup {NoRow}] : Q = After(R, r)
        BY <3>2, AfterTyped
      <3>6. Q = [After(rows, r) EXCEPT ![i] = top]
        BY <2>1, <3>3, <3>4, <3>5 DEF After, IInv, TypeOK
      <3>7. After(rows, r) \in [Ids -> Row \cup {NoRow}]
        BY <3>2, AfterTyped DEF IInv, TypeOK
      <3>8. \A k \in Ids : After(rows, r)[k].parent # j
        BY <2>3, <2>7, <3>1
      <3>9. \A k \in Ids : Q[k].parent # j
        BY <1>2, <3>6, <3>7, <3>8, IdsTyped
      <3>10. Acyclic(Q)
        BY <2>2, <2>7, <3>1, <3>5
      <3>11. Acyclic([Q EXCEPT ![j] = sub])
        BY <1>1, <1>3, <3>9, <3>10, AcyclicLeaf
      <3>12. After(rows', r) = [Q EXCEPT ![j] = sub]
        BY <2>4, <3>3, <3>4, <3>5 DEF After
      <3> QED
        BY <3>1, <3>11, <3>12
    <2> QED
      BY <1>5, <2>6, <2>7 DEF IInv, CycleInv
  <1> QED
    BY <1>6, <1>7, <1>8 DEF IInv

\* The close of i: no child of it is left open, and those that were are closed.
LEMMA ChildrenNowClosed ==
    ASSUME IInv, NEW c \in Callers, NEW r \in Call, call' = [call EXCEPT ![c] = r], r.pc = "read", CallOK(r),
           NEW i \in Ids, r.id = i, NEW B \in SUBSET Ids, B = {j \in Children(i) : rows[j].status # "closed"},
           rows' = [j \in Ids |-> IF j \in B THEN [rows[j] EXCEPT !.status = "closed"] ELSE rows[j]],
           asked' = [j \in Ids |-> IF j \in B THEN [asked[j] EXCEPT !.status = "closed"] ELSE asked[j]],
           overlapped' = overlapped \cup {j \in B : BusyOn(j, c)},
           unchecked' = (unchecked \cup B) \ {i}, UNCHANGED <<workflows, tangled, spare>>
    PROVE  /\ Facts' /\ call' \in [Callers -> Call]
           /\ rows' \in [Ids -> Row \cup {NoRow}] /\ asked' \in [Ids -> Row \cup {NoRow}]
  <1>1. call'[c] = r /\ \A d \in Callers : d # c => call'[d] = call[d]
    BY DEF IInv, TypeOK
  <1>2. ~HasRead(r) /\ ~Commits(r)
    BY DEF HasRead, AfterRead, Commits
  <1>3. \A j \in B : rows[j] \in Row /\ asked[j] \in Row /\ rows[j].parent = i
    BY DEF Children, Exists, IInv, TypeOK, LostInv
  <1>4. /\ rows' \in [Ids -> Row \cup {NoRow}] /\ asked' \in [Ids -> Row \cup {NoRow}]
        /\ \A j \in Ids : /\ rows'[j].parent = rows[j].parent
                          /\ rows'[j] = NoRow <=> rows[j] = NoRow
                          /\ asked'[j] = NoRow <=> asked[j] = NoRow
        /\ \A j \in B : rows'[j].status = "closed"
        /\ \A j \in Ids : j \notin B => rows'[j] = rows[j] /\ asked'[j] = asked[j]
    BY <1>3, ClosedRow, RowTyped DEF IInv, TypeOK
  <1>5. Present' = Present
    BY <1>4 DEF Present, Exists
  <1>6. KeyInv'
    <2>1. CallInv'
      BY <1>1 DEF IInv, KeyInv, CallInv
    <2>2. ParentInv'
      BY <1>4, <1>5 DEF IInv, KeyInv, ParentInv
    <2>3. WriteInv'
      <3> SUFFICES ASSUME NEW d \in Callers, Commits(call'[d]) PROVE WriteOK(call[d])'
        BY DEF WriteInv
      <3>1. d # c /\ call'[d] = call[d]
        BY <1>1, <1>2
      <3>2. WriteOK(call[d]) /\ call[d].id \in Ids /\ call[d].newId \in Ids
        BY <3>1 DEF IInv, KeyInv, WriteInv, CallInv, CallOK, Commits, Updates, AfterRead
      <3> QED
        BY <1>4, <1>5, <3>1, <3>2 DEF WriteOK, Exists
    <2>4. PairInv'
      BY <1>1, <1>2 DEF IInv, KeyInv, PairInv
    <2> QED
      BY <2>1, <2>2, <2>3, <2>4 DEF KeyInv
  <1>7. EpicInv'
    <2>1. ASSUME NEW j \in Ids, rows'[j].status = "open" PROVE rows[j].status = "open" /\ rows[j].parent # i
      <3>1. j \notin B /\ rows[j].status = "open"
        BY <1>4, <2>1
      <3> QED
        BY <3>1, RowTyped DEF Children, Exists
    <2>2. ASSUME NEW k \in Ids, ChildrenClosed(k) \/ k = i \/ k \in unchecked'
          PROVE  ChildrenClosed(k)'
      BY <1>4, <2>1, <2>2 DEF ChildrenClosed
    <2>3. ASSUME NEW k \in Ids, rows'[k].status = "closed" PROVE ChildrenClosed(k)'
      BY <1>4, <2>2, <2>3 DEF IInv, EpicInv
    <2>4. ASSUME NEW d \in Callers, d # c, WillClose(call[d]) PROVE ChildrenClosed(call[d].id)'
      <3>1. PICK k \in Ids : k = call[d].id
        BY <2>4 DEF IInv, KeyInv, CallInv, CallOK, WillClose, HasRead, Updates
      <3>2. ChildrenClosed(k)
        BY <2>4, <3>1 DEF IInv, EpicInv
      <3>3. ChildrenClosed(k)'
        BY <2>2, <3>2
      <3> QED
        BY <1>1, <2>4, <3>1, <3>3 DEF ChildrenClosed
    <2>5. ChildrenClosed(i)'
      BY <2>2
    <2> QED
      BY <1>1, <2>3, <2>4, <2>5 DEF EpicInv, ChildrenClosed
  <1>8. CycleInv'
    <2> SUFFICES ASSUME ~tangled PROVE CycleInv'
      BY DEF CycleInv
    <2>1. Acyclic(rows')
      BY <1>4 DEF IInv, CycleInv, Acyclic
    <2>2. ASSUME NEW d \in Callers, d # c, Commits(call[d]) PROVE Acyclic(After(rows', call[d]))
      <3>1. PICK s : s = call[d]
        OBVIOUS
      <3>2. s \in Call /\ CallOK(s) /\ HasRead(s)
        BY <2>2, <3>1 DEF IInv, TypeOK, KeyInv, CallInv, HasRead, AfterRead, Commits
      <3>3. PICK Q : Q = After(rows, s)
        OBVIOUS
      <3>4. PICK P : P = After(rows', s)
        OBVIOUS
      <3>5. Acyclic(Q)
        BY <2>2, <3>1, <3>3 DEF IInv, CycleInv
      <3>6. \A j \in Ids : P[j].parent = Q[j].parent
        BY <1>4, <3>2, <3>3, <3>4, NewTyped DEF After, IInv, TypeOK
      <3>7. Acyclic(P)
        BY <3>5, <3>6 DEF Acyclic
      <3> QED
        BY <3>1, <3>4, <3>7
    <2> QED
      BY <1>1, <1>2, <2>1, <2>2 DEF IInv, CycleInv
  <1>9. LostInv'
    <2>1. ChangesKept' /\ \A j \in Ids : asked'[j] = NoRow <=> rows'[j] = NoRow
      <3>1. \A j \in Ids : j \notin overlapped => rows[j] = asked[j]
        BY DEF IInv, LostInv, ChangesKept
      <3>2. \A j \in Ids : j \notin overlapped => rows'[j] = asked'[j]
        BY <3>1
      <3>3. ChangesKept'
        BY <3>2 DEF ChangesKept
      <3> QED
        BY <1>4, <3>3 DEF IInv, LostInv
    <2>2. ASSUME NEW d \in Callers, HasRead(call'[d]), call'[d].id \notin overlapped'
          PROVE  call'[d].seen = rows'[call'[d].id]
      <3>1. d # c /\ call'[d] = call[d]
        BY <1>1, <1>2, <2>2
      <3>2. call[d].id \in Ids /\ call[d].id \notin overlapped
        BY <2>2, <3>1 DEF IInv, KeyInv, CallInv, CallOK, HasRead, Updates
      <3>3. call[d].id \notin B
        BY <2>2, <3>1 DEF BusyOn, HasRead
      <3> QED
        BY <1>4, <2>2, <3>1, <3>2, <3>3 DEF IInv, LostInv
    <2>3. ASSUME NEW d \in Callers, NEW e \in Callers, d # e, HasRead(call'[d]), HasRead(call'[e]),
                 call'[d].id = call'[e].id
          PROVE  call'[d].id \in overlapped'
      BY <1>1, <1>2, <2>3 DEF IInv, LostInv
    <2> QED
      BY <2>1, <2>2, <2>3 DEF LostInv
  <1>10. ActiveInv'
    <2>1. overlapped \subseteq overlapped' /\ r.pc # "insert"
      OBVIOUS
    <2> QED
      BY <2>1, ActiveKept
  <1>11. call' \in [Callers -> Call]
    BY DEF IInv, TypeOK
  <1> QED
    BY <1>4, <1>6, <1>7, <1>8, <1>9, <1>10, <1>11 DEF Facts

LEMMA CheckChildrenInv ==
    ASSUME IInv, NEW c \in Callers, CheckChildren(c)
    PROVE  IInv'
  <1>1. call[c].pc = "children" /\ call[c] \in Call /\ CallOK(call[c])
    BY DEF CheckChildren, Step, IInv, TypeOK, KeyInv, CallInv
  <1>2. PICK i \in Ids : i = call[c].id
    BY <1>1 DEF CallOK, Updates
  <1>3. UNCHANGED <<blocks, meta, activities, comments, workflows, calls, tangled, spare>>
    BY DEF CheckChildren
  <1>4. PICK B \in SUBSET Ids : B = {j \in Children(i) : rows[j].status # "closed"}
    BY DEF Children
  <1>5. CASE /\ Goto(c, "read")
             /\ rows' = [j \in Ids |-> IF j \in B THEN [rows[j] EXCEPT !.status = "closed"] ELSE rows[j]]
             /\ asked' = [j \in Ids |-> IF j \in B THEN [asked[j] EXCEPT !.status = "closed"] ELSE asked[j]]
             /\ overlapped' = overlapped \cup {j \in B : BusyOn(j, c)}
             /\ unchecked' = (unchecked \cup B) \ {i}
    <2>1. "read" \in Pcs /\ TypeOK
      BY DEF Pcs, IInv
    <2>2. PICK r \in Call : /\ call' = [call EXCEPT ![c] = r] /\ r.pc = "read"
                            /\ r.id = call[c].id /\ r.newId = call[c].newId
                            /\ r.change = call[c].change /\ r.seen = call[c].seen
      BY <1>5, <2>1, GoesOn
    <2>3. CallOK(r)
      BY <1>1, <2>2 DEF CallOK, Updates, HasRead, AfterRead, Renames
    <2>4. /\ Facts' /\ call' \in [Callers -> Call]
          /\ rows' \in [Ids -> Row \cup {NoRow}] /\ asked' \in [Ids -> Row \cup {NoRow}]
      BY <1>2, <1>3, <1>4, <1>5, <2>2, <2>3, ChildrenNowClosed
    <2>5. overlapped' \in SUBSET Ids /\ unchecked' \subseteq Ids \cup {None}
      BY <1>5 DEF IInv, TypeOK
    <2>6. TypeOK'
      BY <1>3, <2>4, <2>5 DEF IInv, TypeOK
    <2> QED
      BY <2>4, <2>6 DEF IInv, Facts
  <1>6. CASE Goto(c, "hungBelow") /\ UNCHANGED <<rows, asked, overlapped, unchecked>>
    <2>1. "hungBelow" \in Pcs /\ TypeOK
      BY DEF Pcs, IInv
    <2>2. PICK r \in Call : call' = [call EXCEPT ![c] = r] /\ r.pc = "hungBelow"
      BY <1>6, <2>1, GoesOn
    <2>3. CallOK(r)
      BY <2>2 DEF CallOK, Updates, HasRead, AfterRead
    <2>4. UNCHANGED observers /\ UNCHANGED tables
      BY <1>3, <1>6 DEF observers, tables
    <2>5. Facts'
      BY <1>3, <1>6, <2>2, <2>3, <2>4, QuietStep DEF HasRead, AfterRead, Commits
    <2>6. call' \in [Callers -> Call]
      BY <2>2 DEF IInv, TypeOK
    <2>7. TypeOK'
      BY <1>3, <2>4, <2>6, TypeKept DEF IInv, TypeOK
    <2> QED
      BY <2>5, <2>7 DEF IInv, Facts
  <1>7. CASE Return(c) /\ UNCHANGED <<rows, asked, overlapped, unchecked>>
    <2>1. UNCHANGED observers /\ UNCHANGED tables
      BY <1>3, <1>7 DEF observers, tables
    <2>2. Facts' /\ call' \in [Callers -> Call]
      BY <1>3, <1>7, <2>1, ReturnQuiet
    <2>3. TypeOK'
      BY <1>3, <2>1, <2>2, TypeKept DEF IInv, TypeOK
    <2> QED
      BY <2>2, <2>3 DEF IInv, Facts
  <1>8. ASSUME ~HasOpenChildren(i), Goto(c, "read"), unchecked' = unchecked \ {i}, UNCHANGED <<rows, asked, overlapped>>
        PROVE  IInv'
    <2>1. B = {}
      BY <1>4, <1>8 DEF HasOpenChildren
    <2>2. /\ rows' = [j \in Ids |-> IF j \in B THEN [rows[j] EXCEPT !.status = "closed"] ELSE rows[j]]
          /\ asked' = [j \in Ids |-> IF j \in B THEN [asked[j] EXCEPT !.status = "closed"] ELSE asked[j]]
      BY <1>8, <2>1 DEF IInv, TypeOK
    <2> QED
      BY <1>5, <1>8, <2>1, <2>2
  <1> QED
    BY <1>2, <1>4, <1>5, <1>6, <1>7, <1>8 DEF CheckChildren

\* What a commit does to the rows, for the update s of the row i to the row k.
LEMMA RowCommitted ==
    ASSUME IInv, NEW s \in Call, CallOK(s), HasRead(s), WriteOK(s), rows' = After(rows, s)
    PROVE  /\ rows' \in [Ids -> Row \cup {NoRow}] /\ rows'[s.newId] = New(s)
           /\ Renames(s) => rows'[s.id] = NoRow
           /\ \A j \in Ids : j # s.id /\ j # s.newId => rows'[j] = rows[j]
           /\ Present' = IF Renames(s) THEN (Present \ {s.id}) \cup {s.newId} ELSE Present
           /\ ParentInv'
  <1>1. s.id \in Ids /\ s.newId \in Ids /\ New(s) \in Row /\ New(s) # NoRow
    BY NewTyped, RowTyped
  <1>2. PICK Q \in [Ids -> Row \cup {NoRow}] : Q = After(rows, s)
    BY AfterTyped DEF IInv, TypeOK
  <1>3. /\ Q[s.newId] = New(s)
        /\ Renames(s) => Q[s.id] = NoRow
        /\ \A j \in Ids : j # s.id /\ j # s.newId => Q[j] = rows[j]
    BY <1>2, AfterTyped DEF IInv, TypeOK
  <1>4. rows' = Q
    BY <1>2
  <1>5. Present' = IF Renames(s) THEN (Present \ {s.id}) \cup {s.newId} ELSE Present
    <2>1. Present' = {j \in Ids : Q[j] # NoRow}
      BY <1>4 DEF Present, Exists
    <2>2. rows[s.id] # NoRow /\ Present = {j \in Ids : rows[j] # NoRow}
      BY DEF WriteOK, Present, Exists
    <2> QED
      BY <1>1, <1>3, <2>1, <2>2 DEF Renames
  <1>6. \A j \in Ids : Q[j].parent \in ({None} \cup Present') \ {j}
    <2> SUFFICES ASSUME NEW j \in Ids PROVE Q[j].parent \in ({None} \cup Present') \ {j}
      OBVIOUS
    <2>1. CASE j = s.newId
      BY <1>3, <1>5, <2>1 DEF WriteOK
    <2>2. CASE j # s.newId /\ j = s.id
      BY <1>3, <2>2, RowTyped, IdsTyped DEF Renames
    <2>3. CASE j # s.newId /\ j # s.id
      BY <1>3, <1>5, <2>3 DEF WriteOK, IInv, KeyInv, ParentInv
    <2> QED
      BY <2>1, <2>2, <2>3
  <1>7. ParentInv'
    BY <1>4, <1>6 DEF ParentInv
  <1> QED
    BY <1>2, <1>3, <1>4, <1>5, <1>6, <1>7

LEMMA CommitTicketInv ==
    ASSUME IInv, NEW c \in Callers, CommitTicket(c)
    PROVE  IInv'
  <1>1. PICK s : s = call[c]
    OBVIOUS
  <1>2. s \in Call /\ CallOK(s) /\ HasRead(s) /\ Commits(s) /\ WriteOK(s)
    BY <1>1 DEF CommitTicket, Step, IInv, TypeOK, KeyInv, CallInv, WriteInv, HasRead, AfterRead, Commits
  <1>3. /\ s.id \in Ids /\ s.newId \in Ids /\ s.change \in Change
        /\ New(s) \in Row /\ New(s) # NoRow /\ New(s).parent \in Ids \cup {None}
    BY <1>2, NewTyped, RowTyped
  <1>4. PICK r : r = NoCall
    OBVIOUS
  <1>5. r \in Call /\ CallOK(r) /\ ~Updates(r) /\ ~HasRead(r) /\ ~Commits(r) /\ ~WillClose(r) /\ r.pc # "insert"
    BY <1>4, CallTyped DEF Updates, HasRead, AfterRead, Commits, WillClose
  <1>6. /\ call' = [call EXCEPT ![c] = r] /\ call' \in [Callers -> Call]
        /\ call'[c] = r /\ \A d \in Callers : d # c => call'[d] = call[d]
    BY <1>4, <1>5 DEF CommitTicket, Return, IInv, TypeOK
  <1>7. rows' = After(rows, s)
    BY <1>1, <1>2, RowMoved DEF CommitTicket
  <1>8. /\ rows' \in [Ids -> Row \cup {NoRow}] /\ rows'[s.newId] = New(s)
        /\ Renames(s) => rows'[s.id] = NoRow
        /\ \A j \in Ids : j # s.id /\ j # s.newId => rows'[j] = rows[j]
        /\ Present' = IF Renames(s) THEN (Present \ {s.id}) \cup {s.newId} ELSE Present
        /\ ParentInv'
    BY <1>2, <1>7, RowCommitted
  <1>9. PICK old : old = With(asked[s.id], s.change)
    OBVIOUS
  <1>10. asked[s.id] \in Row /\ old \in Row
    <2>1. rows[s.id] # NoRow
      BY <1>2 DEF WriteOK, Exists
    <2>2. asked[s.id] \in Row
      BY <1>3, <2>1 DEF IInv, TypeOK, LostInv
    <2> QED
      BY <1>3, <1>9, <2>2, WithTyped
  <1>11. /\ asked' \in [Ids -> Row \cup {NoRow}] /\ asked'[s.newId] = old
         /\ Renames(s) => asked'[s.id] = NoRow
         /\ \A j \in Ids : j # s.id /\ j # s.newId => asked'[j] = asked[j]
    BY <1>1, <1>3, <1>9, <1>10 DEF CommitTicket, Moved, Renames, IInv, TypeOK
  <1>12. /\ overlapped \subseteq overlapped' /\ overlapped' \subseteq Ids
         /\ s.id \in overlapped => s.newId \in overlapped'
    BY <1>1, <1>3 DEF CommitTicket, IInv, TypeOK
  <1>13. /\ unchecked \subseteq unchecked' /\ unchecked' \subseteq Ids \cup {None}
         /\ New(s).status = "open" => New(s).parent \in unchecked'
    BY <1>1, <1>3 DEF CommitTicket, New, IInv, TypeOK
  <1>14. UNCHANGED <<blocks, meta, activities, comments, workflows, calls, tangled, spare>>
    BY DEF CommitTicket
  <1>15. KeyInv'
    <2>1. CallInv'
      BY <1>5, <1>6 DEF IInv, KeyInv, CallInv
    <2>2. WriteInv'
      <3> SUFFICES ASSUME NEW d \in Callers, Commits(call'[d]) PROVE WriteOK(call[d])'
        BY DEF WriteInv
      <3>1. d # c /\ call'[d] = call[d]
        BY <1>5, <1>6
      <3>2. PICK t \in Call : t = call[d] /\ t = call'[d]
        BY <3>1 DEF IInv, TypeOK
      <3>3. t.id \in Ids /\ t.newId \in Ids /\ WriteOK(t)
        BY <3>2 DEF IInv, KeyInv, WriteInv, CallInv, CallOK, Commits, Updates, AfterRead
      <3>4. PairOK(s, t) /\ PairOK(t, s)
        BY <1>1, <1>2, <3>1, <3>2 DEF IInv, KeyInv, PairInv
      <3>5. rows'[t.id] # NoRow
        BY <1>3, <1>8, <3>3, <3>4 DEF PairOK, WriteOK, Exists
      <3>6. New(t).parent \in ({None} \cup Present') \ {t.id, t.newId}
        BY <1>8, <3>3, <3>4 DEF PairOK, WriteOK
      <3>7. ASSUME Renames(t) PROVE rows'[t.newId] = NoRow /\ \A j \in Ids : rows'[j].parent # t.id
        <4>1. t.newId # s.newId
          BY <1>2, <3>3, <3>4, <3>7 DEF PairOK, WriteOK, Renames
        <4>2. rows'[t.newId] = NoRow
          BY <1>8, <3>3, <3>7, <4>1 DEF WriteOK, Exists, Renames
        <4>3. New(s).parent # t.id
          BY <3>4, <3>7 DEF PairOK
        <4>4. ASSUME NEW j \in Ids PROVE rows'[j].parent # t.id
          BY <1>8, <3>3, <3>7, <4>3, RowTyped, IdsTyped DEF WriteOK, Renames
        <4> QED
          BY <4>2, <4>4
      <3>8. WriteOK(t)'
        BY <3>5, <3>6, <3>7 DEF WriteOK, Exists
      <3> QED
        BY <3>2, <3>8 DEF WriteOK, Exists
    <2>3. PairInv'
      BY <1>5, <1>6 DEF IInv, KeyInv, PairInv
    <2> QED
      BY <1>8, <2>1, <2>2, <2>3 DEF KeyInv
  <1>16. EpicInv'
    <2>1. ASSUME NEW m \in Ids, ChildrenClosed(m) PROVE ChildrenClosed(m)'
      <3> SUFFICES ASSUME m \notin unchecked', NEW j \in Ids, rows'[j].parent = m PROVE rows'[j].status # "open"
        BY DEF ChildrenClosed
      <3>1. CASE j = s.newId
        BY <1>8, <1>13, <3>1
      <3>2. CASE j # s.newId /\ j = s.id
        BY <1>8, <3>2, RowTyped DEF Renames
      <3>3. CASE j # s.newId /\ j # s.id
        BY <1>8, <1>13, <2>1, <3>3 DEF ChildrenClosed
      <3> QED
        BY <3>1, <3>2, <3>3
    <2>2. ASSUME NEW m \in Ids, rows'[m].status = "closed" PROVE ChildrenClosed(m)'
      <3>1. CASE m = s.newId /\ Renames(s)
        <4>1. m \notin Present
          BY <1>2, <3>1 DEF WriteOK, Present
        <4>2. \A j \in Ids : rows[j].parent # m
          BY <4>1, IdsTyped DEF IInv, KeyInv, ParentInv
        <4>3. ChildrenClosed(m)
          BY <4>2 DEF ChildrenClosed
        <4> QED
          BY <2>1, <4>3
      <3>2. CASE m = s.newId /\ ~Renames(s)
        <4>1. WillClose(s) /\ s.id = m
          BY <1>2, <1>8, <2>2, <3>2 DEF WillClose, Renames
        <4>2. ChildrenClosed(m)
          BY <1>1, <4>1 DEF IInv, EpicInv
        <4> QED
          BY <2>1, <4>2
      <3>3. CASE m # s.newId
        <4>1. m # s.id /\ rows'[m] = rows[m]
          BY <1>8, <2>2, <3>3, RowTyped DEF Renames
        <4>2. ChildrenClosed(m)
          BY <2>2, <4>1 DEF IInv, EpicInv
        <4> QED
          BY <2>1, <4>2
      <3> QED
        BY <3>1, <3>2, <3>3
    <2>3. ASSUME NEW d \in Callers, d # c, WillClose(call[d]) PROVE ChildrenClosed(call[d].id)'
      <3>1. PICK k \in Ids : k = call[d].id
        BY <2>3 DEF IInv, KeyInv, CallInv, CallOK, WillClose, HasRead, Updates
      <3>2. ChildrenClosed(k)
        BY <2>3, <3>1 DEF IInv, EpicInv
      <3>3. ChildrenClosed(k)'
        BY <2>1, <3>2
      <3> QED
        BY <1>6, <2>3, <3>1, <3>3 DEF ChildrenClosed
    <2> QED
      BY <1>5, <1>6, <2>2, <2>3 DEF EpicInv, ChildrenClosed
  <1>17. CycleInv'
    <2> SUFFICES ASSUME ~tangled PROVE CycleInv'
      BY <1>14 DEF CycleInv
    <2>1. Acyclic(rows') /\ \A d \in Callers : Commits(call[d]) => d = c
      BY <1>1, <1>2, <1>7 DEF IInv, CycleInv
    <2>2. \A d \in Callers : ~Commits(call'[d])
      BY <1>5, <1>6, <2>1
    <2> QED
      BY <2>1, <2>2 DEF CycleInv
  <1>18. LostInv'
    <2>1. ASSUME NEW m \in Ids, m \notin overlapped' PROVE rows'[m] = asked'[m]
      <3>1. CASE m = s.newId
        <4>1. s.id \notin overlapped
          BY <1>12, <2>1, <3>1
        <4>2. s.seen = rows[s.id] /\ rows[s.id] = asked[s.id]
          BY <1>1, <1>2, <1>3, <4>1 DEF IInv, LostInv, ChangesKept
        <4>3. New(s) = old
          BY <1>9, <4>2 DEF New, Written
        <4> QED
          BY <1>8, <1>11, <3>1, <4>3
      <3>2. CASE m # s.newId /\ m = s.id
        BY <1>8, <1>11, <3>2 DEF Renames
      <3>3. CASE m # s.newId /\ m # s.id
        BY <1>8, <1>11, <1>12, <2>1, <3>3 DEF IInv, LostInv, ChangesKept
      <3> QED
        BY <3>1, <3>2, <3>3
    <2>2. \A m \in Ids : asked'[m] = NoRow <=> rows'[m] = NoRow
      <3> SUFFICES ASSUME NEW m \in Ids PROVE asked'[m] = NoRow <=> rows'[m] = NoRow
        OBVIOUS
      <3>1. CASE m = s.newId
        BY <1>3, <1>8, <1>10, <1>11, <3>1, RowTyped
      <3>2. CASE m # s.newId /\ m = s.id
        BY <1>8, <1>11, <3>2 DEF Renames
      <3>3. CASE m # s.newId /\ m # s.id
        BY <1>8, <1>11, <3>3 DEF IInv, LostInv
      <3> QED
        BY <3>1, <3>2, <3>3
    <2>3. ASSUME NEW d \in Callers, HasRead(call'[d]), call'[d].id \notin overlapped'
          PROVE  call'[d].seen = rows'[call'[d].id]
      <3>1. d # c /\ call'[d] = call[d]
        BY <1>5, <1>6, <2>3
      <3>2. PICK t \in Call : t = call[d]
        BY DEF IInv, TypeOK
      <3>3. HasRead(t) /\ t.id \in Ids /\ t.seen \in Row /\ t.id \notin overlapped
        BY <1>12, <2>3, <3>1, <3>2 DEF IInv, KeyInv, CallInv, CallOK, HasRead, Updates
      <3>4. t.seen = rows[t.id]
        BY <3>2, <3>3 DEF IInv, LostInv
      <3>5. t.id # s.id
        BY <1>1, <1>2, <3>1, <3>2, <3>3 DEF IInv, LostInv
      <3>6. t.id # s.newId
        BY <1>2, <3>3, <3>4, <3>5, RowTyped DEF WriteOK, Exists, Renames
      <3> QED
        BY <1>8, <3>1, <3>2, <3>3, <3>4, <3>5, <3>6
    <2>4. ASSUME NEW d \in Callers, NEW e \in Callers, d # e, HasRead(call'[d]), HasRead(call'[e]),
                 call'[d].id = call'[e].id
          PROVE  call'[d].id \in overlapped'
      BY <1>5, <1>6, <1>12, <2>4 DEF IInv, LostInv
    <2> QED
      BY <2>1, <2>2, <2>3, <2>4 DEF LostInv, ChangesKept
  <1>19. ActiveInv'
    BY <1>5, <1>6, <1>12, <1>14, ActiveKept
  <1>20. TypeOK'
    BY <1>6, <1>8, <1>11, <1>12, <1>13, <1>14 DEF IInv, TypeOK
  <1> QED
    BY <1>15, <1>16, <1>17, <1>18, <1>19, <1>20 DEF IInv

-----------------------------------------------------------------------------
(* The theorems. *)

\* Every step keeps the invariant.
LEMMA InvStep == IInv /\ [Next]_vars => IInv'
  <1> SUFFICES ASSUME IInv, [Next]_vars PROVE IInv'
    OBVIOUS
  <1>1. CASE UNCHANGED vars
    <2>1. UNCHANGED <<rows, blocks, meta, activities, comments, workflows, call, calls, asked, overlapped, unchecked, tangled, spare>>
      BY <1>1 DEF vars, tables, observers
    <2>2. TypeOK'
      BY <2>1 DEF IInv, TypeOK
    <2>3. KeyInv'
      BY <2>1 DEF IInv, KeyInv, CallInv, ParentInv, WriteInv, WriteOK, PairInv, Present, Exists
    <2>4. EpicInv' /\ CycleInv'
      BY <2>1 DEF IInv, EpicInv, ChildrenClosed, CycleInv
    <2>5. LostInv' /\ ActiveInv'
      BY <2>1 DEF IInv, LostInv, ChangesKept, ActiveInv, OneActiveWorkflow
    <2> QED
      BY <2>2, <2>3, <2>4, <2>5 DEF IInv
  <1>2. ASSUME NEW c \in Callers, Request(c) PROVE IInv'
    <2>1. PICK i \in Ids :
              \/ SetMeta(c, i) \/ DeleteMeta(c, i) \/ AddActivity(c, i) \/ InsertTicketComment(c, i) \/ CreateWorkflow(c, i)
              \/ CloseTicket(c, i) \/ RunHandler(c, i)
              \/ \E ch \in Requests : UpdateTicket(c, i, ch)
              \/ \E p \in Ids \cup {None} : CreateTicket(c, i, p)
              \/ \E j \in Ids : AddBlock(c, i, j) \/ RemoveBlock(c, i, j) \/ ImportRecords(c, i, j)
      BY <1>2 DEF Request
    <2>2. CASE SetMeta(c, i) \/ DeleteMeta(c, i) \/ AddActivity(c, i) \/ InsertTicketComment(c, i)
      BY <2>2, TableInv
    <2>3. CASE CreateWorkflow(c, i)
      BY <2>3, CreateWorkflowInv
    <2>4. CASE \E ch \in Requests : UpdateTicket(c, i, ch)
      BY <2>4, RequestAssumption, UpdateTicketInv
    <2>5. CASE \E p \in Ids \cup {None} : CreateTicket(c, i, p)
      BY <2>5, CreateTicketInv
    <2>6. CASE \E j \in Ids : AddBlock(c, i, j) \/ RemoveBlock(c, i, j) \/ ImportRecords(c, i, j)
      BY <2>6, TableInv, ImportRecordsInv
    <2>7. CASE CloseTicket(c, i) \/ RunHandler(c, i)
      BY <2>7, CloseTicketInv, RunHandlerInv
    <2> QED
      BY <2>1, <2>2, <2>3, <2>4, <2>5, <2>6, <2>7
  <1>3. ASSUME NEW c \in Callers, UpdateStep(c) PROVE IInv'
    <2>1. CASE CheckChildren(c)
      BY <2>1, CheckChildrenInv
    <2>2. CASE ReadTicket(c)
      BY <2>2, ReadTicketInv
    <2>3. CASE RekeyTicketId(c) \/ UpdateReferences(c) \/ UpdateMeta(c) \/ UpdateComments(c)
      BY <2>3, RekeyInv
    <2>4. CASE WriteTicket(c)
      BY <2>4, WriteTicketInv
    <2>5. CASE CommitTicket(c)
      BY <2>5, CommitTicketInv
    <2> QED
      BY <1>3, <2>1, <2>2, <2>3, <2>4, <2>5 DEF UpdateStep
  <1>4. ASSUME NEW c \in Callers, WorkflowStep(c) PROVE IInv'
    BY <1>4, CheckActiveInv, InsertWorkflowInv DEF WorkflowStep
  <1> QED
    BY <1>1, <1>2, <1>3, <1>4 DEF Next

\* The invariant, for any number of concurrent calls of the ticket service.
THEOREM InvCorrect == Spec => []IInv
  BY InvInit, InvStep, PTL DEF Spec

\* Every table and every call holds values of its kind.
THEOREM TypeCorrect == Spec => []TypeOK
  <1>1. IInv => TypeOK
    BY DEF IInv
  <1> QED
    BY <1>1, InvCorrect, PTL

\* No ticket is its own ancestor, unless two updates were uncommitted at a time:
\* a write that would close a cycle runs its trigger over the cycle and never
\* gets to its commit (update_ticket and the triggers of 001_initial.sql).
THEOREM ParentsAcyclicCorrect == Spec => []ParentsAcyclic
  <1>1. ASSUME IInv PROVE ParentsAcyclic
    <2> SUFFICES ASSUME ~tangled, NEW i \in Ids, NEW n \in 1..Cardinality(Ids)
                 PROVE  Ancestor(rows, i)[n] # i
      BY DEF ParentsAcyclic
    <2>1. rows \in [Ids -> Row \cup {NoRow}] /\ Acyclic(rows)
      BY <1>1 DEF IInv, TypeOK, CycleInv
    <2> QED
      BY <2>1, NoOwnAncestor
  <1> QED
    BY <1>1, InvCorrect, PTL

\* blocked_among's reverse search over the graph that build_graph makes returns
\* exactly the tickets that a path of edges from another open ticket reaches,
\* cycles of edges included.
THEOREM BlockedExactCorrect == Spec => []BlockedExact
  BY TypeCorrect, BlockedFacts, PTL

\* A ticket that was closed after epic_all_children_closed looked has no open
\* child, but one that was opened, created or put there since, or below a
\* ticket that its parent's close closed by force, or that a merge closed.
THEOREM EpicsCloseLastCorrect == Spec => []EpicsCloseLast
  <1>1. ASSUME IInv PROVE EpicsCloseLast
    <2> SUFFICES ASSUME NEW i \in Ids, Exists(i), ~Open(i), i \notin unchecked, NEW j \in Children(i)
                 PROVE  ~Open(j)
      BY DEF EpicsCloseLast
    <2>1. rows[i] \in Row
      BY <1>1 DEF IInv, TypeOK, Exists
    <2>2. rows[i].status = "closed"
      BY <2>1, RowTyped DEF Open
    <2>3. ChildrenClosed(i)
      BY <1>1, <2>2 DEF IInv, EpicInv
    <2> QED
      BY <2>3 DEF ChildrenClosed, Children, Open
  <1> QED
    BY <1>1, InvCorrect, PTL

\* An update that writes the whole row back loses no other's change, unless the
\* two overlapped on the ticket (update_ticket's read and its UPDATE).
THEOREM ChangesKeptCorrect == Spec => []ChangesKept
  <1>1. IInv => ChangesKept
    BY DEF IInv, LostInv
  <1> QED
    BY <1>1, InvCorrect, PTL

\* A ticket has at most one active workflow, unless two create_workflow calls
\* were between the look and the insert at a time, or a handler whose update of
\* the status failed inserted a row of its own.
THEOREM OneActiveWorkflowCorrect == Spec => []OneActiveWorkflow
  <1>1. IInv => OneActiveWorkflow
    BY DEF IInv, ActiveInv
  <1> QED
    BY <1>1, InvCorrect, PTL
=============================================================================
