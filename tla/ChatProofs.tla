----------------------------- MODULE ChatProofs -----------------------------
(***************************************************************************)
(* Theorems about Chat, for any number of tabs, sockets and messages.      *)
(***************************************************************************)
EXTENDS Chat, FiniteSetTheorems, SequenceTheorems, TLAPS

(* Lists of rows, frames and events                                        *)

In(q, x) == \E i \in DOMAIN q : q[i] = x
Single(rows) == \A i, j \in DOMAIN rows : rows[i].m = rows[j].m => i = j

LEMMA Appended ==
    ASSUME NEW S, NEW q \in Seq(S), NEW x \in S
    PROVE  /\ Append(q, x) \in Seq(S)
           /\ \A y : In(Append(q, x), y) <=> In(q, y) \/ y = x
<1>1. /\ Append(q, x) \in Seq(S) /\ Len(Append(q, x)) = Len(q) + 1
      /\ \A i \in 1 .. Len(q) : Append(q, x)[i] = q[i]
      /\ Append(q, x)[Len(q) + 1] = x
  BY AppendProperties
<1>2. /\ Len(q) \in Nat /\ DOMAIN q = 1 .. Len(q)
      /\ DOMAIN Append(q, x) = 1 .. Len(q) + 1
  BY <1>1, LenProperties
<1>3. 1 .. Len(q) + 1 = (1 .. Len(q)) \cup {Len(q) + 1}
  BY <1>2
<1> QED
  BY <1>1, <1>2, <1>3 DEF In

LEMMA Tailed ==
    ASSUME NEW S, NEW q \in Seq(S), q # <<>>
    PROVE  /\ Head(q) \in S /\ Tail(q) \in Seq(S) /\ In(q, Head(q))
           /\ \A y : In(q, y) <=> In(Tail(q), y) \/ y = Head(q)
<1>1. /\ Head(q) \in S /\ Tail(q) \in Seq(S) /\ Len(Tail(q)) = Len(q) - 1
      /\ \A i \in 1 .. Len(Tail(q)) : Tail(q)[i] = q[i + 1]
  BY HeadTailProperties
<1>2. Len(q) \in Nat \ {0} /\ DOMAIN q = 1 .. Len(q) /\ DOMAIN Tail(q) = 1 .. Len(q) - 1
  BY <1>1, LenProperties, EmptySeq
<1>3. Head(q) = q[1] /\ 1 \in DOMAIN q
  BY <1>2
<1>4. ASSUME NEW i \in DOMAIN q
      PROVE  i = 1 \/ (i - 1 \in DOMAIN Tail(q) /\ q[i] = Tail(q)[i - 1])
  BY <1>1, <1>2
<1>5. ASSUME NEW i \in DOMAIN Tail(q)
      PROVE  i + 1 \in DOMAIN q /\ q[i + 1] = Tail(q)[i]
  BY <1>1, <1>2
<1> QED
  BY <1>1, <1>3, <1>4, <1>5 DEF In

LEMMA Cut ==
    ASSUME NEW S, NEW q \in Seq(S), NEW n \in 0 .. Len(q)
    PROVE  /\ SubSeq(q, 1, n) \in Seq(S) /\ DOMAIN SubSeq(q, 1, n) = 1 .. n
           /\ \A i \in 1 .. n : i \in DOMAIN q /\ SubSeq(q, 1, n)[i] = q[i]
           /\ \A y : In(SubSeq(q, 1, n), y) => In(q, y)
<1>1. Len(q) \in Nat /\ DOMAIN q = 1 .. Len(q) /\ \A i \in 1 .. n : q[i] \in S
  BY LenProperties, ElementOfSeq
<1>2. /\ SubSeq(q, 1, n) \in Seq(S) /\ Len(SubSeq(q, 1, n)) = IF 1 <= n THEN n - 1 + 1 ELSE 0
      /\ \A i \in 1 .. n - 1 + 1 : SubSeq(q, 1, n)[i] = q[1 + i - 1]
  BY <1>1, SubSeqProperties
<1>3. DOMAIN SubSeq(q, 1, n) = 1 .. n
  BY <1>2, LenProperties
<1>4. \A i \in 1 .. n : i \in DOMAIN q /\ SubSeq(q, 1, n)[i] = q[i]
  BY <1>1, <1>2
<1> QED
  BY <1>2, <1>3, <1>4 DEF In

LEMMA Members ==
    ASSUME NEW S, NEW q \in Seq(S), NEW x, In(q, x)
    PROVE  x \in S
BY ElementOfSeq, LenProperties DEF In

LEMMA EmptyIn == \A y : ~In(<<>>, y)
BY DEF In

\* The places of a finite set are numbered from 1 without a gap.
LEMMA Numbers ==
    ASSUME NEW N \in Nat, NEW K \in SUBSET (1 .. N)
    PROVE  /\ Cardinality(K) \in Nat
           /\ \A n \in 1 .. Cardinality(K) : Nth(K, n) \in K /\ Place(K, Nth(K, n)) = n
           /\ \A i \in K : Place(K, i) \in 1 .. Cardinality(K) /\ Nth(K, Place(K, i)) = i
<1> DEFINE U(i) == {j \in K : j <= i}
           C == Cardinality(K)
           f == [i \in K |-> Place(K, i)]
<1>0. \A i \in K : i \in Nat
  OBVIOUS
<1>1. IsFiniteSet(K) /\ C \in Nat
  <2>1. IsFiniteSet(1 .. N)
    BY FS_Interval
  <2>2. IsFiniteSet(K)
    BY <2>1, FS_Subset
  <2> QED
    BY <2>2, FS_CardinalityType
<1>2. ASSUME NEW i \in K
      PROVE  IsFiniteSet(U(i)) /\ Place(K, i) \in 1 .. C
  <2>1. U(i) \in SUBSET K /\ i \in U(i)
    BY <1>0
  <2> HIDE DEF U
  <2>2. IsFiniteSet(U(i)) /\ Cardinality(U(i)) <= C /\ Cardinality(U(i)) \in Nat
    BY <1>1, <2>1, FS_Subset, FS_CardinalityType
  <2>3. Cardinality(U(i)) # 0
    BY <2>1, <2>2, FS_EmptySet
  <2> QED
    BY <1>1, <2>2, <2>3 DEF Place, U
<1>3. ASSUME NEW i \in K, NEW j \in K, i < j PROVE Place(K, i) # Place(K, j)
  <2>1. U(i) \in SUBSET U(j) /\ j \in U(j) /\ j \notin U(i)
    <3>1. i \in Nat /\ j \in Nat /\ \A k \in K : k <= i => k <= j
      BY <1>0, <1>3
    <3>2. ~(j <= i) /\ j <= j
      BY <1>3, <3>1
    <3> QED
      BY <3>1, <3>2
  <2>2. IsFiniteSet(U(j))
    BY <1>2
  <2> HIDE DEF U
  <2>3. Cardinality(U(i)) # Cardinality(U(j))
    BY <2>1, <2>2, FS_Subset
  <2> QED
    BY <2>3 DEF Place, U
<1>4. \A i, j \in K : Place(K, i) = Place(K, j) => i = j
  BY <1>0, <1>3
<1> HIDE DEF C
<1>5. f \in Injection(K, 1 .. C)
  BY <1>2, <1>4 DEF Injection, IsInjective
<1>6. IsFiniteSet(1 .. C) /\ Cardinality(1 .. C) = C
  BY <1>1, FS_Interval
<1>7. f \in Surjection(K, 1 .. C)
  <2> HIDE DEF f
  <2>1. Cardinality(K) = Cardinality(1 .. C)
    BY <1>6 DEF C
  <2> QED
    BY <1>5, <1>6, <2>1, FS_Injection
<1>8. \A n \in 1 .. C : \E i \in K : Place(K, i) = n
  BY <1>7 DEF Surjection
<1>9. ASSUME NEW n \in 1 .. C PROVE Nth(K, n) \in K /\ Place(K, Nth(K, n)) = n
  BY <1>8 DEF Nth
<1> QED
  BY <1>1, <1>2, <1>4, <1>9 DEF C

-----------------------------------------------------------------------------
(* What becomes of a thread                                                *)

LEMMA Rest ==
    ASSUME NEW rows \in Seq(Rows), NEW m, Single(rows)
    PROVE  /\ Dropped(rows, m) \in Seq(Rows) /\ Single(Dropped(rows, m))
           /\ \A x : In(Dropped(rows, m), x)
                        <=> In(rows, x) /\ (x.m # m \/ x.kind = "message")
<1> DEFINE N == Len(rows)
           K == Staying(rows, m)
           d == Dropped(rows, m)
<1>1. N \in Nat /\ DOMAIN rows = 1 .. N /\ \A i \in 1 .. N : rows[i] \in Rows
  BY LenProperties, ElementOfSeq
<1>2. K \in SUBSET (1 .. N)
  BY <1>1 DEF Staying
<1>3. /\ Cardinality(K) \in Nat
      /\ \A n \in 1 .. Cardinality(K) : Nth(K, n) \in K /\ Place(K, Nth(K, n)) = n
      /\ \A i \in K : Place(K, i) \in 1 .. Cardinality(K) /\ Nth(K, Place(K, i)) = i
  <2> HIDE DEF K, N
  <2> QED
    BY <1>1, <1>2, Numbers
<1>4. d = [n \in 1 .. Cardinality(K) |-> rows[Nth(K, n)]]
  BY DEF Dropped
<1> HIDE DEF d
<1>5. /\ DOMAIN d = 1 .. Cardinality(K)
      /\ \A n \in DOMAIN d : d[n] = rows[Nth(K, n)] /\ Nth(K, n) \in K
  BY <1>3, <1>4
<1>6. \A i \in K : i \in DOMAIN rows /\ (rows[i].m # m \/ rows[i].kind = "message")
  BY DEF Staying
<1>7. d \in Seq(Rows)
  <2>1. d \in [1 .. Cardinality(K) -> Rows]
    <3> HIDE DEF K, N
    <3> QED
      BY <1>1, <1>2, <1>3, <1>4
  <2> QED
    BY <1>3, <2>1, SeqDef
<1>8. ASSUME NEW a \in DOMAIN d, NEW b \in DOMAIN d, d[a].m = d[b].m PROVE a = b
  <2>1. Nth(K, a) = Nth(K, b)
    BY <1>5, <1>6, <1>8 DEF Single
  <2> QED
    BY <1>3, <1>5, <2>1
<1>9. ASSUME NEW x PROVE In(d, x) <=> In(rows, x) /\ (x.m # m \/ x.kind = "message")
  <2>1. In(d, x) => In(rows, x) /\ (x.m # m \/ x.kind = "message")
    BY <1>5, <1>6 DEF In
  <2>2. ASSUME NEW i \in DOMAIN rows, rows[i] = x, x.m # m \/ x.kind = "message"
        PROVE  In(d, x)
    <3>1. i \in K
      BY <2>2 DEF Staying
    <3>2. Place(K, i) \in DOMAIN d /\ d[Place(K, i)] = x
      BY <1>3, <1>5, <2>2, <3>1
    <3> QED
      BY <3>2 DEF In
  <2> QED
    BY <2>1, <2>2 DEF In
<1> QED
  BY <1>7, <1>8, <1>9 DEF d, Single

\* The rows at some places give way to another row of the same message.
Overwritten(rows, K, y) == [i \in DOMAIN rows |-> IF i \in K THEN y ELSE rows[i]]

LEMMA Overwriting ==
    ASSUME NEW rows \in Seq(Rows), NEW K, NEW y \in Rows, Single(rows),
           \A i \in K : i \in DOMAIN rows /\ rows[i].m = y.m
    PROVE  /\ Overwritten(rows, K, y) \in Seq(Rows) /\ Single(Overwritten(rows, K, y))
           /\ \A x : In(Overwritten(rows, K, y), x)
                        <=> (\E i \in DOMAIN rows \ K : rows[i] = x) \/ (x = y /\ K # {})
<1> DEFINE d == Overwritten(rows, K, y)
<1>1. /\ Len(rows) \in Nat /\ DOMAIN rows = 1 .. Len(rows)
      /\ \A i \in DOMAIN rows : rows[i] \in Rows
  BY LenProperties, ElementOfSeq
<1>2. /\ DOMAIN d = DOMAIN rows
      /\ \A i \in DOMAIN rows : d[i] = IF i \in K THEN y ELSE rows[i]
  BY DEF Overwritten
<1>3. d \in [1 .. Len(rows) -> Rows]
  BY <1>1 DEF Overwritten
<1>4. d \in Seq(Rows)
  <2> HIDE DEF d
  <2> QED
    BY <1>1, <1>3, SeqDef
<1> HIDE DEF d
<1>5. \A i \in DOMAIN rows : d[i].m = rows[i].m
  BY <1>2
<1>6. Single(d)
  BY <1>2, <1>5 DEF Single
<1>7. ASSUME NEW x
      PROVE  In(d, x) <=> (\E i \in DOMAIN rows \ K : rows[i] = x) \/ (x = y /\ K # {})
  BY <1>2 DEF In
<1> QED
  BY <1>4, <1>6, <1>7 DEF d

LEMMA Adding ==
    ASSUME NEW rows \in Seq(Rows), NEW y \in Rows, Single(rows),
           \A x : In(rows, x) => x.m # y.m
    PROVE  Single(Append(rows, y))
<1>1. /\ Len(rows) \in Nat /\ DOMAIN rows = 1 .. Len(rows)
      /\ DOMAIN Append(rows, y) = 1 .. Len(rows) + 1
      /\ \A i \in 1 .. Len(rows) : Append(rows, y)[i] = rows[i]
      /\ Append(rows, y)[Len(rows) + 1] = y
  BY AppendProperties, LenProperties
<1>2. \A i \in 1 .. Len(rows) : rows[i].m # y.m
  BY <1>1 DEF In
<1>3. \A i \in DOMAIN Append(rows, y) : i \in 1 .. Len(rows) \/ i = Len(rows) + 1
  BY <1>1
<1> QED
  BY <1>1, <1>2, <1>3 DEF Single

LEMMA RowIs ==
    ASSUME NEW m \in Messages, NEW kind \in {"pending", "failed", "message"}, NEW text \in Texts
    PROVE  /\ Row(m, kind, text) \in Rows /\ Row(m, kind, text).m = m
           /\ Row(m, kind, text).kind = kind /\ Row(m, kind, text).text = text
BY DEF Row, Rows

LEMMA HasRow ==
    ASSUME NEW rows, NEW m
    PROVE  Has(rows, m) <=> \E x : In(rows, x) /\ x.m = m /\ x.kind = "message"
BY DEF Has, In

LEMMA Merging ==
    ASSUME NEW rows \in Seq(Rows), NEW e \in Events, Single(rows)
    PROVE  LET y == Row(e.m, "message", e.text)
               after == Merge(rows, e)
           IN  /\ after \in Seq(Rows) /\ Single(after)
               /\ e.type = "new" /\ Has(rows, e.m) => after = rows
               /\ e.type = "new" /\ ~Has(rows, e.m) =>
                      \A x : In(after, x) <=> (In(rows, x) /\ x.m # e.m) \/ x = y
               /\ e.type = "changed" =>
                      \A x : In(after, x) <=> \/ In(rows, x) /\ ~(x.m = e.m /\ x.kind = "message")
                                              \/ x = y /\ Has(rows, e.m)
<1> DEFINE y == Row(e.m, "message", e.text)
           after == Merge(rows, e)
<1>1. e.m \in Messages /\ e.text \in Texts /\ e.type \in {"new", "changed"}
  BY DEF Events
<1>2. y \in Rows /\ y.m = e.m /\ y.kind = "message"
  BY <1>1, RowIs
<1>3. CASE e.type = "new" /\ Has(rows, e.m)
  <2>1. after = rows
    BY <1>3 DEF Merge
  <2> QED
    BY <1>3, <2>1
<1>4. CASE e.type = "new" /\ ~Has(rows, e.m)
  <2> DEFINE d == Dropped(rows, e.m)
  <2>1. after = Append(d, y)
    BY <1>4 DEF Merge
  <2> HIDE DEF y, after
  <2>2. /\ d \in Seq(Rows) /\ Single(d)
        /\ \A x : In(d, x) <=> In(rows, x) /\ (x.m # e.m \/ x.kind = "message")
    BY <1>1, Rest
  <2>3. \A x : In(d, x) <=> In(rows, x) /\ x.m # e.m
    BY <1>4, <2>2, HasRow
  <2> HIDE DEF d
  <2>4. Single(after)
    BY <1>2, <2>1, <2>2, <2>3, Adding
  <2>5. after \in Seq(Rows) /\ \A x : In(after, x) <=> In(d, x) \/ x = y
    BY <1>2, <2>1, <2>2, Appended
  <2> QED
    BY <1>4, <2>3, <2>4, <2>5 DEF y, after
<1>5. CASE e.type = "changed"
  <2> DEFINE K == {i \in DOMAIN rows : rows[i].m = e.m /\ rows[i].kind = "message"}
  <2>1. after = Overwritten(rows, K, y)
    BY <1>5 DEF Merge, Overwritten
  <2>2. \A i \in K : i \in DOMAIN rows /\ rows[i].m = y.m
    BY <1>2
  <2>3. /\ K # {} <=> Has(rows, e.m)
        /\ \A x : (\E i \in DOMAIN rows \ K : rows[i] = x)
                     <=> In(rows, x) /\ ~(x.m = e.m /\ x.kind = "message")
    BY DEF Has, In
  <2> HIDE DEF K, y, after
  <2>4. /\ after \in Seq(Rows) /\ Single(after)
        /\ \A x : In(after, x) <=> (\E i \in DOMAIN rows \ K : rows[i] = x) \/ (x = y /\ K # {})
    BY <1>2, <2>1, <2>2, Overwriting
  <2> QED
    BY <1>5, <2>3, <2>4 DEF y, after
<1> QED
  BY <1>1, <1>3, <1>4, <1>5

LEMMA Settling ==
    ASSUME NEW rows \in Seq(Rows), NEW m \in Messages, NEW ok \in BOOLEAN, Single(rows)
    PROVE  LET after == Settled(rows, m, ok)
           IN  /\ after \in Seq(Rows) /\ Single(after)
               /\ ~ok => \A x : In(after, x) =>
                      \/ In(rows, x) /\ ~(x.m = m /\ x.kind = "pending")
                      \/ x = Row(m, "failed", "first") /\ \E z : In(rows, z) /\ z.m = m /\ z.kind = "pending"
               /\ ok /\ Has(rows, m) => \A x : In(after, x)
                      <=> In(rows, x) /\ (x.m # m \/ x.kind = "message")
               /\ ok /\ ~Has(rows, m) => \A x : In(after, x)
                      <=> \/ In(rows, x) /\ x.m # m
                          \/ x = Row(m, "message", "first") /\ \E z : In(rows, z) /\ z.m = m
<1> DEFINE after == Settled(rows, m, ok)
<1>1. CASE ~ok
  <2> DEFINE K == {i \in DOMAIN rows : rows[i].m = m /\ rows[i].kind = "pending"}
             y == Row(m, "failed", "first")
  <2>1. after = Overwritten(rows, K, y)
    BY <1>1 DEF Settled, Overwritten
  <2>2. y \in Rows /\ y.m = m /\ \A i \in K : i \in DOMAIN rows /\ rows[i].m = y.m
    BY RowIs DEF Texts
  <2>3. /\ K # {} => \E z : In(rows, z) /\ z.m = m /\ z.kind = "pending"
        /\ \A x : (\E i \in DOMAIN rows \ K : rows[i] = x)
                     => In(rows, x) /\ ~(x.m = m /\ x.kind = "pending")
    BY DEF In
  <2> HIDE DEF K, y, after
  <2>4. /\ after \in Seq(Rows) /\ Single(after)
        /\ \A x : In(after, x) <=> (\E i \in DOMAIN rows \ K : rows[i] = x) \/ (x = y /\ K # {})
    BY <2>1, <2>2, Overwriting
  <2> QED
    BY <1>1, <2>3, <2>4 DEF y, after
<1>2. CASE ok /\ Has(rows, m)
  <2>1. after = Dropped(rows, m)
    BY <1>2 DEF Settled
  <2> QED
    BY <1>2, <2>1, Rest
<1>3. CASE ok /\ ~Has(rows, m)
  <2> DEFINE K == {i \in DOMAIN rows : rows[i].m = m}
             y == Row(m, "message", "first")
  <2>1. after = Overwritten(rows, K, y)
    BY <1>3 DEF Settled, Overwritten
  <2>2. y \in Rows /\ y.m = m /\ \A i \in K : i \in DOMAIN rows /\ rows[i].m = y.m
    BY RowIs DEF Texts
  <2>3. /\ K # {} <=> \E z : In(rows, z) /\ z.m = m
        /\ \A x : (\E i \in DOMAIN rows \ K : rows[i] = x) <=> In(rows, x) /\ x.m # m
    BY DEF In
  <2> HIDE DEF K, y, after
  <2>4. /\ after \in Seq(Rows) /\ Single(after)
        /\ \A x : In(after, x) <=> (\E i \in DOMAIN rows \ K : rows[i] = x) \/ (x = y /\ K # {})
    BY <2>1, <2>2, Overwriting
  <2> QED
    BY <1>3, <2>3, <2>4 DEF y, after
<1> QED
  BY <1>1, <1>2, <1>3

-----------------------------------------------------------------------------
(* Who writes what                                                         *)

Stores == \/ UNCHANGED <<db, stored>>
          \/ \E s \in Sockets : TakeSend(s) \/ Save(s)
          \/ \E m \in Messages : PostStore(m)
Origins == UNCHANGED from \/ \E s \in Sockets, m \in Messages : Send(s, m)
Lines == \/ UNCHANGED line
         \/ \E s \in Sockets, m \in Messages :
               Send(s, m) \/ Change(s, m, "edit") \/ Change(s, m, "delete")
         \/ \E s \in Sockets : TakeSend(s) \/ TakeChange(s) \/ Drop(s)
Posts == \/ UNCHANGED <<post, waiting>>
         \/ \E s \in Sockets, m \in Messages : Send(s, m)
         \/ \E m \in Messages : PostStore(m) \/ PostAnnounce(m) \/ PostSettles(m) \/ PostFails(m)
Threads == \/ UNCHANGED <<thread, loaded>>
           \/ \E s \in Sockets, m \in Messages : Send(s, m)
           \/ \E s \in Sockets : Deliver(s)
           \/ \E t \in Tabs : HistoryArrives(t)
           \/ \E m \in Messages : PostSettles(m) \/ PostFails(m)
Answers == UNCHANGED answer \/ \E t \in Tabs : HistoryAnswers(t) \/ HistoryArrives(t)
Hands == UNCHANGED hand \/ \E s \in Sockets : TakeSend(s) \/ TakeChange(s) \/ Save(s) \/ Tell(s)
Boxes == \/ UNCHANGED inbox
         \/ \E t \in Tabs : Leave(t)
         \/ \E s \in Sockets : Tell(s) \/ Deliver(s) \/ Drop(s)
         \/ \E m \in Messages : PostAnnounce(m)
Links == \/ UNCHANGED <<up, stranded>>
         \/ \E t \in Tabs : Leave(t)
         \/ \E s \in Sockets : Drop(s) \/ Connect(s)
Tellings == \/ UNCHANGED <<told, crossed>>
            \/ \E s \in Sockets : Tell(s) \/ Save(s)
            \/ \E m \in Messages : PostAnnounce(m)
Views == \/ UNCHANGED <<history, gap>>
         \/ \E t \in Tabs : OpenWidget(t) \/ Expand(t) \/ Pick(t) \/ Leave(t)
                            \/ HistoryAnswers(t) \/ HistoryArrives(t)
         \/ \E s \in Sockets : Deliver(s) \/ Drop(s)
         \/ \E m \in Messages : PostFails(m)
Everything == /\ Stores /\ Origins /\ Lines /\ Posts /\ Threads
              /\ Answers /\ Hands /\ Boxes /\ Links /\ Tellings /\ Views

LEMMA Writers == ASSUME [Next]_vars PROVE Everything
<1> USE DEF tabVars, serverVars, wires, calls, presses, ghosts, Everything, Stores, Origins,
            Lines, Posts, Threads, Answers, Hands, Boxes, Links, Tellings, Views
<1>1. CASE UNCHANGED vars
  BY <1>1 DEF vars
<1>2. ASSUME NEW s \in Sockets, NEW m \in Messages, Send(s, m) PROVE Everything
  BY <1>2 DEF Send
<1>3. ASSUME NEW s \in Sockets, NEW m \in Messages,
             Change(s, m, "edit") \/ Change(s, m, "delete") PROVE Everything
  BY <1>3 DEF Change
<1>4. ASSUME NEW s \in Sockets,
             TakeSend(s) \/ TakeChange(s) \/ Save(s) \/ Tell(s) \/ Deliver(s) \/ Drop(s) \/ Connect(s)
      PROVE  Everything
  <2>1. CASE TakeSend(s)
    BY <2>1 DEF TakeSend
  <2>2. CASE TakeChange(s)
    BY <2>2 DEF TakeChange
  <2>3. CASE Save(s)
    BY <2>3 DEF Save
  <2>4. CASE Tell(s)
    BY <2>4 DEF Tell
  <2>5. CASE Deliver(s)
    BY <2>5 DEF Deliver
  <2>6. CASE Drop(s)
    BY <2>6 DEF Drop
  <2>7. CASE Connect(s)
    BY <2>7 DEF Connect
  <2> QED
    BY <1>4, <2>1, <2>2, <2>3, <2>4, <2>5, <2>6, <2>7
<1>5. ASSUME NEW t \in Tabs, On(t) PROVE Everything
  <2>1. CASE OpenWidget(t)
    BY <2>1 DEF OpenWidget
  <2>2. CASE Expand(t)
    BY <2>2 DEF Expand
  <2>3. CASE Browse(t)
    BY <2>3 DEF Browse
  <2>4. CASE Pick(t)
    BY <2>4 DEF Pick
  <2>5. CASE Leave(t)
    BY <2>5 DEF Leave
  <2>6. CASE HistoryAnswers(t)
    BY <2>6 DEF HistoryAnswers
  <2>7. CASE HistoryArrives(t)
    BY <2>7 DEF HistoryArrives
  <2> QED
    BY <1>5, <2>1, <2>2, <2>3, <2>4, <2>5, <2>6, <2>7 DEF On
<1>6. ASSUME NEW m \in Messages,
             PostStore(m) \/ PostAnnounce(m) \/ PostSettles(m) \/ PostFails(m)
      PROVE  Everything
  <2>1. CASE PostStore(m)
    BY <2>1 DEF PostStore
  <2>2. CASE PostAnnounce(m)
    BY <2>2 DEF PostAnnounce
  <2>3. CASE PostSettles(m)
    BY <2>3 DEF PostSettles
  <2>4. CASE PostFails(m)
    BY <2>4 DEF PostFails
  <2> QED
    BY <1>6, <2>1, <2>2, <2>3, <2>4
<1> HIDE DEF Everything
<1> QED
  BY <1>1, <1>2, <1>3, <1>4, <1>5, <1>6 DEF Next, At

-----------------------------------------------------------------------------
(* A message is stored once                                                *)

Sends(s, m) == In(line[s], Frame("send", m))
Once(q) == \A i, j \in DOMAIN q : q[i] = q[j] /\ q[i].do = "send" => i = j

\* A frame or a call that will store a message is the only one, and the message is
\* not stored; who waits for a call has one that has stored it or still may.
Born ==
    /\ \A m \in Messages : from[m] = NoTab => post[m] = Quiet /\ ~IsStored(m)
    /\ \A s \in Sockets, m \in Messages :
          Sends(s, m) => from[m] = TabOf(s) /\ post[m] = Quiet /\ ~IsStored(m)
    /\ \A s, r \in Sockets, m \in Messages : Sends(s, m) /\ Sends(r, m) => s = r
    /\ \A s \in Sockets : Once(line[s])
    /\ \A m \in Messages :
          /\ post[m] = "sent" => ~IsStored(m)
          /\ post[m] = "stored" => IsStored(m)
          /\ m \in waiting => post[m] # Quiet /\ (post[m] = "answered" => IsStored(m))

\* The stored messages are numbered in the order they were stored.
Numbered ==
    /\ \A m \in Messages : (IsStored(m) <=> db[m].at # 0) /\ db[m].at <= stored
    /\ \A i \in 1 .. stored : \E m \in Messages : db[m].at = i
    /\ \A m, n \in Messages : IsStored(m) /\ db[m].at = db[n].at => m = n

\* Placeholders are shown where they were sent from, and nothing else is shown or
\* announced but what is stored.
Shown ==
    /\ \A t \in Tabs : \A x : In(thread[t], x) =>
          IF x.kind = "message" THEN IsStored(x.m) ELSE from[x.m] = t
    /\ \A t \in Tabs : \A x : In(answer[t], x) => x.kind = "message" /\ IsStored(x.m)
    /\ \A s \in Sockets : hand[s] # Idle => IsStored(hand[s].m)
    /\ \A s \in Sockets : \A e : In(inbox[s], e) => IsStored(e.m)
    /\ \A t \in Tabs \ loaded : thread[t] = <<>>

Lone == \A t \in Tabs : Single(thread[t]) /\ Single(answer[t])
Base == TypeOK /\ Numbered /\ Born /\ Shown /\ Lone

LEMMA Creating ==
    ASSUME TypeOK, NEW m \in Messages, Create(m)
    PROVE  /\ db' \in [Messages -> Records] /\ stored' = stored + 1
           /\ \A n \in Messages : n # m => db'[n] = db[n]
           /\ db'[m].ver = 1 /\ db'[m].at = stored + 1
           /\ db'[m].text = "first" /\ db'[m].gone = FALSE
<1> DEFINE x == [ver |-> 1, at |-> stored + 1, text |-> "first", gone |-> FALSE]
<1>1. x \in Records /\ x.ver = 1 /\ x.at = stored + 1 /\ x.text = "first" /\ x.gone = FALSE
  BY DEF TypeOK, Records, Texts
<1>2. db' = [db EXCEPT ![m] = x] /\ stored' = stored + 1 /\ db \in [Messages -> Records]
  BY DEF Create, TypeOK
<1> HIDE DEF x
<1> QED
  BY <1>1, <1>2

LEMMA EventIs ==
    ASSUME NEW type \in {"edit", "delete", "new", "changed"}, NEW m \in Messages,
           NEW text \in Texts, NEW ver \in Nat
    PROVE  LET e == Event(type, m, text, ver)
           IN  /\ e.type = type /\ e.m = m /\ e.text = text /\ e.ver = ver
               /\ e \in Jobs /\ e # Idle
               /\ type \in {"new", "changed"} => e \in Events
BY DEF Event, Jobs, Events, Idle

LEMMA IdleIs == Idle.type = "idle" /\ Idle.m = Nothing /\ Idle \notin Jobs /\ Idle \notin Events
BY DEF Idle, Event, Jobs, Events

\* What a consumer has done when it has taken a frame.
LEMMA Taking ==
    ASSUME TypeOK, NEW s \in Sockets, Takes(s)
    PROVE  /\ Head(line[s]) \in Frames /\ Head(line[s]).m \in Messages
           /\ line' \in [Sockets -> Seq(Frames)] /\ line'[s] = Tail(line[s])
           /\ \A r \in Sockets : r # s => line'[r] = line[r]
           /\ \A f : In(line[s], f) <=> In(line'[s], f) \/ f = Head(line[s])
<1>1. line[s] \in Seq(Frames) /\ line[s] # <<>> /\ line' = [line EXCEPT ![s] = Tail(line[s])]
      /\ line \in [Sockets -> Seq(Frames)]
  BY DEF Takes, TypeOK
<1>2. /\ Head(line[s]) \in Frames /\ Tail(line[s]) \in Seq(Frames)
      /\ \A f : In(line[s], f) <=> In(Tail(line[s]), f) \/ f = Head(line[s])
  BY <1>1, Tailed
<1>3. Head(line[s]).m \in Messages
  BY <1>2 DEF Frames
<1> QED
  BY <1>1, <1>2, <1>3

LEMMA TakingSend ==
    ASSUME TypeOK, NEW s \in Sockets, TakeSend(s)
    PROVE  LET m == Head(line[s]).m
               e == Event("new", m, "first", 1)
           IN  /\ Takes(s) /\ m \in Messages /\ Head(line[s]) = Frame("send", m) /\ Create(m)
               /\ Sends(s, m)
               /\ hand[s] = Idle /\ hand' \in [Sockets -> Jobs \cup {Idle}] /\ hand'[s] = e
               /\ \A r \in Sockets : r # s => hand'[r] = hand[r]
<1> DEFINE m == Head(line[s]).m
           e == Event("new", m, "first", 1)
<1>1. Takes(s)
  BY DEF TakeSend
<1>2. Head(line[s]) \in Frames /\ m \in Messages /\ Head(line[s]).do = "send"
  BY <1>1, Taking DEF TakeSend
<1>3. Head(line[s]) = Frame("send", m)
  BY <1>2 DEF Frames, Frame
<1>4. Sends(s, m)
  BY <1>1, <1>3, Taking DEF Sends
<1>5. e \in Jobs
  BY <1>2, EventIs DEF Texts
<1>6. Create(m) /\ hand[s] = Idle /\ hand' = [hand EXCEPT ![s] = e]
  BY DEF TakeSend, Takes
<1>7. hand \in [Sockets -> Jobs \cup {Idle}]
  BY DEF TypeOK
<1> HIDE DEF e, m
<1> QED
  BY <1>1, <1>2, <1>3, <1>4, <1>5, <1>6, <1>7 DEF e, m

LEMMA Saving ==
    ASSUME TypeOK, NEW s \in Sockets, Save(s)
    PROVE  LET m == hand[s].m IN
           /\ m \in Messages /\ hand[s].type \in {"edit", "delete"} /\ hand[s] \in Jobs
           /\ db' \in [Messages -> Records] /\ stored' = stored
           /\ \A n \in Messages : n # m => db'[n] = db[n]
           /\ db'[m].ver = db[m].ver + 1 /\ db'[m].at = db[m].at
           /\ hand[s].type = "edit" => db'[m].text = "edited" /\ db'[m].gone = db[m].gone
           /\ hand[s].type = "delete" => db'[m].text = "none" /\ db'[m].gone = TRUE
           /\ hand' \in [Sockets -> Jobs \cup {Idle}]
           /\ hand'[s] = Event("changed", m, db'[m].text, db'[m].ver) /\ hand'[s] \in Jobs
           /\ \A r \in Sockets : r # s => hand'[r] = hand[r]
<1> DEFINE m == hand[s].m
           saved(text, gone) ==
               [ver |-> db[m].ver + 1, at |-> db[m].at, text |-> text, gone |-> gone]
           x == IF hand[s].type = "edit" THEN saved("edited", db[m].gone) ELSE saved("none", TRUE)
           e == Event("changed", m, x.text, x.ver)
<1>1. hand[s].type \in {"edit", "delete"} /\ hand[s] \in Jobs \cup {Idle}
  BY DEF Save, TypeOK
<1>2. hand[s] \in Jobs /\ m \in Messages
  BY <1>1, IdleIs DEF Jobs
<1>3. db \in [Messages -> Records] /\ db[m] \in Records /\ hand \in [Sockets -> Jobs \cup {Idle}]
  BY <1>2 DEF TypeOK
<1>4. /\ x \in Records /\ x.ver = db[m].ver + 1 /\ x.at = db[m].at
      /\ hand[s].type = "edit" => x.text = "edited" /\ x.gone = db[m].gone
      /\ hand[s].type = "delete" => x.text = "none" /\ x.gone = TRUE
  <2>1. CASE hand[s].type = "edit"
    BY <1>3, <2>1 DEF Records, Texts
  <2>2. CASE hand[s].type = "delete"
    BY <1>3, <2>2 DEF Records, Texts
  <2> QED
    BY <1>1, <2>1, <2>2
<1>5. db' = [db EXCEPT ![m] = x] /\ hand' = [hand EXCEPT ![s] = e] /\ stored' = stored
  BY <1>1, <1>3 DEF Save, Records
<1>6. e \in Jobs
  <2>1. x.text \in Texts /\ x.ver \in Nat
    BY <1>4 DEF Records
  <2> QED
    BY <1>2, <2>1, EventIs
<1> HIDE DEF x, e, m
<1> QED
  BY <1>1, <1>2, <1>3, <1>4, <1>5, <1>6 DEF e, m

LEMMA StoredGrows ==
    ASSUME Base, [Next]_vars
    PROVE  /\ db' \in [Messages -> Records] /\ stored' \in Nat /\ Numbered'
           /\ \A n \in Messages : IsStored(n) => IsStored(n)'
           /\ \A n \in Messages : IsStored(n)' =>
                 \/ IsStored(n)
                 \/ \E s \in Sockets : TakeSend(s) /\ n = Head(line[s]).m
                 \/ PostStore(n)
<1> DEFINE New(n) == (\E s \in Sockets : TakeSend(s) /\ n = Head(line[s]).m) \/ PostStore(n)
<1>0. /\ TypeOK /\ Numbered /\ db \in [Messages -> Records] /\ stored \in Nat
      /\ \A n \in Messages : db[n].ver \in Nat /\ db[n].at \in Nat
  BY DEF Base, TypeOK, Records
<1>1. CASE UNCHANGED <<db, stored>>
  BY <1>0, <1>1 DEF Numbered, IsStored
<1>2. ASSUME NEW m \in Messages, Create(m), ~IsStored(m), New(m)
      PROVE  /\ db' \in [Messages -> Records] /\ stored' \in Nat /\ Numbered'
             /\ \A n \in Messages : IsStored(n) => IsStored(n)'
             /\ \A n \in Messages : IsStored(n)' => IsStored(n) \/ New(n)
  <2>1. /\ db' \in [Messages -> Records] /\ stored' = stored + 1
        /\ \A n \in Messages : n # m => db'[n] = db[n]
        /\ db'[m].ver = 1 /\ db'[m].at = stored + 1
    BY <1>0, <1>2, Creating
  <2>2. \A n \in Messages : IsStored(n)' <=> IsStored(n) \/ n = m
    BY <2>1 DEF IsStored
  <2>3. \A n \in Messages : (IsStored(n)' <=> db'[n].at # 0) /\ db'[n].at <= stored'
    BY <1>0, <2>1, <2>2 DEF Numbered
  <2>4. ASSUME NEW i \in 1 .. stored' PROVE \E n \in Messages : db'[n].at = i
    <3>1. CASE i = stored + 1
      BY <2>1, <3>1
    <3>2. CASE i \in 1 .. stored
      <4>1. PICK n \in Messages : db[n].at = i
        BY <3>2 DEF Base, Numbered
      <4>2. n # m
        BY <1>0, <1>2, <3>2, <4>1 DEF Numbered
      <4> QED
        BY <2>1, <4>1, <4>2
    <3> QED
      BY <1>0, <2>1, <3>1, <3>2
  <2>5. ASSUME NEW a \in Messages, NEW b \in Messages, IsStored(a)', db'[a].at = db'[b].at
        PROVE  a = b
    BY <1>0, <2>1, <2>2, <2>5 DEF Numbered
  <2> QED
    BY <1>0, <1>2, <2>1, <2>2, <2>3, <2>4, <2>5 DEF Numbered
<1>3. ASSUME NEW s \in Sockets, TakeSend(s)
      PROVE  \E m \in Messages : Create(m) /\ ~IsStored(m) /\ New(m)
  BY <1>0, <1>3, TakingSend DEF Base, Born
<1>4. ASSUME NEW m \in Messages, PostStore(m)
      PROVE  Create(m) /\ ~IsStored(m) /\ New(m)
  BY <1>4 DEF PostStore, Base, Born
<1>5. ASSUME NEW s \in Sockets, Save(s)
      PROVE  /\ db' \in [Messages -> Records] /\ stored' \in Nat /\ Numbered'
             /\ \A n \in Messages : IsStored(n) <=> IsStored(n)'
  <2> DEFINE m == hand[s].m
  <2>1. /\ m \in Messages /\ hand[s].type \in {"edit", "delete"}
        /\ db' \in [Messages -> Records] /\ stored' = stored
        /\ \A n \in Messages : n # m => db'[n] = db[n]
        /\ db'[m].ver = db[m].ver + 1 /\ db'[m].at = db[m].at
    BY <1>0, <1>5, Saving
  <2>2. IsStored(m)
    BY <2>1, IdleIs DEF Base, Shown
  <2>3. \A n \in Messages : (IsStored(n) <=> IsStored(n)') /\ db'[n].at = db[n].at
    BY <1>0, <2>1, <2>2 DEF IsStored
  <2> QED
    BY <1>0, <1>5, <2>1, <2>3 DEF Numbered
<1> HIDE DEF New
<1>6. \/ \E m \in Messages : Create(m) /\ ~IsStored(m) /\ New(m)
      \/ \E s \in Sockets : Save(s)
      \/ UNCHANGED <<db, stored>>
  BY <1>3, <1>4, Writers DEF Everything, Stores
<1>7. /\ db' \in [Messages -> Records] /\ stored' \in Nat /\ Numbered'
      /\ \A n \in Messages : IsStored(n) => IsStored(n)'
      /\ \A n \in Messages : IsStored(n)' => IsStored(n) \/ New(n)
  BY <1>0, <1>1, <1>2, <1>5, <1>6 DEF IsStored
<1> QED
  BY <1>7 DEF New

LEMMA OnceMore ==
    ASSUME NEW q \in Seq(Frames), NEW f \in Frames, Once(q), f.do = "send" => ~In(q, f)
    PROVE  Once(Append(q, f))
<1>1. /\ Len(q) \in Nat /\ DOMAIN q = 1 .. Len(q)
      /\ DOMAIN Append(q, f) = 1 .. Len(q) + 1
      /\ \A i \in 1 .. Len(q) : Append(q, f)[i] = q[i]
      /\ Append(q, f)[Len(q) + 1] = f
  BY AppendProperties, LenProperties
<1>2. \A i \in DOMAIN Append(q, f) : i \in 1 .. Len(q) \/ i = Len(q) + 1
  BY <1>1
<1>3. f.do = "send" => \A i \in 1 .. Len(q) : q[i] # f
  BY <1>1 DEF In
<1> QED
  BY <1>1, <1>2, <1>3 DEF Once

LEMMA OnceLess ==
    ASSUME NEW q \in Seq(Frames), q # <<>>, Once(q)
    PROVE  Once(Tail(q)) /\ (Head(q).do = "send" => ~In(Tail(q), Head(q)))
<1>1. /\ Len(Tail(q)) = Len(q) - 1 /\ Tail(q) \in Seq(Frames)
      /\ \A i \in 1 .. Len(Tail(q)) : Tail(q)[i] = q[i + 1]
  BY HeadTailProperties
<1>2. Len(q) \in Nat \ {0} /\ DOMAIN q = 1 .. Len(q) /\ DOMAIN Tail(q) = 1 .. Len(q) - 1
  BY <1>1, LenProperties, EmptySeq
<1>3. Head(q) = q[1] /\ 1 \in DOMAIN q
  BY <1>2
<1>4. ASSUME NEW i \in DOMAIN Tail(q)
      PROVE  i + 1 \in DOMAIN q /\ q[i + 1] = Tail(q)[i] /\ i + 1 # 1 /\ i \in Nat
  BY <1>1, <1>2
<1>5. ASSUME NEW i \in DOMAIN Tail(q), NEW j \in DOMAIN Tail(q),
             Tail(q)[i] = Tail(q)[j], Tail(q)[i].do = "send"
      PROVE  i = j
  <2>1. i + 1 = j + 1
    BY <1>4, <1>5 DEF Once
  <2> QED
    BY <1>4, <2>1
<1>6. ASSUME Head(q).do = "send", NEW i \in DOMAIN Tail(q), Tail(q)[i] = Head(q)
      PROVE  FALSE
  BY <1>3, <1>4, <1>6 DEF Once
<1> QED
  BY <1>5, <1>6 DEF Once, In

LEMMA OnceCut ==
    ASSUME NEW q \in Seq(Frames), NEW n \in 0 .. Len(q), Once(q)
    PROVE  Once(SubSeq(q, 1, n))
BY Cut DEF Once

LEMMA OfTab ==
    ASSUME NEW s \in Sockets
    PROVE  TabOf(s) \in Tabs /\ s = <<TabOf(s), s[2]>> /\ s[2] \in {"widget", "page"}
BY ChatAssumption DEF TabOf

LEMMA FrameIs ==
    ASSUME NEW do \in {"send", "edit", "delete"}, NEW m \in Messages
    PROVE  /\ Frame(do, m) \in Frames /\ Frame(do, m).do = do /\ Frame(do, m).m = m
           /\ \A n : do # "send" => Frame(do, m) # Frame("send", n)
           /\ \A n : n # m => Frame(do, m) # Frame("send", n)
<1>1. Frame(do, m) \in Frames /\ Frame(do, m).do = do /\ Frame(do, m).m = m
  BY DEF Frame, Frames
<1>2. ASSUME NEW n, Frame(do, m) = Frame("send", n) PROVE do = "send" /\ n = m
  <2>1. Frame("send", n).do = "send" /\ Frame("send", n).m = n
    BY DEF Frame
  <2> QED
    BY <1>1, <1>2, <2>1
<1> QED
  BY <1>1, <1>2

LEMMA Saying ==
    ASSUME TypeOK, NEW s \in Sockets, NEW f \in Frames, Say(s, f)
    PROVE  /\ line' \in [Sockets -> Seq(Frames)]
           /\ \A r \in Sockets : r # s => line'[r] = line[r]
           /\ s \in up => line'[s] = Append(line[s], f) /\ \A g : In(line'[s], g) <=> In(line[s], g) \/ g = f
           /\ s \notin up => line' = line
<1>1. line \in [Sockets -> Seq(Frames)] /\ line[s] \in Seq(Frames)
  BY DEF TypeOK
<1>2. /\ Append(line[s], f) \in Seq(Frames)
      /\ \A g : In(Append(line[s], f), g) <=> In(line[s], g) \/ g = f
  BY <1>1, Appended
<1>3. line' = IF s \in up THEN [line EXCEPT ![s] = Append(line[s], f)] ELSE line
  BY DEF Say
<1> QED
  BY <1>1, <1>2, <1>3

\* The frames that will store a message come from the send button alone.
LEMMA LinesMove ==
    ASSUME Base, [Next]_vars
    PROVE  /\ line' \in [Sockets -> Seq(Frames)]
           /\ \A s \in Sockets : Once(line'[s])
           /\ \A s \in Sockets, m \in Messages : Sends(s, m)' => Sends(s, m) \/ (Send(s, m) /\ s \in up)
           /\ \A s \in Sockets, m \in Messages : TakeSend(s) /\ m = Head(line[s]).m => ~Sends(s, m)'
<1> DEFINE P == /\ line' \in [Sockets -> Seq(Frames)]
                /\ \A s \in Sockets : Once(line'[s])
                /\ \A s \in Sockets, m \in Messages :
                      Sends(s, m)' => Sends(s, m) \/ (Send(s, m) /\ s \in up)
<1>0. /\ TypeOK /\ line \in [Sockets -> Seq(Frames)]
      /\ \A s \in Sockets : line[s] \in Seq(Frames) /\ Once(line[s])
  BY DEF Base, TypeOK, Born
<1>1. ASSUME UNCHANGED line PROVE P
  BY <1>0, <1>1 DEF Sends
<1>2. ASSUME NEW s \in Sockets, NEW m \in Messages, Send(s, m) PROVE P
  <2>1. Say(s, Frame("send", m)) /\ ~Sends(s, m)
    BY <1>2, OfTab, ChatAssumption DEF Send, Base, Born
  <2>2. Frame("send", m) \in Frames /\ \A n : n # m => Frame("send", m) # Frame("send", n)
    BY FrameIs
  <2>3. /\ line' \in [Sockets -> Seq(Frames)]
        /\ \A r \in Sockets : r # s => line'[r] = line[r]
        /\ s \in up => /\ line'[s] = Append(line[s], Frame("send", m))
                       /\ \A g : In(line'[s], g) <=> In(line[s], g) \/ g = Frame("send", m)
        /\ s \notin up => line' = line
    BY <1>0, <2>1, <2>2, Saying
  <2>4. Once(line'[s])
    BY <1>0, <2>1, <2>2, <2>3, OnceMore DEF Sends
  <2> QED
    BY <1>0, <1>2, <2>2, <2>3, <2>4 DEF Sends
<1>3. ASSUME NEW s \in Sockets, NEW m \in Messages, NEW do \in {"edit", "delete"}, Change(s, m, do)
      PROVE  P
  <2> DEFINE f == Frame(do, m)
  <2>1. Say(s, f)
    BY <1>3 DEF Change
  <2>2. f \in Frames /\ f.do # "send" /\ \A n : f # Frame("send", n)
    BY FrameIs
  <2> HIDE DEF f
  <2>3. /\ line' \in [Sockets -> Seq(Frames)]
        /\ \A r \in Sockets : r # s => line'[r] = line[r]
        /\ s \in up => /\ line'[s] = Append(line[s], f)
                       /\ \A g : In(line'[s], g) <=> In(line[s], g) \/ g = f
        /\ s \notin up => line' = line
    BY <1>0, <2>1, <2>2, Saying
  <2>4. Once(line'[s])
    BY <1>0, <2>1, <2>2, <2>3, OnceMore
  <2> QED
    BY <1>0, <2>2, <2>3, <2>4 DEF Sends
<1>4. ASSUME NEW s \in Sockets, Takes(s)
      PROVE  P /\ (Head(line[s]).do = "send" => ~In(line'[s], Head(line[s])))
  <2>1. /\ line' \in [Sockets -> Seq(Frames)] /\ line'[s] = Tail(line[s])
        /\ \A r \in Sockets : r # s => line'[r] = line[r]
        /\ \A f : In(line[s], f) <=> In(line'[s], f) \/ f = Head(line[s])
    BY <1>0, <1>4, Taking
  <2>2. Once(line'[s]) /\ (Head(line[s]).do = "send" => ~In(line'[s], Head(line[s])))
    BY <1>0, <1>4, <2>1, OnceLess DEF Takes
  <2> QED
    BY <1>0, <2>1, <2>2 DEF Sends
<1>5. ASSUME NEW s \in Sockets, Drop(s) PROVE P
  <2>1. PICK n \in 0 .. Len(line[s]) : line' = [line EXCEPT ![s] = SubSeq(line[s], 1, n)]
    BY <1>5 DEF Drop
  <2>2. /\ SubSeq(line[s], 1, n) \in Seq(Frames) /\ Once(SubSeq(line[s], 1, n))
        /\ \A y : In(SubSeq(line[s], 1, n), y) => In(line[s], y)
    BY <1>0, Cut, OnceCut
  <2>3. /\ line' \in [Sockets -> Seq(Frames)] /\ line'[s] = SubSeq(line[s], 1, n)
        /\ \A r \in Sockets : r # s => line'[r] = line[r]
    BY <1>0, <2>1, <2>2
  <2> QED
    BY <1>0, <2>2, <2>3 DEF Sends
<1>6. ASSUME NEW s \in Sockets, NEW m \in Messages, TakeSend(s), m = Head(line[s]).m
      PROVE  ~Sends(s, m)'
  <2>1. Takes(s) /\ Head(line[s]) = Frame("send", m)
    BY <1>0, <1>6, TakingSend
  <2>2. Head(line[s]).do = "send"
    BY <1>6 DEF TakeSend
  <2>3. ~In(line'[s], Head(line[s]))
    BY <1>4, <2>1, <2>2
  <2> QED
    BY <2>1, <2>3 DEF Sends
<1>7. P
  <2> HIDE DEF P
  <2>1. \A s \in Sockets : TakeSend(s) \/ TakeChange(s) => Takes(s)
    BY DEF TakeSend, TakeChange
  <2>2. UNCHANGED line => P
    BY <1>1 DEF P
  <2> QED
    BY <1>2, <1>3, <1>4, <1>5, <2>1, <2>2, Writers DEF Everything, Lines
<1> QED
  BY <1>6, <1>7

LEMMA OriginsMove ==
    ASSUME TypeOK, [Next]_vars
    PROVE  /\ from' \in [Messages -> Tabs \cup {NoTab}]
           /\ \A s \in Sockets, m \in Messages : Send(s, m) => from[m] = NoTab /\ from'[m] = TabOf(s)
           /\ \A m \in Messages : from'[m] = from[m] \/ \E s \in Sockets : Send(s, m)
           /\ \A s, r \in Sockets, m \in Messages : Send(s, m) /\ Send(r, m) => s = r
<1>0. from \in [Messages -> Tabs \cup {NoTab}]
  BY DEF TypeOK
<1>1. ASSUME NEW s \in Sockets, NEW m \in Messages, Send(s, m)
      PROVE  /\ from' \in [Messages -> Tabs \cup {NoTab}]
             /\ from[m] = NoTab /\ from'[m] = TabOf(s)
             /\ \A n \in Messages : n # m => from'[n] = from[n]
  <2>1. from[m] = NoTab /\ from' = [from EXCEPT ![m] = TabOf(s)]
    BY <1>1 DEF Send
  <2> QED
    BY <1>0, <2>1, OfTab
<1>2. ASSUME NEW s \in Sockets, NEW r \in Sockets, NEW m \in Messages, Send(s, m), Send(r, m)
      PROVE  s = r
  <2>1. TabOf(s) = TabOf(r)
    BY <1>1, <1>2
  <2>2. s[2] = view[TabOf(s)] /\ r[2] = view[TabOf(r)]
    BY <1>2 DEF Send
  <2> QED
    BY <2>1, <2>2, OfTab
<1>3. UNCHANGED from \/ \E s \in Sockets, m \in Messages : Send(s, m)
  BY Writers DEF Everything, Origins
<1> QED
  BY <1>0, <1>1, <1>2, <1>3

LEMMA PostsMove ==
    ASSUME TypeOK, [Next]_vars
    PROVE  /\ post' \in [Messages -> {Quiet, "sent", "stored", "answered"}]
           /\ waiting' \subseteq Messages
           /\ \A s \in Sockets, m \in Messages :
                 Send(s, m) => IF s \in up THEN post' = post /\ waiting' = waiting
                               ELSE post'[m] = "sent" /\ waiting' = waiting \cup {m}
           /\ \A m \in Messages :
                 \/ post'[m] = post[m] /\ (m \in waiting' => m \in waiting)
                 \/ \E s \in Sockets : Send(s, m)
                 \/ PostStore(m) /\ post[m] = "sent" /\ post'[m] = "stored" /\ waiting' = waiting
                 \/ post[m] = "stored" /\ post'[m] = "answered" /\ (m \in waiting' => m \in waiting)
                 \/ post[m] = "sent" /\ post'[m] = "answered" /\ m \notin waiting'
<1> DEFINE P == {Quiet, "sent", "stored", "answered"}
           Moved(m) ==
                 \/ post'[m] = post[m] /\ (m \in waiting' => m \in waiting)
                 \/ \E s \in Sockets : Send(s, m)
                 \/ PostStore(m) /\ post[m] = "sent" /\ post'[m] = "stored" /\ waiting' = waiting
                 \/ post[m] = "stored" /\ post'[m] = "answered" /\ (m \in waiting' => m \in waiting)
                 \/ post[m] = "sent" /\ post'[m] = "answered" /\ m \notin waiting'
           Typed == post' \in [Messages -> P] /\ waiting' \subseteq Messages
<1>0. post \in [Messages -> P] /\ waiting \subseteq Messages
  BY DEF TypeOK
<1>1. ASSUME NEW s \in Sockets, NEW m \in Messages, Send(s, m)
      PROVE  /\ Typed /\ \A n \in Messages : Moved(n)
             /\ IF s \in up THEN post' = post /\ waiting' = waiting
                ELSE post'[m] = "sent" /\ waiting' = waiting \cup {m}
  <2>1. IF s \in up THEN post' = post /\ waiting' = waiting
        ELSE post' = [post EXCEPT ![m] = "sent"] /\ waiting' = waiting \cup {m}
    BY <1>1 DEF Send
  <2>2. \A n \in Messages : n # m => post'[n] = post[n] /\ (n \in waiting' => n \in waiting)
    BY <1>0, <2>1
  <2> QED
    BY <1>0, <1>1, <2>1, <2>2
<1>2. ASSUME NEW m \in Messages, PostStore(m) PROVE Typed /\ \A n \in Messages : Moved(n)
  <2>1. post[m] = "sent" /\ post' = [post EXCEPT ![m] = "stored"] /\ waiting' = waiting
    BY <1>2 DEF PostStore
  <2>2. \A n \in Messages : n # m => post'[n] = post[n]
    BY <1>0, <2>1
  <2> QED
    BY <1>0, <1>2, <2>1, <2>2
<1>3. ASSUME NEW m \in Messages, PostAnnounce(m) PROVE Typed /\ \A n \in Messages : Moved(n)
  BY <1>0, <1>3 DEF PostAnnounce
<1>4. ASSUME NEW m \in Messages, PostSettles(m) PROVE Typed /\ \A n \in Messages : Moved(n)
  BY <1>0, <1>4 DEF PostSettles
<1>5. ASSUME NEW m \in Messages, PostFails(m) PROVE Typed /\ \A n \in Messages : Moved(n)
  BY <1>0, <1>5 DEF PostFails
<1>6. ASSUME UNCHANGED <<post, waiting>> PROVE Typed /\ \A n \in Messages : Moved(n)
  BY <1>0, <1>6
<1>7. Typed /\ \A n \in Messages : Moved(n)
  <2> HIDE DEF Typed, Moved
  <2> QED
    BY <1>1, <1>2, <1>3, <1>4, <1>5, <1>6, Writers DEF Everything, Posts
<1> QED
  BY <1>1, <1>7

LEMMA BornStep == ASSUME Base, [Next]_vars PROVE Born'
<1>0. TypeOK /\ Born
  BY DEF Base
<1>1. /\ \A s \in Sockets, m \in Messages : Send(s, m) => from[m] = NoTab /\ from'[m] = TabOf(s)
      /\ \A m \in Messages : from'[m] = from[m] \/ \E s \in Sockets : Send(s, m)
      /\ \A s, r \in Sockets, m \in Messages : Send(s, m) /\ Send(r, m) => s = r
  BY <1>0, OriginsMove
<1>2. \A s \in Sockets, m \in Messages :
         Send(s, m) => IF s \in up THEN post' = post /\ waiting' = waiting
                       ELSE post'[m] = "sent" /\ waiting' = waiting \cup {m}
  BY <1>0, PostsMove
<1>3. \A m \in Messages :
         \/ post'[m] = post[m] /\ (m \in waiting' => m \in waiting)
         \/ \E s \in Sockets : Send(s, m)
         \/ PostStore(m) /\ post[m] = "sent" /\ post'[m] = "stored" /\ waiting' = waiting
         \/ post[m] = "stored" /\ post'[m] = "answered" /\ (m \in waiting' => m \in waiting)
         \/ post[m] = "sent" /\ post'[m] = "answered" /\ m \notin waiting'
  BY <1>0, PostsMove
<1>4. \A s \in Sockets, m \in Messages : Send(s, m) => (IsStored(m)' <=> IsStored(m))
  BY DEF Send, serverVars, IsStored
<1>5. \A s \in Sockets, m \in Messages : Sends(s, m)' => Sends(s, m) \/ (Send(s, m) /\ s \in up)
  BY LinesMove
<1>6. ASSUME NEW m \in Messages, IsStored(m)', ~IsStored(m)
      PROVE  PostStore(m) \/ \E s \in Sockets : Sends(s, m) /\ ~Sends(s, m)'
  <2>1. ASSUME NEW s \in Sockets, TakeSend(s), m = Head(line[s]).m
        PROVE  Sends(s, m) /\ ~Sends(s, m)'
    BY <1>0, <2>1, TakingSend, LinesMove
  <2> QED
    BY <1>6, <2>1, StoredGrows
<1>7. \A m \in Messages : PostStore(m) => post[m] = "sent" /\ post'[m] = "stored" /\ IsStored(m)'
  <2> SUFFICES ASSUME NEW m \in Messages, PostStore(m)
               PROVE  post[m] = "sent" /\ post'[m] = "stored" /\ IsStored(m)'
    OBVIOUS
  <2>1. post[m] = "sent" /\ post'[m] = "stored" /\ Create(m)
    BY <1>0 DEF PostStore, TypeOK
  <2>2. db'[m].ver = 1
    BY <1>0, <2>1, Creating
  <2> QED
    BY <2>1, <2>2 DEF IsStored
<1>8. \A m \in Messages : IsStored(m) => IsStored(m)'
  BY StoredGrows
<1>t. \A s \in Sockets : TabOf(s) # NoTab
  BY OfTab, ChatAssumption
<1>9. ASSUME NEW m \in Messages
      PROVE  from'[m] = NoTab => post'[m] = Quiet /\ ~IsStored(m)'
  <2> SUFFICES ASSUME from'[m] = NoTab PROVE post'[m] = Quiet /\ ~IsStored(m)'
    OBVIOUS
  <2>1. from[m] = NoTab /\ \A s \in Sockets : ~Send(s, m)
    BY <1>1, <1>t
  <2>2. post[m] = Quiet /\ ~IsStored(m) /\ \A s \in Sockets : ~Sends(s, m)
    BY <1>0, <1>t, <2>1 DEF Born
  <2>3. ~PostStore(m)
    BY <1>7, <2>2 DEF Quiet
  <2> QED
    BY <1>3, <1>6, <2>1, <2>2, <2>3 DEF Quiet
<1>10. ASSUME NEW s \in Sockets, NEW m \in Messages, Sends(s, m)'
       PROVE  from'[m] = TabOf(s) /\ post'[m] = Quiet /\ ~IsStored(m)'
  <2>1. CASE Sends(s, m)
    <3>1. from[m] = TabOf(s) /\ post[m] = Quiet /\ ~IsStored(m) /\ ~PostStore(m)
          /\ \A r \in Sockets : ~Send(r, m)
      BY <1>0, <1>1, <1>7, <1>t, <2>1 DEF Born, Quiet
    <3>2. ~IsStored(m)'
      BY <1>0, <1>6, <1>10, <2>1, <3>1 DEF Born
    <3> QED
      BY <1>1, <1>3, <3>1, <3>2 DEF Quiet
  <2>2. CASE Send(s, m) /\ s \in up
    <3>1. from[m] = NoTab /\ post' = post
      BY <1>1, <1>2, <2>2
    <3> QED
      BY <1>0, <1>1, <1>4, <2>2, <3>1 DEF Born
  <2> QED
    BY <1>5, <1>10, <2>1, <2>2
<1>11. ASSUME NEW s \in Sockets, NEW r \in Sockets, NEW m \in Messages, Sends(s, m)', Sends(r, m)'
       PROVE  s = r
  BY <1>0, <1>1, <1>5, <1>11, <1>t DEF Born
<1>12. ASSUME NEW m \in Messages
       PROVE  /\ post'[m] = "sent" => ~IsStored(m)'
              /\ post'[m] = "stored" => IsStored(m)'
              /\ m \in waiting' => post'[m] # Quiet /\ (post'[m] = "answered" => IsStored(m)')
  <2>0. /\ post[m] = "sent" => ~IsStored(m)
        /\ post[m] = "stored" => IsStored(m)
        /\ m \in waiting => post[m] # Quiet /\ (post[m] = "answered" => IsStored(m))
        /\ from[m] = NoTab => post[m] = Quiet /\ ~IsStored(m)
        /\ \A s \in Sockets : Sends(s, m) => post[m] = Quiet
    BY <1>0 DEF Born
  <2>1. CASE \E s \in Sockets : Send(s, m)
    BY <1>1, <1>2, <1>4, <2>0, <2>1 DEF Quiet
  <2>2. CASE post'[m] = post[m] /\ (m \in waiting' => m \in waiting)
    BY <1>6, <1>7, <1>8, <2>0, <2>2 DEF Quiet
  <2>3. CASE PostStore(m)
    BY <1>7, <2>3 DEF Quiet
  <2>4. CASE post[m] = "stored" /\ post'[m] = "answered" /\ (m \in waiting' => m \in waiting)
    BY <1>8, <2>0, <2>4 DEF Quiet
  <2>5. CASE post[m] = "sent" /\ post'[m] = "answered" /\ m \notin waiting'
    BY <2>5
  <2> QED
    BY <1>3, <2>1, <2>2, <2>3, <2>4, <2>5
<1>13. \A s \in Sockets : Once(line'[s])
  BY LinesMove
<1> QED
  BY <1>9, <1>10, <1>11, <1>12, <1>13 DEF Born

-----------------------------------------------------------------------------
(* A message is shown once                                                 *)

\* The thread of t becomes rows and no other thread changes.
Becomes(t, rows) ==
    /\ thread' \in [Tabs -> Seq(Rows)] /\ thread'[t] = rows
    /\ \A u \in Tabs : u # t => thread'[u] = thread[u]

LEMMA Threading ==
    ASSUME TypeOK, NEW t, NEW rows, t \in Tabs => rows \in Seq(Rows),
           thread' = IF t \in loaded THEN [thread EXCEPT ![t] = rows] ELSE thread
    PROVE  /\ t \in loaded => t \in Tabs /\ Becomes(t, rows)
           /\ t \notin loaded => thread' = thread
BY DEF TypeOK, Becomes

LEMMA Known ==
    ASSUME Base
    PROVE  /\ \A t \in Tabs : \A x : In(thread[t], x) => x \in Rows /\ from[x.m] \in Tabs
           /\ \A s \in Sockets : \A e : In(inbox[s], e) => e \in Events
<1>1. ASSUME NEW t \in Tabs, NEW x, In(thread[t], x) PROVE x \in Rows /\ from[x.m] \in Tabs
  <2>1. x \in Rows
    BY <1>1, ElementOfSeq, LenProperties DEF Base, TypeOK, In
  <2>2. x.m \in Messages
    BY <2>1 DEF Rows
  <2>3. from[x.m] \in Tabs \cup {NoTab} /\ (from[x.m] = NoTab => ~IsStored(x.m))
    BY <2>2 DEF Base, TypeOK, Born
  <2>4. from[x.m] # NoTab
    BY <1>1, <2>3, ChatAssumption DEF Base, Shown
  <2> QED
    BY <2>1, <2>3, <2>4
<1>2. ASSUME NEW s \in Sockets, NEW e, In(inbox[s], e) PROVE e \in Events
  BY <1>2, ElementOfSeq, LenProperties DEF Base, TypeOK, In
<1> QED
  BY <1>1, <1>2

LEMMA SendShows ==
    ASSUME Base, NEW s \in Sockets, NEW m \in Messages, Send(s, m)
    PROVE  LET t == TabOf(s)
               y == Row(m, "pending", "first")
           IN  /\ from[m] = NoTab /\ from'[m] = t /\ t \in Tabs
               /\ t \in loaded => /\ Becomes(t, Append(thread[t], y)) /\ Single(thread'[t])
                                  /\ \A x : In(thread'[t], x) <=> In(thread[t], x) \/ x = y
               /\ t \notin loaded => thread' = thread
               /\ loaded' = loaded /\ y.m = m /\ y.kind = "pending"
<1> DEFINE t == TabOf(s)
           y == Row(m, "pending", "first")
           rows == Append(thread[t], y)
<1>1. /\ from[m] = NoTab /\ from' = [from EXCEPT ![m] = t] /\ loaded' = loaded
      /\ thread' = IF t \in loaded THEN [thread EXCEPT ![t] = rows] ELSE thread
  BY DEF Send, tabVars
<1>2. t \in Tabs /\ thread[t] \in Seq(Rows) /\ Single(thread[t]) /\ TypeOK
      /\ from'[m] = t
  BY <1>1, OfTab DEF Base, TypeOK, Lone
<1>3. y \in Rows /\ y.m = m /\ y.kind = "pending"
  BY RowIs DEF Texts
<1>4. \A x : In(thread[t], x) => x.m # y.m
  BY <1>1, <1>2, <1>3, Known, ChatAssumption
<1> HIDE DEF y, t
<1>5. rows \in Seq(Rows) /\ Single(rows) /\ \A x : In(rows, x) <=> In(thread[t], x) \/ x = y
  BY <1>2, <1>3, <1>4, Appended, Adding
<1> HIDE DEF rows
<1>6. (t \in loaded => Becomes(t, rows)) /\ (t \notin loaded => thread' = thread)
  BY <1>1, <1>2, <1>5, Threading
<1> QED
  BY <1>1, <1>2, <1>3, <1>5, <1>6 DEF Becomes, rows, y, t

LEMMA DeliverShows ==
    ASSUME Base, NEW s \in Sockets, Deliver(s)
    PROVE  LET t == TabOf(s)
               e == Head(inbox[s])
               y == Row(e.m, "message", e.text)
           IN  /\ t \in Tabs /\ e \in Events /\ In(inbox[s], e) /\ IsStored(e.m)
               /\ y.m = e.m /\ y.kind = "message" /\ y.text = e.text
               /\ t \in loaded =>
                     /\ Becomes(t, Merge(thread[t], e)) /\ Single(thread'[t])
                     /\ e.type = "new" /\ Has(thread[t], e.m) => thread'[t] = thread[t]
                     /\ e.type = "new" /\ ~Has(thread[t], e.m) =>
                           \A x : In(thread'[t], x) <=> (In(thread[t], x) /\ x.m # e.m) \/ x = y
                     /\ e.type = "changed" =>
                           \A x : In(thread'[t], x)
                              <=> \/ In(thread[t], x) /\ ~(x.m = e.m /\ x.kind = "message")
                                  \/ x = y /\ Has(thread[t], e.m)
               /\ t \notin loaded => thread' = thread
               /\ loaded' = loaded
<1> DEFINE t == TabOf(s)
           e == Head(inbox[s])
           rows == Merge(thread[t], e)
           y == Row(e.m, "message", e.text)
<1>1. /\ inbox[s] # <<>> /\ loaded' = loaded
      /\ thread' = IF t \in loaded THEN [thread EXCEPT ![t] = rows] ELSE thread
  BY DEF Deliver
<1>2. t \in Tabs /\ thread[t] \in Seq(Rows) /\ Single(thread[t]) /\ TypeOK
      /\ inbox[s] \in Seq(Events)
  BY OfTab DEF Base, TypeOK, Lone
<1>3. e \in Events /\ In(inbox[s], e)
  BY <1>1, <1>2, Tailed
<1>4. e.m \in Messages /\ e.text \in Texts /\ e.type \in {"new", "changed"} /\ IsStored(e.m)
  BY <1>3 DEF Events, Base, Shown
<1>5. y.m = e.m /\ y.kind = "message" /\ y.text = e.text
  BY <1>4, RowIs
<1> HIDE DEF e, t
<1>6. /\ rows \in Seq(Rows) /\ Single(rows)
      /\ e.type = "new" /\ Has(thread[t], e.m) => rows = thread[t]
      /\ e.type = "new" /\ ~Has(thread[t], e.m) =>
            \A x : In(rows, x) <=> (In(thread[t], x) /\ x.m # e.m) \/ x = y
      /\ e.type = "changed" =>
            \A x : In(rows, x) <=> \/ In(thread[t], x) /\ ~(x.m = e.m /\ x.kind = "message")
                                   \/ x = y /\ Has(thread[t], e.m)
  BY <1>2, <1>3, Merging
<1> HIDE DEF rows, y
<1>7. (t \in loaded => Becomes(t, rows)) /\ (t \notin loaded => thread' = thread)
  BY <1>1, <1>2, <1>6, Threading
<1> QED
  BY <1>1, <1>2, <1>3, <1>4, <1>5, <1>6, <1>7 DEF Becomes, rows, y, t, e

LEMMA SettlesShows ==
    ASSUME Base, NEW m \in Messages, NEW ok \in BOOLEAN, m \in waiting,
           LET t == from[m]
           IN  thread' = IF t \in loaded THEN [thread EXCEPT ![t] = Settled(@, m, ok)] ELSE thread
    PROVE  LET t == from[m] IN
           /\ t \in loaded =>
              /\ t \in Tabs /\ Becomes(t, Settled(thread[t], m, ok)) /\ Single(thread'[t])
              /\ ~ok => \A x : In(thread'[t], x) =>
                    \/ In(thread[t], x) /\ ~(x.m = m /\ x.kind = "pending")
                    \/ x = Row(m, "failed", "first")
                       /\ \E z : In(thread[t], z) /\ z.m = m /\ z.kind = "pending"
              /\ ok /\ Has(thread[t], m) => \A x : In(thread'[t], x)
                    <=> In(thread[t], x) /\ (x.m # m \/ x.kind = "message")
              /\ ok /\ ~Has(thread[t], m) => \A x : In(thread'[t], x)
                    <=> \/ In(thread[t], x) /\ x.m # m
                        \/ x = Row(m, "message", "first") /\ \E z : In(thread[t], z) /\ z.m = m
           /\ t \notin loaded => thread' = thread
<1> DEFINE t == from[m]
           rows == Settled(thread[t], m, ok)
<1>1. thread' = IF t \in loaded THEN [thread EXCEPT ![t] = rows] ELSE thread
  BY DEF Base, TypeOK
<1>2. TypeOK /\ (t \in Tabs => thread[t] \in Seq(Rows) /\ Single(thread[t])) /\ loaded \subseteq Tabs
  BY DEF Base, TypeOK, Lone
<1> HIDE DEF t
<1>3. ASSUME t \in Tabs
      PROVE  /\ rows \in Seq(Rows) /\ Single(rows)
             /\ ~ok => \A x : In(rows, x) =>
                    \/ In(thread[t], x) /\ ~(x.m = m /\ x.kind = "pending")
                    \/ x = Row(m, "failed", "first")
                       /\ \E z : In(thread[t], z) /\ z.m = m /\ z.kind = "pending"
             /\ ok /\ Has(thread[t], m) => \A x : In(rows, x)
                    <=> In(thread[t], x) /\ (x.m # m \/ x.kind = "message")
             /\ ok /\ ~Has(thread[t], m) => \A x : In(rows, x)
                    <=> \/ In(thread[t], x) /\ x.m # m
                        \/ x = Row(m, "message", "first") /\ \E z : In(thread[t], z) /\ z.m = m
  BY <1>2, <1>3, Settling
<1> HIDE DEF rows
<1>4. /\ t \in loaded => t \in Tabs /\ Becomes(t, rows)
      /\ t \notin loaded => thread' = thread
  BY <1>1, <1>2, <1>3, Threading
<1> QED
  BY <1>2, <1>3, <1>4 DEF Becomes, rows, t

\* What Base says of the threads.
Threaded ==
    /\ thread \in [Tabs -> Seq(Rows)] /\ loaded \subseteq Tabs
    /\ \A t \in Tabs : Single(thread[t])
    /\ \A t \in Tabs : \A x : In(thread[t], x) =>
          IF x.kind = "message" THEN IsStored(x.m) ELSE from[x.m] = t
    /\ \A t \in Tabs \ loaded : thread[t] = <<>>

\* What is known of a message stays known.
LEMMA Stays ==
    ASSUME Base, [Next]_vars
    PROVE  /\ Threaded
           /\ \A m \in Messages : IsStored(m) => IsStored(m)'
           /\ \A m \in Messages : from[m] # NoTab => from'[m] = from[m]
<1>1. Threaded
  BY DEF Base, TypeOK, Lone, Shown, Threaded
<1>2. TypeOK
  BY DEF Base
<1> QED
  BY <1>1, <1>2, StoredGrows, OriginsMove

LEMMA OneThread ==
    ASSUME Base, [Next]_vars, NEW t \in Tabs, t \in loaded', loaded' \subseteq Tabs,
           loaded \subseteq loaded',
           thread' \in [Tabs -> Seq(Rows)], \A u \in Tabs : u # t => thread'[u] = thread[u],
           Single(thread'[t]),
           \A x : In(thread'[t], x) => \/ In(thread[t], x)
                                       \/ x.kind = "message" /\ IsStored(x.m)'
                                       \/ x.kind # "message" /\ from'[x.m] = t
    PROVE  Threaded'
<1>1. /\ Threaded
      /\ \A m \in Messages : IsStored(m) => IsStored(m)'
      /\ \A m \in Messages : from[m] # NoTab => from'[m] = from[m]
  BY Stays
<1>2. ASSUME NEW u \in Tabs, NEW x, In(thread[u], x)
      PROVE  IF x.kind = "message" THEN IsStored(x.m)' ELSE from'[x.m] = u
  <2>1. x \in Rows /\ x.m \in Messages /\ from[x.m] \in Tabs
    BY <1>2, Known DEF Rows
  <2> QED
    BY <1>1, <1>2, <2>1, ChatAssumption DEF Threaded
<1>3. ASSUME NEW u \in Tabs, NEW x, In(thread'[u], x)
      PROVE  IF x.kind = "message" THEN IsStored(x.m)' ELSE from'[x.m] = u
  BY <1>2, <1>3
<1> QED
  BY <1>1, <1>3 DEF Threaded

LEMMA SameThreads ==
    ASSUME Base, [Next]_vars, thread' = thread, loaded' = loaded
    PROVE  Threaded'
<1>1. /\ Threaded
      /\ \A m \in Messages : IsStored(m) => IsStored(m)'
      /\ \A m \in Messages : from[m] # NoTab => from'[m] = from[m]
  BY Stays
<1>2. ASSUME NEW u \in Tabs, NEW x, In(thread[u], x)
      PROVE  IF x.kind = "message" THEN IsStored(x.m)' ELSE from'[x.m] = u
  <2>1. x \in Rows /\ x.m \in Messages /\ from[x.m] \in Tabs
    BY <1>2, Known DEF Rows
  <2> QED
    BY <1>1, <1>2, <2>1, ChatAssumption DEF Threaded
<1> QED
  BY <1>1, <1>2 DEF Threaded

\* What HistoryArrives does to the thread.
LEMMA ArrivesShows ==
    ASSUME Base, NEW t \in Tabs, HistoryArrives(t)
    PROVE  \/ /\ history[t] = "answered" /\ gap' = gap
              /\ Becomes(t, answer[t]) /\ loaded' = loaded \cup {t}
           \/ history[t] = "asked" /\ thread' = thread /\ loaded' = loaded /\ t \in gap'
<1>1. thread \in [Tabs -> Seq(Rows)] /\ answer[t] \in Seq(Rows)
  BY DEF Base, TypeOK
<1> QED
  BY <1>1 DEF HistoryArrives, Becomes

LEMMA ThreadsStep == ASSUME Base, [Next]_vars PROVE Threaded'
<1>0. /\ TypeOK /\ loaded \subseteq Tabs /\ Threaded
      /\ \A m \in Messages : IsStored(m) => IsStored(m)'
  BY Stays DEF Base, TypeOK
<1>1. ASSUME NEW s \in Sockets, NEW m \in Messages, Send(s, m) PROVE Threaded'
  <2> DEFINE t == TabOf(s)
             y == Row(m, "pending", "first")
  <2>1. /\ from'[m] = t /\ t \in Tabs
        /\ t \in loaded => /\ Becomes(t, Append(thread[t], y)) /\ Single(thread'[t])
                           /\ \A x : In(thread'[t], x) <=> In(thread[t], x) \/ x = y
        /\ t \notin loaded => thread' = thread
        /\ loaded' = loaded /\ y.m = m /\ y.kind = "pending"
    BY <1>1, SendShows
  <2> HIDE DEF y, t
  <2>2. CASE t \in loaded
    BY <1>0, <2>1, <2>2, OneThread DEF Becomes
  <2>3. CASE t \notin loaded
    BY <2>1, <2>3, SameThreads
  <2> QED
    BY <2>2, <2>3
<1>2. ASSUME NEW s \in Sockets, Deliver(s) PROVE Threaded'
  <2> DEFINE t == TabOf(s)
             e == Head(inbox[s])
             y == Row(e.m, "message", e.text)
  <2>1. /\ t \in Tabs /\ e \in Events /\ IsStored(e.m)
        /\ y.m = e.m /\ y.kind = "message"
        /\ t \in loaded => /\ Becomes(t, Merge(thread[t], e)) /\ Single(thread'[t])
                           /\ \A x : In(thread'[t], x) => In(thread[t], x) \/ x = y
        /\ t \notin loaded => thread' = thread
        /\ loaded' = loaded
    <3>1. /\ t \in Tabs /\ e \in Events /\ IsStored(e.m)
          /\ y.m = e.m /\ y.kind = "message"
          /\ t \in loaded =>
                /\ Becomes(t, Merge(thread[t], e)) /\ Single(thread'[t])
                /\ e.type = "new" /\ Has(thread[t], e.m) => thread'[t] = thread[t]
                /\ e.type = "new" /\ ~Has(thread[t], e.m) =>
                      \A x : In(thread'[t], x) <=> (In(thread[t], x) /\ x.m # e.m) \/ x = y
                /\ e.type = "changed" =>
                      \A x : In(thread'[t], x)
                         <=> \/ In(thread[t], x) /\ ~(x.m = e.m /\ x.kind = "message")
                             \/ x = y /\ Has(thread[t], e.m)
          /\ t \notin loaded => thread' = thread
          /\ loaded' = loaded
      BY <1>2, DeliverShows
    <3> HIDE DEF y, t, e
    <3>2. e.type \in {"new", "changed"}
      BY <3>1 DEF Events
    <3> QED
      BY <3>1, <3>2
  <2> HIDE DEF y, t, e
  <2>2. \A n : n = y.m => IsStored(n)'
    <3>1. y.m \in Messages /\ IsStored(y.m)
      BY <2>1 DEF Events
    <3> QED
      BY <1>0, <3>1
  <2>3. CASE t \in loaded
    BY <1>0, <2>1, <2>2, <2>3, OneThread DEF Becomes
  <2>4. CASE t \notin loaded
    BY <2>1, <2>4, SameThreads
  <2> QED
    BY <2>3, <2>4
<1>3. ASSUME NEW t \in Tabs, HistoryArrives(t) PROVE Threaded'
  <2>1. ASSUME Becomes(t, answer[t]), loaded' = loaded \cup {t} PROVE Threaded'
    <3>1. Single(answer[t]) /\ \A x : In(answer[t], x) => x.kind = "message" /\ IsStored(x.m)
      BY DEF Base, Lone, Shown
    <3>2. ASSUME NEW x, In(answer[t], x) PROVE x.m \in Messages
      <4>1. answer[t] \in Seq(Rows)
        BY <1>0 DEF TypeOK
      <4>2. x \in Rows
        BY <3>2, <4>1, Members
      <4> QED
        BY <4>2 DEF Rows
    <3>3. \A x : In(thread'[t], x) => x.kind = "message" /\ IsStored(x.m)'
      BY <1>0, <2>1, <3>1, <3>2 DEF Becomes
    <3> QED
      BY <1>0, <2>1, <3>1, <3>3, OneThread DEF Becomes
  <2>2. (thread' = thread /\ loaded' = loaded) => Threaded'
    BY SameThreads
  <2> QED
    BY <1>3, <2>1, <2>2, ArrivesShows
<1>4. ASSUME NEW m \in Messages, NEW ok \in BOOLEAN, m \in waiting, loaded' = loaded,
             ok => post[m] = "answered",
             LET t == from[m]
             IN  thread' = IF t \in loaded THEN [thread EXCEPT ![t] = Settled(@, m, ok)] ELSE thread
      PROVE  Threaded'
  <2> DEFINE t == from[m]
             y == IF ok THEN Row(m, "message", "first") ELSE Row(m, "failed", "first")
  <2>1. y.m = m /\ y.kind = (IF ok THEN "message" ELSE "failed")
    BY RowIs DEF Texts
  <2>2. ok => IsStored(m)'
    BY <1>0, <1>4 DEF Base, Born
  <2>3. from[m] # NoTab => from'[m] = t
    BY Stays
  <2>4. /\ t \in loaded => /\ t \in Tabs /\ Becomes(t, Settled(thread[t], m, ok)) /\ Single(thread'[t])
                           /\ \A x : In(thread'[t], x) => In(thread[t], x) \/ x = y
        /\ t \notin loaded => thread' = thread
    BY <1>4, SettlesShows
  <2> HIDE DEF y, t
  <2>5. CASE t \in loaded
    <3>1. ~ok => from'[m] = t
      BY <2>3, <2>4, <2>5, ChatAssumption DEF t
    <3> QED
      BY <1>0, <1>4, <2>1, <2>2, <2>4, <2>5, <3>1, OneThread DEF Becomes
  <2>6. CASE t \notin loaded
    BY <1>4, <2>4, <2>6, SameThreads
  <2> QED
    BY <2>5, <2>6
<1>5. ASSUME NEW m \in Messages, PostSettles(m) PROVE Threaded'
  BY <1>4, <1>5 DEF PostSettles
<1>6. ASSUME NEW m \in Messages, PostFails(m) PROVE Threaded'
  BY <1>4, <1>6 DEF PostFails
<1>7. UNCHANGED <<thread, loaded>> => Threaded'
  BY SameThreads
<1> QED
  BY <1>1, <1>2, <1>3, <1>5, <1>6, <1>7, Writers DEF Everything, Threads

\* The history holds every message of the newest page, once.
LEMMA Snapshots ==
    ASSUME TypeOK, Numbered
    PROVE  /\ Snapshot \in Seq(Rows) /\ Single(Snapshot)
           /\ \A x : In(Snapshot, x) <=>
                 \E m \in Messages : Recent(m) /\ x = Row(m, "message", Body(m))
<1> DEFINE nth(i) == CHOOSE m \in Messages : db[m].at = Older + i
           row(m) == Row(m, "message", Body(m))
           size == stored - Older
<1>0. /\ stored \in Nat /\ Older \in Nat /\ Older <= stored /\ size \in Nat
      /\ \A m \in Messages : db[m] \in Records /\ db[m].at \in Nat /\ db[m].text \in Texts
  BY ChatAssumption DEF TypeOK, Records, Older
<1> HIDE DEF size
<1>s. size = stored - Older
  BY DEF size
<1>1. ASSUME NEW i \in 1 .. size PROVE nth(i) \in Messages /\ db[nth(i)].at = Older + i
  <2>1. \E m \in Messages : db[m].at = Older + i
    BY <1>0, <1>s DEF Numbered
  <2> QED
    BY <2>1
<1>2. ASSUME NEW m \in Messages PROVE row(m) \in Rows /\ row(m).m = m
  <2>1. Body(m) \in Texts
    BY <1>0 DEF Body, Texts
  <2> QED
    BY <2>1, RowIs
<1>3. Snapshot = [i \in 1 .. size |-> row(nth(i))]
  BY DEF Snapshot, size
<1> HIDE DEF nth
<1>4. Snapshot \in Seq(Rows)
  <2>1. \A i \in 1 .. size : row(nth(i)) \in Rows
    BY <1>1, <1>2
  <2> HIDE DEF row
  <2>2. Snapshot \in [1 .. size -> Rows]
    BY <1>3, <2>1
  <2> QED
    BY <1>0, <2>2, SeqDef
<1>5. ASSUME NEW i \in 1 .. size, NEW j \in 1 .. size, row(nth(i)).m = row(nth(j)).m
      PROVE  i = j
  <2>1. nth(i) = nth(j)
    BY <1>1, <1>2, <1>5
  <2>2. Older + i = Older + j
    BY <1>1, <2>1
  <2> QED
    BY <1>0, <2>2
<1>6. Single(Snapshot)
  <2> HIDE DEF row
  <2> QED
    BY <1>3, <1>5 DEF Single
<1>7. ASSUME NEW i \in 1 .. size PROVE Recent(nth(i))
  BY <1>0, <1>1 DEF Numbered, Recent
<1>8. ASSUME NEW m \in Messages, Recent(m) PROVE \E i \in 1 .. size : nth(i) = m
  <2>1. db[m].at - Older \in 1 .. size /\ Older + (db[m].at - Older) = db[m].at /\ IsStored(m)
    BY <1>0, <1>s, <1>8 DEF Numbered, Recent
  <2>2. nth(db[m].at - Older) = m
    BY <1>1, <1>8, <2>1 DEF Numbered
  <2> QED
    BY <2>1, <2>2
<1>9. ASSUME NEW x
      PROVE  In(Snapshot, x) <=> \E m \in Messages : Recent(m) /\ x = row(m)
  <2> HIDE DEF row
  <2>1. In(Snapshot, x) <=> \E i \in 1 .. size : x = row(nth(i))
    BY <1>3 DEF In
  <2> QED
    BY <1>1, <1>7, <1>8, <2>1
<1> QED
  BY <1>4, <1>6, <1>9 DEF row

\* What Base says of the answers that hold the history.
Answered ==
    /\ answer \in [Tabs -> Seq(Rows)]
    /\ \A t \in Tabs : Single(answer[t])
    /\ \A t \in Tabs : \A x : In(answer[t], x) => x.kind = "message" /\ IsStored(x.m)

LEMMA AnswersStep == ASSUME Base, [Next]_vars PROVE Answered'
<1>0. TypeOK /\ Numbered /\ Answered /\ answer \in [Tabs -> Seq(Rows)]
  BY DEF Base, TypeOK, Lone, Shown, Answered
<1>1. ASSUME NEW t \in Tabs, NEW x, In(answer[t], x) PROVE x.kind = "message" /\ IsStored(x.m)'
  <2>1. x \in Rows /\ answer[t] \in Seq(Rows)
    BY <1>0, <1>1, Members
  <2>2. x.m \in Messages
    BY <2>1 DEF Rows
  <2> QED
    BY <1>0, <1>1, <2>2, Stays DEF Answered
<1>2. UNCHANGED answer => Answered'
  BY <1>0, <1>1 DEF Answered
<1>3. ASSUME NEW t \in Tabs, NEW rows \in Seq(Rows), answer' = [answer EXCEPT ![t] = rows],
             Single(rows), \A x : In(rows, x) => x.kind = "message" /\ IsStored(x.m)'
      PROVE  Answered'
  <2>1. answer' \in [Tabs -> Seq(Rows)] /\ answer'[t] = rows
        /\ \A u \in Tabs : u # t => answer'[u] = answer[u]
    BY <1>0, <1>3
  <2> QED
    BY <1>0, <1>1, <1>3, <2>1 DEF Answered
<1>4. ASSUME NEW t \in Tabs, HistoryAnswers(t) PROVE Answered'
  <2>1. answer' = [answer EXCEPT ![t] = Snapshot]
    BY <1>4 DEF HistoryAnswers
  <2>2. Snapshot \in Seq(Rows) /\ Single(Snapshot)
    BY <1>0, Snapshots
  <2>3. ASSUME NEW x, In(Snapshot, x) PROVE x.kind = "message" /\ IsStored(x.m)'
    <3>1. PICK m \in Messages : Recent(m) /\ x = Row(m, "message", Body(m))
      BY <1>0, <2>3, Snapshots
    <3>2. x.m = m /\ x.kind = "message"
      BY <3>1 DEF Row
    <3> QED
      BY <3>1, <3>2, Stays DEF Recent
  <2> QED
    BY <1>3, <2>1, <2>2, <2>3
<1>5. ASSUME NEW t \in Tabs, HistoryArrives(t) PROVE Answered'
  <2>1. answer' = [answer EXCEPT ![t] = <<>>]
    BY <1>5 DEF HistoryArrives
  <2>2. <<>> \in Seq(Rows) /\ Single(<<>>)
    BY DEF Single
  <2> QED
    BY <1>3, <2>1, <2>2, EmptyIn
<1> QED
  BY <1>2, <1>4, <1>5, Writers DEF Everything, Answers

\* What Base says of the consumers.
Handed ==
    /\ hand \in [Sockets -> Jobs \cup {Idle}]
    /\ \A s \in Sockets : hand[s] # Idle => IsStored(hand[s].m)

\* What a consumer has in hand after a change has been taken.
LEMMA TakingChange ==
    ASSUME TypeOK, NEW s \in Sockets, TakeChange(s)
    PROVE  LET f == Head(line[s])
               e == Event(f.do, f.m, "none", db[f.m].ver)
           IN  /\ Takes(s) /\ hand[s] = Idle /\ f \in Frames /\ f.m \in Messages
               /\ f.do \in {"edit", "delete"}
               /\ \/ hand' = hand
                  \/ /\ IsStored(f.m) /\ ~db[f.m].gone
                     /\ hand' \in [Sockets -> Jobs \cup {Idle}] /\ hand'[s] = e /\ e \in Jobs
                     /\ e.type = f.do /\ e.m = f.m /\ e.ver = db[f.m].ver
                     /\ \A r \in Sockets : r # s => hand'[r] = hand[r]
<1> DEFINE f == Head(line[s])
           e == Event(f.do, f.m, "none", db[f.m].ver)
<1>1. Takes(s) /\ f.do \in {"edit", "delete"} /\ hand[s] = Idle
  BY DEF TakeChange, Takes
<1>2. f \in Frames /\ f.m \in Messages
  BY <1>1, Taking
<1>3. e \in Jobs /\ e.type = f.do /\ e.m = f.m /\ e.ver = db[f.m].ver
  <2>1. db[f.m].ver \in Nat /\ "none" \in Texts
    BY <1>2 DEF TypeOK, Records, Texts
  <2> QED
    BY <1>1, <1>2, <2>1, EventIs
<1>4. hand' = IF IsStored(f.m) /\ ~db[f.m].gone THEN [hand EXCEPT ![s] = e] ELSE hand
  BY DEF TakeChange
<1>5. hand \in [Sockets -> Jobs \cup {Idle}]
  BY DEF TypeOK
<1> HIDE DEF e, f
<1> QED
  BY <1>1, <1>2, <1>3, <1>4, <1>5 DEF e, f

LEMMA Telling ==
    ASSUME TypeOK, NEW s \in Sockets, Tell(s)
    PROVE  /\ hand[s] \in Events /\ hand[s] \in Jobs /\ Announce(hand[s])
           /\ hand' \in [Sockets -> Jobs \cup {Idle}] /\ hand'[s] = Idle
           /\ \A r \in Sockets : r # s => hand'[r] = hand[r]
<1>1. hand[s].type \in {"new", "changed"} /\ Announce(hand[s]) /\ hand' = [hand EXCEPT ![s] = Idle]
  BY DEF Tell
<1>2. hand \in [Sockets -> Jobs \cup {Idle}]
  BY DEF TypeOK
<1>3. hand[s] \in Jobs
  BY <1>1, <1>2, IdleIs
<1>4. hand[s] \in Events
  BY <1>1, <1>3 DEF Jobs, Events
<1> QED
  BY <1>1, <1>2, <1>3, <1>4

LEMMA HandsStep == ASSUME Base, [Next]_vars PROVE Handed'
<1>0. /\ TypeOK /\ Handed /\ hand \in [Sockets -> Jobs \cup {Idle}]
      /\ \A m \in Messages : IsStored(m) => IsStored(m)'
  BY Stays DEF Base, TypeOK, Shown, Handed
<1>1. ASSUME NEW s \in Sockets, hand[s] # Idle, NEW m, m = hand[s].m
      PROVE  m \in Messages /\ IsStored(m)'
  <2>1. m \in Messages
    BY <1>0, <1>1 DEF Jobs
  <2> QED
    BY <1>0, <1>1, <2>1 DEF Handed
<1>2. ASSUME NEW s \in Sockets, hand' \in [Sockets -> Jobs \cup {Idle}],
             \A r \in Sockets : r # s => hand'[r] = hand[r],
             NEW m, m = hand'[s].m, hand'[s] # Idle => m \in Messages /\ IsStored(m)'
      PROVE  Handed'
  BY <1>1, <1>2 DEF Handed, IsStored
<1>3. ASSUME NEW s \in Sockets, TakeSend(s) PROVE Handed'
  <2> DEFINE m == Head(line[s]).m
             e == Event("new", m, "first", 1)
  <2>1. /\ m \in Messages /\ Create(m)
        /\ hand' \in [Sockets -> Jobs \cup {Idle}] /\ hand'[s] = e
        /\ \A r \in Sockets : r # s => hand'[r] = hand[r]
    BY <1>0, <1>3, TakingSend
  <2>2. e.m = m
    BY DEF Event
  <2>3. db'[m].ver = 1
    BY <1>0, <2>1, Creating
  <2> HIDE DEF e, m
  <2>4. \A n : n = m => IsStored(n)'
    BY <2>3 DEF IsStored
  <2> QED
    BY <1>2, <2>1, <2>2, <2>4
<1>4. ASSUME NEW s \in Sockets, TakeChange(s) PROVE Handed'
  <2>1. CASE hand' = hand
    BY <1>0, <1>1, <2>1 DEF Handed, IsStored
  <2>2. ASSUME NEW m \in Messages, IsStored(m), hand' \in [Sockets -> Jobs \cup {Idle}],
               hand'[s].m = m, \A r \in Sockets : r # s => hand'[r] = hand[r]
        PROVE  Handed'
    BY <1>0, <1>2, <2>2
  <2> QED
    BY <1>0, <1>4, <2>1, <2>2, TakingChange
<1>5. ASSUME NEW s \in Sockets, Save(s) PROVE Handed'
  <2>1. /\ hand[s].type \in {"edit", "delete"} /\ hand' \in [Sockets -> Jobs \cup {Idle}]
        /\ hand'[s] = Event("changed", hand[s].m, db'[hand[s].m].text, db'[hand[s].m].ver)
        /\ \A r \in Sockets : r # s => hand'[r] = hand[r]
    BY <1>0, <1>5, Saving
  <2>2. hand'[s].m = hand[s].m /\ hand[s] # Idle
    BY <2>1, IdleIs DEF Event
  <2> QED
    BY <1>1, <1>2, <2>1, <2>2
<1>6. ASSUME NEW s \in Sockets, Tell(s) PROVE Handed'
  BY <1>0, <1>2, <1>6, Telling
<1>7. UNCHANGED hand => Handed'
  BY <1>0, <1>1 DEF Handed, IsStored
<1> QED
  BY <1>3, <1>4, <1>5, <1>6, <1>7, Writers DEF Everything, Hands

\* What Base says of the events on their way.
Boxed ==
    /\ inbox \in [Sockets -> Seq(Events)]
    /\ \A s \in Sockets : \A e : In(inbox[s], e) => IsStored(e.m)

LEMMA Announcing ==
    ASSUME TypeOK, NEW e \in Events, Announce(e)
    PROVE  /\ inbox' \in [Sockets -> Seq(Events)] /\ e.m \in Messages
           /\ \A s \in up : /\ inbox'[s] = Append(inbox[s], e)
                            /\ \A x : In(inbox'[s], x) <=> In(inbox[s], x) \/ x = e
           /\ \A s \in Sockets \ up : inbox'[s] = inbox[s]
           /\ crossed' = IF e.ver < told[e.m] THEN crossed \cup {e.m} ELSE crossed
           /\ told' \in [Messages -> Nat]
           /\ told'[e.m] = IF e.ver > told[e.m] THEN e.ver ELSE told[e.m]
           /\ \A m \in Messages : m # e.m => told'[m] = told[m]
<1>1. /\ \A s \in Sockets : inbox[s] \in Seq(Events)
      /\ up \subseteq Sockets /\ told \in [Messages -> Nat]
      /\ e.m \in Messages /\ e.ver \in Nat
  BY DEF TypeOK, Events
<1>2. \A s \in Sockets : /\ Append(inbox[s], e) \in Seq(Events)
                         /\ \A x : In(Append(inbox[s], e), x) <=> In(inbox[s], x) \/ x = e
  BY <1>1, Appended
<1>3. /\ inbox' = [s \in Sockets |-> IF s \in up THEN Append(inbox[s], e) ELSE inbox[s]]
      /\ crossed' = IF e.ver < told[e.m] THEN crossed \cup {e.m} ELSE crossed
      /\ told' = [told EXCEPT ![e.m] = IF e.ver > told[e.m] THEN e.ver ELSE told[e.m]]
  BY DEF Announce
<1>4. /\ inbox' \in [Sockets -> Seq(Events)]
      /\ \A s \in up : /\ inbox'[s] = Append(inbox[s], e)
                       /\ \A x : In(inbox'[s], x) <=> In(inbox[s], x) \/ x = e
      /\ \A s \in Sockets \ up : inbox'[s] = inbox[s]
  BY <1>1, <1>2, <1>3
<1>5. /\ told' \in [Messages -> Nat]
      /\ told'[e.m] = IF e.ver > told[e.m] THEN e.ver ELSE told[e.m]
      /\ \A m \in Messages : m # e.m => told'[m] = told[m]
  BY <1>1, <1>3
<1> QED
  BY <1>1, <1>3, <1>4, <1>5

\* PostAnnounce puts this event in front of the sockets.
LEMMA PostAnnouncing ==
    ASSUME TypeOK, NEW m \in Messages, PostAnnounce(m)
    PROVE  LET e == Event("new", m, "first", 1)
           IN  /\ e \in Events /\ e.type = "new" /\ e.m = m /\ e.text = "first" /\ e.ver = 1
               /\ Announce(e) /\ post[m] = "stored" /\ post'[m] = "answered"
               /\ \A n \in Messages : n # m => post'[n] = post[n]
<1>1. post[m] = "stored" /\ post' = [post EXCEPT ![m] = "answered"] /\ Announce(Event("new", m, "first", 1))
  BY DEF PostAnnounce
<1> QED
  BY <1>1, EventIs DEF TypeOK, Texts

\* What becomes of the events on their way.
LEMMA BoxesMove ==
    ASSUME TypeOK, [Next]_vars
    PROVE  \/ inbox' = inbox
           \/ \E t \in Tabs : /\ Leave(t) /\ <<t, "page">> \in up
                              /\ inbox' = [inbox EXCEPT ![<<t, "page">>] = <<>>]
           \/ \E s \in Sockets : Drop(s) /\ inbox' = [inbox EXCEPT ![s] = <<>>]
           \/ \E s \in Sockets : /\ Deliver(s) /\ s \in up /\ inbox[s] # <<>>
                                 /\ inbox' = [inbox EXCEPT ![s] = Tail(inbox[s])]
           \/ \E s \in Sockets : Tell(s) /\ hand[s] \in Events /\ Announce(hand[s])
           \/ \E m \in Messages : /\ PostAnnounce(m) /\ post[m] = "stored"
                                  /\ Event("new", m, "first", 1) \in Events
                                  /\ Announce(Event("new", m, "first", 1))
<1>1. ASSUME NEW t \in Tabs, Leave(t)
      PROVE  inbox' = inbox \/ (<<t, "page">> \in up /\ inbox' = [inbox EXCEPT ![<<t, "page">>] = <<>>])
  BY <1>1 DEF Leave
<1>2. ASSUME NEW s \in Sockets, Drop(s) PROVE inbox' = [inbox EXCEPT ![s] = <<>>]
  BY <1>2 DEF Drop
<1>3. ASSUME NEW s \in Sockets, Deliver(s)
      PROVE  s \in up /\ inbox[s] # <<>> /\ inbox' = [inbox EXCEPT ![s] = Tail(inbox[s])]
  BY <1>3 DEF Deliver
<1>4. \A s \in Sockets : Tell(s) => hand[s] \in Events /\ Announce(hand[s])
  BY Telling
<1>5. \A m \in Messages : PostAnnounce(m) =>
         post[m] = "stored" /\ Event("new", m, "first", 1) \in Events /\ Announce(Event("new", m, "first", 1))
  BY PostAnnouncing
<1> QED
  BY <1>1, <1>2, <1>3, <1>4, <1>5, Writers DEF Everything, Boxes

LEMMA BoxesStep == ASSUME Base, [Next]_vars PROVE Boxed'
<1>0. /\ TypeOK /\ Boxed /\ inbox \in [Sockets -> Seq(Events)] /\ up \subseteq Sockets
      /\ \A m \in Messages : IsStored(m) => IsStored(m)'
  BY Stays DEF Base, TypeOK, Shown, Boxed
<1>1. ASSUME NEW s \in Sockets, NEW e, In(inbox[s], e) PROVE IsStored(e.m)'
  <2>1. e \in Events /\ e.m \in Messages
    BY <1>1, Known DEF Events
  <2> QED
    BY <1>0, <1>1, <2>1 DEF Boxed
<1>2. ASSUME NEW s \in Sockets, NEW q \in Seq(Events), inbox' = [inbox EXCEPT ![s] = q],
             \A e : In(q, e) => In(inbox[s], e)
      PROVE  Boxed'
  <2>1. inbox' \in [Sockets -> Seq(Events)] /\ inbox'[s] = q
        /\ \A r \in Sockets : r # s => inbox'[r] = inbox[r]
    BY <1>0, <1>2
  <2> QED
    BY <1>1, <1>2, <2>1 DEF Boxed
<1>3. ASSUME NEW s \in Sockets, inbox' = [inbox EXCEPT ![s] = <<>>] PROVE Boxed'
  <2>1. <<>> \in Seq(Events)
    OBVIOUS
  <2> QED
    BY <1>2, <1>3, <2>1, EmptyIn
<1>4. ASSUME NEW s \in Sockets, inbox[s] # <<>>, inbox' = [inbox EXCEPT ![s] = Tail(inbox[s])]
      PROVE  Boxed'
  <2>1. Tail(inbox[s]) \in Seq(Events) /\ \A e : In(Tail(inbox[s]), e) => In(inbox[s], e)
    BY <1>0, <1>4, Tailed
  <2> QED
    BY <1>2, <1>4, <2>1
<1>5. ASSUME NEW e \in Events, Announce(e), IsStored(e.m) PROVE Boxed'
  <2>1. /\ inbox' \in [Sockets -> Seq(Events)] /\ e.m \in Messages
        /\ \A s \in up : \A x : In(inbox'[s], x) <=> In(inbox[s], x) \/ x = e
        /\ \A s \in Sockets \ up : inbox'[s] = inbox[s]
    BY <1>0, <1>5, Announcing
  <2>2. IsStored(e.m)'
    BY <1>0, <1>5, <2>1
  <2> QED
    BY <1>1, <2>1, <2>2 DEF Boxed
<1>6. ASSUME NEW s \in Sockets, hand[s] \in Events, Announce(hand[s]) PROVE Boxed'
  <2>1. IsStored(hand[s].m)
    BY <1>6, IdleIs DEF Base, Shown
  <2>2. \A e : e = hand[s] => e \in Events /\ Announce(e) /\ IsStored(e.m)
    BY <1>6, <2>1
  <2> QED
    BY <1>5, <2>2
<1>7. ASSUME NEW m \in Messages, post[m] = "stored", Event("new", m, "first", 1) \in Events,
             Announce(Event("new", m, "first", 1))
      PROVE  Boxed'
  <2>1. IsStored(m) /\ Event("new", m, "first", 1).m = m
    BY <1>7 DEF Base, Born, Event
  <2> QED
    BY <1>5, <1>7, <2>1
<1>8. inbox' = inbox => Boxed'
  BY <1>0, <1>1 DEF Boxed
<1> QED
  BY <1>0, <1>3, <1>4, <1>6, <1>7, <1>8, BoxesMove

\* The rest of the type invariant.
Controls ==
    /\ view \in [Tabs -> {"none", "widget", "list", "page"}]
    /\ history \in [Tabs -> {Quiet, "asked", "answered"}]
    /\ badge \in [Tabs -> Nat]
    /\ up \subseteq Sockets
    /\ changes \in [Messages -> SUBSET {"edit", "delete"}]
    /\ drops \in 0 .. MaxDrops
    /\ moves \in [Tabs -> Nat] /\ \A t \in Tabs : moves[t] <= MaxMoves[t]
    /\ gap \subseteq Tabs /\ stranded \subseteq Messages
Heard == told \in [Messages -> Nat] /\ crossed \subseteq Messages

LEMMA HeardStep == ASSUME TypeOK, [Next]_vars PROVE Heard'
<1>0. told \in [Messages -> Nat] /\ crossed \subseteq Messages
  BY DEF TypeOK
<1>1. ASSUME NEW e \in Events, Announce(e) PROVE Heard'
  <2>1. /\ e.m \in Messages /\ told' \in [Messages -> Nat]
        /\ crossed' = IF e.ver < told[e.m] THEN crossed \cup {e.m} ELSE crossed
    BY <1>1, Announcing
  <2> QED
    BY <1>0, <2>1 DEF Heard
<1>2. ASSUME NEW s \in Sockets, Save(s) PROVE Heard'
  <2>1. hand[s].m \in Messages /\ told' = told
        /\ (crossed' = crossed \/ crossed' = crossed \cup {hand[s].m})
    BY <1>2, Saving DEF Save
  <2> QED
    BY <1>0, <2>1 DEF Heard
<1>3. ASSUME NEW s \in Sockets, Tell(s) PROVE Heard'
  <2>1. \A e : e = hand[s] => e \in Events /\ Announce(e)
    BY <1>3, Telling
  <2> QED
    BY <1>1, <2>1
<1>4. \A m \in Messages : PostAnnounce(m) => Heard'
  BY <1>1, PostAnnouncing
<1>5. UNCHANGED <<told, crossed>> => Heard'
  BY <1>0 DEF Heard
<1> QED
  BY <1>2, <1>3, <1>4, <1>5, Writers DEF Everything, Tellings

LEMMA Mounting ==
    ASSUME TypeOK, NEW t \in Tabs, Mounts(t)
    PROVE  history' \in [Tabs -> {Quiet, "asked", "answered"}] /\ gap' \subseteq Tabs
BY DEF Mounts, TypeOK

LEMMA Moving ==
    ASSUME TypeOK, NEW t \in Tabs, NEW here, NEW there \in {"none", "widget", "list", "page"},
           Moves(t, here, there)
    PROVE  /\ view' \in [Tabs -> {"none", "widget", "list", "page"}]
           /\ moves' \in [Tabs -> Nat] /\ \A u \in Tabs : moves'[u] <= MaxMoves[u]
<1>1. MaxMoves \in [Tabs -> Nat] /\ moves \in [Tabs -> Nat] /\ \A u \in Tabs : moves[u] <= MaxMoves[u]
      /\ view \in [Tabs -> {"none", "widget", "list", "page"}]
  BY ChatAssumption DEF TypeOK
<1>2. /\ view' = [view EXCEPT ![t] = there]
      /\ moves' = [moves EXCEPT ![t] = moves[t] + 1] /\ moves[t] < MaxMoves[t]
  BY DEF Moves
<1>3. moves'[t] = moves[t] + 1 /\ \A u \in Tabs : u # t => moves'[u] = moves[u]
  BY <1>1, <1>2
<1>4. \A u \in Tabs : moves'[u] <= MaxMoves[u]
  <2> SUFFICES ASSUME NEW u \in Tabs PROVE moves'[u] <= MaxMoves[u]
    OBVIOUS
  <2>1. moves[t] \in Nat /\ MaxMoves[t] \in Nat
    BY <1>1
  <2>2. CASE u = t
    BY <1>2, <1>3, <2>1, <2>2
  <2>3. CASE u # t
    BY <1>1, <1>3, <2>3
  <2> QED
    BY <2>2, <2>3
<1> QED
  BY <1>1, <1>2, <1>4

LEMMA ControlsStep == ASSUME TypeOK, [Next]_vars PROVE Controls'
<1> USE DEF tabVars, serverVars, wires, calls, presses, ghosts
<1>0. Controls
  BY DEF TypeOK, Controls
<1>s. \A t \in Tabs : Sending(t) \subseteq Messages
  BY DEF Sending
<1>1. CASE UNCHANGED vars
  BY <1>0, <1>1 DEF vars, Controls
<1>2. ASSUME NEW s \in Sockets, NEW m \in Messages, Send(s, m) PROVE Controls'
  BY <1>0, <1>2 DEF Send, Controls
<1>3. ASSUME NEW s \in Sockets, NEW m \in Messages, NEW do \in {"edit", "delete"}, Change(s, m, do)
      PROVE  Controls'
  <2>1. changes' = [changes EXCEPT ![m] = changes[m] \cup {do}]
        /\ UNCHANGED <<view, history, badge, up, drops, moves, gap, stranded>>
    BY <1>3 DEF Change
  <2> QED
    BY <1>0, <2>1 DEF Controls
<1>4. ASSUME NEW s \in Sockets, TakeSend(s) PROVE Controls'
  BY <1>0, <1>4 DEF TakeSend, Controls
<1>5. ASSUME NEW s \in Sockets, TakeChange(s) PROVE Controls'
  BY <1>0, <1>5 DEF TakeChange, Controls
<1>6. ASSUME NEW s \in Sockets, Save(s) PROVE Controls'
  BY <1>0, <1>6 DEF Save, Controls
<1>7. ASSUME NEW s \in Sockets, Tell(s) PROVE Controls'
  BY <1>0, <1>7 DEF Tell, Controls
<1>8. ASSUME NEW s \in Sockets, Deliver(s) PROVE Controls'
  <2>1. TabOf(s) \in Tabs
    BY OfTab
  <2>2. /\ badge' = badge \/ badge' = [badge EXCEPT ![TabOf(s)] = badge[TabOf(s)] + 1]
        /\ gap' = gap \/ gap' = gap \cup {TabOf(s)}
        /\ UNCHANGED <<view, history, up, changes, drops, moves, stranded>>
    BY <1>8 DEF Deliver
  <2> QED
    BY <1>0, <2>1, <2>2 DEF Controls
<1>9. ASSUME NEW s \in Sockets, Drop(s) PROVE Controls'
  <2>1. TabOf(s) \in Tabs
    BY OfTab
  <2>2. /\ up' = up \ {s} /\ drops < MaxDrops /\ drops' = drops + 1
        /\ gap' = gap \cup {TabOf(s)} /\ stranded' = stranded \cup Sending(TabOf(s))
        /\ UNCHANGED <<view, history, badge, changes, moves>>
    BY <1>9 DEF Drop
  <2> QED
    BY <1>0, <1>s, <2>1, <2>2, ChatAssumption DEF Controls
<1>10. ASSUME NEW s \in Sockets, Connect(s) PROVE Controls'
  BY <1>0, <1>10 DEF Connect, Controls
<1>11. ASSUME NEW t \in Tabs, OpenWidget(t) PROVE Controls'
  <2>1. Moves(t, "none", "widget") /\ Mounts(t) /\ badge' = [badge EXCEPT ![t] = 0]
        /\ UNCHANGED <<up, changes, drops, stranded>>
    BY <1>11 DEF OpenWidget, MarksRead
  <2> QED
    BY <1>0, <2>1, Mounting, Moving DEF Controls
<1>12. ASSUME NEW t \in Tabs, Expand(t) PROVE Controls'
  <2>1. Moves(t, "widget", "page") /\ Mounts(t) /\ UNCHANGED <<badge, up, changes, drops, stranded>>
    BY <1>12 DEF Expand
  <2> QED
    BY <1>0, <2>1, Mounting, Moving DEF Controls
<1>13. ASSUME NEW t \in Tabs, Browse(t) PROVE Controls'
  <2>1. /\ Moves(t, "none", "list")
        /\ UNCHANGED <<history, badge, up, changes, drops, gap, stranded>>
    BY <1>13 DEF Browse
  <2> QED
    BY <1>0, <2>1, Moving DEF Controls
<1>14. ASSUME NEW t \in Tabs, Pick(t) PROVE Controls'
  <2>1. Moves(t, "list", "page") /\ Mounts(t) /\ badge' = [badge EXCEPT ![t] = 0]
        /\ UNCHANGED <<up, changes, drops, stranded>>
    BY <1>14 DEF Pick, MarksRead
  <2> QED
    BY <1>0, <2>1, Mounting, Moving DEF Controls
<1>15. ASSUME NEW t \in Tabs, Leave(t) PROVE Controls'
  <2>1. /\ Moves(t, view[t], "none")
        /\ up' \subseteq up
        /\ gap' = gap \/ gap' = gap \cup {t}
        /\ stranded' = stranded \/ stranded' = stranded \cup Sending(t)
        /\ UNCHANGED <<history, badge, changes, drops>>
    BY <1>15 DEF Leave
  <2> QED
    BY <1>0, <1>s, <2>1, Moving DEF Controls
<1>16. ASSUME NEW t \in Tabs, HistoryAnswers(t) PROVE Controls'
  BY <1>0, <1>16 DEF HistoryAnswers, Controls
<1>17. ASSUME NEW t \in Tabs, HistoryArrives(t) PROVE Controls'
  BY <1>0, <1>17 DEF HistoryArrives, Controls
<1>18. ASSUME NEW m \in Messages, PostStore(m) PROVE Controls'
  BY <1>0, <1>18 DEF PostStore, Controls
<1>19. ASSUME NEW m \in Messages, PostAnnounce(m) PROVE Controls'
  BY <1>0, <1>19 DEF PostAnnounce, Controls
<1>20. ASSUME NEW m \in Messages, PostSettles(m) PROVE Controls'
  BY <1>0, <1>20 DEF PostSettles, Controls
<1>21. ASSUME NEW m \in Messages, PostFails(m) PROVE Controls'
  BY <1>0, <1>21 DEF PostFails, Controls
<1> HIDE DEF Controls
<1> QED
  BY <1>1, <1>2, <1>3, <1>4, <1>5, <1>6, <1>7, <1>8, <1>9, <1>10, <1>11, <1>12, <1>13, <1>14,
     <1>15, <1>16, <1>17, <1>18, <1>19, <1>20, <1>21 DEF Next, At, On

\* Base is inductive.
LEMMA BaseInit == ASSUME Init PROVE Base
<1>0. /\ Earlier \in Seq(Messages) /\ Len(Earlier) \in Nat /\ DOMAIN Earlier = 1 .. Len(Earlier)
      /\ \A i \in DOMAIN Earlier : Earlier[i] \in Messages
      /\ \A i, j \in DOMAIN Earlier : Earlier[i] = Earlier[j] => i = j
  BY ChatAssumption, LenProperties, ElementOfSeq
<1>1. ASSUME NEW m \in Messages
      PROVE  /\ Before(m) => /\ PlaceBefore(m) \in 1 .. Len(Earlier)
                             /\ Earlier[PlaceBefore(m)] = m
                             /\ db[m] = [ver |-> 1, at |-> PlaceBefore(m), text |-> "first",
                                         gone |-> FALSE]
             /\ ~Before(m) => db[m] = [ver |-> 0, at |-> 0, text |-> "none", gone |-> FALSE]
             /\ db[m] \in Records
  <2>1. Before(m) => PlaceBefore(m) \in DOMAIN Earlier /\ Earlier[PlaceBefore(m)] = m
    BY DEF Before, PlaceBefore
  <2>2. PlaceBefore(m) \in 1 .. Len(Earlier) => PlaceBefore(m) \in Nat
    BY <1>0
  <2>3. db[m] = IF Before(m)
                THEN [ver |-> 1, at |-> PlaceBefore(m), text |-> "first", gone |-> FALSE]
                ELSE [ver |-> 0, at |-> 0, text |-> "none", gone |-> FALSE]
    BY DEF Init
  <2> QED
    BY <1>0, <2>1, <2>2, <2>3 DEF Records, Texts
<1>2. ASSUME NEW m \in Messages
      PROVE  /\ Before(m) => db[m].ver = 1 /\ db[m].at = PlaceBefore(m) /\ IsStored(m)
             /\ ~Before(m) => db[m].ver = 0 /\ db[m].at = 0 /\ ~IsStored(m)
  <2>1. /\ Before(m) => db[m].ver = 1 /\ db[m].at = PlaceBefore(m)
        /\ ~Before(m) => db[m].ver = 0 /\ db[m].at = 0
    BY DEF Init
  <2> QED
    BY <2>1 DEF IsStored
<1>3. stored = Len(Earlier)
  BY DEF Init
<1>4. TypeOK
  <2>1. from \in [Messages -> Tabs \cup {NoTab}]
    <3>1. \A m \in Messages : \E t \in Tabs : Owner[t] = Author[m]
      BY ChatAssumption DEF People
    <3>2. \A m \in Messages : TabBefore(m) \in Tabs
      BY <3>1 DEF TabBefore
    <3> QED
      BY <3>2 DEF Init
  <2>2. db \in [Messages -> Records] /\ stored \in Nat
    <3> DEFINE row(m) == IF Before(m)
                         THEN [ver |-> 1, at |-> PlaceBefore(m), text |-> "first", gone |-> FALSE]
                         ELSE [ver |-> 0, at |-> 0, text |-> "none", gone |-> FALSE]
    <3>1. db = [m \in Messages |-> row(m)]
      BY DEF Init
    <3> HIDE DEF row
    <3>2. \A m \in Messages : row(m) \in Records
      BY <1>1, <3>1
    <3> QED
      BY <1>0, <1>3, <3>1, <3>2
  <2>3. told \in [Messages -> Nat] /\ post \in [Messages -> {Quiet, "sent", "stored", "answered"}]
    BY DEF Init
  <2>4. /\ view \in [Tabs -> {"none", "widget", "list", "page"}] /\ loaded \subseteq Tabs
        /\ thread \in [Tabs -> Seq(Rows)] /\ answer \in [Tabs -> Seq(Rows)]
        /\ history \in [Tabs -> {Quiet, "asked", "answered"}] /\ badge \in [Tabs -> Nat]
        /\ up \subseteq Sockets /\ line \in [Sockets -> Seq(Frames)]
        /\ inbox \in [Sockets -> Seq(Events)] /\ hand \in [Sockets -> Jobs \cup {Idle}]
    BY DEF Init
  <2>5. /\ waiting \subseteq Messages /\ changes \in [Messages -> SUBSET {"edit", "delete"}]
        /\ drops \in 0 .. MaxDrops /\ moves \in [Tabs -> Nat]
        /\ \A t \in Tabs : moves[t] <= MaxMoves[t]
        /\ crossed \subseteq Messages /\ gap \subseteq Tabs /\ stranded \subseteq Messages
    BY ChatAssumption DEF Init
  <2> QED
    BY <2>1, <2>2, <2>3, <2>4, <2>5 DEF TypeOK
<1>p. ASSUME NEW m \in Messages, Before(m)
      PROVE  PlaceBefore(m) \in DOMAIN Earlier /\ Earlier[PlaceBefore(m)] = m
  BY <1>p DEF Before, PlaceBefore
<1>5. Numbered
  <2>1. ASSUME NEW m \in Messages PROVE (IsStored(m) <=> db[m].at # 0) /\ db[m].at <= stored
    <3>1. Before(m) => PlaceBefore(m) # 0 /\ PlaceBefore(m) <= stored
      BY <1>0, <1>p, <1>3
    <3>2. 0 <= stored
      BY <1>0, <1>3
    <3>3. CASE Before(m)
      BY <1>2, <3>1, <3>3
    <3>4. CASE ~Before(m)
      BY <1>2, <3>2, <3>4
    <3> QED
      BY <3>3, <3>4
  <2>2. ASSUME NEW i \in 1 .. stored PROVE \E m \in Messages : db[m].at = i
    <3>1. Earlier[i] \in Messages /\ Before(Earlier[i])
      BY <1>0, <1>3 DEF Before
    <3>2. PlaceBefore(Earlier[i]) = i
      BY <1>0, <1>p, <1>3, <3>1
    <3> QED
      BY <1>2, <3>1, <3>2
  <2>3. ASSUME NEW m \in Messages, NEW n \in Messages, IsStored(m), db[m].at = db[n].at PROVE m = n
    <3>1. Before(m) /\ db[m].at = PlaceBefore(m) /\ PlaceBefore(m) # 0
      BY <1>0, <1>2, <1>p, <2>3
    <3>2. Before(n) /\ db[n].at = PlaceBefore(n)
      BY <1>2, <2>3, <3>1
    <3> QED
      BY <1>p, <2>3, <3>1, <3>2
  <2> QED
    BY <2>1, <2>2, <2>3 DEF Numbered
<1>6. \A s \in Sockets, m \in Messages : ~Sends(s, m)
  BY DEF Init, Sends, In
<1>7. Born
  <2>1. \A s \in Sockets : Once(line[s])
    BY DEF Init, Once
  <2>2. \A m \in Messages : /\ post[m] = IF Before(m) THEN "answered" ELSE Quiet
                            /\ m \notin waiting
    BY DEF Init
  <2>3. \A m \in Messages : from[m] = NoTab => ~Before(m)
    <3>1. ASSUME NEW m \in Messages, Before(m) PROVE from[m] # NoTab
      <4>1. \E t \in Tabs : Owner[t] = Author[m]
        BY ChatAssumption DEF People
      <4>2. TabBefore(m) \in Tabs /\ from[m] = TabBefore(m)
        BY <3>1, <4>1 DEF TabBefore, Init
      <4> QED
        BY <4>2, ChatAssumption
    <3> QED
      BY <3>1
  <2> QED
    BY <1>2, <1>6, <2>1, <2>2, <2>3 DEF Born, Quiet
<1>8. Shown
  BY DEF Init, Shown, In
<1>9. Lone
  BY DEF Init, Lone, Single
<1> QED
  BY <1>4, <1>5, <1>7, <1>8, <1>9 DEF Base

LEMMA BaseStep == ASSUME Base, [Next]_vars PROVE Base'
<1>1. TypeOK
  BY DEF Base
<1>2. Threaded' /\ Answered' /\ Handed' /\ Boxed' /\ Controls' /\ Heard' /\ Born'
  BY <1>1, ThreadsStep, AnswersStep, HandsStep, BoxesStep, ControlsStep, HeardStep, BornStep
<1>3. Numbered' /\ db' \in [Messages -> Records] /\ stored' \in Nat
  BY StoredGrows
<1>4. /\ line' \in [Sockets -> Seq(Frames)] /\ from' \in [Messages -> Tabs \cup {NoTab}]
      /\ post' \in [Messages -> {Quiet, "sent", "stored", "answered"}] /\ waiting' \subseteq Messages
  BY <1>1, LinesMove, OriginsMove, PostsMove
<1>5. TypeOK'
  BY <1>2, <1>3, <1>4 DEF TypeOK, Threaded, Answered, Handed, Boxed, Controls, Heard
<1>6. Shown' /\ Lone'
  BY <1>2 DEF Shown, Lone, Threaded, Answered, Handed, Boxed
<1> QED
  BY <1>2, <1>3, <1>5, <1>6 DEF Base

LEMMA BaseAlways == Spec => []Base
<1>1. Init => Base
  BY BaseInit
<1>2. Base /\ [Next]_vars => Base'
  BY BaseStep
<1> QED
  BY <1>1, <1>2, PTL DEF Spec

\* The conversation never holds anything of another type.
THEOREM TypeCorrect == Spec => []TypeOK
<1>1. Base => TypeOK
  BY DEF Base
<1> QED
  BY <1>1, BaseAlways, PTL

\* A message is never on the screen twice, whichever of the echo, the answer of the
\* REST call and the history comes first (applyIncoming, settleOptimistic).
THEOREM NoDoubleCorrect == Spec => []NoDouble
<1>1. Base => NoDouble
  BY DEF Base, Lone, Single, NoDouble
<1> QED
  BY <1>1, BaseAlways, PTL

-----------------------------------------------------------------------------
(* What is being sent is on its way                                        *)

\* What carries a message that was sent over a socket towards its tab.
Way(t, m) == \E s \in Sockets : \/ Sends(s, m)
                                \/ hand[s].type = "new" /\ hand[s].m = m
                                \/ TabOf(s) = t /\ \E e : In(inbox[s], e) /\ e.type = "new" /\ e.m = m

\* A tab that sends over a socket has one unless it lost it, and its placeholder
\* waits for a call or has its message on the way.
Reached ==
    /\ \A m \in Messages : post[m] = Quiet /\ from[m] # NoTab /\ m \notin stranded =>
          \E s \in up : TabOf(s) = from[m]
    /\ \A t \in Tabs : \A x : In(thread[t], x) /\ x.kind = "pending" =>
          \/ x.m \in waiting
          \/ post[x.m] = Quiet /\ (x.m \notin stranded => Way(t, x.m))

LEMMA Ways == \A t, m : Way(t, m) \/ m \in waiting <=> Carried(t, m)
BY DEF Way, Carried, Sends, In

\* Where a placeholder that is in the thread after a step was before it.
LEMMA Placeholders ==
    ASSUME Base, [Next]_vars, NEW t \in Tabs, NEW x, In(thread'[t], x), x.kind = "pending"
    PROVE  /\ \/ In(thread[t], x)
              \/ \E s \in Sockets : TabOf(s) = t /\ x.m \in Messages /\ Send(s, x.m)
           /\ ~PostSettles(x.m) /\ ~PostFails(x.m)
           /\ \A s \in Sockets : Deliver(s) /\ TabOf(s) = t =>
                 ~(Head(inbox[s]).type = "new" /\ Head(inbox[s]).m = x.m)
<1>0. /\ TypeOK /\ loaded \subseteq Tabs /\ Threaded /\ Threaded'
      /\ \A u \in Tabs \ loaded : \A y : ~In(thread[u], y)
  <2>1. TypeOK /\ loaded \subseteq Tabs /\ Threaded /\ Threaded'
    BY Stays, ThreadsStep DEF Base, TypeOK
  <2>2. ASSUME NEW u \in Tabs \ loaded, NEW y PROVE ~In(thread[u], y)
    BY <2>1, EmptyIn DEF Threaded
  <2> QED
    BY <2>1, <2>2
<1>1. ASSUME NEW s \in Sockets, NEW m \in Messages, Send(s, m)
      PROVE  In(thread[t], x) \/ (TabOf(s) = t /\ x.m = m)
  <2> DEFINE u == TabOf(s)
             y == Row(m, "pending", "first")
  <2>1. /\ u \in loaded => /\ Becomes(u, Append(thread[u], y))
                           /\ \A z : In(thread'[u], z) <=> In(thread[u], z) \/ z = y
        /\ u \notin loaded => thread' = thread
        /\ y.m = m
    BY <1>1, SendShows
  <2> HIDE DEF u, y
  <2> QED
    BY <2>1 DEF Becomes, u
<1>2. ASSUME NEW s \in Sockets, Deliver(s)
      PROVE  /\ In(thread[t], x)
             /\ TabOf(s) = t => ~(Head(inbox[s]).type = "new" /\ Head(inbox[s]).m = x.m)
  <2> DEFINE u == TabOf(s)
             e == Head(inbox[s])
             y == Row(e.m, "message", e.text)
  <2>1. /\ u \in Tabs /\ e \in Events /\ y.kind = "message"
        /\ u \in loaded =>
              /\ Becomes(u, Merge(thread[u], e))
              /\ e.type = "new" /\ Has(thread[u], e.m) => thread'[u] = thread[u]
              /\ e.type = "new" /\ ~Has(thread[u], e.m) =>
                    \A z : In(thread'[u], z) <=> (In(thread[u], z) /\ z.m # e.m) \/ z = y
              /\ e.type = "changed" =>
                    \A z : In(thread'[u], z)
                       <=> \/ In(thread[u], z) /\ ~(z.m = e.m /\ z.kind = "message")
                           \/ z = y /\ Has(thread[u], e.m)
        /\ u \notin loaded => thread' = thread
    BY <1>2, DeliverShows
  <2> HIDE DEF u, e, y
  <2>2. e.type \in {"new", "changed"}
    BY <2>1 DEF Events
  <2>3. In(thread[t], x)
    BY <2>1, <2>2 DEF Becomes
  <2>4. ASSUME u = t, e.type = "new", e.m = x.m PROVE FALSE
    <3>1. t \in loaded
      BY <1>0, <2>3
    <3>2. CASE Has(thread[t], e.m)
      BY <1>0, <2>3, <2>4, <3>2 DEF Has, In, Threaded, Single
    <3>3. CASE ~Has(thread[t], e.m)
      BY <2>1, <2>4, <3>1, <3>3
    <3> QED
      BY <3>2, <3>3
  <2> QED
    BY <2>3, <2>4 DEF u, e
<1>3. ASSUME NEW u \in Tabs, HistoryArrives(u) PROVE In(thread[t], x)
  <2>1. CASE Becomes(u, answer[u])
    BY <2>1 DEF Base, Shown, Becomes
  <2>2. CASE thread' = thread
    BY <2>2
  <2> QED
    BY <1>3, <2>1, <2>2, ArrivesShows
<1>4. ASSUME NEW m \in Messages, NEW ok \in BOOLEAN, m \in waiting,
             LET u == from[m]
             IN  thread' = IF u \in loaded THEN [thread EXCEPT ![u] = Settled(@, m, ok)] ELSE thread
      PROVE  In(thread[t], x) /\ x.m # m
  <2> DEFINE u == from[m]
             y == Row(m, "message", "first")
             n == Row(m, "failed", "first")
  <2>1. y.kind = "message" /\ n.kind = "failed"
    BY RowIs DEF Texts
  <2>2. /\ u \in loaded =>
           /\ Becomes(u, Settled(thread[u], m, ok))
           /\ ~ok => \A z : In(thread'[u], z) =>
                 (In(thread[u], z) /\ ~(z.m = m /\ z.kind = "pending")) \/ z = n
           /\ ok /\ Has(thread[u], m) => \A z : In(thread'[u], z)
                 <=> In(thread[u], z) /\ (z.m # m \/ z.kind = "message")
           /\ ok /\ ~Has(thread[u], m) => \A z : In(thread'[u], z) =>
                 (In(thread[u], z) /\ z.m # m) \/ z = y
        /\ u \notin loaded => thread' = thread
    BY <1>4, SettlesShows
  <2> HIDE DEF u, y, n
  <2>3. In(thread[t], x) /\ (u = t /\ t \in loaded => x.m # m)
    BY <2>1, <2>2 DEF Becomes
  <2>4. t \in loaded /\ from[x.m] = t
    BY <1>0, <2>3 DEF Threaded
  <2> QED
    BY <2>3, <2>4 DEF u
<1>5. x \in Rows /\ x.m \in Messages
  <2>1. thread'[t] \in Seq(Rows)
    BY <1>0 DEF Threaded
  <2>2. x \in Rows
    BY <2>1, Members
  <2> QED
    BY <2>2 DEF Rows
<1>6. ASSUME NEW m \in Messages, PostSettles(m) PROVE In(thread[t], x) /\ x.m # m
  BY <1>4, <1>6 DEF PostSettles
<1>7. ASSUME NEW m \in Messages, PostFails(m) PROVE In(thread[t], x) /\ x.m # m
  BY <1>4, <1>7 DEF PostFails
<1>8. \/ In(thread[t], x)
      \/ \E s \in Sockets : TabOf(s) = t /\ x.m \in Messages /\ Send(s, x.m)
  BY <1>1, <1>2, <1>3, <1>6, <1>7, Writers DEF Everything, Threads
<1> QED
  BY <1>2, <1>5, <1>6, <1>7, <1>8

LEMMA WaitingEnds ==
    ASSUME [Next]_vars, NEW m \in Messages, m \in waiting, m \notin waiting'
    PROVE  PostSettles(m) \/ PostFails(m)
<1>1. ASSUME NEW s \in Sockets, NEW n \in Messages, Send(s, n) PROVE FALSE
  BY <1>1 DEF Send
<1>2. ASSUME NEW n \in Messages, PostStore(n) PROVE FALSE
  BY <1>2 DEF PostStore
<1>3. ASSUME NEW n \in Messages, PostAnnounce(n) PROVE FALSE
  BY <1>3 DEF PostAnnounce
<1>4. ASSUME NEW n \in Messages, PostSettles(n) PROVE n = m
  BY <1>4 DEF PostSettles
<1>5. ASSUME NEW n \in Messages, PostFails(n) PROVE n = m
  BY <1>5 DEF PostFails
<1> QED
  BY <1>1, <1>2, <1>3, <1>4, <1>5, Writers DEF Everything, Posts

\* A frame that will store a message is taken, or lost with its socket.
LEMMA SendsEnd ==
    ASSUME TypeOK, [Next]_vars, NEW s \in Sockets, NEW m \in Messages, Sends(s, m)
    PROVE  Sends(s, m)' \/ (TakeSend(s) /\ m = Head(line[s]).m) \/ Drop(s)
<1>0. line \in [Sockets -> Seq(Frames)]
  BY DEF TypeOK
<1>1. ASSUME NEW r \in Sockets, NEW n \in Messages, NEW do \in {"send", "edit", "delete"},
             Say(r, Frame(do, n))
      PROVE  Sends(s, m)'
  <2>1. Frame(do, n) \in Frames
    BY FrameIs
  <2>2. /\ \A q \in Sockets : q # r => line'[q] = line[q]
        /\ \A f : In(line[r], f) => In(line'[r], f)
    BY <1>1, <2>1, Saying
  <2> QED
    BY <2>2 DEF Sends
<1>2. ASSUME NEW r \in Sockets, Takes(r)
      PROVE  Sends(s, m)' \/ (r = s /\ Head(line[s]) = Frame("send", m))
  BY <1>2, Taking DEF Sends
<1>3. ASSUME NEW r \in Sockets, Drop(r) PROVE r = s \/ Sends(s, m)'
  <2>1. PICK n \in 0 .. Len(line[r]) : line' = [line EXCEPT ![r] = SubSeq(line[r], 1, n)]
    BY <1>3 DEF Drop
  <2> QED
    BY <1>0, <2>1 DEF Sends
<1>4. ASSUME NEW r \in Sockets, TakeSend(r) PROVE Sends(s, m)' \/ (TakeSend(s) /\ m = Head(line[s]).m)
  <2>1. Takes(r) /\ Frame("send", m).m = m
    BY <1>4 DEF TakeSend, Frame
  <2> QED
    BY <1>2, <1>4, <2>1
<1>5. ASSUME NEW r \in Sockets, TakeChange(r) PROVE Sends(s, m)'
  <2>1. Takes(r) /\ Frame("send", m).do = "send" /\ Head(line[r]).do # "send"
    BY <1>5 DEF TakeChange, Frame
  <2> QED
    BY <1>2, <2>1
<1>6. ASSUME NEW r \in Sockets, NEW n \in Messages,
             Send(r, n) \/ Change(r, n, "edit") \/ Change(r, n, "delete")
      PROVE  Sends(s, m)'
  <2>1. Say(r, Frame("send", n)) \/ Say(r, Frame("edit", n)) \/ Say(r, Frame("delete", n))
    BY <1>6 DEF Send, Change
  <2> QED
    BY <1>1, <2>1
<1>7. UNCHANGED line => Sends(s, m)'
  BY DEF Sends
<1> QED
  BY <1>3, <1>4, <1>5, <1>6, <1>7, Writers DEF Everything, Lines

\* What a consumer has stored it will announce.
LEMMA HandsEnd ==
    ASSUME TypeOK, [Next]_vars, NEW s \in Sockets, hand[s].type \in {"new", "changed"}
    PROVE  hand'[s] = hand[s] \/ Tell(s)
<1>1. hand[s] # Idle
  BY IdleIs
<1>2. ASSUME NEW r \in Sockets, TakeSend(r) PROVE hand'[s] = hand[s]
  BY <1>1, <1>2, TakingSend
<1>3. ASSUME NEW r \in Sockets, TakeChange(r) PROVE hand'[s] = hand[s]
  <2>1. hand[r] = Idle /\ (hand' = hand \/ \A q \in Sockets : q # r => hand'[q] = hand[q])
    BY <1>3, TakingChange
  <2> QED
    BY <1>1, <2>1
<1>4. ASSUME NEW r \in Sockets, Save(r) PROVE hand'[s] = hand[s]
  BY <1>4, Saving
<1>5. ASSUME NEW r \in Sockets, Tell(r) PROVE hand'[s] = hand[s] \/ Tell(s)
  BY <1>5, Telling
<1> QED
  BY <1>2, <1>3, <1>4, <1>5, Writers DEF Everything, Hands

\* An event on its way is delivered, or lost with its socket.
LEMMA BoxesEnd ==
    ASSUME TypeOK, [Next]_vars, NEW s \in Sockets, NEW e, In(inbox[s], e)
    PROVE  \/ In(inbox'[s], e)
           \/ Deliver(s) /\ e = Head(inbox[s])
           \/ Drop(s)
           \/ \E t \in Tabs : Leave(t) /\ s = <<t, "page">> /\ s \in up
<1>0. inbox \in [Sockets -> Seq(Events)] /\ inbox[s] \in Seq(Events)
  BY DEF TypeOK
<1>1. ASSUME NEW t \in Tabs, inbox' = [inbox EXCEPT ![<<t, "page">>] = <<>>]
      PROVE  In(inbox'[s], e) \/ s = <<t, "page">>
  BY <1>0, <1>1
<1>2. ASSUME NEW r \in Sockets, inbox' = [inbox EXCEPT ![r] = <<>>]
      PROVE  In(inbox'[s], e) \/ s = r
  BY <1>0, <1>2
<1>3. ASSUME NEW r \in Sockets, inbox[r] # <<>>, inbox' = [inbox EXCEPT ![r] = Tail(inbox[r])]
      PROVE  In(inbox'[s], e) \/ (s = r /\ e = Head(inbox[s]))
  <2>1. CASE r # s
    BY <1>0, <1>3, <2>1
  <2>2. CASE r = s
    <3>1. inbox'[s] = Tail(inbox[s])
      BY <1>0, <1>3, <2>2
    <3> QED
      BY <1>0, <1>3, <2>2, <3>1, Tailed
  <2> QED
    BY <2>1, <2>2
<1>4. ASSUME NEW x \in Events, Announce(x) PROVE In(inbox'[s], e)
  BY <1>4, Announcing
<1>5. ASSUME NEW r \in Sockets, hand[r] \in Events, Announce(hand[r]) PROVE In(inbox'[s], e)
  <2>1. \A x : x = hand[r] => x \in Events /\ Announce(x)
    BY <1>5
  <2> QED
    BY <1>4, <2>1
<1>6. ASSUME NEW m \in Messages, Event("new", m, "first", 1) \in Events,
             Announce(Event("new", m, "first", 1))
      PROVE  In(inbox'[s], e)
  BY <1>4, <1>6
<1> QED
  BY <1>1, <1>2, <1>3, <1>5, <1>6, BoxesMove

\* A lost socket leaves what its tab was sending stranded.
LEMMA LinksMove ==
    ASSUME TypeOK, [Next]_vars
    PROVE  /\ stranded \subseteq stranded'
           /\ \A s \in up : s \in up' \/ \A m \in Messages :
                 post[m] = Quiet /\ from[m] = TabOf(s) => m \in stranded'
           /\ \A s \in Sockets, m \in Messages : Drop(s) /\ post[m] = Quiet /\ from[m] = TabOf(s)
                 => m \in stranded'
           /\ \A t \in Tabs, m \in Messages :
                 Leave(t) /\ <<t, "page">> \in up /\ post[m] = Quiet /\ from[m] = t => m \in stranded'
<1>1. ASSUME NEW s \in Sockets, Drop(s)
      PROVE  up' = up \ {s} /\ stranded' = stranded \cup Sending(TabOf(s))
  BY <1>1 DEF Drop
<1>2. ASSUME NEW t \in Tabs, Leave(t)
      PROVE  IF <<t, "page">> \in up
             THEN up' = up \ {<<t, "page">>} /\ stranded' = stranded \cup Sending(t)
             ELSE up' = up /\ stranded' = stranded
  BY <1>2 DEF Leave
<1>3. ASSUME NEW s \in Sockets, Connect(s) PROVE up' = up \cup {s} /\ stranded' = stranded
  BY <1>3 DEF Connect, ghosts
<1>4. \A t \in Tabs : TabOf(<<t, "page">>) = t
  BY DEF TabOf
<1> QED
  BY <1>1, <1>2, <1>3, <1>4, Writers DEF Everything, Links, Sending

LEMMA ReachedStep == ASSUME Base, Reached, [Next]_vars PROVE Reached'
<1>0. TypeOK /\ TypeOK' /\ Threaded /\ up \subseteq Sockets /\ ChatAssumption
  BY Stays, BaseStep, ChatAssumption DEF Base, TypeOK
<1>1. ASSUME NEW m \in Messages, post'[m] = Quiet, from'[m] # NoTab, m \notin stranded'
      PROVE  \E s \in up' : TabOf(s) = from'[m]
  <2>1. CASE \E s \in Sockets : Send(s, m)
    <3>1. PICK s \in Sockets : Send(s, m)
      BY <2>1
    <3>2. from'[m] = TabOf(s) /\ up' = up
      BY <1>0, <3>1, OriginsMove DEF Send
    <3>3. s \in up
      BY <1>0, <1>1, <3>1, PostsMove DEF Quiet
    <3> QED
      BY <3>2, <3>3
  <2>2. CASE ~\E s \in Sockets : Send(s, m)
    <3>1. from'[m] = from[m] /\ post[m] = Quiet
      BY <1>0, <1>1, <2>2, OriginsMove, PostsMove DEF Quiet
    <3>2. PICK s \in up : TabOf(s) = from[m]
      BY <1>0, <1>1, <3>1, LinksMove DEF Reached
    <3>3. s \in up'
      BY <1>0, <1>1, <3>1, <3>2, LinksMove
    <3> QED
      BY <3>1, <3>2, <3>3
  <2> QED
    BY <2>1, <2>2
<1>2. ASSUME NEW t \in Tabs, NEW x, NEW m \in Messages, m = x.m, x.kind = "pending",
             In(thread[t], x), In(thread'[t], x)
      PROVE  m \in waiting' \/ (post'[m] = Quiet /\ (m \notin stranded' => Way(t, m)'))
  <2>1. from[m] = t /\ t # NoTab
    BY <1>0, <1>2 DEF Threaded
  <2>2. ~PostSettles(m) /\ ~PostFails(m) /\ \A s \in Sockets : ~Send(s, m)
    BY <1>0, <1>2, <2>1, Placeholders, OriginsMove
  <2>3. CASE m \in waiting
    BY <2>2, <2>3, WaitingEnds
  <2>4. ASSUME post[m] = Quiet, m \notin stranded => Way(t, m), m \notin stranded'
        PROVE  Way(t, m)'
    <3>1. PICK s \in Sockets :
             \/ Sends(s, m)
             \/ hand[s].type = "new" /\ hand[s].m = m
             \/ TabOf(s) = t /\ \E e : In(inbox[s], e) /\ e.type = "new" /\ e.m = m
      BY <1>0, <2>4, LinksMove DEF Way
    <3>2. CASE Sends(s, m)
      <4>1. CASE Sends(s, m)'
        BY <4>1 DEF Way
      <4>2. CASE TakeSend(s) /\ m = Head(line[s]).m
        <5>1. hand'[s] = Event("new", m, "first", 1)
          BY <1>0, <4>2, TakingSend
        <5> QED
          BY <5>1 DEF Way, Event
      <4>3. CASE Drop(s)
        BY <1>0, <2>1, <2>4, <3>2, <4>3, LinksMove DEF Base, Born
      <4> QED
        BY <1>0, <3>2, <4>1, <4>2, <4>3, SendsEnd
    <3>3. CASE hand[s].type = "new" /\ hand[s].m = m
      <4>1. CASE hand'[s] = hand[s]
        BY <3>3, <4>1 DEF Way
      <4>2. CASE Tell(s)
        <5>1. PICK r \in up : TabOf(r) = t
          BY <1>0, <2>1, <2>4, LinksMove DEF Reached
        <5>2. \A e : e = hand[s] => e \in Events /\ Announce(e)
          BY <1>0, <4>2, Telling
        <5>3. In(inbox'[r], hand[s])
          BY <1>0, <5>1, <5>2, Announcing
        <5> QED
          BY <1>0, <3>3, <5>1, <5>3 DEF Way, TabOf
      <4> QED
        BY <1>0, <3>3, <4>1, <4>2, HandsEnd
    <3>4. ASSUME TabOf(s) = t, NEW e, In(inbox[s], e), e.type = "new", e.m = m PROVE Way(t, m)'
      <4>1. CASE In(inbox'[s], e)
        BY <3>4, <4>1 DEF Way, TabOf
      <4>2. CASE Deliver(s) /\ e = Head(inbox[s])
        BY <1>2, <3>4, <4>2, Placeholders
      <4>3. CASE Drop(s)
        BY <1>0, <2>1, <2>4, <3>4, <4>3, LinksMove
      <4>4. ASSUME NEW u \in Tabs, Leave(u), s = <<u, "page">>, s \in up PROVE FALSE
        BY <1>0, <2>1, <2>4, <3>4, <4>4, LinksMove DEF TabOf
      <4> QED
        BY <1>0, <3>4, <4>1, <4>2, <4>3, <4>4, BoxesEnd
    <3> QED
      BY <3>1, <3>2, <3>3, <3>4
  <2>5. CASE post[m] = Quiet /\ (m \notin stranded => Way(t, m))
    <3>1. post'[m] = Quiet
      BY <1>0, <2>2, <2>5, PostsMove DEF Quiet
    <3> QED
      BY <2>4, <2>5, <3>1
  <2> QED
    BY <1>2, <2>3, <2>5 DEF Reached
<1>3. ASSUME NEW t \in Tabs, NEW s \in Sockets, NEW m \in Messages, Send(s, m), TabOf(s) = t
      PROVE  m \in waiting' \/ (post'[m] = Quiet /\ (m \notin stranded' => Way(t, m)'))
  <2>1. CASE s \notin up
    BY <1>0, <1>3, <2>1, PostsMove
  <2>2. CASE s \in up
    <3>1. post[m] = Quiet /\ post' = post
      BY <1>0, <1>3, <2>2, PostsMove DEF Base, Born, Send
    <3>2. Frame("send", m) \in Frames /\ Say(s, Frame("send", m))
      BY <1>3, FrameIs DEF Send
    <3>3. Sends(s, m)'
      BY <1>0, <2>2, <3>2, Saying DEF Sends
    <3> QED
      BY <3>1, <3>3 DEF Way
  <2> QED
    BY <2>1, <2>2
<1>4. ASSUME NEW t \in Tabs, NEW x, In(thread'[t], x), x.kind = "pending"
      PROVE  x.m \in waiting' \/ (post'[x.m] = Quiet /\ (x.m \notin stranded' => Way(t, x.m)'))
  <2>1. x.m \in Messages
    <3>1. thread'[t] \in Seq(Rows)
      BY <1>0 DEF TypeOK
    <3>2. x \in Rows
      BY <1>4, <3>1, Members
    <3> QED
      BY <3>2 DEF Rows
  <2>2. \/ In(thread[t], x)
        \/ \E s \in Sockets : TabOf(s) = t /\ x.m \in Messages /\ Send(s, x.m)
    BY <1>4, Placeholders
  <2> QED
    BY <1>2, <1>3, <1>4, <2>1, <2>2
<1> QED
  BY <1>1, <1>4 DEF Reached

LEMMA ReachedAlways == Spec => []Reached
<1>1. Init => Reached
  <2>1. ASSUME Init, NEW m \in Messages, post[m] = Quiet PROVE from[m] = NoTab
    BY <2>1 DEF Init, Quiet
  <2>2. ASSUME Init, NEW t \in Tabs, NEW x PROVE ~In(thread[t], x)
    BY <2>2 DEF Init, In
  <2> QED
    BY <2>1, <2>2 DEF Reached
<1>2. Base /\ Reached /\ [Next]_vars => Reached'
  BY ReachedStep
<1> QED
  BY <1>1, <1>2, BaseAlways, PTL DEF Spec

\* A message says "sending" only while something is on its way that will settle it,
\* unless the socket it was sent on has been lost (sendMessage).
THEOREM SendingIsCarriedCorrect == Spec => []SendingIsCarried
<1>1. Reached => SendingIsCarried
  BY Ways DEF Reached, SendingIsCarried, In
<1> QED
  BY <1>1, ReachedAlways, PTL

-----------------------------------------------------------------------------
(* The versions of a message                                               *)

Jobbed(s, m, types) == hand[s].type \in types /\ hand[s].m = m

\* What an event says of its message, whatever happened since.
Heralds(e) ==
    /\ e.ver >= 1 /\ e.ver <= db[e.m].ver
    /\ e.type = "new" => e.text = "first" /\ e.ver = 1
    /\ e.type = "changed" => db[e.m].ver >= 2

Told == \A m \in Messages : told[m] <= db[m].ver

\* The stored version is the first one, or announced, or about to be.
Newest == \A m \in Messages : IsStored(m) =>
              \/ db[m].ver = 1 \/ told[m] = db[m].ver
              \/ \E s \in Sockets : Jobbed(s, m, {"changed"}) /\ hand[s].ver = db[m].ver

Fresh == \A m \in Messages : db[m].ver = 1 => db[m].text = "first" /\ ~db[m].gone

Held == \A s \in Sockets : \A e : e = hand[s] /\ e # Idle =>
           /\ Heralds(e)
           /\ e.type \in {"edit", "delete"} /\ e.ver = db[e.m].ver => ~db[e.m].gone

Heralded == \A s \in Sockets : \A e : In(inbox[s], e) => Heralds(e)

Untouched == \A t \in Tabs : \A x :
    (In(thread[t], x) \/ In(answer[t], x)) /\ x.kind = "message" /\ db[x.m].ver = 1
        => x.text = "first"

Versions == Told /\ Newest /\ Fresh /\ Held /\ Heralded /\ Untouched

LEMMA DbMoves ==
    ASSUME Base, [Next]_vars, NEW m \in Messages
    PROVE  /\ db[m].ver \in Nat /\ db'[m].ver \in Nat /\ db[m].ver <= db'[m].ver
           /\ \/ db'[m] = db[m]
              \/ /\ db[m].ver = 0 /\ db'[m].ver = 1 /\ db'[m].text = "first" /\ db'[m].gone = FALSE
                 /\ PostStore(m) \/ \E s \in Sockets : TakeSend(s) /\ m = Head(line[s]).m
              \/ \E s \in Sockets : /\ Save(s) /\ hand[s].m = m
                                    /\ db'[m].ver = db[m].ver + 1
<1>0. TypeOK /\ db \in [Messages -> Records] /\ db' \in [Messages -> Records]
  BY StoredGrows DEF Base, TypeOK
<1>1. db[m].ver \in Nat /\ db'[m].ver \in Nat
  BY <1>0 DEF Records
<1>2. ASSUME NEW n \in Messages, Create(n), ~IsStored(n),
             PostStore(n) \/ \E s \in Sockets : TakeSend(s) /\ n = Head(line[s]).m
      PROVE  \/ db'[m] = db[m]
             \/ /\ db[m].ver = 0 /\ db'[m].ver = 1 /\ db'[m].text = "first" /\ db'[m].gone = FALSE
                /\ PostStore(m) \/ \E s \in Sockets : TakeSend(s) /\ m = Head(line[s]).m
  <2>1. /\ \A k \in Messages : k # n => db'[k] = db[k]
        /\ db'[n].ver = 1 /\ db'[n].text = "first" /\ db'[n].gone = FALSE
    BY <1>0, <1>2, Creating
  <2> QED
    BY <1>1, <1>2, <2>1 DEF IsStored
<1>3. ASSUME NEW s \in Sockets, TakeSend(s)
      PROVE  /\ Head(line[s]).m \in Messages /\ Create(Head(line[s]).m)
             /\ ~IsStored(Head(line[s]).m)
  BY <1>0, <1>3, TakingSend DEF Base, Born
<1>4. \A n \in Messages : PostStore(n) => Create(n) /\ ~IsStored(n)
  BY DEF PostStore, Base, Born
<1>5. ASSUME NEW s \in Sockets, Save(s)
      PROVE  db'[m] = db[m] \/ (hand[s].m = m /\ db'[m].ver = db[m].ver + 1)
  BY <1>0, <1>5, Saving
<1>6. UNCHANGED <<db, stored>> => db'[m] = db[m]
  OBVIOUS
<1>7. \/ db'[m] = db[m]
      \/ /\ db[m].ver = 0 /\ db'[m].ver = 1 /\ db'[m].text = "first" /\ db'[m].gone = FALSE
         /\ PostStore(m) \/ \E s \in Sockets : TakeSend(s) /\ m = Head(line[s]).m
      \/ \E s \in Sockets : /\ Save(s) /\ hand[s].m = m
                            /\ db'[m].ver = db[m].ver + 1
  BY <1>2, <1>3, <1>4, <1>5, <1>6, Writers DEF Everything, Stores
<1> QED
  BY <1>1, <1>7

\* Whatever announces an event, and what it has to do with the event.
Source(e) == \/ \E s \in Sockets : Tell(s) /\ e = hand[s]
             \/ \E m \in Messages : PostAnnounce(m) /\ e = Event("new", m, "first", 1)

LEMMA Sources ==
    ASSUME Base, [Next]_vars, Versions, NEW e, Source(e)
    PROVE  /\ e \in Events /\ e.m \in Messages /\ e.type \in {"new", "changed"} /\ e.ver \in Nat
           /\ Announce(e) /\ Heralds(e) /\ db' = db /\ up' = up /\ line' = line
           /\ UNCHANGED tabVars
           /\ \/ \E s \in Sockets : Tell(s) /\ e = hand[s] /\ post' = post
              \/ /\ post[e.m] = "stored" /\ post'[e.m] = "answered" /\ hand' = hand
                 /\ e.type = "new" /\ e.text = "first" /\ e.ver = 1
                 /\ \A m \in Messages : m # e.m => post'[m] = post[m]
<1>0. TypeOK
  BY DEF Base
<1>1. ASSUME NEW s \in Sockets, Tell(s), e = hand[s]
      PROVE  /\ e \in Events /\ Announce(e) /\ Heralds(e) /\ UNCHANGED <<db, up, line, post>>
             /\ UNCHANGED tabVars
  <2>1. e \in Events /\ Announce(e)
    BY <1>0, <1>1, Telling
  <2>2. Heralds(e)
    BY <1>1, <2>1, IdleIs DEF Versions, Held
  <2> QED
    BY <1>1, <2>1, <2>2 DEF Tell, serverVars, calls
<1>2. ASSUME NEW m \in Messages, PostAnnounce(m), e = Event("new", m, "first", 1)
      PROVE  /\ e \in Events /\ Announce(e) /\ Heralds(e) /\ UNCHANGED <<db, up, line, hand>>
             /\ post[m] = "stored" /\ post'[m] = "answered" /\ e.m = m
             /\ e.type = "new" /\ e.text = "first" /\ e.ver = 1
             /\ \A n \in Messages : n # m => post'[n] = post[n]
             /\ UNCHANGED tabVars
  <2>1. /\ e \in Events /\ e.type = "new" /\ e.m = m /\ e.text = "first" /\ e.ver = 1
        /\ Announce(e) /\ post[m] = "stored" /\ post'[m] = "answered"
        /\ \A n \in Messages : n # m => post'[n] = post[n]
    BY <1>0, <1>2, PostAnnouncing
  <2>2. db[m].ver \in Nat /\ db[m].ver > 0
    BY <2>1 DEF Base, Born, IsStored, TypeOK, Records
  <2>3. Heralds(e)
    BY <2>1, <2>2 DEF Heralds
  <2>4. UNCHANGED <<db, up, line, hand>> /\ UNCHANGED tabVars
    BY <1>2 DEF PostAnnounce, serverVars
  <2> QED
    BY <2>1, <2>3, <2>4
<1>3. e \in Events /\ Announce(e) /\ Heralds(e) /\ UNCHANGED <<db, up, line>> /\ UNCHANGED tabVars
  BY <1>1, <1>2 DEF Source
<1>4. e.m \in Messages /\ e.type \in {"new", "changed"} /\ e.ver \in Nat
  BY <1>3 DEF Events
<1> QED
  BY <1>1, <1>2, <1>3, <1>4 DEF Source

\* What becomes of the events and of the versions they announce.
LEMMA Announcements ==
    ASSUME Base, [Next]_vars, Versions
    PROVE  /\ \/ \E e : Source(e)
              \/ told' = told /\ crossed \subseteq crossed'
           /\ \/ \E e : Source(e)
              \/ inbox' = inbox
              \/ \E t \in Tabs : /\ Leave(t) /\ <<t, "page">> \in up
                                 /\ inbox' = [inbox EXCEPT ![<<t, "page">>] = <<>>]
              \/ \E s \in Sockets : Drop(s) /\ inbox' = [inbox EXCEPT ![s] = <<>>]
              \/ \E s \in Sockets : /\ Deliver(s) /\ s \in up /\ inbox[s] # <<>>
                                    /\ inbox' = [inbox EXCEPT ![s] = Tail(inbox[s])]
           /\ crossed \subseteq crossed'
<1>0. TypeOK
  BY DEF Base
<1>1. \A s \in Sockets : Save(s) => told' = told /\ crossed \subseteq crossed'
  BY DEF Save
<1>2. \A s \in Sockets : Tell(s) => \E e : Source(e)
  BY DEF Source
<1>3. \A m \in Messages : PostAnnounce(m) => \E e : Source(e)
  BY DEF Source
<1>4. \A e : Source(e) => crossed \subseteq crossed'
  BY <1>0, Sources, Announcing
<1>5. \/ \E e : Source(e)
      \/ told' = told /\ crossed \subseteq crossed'
  BY <1>1, <1>2, <1>3, Writers DEF Everything, Tellings
<1> QED
  BY <1>0, <1>2, <1>3, <1>4, <1>5, BoxesMove

\* Where a message in the thread after a step comes from.
LEMMA Messaged ==
    ASSUME Base, [Next]_vars, NEW t \in Tabs, NEW x, In(thread'[t], x), x.kind = "message"
    PROVE  \/ In(thread[t], x) \/ In(answer[t], x) \/ x.text = "first"
           \/ \E s \in Sockets : \E e : In(inbox[s], e) /\ x.m = e.m /\ x.text = e.text
<1>1. ASSUME NEW s \in Sockets, NEW m \in Messages, Send(s, m) PROVE In(thread[t], x)
  <2> DEFINE u == TabOf(s)
             y == Row(m, "pending", "first")
  <2>1. /\ u \in loaded => /\ Becomes(u, Append(thread[u], y))
                           /\ \A z : In(thread'[u], z) <=> In(thread[u], z) \/ z = y
        /\ u \notin loaded => thread' = thread
        /\ y.kind = "pending"
    BY <1>1, SendShows
  <2> HIDE DEF u, y
  <2> QED
    BY <2>1 DEF Becomes
<1>2. ASSUME NEW s \in Sockets, Deliver(s)
      PROVE  \/ In(thread[t], x)
             \/ \E e : In(inbox[s], e) /\ x.m = e.m /\ x.text = e.text
  <2> DEFINE u == TabOf(s)
             e == Head(inbox[s])
             y == Row(e.m, "message", e.text)
  <2>1. /\ u \in Tabs /\ e \in Events /\ In(inbox[s], e) /\ y.m = e.m /\ y.text = e.text
        /\ u \in loaded =>
              /\ Becomes(u, Merge(thread[u], e))
              /\ e.type = "new" /\ Has(thread[u], e.m) => thread'[u] = thread[u]
              /\ e.type = "new" /\ ~Has(thread[u], e.m) =>
                    \A z : In(thread'[u], z) <=> (In(thread[u], z) /\ z.m # e.m) \/ z = y
              /\ e.type = "changed" =>
                    \A z : In(thread'[u], z)
                       <=> \/ In(thread[u], z) /\ ~(z.m = e.m /\ z.kind = "message")
                           \/ z = y /\ Has(thread[u], e.m)
        /\ u \notin loaded => thread' = thread
    BY <1>2, DeliverShows
  <2> HIDE DEF u, e, y
  <2>2. e.type \in {"new", "changed"}
    BY <2>1 DEF Events
  <2>3. In(thread[t], x) \/ x = y
    BY <2>1, <2>2 DEF Becomes
  <2> QED
    BY <2>1, <2>3
<1>3. ASSUME NEW u \in Tabs, HistoryArrives(u) PROVE In(thread[t], x) \/ In(answer[t], x)
  <2>1. CASE Becomes(u, answer[u])
    BY <2>1 DEF Becomes
  <2>2. CASE thread' = thread
    BY <2>2
  <2> QED
    BY <1>3, <2>1, <2>2, ArrivesShows
<1>4. ASSUME NEW m \in Messages, NEW ok \in BOOLEAN, m \in waiting,
             LET u == from[m]
             IN  thread' = IF u \in loaded THEN [thread EXCEPT ![u] = Settled(@, m, ok)] ELSE thread
      PROVE  In(thread[t], x) \/ x.text = "first"
  <2> DEFINE u == from[m]
             y == Row(m, "message", "first")
             n == Row(m, "failed", "first")
  <2>1. y.text = "first" /\ n.text = "first"
    BY RowIs DEF Texts
  <2>2. /\ u \in loaded =>
           /\ Becomes(u, Settled(thread[u], m, ok))
           /\ ~ok => \A z : In(thread'[u], z) =>
                 (In(thread[u], z) /\ ~(z.m = m /\ z.kind = "pending")) \/ z = n
           /\ ok /\ Has(thread[u], m) => \A z : In(thread'[u], z)
                 <=> In(thread[u], z) /\ (z.m # m \/ z.kind = "message")
           /\ ok /\ ~Has(thread[u], m) => \A z : In(thread'[u], z) =>
                 (In(thread[u], z) /\ z.m # m) \/ z = y
        /\ u \notin loaded => thread' = thread
    BY <1>4, SettlesShows
  <2> HIDE DEF u, y, n
  <2> QED
    BY <2>1, <2>2 DEF Becomes
<1>5. \A m \in Messages : PostSettles(m) => In(thread[t], x) \/ x.text = "first"
  BY <1>4 DEF PostSettles
<1>6. \A m \in Messages : PostFails(m) => In(thread[t], x) \/ x.text = "first"
  BY <1>4 DEF PostFails
<1> QED
  BY <1>1, <1>2, <1>3, <1>5, <1>6, Writers DEF Everything, Threads

\* And a row of an answer.
LEMMA AnswersMove ==
    ASSUME Base, [Next]_vars
    PROVE  \/ answer' = answer
           \/ \E t \in Tabs : /\ HistoryAnswers(t) /\ db' = db /\ answer'[t] = Snapshot
                              /\ \A u \in Tabs : u # t => answer'[u] = answer[u]
           \/ \E t \in Tabs : /\ HistoryArrives(t) /\ answer'[t] = <<>>
                              /\ \A u \in Tabs : u # t => answer'[u] = answer[u]
<1>0. answer \in [Tabs -> Seq(Rows)]
  BY DEF Base, TypeOK
<1>1. ASSUME NEW t \in Tabs, HistoryAnswers(t)
      PROVE  /\ db' = db /\ answer'[t] = Snapshot
             /\ \A u \in Tabs : u # t => answer'[u] = answer[u]
  BY <1>0, <1>1 DEF HistoryAnswers, serverVars
<1>2. ASSUME NEW t \in Tabs, HistoryArrives(t)
      PROVE  answer'[t] = <<>> /\ \A u \in Tabs : u # t => answer'[u] = answer[u]
  BY <1>0, <1>2 DEF HistoryArrives
<1> QED
  BY <1>1, <1>2, Writers DEF Everything, Answers

LEMMA VersionsStep == ASSUME Base, Versions, [Next]_vars PROVE Versions'
<1>0. /\ TypeOK /\ TypeOK' /\ Numbered /\ Shown /\ told \in [Messages -> Nat]
      /\ told' \in [Messages -> Nat] /\ Threaded /\ Answered
  BY BaseStep DEF Base, TypeOK, Shown, Lone, Threaded, Answered
<1>g. \A m \in Messages :
         /\ db[m].ver \in Nat /\ db'[m].ver \in Nat /\ db[m].ver <= db'[m].ver
         /\ db'[m].ver = db[m].ver => db'[m] = db[m]
  <2> SUFFICES ASSUME NEW m \in Messages
               PROVE  /\ db[m].ver \in Nat /\ db'[m].ver \in Nat /\ db[m].ver <= db'[m].ver
                      /\ db'[m].ver = db[m].ver => db'[m] = db[m]
    OBVIOUS
  <2>1. /\ db[m].ver \in Nat /\ db'[m].ver \in Nat /\ db[m].ver <= db'[m].ver
        /\ \/ db'[m] = db[m]
           \/ db[m].ver = 0 /\ db'[m].ver = 1
           \/ db'[m].ver = db[m].ver + 1
    BY DbMoves
  <2> QED
    BY <2>1
<1>1. ASSUME NEW e, Heralds(e), e.m \in Messages, e.ver \in Nat PROVE Heralds(e)'
  BY <1>1, <1>g DEF Heralds
<1>2. Told'
  <2>1. ASSUME NEW e, Source(e), NEW m \in Messages PROVE told'[m] <= db'[m].ver
    <3>1. /\ e \in Events /\ Announce(e) /\ Heralds(e) /\ e.ver \in Nat /\ e.m \in Messages
          /\ db' = db
      BY <2>1, Sources
    <3>2. /\ told'[e.m] = IF e.ver > told[e.m] THEN e.ver ELSE told[e.m]
          /\ m # e.m => told'[m] = told[m]
      BY <1>0, <3>1, Announcing
    <3> QED
      BY <1>0, <3>1, <3>2 DEF Versions, Told, Heralds
  <2>2. ASSUME told' = told, NEW m \in Messages PROVE told'[m] <= db'[m].ver
    BY <1>0, <1>g, <2>2 DEF Versions, Told
  <2> QED
    BY <2>1, <2>2, Announcements DEF Told
<1>3. ASSUME NEW m \in Messages PROVE told[m] <= told'[m]
  <2>1. ASSUME NEW e, Source(e) PROVE told[m] <= told'[m]
    <3>1. e \in Events /\ Announce(e) /\ e.ver \in Nat /\ e.m \in Messages
      BY <2>1, Sources
    <3>2. /\ told'[e.m] = IF e.ver > told[e.m] THEN e.ver ELSE told[e.m]
          /\ m # e.m => told'[m] = told[m]
      BY <1>0, <3>1, Announcing
    <3> QED
      BY <1>0, <3>1, <3>2
  <2> QED
    BY <1>0, <2>1, Announcements
<1>4. ASSUME NEW m \in Messages, IsStored(m)'
      PROVE  \/ db'[m].ver = 1 \/ told'[m] = db'[m].ver
             \/ \E s \in Sockets : Jobbed(s, m, {"changed"})' /\ hand'[s].ver = db'[m].ver
  <2>1. ASSUME NEW s \in Sockets, Save(s), hand[s].m = m
        PROVE  Jobbed(s, m, {"changed"})' /\ hand'[s].ver = db'[m].ver
    <3>1. hand'[s] = Event("changed", m, db'[m].text, db'[m].ver)
      BY <1>0, <2>1, Saving
    <3> QED
      BY <3>1 DEF Jobbed, Event
  <2>2. ASSUME db'[m] = db[m]
        PROVE  \/ db'[m].ver = 1 \/ told'[m] = db'[m].ver
               \/ \E s \in Sockets : Jobbed(s, m, {"changed"})' /\ hand'[s].ver = db'[m].ver
    <3>1. CASE told[m] = db[m].ver
      BY <1>0, <1>2, <1>3, <1>g, <2>2, <3>1 DEF Told
    <3>2. ASSUME NEW s \in Sockets, Jobbed(s, m, {"changed"}), hand[s].ver = db[m].ver
          PROVE  told'[m] = db'[m].ver \/ (Jobbed(s, m, {"changed"})' /\ hand'[s].ver = db'[m].ver)
      <4>1. CASE hand'[s] = hand[s]
        BY <2>2, <3>2, <4>1 DEF Jobbed
      <4>2. CASE Tell(s)
        <5>1. \A e : e = hand[s] => /\ e \in Events /\ Announce(e) /\ e.ver = db[m].ver /\ e.m = m
          BY <1>0, <3>2, <4>2, Telling DEF Jobbed
        <5>2. told'[m] = IF db[m].ver > told[m] THEN db[m].ver ELSE told[m]
          BY <1>0, <5>1, Announcing
        <5>3. told[m] <= db[m].ver /\ told[m] \in Nat /\ db[m].ver \in Nat
          BY <1>0, <1>g DEF Versions, Told
        <5>4. told'[m] = db[m].ver
          BY <5>2, <5>3
        <5> QED
          BY <2>2, <5>4
      <4>3. hand[s].type = "changed"
        BY <3>2 DEF Jobbed
      <4> QED
        BY <1>0, <4>1, <4>2, <4>3, HandsEnd
    <3> QED
      BY <1>4, <2>2, <3>1, <3>2 DEF Versions, Newest, IsStored
  <2> QED
    BY <2>1, <2>2, DbMoves
<1>5. Newest'
  <2>1. \A m \in Messages : IsStored(m)' => \/ db'[m].ver = 1 \/ told'[m] = db'[m].ver
             \/ \E s \in Sockets : Jobbed(s, m, {"changed"})' /\ hand'[s].ver = db'[m].ver
    BY <1>4
  <2> QED
    BY <2>1 DEF Newest
<1>6. Fresh'
  <2>1. ASSUME NEW m \in Messages, db'[m].ver = 1 PROVE db'[m].text = "first" /\ ~db'[m].gone
    <3>1. ASSUME NEW s \in Sockets, Save(s), hand[s].m = m PROVE FALSE
      <4>1. db[m].ver > 0
        BY <1>0, <3>1, Saving, IdleIs DEF Shown, IsStored
      <4>2. db'[m].ver = db[m].ver + 1
        BY <1>0, <3>1, Saving
      <4> QED
        BY <1>g, <2>1, <4>1, <4>2
    <3> QED
      BY <2>1, <3>1, DbMoves DEF Versions, Fresh
  <2> QED
    BY <2>1 DEF Fresh
<1>7. ASSUME NEW s \in Sockets, NEW e, e = hand'[s], e # Idle
      PROVE  /\ Heralds(e)'
             /\ e.type \in {"edit", "delete"} /\ e.ver = db'[e.m].ver => ~db'[e.m].gone
  <2>0. e \in Jobs /\ e.m \in Messages /\ e.ver \in Nat
    BY <1>0, <1>7 DEF TypeOK, Jobs
  <2>1. CASE hand[s] = e
    <3>1. /\ Heralds(e) /\ db[e.m].ver \in Nat
          /\ e.type \in {"edit", "delete"} /\ e.ver = db[e.m].ver => ~db[e.m].gone
      BY <1>7, <1>g, <2>0, <2>1 DEF Versions, Held
    <3>2. e.ver = db'[e.m].ver => db'[e.m] = db[e.m]
      BY <1>g, <2>0, <3>1 DEF Heralds
    <3> QED
      BY <1>1, <2>0, <3>1, <3>2
  <2>2. CASE TakeSend(s)
    <3> DEFINE m == Head(line[s]).m
    <3>1. m \in Messages /\ Create(m) /\ e = Event("new", m, "first", 1)
      BY <1>0, <1>7, <2>2, TakingSend
    <3>2. db'[m].ver = 1
      BY <1>0, <3>1, Creating
    <3> HIDE DEF m
    <3>3. e.type = "new" /\ e.m = m /\ e.text = "first" /\ e.ver = 1
      BY <3>1 DEF Event
    <3> QED
      BY <3>2, <3>3 DEF Heralds
  <2>3. ASSUME TakeChange(s), e # hand[s]
        PROVE  /\ Heralds(e)'
               /\ e.type \in {"edit", "delete"} /\ e.ver = db'[e.m].ver => ~db'[e.m].gone
    <3>1. /\ IsStored(e.m) /\ ~db[e.m].gone /\ e.ver = db[e.m].ver /\ e.type \in {"edit", "delete"}
      <4> DEFINE f == Head(line[s])
                 x == Event(f.do, f.m, "none", db[f.m].ver)
      <4>1. /\ f.do \in {"edit", "delete"}
            /\ \/ hand' = hand
               \/ /\ IsStored(f.m) /\ ~db[f.m].gone /\ hand'[s] = x
                  /\ x.type = f.do /\ x.m = f.m /\ x.ver = db[f.m].ver
        BY <1>0, <2>3, TakingChange
      <4> HIDE DEF f, x
      <4> QED
        BY <1>7, <2>3, <4>1
    <3>2. db' = db
      BY <2>3 DEF TakeChange, serverVars
    <3>3. db[e.m].ver \in Nat
      BY <1>g, <2>0
    <3> QED
      BY <3>1, <3>2, <3>3 DEF Heralds, IsStored
  <2>4. CASE Save(s)
    <3> DEFINE m == hand[s].m
    <3>1. /\ m \in Messages /\ hand[s].type \in {"edit", "delete"} /\ db'[m].ver = db[m].ver + 1
          /\ e = Event("changed", m, db'[m].text, db'[m].ver)
      BY <1>0, <1>7, <2>4, Saving
    <3>2. IsStored(m)
      BY <1>0, <3>1, IdleIs DEF Shown
    <3> HIDE DEF m
    <3>3. e.type = "changed" /\ e.m = m /\ e.ver = db'[m].ver
      BY <3>1 DEF Event
    <3>4. db[m].ver \in Nat /\ db[m].ver > 0
      BY <1>g, <3>1, <3>2 DEF IsStored
    <3> QED
      BY <3>1, <3>3, <3>4 DEF Heralds
  <2>5. \/ hand'[s] = hand[s] \/ TakeSend(s) \/ TakeChange(s) \/ Save(s) \/ Tell(s)
    <3>1. ASSUME NEW r \in Sockets, TakeSend(r) \/ TakeChange(r) \/ Save(r) \/ Tell(r)
          PROVE  r = s \/ hand'[s] = hand[s]
      BY <1>0, <3>1, TakingSend, TakingChange, Saving, Telling
    <3> QED
      BY <3>1, Writers DEF Everything, Hands
  <2>6. Tell(s) => e = Idle
    BY <1>0, <1>7, Telling
  <2> QED
    BY <1>7, <2>1, <2>2, <2>3, <2>4, <2>5, <2>6
<1>8. Held'
  BY <1>7 DEF Held
<1>9. Heralded'
  <2>1. ASSUME NEW s \in Sockets, NEW e, In(inbox[s], e) PROVE Heralds(e)'
    <3>1. e.m \in Messages /\ e.ver \in Nat
      BY <2>1, Known DEF Events
    <3> QED
      BY <1>1, <2>1, <3>1 DEF Versions, Heralded
  <2>2. ASSUME NEW x, Source(x), NEW s \in Sockets, NEW e, In(inbox'[s], e) PROVE Heralds(e)'
    <3>1. x \in Events /\ Announce(x) /\ Heralds(x) /\ x.ver \in Nat /\ x.m \in Messages
      BY <2>2, Sources
    <3>2. In(inbox[s], e) \/ e = x
      BY <1>0, <2>2, <3>1, Announcing
    <3> QED
      BY <1>1, <2>1, <3>1, <3>2
  <2>3. ASSUME ~\E x : Source(x), NEW s \in Sockets, NEW e, In(inbox'[s], e) PROVE In(inbox[s], e)
    <3>0. inbox \in [Sockets -> Seq(Events)]
      BY <1>0 DEF TypeOK
    <3>1. ASSUME NEW r, inbox' = [inbox EXCEPT ![r] = <<>>] PROVE In(inbox[s], e)
      BY <2>3, <3>0, <3>1, EmptyIn
    <3>2. ASSUME NEW r \in Sockets, inbox[r] # <<>>, inbox' = [inbox EXCEPT ![r] = Tail(inbox[r])]
          PROVE  In(inbox[s], e)
      <4>1. CASE r = s
        <5>1. inbox'[s] = Tail(inbox[s]) /\ inbox[s] \in Seq(Events)
          BY <3>0, <3>2, <4>1
        <5> QED
          BY <2>3, <3>2, <4>1, <5>1, Tailed
      <4>2. CASE r # s
        BY <2>3, <3>0, <3>2, <4>2
      <4> QED
        BY <4>1, <4>2
    <3> QED
      BY <2>3, <3>1, <3>2, Announcements
  <2> QED
    BY <2>1, <2>2, <2>3 DEF Heralded
<1>10. ASSUME NEW t \in Tabs, NEW x, x.kind = "message", db'[x.m].ver = 1,
              In(thread[t], x) \/ In(answer[t], x)
       PROVE  x.text = "first"
  <2>1. thread[t] \in Seq(Rows) /\ answer[t] \in Seq(Rows)
    BY <1>0 DEF TypeOK
  <2>2. x \in Rows
    BY <1>10, <2>1, Members
  <2>3. x.m \in Messages /\ IsStored(x.m)
    BY <1>0, <1>10, <2>2 DEF Threaded, Answered, Rows
  <2>4. db[x.m].ver = 1
    BY <1>10, <1>g, <2>3 DEF IsStored
  <2> QED
    BY <1>10, <2>4 DEF Versions, Untouched
<1>11. ASSUME NEW t \in Tabs, NEW x, x.kind = "message", db'[x.m].ver = 1, In(thread'[t], x)
       PROVE  x.text = "first"
  <2>1. ASSUME NEW s \in Sockets, NEW e, In(inbox[s], e), x.m = e.m, x.text = e.text
        PROVE  x.text = "first"
    <3>1. e.m \in Messages /\ e.type \in {"new", "changed"} /\ Heralds(e)
      BY <2>1, Known DEF Events, Versions, Heralded
    <3> QED
      BY <1>11, <1>g, <2>1, <3>1 DEF Heralds
  <2> QED
    BY <1>10, <1>11, <2>1, Messaged
<1>12. ASSUME NEW t \in Tabs, NEW x, x.kind = "message", db'[x.m].ver = 1, In(answer'[t], x)
       PROVE  x.text = "first"
  <2>1. ASSUME db' = db, In(Snapshot, x) PROVE x.text = "first"
    <3>1. PICK m \in Messages : Recent(m) /\ x = Row(m, "message", Body(m))
      BY <1>0, <2>1, Snapshots
    <3>2. x.m = m /\ x.text = Body(m)
      BY <3>1 DEF Row
    <3> QED
      BY <1>12, <2>1, <3>1, <3>2 DEF Versions, Fresh, Body, Recent
  <2> QED
    BY <1>10, <1>12, <2>1, AnswersMove, EmptyIn
<1>13. Untouched'
  BY <1>11, <1>12 DEF Untouched
<1> QED
  BY <1>2, <1>5, <1>6, <1>8, <1>9, <1>13 DEF Versions

LEMMA VersionsInit == ASSUME Init PROVE Versions
<1>1. \A m \in Messages :
         \/ Before(m) /\ db[m].ver = 1 /\ told[m] = 1 /\ db[m].text = "first" /\ db[m].gone = FALSE
         \/ db[m].ver = 0 /\ told[m] = 0
  BY DEF Init
<1>2. /\ \A s \in Sockets : hand[s] = Idle
      /\ \A s \in Sockets : \A e : ~In(inbox[s], e)
      /\ \A t \in Tabs : \A x : ~In(thread[t], x) /\ ~In(answer[t], x)
  BY DEF Init, In
<1> QED
  BY <1>1, <1>2 DEF Versions, Told, Newest, Fresh, Held, Heralded, Untouched, IsStored

-----------------------------------------------------------------------------
(* Versions announced in order                                             *)

\* The last event about m among those on their way announces version v.
Latest(q, m, v) == \A i \in DOMAIN q :
    q[i].m = m /\ (\A j \in DOMAIN q : j > i => q[j].m # m) => q[i].ver = v

LEMMA LatestMore ==
    ASSUME NEW q \in Seq(Events), NEW e \in Events, NEW m, NEW v, NEW w, Latest(q, m, v),
           e.m = m => e.ver = w, e.m # m => w = v
    PROVE  Latest(Append(q, e), m, w)
<1>1. /\ Len(q) \in Nat /\ DOMAIN q = 1 .. Len(q)
      /\ DOMAIN Append(q, e) = 1 .. Len(q) + 1
      /\ \A i \in 1 .. Len(q) : Append(q, e)[i] = q[i]
      /\ Append(q, e)[Len(q) + 1] = e
  BY AppendProperties, LenProperties
<1>2. \A i \in 1 .. Len(q) + 1 : i \in 1 .. Len(q) \/ i = Len(q) + 1
  BY <1>1
<1>3. \A i \in 1 .. Len(q) : i \in 1 .. Len(q) + 1 /\ Len(q) + 1 > i
  BY <1>1
<1>4. Len(q) + 1 \in 1 .. Len(q) + 1
  BY <1>1
<1>5. ASSUME NEW i \in 1 .. Len(q), Append(q, e)[i].m = m,
             \A j \in 1 .. Len(q) + 1 : j > i => Append(q, e)[j].m # m
      PROVE  Append(q, e)[i].ver = w
  <2>1. e.m # m
    BY <1>1, <1>3, <1>4, <1>5
  <2>2. q[i].m = m /\ \A j \in 1 .. Len(q) : j > i => q[j].m # m
    BY <1>1, <1>3, <1>5
  <2> QED
    BY <1>1, <2>1, <2>2 DEF Latest
<1> QED
  BY <1>1, <1>2, <1>5 DEF Latest

LEMMA LatestLess ==
    ASSUME NEW q \in Seq(Events), q # <<>>, NEW m, NEW v, Latest(q, m, v)
    PROVE  /\ Latest(Tail(q), m, v)
           /\ Head(q).m = m /\ (\A e : In(Tail(q), e) => e.m # m) => Head(q).ver = v
<1>1. /\ Len(Tail(q)) = Len(q) - 1 /\ Tail(q) \in Seq(Events)
      /\ \A i \in 1 .. Len(Tail(q)) : Tail(q)[i] = q[i + 1]
  BY HeadTailProperties
<1>2. Len(q) \in Nat \ {0} /\ DOMAIN q = 1 .. Len(q) /\ DOMAIN Tail(q) = 1 .. Len(q) - 1
  BY <1>1, LenProperties, EmptySeq
<1>3. Head(q) = q[1] /\ 1 \in DOMAIN q
  BY <1>2
<1>4. ASSUME NEW i \in DOMAIN Tail(q)
      PROVE  i + 1 \in DOMAIN q /\ q[i + 1] = Tail(q)[i] /\ i \in Nat
  BY <1>1, <1>2
<1>5. ASSUME NEW j \in DOMAIN q, NEW i \in Nat, j > i + 1
      PROVE  j - 1 \in DOMAIN Tail(q) /\ q[j] = Tail(q)[j - 1] /\ j - 1 > i
  BY <1>1, <1>2, <1>5
<1>6. ASSUME NEW i \in DOMAIN Tail(q), Tail(q)[i].m = m,
             \A j \in DOMAIN Tail(q) : j > i => Tail(q)[j].m # m
      PROVE  Tail(q)[i].ver = v
  <2>1. i + 1 \in DOMAIN q /\ q[i + 1] = Tail(q)[i] /\ i \in Nat
    BY <1>4
  <2>2. \A j \in DOMAIN q : j > i + 1 => q[j].m # m
    BY <1>5, <1>6, <2>1
  <2> QED
    BY <1>6, <2>1, <2>2 DEF Latest
<1>7. ASSUME Head(q).m = m, \A e : In(Tail(q), e) => e.m # m PROVE Head(q).ver = v
  <2>1. \A j \in DOMAIN q : j > 0 + 1 => q[j].m # m
    BY <1>5, <1>7 DEF In
  <2> QED
    BY <1>3, <1>7, <2>1 DEF Latest
<1> QED
  BY <1>6, <1>7 DEF Latest

LEMMA LatestNone == \A m, v : Latest(<<>>, m, v)
BY DEF Latest

\* A closed socket has nothing on its way.
Down == \A s \in Sockets \ up : inbox[s] = <<>>

\* The versions of a message whose changes did not cross are announced in order, and
\* an event of the stored version has the text that is stored.
Ordered == \A m \in Messages \ crossed, s \in Sockets :
    /\ Latest(inbox[s], m, told[m])
    /\ \A e : In(inbox[s], e) /\ e.m = m /\ e.ver = db[m].ver => e.text = Body(m)
    /\ Jobbed(s, m, {"new", "changed"}) /\ hand[s].ver = db[m].ver => hand[s].text = Body(m)

LEMMA DownStep == ASSUME Base, Versions, Down, [Next]_vars PROVE Down'
<1>0. TypeOK /\ inbox \in [Sockets -> Seq(Events)] /\ up \subseteq Sockets
  BY DEF Base, TypeOK
<1>1. ASSUME NEW e, Source(e) PROVE Down'
  <2>1. e \in Events /\ Announce(e) /\ up' = up
    BY <1>1, Sources
  <2> QED
    BY <1>0, <2>1, Announcing DEF Down
<1>2. ASSUME NEW s \in Sockets, NEW q, inbox' = [inbox EXCEPT ![s] = q], q = <<>> \/ s \in up'
      PROVE  /\ inbox'[s] = <<>> \/ s \in up'
             /\ \A r \in Sockets : r # s => inbox'[r] = inbox[r]
  BY <1>0, <1>2
<1>3. ASSUME NEW t \in Tabs, Leave(t) PROVE Down'
  <2>1. CASE <<t, "page">> \in up
    <3>1. up' = up \ {<<t, "page">>} /\ inbox' = [inbox EXCEPT ![<<t, "page">>] = <<>>]
      BY <1>3, <2>1 DEF Leave
    <3>2. <<t, "page">> \in Sockets
      BY <1>0, <2>1
    <3> QED
      BY <1>2, <3>1, <3>2 DEF Down
  <2>2. CASE <<t, "page">> \notin up
    BY <1>3, <2>2 DEF Leave, Down
  <2> QED
    BY <2>1, <2>2
<1>4. ASSUME NEW s \in Sockets, Drop(s) PROVE Down'
  <2>1. up' = up \ {s} /\ inbox' = [inbox EXCEPT ![s] = <<>>]
    BY <1>4 DEF Drop
  <2> QED
    BY <1>2, <2>1 DEF Down
<1>5. ASSUME NEW s \in Sockets, Deliver(s) PROVE Down'
  <2>1. up' = up /\ s \in up /\ inbox' = [inbox EXCEPT ![s] = Tail(inbox[s])]
    BY <1>5 DEF Deliver
  <2> QED
    BY <1>2, <2>1 DEF Down
<1>6. ASSUME NEW s \in Sockets, Connect(s) PROVE Down'
  <2>1. up' = up \cup {s} /\ inbox' = inbox
    BY <1>6 DEF Connect
  <2> QED
    BY <2>1 DEF Down
<1>7. ASSUME inbox' = inbox, up' = up PROVE Down'
  BY <1>7 DEF Down
<1>8. \/ up' = up
      \/ \E t \in Tabs : Leave(t)
      \/ \E s \in Sockets : Drop(s) \/ Connect(s)
  BY Writers DEF Everything, Links
<1> QED
  BY <1>1, <1>3, <1>4, <1>5, <1>6, <1>7, <1>8, Announcements

LEMMA OrderedStep ==
    ASSUME Base, Versions, Down, Ordered, [Next]_vars
    PROVE  Ordered'
<1>0. /\ TypeOK /\ TypeOK' /\ Versions' /\ inbox \in [Sockets -> Seq(Events)] /\ crossed \subseteq crossed'
      /\ \A m \in Messages : db[m].ver \in Nat
  BY BaseStep, VersionsStep, Announcements DEF Base, TypeOK, Records
<1>g. \A m \in Messages :
         /\ db[m].ver \in Nat /\ db'[m].ver \in Nat /\ db[m].ver <= db'[m].ver
         /\ db'[m].ver = db[m].ver => db'[m] = db[m]
  <2> SUFFICES ASSUME NEW m \in Messages
               PROVE  /\ db[m].ver \in Nat /\ db'[m].ver \in Nat /\ db[m].ver <= db'[m].ver
                      /\ db'[m].ver = db[m].ver => db'[m] = db[m]
    OBVIOUS
  <2>1. /\ db[m].ver \in Nat /\ db'[m].ver \in Nat /\ db[m].ver <= db'[m].ver
        /\ \/ db'[m] = db[m]
           \/ db[m].ver = 0 /\ db'[m].ver = 1
           \/ db'[m].ver = db[m].ver + 1
    BY DbMoves
  <2> QED
    BY <2>1
<1>1. ASSUME NEW m \in Messages, m \notin crossed', NEW s \in Sockets
      PROVE  Latest(inbox'[s], m, told'[m])
  <2>0. m \notin crossed /\ Latest(inbox[s], m, told[m]) /\ inbox[s] \in Seq(Events)
    BY <1>0, <1>1 DEF Ordered
  <2>1. ASSUME NEW e, Source(e) PROVE Latest(inbox'[s], m, told'[m])
    <3>1. e \in Events /\ Announce(e) /\ e.m \in Messages /\ e.ver \in Nat
      BY <2>1, Sources
    <3>2. /\ s \in up => inbox'[s] = Append(inbox[s], e)
          /\ s \notin up => inbox'[s] = inbox[s]
          /\ crossed' = IF e.ver < told[e.m] THEN crossed \cup {e.m} ELSE crossed
          /\ told'[e.m] = IF e.ver > told[e.m] THEN e.ver ELSE told[e.m]
          /\ \A n \in Messages : n # e.m => told'[n] = told[n]
      BY <1>0, <3>1, Announcing
    <3>3. told[e.m] \in Nat
      BY <1>0, <3>1 DEF TypeOK
    <3>4. (e.m = m => told'[m] = e.ver) /\ (e.m # m => told'[m] = told[m])
      BY <1>1, <3>1, <3>2, <3>3
    <3>5. CASE s \in up
      BY <2>0, <3>1, <3>2, <3>4, <3>5, LatestMore
    <3>6. CASE s \notin up
      BY <3>2, <3>6, LatestNone DEF Down
    <3> QED
      BY <3>5, <3>6
  <2>2. ASSUME told' = told PROVE Latest(inbox'[s], m, told'[m])
    <3>1. ASSUME NEW r, inbox' = [inbox EXCEPT ![r] = <<>>] PROVE inbox'[s] = <<>> \/ inbox'[s] = inbox[s]
      BY <1>0, <3>1
    <3>2. ASSUME NEW r \in Sockets, inbox[r] # <<>>, inbox' = [inbox EXCEPT ![r] = Tail(inbox[r])]
          PROVE  inbox'[s] = inbox[s] \/ (inbox[s] # <<>> /\ inbox'[s] = Tail(inbox[s]))
      BY <1>0, <3>2
    <3>3. CASE inbox'[s] = <<>>
      BY <3>3, LatestNone
    <3>4. CASE inbox'[s] = inbox[s]
      BY <2>0, <2>2, <3>4
    <3>5. CASE inbox[s] # <<>> /\ inbox'[s] = Tail(inbox[s])
      BY <2>0, <2>2, <3>5, LatestLess
    <3> QED
      BY <2>1, <3>1, <3>2, <3>3, <3>4, <3>5, Announcements
  <2> QED
    BY <2>1, <2>2, Announcements
<1>2. ASSUME NEW m \in Messages, m \notin crossed', NEW s \in Sockets,
             NEW e, In(inbox[s], e), e.m = m, e.ver = db'[m].ver
      PROVE  \A b : b = e.text => b = Body(m)'
  <2>1. e \in Events /\ Heralds(e) /\ m \notin crossed
    BY <1>0, <1>2, Known DEF Versions, Heralded
  <2>2. e.ver = db[m].ver /\ db'[m] = db[m]
    BY <1>2, <1>g, <2>1 DEF Heralds
  <2> QED
    BY <1>2, <2>1, <2>2 DEF Ordered, Body
<1>3. ASSUME NEW m \in Messages, m \notin crossed', NEW x, Source(x), x.m = m, x.ver = db'[m].ver
      PROVE  \A b : b = x.text => b = Body(m)'
  <2>1. /\ x \in Events /\ Heralds(x) /\ m \notin crossed /\ db' = db
        /\ x.type \in {"new", "changed"}
        /\ \/ \E s \in Sockets : Tell(s) /\ x = hand[s]
           \/ x.type = "new" /\ x.text = "first" /\ x.ver = 1
    BY <1>0, <1>3, Sources
  <2>2. ASSUME NEW s \in Sockets, x = hand[s] PROVE x.text = Body(m)
    BY <1>3, <2>1, <2>2 DEF Ordered, Jobbed
  <2>3. CASE x.text = "first" /\ x.ver = 1
    BY <1>3, <2>1, <2>3 DEF Versions, Fresh, Body
  <2> QED
    BY <2>1, <2>2, <2>3 DEF Body
<1>4. ASSUME NEW m \in Messages, m \notin crossed', NEW s \in Sockets,
             NEW e, In(inbox'[s], e), e.m = m, e.ver = db'[m].ver
      PROVE  \A b : b = e.text => b = Body(m)'
  <2>1. ASSUME NEW x, Source(x) PROVE In(inbox[s], e) \/ e = x
    <3>1. x \in Events /\ Announce(x)
      BY <2>1, Sources
    <3> QED
      BY <1>0, <1>4, <3>1, Announcing
  <2>2. ASSUME ~\E x : Source(x) PROVE In(inbox[s], e)
    <3>1. ASSUME NEW r, inbox' = [inbox EXCEPT ![r] = <<>>] PROVE In(inbox[s], e)
      BY <1>0, <1>4, <3>1, EmptyIn
    <3>2. ASSUME NEW r \in Sockets, inbox[r] # <<>>, inbox' = [inbox EXCEPT ![r] = Tail(inbox[r])]
          PROVE  In(inbox[s], e)
      <4>1. inbox'[s] = inbox[s] \/ (inbox[s] # <<>> /\ inbox'[s] = Tail(inbox[s]))
        BY <1>0, <3>2
      <4>2. inbox[s] \in Seq(Events)
        BY <1>0
      <4> QED
        BY <1>4, <4>1, <4>2, Tailed
    <3> QED
      BY <1>4, <2>2, <3>1, <3>2, Announcements
  <2> QED
    BY <1>2, <1>3, <1>4, <2>1, <2>2
<1>5. ASSUME NEW m \in Messages, m \notin crossed', NEW s \in Sockets,
             NEW e, e = hand'[s], e.type \in {"new", "changed"}, e.m = m, e.ver = db'[m].ver
      PROVE  \A b : b = e.text => b = Body(m)'
  <2>0. m \notin crossed /\ e # Idle
    BY <1>0, <1>5, IdleIs
  <2>1. CASE hand[s] = e
    <3>1. Heralds(e)
      BY <2>0, <2>1 DEF Versions, Held
    <3>2. e.ver = db[m].ver /\ db'[m] = db[m]
      BY <1>5, <1>g, <3>1 DEF Heralds
    <3> QED
      BY <1>5, <2>0, <2>1, <3>2 DEF Ordered, Jobbed, Body
  <2>2. CASE TakeSend(s)
    <3> DEFINE n == Head(line[s]).m
    <3>1. n \in Messages /\ Create(n) /\ e = Event("new", n, "first", 1)
      BY <1>0, <1>5, <2>2, TakingSend
    <3>2. db'[n].ver = 1 /\ db'[n].text = "first" /\ db'[n].gone = FALSE
      BY <1>0, <3>1, Creating
    <3> HIDE DEF n
    <3>3. e.m = n /\ e.text = "first"
      BY <3>1 DEF Event
    <3> QED
      BY <1>5, <3>2, <3>3 DEF Body
  <2>3. ASSUME TakeChange(s) PROVE hand'[s] = hand[s]
    <3> DEFINE f == Head(line[s])
               x == Event(f.do, f.m, "none", db[f.m].ver)
    <3>1. /\ f.do \in {"edit", "delete"}
          /\ hand' = hand \/ (hand'[s] = x /\ x.type = f.do)
      BY <1>0, <2>3, TakingChange
    <3> HIDE DEF f, x
    <3> QED
      BY <1>5, <3>1
  <2>4. CASE Save(s)
    <3> DEFINE n == hand[s].m
    <3>1. /\ n \in Messages /\ hand[s].type \in {"edit", "delete"}
          /\ hand[s].type = "edit" => db'[n].text = "edited" /\ db'[n].gone = db[n].gone
          /\ hand[s].type = "delete" => db'[n].text = "none" /\ db'[n].gone = TRUE
          /\ e = Event("changed", n, db'[n].text, db'[n].ver)
      BY <1>0, <1>5, <2>4, Saving
    <3>2. crossed' = IF db[n].ver = hand[s].ver THEN crossed ELSE crossed \cup {n}
      BY <2>4 DEF Save
    <3>3. \A x : x = hand[s] /\ x # Idle => (x.type \in {"edit", "delete"} /\ x.ver = db[x.m].ver => ~db[x.m].gone)
      BY DEF Versions, Held
    <3>4. hand[s] # Idle
      BY <3>1, IdleIs
    <3> HIDE DEF n
    <3>5. e.m = n /\ e.text = db'[n].text /\ n = m
      BY <1>5, <3>1 DEF Event
    <3>6. db[n].ver = hand[s].ver
      BY <1>5, <3>2, <3>5
    <3>7. db[n].gone = FALSE
      <4>1. ~db[n].gone
        BY <3>1, <3>3, <3>4, <3>6 DEF n
      <4>2. db[n].gone \in BOOLEAN
        BY <1>0, <3>1 DEF TypeOK, Records
      <4> QED
        BY <4>1, <4>2
    <3>8. \A b : b = db'[m].text => b = Body(m)'
      BY <3>1, <3>5, <3>7 DEF Body
    <3> QED
      BY <3>5, <3>8
  <2>5. ASSUME Tell(s) PROVE FALSE
    BY <1>0, <1>5, <2>0, <2>5, Telling
  <2>6. \/ hand'[s] = hand[s] \/ TakeSend(s) \/ TakeChange(s) \/ Save(s) \/ Tell(s)
    <3>1. ASSUME NEW r \in Sockets, TakeSend(r) \/ TakeChange(r) \/ Save(r) \/ Tell(r)
          PROVE  r = s \/ hand'[s] = hand[s]
      BY <1>0, <3>1, TakingSend, TakingChange, Saving, Telling
    <3> QED
      BY <3>1, Writers DEF Everything, Hands
  <2> QED
    BY <1>5, <2>1, <2>2, <2>3, <2>4, <2>5, <2>6
<1>6. ASSUME NEW m \in Messages \ crossed', NEW s \in Sockets
      PROVE  /\ Latest(inbox'[s], m, told'[m])
             /\ \A e : In(inbox'[s], e) /\ e.m = m /\ e.ver = db'[m].ver => e.text = Body(m)'
             /\ Jobbed(s, m, {"new", "changed"})' /\ hand'[s].ver = db'[m].ver
                    => hand'[s].text = Body(m)'
  <2>1. m \in Messages /\ m \notin crossed'
    BY <1>6
  <2>2. \A e : In(inbox'[s], e) /\ e.m = m /\ e.ver = db'[m].ver => e.text = Body(m)'
    BY <1>4, <2>1
  <2>3. Jobbed(s, m, {"new", "changed"})' /\ hand'[s].ver = db'[m].ver => hand'[s].text = Body(m)'
    BY <1>5, <2>1 DEF Jobbed
  <2> QED
    BY <1>1, <2>1, <2>2, <2>3
<1> QED
  BY <1>6 DEF Ordered

-----------------------------------------------------------------------------
(* What a step does to what is stored                                      *)

\* Nothing, or one more message at the end, or
\* another version of one message in its place.
Kept == db' = db /\ stored' = stored
Grown(m) ==
    /\ ~IsStored(m) /\ stored' = stored + 1
    /\ db'[m].ver = 1 /\ db'[m].at = stored + 1
    /\ db'[m].text = "first" /\ db'[m].gone = FALSE
    /\ \A n \in Messages : n # m => db'[n] = db[n]
Changed(m) ==
    /\ IsStored(m) /\ stored' = stored
    /\ db'[m].ver > 0 /\ db'[m].at = db[m].at
    /\ \/ db'[m].text = "edited" /\ db'[m].gone = db[m].gone
       \/ db'[m].text = "none" /\ db'[m].gone = TRUE
    /\ \A n \in Messages : n # m => db'[n] = db[n]

LEMMA StoreMoves ==
    ASSUME Base, [Next]_vars
    PROVE  Kept \/ \E m \in Messages : Grown(m) \/ Changed(m)
<1>0. TypeOK
  BY DEF Base
<1>1. ASSUME NEW s \in Sockets, TakeSend(s) PROVE \E m \in Messages : Grown(m)
  <2> DEFINE m == Head(line[s]).m
  <2>1. m \in Messages /\ Create(m) /\ ~IsStored(m)
    BY <1>0, <1>1, TakingSend DEF Base, Born
  <2> HIDE DEF m
  <2> QED
    BY <1>0, <2>1, Creating DEF Grown
<1>2. ASSUME NEW m \in Messages, PostStore(m) PROVE Grown(m)
  <2>1. Create(m) /\ ~IsStored(m)
    BY <1>2 DEF PostStore, Base, Born
  <2> QED
    BY <1>0, <2>1, Creating DEF Grown
<1>3. ASSUME NEW s \in Sockets, Save(s) PROVE \E m \in Messages : Changed(m)
  <2> DEFINE m == hand[s].m
  <2>1. /\ m \in Messages /\ hand[s].type \in {"edit", "delete"} /\ stored' = stored
        /\ \A n \in Messages : n # m => db'[n] = db[n]
        /\ db'[m].ver = db[m].ver + 1 /\ db'[m].at = db[m].at
        /\ hand[s].type = "edit" => db'[m].text = "edited" /\ db'[m].gone = db[m].gone
        /\ hand[s].type = "delete" => db'[m].text = "none" /\ db'[m].gone = TRUE
    BY <1>0, <1>3, Saving
  <2>2. IsStored(m) /\ db[m].ver \in Nat
    BY <1>0, <2>1, IdleIs DEF Base, Shown, TypeOK, Records
  <2> HIDE DEF m
  <2>3. db'[m].ver > 0
    BY <2>1, <2>2
  <2> QED
    BY <2>1, <2>2, <2>3 DEF Changed
<1> QED
  BY <1>1, <1>2, <1>3, Writers DEF Everything, Stores, Kept

\* The newest page only moves on.
Over(total, size) == IF total > size THEN total - size ELSE 0

LEMMA Oldest ==
    ASSUME NEW a \in Nat, NEW b \in Nat, NEW size \in Nat, a <= b
    PROVE  Over(a, size) \in Nat /\ Over(b, size) \in Nat /\ Over(a, size) <= Over(b, size)
BY DEF Over

\* Nothing comes back to the newest page.
LEMMA RecentStays ==
    ASSUME Base, [Next]_vars, NEW m \in Messages, IsStored(m), Recent(m)'
    PROVE  Recent(m)
<1>0. TypeOK /\ stored \in Nat /\ \A n \in Messages : db[n].at \in Nat
  BY DEF Base, TypeOK, Records
<1>1. stored' \in Nat /\ stored <= stored' /\ db'[m].at = db[m].at
  <2>1. CASE Kept
    BY <1>0, <2>1 DEF Kept
  <2>2. ASSUME NEW n \in Messages, Grown(n)
        PROVE  stored' \in Nat /\ stored <= stored' /\ db'[m].at = db[m].at
    BY <1>0, <2>2 DEF Grown
  <2>3. ASSUME NEW n \in Messages, Changed(n)
        PROVE  stored' \in Nat /\ stored <= stored' /\ db'[m].at = db[m].at
    BY <1>0, <2>3 DEF Changed
  <2> QED
    BY <2>1, <2>2, <2>3, StoreMoves
<1>2. Older <= Older' /\ Older \in Nat /\ Older' \in Nat
  <2>1. PageSize \in Nat
    BY ChatAssumption
  <2>2. Older = Over(stored, PageSize) /\ Older' = Over(stored', PageSize)
    BY DEF Older, Over
  <2> QED
    BY <1>0, <1>1, <2>1, <2>2, Oldest
<1>3. db'[m].at > Older'
  BY DEF Recent
<1> QED
  BY <1>0, <1>1, <1>2, <1>3 DEF Recent

-----------------------------------------------------------------------------
(* A thread follows what is stored                                         *)

Widget(t) == <<t, "widget">>

\* An announcement of m, or of its creation, is due.
Due(m) == post[m] = "stored" \/ \E s \in Sockets : Jobbed(s, m, {"new", "changed"})
NewDue(m) == post[m] = "stored" \/ \E s \in Sockets : Jobbed(s, m, {"new"})

\* Nothing about m, or its creation, is on its way to t.
Clean(t, m) == \A s \in Sockets : \A e : TabOf(s) = t /\ In(inbox[s], e) => e.m # m
Comes(t, m) == \E e : In(inbox[Widget(t)], e) /\ e.m = m /\ e.type = "new"

Shows(rows, m) == \E x : In(rows, x) /\ x.m = m

Agrees(rows, m) ==
    /\ Has(rows, m) => IsStored(m)
    /\ IsStored(m) /\ (Recent(m) \/ Shows(rows, m)) => Has(rows, m)
    /\ \A x : In(rows, x) /\ x.m = m /\ x.kind = "message" => x.text = Body(m)

\* The rows that t shows, or is about to.
Current(t, rows) == \/ history[t] = Quiet /\ t \in loaded /\ rows = thread[t]
                    \/ history[t] = "answered" /\ rows = answer[t]

Follows == \A t \in Tabs \ gap :
    /\ Widget(t) \in up
    /\ \A m \in Messages \ crossed : \A rows : Current(t, rows) =>
          /\ IsStored(m) /\ (Recent(m) \/ Shows(rows, m))
                => Has(rows, m) \/ NewDue(m) \/ Comes(t, m)
          /\ ~Due(m) /\ Clean(t, m) => Agrees(rows, m)

\* What a tab has gone through that has no gap.
LEMMA GapMoves ==
    ASSUME Base, [Next]_vars, NEW t \in Tabs, t \notin gap'
    PROVE  /\ t \in gap => history'[t] = "asked" /\ Widget(t) \in up'
           /\ Widget(t) \in up => Widget(t) \in up'
           /\ \A s \in Sockets : Drop(s) => TabOf(s) # t
           /\ \A s \in Sockets : Deliver(s) /\ TabOf(s) = t => history[t] = Quiet /\ history' = history
           /\ Leave(t) /\ <<t, "page">> \in up => inbox[<<t, "page">>] = <<>>
           /\ \A m \in Messages : post[m] = "stored" /\ post'[m] # "stored" => PostAnnounce(m)
           /\ HistoryArrives(t) => history[t] = "answered"
<1>0. history \in [Tabs -> {Quiet, "asked", "answered"}] /\ TypeOK /\ post \in [Messages -> {Quiet, "sent", "stored", "answered"}]
  BY DEF Base, TypeOK
<1>1. ASSUME NEW u \in Tabs, Mounts(u), up' = up, t \in gap
      PROVE  history'[t] = "asked" /\ Widget(t) \in up'
  <2>1. /\ history' = [history EXCEPT ![u] = "asked"]
        /\ gap' = IF <<u, "widget">> \in up THEN gap \ {u} ELSE gap
    BY <1>1 DEF Mounts
  <2> QED
    BY <1>0, <1>1, <2>1 DEF Widget
<1>2. ASSUME NEW u \in Tabs, OpenWidget(u) \/ Expand(u) \/ Pick(u) PROVE Mounts(u) /\ up' = up
  BY <1>2 DEF OpenWidget, Expand, Pick, wires
<1>3. ASSUME NEW u \in Tabs, Leave(u) PROVE gap \subseteq gap'
  BY <1>3 DEF Leave
<1>4. ASSUME NEW u \in Tabs, HistoryAnswers(u) \/ HistoryArrives(u) PROVE gap \subseteq gap'
  BY <1>4 DEF HistoryAnswers, HistoryArrives, ghosts
<1>5. ASSUME NEW s \in Sockets, Deliver(s) \/ Drop(s) PROVE gap \subseteq gap'
  BY <1>5 DEF Deliver, Drop
<1>6. ASSUME NEW m \in Messages, PostFails(m) PROVE gap \subseteq gap'
  BY <1>6 DEF PostFails, Base, TypeOK
<1>7. t \in gap => history'[t] = "asked" /\ Widget(t) \in up'
  BY <1>1, <1>2, <1>3, <1>4, <1>5, <1>6, Writers DEF Everything, Views
<1>8. ASSUME NEW s \in Sockets, Drop(s) PROVE TabOf(s) # t
  BY <1>8 DEF Drop
<1>9. Widget(t) \in up => Widget(t) \in up'
  <2>1. TabOf(Widget(t)) = t /\ \A u : Widget(t) # <<u, "page">>
    BY DEF TabOf, Widget
  <2>2. ASSUME NEW u \in Tabs, Leave(u) PROVE up' = up \/ up' = up \ {<<u, "page">>}
    BY <2>2 DEF Leave
  <2>3. ASSUME NEW s \in Sockets, Drop(s) PROVE up' = up \ {s} /\ s # Widget(t)
    BY <1>8, <2>1, <2>3 DEF Drop
  <2>4. ASSUME NEW s \in Sockets, Connect(s) PROVE up' = up \cup {s}
    BY <2>4 DEF Connect
  <2> QED
    BY <2>1, <2>2, <2>3, <2>4, Writers DEF Everything, Links
<1>10. ASSUME NEW s \in Sockets, Deliver(s), TabOf(s) = t PROVE history[t] = Quiet /\ history' = history
  BY <1>10 DEF Deliver
<1>11. Leave(t) /\ <<t, "page">> \in up => inbox[<<t, "page">>] = <<>>
  BY DEF Leave
<1>12. ASSUME NEW m \in Messages, post[m] = "stored", post'[m] # "stored" PROVE PostAnnounce(m)
  <2>1. ASSUME NEW s \in Sockets, NEW n \in Messages, Send(s, n) PROVE FALSE
    <3>1. post' = post \/ (post' = [post EXCEPT ![n] = "sent"] /\ from[n] = NoTab)
      BY <2>1 DEF Send
    <3>2. n # m
      BY <1>12, <3>1 DEF Base, Born, Quiet
    <3> QED
      BY <1>0, <1>12, <3>1, <3>2
  <2>2. ASSUME NEW n \in Messages, PostStore(n) PROVE FALSE
    BY <1>0, <1>12, <2>2 DEF PostStore
  <2>3. ASSUME NEW n \in Messages, PostAnnounce(n) PROVE n = m
    BY <1>0, <1>12, <2>3 DEF PostAnnounce
  <2>4. ASSUME NEW n \in Messages, PostSettles(n) PROVE FALSE
    BY <1>12, <2>4 DEF PostSettles
  <2>5. ASSUME NEW n \in Messages, PostFails(n) PROVE FALSE
    <3>1. \/ post' = [post EXCEPT ![n] = "answered"] /\ gap' = IF post[n] = "stored" THEN Tabs ELSE gap
          \/ post' = post
      BY <2>5 DEF PostFails
    <3>2. post' = [post EXCEPT ![n] = "answered"] /\ n = m
      BY <1>0, <1>12, <3>1
    <3> QED
      BY <1>12, <3>1, <3>2
  <2>6. post' # post
    BY <1>12
  <2> QED
    BY <2>1, <2>2, <2>3, <2>4, <2>5, <2>6, Writers DEF Everything, Posts
<1>13. HistoryArrives(t) => history[t] = "answered"
  BY DEF HistoryArrives
<1> QED
  BY <1>7, <1>8, <1>9, <1>10, <1>11, <1>12, <1>13

LEMMA HistoryMoves ==
    ASSUME Base, [Next]_vars, NEW t \in Tabs
    PROVE  \/ history'[t] = history[t] \/ history'[t] = "asked"
           \/ HistoryAnswers(t) \/ (HistoryArrives(t) /\ history'[t] = Quiet)
<1>0. history \in [Tabs -> {Quiet, "asked", "answered"}]
  BY DEF Base, TypeOK
<1>1. ASSUME NEW u \in Tabs, OpenWidget(u) \/ Expand(u) \/ Pick(u)
      PROVE  history'[t] = history[t] \/ history'[t] = "asked"
  <2>1. Mounts(u)
    BY <1>1 DEF OpenWidget, Expand, Pick
  <2> QED
    BY <1>0, <2>1 DEF Mounts
<1>2. ASSUME NEW u \in Tabs, Leave(u) PROVE history' = history
  BY <1>2 DEF Leave
<1>3. ASSUME NEW u \in Tabs, HistoryAnswers(u) PROVE history'[t] = history[t] \/ u = t
  BY <1>0, <1>3 DEF HistoryAnswers
<1>4. ASSUME NEW u \in Tabs, HistoryArrives(u)
      PROVE  history'[t] = history[t] \/ (u = t /\ history'[t] = Quiet)
  BY <1>0, <1>4 DEF HistoryArrives
<1>5. ASSUME NEW s \in Sockets, Deliver(s) \/ Drop(s) PROVE history' = history
  BY <1>5 DEF Deliver, Drop, tabVars
<1>6. ASSUME NEW m \in Messages, PostFails(m) PROVE history' = history
  BY <1>6 DEF PostFails
<1> QED
  BY <1>1, <1>2, <1>3, <1>4, <1>5, <1>6, Writers DEF Everything, Views

\* What is due is announced to every open socket.
LEMMA DueEnds ==
    ASSUME Base, Versions, [Next]_vars, NEW t \in Tabs, t \notin gap', Widget(t) \in up,
           NEW m \in Messages
    PROVE  /\ NewDue(m) => NewDue(m)' \/ Comes(t, m)'
           /\ Due(m) => Due(m)' \/ ~Clean(t, m)'
           /\ Due(m)' \/ db'[m] = db[m]
           /\ IsStored(m)' => IsStored(m) \/ NewDue(m)'
<1>0. TypeOK /\ Widget(t) \in Sockets /\ TabOf(Widget(t)) = t
  BY DEF Base, TypeOK, TabOf, Widget
<1>1. ASSUME NEW x, Source(x), x.m = m
      PROVE  ~Clean(t, m)' /\ (x.type = "new" => Comes(t, m)')
  <2>1. x \in Events /\ Announce(x)
    BY <1>1, Sources
  <2>2. In(inbox'[Widget(t)], x)
    BY <1>0, <2>1, Announcing
  <2> QED
    BY <1>0, <1>1, <2>2 DEF Clean, Comes, TabOf, Widget
<1>2. ASSUME post[m] = "stored", post'[m] # "stored" PROVE ~Clean(t, m)' /\ Comes(t, m)'
  <2>1. PostAnnounce(m)
    BY <1>2, GapMoves
  <2>2. Event("new", m, "first", 1).m = m /\ Event("new", m, "first", 1).type = "new"
    BY DEF Event
  <2> QED
    BY <1>1, <2>1, <2>2 DEF Source
<1>3. ASSUME NEW s \in Sockets, hand[s].type \in {"new", "changed"}, hand[s].m = m
      PROVE  hand'[s] = hand[s] \/ (~Clean(t, m)' /\ (hand[s].type = "new" => Comes(t, m)'))
  <2>1. hand'[s] = hand[s] \/ Tell(s)
    BY <1>0, <1>3, HandsEnd
  <2>2. \A x : x = hand[s] /\ Tell(s) => Source(x)
    BY DEF Source
  <2> QED
    BY <1>1, <1>3, <2>1, <2>2
<1>4. NewDue(m) => NewDue(m)' \/ Comes(t, m)'
  <2>1. ASSUME NEW s \in Sockets, Jobbed(s, m, {"new"}) PROVE Jobbed(s, m, {"new"})' \/ Comes(t, m)'
    BY <1>3, <2>1 DEF Jobbed
  <2> QED
    BY <1>2, <2>1 DEF NewDue
<1>5. Due(m) => Due(m)' \/ ~Clean(t, m)'
  <2>1. ASSUME NEW s \in Sockets, Jobbed(s, m, {"new", "changed"})
        PROVE  Jobbed(s, m, {"new", "changed"})' \/ ~Clean(t, m)'
    BY <1>3, <2>1 DEF Jobbed
  <2> QED
    BY <1>2, <2>1 DEF Due
<1>6. ASSUME PostStore(m) PROVE NewDue(m)'
  BY <1>0, <1>6 DEF PostStore, NewDue, TypeOK
<1>7. ASSUME NEW s \in Sockets, TakeSend(s), m = Head(line[s]).m PROVE NewDue(m)'
  <2>1. hand'[s] = Event("new", m, "first", 1)
    BY <1>0, <1>7, TakingSend
  <2> QED
    BY <2>1 DEF NewDue, Jobbed, Event
<1>8. ASSUME NEW s \in Sockets, Save(s), hand[s].m = m PROVE Due(m)'
  <2>1. hand'[s] = Event("changed", m, db'[m].text, db'[m].ver)
    BY <1>0, <1>8, Saving
  <2> QED
    BY <2>1 DEF Due, Jobbed, Event
<1>9. NewDue(m)' => Due(m)'
  BY DEF NewDue, Due, Jobbed
<1>10. Due(m)' \/ db'[m] = db[m]
  BY <1>6, <1>7, <1>8, <1>9, DbMoves
<1>11. IsStored(m)' => IsStored(m) \/ NewDue(m)'
  BY <1>6, <1>7, StoredGrows
<1> QED
  BY <1>4, <1>5, <1>10, <1>11

\* What is on its way is delivered.
LEMMA CleanEnds ==
    ASSUME Base, [Next]_vars, NEW t \in Tabs, t \notin gap', NEW m \in Messages
    PROVE  /\ Clean(t, m)' => \/ Clean(t, m)
                              \/ \E s \in Sockets : /\ Deliver(s) /\ TabOf(s) = t
                                                    /\ Head(inbox[s]).m = m
           /\ Comes(t, m) => \/ Comes(t, m)'
                             \/ /\ Deliver(Widget(t)) /\ Head(inbox[Widget(t)]).m = m
                                /\ Head(inbox[Widget(t)]).type = "new"
<1>0. /\ TypeOK /\ Widget(t) \in Sockets /\ TabOf(Widget(t)) = t
      /\ \A u : Widget(t) # <<u, "page">> /\ TabOf(<<u, "page">>) = u
  BY ChatAssumption DEF Base, TypeOK, TabOf, Widget
<1>1. ASSUME NEW s \in Sockets, TabOf(s) = t, NEW e, In(inbox[s], e)
      PROVE  In(inbox'[s], e) \/ (Deliver(s) /\ e = Head(inbox[s]))
  <2>1. ASSUME NEW u \in Tabs, Leave(u), s = <<u, "page">>, s \in up PROVE FALSE
    <3>1. u = t /\ inbox[<<t, "page">>] = <<>>
      BY <1>0, <1>1, <2>1, GapMoves
    <3> QED
      BY <1>1, <2>1, <3>1, EmptyIn
  <2>2. ~Drop(s)
    BY <1>1, GapMoves
  <2> QED
    BY <1>0, <1>1, <2>1, <2>2, BoxesEnd
<1>2. ASSUME Clean(t, m)', ~Clean(t, m)
      PROVE  \E s \in Sockets : Deliver(s) /\ TabOf(s) = t /\ Head(inbox[s]).m = m
  <2>1. PICK s \in Sockets : \E e : TabOf(s) = t /\ In(inbox[s], e) /\ e.m = m
    BY <1>2 DEF Clean
  <2>2. PICK e : TabOf(s) = t /\ In(inbox[s], e) /\ e.m = m
    BY <2>1
  <2>3. ~In(inbox'[s], e)
    BY <1>2, <2>2 DEF Clean, TabOf
  <2> QED
    BY <1>1, <2>2, <2>3
<1>3. ASSUME NEW e, In(inbox[Widget(t)], e), e.m = m, e.type = "new"
      PROVE  Comes(t, m)' \/ /\ Deliver(Widget(t)) /\ Head(inbox[Widget(t)]).m = m
                             /\ Head(inbox[Widget(t)]).type = "new"
  <2>1. In(inbox'[Widget(t)], e) \/ (Deliver(Widget(t)) /\ e = Head(inbox[Widget(t)]))
    BY <1>0, <1>1, <1>3
  <2> QED
    BY <1>3, <2>1 DEF Comes, Widget
<1> QED
  BY <1>2, <1>3 DEF Comes

\* Two threads hold the same of m.
Same(old, rows, m) == \A x : x.m = m /\ x.kind = "message" => (In(old, x) <=> In(rows, x))

\* What was current before the rows that are.
LEMMA CurrentFrom ==
    ASSUME Base, [Next]_vars, NEW t \in Tabs, t \notin gap', NEW rows, Current(t, rows)'
    PROVE  \/ HistoryAnswers(t) /\ rows = Snapshot /\ db' = db
           \/ \E old : /\ Current(t, old)
                       /\ \A m \in Messages :
                             /\ Has(old, m) => Has(rows, m)
                             /\ IsStored(m) /\ Shows(rows, m) => Shows(old, m) \/ Has(rows, m)
                             /\ Clean(t, m) /\ (IsStored(m) /\ Shows(old, m) => Has(old, m))
                                   => Same(old, rows, m)
<1> DEFINE Carries(old) == \A m \in Messages :
                             /\ Has(old, m) => Has(rows, m)
                             /\ IsStored(m) /\ Shows(rows, m) => Shows(old, m) \/ Has(rows, m)
                             /\ Clean(t, m) /\ (IsStored(m) /\ Shows(old, m) => Has(old, m))
                                   => Same(old, rows, m)
<1>0. /\ TypeOK /\ history \in [Tabs -> {Quiet, "asked", "answered"}] /\ loaded \subseteq Tabs
      /\ Threaded /\ answer \in [Tabs -> Seq(Rows)]
  BY Stays DEF Base, TypeOK
<1>1. Carries(rows)
  BY DEF Same
<1>2. ASSUME NEW old, \A m \in Messages : /\ Same(old, rows, m)
                                          /\ IsStored(m) /\ Shows(rows, m) => Shows(old, m)
      PROVE  Carries(old)
  <2>1. \A m \in Messages : Has(old, m) => Has(rows, m)
    BY <1>2, HasRow DEF Same
  <2> QED
    BY <1>2, <2>1
<1>3. ASSUME history'[t] = "asked" PROVE FALSE
  BY <1>3 DEF Current, Quiet
<1>4. CASE HistoryAnswers(t)
  <2>1. history'[t] = "answered" /\ answer' = [answer EXCEPT ![t] = Snapshot] /\ db' = db
    BY <1>0, <1>4 DEF HistoryAnswers, serverVars
  <2>2. rows = answer'[t] /\ answer'[t] = Snapshot
    BY <1>0, <2>1 DEF Current, Quiet
  <2> QED
    BY <1>4, <2>1, <2>2
<1>5. CASE HistoryArrives(t) /\ history'[t] = Quiet
  <2>1. history[t] = "answered"
    BY <1>5, GapMoves
  <2>2. thread'[t] = answer[t]
    BY <2>1, <1>5, ArrivesShows DEF Becomes
  <2>3. rows = thread'[t]
    BY <1>5 DEF Current, Quiet
  <2>4. Current(t, rows)
    BY <2>1, <2>2, <2>3 DEF Current
  <2> QED
    BY <1>1, <2>4
<1>6. CASE history'[t] = history[t] /\ history[t] = "answered" /\ ~HistoryAnswers(t)
  <2>1. rows = answer'[t]
    BY <1>6 DEF Current, Quiet
  <2>2. ASSUME HistoryArrives(t) PROVE FALSE
    BY <1>0, <1>6, <2>2 DEF HistoryArrives, Quiet
  <2>3. answer'[t] = answer[t]
    BY <1>6, <2>2, AnswersMove
  <2>4. Current(t, rows)
    BY <1>6, <2>1, <2>3 DEF Current
  <2> QED
    BY <1>1, <2>4
<1>7. CASE history'[t] = history[t] /\ history[t] = Quiet
  <2> DEFINE old == thread[t]
  <2>1. rows = thread'[t] /\ t \in loaded'
    BY <1>7 DEF Current, Quiet
  <2>2. ~HistoryArrives(t)
    BY <1>7 DEF HistoryArrives, Quiet
  <2>3. ASSUME thread'[t] = thread[t] PROVE Carries(old)
    BY <1>1, <2>1, <2>3
  <2>4. ASSUME NEW s \in Sockets, NEW m \in Messages, Send(s, m) PROVE t \in loaded /\ Carries(old)
    <3> DEFINE u == TabOf(s)
               y == Row(m, "pending", "first")
    <3>1. /\ u \in loaded => /\ Becomes(u, Append(thread[u], y))
                             /\ \A x : In(thread'[u], x) <=> In(thread[u], x) \/ x = y
          /\ u \notin loaded => thread' = thread
          /\ loaded' = loaded /\ y.kind = "pending"
      BY <2>4, SendShows
    <3> HIDE DEF u, y
    <3>2. \A n \in Messages : Same(old, rows, n)
      BY <2>1, <3>1 DEF Same, Becomes
    <3>3. y.m = m /\ ~IsStored(m)
      BY <2>4, SendShows DEF Base, Born, y
    <3>4. \A n \in Messages : IsStored(n) /\ Shows(rows, n) => Shows(old, n)
      BY <2>1, <3>1, <3>3 DEF Shows, Becomes
    <3> HIDE DEF Carries, old
    <3> QED
      BY <1>2, <2>1, <3>1, <3>2, <3>4
  <2>5. ASSUME NEW s \in Sockets, Deliver(s) PROVE t \in loaded /\ Carries(old)
    <3> DEFINE u == TabOf(s)
               e == Head(inbox[s])
               y == Row(e.m, "message", e.text)
    <3>1. /\ u \in Tabs /\ e \in Events /\ In(inbox[s], e) /\ y.m = e.m /\ y.kind = "message"
          /\ u \in loaded =>
              /\ Becomes(u, Merge(thread[u], e))
              /\ e.type = "new" /\ Has(thread[u], e.m) => thread'[u] = thread[u]
              /\ e.type = "new" /\ ~Has(thread[u], e.m) =>
                    \A z : In(thread'[u], z) <=> (In(thread[u], z) /\ z.m # e.m) \/ z = y
              /\ e.type = "changed" =>
                    \A z : In(thread'[u], z)
                       <=> \/ In(thread[u], z) /\ ~(z.m = e.m /\ z.kind = "message")
                           \/ z = y /\ Has(thread[u], e.m)
          /\ u \notin loaded => thread' = thread
          /\ loaded' = loaded
      BY <2>5, DeliverShows
    <3>2. TabOf(s) = u
      OBVIOUS
    <3> HIDE DEF u, e, y
    <3>3. CASE u # t
      <4>1. thread'[t] = thread[t] /\ t \in loaded
        BY <2>1, <3>1, <3>3 DEF Becomes
      <4> QED
        BY <2>3, <4>1
    <3>4. CASE u = t
      <4>1. e.type \in {"new", "changed"} /\ t \in loaded
        BY <2>1, <3>1, <3>4 DEF Events
      <4>2. \A n \in Messages : n # e.m => Same(old, rows, n)
        BY <2>1, <3>1, <3>4, <4>1 DEF Same
      <4>3. Has(old, e.m) => Has(rows, e.m)
        <5>1. e.type = "changed" /\ Has(old, e.m) => In(rows, y)
          BY <2>1, <3>1, <3>4, <4>1
        <5>2. e.type = "new" /\ Has(old, e.m) => rows = old
          BY <2>1, <3>1, <3>4, <4>1
        <5> HIDE DEF old
        <5> QED
          BY <3>1, <4>1, <5>1, <5>2, HasRow
      <4>4. ~Clean(t, e.m)
        BY <3>1, <3>2, <3>4 DEF Clean
      <4>7. \A n \in Messages : n # e.m => (Shows(rows, n) => Shows(old, n))
        BY <2>1, <3>1, <3>4, <4>1 DEF Shows
      <4>8. Shows(rows, e.m) => Shows(old, e.m) \/ Has(rows, e.m)
        <5>1. e.type = "new" /\ ~Has(old, e.m) => Has(rows, e.m)
          <6>1. e.type = "new" /\ ~Has(old, e.m) => In(rows, y)
            BY <2>1, <3>1, <3>4, <4>1
          <6> HIDE DEF old
          <6> QED
            BY <3>1, <6>1, HasRow
        <5>2. e.type = "new" /\ Has(old, e.m) => rows = old
          BY <2>1, <3>1, <3>4, <4>1
        <5>3. e.type = "changed" => \A z : In(rows, z) /\ z.m = e.m => In(old, z) \/ Has(old, e.m)
          BY <2>1, <3>1, <3>4, <4>1
        <5> HIDE DEF old
        <5>4. Has(old, e.m) => Shows(old, e.m)
          BY HasRow DEF Shows
        <5> QED
          BY <4>1, <5>1, <5>2, <5>3, <5>4 DEF Shows
      <4>5. \A n \in Messages : n # e.m => (Has(old, n) => Has(rows, n))
        BY <4>2, HasRow DEF Same
      <4> HIDE DEF old
      <4>6. Carries(old)
        BY <4>2, <4>3, <4>4, <4>5, <4>7, <4>8
      <4> QED
        BY <4>1, <4>6
    <3> QED
      BY <3>3, <3>4
  <2>6. ASSUME NEW u \in Tabs, HistoryArrives(u) PROVE t \in loaded /\ Carries(old)
    <3>1. u # t
      BY <2>2, <2>6
    <3>2. thread'[t] = thread[t] /\ t \in loaded
      BY <2>1, <2>6, <3>1, ArrivesShows DEF Becomes
    <3> QED
      BY <2>3, <3>2
  <2>7. ASSUME NEW n \in Messages, NEW ok \in BOOLEAN, n \in waiting, loaded' = loaded,
               ok => post[n] = "answered",
               LET u == from[n]
               IN  thread' = IF u \in loaded THEN [thread EXCEPT ![u] = Settled(@, n, ok)] ELSE thread
        PROVE  t \in loaded /\ Carries(old)
    <3> DEFINE u == from[n]
               y == Row(n, "message", "first")
               f == Row(n, "failed", "first")
    <3>1. y.m = n /\ y.kind = "message" /\ f.m = n /\ f.kind = "failed"
      BY RowIs DEF Texts
    <3>2. /\ u \in loaded =>
             /\ Becomes(u, Settled(thread[u], n, ok))
             /\ ok /\ Has(thread[u], n) => \A z : In(thread'[u], z)
                   <=> In(thread[u], z) /\ (z.m # n \/ z.kind = "message")
             /\ ok /\ ~Has(thread[u], n) => \A z : In(thread'[u], z)
                   <=> \/ In(thread[u], z) /\ z.m # n
                       \/ z = y /\ \E w : In(thread[u], w) /\ w.m = n
             /\ ~ok => \A z : In(thread'[u], z) =>
                   \/ In(thread[u], z)
                   \/ z = f /\ \E w : In(thread[u], w) /\ w.m = n
          /\ u \notin loaded => thread' = thread
      BY <2>7, SettlesShows
    <3>3. u \in loaded /\ ~ok => \A z : z.kind = "message" =>
             (In(thread'[u], z) <=> In(thread[u], z))
      <4> SUFFICES ASSUME u \in loaded, ~ok, NEW z, z.kind = "message"
                   PROVE  In(thread'[u], z) <=> In(thread[u], z)
        OBVIOUS
      <4>1. /\ thread'[u] = Settled(thread[u], n, FALSE) /\ u \in Tabs
            /\ thread[u] \in Seq(Rows) /\ Single(thread[u])
        BY <1>0, <2>7, <3>2 DEF Becomes, Threaded
      <4>2. thread'[u] = [i \in DOMAIN thread[u] |->
                             IF thread[u][i].m = n /\ thread[u][i].kind = "pending"
                             THEN f ELSE thread[u][i]]
        BY <4>1 DEF Settled
      <4> HIDE DEF f, u
      <4> QED
        BY <3>1, <4>2 DEF In
    <3>4. t \in loaded
      BY <2>1, <2>7
    <3>5. IsStored(n) \/ ~ok
      BY <2>7 DEF Base, Born
    <3> HIDE DEF u, y, f
    <3>6. CASE ~ok \/ u # t \/ Has(old, n)
      <4>1. \A m \in Messages : Same(old, rows, m)
        BY <2>1, <3>2, <3>3, <3>4, <3>6 DEF Same, Becomes
      <4>2. \A m \in Messages : Shows(rows, m) => Shows(old, m)
        BY <2>1, <3>1, <3>2, <3>4, <3>6 DEF Shows, Becomes
      <4> HIDE DEF Carries, old
      <4> QED
        BY <1>2, <3>4, <4>1, <4>2
    <3>7. CASE ok /\ u = t /\ ~Has(old, n)
      <4>1. \A m \in Messages : m # n => Same(old, rows, m)
        BY <2>1, <3>1, <3>2, <3>4, <3>7 DEF Same
      <4>2. \A m \in Messages : m # n => (Has(old, m) => Has(rows, m))
        BY <4>1, HasRow DEF Same
      <4>3. \A m \in Messages : Shows(rows, m) => Shows(old, m)
        BY <2>1, <3>1, <3>2, <3>4, <3>7 DEF Shows
      <4>4. ~Shows(old, n) => Same(old, rows, n)
        BY <2>1, <3>1, <3>2, <3>4, <3>7 DEF Shows, Same
      <4> HIDE DEF old
      <4>5. Carries(old)
        BY <3>5, <3>7, <4>1, <4>2, <4>3, <4>4
      <4> QED
        BY <3>4, <4>5
    <3> QED
      BY <3>6, <3>7
  <2>8. \A n \in Messages : PostSettles(n) => t \in loaded /\ Carries(old)
    <3> HIDE DEF Carries, old
    <3> QED
      BY <2>7 DEF PostSettles
  <2>9. \A n \in Messages : PostFails(n) => t \in loaded /\ Carries(old)
    <3> HIDE DEF Carries, old
    <3> QED
      BY <2>7 DEF PostFails
  <2>10. UNCHANGED <<thread, loaded>> => t \in loaded /\ Carries(old)
    BY <2>1, <2>3
  <2>11. t \in loaded /\ Carries(old)
    <3> HIDE DEF Carries, old
    <3> QED
      BY <2>4, <2>5, <2>6, <2>8, <2>9, <2>10, Writers DEF Everything, Threads
  <2>12. Current(t, old)
    BY <1>7, <2>11 DEF Current
  <2> HIDE DEF old
  <2> QED
    BY <2>11, <2>12
<1>8. history[t] = Quiet \/ history[t] = "answered" \/ history[t] = "asked"
  BY <1>0
<1> QED
  BY <1>3, <1>4, <1>5, <1>6, <1>7, <1>8, HistoryMoves

\* A history that has just been read agrees with what is stored.
LEMMA SnapshotAgrees ==
    ASSUME TypeOK, Numbered, NEW m \in Messages
    PROVE  Agrees(Snapshot, m)
<1>1. \A x : In(Snapshot, x) <=>
                 \E n \in Messages : Recent(n) /\ x = Row(n, "message", Body(n))
  BY Snapshots
<1>2. \A n : /\ Row(n, "message", Body(n)).m = n /\ Row(n, "message", Body(n)).kind = "message"
             /\ Row(n, "message", Body(n)).text = Body(n)
  BY DEF Row
<1>3. /\ Recent(m) => Has(Snapshot, m)
      /\ Has(Snapshot, m) \/ Shows(Snapshot, m) => Recent(m)
  <2>1. Recent(m) => In(Snapshot, Row(m, "message", Body(m)))
    BY <1>1
  <2>2. ASSUME NEW x, In(Snapshot, x), x.m = m PROVE Recent(m)
    BY <1>1, <1>2, <2>2
  <2> QED
    BY <1>2, <2>1, <2>2, HasRow DEF Shows
<1>4. ASSUME NEW x, In(Snapshot, x), x.m = m PROVE x.text = Body(m)
  BY <1>1, <1>2, <1>4
<1>5. Recent(m) => IsStored(m)
  BY DEF Recent
<1> QED
  BY <1>3, <1>4, <1>5 DEF Agrees

\* Delivering the last event about m brings the thread up to date.
LEMMA LastDelivered ==
    ASSUME Base, Versions, Ordered, Follows, [Next]_vars, NEW t \in Tabs, t \notin gap, t \notin gap',
           NEW m \in Messages, m \notin crossed, ~Due(m), Clean(t, m)',
           NEW s \in Sockets, Deliver(s), TabOf(s) = t, Head(inbox[s]).m = m, t \in loaded
    PROVE  Agrees(thread'[t], m)
<1> DEFINE e == Head(inbox[s])
           y == Row(e.m, "message", e.text)
           old == thread[t]
<1>0. /\ TypeOK /\ history[t] = Quiet /\ Widget(t) \in Sockets /\ TabOf(Widget(t)) = t
      /\ inbox \in [Sockets -> Seq(Events)]
  BY GapMoves, ChatAssumption DEF Base, TypeOK, TabOf, Widget
<1>1. /\ e \in Events /\ In(inbox[s], e) /\ IsStored(e.m)
      /\ y.m = e.m /\ y.kind = "message" /\ y.text = e.text
      /\ e.type = "new" /\ Has(old, e.m) => thread'[t] = old
      /\ e.type = "new" /\ ~Has(old, e.m) =>
            \A z : In(thread'[t], z) <=> (In(old, z) /\ z.m # e.m) \/ z = y
      /\ e.type = "changed" =>
            \A z : In(thread'[t], z)
               <=> \/ In(old, z) /\ ~(z.m = e.m /\ z.kind = "message")
                   \/ z = y /\ Has(old, e.m)
  BY DeliverShows
<1>2. /\ inbox[s] # <<>> /\ inbox' = [inbox EXCEPT ![s] = Tail(inbox[s])]
  BY DEF Deliver
<1>3. /\ inbox'[s] = Tail(inbox[s]) /\ inbox[s] \in Seq(Events)
      /\ \A r \in Sockets : r # s => inbox'[r] = inbox[r]
  BY <1>0, <1>2
<1>4. e.m = m
  OBVIOUS
<1> HIDE DEF e, y
<1>5. \A x : In(Tail(inbox[s]), x) => x.m # m
  BY <1>3 DEF Clean, TabOf
<1>6. e.ver = told[m]
  <2>1. Latest(inbox[s], m, told[m])
    BY DEF Ordered
  <2> QED
    BY <1>2, <1>3, <1>4, <1>5, <2>1, LatestLess DEF e
<1>7. /\ e.type \in {"new", "changed"} /\ e.ver \in Nat
      /\ Heralds(e) /\ db[m].ver \in Nat /\ told[m] \in Nat
  BY <1>0, <1>1 DEF Versions, Heralded, Events, TypeOK, Records
<1>8. e.ver = db[m].ver
  <2>1. \A r \in Sockets : ~Jobbed(r, m, {"changed"})
    BY DEF Due, Jobbed
  <2>2. db[m].ver = 1 \/ told[m] = db[m].ver
    BY <1>1, <1>4, <2>1 DEF Versions, Newest
  <2>3. e.ver >= 1 /\ e.ver <= db[m].ver
    BY <1>4, <1>7 DEF Heralds
  <2> QED
    BY <1>6, <1>7, <2>2, <2>3
<1>9. e.text = Body(m)
  BY <1>1, <1>4, <1>8 DEF Ordered
<1>d. ASSUME Has(thread'[t], m), IsStored(m),
             \A x : In(thread'[t], x) /\ x.m = m /\ x.kind = "message" => x.text = Body(m)
      PROVE  Agrees(thread'[t], m)
  BY <1>d DEF Agrees
<1>10. CASE e.type = "new" /\ Has(old, m)
  <2>1. db[m].ver = 1 /\ Body(m) = "first"
    BY <1>4, <1>7, <1>8, <1>10 DEF Heralds, Versions, Fresh, Body
  <2>2. \A x : In(old, x) /\ x.m = m /\ x.kind = "message" => x.text = "first"
    BY <2>1 DEF Versions, Untouched
  <2> QED
    BY <1>1, <1>4, <1>d, <1>10, <2>1, <2>2
<1>11. CASE e.type = "new" /\ ~Has(old, m)
  <2>1. In(thread'[t], y) /\ \A x : In(thread'[t], x) /\ x.m = m => x = y
    BY <1>1, <1>4, <1>11
  <2> QED
    BY <1>1, <1>4, <1>9, <1>d, <2>1, HasRow
<1>12. CASE e.type = "changed"
  <2>1. ~NewDue(m)
    BY DEF NewDue, Due, Jobbed
  <2>2. ASSUME NEW x, In(inbox[Widget(t)], x), x.m = m, x.type = "new" PROVE FALSE
    <3>1. CASE s = Widget(t)
      <4>1. In(Tail(inbox[s]), x) \/ x = e
        BY <1>2, <1>3, <2>2, <3>1, Tailed DEF e
      <4> QED
        BY <1>5, <1>12, <2>2, <4>1
    <3>2. CASE s # Widget(t)
      <4>1. In(inbox'[Widget(t)], x)
        BY <1>0, <1>3, <2>2, <3>2
      <4> QED
        BY <1>0, <2>2, <4>1 DEF Clean, TabOf, Widget
    <3> QED
      BY <3>1, <3>2
  <2>3. Current(t, old)
    BY <1>0 DEF Current
  <2> HIDE DEF old
  <2>4. IsStored(m) /\ (Recent(m) \/ Shows(old, m)) => Has(old, m) \/ NewDue(m) \/ Comes(t, m)
    BY <2>3 DEF Follows
  <2>5. CASE Has(old, m)
    <3>1. In(thread'[t], y) /\ \A x : In(thread'[t], x) /\ x.m = m /\ x.kind = "message" => x = y
      BY <1>1, <1>4, <1>12, <2>5
    <3> QED
      BY <1>1, <1>4, <1>9, <1>d, <3>1, HasRow
  <2>6. CASE ~Has(old, m)
    <3>1. ~Recent(m) /\ ~Shows(old, m)
      BY <1>1, <1>4, <2>1, <2>2, <2>4, <2>6 DEF Comes
    <3>2. \A x : In(thread'[t], x) => x.m # m
      BY <1>1, <1>4, <1>12, <2>6, <3>1 DEF Shows
    <3> QED
      BY <3>1, <3>2, HasRow DEF Agrees, Shows
  <2> QED
    BY <2>5, <2>6
<1> QED
  BY <1>1, <1>4, <1>7, <1>10, <1>11, <1>12

LEMMA FollowsStep ==
    ASSUME Base, Versions, Ordered, Follows, [Next]_vars
    PROVE  Follows'
<1>0. TypeOK /\ Numbered /\ crossed \subseteq crossed' /\ gap' \subseteq Tabs
  BY BaseStep, Announcements DEF Base, TypeOK
<1>1. ASSUME NEW t \in Tabs, t \notin gap' PROVE Widget(t) \in up'
  BY <1>1, GapMoves DEF Follows
<1>2. ASSUME NEW t \in Tabs, t \notin gap', NEW rows, Current(t, rows)'
      PROVE  t \notin gap /\ Widget(t) \in up
  <2>1. history'[t] # "asked"
    BY <1>2 DEF Current, Quiet
  <2> QED
    BY <1>2, <2>1, GapMoves DEF Follows
<1>3. ASSUME NEW t \in Tabs, t \notin gap', NEW rows, Current(t, rows)',
             NEW s \in Sockets, Deliver(s), TabOf(s) = t
      PROVE  t \in loaded /\ rows = thread'[t] /\ Current(t, thread[t])
  <2>1. history[t] = Quiet /\ history'[t] = Quiet /\ loaded' = loaded
    BY <1>3, GapMoves DEF Deliver
  <2> QED
    BY <1>3, <2>1 DEF Current, Quiet
<1>4. ASSUME NEW t \in Tabs, t \notin gap', NEW rows, Current(t, rows)',
             NEW m \in Messages, m \notin crossed', IsStored(m)', Recent(m)' \/ Shows(rows, m)
      PROVE  Has(rows, m) \/ NewDue(m)' \/ Comes(t, m)'
  <2>0. t \notin gap /\ Widget(t) \in up /\ Widget(t) \in Sockets /\ m \notin crossed
        /\ TabOf(Widget(t)) = t
    BY <1>0, <1>2, <1>4 DEF TypeOK, TabOf, Widget
  <2>1. CASE rows = Snapshot /\ db' = db
    <3>1. IsStored(m)
      BY <1>4, <2>1 DEF IsStored
    <3>2. Recent(m) \/ Shows(rows, m)
      BY <1>4, <3>1, RecentStays
    <3> QED
      BY <1>0, <2>1, <3>1, <3>2, SnapshotAgrees DEF Agrees
  <2>2. ASSUME NEW old, Current(t, old), Has(old, m) => Has(rows, m), IsStored(m),
               IsStored(m) /\ Shows(rows, m) => Shows(old, m) \/ Has(rows, m)
        PROVE  Has(rows, m) \/ NewDue(m)' \/ Comes(t, m)'
    <3>0. Recent(m) \/ Shows(old, m) \/ Has(rows, m)
      BY <1>4, <2>2, RecentStays
    <3>1. Has(rows, m) \/ Has(old, m) \/ NewDue(m) \/ Comes(t, m)
      BY <2>0, <2>2, <3>0 DEF Follows
    <3>2. ASSUME Deliver(Widget(t)), Head(inbox[Widget(t)]).m = m,
                 Head(inbox[Widget(t)]).type = "new"
          PROVE  Has(rows, m)
      <4> DEFINE s == Widget(t)
                 e == Head(inbox[s])
                 y == Row(e.m, "message", e.text)
      <4>1. t \in loaded /\ rows = thread'[t]
        BY <1>3, <1>4, <2>0, <3>2
      <4>2. /\ y.m = e.m /\ y.kind = "message"
            /\ e.type = "new" /\ Has(thread[t], e.m) => thread'[t] = thread[t]
            /\ e.type = "new" /\ ~Has(thread[t], e.m) =>
                  \A z : In(thread'[t], z) <=> (In(thread[t], z) /\ z.m # e.m) \/ z = y
        BY <2>0, <3>2, <4>1, DeliverShows
      <4>3. e.m = m /\ e.type = "new"
        BY <3>2
      <4> HIDE DEF e, y
      <4> QED
        BY <4>1, <4>2, <4>3, HasRow
    <3> QED
      BY <1>4, <2>0, <2>2, <3>1, <3>2, DueEnds, CleanEnds
  <2>3. IsStored(m) \/ NewDue(m)'
    BY <1>4, <2>0, DueEnds
  <2> QED
    BY <1>4, <2>1, <2>2, <2>3, CurrentFrom
<1>5. ASSUME NEW t \in Tabs, t \notin gap', NEW rows, Current(t, rows)',
             NEW m \in Messages, m \notin crossed', ~Due(m)', Clean(t, m)'
      PROVE  Agrees(rows, m)'
  <2>0. t \notin gap /\ Widget(t) \in up /\ m \notin crossed
    BY <1>0, <1>2, <1>5
  <2>1. ~Due(m) /\ db'[m] = db[m]
    BY <1>5, <2>0, DueEnds
  <2>2. ASSUME Agrees(rows, m) PROVE Agrees(rows, m)'
    <3>1. IsStored(m) /\ Recent(m)' => Recent(m)
      BY <1>5, RecentStays
    <3>2. (IsStored(m)' <=> IsStored(m)) /\ Body(m)' = Body(m)
      BY <2>1 DEF IsStored, Body
    <3>3. /\ Has(rows, m)' <=> Has(rows, m)
          /\ Shows(rows, m)' <=> Shows(rows, m)
          /\ \A x : In(rows, x)' <=> In(rows, x)
      BY DEF Has, Shows, In
    <3> QED
      BY <2>2, <3>1, <3>2, <3>3 DEF Agrees
  <2>3. CASE rows = Snapshot
    BY <1>0, <2>2, <2>3, SnapshotAgrees
  <2>4. ASSUME NEW s \in Sockets, Deliver(s), TabOf(s) = t, Head(inbox[s]).m = m
        PROVE  Agrees(rows, m)'
    <3>1. t \in loaded /\ rows = thread'[t]
      BY <1>3, <1>5, <2>4
    <3>2. Agrees(thread'[t], m)
      BY <1>5, <2>0, <2>1, <2>4, <3>1, LastDelivered
    <3> QED
      BY <2>2, <3>1, <3>2
  <2>5. ASSUME NEW old, Current(t, old), Clean(t, m),
               IsStored(m) /\ Shows(rows, m) => Shows(old, m) \/ Has(rows, m),
               Clean(t, m) /\ (IsStored(m) /\ Shows(old, m) => Has(old, m)) => Same(old, rows, m)
        PROVE  Agrees(rows, m)'
    <3>1. Agrees(old, m)
      BY <2>0, <2>1, <2>5 DEF Follows
    <3>2. Same(old, rows, m)
      BY <2>5, <3>1 DEF Agrees
    <3>3. Has(rows, m) <=> Has(old, m)
      BY <3>2, HasRow DEF Same
    <3>4. Shows(rows, m) /\ IsStored(m) => Has(rows, m)
      BY <2>5, <3>1, <3>3 DEF Agrees
    <3>5. Agrees(rows, m)
      BY <3>1, <3>2, <3>3, <3>4 DEF Agrees, Same
    <3> QED
      BY <2>2, <3>5
  <2>6. \/ Clean(t, m)
        \/ \E s \in Sockets : Deliver(s) /\ TabOf(s) = t /\ Head(inbox[s]).m = m
    BY <1>5, CleanEnds
  <2> QED
    BY <1>5, <2>3, <2>4, <2>5, <2>6, CurrentFrom
<1>6. ASSUME NEW t \in Tabs \ gap', NEW m \in Messages \ crossed', NEW rows, Current(t, rows)'
      PROVE  /\ IsStored(m)' /\ (Recent(m)' \/ Shows(rows, m)')
                   => Has(rows, m)' \/ NewDue(m)' \/ Comes(t, m)'
             /\ ~Due(m)' /\ Clean(t, m)' => Agrees(rows, m)'
  <2>1. t \in Tabs /\ t \notin gap' /\ m \in Messages /\ m \notin crossed'
    BY <1>6
  <2>2. (Has(rows, m)' <=> Has(rows, m)) /\ (Shows(rows, m)' <=> Shows(rows, m))
    BY DEF Has, Shows, In
  <2> QED
    BY <1>4, <1>5, <1>6, <2>1, <2>2
<1> QED
  BY <1>1, <1>6 DEF Follows

\* What the agreement of the threads rests on.
Tracked == Base /\ Versions /\ Down /\ Ordered /\ Follows

LEMMA TrackedInit == ASSUME Init PROVE Tracked
<1>1. Down /\ gap = Tabs
  BY DEF Init, Down
<1>2. Ordered
  <2>1. \A s \in Sockets : inbox[s] = <<>> /\ hand[s] = Idle
    BY DEF Init
  <2> QED
    BY <2>1, LatestNone, EmptyIn, IdleIs DEF Ordered, Jobbed
<1> QED
  BY <1>1, <1>2, BaseInit, VersionsInit DEF Tracked, Follows

LEMMA TrackedStep == ASSUME Tracked, [Next]_vars PROVE Tracked'
BY BaseStep, VersionsStep, DownStep, OrderedStep, FollowsStep DEF Tracked

\* A thread that missed no event since its history was asked for has the newest page
\* of what is stored, and shows every message it has as it is stored, once nothing
\* about the message is under way (applyIncoming; viewsets.py, HISTORY_PAGE_SIZE).
THEOREM ThreadAgreesCorrect == Spec => []ThreadAgrees
<1>1. ASSUME Tracked PROVE ThreadAgrees
  <2> SUFFICES ASSUME NEW t \in loaded \ gap, NEW m \in Messages \ crossed,
                      history[t] = Quiet, Settles(m)
               PROVE  /\ Has(thread[t], m) => IsStored(m)
                      /\ Recent(m) => Has(thread[t], m)
                      /\ \A i \in DOMAIN thread[t] :
                            thread[t][i] = Row(m, "message", thread[t][i].text)
                               => thread[t][i].text = Body(m)
    BY DEF ThreadAgrees
  <2>1. t \in Tabs \ gap /\ Current(t, thread[t])
    BY <1>1 DEF Tracked, Base, TypeOK, Current
  <2>2. ~Due(m) /\ Clean(t, m)
    BY DEF Settles, Due, Jobbed, Clean, In
  <2>3. Agrees(thread[t], m)
    BY <1>1, <2>1, <2>2 DEF Tracked, Follows
  <2>4. \A text : Row(m, "message", text).m = m /\ Row(m, "message", text).kind = "message"
    BY DEF Row
  <2>5. ASSUME NEW i \in DOMAIN thread[t], thread[t][i] = Row(m, "message", thread[t][i].text)
        PROVE  thread[t][i].text = Body(m)
    <3>1. thread[t][i].m = m /\ thread[t][i].kind = "message"
      BY <2>4, <2>5
    <3>2. In(thread[t], thread[t][i])
      BY DEF In
    <3> QED
      BY <2>3, <3>1, <3>2 DEF Agrees
  <2>6. Recent(m) => IsStored(m)
    BY DEF Recent
  <2> QED
    BY <2>3, <2>5, <2>6 DEF Agrees
<1>2. Init => Tracked
  BY TrackedInit
<1>3. Tracked /\ [Next]_vars => Tracked'
  BY TrackedStep
<1> QED
  BY <1>1, <1>2, <1>3, PTL DEF Spec

-----------------------------------------------------------------------------
(* What the stored messages are to the people who read them                *)

\* Only a deletion empties a message.
Worded == \A m \in Messages : IsStored(m) /\ ~db[m].gone => db[m].text # "none"

LEMMA WordedStep == ASSUME Base, Worded, [Next]_vars PROVE Worded'
<1>1. CASE Kept
  BY <1>1 DEF Kept, Worded, IsStored
<1>2. ASSUME NEW m \in Messages, Grown(m) PROVE Worded'
  BY <1>2 DEF Grown, Worded, IsStored
<1>3. ASSUME NEW m \in Messages, Changed(m) PROVE Worded'
  BY <1>3 DEF Changed, Worded, IsStored
<1> QED
  BY <1>1, <1>2, <1>3, StoreMoves

\* The n-th message said is the one whose number is n.
LEMMA SaidIs ==
    ASSUME Base, NEW m \in Messages, IsStored(m)
    PROVE  db[m].at \in 1 .. stored /\ Said[db[m].at] = m
<1>1. /\ db[m].at \in 1 .. stored
      /\ \A n \in Messages : db[n].at = db[m].at => n = m
  BY DEF Base, TypeOK, Records, Numbered
<1>2. m = CHOOSE n \in Messages : db[n].at = db[m].at
  BY <1>1
<1> QED
  BY <1>1, <1>2 DEF Said

Listed ==
    /\ Said \in Seq(Messages) /\ Len(Said) = stored /\ stored \in Nat
    /\ DOMAIN Said = 1 .. stored
    /\ \A i \in 1 .. stored : db[Said[i]].at = i

LEMMA SaidListed == TypeOK /\ Numbered => Listed
<1> SUFFICES ASSUME TypeOK, Numbered PROVE Listed
  OBVIOUS
<1> DEFINE nth(i) == CHOOSE m \in Messages : db[m].at = i
<1>1. stored \in Nat /\ Said = [i \in 1 .. stored |-> nth(i)]
  BY DEF TypeOK, Said
<1>2. ASSUME NEW i \in 1 .. stored PROVE nth(i) \in Messages /\ db[nth(i)].at = i
  <2>1. \E m \in Messages : db[m].at = i
    BY DEF Numbered
  <2> QED
    BY <2>1
<1> HIDE DEF nth
<1>3. Said \in [1 .. stored -> Messages] /\ \A i \in 1 .. stored : db[Said[i]].at = i
  BY <1>1, <1>2
<1>4. Said \in Seq(Messages)
  BY <1>1, <1>3, SeqDef
<1> QED
  BY <1>1, <1>3, <1>4, LenProperties DEF Listed

\* As long as every message keeps its number, the log stays as it is.
LEMMA SaidStays ==
    ASSUME stored' = stored, \A m \in Messages : db'[m].at = db[m].at
    PROVE  Said' = Said
<1>1. \A i : (CHOOSE m \in Messages : db'[m].at = i) = (CHOOSE m \in Messages : db[m].at = i)
  OBVIOUS
<1> QED
  BY <1>1 DEF Said

LEMMA SaidGrows ==
    ASSUME Base, Base', NEW m \in Messages, Grown(m)
    PROVE  Said' = Append(Said, m)
<1>1. /\ Said \in Seq(Messages) /\ Len(Said) = stored /\ stored \in Nat
      /\ DOMAIN Said = 1 .. stored
      /\ \A i \in 1 .. stored : db[Said[i]].at = i
  BY SaidListed DEF Base, Listed
<1>2. /\ Said' \in Seq(Messages) /\ Len(Said') = stored + 1
      /\ DOMAIN Said' = 1 .. stored + 1
      /\ \A i \in 1 .. stored + 1 : db'[Said'[i]].at = i
  <2>1. TypeOK' /\ Numbered' => Listed'
    BY SaidListed, PTL
  <2>2. stored' = stored + 1
    BY DEF Grown
  <2> QED
    BY <2>1, <2>2 DEF Base, Listed
<1>3. /\ Append(Said, m) \in Seq(Messages) /\ Len(Append(Said, m)) = stored + 1
      /\ \A i \in 1 .. stored : Append(Said, m)[i] = Said[i]
      /\ Append(Said, m)[stored + 1] = m
  BY <1>1, AppendProperties
<1>4. ASSUME NEW n \in Messages, NEW o \in Messages, db'[n].at > 0, db'[n].at = db'[o].at
      PROVE  n = o
  <2>1. Numbered'
    BY DEF Base
  <2>2. IsStored(n)'
    BY <1>4, <2>1 DEF Numbered
  <2> QED
    BY <1>4, <2>1, <2>2 DEF Numbered
<1>5. ASSUME NEW i \in 1 .. stored + 1 PROVE Said'[i] = Append(Said, m)[i]
  <2>1. Said'[i] \in Messages /\ db'[Said'[i]].at = i /\ i > 0
    BY <1>1, <1>2, ElementOfSeq
  <2>2. CASE i = stored + 1
    <3>1. db'[m].at = i
      BY <2>2 DEF Grown
    <3> QED
      BY <1>3, <1>4, <2>1, <2>2, <3>1
  <2>3. CASE i \in 1 .. stored
    <3>1. Said[i] \in Messages /\ db[Said[i]].at = i
      BY <1>1, <2>3, ElementOfSeq
    <3>2. Said[i] # m
      BY <1>1, <2>3, <3>1 DEF Grown, Base, Numbered
    <3>3. db'[Said[i]].at = i
      BY <3>1, <3>2 DEF Grown
    <3> QED
      BY <1>3, <1>4, <2>1, <2>3, <3>1, <3>3
  <2> QED
    BY <1>1, <2>2, <2>3
<1> QED
  BY <1>1, <1>2, <1>3, <1>5, SeqEqual

\* What each message says after a step that is about m alone.
LEMMA SaysOf ==
    ASSUME NEW m \in Messages, \A n \in Messages : n # m => db'[n] = db[n]
    PROVE  Says' = [Says EXCEPT ![m] = Says'[m]]
BY DEF Says, Body, IsStored

LEMMA Converses ==
    ASSUME Base, Base', Worded, [Next]_vars
    PROVE  [Conversed!Next]_(Conversed!vars)
<1>1. CASE Kept
  BY <1>1 DEF Kept, Conversed!vars, Said, Says, Body, IsStored
<1>2. ASSUME NEW m \in Messages, Grown(m) PROVE Conversed!Say(m)
  <2>1. Says[m] = "unsaid"
    BY <1>2 DEF Grown, Says
  <2>2. Says'[m] = "first"
    BY <1>2 DEF Grown, Says, Body, IsStored
  <2>3. Says' = [Says EXCEPT ![m] = Says'[m]]
    BY <1>2, SaysOf DEF Grown
  <2> QED
    BY <1>2, <2>1, <2>2, <2>3, SaidGrows DEF Conversed!Say
<1>3. ASSUME NEW m \in Messages, Changed(m)
      PROVE  Conversed!Edit(m) \/ Conversed!TakeBack(m) \/ UNCHANGED Conversed!vars
  <2>1. Said' = Said
    BY <1>3, SaidStays DEF Changed
  <2>2. Says' = [Says EXCEPT ![m] = Says'[m]]
    BY <1>3, SaysOf DEF Changed
  <2>3. CASE db[m].gone
    <3>1. Says[m] = "none" /\ Says'[m] = "none"
      BY <1>3, <2>3 DEF Changed, Says, Body, IsStored
    <3>2. Says' = Says
      BY <2>2, <3>1 DEF Says
    <3> QED
      BY <2>1, <3>2 DEF Conversed!vars
  <2>4. CASE ~db[m].gone
    <3>1. Says[m] \in {"first", "edited"}
      BY <1>3, <2>4 DEF Changed, Says, Body, IsStored, Worded, Base, TypeOK, Records, Texts
    <3>2. Says'[m] \in {"edited", "none"}
      BY <1>3, <2>4 DEF Changed, Says, Body, IsStored
    <3> QED
      BY <2>1, <2>2, <3>1, <3>2 DEF Conversed!Edit, Conversed!TakeBack
  <2> QED
    BY <2>3, <2>4
<1>4. Kept \/ \E m \in Messages : Grown(m) \/ Changed(m)
  BY StoreMoves
<1> QED
  BY <1>1, <1>2, <1>3, <1>4 DEF Conversed!Next

\* The chat is a conversation: whichever of socket and REST a message comes by, it is
\* said once and keeps its place, and once it is deleted it is never read again
\* (consumers.py, _edit_message and _delete_message; services.py, message_to_dict).
THEOREM ImplementsConversationCorrect == Spec => ImplementsConversation
<1>1. Init => Base /\ Worded
  <2>1. ASSUME Init, NEW m \in Messages, IsStored(m) PROVE db[m].text # "none"
    BY <2>1 DEF Init, IsStored
  <2> QED
    BY <2>1, BaseInit DEF Worded
<1>2. Base /\ Worded /\ [Next]_vars => Base' /\ Worded'
  BY BaseStep, WordedStep
<1>3. ASSUME Init PROVE Conversed!Init
  <2>1. /\ Earlier \in Seq(Messages) /\ DOMAIN Earlier = 1 .. Len(Earlier) /\ Len(Earlier) \in Nat
        /\ \A i, j \in DOMAIN Earlier : Earlier[i] = Earlier[j] => i = j
    BY ChatAssumption, LenProperties
  <2>2. /\ Said \in Seq(Messages) /\ Len(Said) = stored /\ DOMAIN Said = 1 .. stored
        /\ \A i \in 1 .. stored : db[Said[i]].at = i
    BY <1>3, BaseInit, SaidListed DEF Base, Listed
  <2>3. stored = Len(Earlier)
    BY <1>3 DEF Init
  <2>4. \A m \in Messages : /\ Before(m) => db[m].at = PlaceBefore(m) /\ db[m].text = "first"
                                            /\ db[m].ver = 1 /\ ~db[m].gone
                            /\ ~Before(m) => db[m].at = 0 /\ db[m].ver = 0
    BY <1>3 DEF Init
  <2>5. ASSUME NEW i \in 1 .. stored PROVE Said[i] = Earlier[i]
    <3>1. Said[i] \in Messages /\ db[Said[i]].at = i
      BY <2>2, ElementOfSeq
    <3>2. Before(Said[i]) /\ PlaceBefore(Said[i]) = i
      BY <2>4, <3>1
    <3> QED
      BY <3>2 DEF Before, PlaceBefore
  <2>6. Said = Earlier
    BY <2>1, <2>2, <2>3, <2>5, SeqEqual
  <2>7. ASSUME NEW m \in Messages
        PROVE  Says[m] = IF \E i \in DOMAIN Earlier : Earlier[i] = m THEN "first" ELSE "unsaid"
    BY <2>4 DEF Says, Body, IsStored, Before
  <2>8. Says = [m \in Messages |-> IF \E i \in DOMAIN Earlier : Earlier[i] = m
                                   THEN "first" ELSE "unsaid"]
    BY <2>7 DEF Says
  <2> QED
    BY <2>6, <2>8 DEF Conversed!Init
<1>4. Base /\ Worded /\ Base' /\ [Next]_vars => [Conversed!Next]_(Conversed!vars)
  BY Converses
<1> QED
  BY <1>1, <1>2, <1>3, <1>4, PTL DEF Spec, ImplementsConversation, Conversed!Spec

=============================================================================
