----------------------- MODULE LimboResolutionProofs -----------------------
(***************************************************************************)
(* Proofs about LimboResolution: for every finite set of documents and of  *)
(* queries, every maximum of resolutions, and for every bound.             *)
(***************************************************************************)
EXTENDS LimboResolution, FiniteSetTheorems, WellFoundedInduction, TLAPS

\* What happens to a key: it waits, or is being resolved.
Busy(s, k) == Waits(s, k) \/ s.byKey[k] # 0

\* The maps during a task: numbers are those of one resolution, what is active
\* is listened to, and of a document that is not astray there is one resolution
\* or one place in the queue.
OneEach(s, k) ==
    /\ \A i, j \in DOMAIN s.enqueued :
          s.enqueued[i] = k /\ s.enqueued[j] = k => i = j
    /\ Waits(s, k) => s.byKey[k] = 0

MapsOK(s) ==
    /\ s \in Unbounded
    /\ IsFiniteSet(Ids(s)) /\ 0 \notin Ids(s)
    /\ \A k \in Key : s.byKey[k] # 0 =>
          /\ s.byKey[k] \in s.watched
          /\ [id |-> s.byKey[k], key |-> k] \in s.byTarget
    /\ \A r, p \in s.byTarget : r.id = p.id => r = p
    /\ \A r \in s.byTarget : r.key \in s.astray \/ s.byKey[r.key] = r.id
    /\ \A k \in Key \ s.astray : OneEach(s, k)

\* Of a query nobody listens to there is no view.
ClosedViews == \A t \in Target : ~views[t].open => views[t] = NoView

\* Between two tasks the maps, the views and the targets fit together, and
\* nothing waits that could be started.
IInv == /\ TypeOK /\ ClosedViews /\ MapsOK(tracking) /\ Settled(tracking)
        /\ \A t \in Target : views[t].open <=> t \in tracking.watched
        /\ RefsOfViews /\ LimboTracked

-----------------------------------------------------------------------------
(***************************************************************************)
(* Finite sets of numbers, in order.                                       *)
(***************************************************************************)
Increasing(q) == \A i, j \in DOMAIN q : i < j => q[i] < q[j]

\* A set of numbers that is not empty has a least one.
LEMMA Least ==
    ASSUME NEW S \in SUBSET Nat, S # {}
    PROVE  \E n \in S : \A m \in S : n <= m
<1>1. IsWellFoundedOn(OpToRel(<, Nat), Nat)
    BY NatLessThanWellFounded
<1>2. PICK n \in S : \A m \in S : ~(<<m, n>> \in OpToRel(<, Nat))
    BY <1>1, WFMin
<1>3. \A m \in S : ~(m < n)
    BY <1>2 DEF OpToRel
<1> QED BY <1>3

\* Every finite set of numbers can be put in order: else there is a smallest one
\* that cannot, and its other elements can follow the first.
LEMMA OrderExists ==
    ASSUME NEW S \in SUBSET Nat, IsFiniteSet(S)
    PROVE  \E q \in [1..Cardinality(S) -> S] : Increasing(q)
<1> DEFINE Bad == {n \in Nat : \E T \in SUBSET Nat :
                      /\ IsFiniteSet(T) /\ Cardinality(T) = n
                      /\ ~\E q \in [1..n -> T] : Increasing(q)}
<1>1. SUFFICES ASSUME Bad # {} PROVE FALSE
    <2>1. Cardinality(S) \in Nat
        BY FS_CardinalityType
    <2> QED BY <2>1
<1>2. PICK n \in Bad : \A m \in Bad : n <= m
    <2>1. Bad \in SUBSET Nat
        OBVIOUS
    <2> HIDE DEF Bad
    <2> QED BY <1>1, <2>1, Least
<1>3. PICK T \in SUBSET Nat : /\ IsFiniteSet(T) /\ Cardinality(T) = n
                              /\ ~\E q \in [1..n -> T] : Increasing(q)
    BY <1>2
<1>4. n \in Nat
    BY <1>2
<1>5. CASE T = {}
    <2>1. n = 0
        BY <1>3, <1>5, FS_EmptySet
    <2>2. << >> \in [1..0 -> T] /\ Increasing(<< >>)
        BY DEF Increasing
    <2> QED BY <1>3, <2>1, <2>2
<1>6. CASE T # {}
    <2>1. PICK x \in T : \A y \in T : x <= y
        BY <1>6, Least
    <2>2. /\ IsFiniteSet(T \ {x}) /\ Cardinality(T \ {x}) = n - 1
        BY <1>3, FS_RemoveElement
    <2>3. n - 1 \in Nat
        BY <2>2, FS_CardinalityType
    <2>4. n - 1 \notin Bad
        BY <1>2, <1>4
    <2>5. PICK q \in [1..n - 1 -> T \ {x}] : Increasing(q)
        BY <2>2, <2>3, <2>4
    <2> DEFINE p == [i \in 1..n |-> IF i = 1 THEN x ELSE q[i - 1]]
    <2>6. ASSUME NEW i \in 1..n, i # 1 PROVE i - 1 \in 1..n - 1
        BY <1>4, <2>6
    <2>7. p \in [1..n -> T]
        BY <2>6
    <2>8. ASSUME NEW i \in DOMAIN p, NEW j \in DOMAIN p, i < j PROVE p[i] < p[j]
        <3>1. i \in 1..n /\ j \in 1..n /\ j # 1 /\ p[j] = q[j - 1]
            BY <1>4, <2>8
        <3>2. j - 1 \in 1..n - 1 /\ q[j - 1] \in T \ {x}
            BY <2>6, <3>1
        <3>3. CASE i = 1
            <4>1. x \in Nat /\ q[j - 1] \in Nat /\ x <= q[j - 1] /\ x # q[j - 1]
                BY <2>1, <3>2
            <4>2. p[i] = x
                BY <3>1, <3>3
            <4> QED BY <3>1, <4>1, <4>2
        <3>4. CASE i # 1
            <4>1. i - 1 \in 1..n - 1 /\ i - 1 < j - 1 /\ p[i] = q[i - 1]
                BY <1>4, <2>6, <2>8, <3>1, <3>4
            <4> QED BY <2>5, <3>1, <3>2, <4>1 DEF Increasing
        <3> QED BY <3>3, <3>4
    <2> HIDE DEF p
    <2> QED BY <1>3, <2>7, <2>8 DEF Increasing
<1> QED BY <1>5, <1>6

-----------------------------------------------------------------------------
(***************************************************************************)
(* Loops.                                                                  *)
(***************************************************************************)
\* The states of a loop, up to the one after m elements.
IsRun(f, step, s, q, m) ==
    f = [n \in 0..m |-> IF n = 0 THEN s ELSE step[<<f[n - 1], q[n]>>]]

\* Every loop has such states: else there is a least number of elements that has
\* none, and the states before it can be carried on.
LEMMA RunExists ==
    ASSUME NEW step, NEW s, NEW q, NEW m \in Nat
    PROVE  \E f : IsRun(f, step, s, q, m)
<1> DEFINE Bad == {n \in Nat : ~\E f : IsRun(f, step, s, q, n)}
<1>1. SUFFICES ASSUME Bad # {} PROVE FALSE
    OBVIOUS
<1>2. PICK n \in Bad : \A i \in Bad : n <= i
    <2>1. Bad \in SUBSET Nat
        OBVIOUS
    <2> HIDE DEF Bad
    <2> QED BY <1>1, <2>1, Least
<1>3. CASE n = 0
    <2> DEFINE f == [i \in 0..0 |-> s]
    <2>1. IsRun(f, step, s, q, 0)
        BY DEF IsRun
    <2> QED BY <1>2, <1>3, <2>1
<1>4. CASE n # 0
    <2>1. n \in Nat /\ n - 1 \in Nat /\ n - 1 \notin Bad
        BY <1>2, <1>4
    <2>2. PICK f : IsRun(f, step, s, q, n - 1)
        BY <2>1
    <2> DEFINE g == [i \in 0..n |-> IF i = n THEN step[<<f[n - 1], q[n]>>]
                                    ELSE f[i]]
    <2>3. ASSUME NEW i \in 0..n
          PROVE  g[i] = IF i = 0 THEN s ELSE step[<<g[i - 1], q[i]>>]
        <3>1. CASE i = n
            <4>1. g[i] = step[<<f[n - 1], q[n]>>] /\ g[n - 1] = f[n - 1]
                BY <2>1, <3>1
            <4> QED BY <1>4, <3>1, <4>1
        <3>2. CASE i # n
            <4>1. i \in 0..n - 1 /\ g[i] = f[i]
                BY <2>1, <3>2
            <4>2. f[i] = IF i = 0 THEN s ELSE step[<<f[i - 1], q[i]>>]
                BY <2>2, <4>1 DEF IsRun
            <4>3. i # 0 => i - 1 \in 0..n /\ i - 1 # n
                BY <2>1, <4>1
            <4>4. i # 0 => g[i - 1] = f[i - 1]
                BY <4>3
            <4> QED BY <4>1, <4>2, <4>4
        <3> QED BY <3>1, <3>2
    <2>4. g = [i \in 0..n |-> IF i = 0 THEN s ELSE step[<<g[i - 1], q[i]>>]]
        <3>1. g = [i \in 0..n |-> g[i]]
            OBVIOUS
        <3> HIDE DEF g
        <3> QED BY <2>3, <3>1
    <2> HIDE DEF g
    <2> QED BY <1>2, <2>4 DEF IsRun
<1> QED BY <1>3, <1>4

\* What holds before a loop and is carried on by every step holds at its end.
LEMMA LoopKeeps ==
    ASSUME NEW E, NEW q \in Seq(E), NEW step, NEW s, NEW P,
           s \in P[0],
           \A n \in 1..Len(q) : \A r \in P[n - 1] : step[<<r, q[n]>>] \in P[n]
    PROVE  Loop(step, s, q) \in P[Len(q)]
<1>1. Len(q) \in Nat
    OBVIOUS
<1>2. PICK f : IsRun(f, step, s, q, Len(q)) /\ Loop(step, s, q) = f[Len(q)]
    <2> DEFINE f == CHOOSE g : g = [n \in 0..Len(q) |->
                        IF n = 0 THEN s ELSE step[<<g[n - 1], q[n]>>]]
    <2>1. f = CHOOSE g : IsRun(g, step, s, q, Len(q))
        BY DEF IsRun
    <2>2. Loop(step, s, q) = f[Len(q)]
        BY DEF Loop
    <2> HIDE DEF f
    <2>3. \E g : IsRun(g, step, s, q, Len(q))
        BY <1>1, RunExists
    <2>4. IsRun(f, step, s, q, Len(q))
        BY <2>1, <2>3, Zenon
    <2> QED BY <2>2, <2>4
<1> DEFINE Bad == {n \in 0..Len(q) : f[n] \notin P[n]}
<1>3. SUFFICES ASSUME Bad # {} PROVE FALSE
    BY <1>1, <1>2
<1>4. PICK n \in Bad : \A i \in Bad : n <= i
    <2>1. Bad \in SUBSET Nat
        OBVIOUS
    <2> HIDE DEF Bad
    <2> QED BY <1>3, <2>1, Least
<1>5. n \in 0..Len(q) /\ f[n] \notin P[n]
    BY <1>4
<1>6. f[n] = IF n = 0 THEN s ELSE step[<<f[n - 1], q[n]>>]
    BY <1>2, <1>5 DEF IsRun
<1>7. n # 0
    BY <1>5, <1>6
<1>8. n \in 1..Len(q) /\ n - 1 \in 0..Len(q) /\ ~(n <= n - 1)
    BY <1>1, <1>5, <1>7
<1>9. f[n - 1] \in P[n - 1]
    BY <1>4, <1>8
<1> QED BY <1>5, <1>6, <1>7, <1>8, <1>9

-----------------------------------------------------------------------------
(***************************************************************************)
(* Numbers of limbo targets, and the queue.                                *)
(***************************************************************************)
\* There is a number that is free: among one more than there are in use, one is.
LEMMA NextIdIsFree ==
    ASSUME NEW s \in Unbounded, IsFiniteSet(Ids(s))
    PROVE  NextId(s) \in Nat \ {0} /\ NextId(s) \notin Ids(s)
<1> DEFINE n == Cardinality(Ids(s))
           Free == {i \in 1..n + 1 : i \notin Ids(s)}
<1>1. n \in Nat
    BY FS_CardinalityType
<1>2. Free # {}
    <2>1. SUFFICES ASSUME 1..n + 1 \subseteq Ids(s) PROVE FALSE
        OBVIOUS
    <2>2. Cardinality(1..n + 1) <= n
        BY <2>1, FS_Subset
    <2>3. Cardinality(1..n + 1) = n + 1
        BY <1>1, FS_Interval
    <2> QED BY <1>1, <2>2, <2>3
<1>3. PICK i \in Free : \A j \in Free : i <= j
    <2>1. Free \in SUBSET Nat
        BY <1>1
    <2> HIDE DEF Free
    <2> QED BY <1>2, <2>1, Least
<1>4. i \in 1..n + 1 /\ i \notin Ids(s)
    BY <1>3
<1>5. \A m \in 1..i - 1 : m \in Ids(s)
    <2>1. ASSUME NEW m \in 1..i - 1, m \notin Ids(s) PROVE FALSE
        <3>1. m \in Free /\ ~(i <= m)
            BY <1>1, <1>4, <2>1
        <3> QED BY <1>3, <3>1
    <2> QED BY <2>1
<1> HIDE DEF n, Free
<1>6. NextId(s) \in 1..n + 1 /\ NextId(s) \notin Ids(s)
    BY <1>4, <1>5 DEF NextId, n
<1> QED BY <1>1, <1>6

\* A queue without its first key.
LEMMA TailOfQueue ==
    ASSUME NEW q \in Seq(Key), q # << >>
    PROVE  /\ Head(q) \in Key /\ Head(q) = q[1]
           /\ Tail(q) \in Seq(Key) /\ Len(Tail(q)) = Len(q) - 1
           /\ Len(q) \in Nat \ {0}
           /\ DOMAIN q = 1..Len(q) /\ DOMAIN Tail(q) = 1..Len(q) - 1
           /\ \A i \in 1..Len(q) - 1 : Tail(q)[i] = q[i + 1]
OBVIOUS

\* A queue with one key more.
LEMMA AppendToQueue ==
    ASSUME NEW q \in Seq(Key), NEW k \in Key
    PROVE  /\ Append(q, k) \in Seq(Key) /\ Len(q) \in Nat
           /\ DOMAIN q = 1..Len(q) /\ DOMAIN Append(q, k) = 1..Len(q) + 1
           /\ Append(q, k)[Len(q) + 1] = k
           /\ \A i \in 1..Len(q) : Append(q, k)[i] = q[i]
OBVIOUS

-----------------------------------------------------------------------------
(***************************************************************************)
(* Starting resolutions.                                                   *)
(***************************************************************************)
\* The rest of the tracking, of a step that starts or ends resolutions.
SameRefs(x, s) == /\ x.refs = s.refs /\ x.astray = s.astray
                  /\ x.watched \cap Target = s.watched \cap Target

\* Starting a resolution takes a number that is free; all else is as it was.
LEMMA StartFields ==
    ASSUME NEW s, MapsOK(s), s.enqueued # << >>
    PROVE  LET x == StartResolution(s)
               key == Head(s.enqueued)
           IN  /\ x \in Unbounded /\ key \in Key
               /\ x.refs = s.refs /\ x.astray = s.astray
               /\ x.enqueued = Tail(s.enqueued)
               /\ \E id \in Nat \ {0} :
                     /\ id \notin Ids(s)
                     /\ x.byTarget = s.byTarget \cup {[id |-> id, key |-> key]}
                     /\ x.watched = s.watched \cup {id}
                     /\ x.byKey = [s.byKey EXCEPT ![key] =
                                      IF s.byKey[key] = 0 THEN id
                                      ELSE s.byKey[key]]
<1>1. s \in Unbounded /\ IsFiniteSet(Ids(s))
    BY DEF MapsOK
<1>2. NextId(s) \in Nat \ {0} /\ NextId(s) \notin Ids(s)
    BY <1>1, NextIdIsFree
<1>3. Head(s.enqueued) \in Key /\ Tail(s.enqueued) \in Seq(Key)
    BY <1>1, TailOfQueue DEF Unbounded, Records
<1> DEFINE x == StartResolution(s)
           key == Head(s.enqueued)
           id == NextId(s)
           f == [s.byKey EXCEPT ![key] = IF s.byKey[key] = 0 THEN id
                                         ELSE s.byKey[key]]
           b == s.byTarget \cup {[id |-> id, key |-> key]}
           w == s.watched \cup {id}
<1>4. x = [s EXCEPT !.enqueued = Tail(s.enqueued), !.byTarget = b, !.byKey = f,
                    !.watched = w]
    BY DEF StartResolution
<1>5. id \in Nat /\ key \in Key
    BY <1>2, <1>3
<1> HIDE DEF x, key, id
<1>6. f \in [Key -> {0} \cup Nat] /\ w \subseteq Target \cup Nat
    BY <1>1, <1>5 DEF Unbounded, Records
<1>7. b \subseteq [id : Nat, key : Key]
    BY <1>1, <1>5 DEF Unbounded, Records
<1> HIDE DEF f, b, w
<1>8. x \in Unbounded
    BY <1>1, <1>3, <1>4, <1>6, <1>7 DEF Unbounded, Records
<1>9. /\ x.refs = s.refs /\ x.astray = s.astray
      /\ x.enqueued = Tail(s.enqueued) /\ x.byTarget = b /\ x.watched = w
      /\ x.byKey = f
    BY <1>1, <1>4 DEF Unbounded, Records
<1> QED BY <1>2, <1>5, <1>8, <1>9 DEF x, key, id, f, b, w

\* The key that waited is being resolved, and every other is what it was.
LEMMA StartKeepsMaps ==
    ASSUME NEW s, MapsOK(s), s.enqueued # << >>
    PROVE  LET x == StartResolution(s)
           IN  /\ MapsOK(x) /\ SameRefs(x, s)
               /\ \A k \in Key : Busy(x, k) <=> Busy(s, k)
               /\ Len(x.enqueued) = Len(s.enqueued) - 1
<1> DEFINE x == StartResolution(s)
           key == Head(s.enqueued)
<1>1. /\ x \in Unbounded /\ key \in Key
      /\ x.refs = s.refs /\ x.astray = s.astray
      /\ x.enqueued = Tail(s.enqueued)
    BY StartFields
<1>2. PICK id \in Nat \ {0} :
         /\ id \notin Ids(s)
         /\ x.byTarget = s.byTarget \cup {[id |-> id, key |-> key]}
         /\ x.watched = s.watched \cup {id}
         /\ x.byKey = [s.byKey EXCEPT ![key] =
                          IF s.byKey[key] = 0 THEN id ELSE s.byKey[key]]
    BY StartFields
<1>3. /\ s \in Unbounded
      /\ IsFiniteSet(Ids(s)) /\ 0 \notin Ids(s)
      /\ \A k \in Key : s.byKey[k] # 0 =>
            /\ s.byKey[k] \in s.watched
            /\ [id |-> s.byKey[k], key |-> k] \in s.byTarget
      /\ \A r, p \in s.byTarget : r.id = p.id => r = p
      /\ \A r \in s.byTarget : r.key \in s.astray \/ s.byKey[r.key] = r.id
      /\ \A k \in Key \ s.astray : OneEach(s, k)
    BY DEF MapsOK
<1>4. /\ s.enqueued \in Seq(Key) /\ s.byKey \in [Key -> Nat]
      /\ s.byTarget \subseteq [id : Nat, key : Key]
      /\ s.watched \subseteq Target \cup Nat
    BY <1>3 DEF Unbounded, Records
<1>5. /\ key = s.enqueued[1] /\ Len(x.enqueued) = Len(s.enqueued) - 1
      /\ Len(s.enqueued) \in Nat \ {0}
      /\ DOMAIN s.enqueued = 1..Len(s.enqueued)
      /\ DOMAIN x.enqueued = 1..Len(s.enqueued) - 1
      /\ \A i \in 1..Len(s.enqueued) - 1 : x.enqueued[i] = s.enqueued[i + 1]
    BY <1>1, <1>4, TailOfQueue
<1> HIDE DEF x, key
<1>6. /\ x.byKey[key] # 0
      /\ s.byKey[key] = 0 => x.byKey[key] = id
      /\ s.byKey[key] # 0 => x.byKey[key] = s.byKey[key]
      /\ \A k \in Key \ {key} : x.byKey[k] = s.byKey[k]
    BY <1>1, <1>2, <1>4
<1>7. \A k \in Key : Waits(s, k) <=> Waits(x, k) \/ k = key
    <2>1. ASSUME NEW k \in Key, Waits(s, k), k # key PROVE Waits(x, k)
        <3>1. PICK i \in 1..Len(s.enqueued) : s.enqueued[i] = k
            BY <1>5, <2>1 DEF Waits
        <3>2. i - 1 \in 1..Len(s.enqueued) - 1 /\ (i - 1) + 1 = i
            BY <1>5, <2>1, <3>1
        <3> QED BY <1>5, <3>1, <3>2 DEF Waits
    <2>2. ASSUME NEW k \in Key, Waits(x, k) PROVE Waits(s, k)
        <3>1. PICK i \in 1..Len(s.enqueued) - 1 : x.enqueued[i] = k
            BY <1>5, <2>2 DEF Waits
        <3>2. i + 1 \in 1..Len(s.enqueued)
            BY <1>5, <3>1
        <3> QED BY <1>5, <3>1, <3>2 DEF Waits
    <2>3. Waits(s, key)
        BY <1>5 DEF Waits
    <2> QED BY <2>1, <2>2, <2>3
<1>8. \A k \in Key : Busy(x, k) <=> Busy(s, k)
    BY <1>6, <1>7 DEF Busy
<1>9. IsFiniteSet(Ids(x)) /\ 0 \notin Ids(x)
    <2>1. Ids(x) = Ids(s) \cup {id}
        <3>1. id \notin Target
            BY <1>2, LimboAssumption
        <3> QED BY <1>2, <3>1 DEF Ids
    <2> QED BY <1>2, <1>3, <2>1, FS_AddElement
<1>10. \A k \in Key : x.byKey[k] # 0 =>
          /\ x.byKey[k] \in x.watched
          /\ [id |-> x.byKey[k], key |-> k] \in x.byTarget
    <2>1. ASSUME NEW k \in Key, x.byKey[k] # 0, k # key
          PROVE  /\ x.byKey[k] \in x.watched
                 /\ [id |-> x.byKey[k], key |-> k] \in x.byTarget
        BY <1>2, <1>3, <1>6, <2>1
    <2>2. /\ x.byKey[key] \in x.watched
          /\ [id |-> x.byKey[key], key |-> key] \in x.byTarget
        BY <1>1, <1>2, <1>3, <1>6
    <2> QED BY <2>1, <2>2
<1>11. \A r \in s.byTarget : r.id # id
    BY <1>2 DEF Ids
<1>12. \A r, p \in x.byTarget : r.id = p.id => r = p
    BY <1>2, <1>3, <1>11
<1>13. key \notin s.astray => s.byKey[key] = 0
    <2>1. Waits(s, key)
        BY <1>1, <1>7
    <2> QED BY <1>1, <1>3, <2>1 DEF OneEach
<1>14. \A r \in x.byTarget : r.key \in x.astray \/ x.byKey[r.key] = r.id
    <2>1. ASSUME NEW r \in s.byTarget
          PROVE  r.key \in s.astray \/ x.byKey[r.key] = r.id
        <3>1. r.key \in Key /\ r.id \in Nat
            BY <1>4
        <3>2. r.id # 0
            BY <1>3 DEF Ids
        <3> QED BY <1>3, <1>6, <3>1, <3>2
    <2>2. key \in s.astray \/ x.byKey[key] = id
        BY <1>6, <1>13
    <2> QED BY <1>1, <1>2, <2>1, <2>2
<1>15. \A k \in Key \ x.astray : OneEach(x, k)
    <2>1. TAKE k \in Key \ x.astray
    <2>2. OneEach(s, k)
        BY <1>1, <1>3
    <2>3. ASSUME NEW i \in DOMAIN x.enqueued, NEW j \in DOMAIN x.enqueued,
                 x.enqueued[i] = k, x.enqueued[j] = k
          PROVE  i = j
        <3>1. /\ i \in 1..Len(s.enqueued) - 1 /\ j \in 1..Len(s.enqueued) - 1
              /\ i + 1 \in DOMAIN s.enqueued /\ j + 1 \in DOMAIN s.enqueued
            <4> DEFINE n == Len(s.enqueued)
            <4>1. /\ n \in Nat /\ DOMAIN s.enqueued = 1..n
                  /\ i \in 1..n - 1 /\ j \in 1..n - 1
                BY <1>5, <2>3
            <4> HIDE DEF n
            <4>2. i + 1 \in 1..n /\ j + 1 \in 1..n
                BY <4>1
            <4> QED BY <4>1, <4>2 DEF n
        <3>2. i + 1 = j + 1
            BY <1>5, <2>2, <2>3, <3>1 DEF OneEach
        <3> QED BY <3>1, <3>2
    <2>4. ASSUME Waits(x, k) PROVE x.byKey[k] = 0
        <3>1. k # key
            <4>1. SUFFICES ASSUME k = key PROVE FALSE
                OBVIOUS
            <4>2. PICK i \in 1..Len(s.enqueued) - 1 : x.enqueued[i] = k
                BY <1>5, <2>4 DEF Waits
            <4>3. /\ i + 1 \in DOMAIN s.enqueued /\ 1 \in DOMAIN s.enqueued
                  /\ i + 1 # 1
                BY <1>5, <4>2
            <4> QED BY <1>5, <2>2, <4>1, <4>2, <4>3 DEF OneEach
        <3>2. Waits(s, k)
            BY <1>7, <2>4
        <3> QED BY <1>6, <2>2, <3>1, <3>2 DEF OneEach
    <2> QED BY <2>3, <2>4 DEF OneEach
<1>16. MapsOK(x)
    BY <1>1, <1>9, <1>10, <1>12, <1>14, <1>15 DEF MapsOK
<1>17. SameRefs(x, s)
    <2>1. id \notin Target
        BY <1>2, LimboAssumption
    <2> QED BY <1>1, <1>2, <2>1 DEF SameRefs
<1> QED BY <1>5, <1>8, <1>16, <1>17 DEF x

\* The loop ends with nothing waiting or with no room, and forgets no key.
LEMMA PumpKeepsMaps ==
    ASSUME NEW s, MapsOK(s)
    PROVE  LET x == PumpEnqueuedLimboResolutions(s)
           IN  /\ MapsOK(x) /\ SameRefs(x, s) /\ Settled(x)
               /\ \A k \in Key : Busy(x, k) <=> Busy(s, k)
<1> DEFINE q == s.enqueued
           step == [p \in Unbounded \X Key |->
                       IF Settled(p[1]) THEN p[1] ELSE StartResolution(p[1])]
           P == [n \in 0..Len(q) |->
                   {x \in Unbounded :
                       /\ MapsOK(x) /\ SameRefs(x, s)
                       /\ \A k \in Key : Busy(x, k) <=> Busy(s, k)
                       /\ Settled(x) \/ Len(x.enqueued) = Len(q) - n}]
<1>1. s \in Unbounded /\ q \in Seq(Key) /\ Len(q) \in Nat
    BY DEF MapsOK, Unbounded, Records
<1>2. s \in P[0]
    BY <1>1 DEF SameRefs
<1>3. ASSUME NEW n \in 1..Len(q), NEW r \in P[n - 1]
      PROVE  step[<<r, q[n]>>] \in P[n]
    <2>1. n - 1 \in 0..Len(q) /\ n \in 0..Len(q) /\ q[n] \in Key
        BY <1>1
    <2>2. /\ r \in Unbounded /\ MapsOK(r) /\ SameRefs(r, s)
          /\ \A k \in Key : Busy(r, k) <=> Busy(s, k)
          /\ Settled(r) \/ Len(r.enqueued) = Len(q) - (n - 1)
        BY <2>1
    <2>3. step[<<r, q[n]>>] = IF Settled(r) THEN r ELSE StartResolution(r)
        BY <2>1, <2>2
    <2>4. CASE Settled(r)
        BY <2>1, <2>2, <2>3, <2>4
    <2>5. CASE ~Settled(r)
        <3> DEFINE x == StartResolution(r)
        <3>1. r.enqueued # << >>
            BY <2>5 DEF Settled
        <3>2. /\ MapsOK(x) /\ SameRefs(x, r)
              /\ \A k \in Key : Busy(x, k) <=> Busy(r, k)
              /\ Len(x.enqueued) = Len(r.enqueued) - 1
            BY <2>2, <3>1, StartKeepsMaps
        <3>3. step[<<r, q[n]>>] = x
            BY <2>3, <2>5
        <3> HIDE DEF x, step
        <3>4. x \in Unbounded
            BY <3>2 DEF MapsOK
        <3>5. SameRefs(x, s)
            BY <2>2, <3>2 DEF SameRefs
        <3>6. \A k \in Key : Busy(x, k) <=> Busy(s, k)
            BY <2>2, <3>2
        <3>7. Len(x.enqueued) = Len(q) - n
            BY <1>1, <2>2, <2>5, <3>2
        <3> QED BY <2>1, <3>2, <3>3, <3>4, <3>5, <3>6, <3>7
    <2> QED BY <2>4, <2>5
<1> DEFINE x == PumpEnqueuedLimboResolutions(s)
<1>4. x \in P[Len(q)]
    <2>1. x = Loop(step, s, q)
        BY DEF PumpEnqueuedLimboResolutions
    <2> HIDE DEF P, step, x, q
    <2>2. Loop(step, s, q) \in P[Len(q)]
        BY <1>1, <1>2, <1>3, LoopKeeps
    <2> QED BY <2>1, <2>2
<1> HIDE DEF x
<1>5. /\ MapsOK(x) /\ SameRefs(x, s)
      /\ \A k \in Key : Busy(x, k) <=> Busy(s, k)
      /\ Settled(x) \/ Len(x.enqueued) = Len(q) - Len(q)
    BY <1>1, <1>4
<1>6. Settled(x)
    <2>1. SUFFICES ASSUME Len(x.enqueued) = 0 PROVE Settled(x)
        BY <1>1, <1>5
    <2>2. x.enqueued \in Seq(Key)
        BY <1>5 DEF MapsOK, Unbounded, Records
    <2>3. x.enqueued = << >>
        BY <2>1, <2>2
    <2> QED BY <2>3 DEF Settled
<1> QED BY <1>5, <1>6 DEF x

-----------------------------------------------------------------------------
(***************************************************************************)
(* Ending resolutions, and asking for them.                                *)
(***************************************************************************)
\* The parts of the tracking.
LEMMA Fields ==
    ASSUME NEW s \in Unbounded
    PROVE  /\ s.refs \in [Target -> SUBSET Key] /\ s.enqueued \in Seq(Key)
           /\ s.byKey \in [Key -> Nat]
           /\ s.byTarget \subseteq [id : Nat, key : Key]
           /\ s.watched \subseteq Target \cup Nat /\ s.astray \subseteq Key
BY DEF Unbounded, Records

\* A step that only changes the references, or lets keys go astray.
SameMaps(x, s) ==
    /\ x.enqueued = s.enqueued /\ x.byKey = s.byKey /\ x.byTarget = s.byTarget
    /\ x.watched = s.watched /\ s.astray \subseteq x.astray

\* Such a step keeps what the maps are to one another.
LEMMA SameMapsOK ==
    ASSUME NEW s, NEW x \in Unbounded, MapsOK(s), SameMaps(x, s)
    PROVE  /\ MapsOK(x)
           /\ Settled(s) => Settled(x)
           /\ \A k \in Key : Busy(x, k) <=> Busy(s, k)
<1>1. \A k : Waits(x, k) <=> Waits(s, k)
    BY DEF SameMaps, Waits
<1>2. \A k \in Key : Busy(x, k) <=> Busy(s, k)
    BY <1>1 DEF SameMaps, Busy
<1>3. Ids(x) = Ids(s)
    BY DEF SameMaps, Ids
<1>4. Active(x) = Active(s)
    BY DEF SameMaps, Active
<1>5. Settled(s) => Settled(x)
    BY <1>4 DEF SameMaps, Settled
<1>6. \A k \in Key \ x.astray : OneEach(x, k)
    BY <1>1 DEF SameMaps, OneEach, MapsOK
<1>7. MapsOK(x)
    BY <1>3, <1>6 DEF SameMaps, MapsOK
<1> QED BY <1>2, <1>5, <1>7

\* Letting a key go astray is such a step.
LEMMA StraysOK ==
    ASSUME NEW s, MapsOK(s), NEW key \in Key, NEW bad \in BOOLEAN
    PROVE  LET x == StraysIf(s, key, bad)
           IN  /\ x \in Unbounded /\ SameMaps(x, s) /\ x.refs = s.refs
               /\ bad => key \in x.astray
               /\ ~bad => x = s
<1>1. s \in Unbounded
    BY DEF MapsOK
<1>2. CASE bad
    <2> DEFINE x == [s EXCEPT !.astray = s.astray \cup {key}]
    <2>1. StraysIf(s, key, bad) = x
        BY <1>2 DEF StraysIf
    <2>2. s.astray \cup {key} \subseteq Key
        BY <1>1, Fields
    <2>3. x \in Unbounded
        BY <1>1, <2>2 DEF Unbounded, Records
    <2>4. /\ x.refs = s.refs /\ x.enqueued = s.enqueued /\ x.byKey = s.byKey
          /\ x.byTarget = s.byTarget /\ x.watched = s.watched
          /\ x.astray = s.astray \cup {key}
        BY <1>1 DEF Unbounded, Records
    <2> QED BY <1>2, <2>1, <2>3, <2>4 DEF SameMaps
<1>3. CASE ~bad
    BY <1>1, <1>3 DEF StraysIf, SameMaps
<1> QED BY <1>2, <1>3

\* So is changing the references of a target.
LEMMA WithRefs ==
    ASSUME NEW s, MapsOK(s), NEW t \in Target, NEW R \in SUBSET Key
    PROVE  LET x == [s EXCEPT !.refs[t] = R]
           IN  /\ MapsOK(x) /\ x.refs = [s.refs EXCEPT ![t] = R]
               /\ x.watched = s.watched /\ x.astray = s.astray
               /\ Settled(s) => Settled(x)
               /\ \A k \in Key : Busy(x, k) <=> Busy(s, k)
<1> DEFINE f == [s.refs EXCEPT ![t] = R]
           x == [s EXCEPT !.refs = f]
<1>1. s \in Unbounded /\ f \in [Target -> SUBSET Key]
    BY Fields DEF MapsOK
<1>2. [s EXCEPT !.refs[t] = R] = x
    OBVIOUS
<1> HIDE DEF f
<1>3. x \in Unbounded
    BY <1>1 DEF Unbounded, Records
<1>4. /\ x.refs = f /\ x.enqueued = s.enqueued /\ x.byKey = s.byKey
      /\ x.byTarget = s.byTarget /\ x.watched = s.watched
      /\ x.astray = s.astray
    BY <1>1 DEF Unbounded, Records
<1> HIDE DEF x
<1>5. SameMaps(x, s)
    BY <1>4 DEF SameMaps
<1>6. /\ MapsOK(x)
      /\ Settled(s) => Settled(x)
      /\ \A k \in Key : Busy(x, k) <=> Busy(s, k)
    BY <1>3, <1>5, SameMapsOK
<1> QED BY <1>2, <1>4, <1>6 DEF f

\* A resolution ends: its document is not active any more, nor its target.
Ended(z, s, r) ==
    /\ z \in Unbounded /\ r \in s.byTarget
    /\ z.enqueued = s.enqueued /\ s.astray \subseteq z.astray
    /\ z.byKey = [s.byKey EXCEPT ![r.key] = 0]
    /\ z.byTarget = s.byTarget \ {r} /\ z.watched = s.watched \ {r.id}

\* Without the resolution the maps still fit; its key is in the queue or nowhere.
LEMMA EndedOK ==
    ASSUME NEW s, MapsOK(s), NEW r, NEW z, Ended(z, s, r)
    PROVE  /\ MapsOK(z)
           /\ \A k \in Key \ {r.key} : Busy(z, k) <=> Busy(s, k)
           /\ Busy(z, r.key) <=> Waits(s, r.key)
           /\ z.watched \cap Target = s.watched \cap Target
<1>1. /\ s.byKey \in [Key -> Nat] /\ s.byTarget \subseteq [id : Nat, key : Key]
      /\ r.key \in Key /\ r.id \in Nat /\ s \in Unbounded
    BY Fields DEF MapsOK, Ended
<1>2. z.byKey[r.key] = 0 /\ \A k \in Key \ {r.key} : z.byKey[k] = s.byKey[k]
    BY <1>1 DEF Ended
<1>3. \A k : Waits(z, k) <=> Waits(s, k)
    BY DEF Ended, Waits
<1>4. Ids(z) \subseteq Ids(s)
    BY DEF Ended, Ids
<1>5. IsFiniteSet(Ids(z)) /\ 0 \notin Ids(z)
    BY <1>4, FS_Subset DEF MapsOK
<1>6. ASSUME NEW k \in Key, z.byKey[k] # 0
      PROVE  /\ z.byKey[k] \in z.watched
             /\ [id |-> z.byKey[k], key |-> k] \in z.byTarget
    <2>1. k # r.key /\ z.byKey[k] = s.byKey[k] /\ s.byKey[k] # 0
        BY <1>2, <1>6
    <2> DEFINE p == [id |-> s.byKey[k], key |-> k]
    <2>2. s.byKey[k] \in s.watched /\ p \in s.byTarget
        BY <2>1 DEF MapsOK
    <2>3. p # r /\ p.id = s.byKey[k]
        BY <2>1
    <2> HIDE DEF p
    <2>4. p.id # r.id
        BY <2>2, <2>3 DEF MapsOK, Ended
    <2> QED BY <2>1, <2>2, <2>3, <2>4 DEF p, Ended
<1>7. ASSUME NEW p \in z.byTarget
      PROVE  p.key \in z.astray \/ z.byKey[p.key] = p.id
    <2>1. p \in s.byTarget /\ p # r /\ p.key \in Key
        BY <1>1 DEF Ended
    <2>2. p.key \in s.astray \/ s.byKey[p.key] = p.id
        BY <2>1 DEF MapsOK
    <2>3. CASE p.key # r.key
        BY <1>2, <2>1, <2>2, <2>3 DEF Ended
    <2>4. CASE p.key = r.key
        <3>1. r.key \in s.astray \/ s.byKey[r.key] = r.id
            BY DEF MapsOK, Ended
        <3>2. p.id # r.id
            BY <2>1 DEF MapsOK, Ended
        <3> QED BY <2>2, <2>4, <3>1, <3>2 DEF Ended
    <2> QED BY <2>3, <2>4
<1>8. \A k \in Key \ z.astray : OneEach(z, k)
    <2>1. TAKE k \in Key \ z.astray
    <2>2. OneEach(s, k)
        BY DEF MapsOK, Ended
    <2>3. s.byKey[k] = 0 => z.byKey[k] = 0
        BY <1>2
    <2> QED BY <1>3, <2>2, <2>3 DEF OneEach, Ended
<1>9. \A p, o \in z.byTarget : p.id = o.id => p = o
    BY DEF MapsOK, Ended
<1>10. MapsOK(z)
    BY <1>5, <1>6, <1>7, <1>8, <1>9 DEF MapsOK, Ended
<1>11. r.id \notin Target
    BY <1>1, LimboAssumption
<1>12. z.watched \cap Target = s.watched \cap Target
    BY <1>11 DEF Ended
<1> QED BY <1>2, <1>3, <1>10, <1>12 DEF Busy

\* What every step of a task does to the tracking.
Follows(x, s) ==
    /\ MapsOK(x) /\ s.astray \subseteq x.astray
    /\ x.watched \cap Target = s.watched \cap Target
    /\ Settled(s) => Settled(x)

\* Two steps of a task are one.
LEMMA FollowsTwice ==
    ASSUME NEW s, NEW x, NEW y, Follows(x, s), Follows(y, x)
    PROVE  Follows(y, s)
BY DEF Follows

\* Nobody asks for the key any more.
LEMMA RemoveFacts ==
    ASSUME NEW s, MapsOK(s), NEW key \in Key
    PROVE  LET x == RemoveLimboTarget(s, key)
           IN  /\ Follows(x, s) /\ x.refs = s.refs
               /\ \A k \in Key \ {key} : Busy(x, k) <=> Busy(s, k)
               /\ key \in x.astray \/ ~Busy(x, key)
               /\ ~Busy(s, key) => ~Busy(x, key)
<1> DEFINE x == RemoveLimboTarget(s, key)
<1>1. CASE s.byKey[key] = 0
    <2>1. x = StraysIf(s, key, Waits(s, key)) /\ Waits(s, key) \in BOOLEAN
        BY <1>1 DEF RemoveLimboTarget, Waits
    <2> HIDE DEF x
    <2>2. /\ x \in Unbounded /\ SameMaps(x, s) /\ x.refs = s.refs
          /\ Waits(s, key) => key \in x.astray
        BY <2>1, StraysOK
    <2>3. /\ MapsOK(x)
          /\ Settled(s) => Settled(x)
          /\ \A k \in Key : Busy(x, k) <=> Busy(s, k)
        BY <2>2, SameMapsOK
    <2>4. key \in x.astray \/ ~Busy(x, key)
        BY <1>1, <2>2, <2>3 DEF Busy
    <2> QED BY <2>2, <2>3, <2>4 DEF Follows, SameMaps, x
<1>2. CASE s.byKey[key] # 0
    <2> DEFINE id == s.byKey[key]
               r == [id |-> id, key |-> key]
               f == [s.byKey EXCEPT ![key] = 0]
               b == {p \in s.byTarget : p.id # id}
               w == s.watched \ {id}
               z == [s EXCEPT !.byKey = f, !.byTarget = b, !.watched = w]
    <2>1. s \in Unbounded
        BY DEF MapsOK
    <2>2. /\ s.byKey \in [Key -> Nat] /\ s.watched \subseteq Target \cup Nat
          /\ s.byTarget \subseteq [id : Nat, key : Key]
        BY <2>1, Fields
    <2>3. [Deactivate(s, key) EXCEPT !.watched = @ \ {s.byKey[key]}] = z
        BY <2>1 DEF Deactivate, Unbounded, Records
    <2>4. x = PumpEnqueuedLimboResolutions(z)
        BY <1>2, <2>3 DEF RemoveLimboTarget
    <2>5. /\ f \in [Key -> {0} \cup Nat] /\ b \subseteq [id : Nat, key : Key]
          /\ w \subseteq Target \cup Nat
        BY <2>2
    <2>6. r \in s.byTarget /\ r.id = id /\ r.key = key
        BY <1>2 DEF MapsOK
    <2>7. b = s.byTarget \ {r}
        BY <2>6 DEF MapsOK
    <2> HIDE DEF f, b, w, r, id, x
    <2>8. z \in Unbounded
        BY <2>1, <2>5 DEF Unbounded, Records
    <2>9. /\ z.refs = s.refs /\ z.enqueued = s.enqueued /\ z.astray = s.astray
          /\ z.byKey = f /\ z.byTarget = b /\ z.watched = w
        BY <2>1 DEF Unbounded, Records
    <2> HIDE DEF z
    <2>10. Ended(z, s, r)
        BY <2>6, <2>7, <2>8, <2>9 DEF Ended, f, w
    <2>11. /\ MapsOK(z)
           /\ \A k \in Key \ {key} : Busy(z, k) <=> Busy(s, k)
           /\ Busy(z, key) <=> Waits(s, key)
           /\ z.watched \cap Target = s.watched \cap Target
        BY <2>6, <2>10, EndedOK
    <2>12. /\ MapsOK(x) /\ SameRefs(x, z) /\ Settled(x)
           /\ \A k \in Key : Busy(x, k) <=> Busy(z, k)
        BY <2>4, <2>11, PumpKeepsMaps
    <2>13. key \in s.astray \/ ~Waits(s, key)
        BY <1>2 DEF MapsOK, OneEach
    <2>14. Follows(x, s) /\ x.refs = s.refs
        BY <2>9, <2>11, <2>12 DEF Follows, SameRefs
    <2>15. key \in x.astray \/ ~Busy(x, key)
        BY <2>11, <2>12, <2>13, <2>14 DEF Follows
    <2>16. Busy(s, key)
        BY <1>2 DEF Busy
    <2> QED BY <2>11, <2>12, <2>14, <2>15, <2>16 DEF x
<1> QED BY <1>1, <1>2

\* A view asks for the key.
LEMMA TrackFacts ==
    ASSUME NEW s, MapsOK(s), NEW key \in Key
    PROVE  LET x == TrackLimboChange(s, key)
           IN  /\ Follows(x, s) /\ x.refs = s.refs
               /\ \A k \in Key \ {key} : Busy(x, k) <=> Busy(s, k)
               /\ Busy(x, key)
<1> DEFINE x == TrackLimboChange(s, key)
<1>1. CASE s.byKey[key] # 0
    <2>1. x = s /\ Busy(s, key)
        BY <1>1 DEF TrackLimboChange, Busy
    <2> QED BY <2>1 DEF Follows
<1>2. CASE s.byKey[key] = 0
    <2> DEFINE q == Append(s.enqueued, key)
               y == [s EXCEPT !.enqueued = q]
               a == IF Waits(s, key) THEN s.astray \cup {key} ELSE s.astray
               z == StraysIf(y, key, Waits(s, key))
    <2>1. s \in Unbounded
        BY DEF MapsOK
    <2>2. s.enqueued \in Seq(Key) /\ s.astray \subseteq Key
        BY <2>1, Fields
    <2>3. /\ q \in Seq(Key) /\ Len(s.enqueued) \in Nat
          /\ DOMAIN s.enqueued = 1..Len(s.enqueued)
          /\ DOMAIN q = 1..Len(s.enqueued) + 1 /\ q[Len(s.enqueued) + 1] = key
          /\ \A i \in 1..Len(s.enqueued) : q[i] = s.enqueued[i]
        BY <2>2, AppendToQueue
    <2>4. x = PumpEnqueuedLimboResolutions(z)
        BY <1>2 DEF TrackLimboChange
    <2> HIDE DEF q, x
    <2>5. z = [s EXCEPT !.enqueued = q, !.astray = a]
        BY <2>1 DEF StraysIf, Unbounded, Records
    <2>6. a \subseteq Key /\ s.astray \subseteq a /\ (Waits(s, key) => key \in a)
        BY <2>2
    <2> HIDE DEF a, z
    <2>7. z \in Unbounded
        BY <2>1, <2>3, <2>5, <2>6 DEF Unbounded, Records
    <2>8. /\ z.refs = s.refs /\ z.enqueued = q /\ z.byKey = s.byKey
          /\ z.byTarget = s.byTarget /\ z.watched = s.watched /\ z.astray = a
        BY <2>1, <2>5 DEF Unbounded, Records
    <2>9. \A k \in Key : Waits(z, k) <=> Waits(s, k) \/ k = key
        <3>1. ASSUME NEW k \in Key, Waits(z, k) PROVE Waits(s, k) \/ k = key
            <4>1. PICK i \in 1..Len(s.enqueued) + 1 : q[i] = k
                BY <2>3, <2>8, <3>1 DEF Waits
            <4>2. CASE i = Len(s.enqueued) + 1
                BY <2>3, <4>1, <4>2
            <4>3. CASE i # Len(s.enqueued) + 1
                <5>1. i \in 1..Len(s.enqueued)
                    BY <2>3, <4>1, <4>3
                <5> QED BY <2>3, <4>1, <5>1 DEF Waits
            <4> QED BY <4>2, <4>3
        <3>2. ASSUME NEW k \in Key, Waits(s, k) PROVE Waits(z, k)
            <4>1. PICK i \in 1..Len(s.enqueued) : s.enqueued[i] = k
                BY <2>3, <3>2 DEF Waits
            <4>2. i \in 1..Len(s.enqueued) + 1
                BY <2>3
            <4> QED BY <2>3, <2>8, <4>1, <4>2 DEF Waits
        <3>3. Waits(z, key)
            <4>1. Len(s.enqueued) + 1 \in 1..Len(s.enqueued) + 1
                BY <2>3
            <4> QED BY <2>3, <2>8, <4>1 DEF Waits
        <3> QED BY <3>1, <3>2, <3>3
    <2>10. \A k \in Key \ z.astray : OneEach(z, k)
        <3>1. TAKE k \in Key \ z.astray
        <3>2. OneEach(s, k)
            BY <2>6, <2>8 DEF MapsOK
        <3>3. Waits(z, k) => z.byKey[k] = 0
            BY <1>2, <2>8, <2>9, <3>2 DEF OneEach
        <3>4. CASE k # key
            <4>1. \A i \in 1..Len(s.enqueued) + 1 :
                     q[i] = k => i \in 1..Len(s.enqueued) /\ s.enqueued[i] = k
                BY <2>3, <3>4
            <4> QED BY <2>3, <2>8, <3>2, <3>3, <4>1 DEF OneEach
        <3>5. CASE k = key
            <4>1. ~Waits(s, key)
                BY <2>6, <2>8, <3>5
            <4>2. \A i \in 1..Len(s.enqueued) + 1 :
                     q[i] = k => i = Len(s.enqueued) + 1
                <5>1. \A i \in 1..Len(s.enqueued) : q[i] # k
                    BY <2>3, <3>5, <4>1 DEF Waits
                <5> QED BY <2>3, <5>1
            <4> QED BY <2>3, <2>8, <3>3, <4>2 DEF OneEach
        <3> QED BY <3>4, <3>5
    <2>11. Ids(z) = Ids(s)
        BY <2>8 DEF Ids
    <2>12. MapsOK(z)
        BY <2>6, <2>7, <2>8, <2>10, <2>11 DEF MapsOK
    <2>13. \A k \in Key \ {key} : Busy(z, k) <=> Busy(s, k)
        BY <2>8, <2>9 DEF Busy
    <2>14. Busy(z, key)
        BY <2>9 DEF Busy
    <2>15. /\ MapsOK(x) /\ SameRefs(x, z) /\ Settled(x)
           /\ \A k \in Key : Busy(x, k) <=> Busy(z, k)
        BY <2>4, <2>12, PumpKeepsMaps
    <2>16. Follows(x, s) /\ x.refs = s.refs
        BY <2>6, <2>8, <2>15 DEF Follows, SameRefs
    <2> QED BY <2>13, <2>14, <2>15, <2>16 DEF x
<1> QED BY <1>1, <1>2

-----------------------------------------------------------------------------
(***************************************************************************)
(* Sequences of all elements of a set.                                     *)
(***************************************************************************)
\* As many different elements as there are: all of them.
LEMMA InjectionIsOnto ==
    ASSUME NEW S, IsFiniteSet(S), NEW q \in [1..Cardinality(S) -> S],
           \A i, j \in 1..Cardinality(S) : q[i] = q[j] => i = j
    PROVE  /\ q \in Seq(S)
           /\ \A x \in S : \E i \in 1..Len(q) : q[i] = x
<1> DEFINE n == Cardinality(S)
<1>1. n \in Nat
    BY FS_CardinalityType
<1>2. Cardinality(1..n) = n
    BY <1>1, FS_Interval
<1> HIDE DEF n
<1>3. q \in Injection(1..n, S)
    BY DEF Injection, IsInjective, n
<1>4. q \in Surjection(1..n, S)
    BY <1>2, <1>3, FS_Injection DEF n
<1>5. q \in Seq(S) /\ Len(q) = n
    BY <1>1 DEF n
<1> QED BY <1>4, <1>5 DEF Surjection

\* The keys in their order are all the keys.
LEMMA SortedIs ==
    ASSUME NEW S \in SUBSET Key
    PROVE  /\ Sorted(S) \in Seq(S)
           /\ \A k \in S : \E i \in 1..Len(Sorted(S)) : Sorted(S)[i] = k
<1> DEFINE n == Cardinality(S)
           q == Sorted(S)
<1>1. S \in SUBSET Nat /\ IsFiniteSet(S) /\ n \in Nat
    BY LimboAssumption, FS_Subset, FS_CardinalityType
<1>2. q \in [1..n -> S] /\ Increasing(q)
    BY <1>1, OrderExists DEF Sorted, Increasing
<1> HIDE DEF q
<1>3. ASSUME NEW i \in 1..n, NEW j \in 1..n, q[i] = q[j] PROVE i = j
    <2>1. q[i] \in Nat /\ q[j] \in Nat /\ i \in DOMAIN q /\ j \in DOMAIN q
        BY <1>1, <1>2
    <2>2. ~(i < j) /\ ~(j < i)
        BY <1>2, <1>3, <2>1 DEF Increasing
    <2> QED BY <1>1, <2>2
<1>4. q \in Seq(S) /\ \A k \in S : \E i \in 1..Len(q) : q[i] = k
    BY <1>1, <1>2, <1>3, InjectionIsOnto
<1> QED BY <1>4 DEF q

\* Every order of the targets has all the targets.
LEMMA OrderIs ==
    ASSUME NEW S \in SUBSET Target, NEW q \in SetToSeqs(S)
    PROVE  /\ q \in Seq(S)
           /\ \A t \in S : \E i \in 1..Len(q) : q[i] = t
<1>1. IsFiniteSet(S)
    BY LimboAssumption, FS_Subset
<1>2. /\ q \in [1..Cardinality(S) -> S]
      /\ \A i, j \in 1..Cardinality(S) : q[i] = q[j] => i = j
    BY DEF SetToSeqs
<1> QED BY <1>1, <1>2, InjectionIsOnto

\* The elements of a sequence that have been passed.
Passed(q, n) == {q[i] : i \in 1..n}

\* One element more is passed with each round, and all of them in the end.
LEMMA PassedFacts ==
    ASSUME NEW S, NEW q \in Seq(S)
    PROVE  /\ Passed(q, 0) = {} /\ Len(q) \in Nat
           /\ \A n \in 1..Len(q) : /\ n \in 0..Len(q) /\ n - 1 \in 0..Len(q)
                                   /\ q[n] \in S
                                   /\ Passed(q, n) = Passed(q, n - 1) \cup {q[n]}
           /\ (\A x \in S : \E i \in 1..Len(q) : q[i] = x) =>
                  Passed(q, Len(q)) = S
<1>1. Passed(q, 0) = {} /\ Len(q) \in Nat
    BY DEF Passed
<1>2. ASSUME NEW n \in 1..Len(q)
      PROVE  /\ n \in 0..Len(q) /\ n - 1 \in 0..Len(q) /\ q[n] \in S
             /\ Passed(q, n) = Passed(q, n - 1) \cup {q[n]}
    <2>1. 1..n = 1..n - 1 \cup {n}
        BY <1>1
    <2> QED BY <1>1, <2>1 DEF Passed
<1>3. ASSUME \A x \in S : \E i \in 1..Len(q) : q[i] = x
      PROVE  Passed(q, Len(q)) = S
    BY <1>3 DEF Passed
<1> QED BY <1>1, <1>2, <1>3

-----------------------------------------------------------------------------
(***************************************************************************)
(* References of views.                                                    *)
(***************************************************************************)
\* A key is in limbo just if it is being resolved or waits, or goes astray; the
\* keys of Gone are in nothing, and will not be in limbo for long.
Tracks(s, Gone) ==
    \A k \in Key \ s.astray :
        IF k \in Gone THEN ~Busy(s, k) ELSE InLimbo(s, k) <=> Busy(s, k)

\* Keys whose reference does not change are in limbo as before.
LEMMA InLimboWith ==
    ASSUME NEW s, NEW x, s.refs \in [Target -> SUBSET Key], NEW t \in Target,
           NEW R \in SUBSET Key, x.refs = [s.refs EXCEPT ![t] = R]
    PROVE  \A k : (k \in R <=> k \in s.refs[t]) => (InLimbo(x, k) <=> InLimbo(s, k))
BY DEF InLimbo

\* A view comes to have the key in limbo.
LEMMA AddFacts ==
    ASSUME NEW s, MapsOK(s), NEW t \in Target, NEW key \in Key, NEW Gone,
           key \notin Gone, Tracks(s, Gone)
    PROVE  LET x == AddReference(s, t, key)
           IN  /\ Follows(x, s) /\ Tracks(x, Gone)
               /\ x.refs = [s.refs EXCEPT ![t] = s.refs[t] \cup {key}]
<1> DEFINE x == AddReference(s, t, key)
           R == s.refs[t] \cup {key}
           y == [s EXCEPT !.refs[t] = R]
<1>1. s.refs \in [Target -> SUBSET Key]
    BY Fields DEF MapsOK
<1>2. R \in SUBSET Key
    BY <1>1
<1>3. /\ MapsOK(y) /\ y.refs = [s.refs EXCEPT ![t] = R]
      /\ y.watched = s.watched /\ y.astray = s.astray
      /\ Settled(s) => Settled(y)
      /\ \A k \in Key : Busy(y, k) <=> Busy(s, k)
    BY <1>2, WithRefs
<1>4. x = TrackLimboChange(y, key)
    BY DEF AddReference
<1> HIDE DEF x, y
<1>5. /\ Follows(x, y) /\ x.refs = y.refs
      /\ \A k \in Key \ {key} : Busy(x, k) <=> Busy(y, k)
      /\ Busy(x, key)
    BY <1>3, <1>4, TrackFacts
<1>6. Follows(x, s)
    BY <1>3, <1>5 DEF Follows
<1>7. x.refs = [s.refs EXCEPT ![t] = R]
    BY <1>3, <1>5
<1>8. InLimbo(x, key)
    BY <1>1, <1>7 DEF InLimbo
<1>9. \A k \in Key \ {key} : InLimbo(x, k) <=> InLimbo(s, k)
    <2>1. \A k \in Key \ {key} : k \in R <=> k \in s.refs[t]
        OBVIOUS
    <2> HIDE DEF R
    <2> QED BY <1>1, <1>2, <1>7, <2>1, InLimboWith
<1>10. Tracks(x, Gone)
    <2>1. SUFFICES ASSUME NEW k \in Key \ x.astray
        PROVE  IF k \in Gone THEN ~Busy(x, k)
               ELSE InLimbo(x, k) <=> Busy(x, k)
        BY DEF Tracks
    <2>2. k \notin s.astray
        BY <1>6 DEF Follows
    <2>3. CASE k = key
        BY <1>5, <1>8, <2>3
    <2>4. CASE k # key
        <3>1. (Busy(x, k) <=> Busy(s, k)) /\ (InLimbo(x, k) <=> InLimbo(s, k))
            BY <1>3, <1>5, <1>9, <2>4
        <3> QED BY <2>2, <3>1 DEF Tracks
    <2> QED BY <2>3, <2>4
<1> QED BY <1>6, <1>7, <1>10 DEF x

\* A view does not have the key in limbo any more.
LEMMA RemoveReferenceFacts ==
    ASSUME NEW s, MapsOK(s), NEW t \in Target, NEW key \in Key, NEW Gone,
           Tracks(s, Gone)
    PROVE  LET x == RemoveReference(s, t, key)
           IN  /\ Follows(x, s) /\ Tracks(x, Gone)
               /\ x.refs = [s.refs EXCEPT ![t] = s.refs[t] \ {key}]
<1> DEFINE x == RemoveReference(s, t, key)
           R == s.refs[t] \ {key}
           y == [s EXCEPT !.refs[t] = R]
<1>1. s.refs \in [Target -> SUBSET Key]
    BY Fields DEF MapsOK
<1>2. R \in SUBSET Key
    BY <1>1
<1>3. /\ MapsOK(y) /\ y.refs = [s.refs EXCEPT ![t] = R]
      /\ y.watched = s.watched /\ y.astray = s.astray
      /\ Settled(s) => Settled(y)
      /\ \A k \in Key : Busy(y, k) <=> Busy(s, k)
    BY <1>2, WithRefs
<1>4. x = IF InLimbo(y, key) THEN y ELSE RemoveLimboTarget(y, key)
    BY DEF RemoveReference
<1> HIDE DEF x, y
<1>5. \A k \in Key \ {key} : InLimbo(y, k) <=> InLimbo(s, k)
    <2>1. \A k \in Key \ {key} : k \in R <=> k \in s.refs[t]
        OBVIOUS
    <2> HIDE DEF R
    <2> QED BY <1>1, <1>2, <1>3, <2>1, InLimboWith
<1>6. CASE InLimbo(y, key)
    <2>1. x = y
        BY <1>4, <1>6
    <2>2. Follows(x, s)
        BY <1>3, <2>1 DEF Follows
    <2>3. InLimbo(s, key)
        BY <1>1, <1>3, <1>6 DEF InLimbo
    <2>4. \A k \in Key : InLimbo(x, k) <=> InLimbo(s, k)
        BY <1>5, <1>6, <2>1, <2>3
    <2>5. Tracks(x, Gone)
        BY <1>3, <2>1, <2>4 DEF Tracks
    <2> QED BY <1>3, <2>1, <2>2, <2>5 DEF x
<1>7. CASE ~InLimbo(y, key)
    <2>1. x = RemoveLimboTarget(y, key)
        BY <1>4, <1>7
    <2>2. /\ Follows(x, y) /\ x.refs = y.refs
          /\ \A k \in Key \ {key} : Busy(x, k) <=> Busy(y, k)
          /\ key \in x.astray \/ ~Busy(x, key)
        BY <1>3, <2>1, RemoveFacts
    <2>3. Follows(x, s)
        BY <1>3, <2>2 DEF Follows
    <2>4. \A k : InLimbo(x, k) <=> InLimbo(y, k)
        BY <2>2 DEF InLimbo
    <2>5. Tracks(x, Gone)
        <3>1. SUFFICES ASSUME NEW k \in Key \ x.astray
            PROVE  IF k \in Gone THEN ~Busy(x, k)
                   ELSE InLimbo(x, k) <=> Busy(x, k)
            BY DEF Tracks
        <3>2. k \notin s.astray
            BY <2>3 DEF Follows
        <3>3. CASE k = key
            BY <1>7, <2>2, <2>4, <3>3
        <3>4. CASE k # key
            <4>1. (Busy(x, k) <=> Busy(s, k)) /\ (InLimbo(x, k) <=> InLimbo(s, k))
                BY <1>3, <1>5, <2>2, <2>4, <3>4
            <4> QED BY <3>2, <4>1 DEF Tracks
        <3> QED BY <3>3, <3>4
    <2> QED BY <1>3, <2>2, <2>3, <2>5 DEF x
<1> QED BY <1>6, <1>7

-----------------------------------------------------------------------------
(***************************************************************************)
(* The loops over keys and over views.                                     *)
(***************************************************************************)
\* What is done for one element.
Removing(t)    == [p \in Unbounded \X Key |-> RemoveReference(p[1], t, p[2])]
Adding(t)      == [p \in Unbounded \X Key |-> AddReference(p[1], t, p[2])]
Updating(v, w) == [p \in Unbounded \X Target |->
                      UpdateTrackedLimboDocuments(p[1], p[2], v[p[2]].limbo,
                                                  w[p[2]].limbo)]

\* It lets go of several keys.
LEMMA RemovedFacts ==
    ASSUME NEW s, MapsOK(s), NEW t \in Target, NEW S \in SUBSET Key, NEW Gone,
           Tracks(s, Gone)
    PROVE  LET x == Loop(Removing(t), s, Sorted(S))
           IN  /\ Follows(x, s) /\ Tracks(x, Gone)
               /\ x.refs = [s.refs EXCEPT ![t] = s.refs[t] \ S]
<1> DEFINE q == Sorted(S)
           step == Removing(t)
           x == Loop(step, s, q)
           P == [n \in 0..Len(q) |->
                   {r \in Unbounded :
                       /\ Follows(r, s) /\ Tracks(r, Gone)
                       /\ r.refs = [s.refs EXCEPT ![t] = s.refs[t] \ Passed(q, n)]}]
<1>1. q \in Seq(S) /\ \A k \in S : \E i \in 1..Len(q) : q[i] = k
    BY SortedIs
<1> HIDE DEF q
<1>2. /\ Passed(q, 0) = {} /\ Len(q) \in Nat /\ Passed(q, Len(q)) = S
      /\ \A n \in 1..Len(q) : /\ n \in 0..Len(q) /\ n - 1 \in 0..Len(q)
                              /\ q[n] \in S
                              /\ Passed(q, n) = Passed(q, n - 1) \cup {q[n]}
    BY <1>1, PassedFacts
<1>3. s \in Unbounded /\ s.refs \in [Target -> SUBSET Key] /\ Follows(s, s)
    BY Fields DEF MapsOK, Follows
<1>4. s \in P[0]
    <2>1. s.refs = [s.refs EXCEPT ![t] = s.refs[t] \ Passed(q, 0)]
        BY <1>2, <1>3
    <2> QED BY <1>2, <1>3, <2>1
<1>5. ASSUME NEW n \in 1..Len(q), NEW r \in P[n - 1]
      PROVE  step[<<r, q[n]>>] \in P[n]
    <2>1. /\ n \in 0..Len(q) /\ n - 1 \in 0..Len(q) /\ q[n] \in Key
          /\ Passed(q, n) = Passed(q, n - 1) \cup {q[n]}
        BY <1>2
    <2>2. /\ r \in Unbounded /\ Follows(r, s) /\ Tracks(r, Gone)
          /\ r.refs = [s.refs EXCEPT ![t] = s.refs[t] \ Passed(q, n - 1)]
        BY <2>1
    <2> DEFINE z == RemoveReference(r, t, q[n])
    <2>3. step[<<r, q[n]>>] = z
        BY <2>1, <2>2 DEF Removing
    <2>4. /\ Follows(z, r) /\ Tracks(z, Gone)
          /\ z.refs = [r.refs EXCEPT ![t] = r.refs[t] \ {q[n]}]
        BY <2>1, <2>2, RemoveReferenceFacts DEF Follows
    <2> HIDE DEF z, step
    <2>5. z \in Unbounded /\ Follows(z, s)
        BY <2>2, <2>4, FollowsTwice DEF Follows, MapsOK
    <2>6. r.refs[t] = s.refs[t] \ Passed(q, n - 1)
        BY <1>3, <2>2
    <2>7. r.refs[t] \ {q[n]} = s.refs[t] \ Passed(q, n)
        BY <2>1, <2>6
    <2>8. z.refs = [s.refs EXCEPT ![t] = s.refs[t] \ Passed(q, n)]
        BY <1>3, <2>2, <2>4, <2>7
    <2> QED BY <2>1, <2>3, <2>4, <2>5, <2>8
<1>6. x \in P[Len(q)]
    <2> HIDE DEF P, step
    <2> QED BY <1>1, <1>4, <1>5, LoopKeeps
<1> HIDE DEF x
<1>7. /\ Follows(x, s) /\ Tracks(x, Gone)
      /\ x.refs = [s.refs EXCEPT ![t] = s.refs[t] \ S]
    BY <1>2, <1>6
<1> QED BY <1>7 DEF x, q

\* It comes to have several keys.
LEMMA AddedFacts ==
    ASSUME NEW s, MapsOK(s), NEW t \in Target, NEW S \in SUBSET Key, NEW Gone,
           Gone \cap S = {}, Tracks(s, Gone)
    PROVE  LET x == Loop(Adding(t), s, Sorted(S))
           IN  /\ Follows(x, s) /\ Tracks(x, Gone)
               /\ x.refs = [s.refs EXCEPT ![t] = s.refs[t] \cup S]
<1> DEFINE q == Sorted(S)
           step == Adding(t)
           x == Loop(step, s, q)
           P == [n \in 0..Len(q) |->
                   {r \in Unbounded :
                       /\ Follows(r, s) /\ Tracks(r, Gone)
                       /\ r.refs = [s.refs EXCEPT ![t] = s.refs[t] \cup Passed(q, n)]}]
<1>1. q \in Seq(S) /\ \A k \in S : \E i \in 1..Len(q) : q[i] = k
    BY SortedIs
<1> HIDE DEF q
<1>2. /\ Passed(q, 0) = {} /\ Len(q) \in Nat /\ Passed(q, Len(q)) = S
      /\ \A n \in 1..Len(q) : /\ n \in 0..Len(q) /\ n - 1 \in 0..Len(q)
                              /\ q[n] \in S
                              /\ Passed(q, n) = Passed(q, n - 1) \cup {q[n]}
    BY <1>1, PassedFacts
<1>3. s \in Unbounded /\ s.refs \in [Target -> SUBSET Key] /\ Follows(s, s)
    BY Fields DEF MapsOK, Follows
<1>4. s \in P[0]
    <2>1. s.refs = [s.refs EXCEPT ![t] = s.refs[t] \cup Passed(q, 0)]
        BY <1>2, <1>3
    <2> QED BY <1>2, <1>3, <2>1
<1>5. ASSUME NEW n \in 1..Len(q), NEW r \in P[n - 1]
      PROVE  step[<<r, q[n]>>] \in P[n]
    <2>1. /\ n \in 0..Len(q) /\ n - 1 \in 0..Len(q) /\ q[n] \in Key
          /\ q[n] \notin Gone
          /\ Passed(q, n) = Passed(q, n - 1) \cup {q[n]}
        BY <1>2
    <2>2. /\ r \in Unbounded /\ Follows(r, s) /\ Tracks(r, Gone)
          /\ r.refs = [s.refs EXCEPT ![t] = s.refs[t] \cup Passed(q, n - 1)]
        BY <2>1
    <2> DEFINE z == AddReference(r, t, q[n])
    <2>3. step[<<r, q[n]>>] = z
        BY <2>1, <2>2 DEF Adding
    <2>4. /\ Follows(z, r) /\ Tracks(z, Gone)
          /\ z.refs = [r.refs EXCEPT ![t] = r.refs[t] \cup {q[n]}]
        BY <2>1, <2>2, AddFacts DEF Follows
    <2> HIDE DEF z, step
    <2>5. z \in Unbounded /\ Follows(z, s)
        BY <2>2, <2>4, FollowsTwice DEF Follows, MapsOK
    <2>6. r.refs[t] = s.refs[t] \cup Passed(q, n - 1)
        BY <1>3, <2>2
    <2>7. r.refs[t] \cup {q[n]} = s.refs[t] \cup Passed(q, n)
        BY <2>1, <2>6
    <2>8. z.refs = [s.refs EXCEPT ![t] = s.refs[t] \cup Passed(q, n)]
        BY <1>3, <2>2, <2>4, <2>7
    <2> QED BY <2>1, <2>3, <2>4, <2>5, <2>8
<1>6. x \in P[Len(q)]
    <2> HIDE DEF P, step
    <2> QED BY <1>1, <1>4, <1>5, LoopKeeps
<1> HIDE DEF x
<1>7. /\ Follows(x, s) /\ Tracks(x, Gone)
      /\ x.refs = [s.refs EXCEPT ![t] = s.refs[t] \cup S]
    BY <1>2, <1>6
<1> QED BY <1>7 DEF x, q

\* A view tells what has changed, and the references are what it has.
LEMMA UpdateFacts ==
    ASSUME NEW s, MapsOK(s), NEW t \in Target, NEW Gone, Tracks(s, Gone),
           NEW before \in SUBSET Key, NEW after \in SUBSET Key,
           Gone \cap (after \ before) = {}
    PROVE  LET x == UpdateTrackedLimboDocuments(s, t, before, after)
           IN  /\ Follows(x, s) /\ Tracks(x, Gone)
               /\ x.refs = [s.refs EXCEPT ![t] = (s.refs[t] \ (before \ after))
                                                 \cup (after \ before)]
<1> DEFINE gone == before \ after
           new == after \ before
           y == Loop(Removing(t), s, Sorted(gone))
           x == Loop(Adding(t), y, Sorted(new))
<1>1. gone \in SUBSET Key /\ new \in SUBSET Key /\ Gone \cap new = {}
    OBVIOUS
<1>2. x = UpdateTrackedLimboDocuments(s, t, before, after)
    BY DEF UpdateTrackedLimboDocuments, Removing, Adding
<1> HIDE DEF gone, new
<1>3. /\ Follows(y, s) /\ Tracks(y, Gone)
      /\ y.refs = [s.refs EXCEPT ![t] = s.refs[t] \ gone]
    BY <1>1, RemovedFacts
<1> HIDE DEF y
<1>4. MapsOK(y)
    BY <1>3 DEF Follows
<1>5. /\ Follows(x, y) /\ Tracks(x, Gone)
      /\ x.refs = [y.refs EXCEPT ![t] = y.refs[t] \cup new]
    BY <1>1, <1>3, <1>4, AddedFacts
<1> HIDE DEF x
<1>6. Follows(x, s)
    BY <1>3, <1>5, FollowsTwice
<1>7. s.refs \in [Target -> SUBSET Key]
    BY Fields DEF MapsOK
<1>8. x.refs = [s.refs EXCEPT ![t] = (s.refs[t] \ gone) \cup new]
    BY <1>3, <1>5, <1>7
<1> QED BY <1>2, <1>5, <1>6, <1>8 DEF gone, new

\* A target goes: all its references are dropped, and what was in limbo only
\* for it is let go of, key by key.
LEMMA CleanupFacts ==
    ASSUME NEW s, MapsOK(s), NEW t \in Target, Tracks(s, {})
    PROVE  LET x == RemoveAndCleanupTarget(s, t)
           IN  /\ Follows(x, s) /\ Tracks(x, {})
               /\ x.refs = [s.refs EXCEPT ![t] = {}]
<1> DEFINE S == s.refs[t]
           q == Sorted(S)
           y == [s EXCEPT !.refs[t] = {}]
           step == [p \in Unbounded \X Key |->
                       IF InLimbo(p[1], p[2]) THEN p[1]
                       ELSE RemoveLimboTarget(p[1], p[2])]
           x == Loop(step, y, q)
           P == [n \in 0..Len(q) |->
                   {r \in Unbounded :
                       /\ Follows(r, s) /\ r.refs = y.refs
                       /\ \A k \in Key \ r.astray :
                             /\ InLimbo(r, k) => Busy(r, k)
                             /\ Busy(r, k) => InLimbo(r, k) \/ k \in S \ Passed(q, n)}]
<1>1. s \in Unbounded /\ s.refs \in [Target -> SUBSET Key]
    BY Fields DEF MapsOK
<1>2. S \in SUBSET Key
    BY <1>1
<1>3. q \in Seq(S) /\ \A k \in S : \E i \in 1..Len(q) : q[i] = k
    BY <1>2, SortedIs
<1>4. x = RemoveAndCleanupTarget(s, t)
    BY DEF RemoveAndCleanupTarget
<1> HIDE DEF q
<1>5. /\ Passed(q, 0) = {} /\ Len(q) \in Nat /\ Passed(q, Len(q)) = S
      /\ \A n \in 1..Len(q) : /\ n \in 0..Len(q) /\ n - 1 \in 0..Len(q)
                              /\ q[n] \in S
                              /\ Passed(q, n) = Passed(q, n - 1) \cup {q[n]}
    BY <1>3, PassedFacts
<1>6. /\ MapsOK(y) /\ y.refs = [s.refs EXCEPT ![t] = {}]
      /\ y.watched = s.watched /\ y.astray = s.astray
      /\ Settled(s) => Settled(y)
      /\ \A k \in Key : Busy(y, k) <=> Busy(s, k)
    BY WithRefs
<1> HIDE DEF y
<1>7. \A k : /\ InLimbo(y, k) => InLimbo(s, k)
             /\ InLimbo(s, k) => InLimbo(y, k) \/ k \in S
    BY <1>1, <1>6 DEF InLimbo
<1>8. y \in P[0]
    <2>1. y \in Unbounded /\ Follows(y, s)
        BY <1>6 DEF Follows, MapsOK
    <2>2. \A k \in Key \ y.astray : InLimbo(s, k) <=> Busy(s, k)
        BY <1>6 DEF Tracks
    <2>3. \A k \in Key \ y.astray :
             /\ InLimbo(y, k) => Busy(y, k)
             /\ Busy(y, k) => InLimbo(y, k) \/ k \in S \ Passed(q, 0)
        BY <1>5, <1>6, <1>7, <2>2
    <2> QED BY <1>5, <2>1, <2>3
<1>9. ASSUME NEW n \in 1..Len(q), NEW r \in P[n - 1]
      PROVE  step[<<r, q[n]>>] \in P[n]
    <2>1. /\ n \in 0..Len(q) /\ n - 1 \in 0..Len(q) /\ q[n] \in Key
          /\ Passed(q, n) = Passed(q, n - 1) \cup {q[n]}
        BY <1>2, <1>5
    <2>2. /\ r \in Unbounded /\ Follows(r, s) /\ r.refs = y.refs
          /\ \A k \in Key \ r.astray :
                /\ InLimbo(r, k) => Busy(r, k)
                /\ Busy(r, k) => InLimbo(r, k) \/ k \in S \ Passed(q, n - 1)
        BY <2>1
    <2>3. step[<<r, q[n]>>] = IF InLimbo(r, q[n]) THEN r
                              ELSE RemoveLimboTarget(r, q[n])
        BY <2>1, <2>2
    <2>4. CASE InLimbo(r, q[n])
        <3>1. step[<<r, q[n]>>] = r
            BY <2>3, <2>4
        <3> HIDE DEF step
        <3>2. \A k \in Key \ r.astray :
                 Busy(r, k) => InLimbo(r, k) \/ k \in S \ Passed(q, n)
            BY <2>1, <2>2, <2>4
        <3> QED BY <2>1, <2>2, <3>1, <3>2
    <2>5. CASE ~InLimbo(r, q[n])
        <3> DEFINE z == RemoveLimboTarget(r, q[n])
        <3>1. step[<<r, q[n]>>] = z
            BY <2>3, <2>5
        <3>2. /\ Follows(z, r) /\ z.refs = r.refs
              /\ \A k \in Key \ {q[n]} : Busy(z, k) <=> Busy(r, k)
              /\ q[n] \in z.astray \/ ~Busy(z, q[n])
            BY <2>1, <2>2, RemoveFacts DEF Follows
        <3> HIDE DEF z, step
        <3>3. z \in Unbounded /\ Follows(z, s)
            BY <2>2, <3>2, FollowsTwice DEF Follows, MapsOK
        <3>4. \A k : InLimbo(z, k) <=> InLimbo(r, k)
            BY <3>2 DEF InLimbo
        <3>5. ASSUME NEW k \in Key \ z.astray
              PROVE  /\ InLimbo(z, k) => Busy(z, k)
                     /\ Busy(z, k) => InLimbo(z, k) \/ k \in S \ Passed(q, n)
            <4>1. k \notin r.astray
                BY <3>2 DEF Follows
            <4>2. CASE k = q[n]
                BY <2>5, <3>2, <3>4, <4>2
            <4>3. CASE k # q[n]
                BY <2>1, <2>2, <3>2, <3>4, <4>1, <4>3
            <4> QED BY <4>2, <4>3
        <3> QED BY <2>1, <2>2, <3>1, <3>2, <3>3, <3>5
    <2> QED BY <2>4, <2>5
<1>10. x \in P[Len(q)]
    <2> HIDE DEF P, step
    <2> QED BY <1>2, <1>3, <1>8, <1>9, LoopKeeps
<1> HIDE DEF x
<1>11. /\ Follows(x, s) /\ x.refs = y.refs
       /\ \A k \in Key \ x.astray :
             /\ InLimbo(x, k) => Busy(x, k)
             /\ Busy(x, k) => InLimbo(x, k) \/ k \in S \ Passed(q, Len(q))
    BY <1>5, <1>10
<1>12. Tracks(x, {})
    BY <1>5, <1>11 DEF Tracks
<1> QED BY <1>4, <1>6, <1>11, <1>12

\* The views of an event, one after the other: v before and w after it.
LEMMA EmittedFacts ==
    ASSUME NEW s, MapsOK(s), NEW Gone, Tracks(s, Gone), NEW O \in SUBSET Target,
           NEW v \in [Target -> View], NEW w \in [Target -> View],
           \A t \in Target : s.refs[t] = v[t].limbo,
           \A t \in Target \ O : w[t].limbo = v[t].limbo,
           \A t \in O : Gone \cap (w[t].limbo \ v[t].limbo) = {},
           NEW q \in SetToSeqs(O)
    PROVE  LET x == Loop(Updating(v, w), s, q)
           IN  /\ Follows(x, s) /\ Tracks(x, Gone)
               /\ \A t \in Target : x.refs[t] = w[t].limbo
<1> DEFINE step == Updating(v, w)
           x == Loop(step, s, q)
           P == [n \in 0..Len(q) |->
                   {r \in Unbounded :
                       /\ Follows(r, s) /\ Tracks(r, Gone)
                       /\ \A t \in Target :
                             r.refs[t] = IF t \in Passed(q, n) THEN w[t].limbo
                                         ELSE v[t].limbo}]
<1>1. q \in Seq(O) /\ \A t \in O : \E i \in 1..Len(q) : q[i] = t
    BY OrderIs
<1>2. /\ Passed(q, 0) = {} /\ Len(q) \in Nat /\ Passed(q, Len(q)) = O
      /\ \A n \in 1..Len(q) : /\ n \in 0..Len(q) /\ n - 1 \in 0..Len(q)
                              /\ q[n] \in O
                              /\ Passed(q, n) = Passed(q, n - 1) \cup {q[n]}
    BY <1>1, PassedFacts
<1>3. \A t \in Target : v[t].limbo \in SUBSET Key /\ w[t].limbo \in SUBSET Key
    BY DEF View
<1>4. s \in P[0]
    BY <1>2 DEF Follows, MapsOK
<1>5. ASSUME NEW n \in 1..Len(q), NEW r \in P[n - 1]
      PROVE  step[<<r, q[n]>>] \in P[n]
    <2>1. /\ n \in 0..Len(q) /\ n - 1 \in 0..Len(q) /\ q[n] \in O
          /\ q[n] \in Target
          /\ Passed(q, n) = Passed(q, n - 1) \cup {q[n]}
        BY <1>2
    <2>2. /\ r \in Unbounded /\ Follows(r, s) /\ Tracks(r, Gone)
          /\ \A t \in Target :
                r.refs[t] = IF t \in Passed(q, n - 1) THEN w[t].limbo
                            ELSE v[t].limbo
        BY <2>1
    <2> DEFINE u == q[n]
               before == v[u].limbo
               after == w[u].limbo
               z == UpdateTrackedLimboDocuments(r, u, before, after)
    <2>3. step[<<r, u>>] = z
        BY <2>1, <2>2 DEF Updating
    <2>4. /\ before \in SUBSET Key /\ after \in SUBSET Key
          /\ Gone \cap (after \ before) = {} /\ u \in Target /\ MapsOK(r)
        BY <1>3, <2>1, <2>2 DEF Follows
    <2> HIDE DEF before, after, u, step
    <2>5. /\ Follows(z, r) /\ Tracks(z, Gone)
          /\ z.refs = [r.refs EXCEPT ![u] = (r.refs[u] \ (before \ after))
                                            \cup (after \ before)]
        BY <2>2, <2>4, UpdateFacts
    <2> HIDE DEF z
    <2>6. z \in Unbounded /\ Follows(z, s) /\ r.refs \in [Target -> SUBSET Key]
        BY <2>2, <2>5, Fields, FollowsTwice DEF Follows, MapsOK
    <2>7. r.refs[u] = before \/ r.refs[u] = after
        BY <2>2, <2>4 DEF before, after
    <2>8. z.refs[u] = after
        <3>1. (r.refs[u] \ (before \ after)) \cup (after \ before) = after
            BY <2>7
        <3> QED BY <2>4, <2>5, <2>6, <3>1
    <2>9. \A t \in Target \ {u} : z.refs[t] = r.refs[t]
        BY <2>5, <2>6
    <2>10. ASSUME NEW t \in Target
           PROVE  z.refs[t] = IF t \in Passed(q, n) THEN w[t].limbo
                              ELSE v[t].limbo
        <3>1. Passed(q, n) = Passed(q, n - 1) \cup {u}
            BY <2>1 DEF u
        <3>2. CASE t = u
            BY <2>8, <3>1, <3>2 DEF after
        <3>3. CASE t # u
            BY <2>2, <2>9, <3>1, <3>3
        <3> QED BY <3>2, <3>3
    <2> QED BY <2>1, <2>3, <2>5, <2>6, <2>10 DEF u
<1>6. x \in P[Len(q)]
    <2> HIDE DEF P, step
    <2> QED BY <1>1, <1>4, <1>5, LoopKeeps
<1> HIDE DEF x
<1>7. /\ Follows(x, s) /\ Tracks(x, Gone)
      /\ \A t \in Target : x.refs[t] = w[t].limbo
    BY <1>2, <1>6
<1> QED BY <1>7 DEF x

-----------------------------------------------------------------------------
(***************************************************************************)
(* The initial state, and what the steps have in common.                   *)
(***************************************************************************)
\* What is in the bounds has the type between two tasks.
LEMMA InBoundsType ==
    ASSUME NEW x, MapsOK(x), \A id \in Ids(x) : id <= MaxTargets,
           Len(x.enqueued) <= MaxEnqueued
    PROVE  x \in Tracking
<1> DEFINE Id == 1..MaxTargets
           Queue == BoundedSeq(Key, MaxEnqueued)
<1>1. x \in Unbounded /\ MaxTargets \in Nat /\ MaxEnqueued \in Nat
    BY LimboAssumption DEF MapsOK
<1>2. /\ x.refs \in [Target -> SUBSET Key] /\ x.enqueued \in Seq(Key)
      /\ x.byKey \in [Key -> Nat] /\ x.byTarget \subseteq [id : Nat, key : Key]
      /\ x.watched \subseteq Target \cup Nat /\ x.astray \subseteq Key
    BY <1>1, Fields
<1>3. \A id \in Ids(x) : id \in Nat => id \in Id
    BY <1>1 DEF MapsOK
<1>4. x.enqueued \in Queue
    <2>1. Len(x.enqueued) \in 0..MaxEnqueued
        BY <1>1, <1>2
    <2>2. x.enqueued \in [1..Len(x.enqueued) -> Key]
        BY <1>2
    <2> QED BY <2>1, <2>2 DEF BoundedSeq, SeqOf
<1> HIDE DEF Id, Queue
<1>5. ASSUME NEW r \in x.byTarget PROVE r \in [id : Id, key : Key]
    <2>1. r.id \in Ids(x) /\ r \in [id : Nat, key : Key]
        BY <1>2 DEF Ids
    <2> QED BY <1>3, <2>1
<1>6. \A k \in Key : x.byKey[k] \in {0} \cup Id
    <2>1. SUFFICES ASSUME NEW k \in Key, x.byKey[k] # 0 PROVE x.byKey[k] \in Id
        OBVIOUS
    <2>2. [id |-> x.byKey[k], key |-> k] \in x.byTarget
        BY <2>1 DEF MapsOK
    <2> QED BY <1>5, <2>2
<1>7. \A i \in x.watched : i \in Target \cup Id
    BY <1>2, <1>3 DEF Ids
<1>8. x \in Records(Id, Queue)
    <2>1. x.byKey \in [Key -> {0} \cup Id]
        BY <1>2, <1>6
    <2>2. x.byTarget \subseteq [id : Id, key : Key] /\ x.watched \subseteq Target \cup Id
        BY <1>5, <1>7
    <2> QED BY <1>1, <1>2, <1>4, <2>1, <2>2 DEF Unbounded, Records
<1> QED BY <1>8 DEF Tracking, Id, Queue

\* Between two tasks no key is gone from the cache without the views knowing.
LEMMA TracksIs == LimboTracked <=> Tracks(tracking, {})
BY DEF LimboTracked, Tracks, Busy

\* The invariant holds before anybody listens.
LEMMA InvInit == Init => IInv
<1> SUFFICES ASSUME Init PROVE IInv
    OBVIOUS
<1>1. /\ cache \in [Key -> {"none", "remote"}] /\ pending = {}
      /\ synced = [t \in Target |-> {k \in Matches[t] : cache[k] = "remote"}]
      /\ views = [t \in Target |-> NoView]
      /\ tracking = [refs |-> [t \in Target |-> {}], enqueued |-> <<>>,
                     byKey |-> [k \in Key |-> 0], byTarget |-> {},
                     watched |-> {}, astray |-> {}]
    BY DEF Init
<1>2. tracking \in Unbounded
    <2>1. \A S : << >> \in Seq(S)
        OBVIOUS
    <2> QED BY <1>1, <2>1 DEF Unbounded, Records
<1>3. Ids(tracking) = {}
    BY <1>1 DEF Ids
<1>4. \A k : ~Waits(tracking, k)
    BY <1>1 DEF Waits
<1>5. MapsOK(tracking)
    <2>1. IsFiniteSet(Ids(tracking))
        BY <1>3, FS_EmptySet
    <2>2. \A k \in Key : OneEach(tracking, k)
        BY <1>1, <1>4 DEF OneEach
    <2> QED BY <1>1, <1>2, <1>3, <2>1, <2>2 DEF MapsOK
<1>6. tracking \in Tracking
    <2>1. Len(tracking.enqueued) <= MaxEnqueued
        BY <1>1, LimboAssumption
    <2> QED BY <1>3, <1>5, <2>1, InBoundsType
<1>7. views \in [Target -> View]
    BY <1>1 DEF View, NoView
<1>8. synced \in [Target -> SUBSET Key]
    BY <1>1, LimboAssumption
<1>9. TypeOK
    BY <1>1, <1>6, <1>7, <1>8 DEF TypeOK
<1>10. RefsOfViews /\ ClosedViews /\ Settled(tracking)
    BY <1>1 DEF RefsOfViews, ClosedViews, Settled, NoView
<1>11. LimboTracked
    BY <1>1, <1>4 DEF LimboTracked, InLimbo
<1>12. \A t \in Target : views[t].open <=> t \in tracking.watched
    BY <1>1 DEF NoView
<1> QED BY <1>5, <1>9, <1>10, <1>11, <1>12 DEF IInv

\* Listening to a query, or not any more, is nothing to the resolutions.
LEMMA WatchOK ==
    ASSUME NEW s, MapsOK(s), NEW W, W \subseteq s.watched \cup Target,
           s.watched \ Target \subseteq W
    PROVE  LET x == [s EXCEPT !.watched = W]
           IN  /\ MapsOK(x) /\ x.refs = s.refs /\ x.watched = W
               /\ x.astray = s.astray /\ x.enqueued = s.enqueued
               /\ x.byKey = s.byKey
               /\ Settled(s) => Settled(x)
               /\ \A k \in Key : Busy(x, k) <=> Busy(s, k)
<1> DEFINE x == [s EXCEPT !.watched = W]
<1>1. s \in Unbounded
    BY DEF MapsOK
<1>2. s.watched \subseteq Target \cup Nat /\ s.byKey \in [Key -> Nat]
    BY <1>1, Fields
<1>3. x \in Unbounded
    BY <1>1, <1>2 DEF Unbounded, Records
<1>4. /\ x.refs = s.refs /\ x.enqueued = s.enqueued /\ x.byKey = s.byKey
      /\ x.byTarget = s.byTarget /\ x.watched = W /\ x.astray = s.astray
    BY <1>1 DEF Unbounded, Records
<1> HIDE DEF x
<1>5. \A k : (Waits(x, k) <=> Waits(s, k)) /\ (OneEach(s, k) => OneEach(x, k))
    BY <1>4 DEF Waits, OneEach
<1>6. \A k \in Key : Busy(x, k) <=> Busy(s, k)
    BY <1>4, <1>5 DEF Busy
<1>7. Ids(x) = Ids(s) /\ Active(x) = Active(s)
    BY <1>4 DEF Ids, Active
<1>8. \A k \in Key : s.byKey[k] # 0 => s.byKey[k] \in W
    <2>1. \A n \in Nat : n \notin Target
        BY LimboAssumption
    <2> QED BY <1>2, <2>1 DEF MapsOK
<1>9. MapsOK(x)
    BY <1>3, <1>4, <1>5, <1>7, <1>8 DEF MapsOK
<1>10. Settled(s) => Settled(x)
    BY <1>4, <1>7 DEF Settled
<1> QED BY <1>4, <1>6, <1>9, <1>10 DEF x

\* The views after an event.
LEMMA ViewsAfter ==
    ASSUME IInv, pending' \in SUBSET Key, NEW s, NEW changes,
           \A t \in DOMAIN changes : changes[t] \in BOOLEAN,
           EmitNewSnapshots(s, changes)
    PROVE  /\ views' \in [Target -> View]
           /\ \A t \in Target :
                 /\ views'[t].open = views[t].open
                 /\ ~views[t].open => views'[t] = NoView
                 /\ views[t].open => \E current \in BOOLEAN :
                       /\ current = IF t \in DOMAIN changes THEN changes[t]
                                    ELSE views[t].current
                       /\ views'[t].limbo = IF current THEN ShouldBeInLimbo(t)
                                            ELSE views[t].limbo
<1>1. views' = [t \in Target |->
                   IF ~views[t].open THEN NoView
                   ELSE ApplyChanges(t, IF t \in DOMAIN changes THEN changes[t]
                                        ELSE views[t].current)]
    BY DEF EmitNewSnapshots
<1>2. views \in [Target -> View]
    BY DEF IInv, TypeOK
<1>3. ASSUME NEW t \in Target, views[t].open
      PROVE  \E current \in BOOLEAN :
                /\ current = IF t \in DOMAIN changes THEN changes[t]
                             ELSE views[t].current
                /\ views'[t] \in View /\ views'[t].open
                /\ views'[t].limbo = IF current THEN ShouldBeInLimbo(t)
                                     ELSE views[t].limbo
    <2>1. PICK current \in BOOLEAN :
              current = IF t \in DOMAIN changes THEN changes[t]
                        ELSE views[t].current
        BY <1>2 DEF View
    <2>2. views'[t] = ApplyChanges(t, current)
        BY <1>1, <1>3, <2>1
    <2>3. Held(t) \subseteq Key /\ ShouldBeInLimbo(t) \subseteq Key
        BY LimboAssumption DEF Held, ShouldBeInLimbo
    <2> DEFINE limbo == IF current THEN ShouldBeInLimbo(t) ELSE views[t].limbo
               held == Held(t)
    <2>4. limbo \subseteq Key /\ held \subseteq Key
        BY <1>2, <2>3 DEF View
    <2>5. views'[t] = [views[t] EXCEPT !.current = current, !.held = held,
                                       !.limbo = limbo]
        BY <2>2 DEF ApplyChanges
    <2> HIDE DEF limbo, held
    <2>6. views'[t] \in View /\ views'[t].open /\ views'[t].limbo = limbo
        BY <1>2, <1>3, <2>4, <2>5 DEF View
    <2> QED BY <2>1, <2>6 DEF limbo
<1>4. ASSUME NEW t \in Target, ~views[t].open
      PROVE  views'[t] = NoView /\ NoView \in View /\ ~NoView.open
    BY <1>1, <1>4 DEF View, NoView
<1>5. \A t \in Target : views[t].open \in BOOLEAN /\ (views'[t] \in View => views'[t].open \in BOOLEAN)
    BY <1>2 DEF View
<1>6. \A t \in Target : views'[t] \in View
    BY <1>3, <1>4
<1>7. views' \in [Target -> View]
    BY <1>1, <1>6
<1>8. \A t \in Target : views'[t].open = views[t].open
    BY <1>3, <1>4, <1>5, <1>6
<1> QED BY <1>3, <1>4, <1>7, <1>8

\* An event, of which s is what has happened to the tracking before the views
\* hear of it.  What is gone is in no view afterwards.
LEMMA EmitStep ==
    ASSUME IInv, cache' \in [Key -> {"none", "remote", "committed"}],
           pending' \in SUBSET Key, synced' \in [Target -> SUBSET Key],
           NEW s, MapsOK(s), Settled(s), s.refs = tracking.refs,
           s.watched \cap Target = tracking.watched \cap Target,
           NEW Gone, Tracks(s, Gone),
           NEW changes, \A t \in DOMAIN changes : changes[t] \in BOOLEAN,
           EmitNewSnapshots(s, changes), InBounds,
           \A k \in Gone, t \in Target :
              /\ k \in views'[t].limbo => k \in views[t].limbo
              /\ k \notin s.astray => k \notin views'[t].limbo
    PROVE  IInv'
<1>1. PICK v : v = views
    OBVIOUS
<1>2. PICK w : w = views'
    OBVIOUS
<1>3. PICK x : x = tracking'
    OBVIOUS
<1>4. v \in [Target -> View] /\ \A t \in Target : tracking.refs[t] = v[t].limbo
    BY <1>1 DEF IInv, TypeOK, RefsOfViews
<1>5. /\ w \in [Target -> View]
      /\ \A t \in Target : /\ w[t].open = v[t].open
                           /\ ~v[t].open => w[t] = NoView
    BY <1>1, <1>2, ViewsAfter
<1>6. PICK q \in SetToSeqs(Open) : tracking' = Loop(Updating(v, w), s, q)
    BY <1>1, <1>2 DEF EmitNewSnapshots, Updating
<1>7. Follows(x, s) /\ Tracks(x, Gone) /\ \A t \in Target : x.refs[t] = w[t].limbo
    <2>1. PICK O : O = Open
        OBVIOUS
    <2>2. O \in SUBSET Target /\ q \in SetToSeqs(O)
        BY <1>6, <2>1 DEF Open
    <2>3. \A t \in Target \ O : w[t].limbo = v[t].limbo
        <3>1. \A t \in Target \ O : v[t] = NoView /\ w[t] = NoView
            BY <1>1, <1>5, <2>1 DEF Open, IInv, ClosedViews
        <3> QED BY <3>1
    <2>4. \A t \in O : Gone \cap (w[t].limbo \ v[t].limbo) = {}
        BY <1>1, <1>2, <2>2
    <2>5. \A t \in Target : s.refs[t] = v[t].limbo
        BY <1>4
    <2>6. x = Loop(Updating(v, w), s, q)
        BY <1>3, <1>6
    <2> QED BY <1>4, <1>5, <2>2, <2>3, <2>4, <2>5, <2>6, EmittedFacts
<1>8. MapsOK(x) /\ Settled(x)
    BY <1>7 DEF Follows
<1>9. x \in Tracking
    <2>1. /\ \A id \in Ids(x) : id <= MaxTargets
          /\ Len(x.enqueued) <= MaxEnqueued
        BY <1>3 DEF InBounds
    <2> QED BY <1>8, <2>1, InBoundsType
<1>10. TypeOK'
    BY <1>2, <1>3, <1>5, <1>9 DEF TypeOK
<1>11. ClosedViews' /\ RefsOfViews'
    BY <1>2, <1>3, <1>5, <1>7 DEF ClosedViews, RefsOfViews
<1>12. \A t \in Target : w[t].open <=> t \in x.watched
    BY <1>1, <1>5, <1>7 DEF Follows, IInv
<1>13. Tracks(x, {})
    <2>1. SUFFICES ASSUME NEW k \in Key \ x.astray
                   PROVE  InLimbo(x, k) <=> Busy(x, k)
        BY DEF Tracks
    <2>2. CASE k \notin Gone
        BY <1>7, <2>2 DEF Tracks
    <2>3. CASE k \in Gone
        <3>1. ~Busy(x, k)
            BY <1>7, <2>3 DEF Tracks
        <3>2. k \notin s.astray
            BY <1>7, <2>1 DEF Follows
        <3>3. \A t \in Target : k \notin x.refs[t]
            BY <1>2, <1>7, <2>3, <3>2
        <3> QED BY <3>1, <3>3 DEF InLimbo
    <2> QED BY <2>2, <2>3
<1>14. LimboTracked'
    BY <1>3, <1>13 DEF LimboTracked, Tracks, Busy
<1> QED BY <1>2, <1>3, <1>8, <1>10, <1>11, <1>12, <1>14 DEF IInv

\* Most events change the tracking only by what the views then say.
LEMMA PlainEvent ==
    ASSUME IInv, cache' \in [Key -> {"none", "remote", "committed"}],
           pending' \in SUBSET Key, synced' \in [Target -> SUBSET Key],
           NEW changes, \A t \in DOMAIN changes : changes[t] \in BOOLEAN,
           EmitNewSnapshots(tracking, changes), InBounds
    PROVE  IInv'
<1>1. PICK s : s = tracking
    OBVIOUS
<1>2. MapsOK(s) /\ Settled(s) /\ Tracks(s, {})
    BY <1>1, TracksIs DEF IInv
<1>3. EmitNewSnapshots(s, changes)
    BY <1>1
<1> QED BY <1>1, <1>2, <1>3, EmitStep

-----------------------------------------------------------------------------
(***************************************************************************)
(* The steps.                                                              *)
(***************************************************************************)
\* A query's target goes, because the app stops listening or the backend
\* rejects it.
LEMMA TargetGoes ==
    ASSUME IInv, NEW t \in Target, views' = [views EXCEPT ![t] = NoView],
           tracking' = RemoveAndCleanupTarget(
                           [tracking EXCEPT !.watched = @ \ {t}], t),
           InBounds, UNCHANGED <<cache, pending, synced>>
    PROVE  IInv'
<1>1. PICK s : s = tracking
    OBVIOUS
<1>2. PICK x : x = tracking'
    OBVIOUS
<1> DEFINE y == [s EXCEPT !.watched = s.watched \ {t}]
<1>3. MapsOK(s) /\ Settled(s) /\ Tracks(s, {})
    BY <1>1, TracksIs DEF IInv
<1>4. /\ MapsOK(y) /\ y.refs = s.refs /\ y.watched = s.watched \ {t}
      /\ y.astray = s.astray
      /\ Settled(s) => Settled(y)
      /\ \A k \in Key : Busy(y, k) <=> Busy(s, k)
    BY <1>3, WatchOK
<1>5. x = RemoveAndCleanupTarget(y, t)
    BY <1>1, <1>2
<1> HIDE DEF y
<1>6. Tracks(y, {})
    BY <1>3, <1>4 DEF Tracks, InLimbo
<1>7. Follows(x, y) /\ Tracks(x, {}) /\ x.refs = [y.refs EXCEPT ![t] = {}]
    BY <1>4, <1>5, <1>6, CleanupFacts
<1>8. MapsOK(x) /\ Settled(x)
    BY <1>3, <1>4, <1>7 DEF Follows
<1>9. x \in Tracking
    <2>1. /\ \A id \in Ids(x) : id <= MaxTargets
          /\ Len(x.enqueued) <= MaxEnqueued
        BY <1>2 DEF InBounds
    <2> QED BY <1>8, <2>1, InBoundsType
<1>10. views \in [Target -> View] /\ NoView \in View
    BY DEF IInv, TypeOK, View, NoView
<1>11. TypeOK'
    BY <1>2, <1>9, <1>10 DEF IInv, TypeOK
<1>12. ClosedViews'
    BY <1>10 DEF IInv, ClosedViews
<1>13. \A u \in Target : x.refs[u] = views'[u].limbo
    <2>1. \A u \in Target : s.refs[u] = views[u].limbo
        BY <1>1 DEF IInv, RefsOfViews
    <2>2. s.refs \in [Target -> SUBSET Key]
        BY <1>3, Fields DEF MapsOK
    <2> QED BY <1>4, <1>7, <1>10, <2>1, <2>2 DEF NoView
<1>14. \A u \in Target : views'[u].open <=> u \in x.watched
    <2>1. \A u \in Target : u \in x.watched <=> u \in s.watched /\ u # t
        BY <1>4, <1>7 DEF Follows
    <2>2. \A u \in Target : views[u].open <=> u \in s.watched
        BY <1>1 DEF IInv
    <2> QED BY <1>10, <2>1, <2>2 DEF NoView
<1>15. LimboTracked'
    BY <1>2, <1>7 DEF LimboTracked, Tracks, Busy
<1> QED BY <1>2, <1>8, <1>11, <1>12, <1>13, <1>14, <1>15 DEF IInv, RefsOfViews

\* A query is listened to: a new view has nothing in limbo.
LEMMA ListenStep == ASSUME IInv, NEW t \in Target, Listen(t) PROVE IInv'
<1>1. PICK s : s = tracking
    OBVIOUS
<1>2. PICK x : x = tracking'
    OBVIOUS
<1> DEFINE W == s.watched \cup {t}
           new == [NoView EXCEPT !.open = TRUE, !.held = Matches[t] \cap pending]
<1>3. /\ ~views[t].open /\ views' = [views EXCEPT ![t] = new]
      /\ x = [s EXCEPT !.watched = W] /\ UNCHANGED <<cache, pending, synced>>
    BY <1>1, <1>2 DEF Listen
<1>4. MapsOK(s) /\ Settled(s) /\ Tracks(s, {}) /\ s \in Tracking
    BY <1>1, TracksIs DEF IInv, TypeOK
<1>5. /\ MapsOK(x) /\ x.refs = s.refs /\ x.watched = W /\ x.astray = s.astray
      /\ Settled(s) => Settled(x)
      /\ \A k \in Key : Busy(x, k) <=> Busy(s, k)
    BY <1>3, <1>4, WatchOK
<1>6. x \in Tracking
    <2>1. W \subseteq Target \cup 1..MaxTargets
        BY <1>4 DEF Tracking, Records
    <2> HIDE DEF W
    <2> QED BY <1>3, <1>4, <2>1 DEF Tracking, Records
<1>7. views \in [Target -> View]
    BY DEF IInv, TypeOK
<1>8. new \in View /\ new.limbo = {} /\ new.open
    BY LimboAssumption DEF IInv, TypeOK, View, NoView
<1> HIDE DEF new
<1>9. TypeOK'
    BY <1>2, <1>3, <1>6, <1>7, <1>8 DEF IInv, TypeOK
<1>10. ClosedViews'
    BY <1>3, <1>7, <1>8 DEF IInv, ClosedViews
<1>11. \A u \in Target : x.refs[u] = views'[u].limbo
    <2>1. \A u \in Target : s.refs[u] = views[u].limbo
        BY <1>1 DEF IInv, RefsOfViews
    <2>2. views[t].limbo = {}
        BY <1>3 DEF IInv, ClosedViews, NoView
    <2> QED BY <1>3, <1>5, <1>7, <1>8, <2>1, <2>2
<1>12. \A u \in Target : views'[u].open <=> u \in x.watched
    <2>1. \A u \in Target : views[u].open <=> u \in s.watched
        BY <1>1 DEF IInv
    <2> QED BY <1>3, <1>5, <1>7, <1>8, <2>1
<1>13. Tracks(x, {})
    BY <1>4, <1>5 DEF Tracks, InLimbo
<1>14. LimboTracked'
    BY <1>2, <1>13 DEF LimboTracked, Tracks, Busy
<1> QED BY <1>2, <1>4, <1>5, <1>9, <1>10, <1>11, <1>12, <1>14
        DEF IInv, RefsOfViews

\* The steps that only move a write.
LEMMA WriteSteps ==
    ASSUME IInv, NEW k \in Key,
           WriteMutations(k) \/ HandleSuccessfulWrite(k) \/ HandleRejectedWrite(k)
    PROVE  IInv'
<1>1. /\ cache \in [Key -> {"none", "remote", "committed"}]
      /\ pending \in SUBSET Key /\ synced \in [Target -> SUBSET Key]
    BY DEF IInv, TypeOK
<1>2. \A t \in DOMAIN <<>> : <<>>[t] \in BOOLEAN
    OBVIOUS
<1>3. /\ cache' \in [Key -> {"none", "remote", "committed"}]
      /\ pending' \in SUBSET Key /\ synced' \in [Target -> SUBSET Key]
      /\ EmitNewSnapshots(tracking, <<>>) /\ InBounds
    BY <1>1 DEF WriteMutations, HandleSuccessfulWrite, HandleRejectedWrite
<1> QED BY <1>2, <1>3, PlainEvent

\* A snapshot of a query.
LEMMA RemoteStep ==
    ASSUME IInv, NEW t \in Target, NEW results \in SUBSET Matches[t],
           NEW gone, NEW current \in BOOLEAN,
           ApplyRemoteEvent(t, results, gone, current)
    PROVE  IInv'
<1>1. /\ cache \in [Key -> {"none", "remote", "committed"}]
      /\ pending \in SUBSET Key /\ synced \in [Target -> SUBSET Key]
    BY DEF IInv, TypeOK
<1> DEFINE changes == [x \in {t} |-> current]
<1>2. \A u \in DOMAIN changes : changes[u] \in BOOLEAN
    OBVIOUS
<1> HIDE DEF changes
<1>3. results \in SUBSET Key
    BY LimboAssumption
<1>4. /\ cache' \in [Key -> {"none", "remote", "committed"}]
      /\ pending' \in SUBSET Key /\ synced' \in [Target -> SUBSET Key]
      /\ EmitNewSnapshots(tracking, changes) /\ InBounds
    BY <1>1, <1>3 DEF ApplyRemoteEvent, changes
<1> QED BY <1>2, <1>4, PlainEvent

\* The answer for a limbo target.
LEMMA LimboStep ==
    ASSUME IInv, NEW r \in tracking.byTarget, NEW exists \in BOOLEAN,
           ApplyLimboEvent(r, exists)
    PROVE  IInv'
<1>1. /\ cache \in [Key -> {"none", "remote", "committed"}]
      /\ pending \in SUBSET Key /\ synced \in [Target -> SUBSET Key]
    BY DEF IInv, TypeOK
<1>2. \A t \in DOMAIN <<>> : <<>>[t] \in BOOLEAN
    OBVIOUS
<1>3. /\ cache' \in [Key -> {"none", "remote", "committed"}]
      /\ pending' \in SUBSET Key /\ synced' \in [Target -> SUBSET Key]
      /\ EmitNewSnapshots(tracking, <<>>) /\ InBounds
    BY <1>1 DEF ApplyLimboEvent
<1> QED BY <1>2, <1>3, PlainEvent

\* The document of a rejected target leaves the cache, and so every view that
\* is up to date.
LEMMA RejectLimboStep ==
    ASSUME IInv, NEW r \in tracking.byTarget, RejectLimboTarget(r)
    PROVE  IInv'
<1>1. PICK s : s = tracking
    OBVIOUS
<1> DEFINE stale == {k \in {r.key} : \E t \in Target : /\ ~views[t].current
                                                       /\ k \in views[t].limbo}
<1>2. PICK A : A = s.astray \cup stale
    OBVIOUS
<1> DEFINE f == [s.byKey EXCEPT ![r.key] = 0]
           b == s.byTarget \ {r}
           w == s.watched \ {r.id}
           z == [s EXCEPT !.byKey = f, !.byTarget = b, !.watched = w, !.astray = A]
           x == PumpEnqueuedLimboResolutions(z)
<1>3. /\ cache' = [cache EXCEPT ![r.key] = "none"]
      /\ UNCHANGED <<pending, synced>> /\ InBounds /\ EmitNewSnapshots(x, <<>>)
    BY <1>1, <1>2 DEF RejectLimboTarget
<1>4. /\ MapsOK(s) /\ Settled(s) /\ Tracks(s, {}) /\ s \in Unbounded
      /\ r \in s.byTarget
    BY <1>1, TracksIs DEF IInv, MapsOK
<1>5. /\ s.byKey \in [Key -> Nat] /\ s.byTarget \subseteq [id : Nat, key : Key]
      /\ s.watched \subseteq Target \cup Nat /\ s.astray \subseteq Key
    BY <1>4, Fields
<1>6. r.key \in Key
    BY <1>4, <1>5
<1>7. /\ f \in [Key -> {0} \cup Nat] /\ b \subseteq [id : Nat, key : Key]
      /\ w \subseteq Target \cup Nat /\ A \subseteq Key
    BY <1>2, <1>5, <1>6
<1> HIDE DEF f, b, w
<1>8. z \in Unbounded
    BY <1>4, <1>7 DEF Unbounded, Records
<1>9. /\ z.refs = s.refs /\ z.enqueued = s.enqueued /\ z.astray = A
      /\ z.byKey = f /\ z.byTarget = b /\ z.watched = w
    BY <1>4 DEF Unbounded, Records
<1> HIDE DEF z
<1>10. Ended(z, s, r)
    BY <1>2, <1>4, <1>8, <1>9 DEF Ended, f, b, w
<1>11. /\ MapsOK(z)
       /\ \A k \in Key \ {r.key} : Busy(z, k) <=> Busy(s, k)
       /\ Busy(z, r.key) <=> Waits(s, r.key)
       /\ z.watched \cap Target = s.watched \cap Target
    BY <1>4, <1>10, EndedOK
<1>12. /\ MapsOK(x) /\ SameRefs(x, z) /\ Settled(x)
       /\ \A k \in Key : Busy(x, k) <=> Busy(z, k)
    BY <1>11, PumpKeepsMaps
<1> HIDE DEF x
<1>13. /\ x.refs = s.refs /\ x.astray = A
       /\ x.watched \cap Target = s.watched \cap Target
    BY <1>9, <1>11, <1>12 DEF SameRefs
<1>14. Tracks(x, {r.key})
    <2>1. SUFFICES ASSUME NEW k \in Key \ x.astray
                   PROVE  IF k \in {r.key} THEN ~Busy(x, k)
                          ELSE InLimbo(x, k) <=> Busy(x, k)
        BY DEF Tracks
    <2>2. k \notin s.astray
        BY <1>2, <1>13
    <2>3. CASE k = r.key
        <3>1. s.byKey[k] = r.id /\ r.id \in Ids(s)
            BY <1>4, <2>2, <2>3 DEF MapsOK, Ids
        <3>2. s.byKey[k] # 0
            BY <1>4, <3>1 DEF MapsOK
        <3>3. ~Waits(s, k)
            BY <1>4, <2>2, <3>2 DEF MapsOK, OneEach
        <3> QED BY <1>11, <1>12, <2>3, <3>3
    <2>4. CASE k # r.key
        <3>1. InLimbo(x, k) <=> InLimbo(s, k)
            BY <1>13 DEF InLimbo
        <3>2. InLimbo(s, k) <=> Busy(s, k)
            BY <1>4, <2>2 DEF Tracks
        <3> QED BY <1>11, <1>12, <2>4, <3>1, <3>2
    <2> QED BY <2>3, <2>4
<1>15. \A t \in DOMAIN <<>> : <<>>[t] \in BOOLEAN
    OBVIOUS
<1>16. /\ cache' \in [Key -> {"none", "remote", "committed"}]
       /\ pending' \in SUBSET Key /\ synced' \in [Target -> SUBSET Key]
    BY <1>3 DEF IInv, TypeOK
<1>17. \A t \in Target :
          /\ ~views[t].open => views'[t] = NoView
          /\ views[t].open => \E current \in BOOLEAN :
                /\ current = IF t \in DOMAIN <<>> THEN <<>>[t]
                             ELSE views[t].current
                /\ views'[t].limbo = IF current THEN ShouldBeInLimbo(t)
                                     ELSE views[t].limbo
    BY <1>3, <1>15, <1>16, ViewsAfter
<1>18. \A t \in Target : r.key \notin ShouldBeInLimbo(t)
    <2>1. cache'[r.key] = "none"
        BY <1>3, <1>6 DEF IInv, TypeOK
    <2> QED BY <2>1 DEF ShouldBeInLimbo, Held, Exists
<1>19. ASSUME NEW t \in Target
       PROVE  /\ r.key \in views'[t].limbo => r.key \in views[t].limbo
              /\ r.key \notin x.astray => r.key \notin views'[t].limbo
    <2>1. CASE ~views[t].open
        BY <1>17, <2>1 DEF NoView
    <2>2. CASE views[t].open
        <3>1. PICK current \in BOOLEAN :
                 /\ current = IF t \in DOMAIN <<>> THEN <<>>[t]
                              ELSE views[t].current
                 /\ views'[t].limbo = IF current THEN ShouldBeInLimbo(t)
                                      ELSE views[t].limbo
            BY <1>17, <2>2
        <3>2. current = views[t].current
            BY <3>1
        <3>3. CASE current
            BY <1>18, <3>1, <3>3
        <3>4. CASE ~current
            <4>1. views'[t].limbo = views[t].limbo /\ ~views[t].current
                BY <3>1, <3>2, <3>4
            <4>2. r.key \in views[t].limbo => r.key \in stale
                BY <4>1
            <4> QED BY <1>2, <1>13, <4>1, <4>2
        <3> QED BY <3>3, <3>4
    <2> QED BY <2>1, <2>2
<1>20. /\ x.refs = tracking.refs
       /\ x.watched \cap Target = tracking.watched \cap Target
    BY <1>1, <1>13
<1>21. \A k \in {r.key}, t \in Target :
          /\ k \in views'[t].limbo => k \in views[t].limbo
          /\ k \notin x.astray => k \notin views'[t].limbo
    BY <1>19
<1> QED BY <1>3, <1>12, <1>14, <1>15, <1>16, <1>20, <1>21, EmitStep

\* Views that are not current keep what they have in limbo.
LEMMA OfflineStep == ASSUME IInv, GoOffline PROVE IInv'
<1>1. /\ views' = [t \in Target |-> [views[t] EXCEPT !.current = FALSE]]
      /\ UNCHANGED <<cache, pending, synced, tracking>>
    BY DEF GoOffline
<1>2. views \in [Target -> View]
    BY DEF IInv, TypeOK
<1>3. \A t \in Target : /\ views'[t] \in View
                        /\ views'[t].limbo = views[t].limbo
                        /\ views'[t].open = views[t].open
                        /\ views[t] = NoView => views'[t] = NoView
    <2> SUFFICES ASSUME NEW t \in Target
                 PROVE  /\ views'[t] \in View
                        /\ views'[t].limbo = views[t].limbo
                        /\ views'[t].open = views[t].open
                        /\ views[t] = NoView => views'[t] = NoView
        OBVIOUS
    <2>1. views'[t] = [views[t] EXCEPT !.current = FALSE]
        BY <1>1
    <2>2. views[t] \in View
        BY <1>2
    <2>3. views'[t] = [open |-> views[t].open, current |-> FALSE,
                       limbo |-> views[t].limbo, held |-> views[t].held]
        BY <2>1, <2>2 DEF View
    <2> HIDE <1>1, <2>1
    <2>4. views'[t] \in View
        BY <2>2, <2>3 DEF View
    <2>5. views[t] = NoView => views'[t] = NoView
        BY <2>3 DEF NoView
    <2> QED BY <2>3, <2>4, <2>5
<1>4. TypeOK' /\ ClosedViews' /\ RefsOfViews' /\ LimboTracked'
    BY <1>1, <1>3 DEF IInv, TypeOK, ClosedViews, RefsOfViews, LimboTracked
<1> QED BY <1>1, <1>3, <1>4 DEF IInv

\* Every step keeps the invariant.
LEMMA InvStep == IInv /\ [Next]_vars => IInv'
<1> SUFFICES ASSUME IInv, [Next]_vars PROVE IInv'
    OBVIOUS
<1>1. CASE UNCHANGED vars
    BY <1>1 DEF vars, IInv, TypeOK, ClosedViews, RefsOfViews, LimboTracked
<1>2. ASSUME NEW t \in Target, Listen(t) PROVE IInv'
    BY <1>2, ListenStep
<1>3. ASSUME NEW t \in Target, StopListening(t) \/ RejectTarget(t) PROVE IInv'
    BY <1>3, TargetGoes DEF StopListening, RejectTarget
<1>4. ASSUME NEW t \in Target, NEW results \in SUBSET Matches[t],
             NEW gone, NEW current \in BOOLEAN,
             ApplyRemoteEvent(t, results, gone, current)
      PROVE  IInv'
    BY <1>4, RemoteStep
<1>5. ASSUME NEW k \in Key,
             \/ WriteMutations(k) \/ HandleSuccessfulWrite(k)
             \/ HandleRejectedWrite(k)
      PROVE  IInv'
    BY <1>5, WriteSteps
<1>6. ASSUME NEW r \in tracking.byTarget, RejectLimboTarget(r) PROVE IInv'
    BY <1>6, RejectLimboStep
<1>7. ASSUME NEW r \in tracking.byTarget, NEW exists \in BOOLEAN,
             ApplyLimboEvent(r, exists)
      PROVE  IInv'
    BY <1>7, LimboStep
<1>8. ASSUME GoOffline PROVE IInv'
    BY <1>8, OfflineStep
<1> QED BY <1>1, <1>2, <1>3, <1>4, <1>5, <1>6, <1>7, <1>8 DEF Next

-----------------------------------------------------------------------------
(***************************************************************************)
(* The theorems.                                                           *)
(***************************************************************************)
\* In every state between two tasks of the worker queue the maps of SyncEngine,
\* the views and the targets of RemoteStore fit together.
THEOREM Inductive == Spec => []IInv
BY InvInit, InvStep, PTL DEF Spec

\* The variables have their types; a limbo target's number is never zero, which
\* stands for no resolution.
THEOREM TypeCorrect == Spec => []TypeOK
<1>1. IInv => TypeOK
    BY DEF IInv
<1> QED BY <1>1, Inductive, PTL

\* RemoteStore::StopListening is only called for a target that is listened to.
THEOREM StopsWatchedCorrect == Spec => []StopsWatched
<1>1. IInv => StopsWatched
    BY DEF IInv, MapsOK, StopsWatched, Active
<1> QED BY <1>1, Inductive, PTL

\* limbo_document_refs_ has what the views have in limbo, whatever the order in
\* which views and documents are gone through.
THEOREM RefsCorrect == Spec => []RefsOfViews
<1>1. IInv => RefsOfViews
    BY DEF IInv
<1> QED BY <1>1, Inductive, PTL

\* Whatever ends a resolution starts the next: none waits while there is room.
THEOREM PumpCorrect == Spec => []WaitsOnlyWhenFull
<1>1. IInv => WaitsOnlyWhenFull
    BY DEF IInv, Settled, WaitsOnlyWhenFull
<1> QED BY <1>1, Inductive, PTL

\* A document that did not go astray is in limbo just if it is being resolved or
\* waits for it.
THEOREM TrackedCorrect == Spec => []LimboTracked
<1>1. IInv => LimboTracked
    BY DEF IInv
<1> QED BY <1>1, Inductive, PTL

\* RemoveLimboTarget and HandleRejectedListen leave no target behind of such a
\* document.
THEOREM NoLeakCorrect == Spec => []NoLeak
<1>1. IInv => NoLeak
    BY DEF IInv, MapsOK, NoLeak
<1> QED BY <1>1, Inductive, PTL
=============================================================================
