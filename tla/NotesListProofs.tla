--------------------------- MODULE NotesListProofs ---------------------------
(***************************************************************************)
(* Proofs about NotesList: for every finite set of notes, and for every    *)
(* length of the main queue.                                               *)
(***************************************************************************)
EXTENDS NotesList, FiniteSetTheorems, WellFoundedInduction, TLAPS

\* The snapshots, the reloads and the errors of a main queue.
Pending(q)   == {i \in DOMAIN q : q[i].kind = "snapshot"}
Reloading(q) == \E i \in DOMAIN q : q[i].kind = "reload"
NoError(q)   == \A i \in DOMAIN q : q[i].kind # "error"

\* The newest of the snapshots has the notes of V.
Newest(q, V) == \A i \in Pending(q) :
                    (\A j \in Pending(q) : j <= i) => q[i].notes = V

\* While the list listens, the newest snapshot is what the client shows.  Once
\* it has been read, the array is that, and the table has it or will reload; an
\* empty list is not reloaded.
ShownOK ==
    listening =>
        /\ NoError(main)
        /\ Newest(main, View)
        /\ Pending(main) = {} =>
               /\ notes = Ordered(View)
               /\ Reloading(main) \/ rows = notes \/ View = {}

IInv == TypeOK /\ RowsHaveNotes /\ ShownOK

-----------------------------------------------------------------------------
(***************************************************************************)
(* Finite sets of numbers, in order.                                       *)
(***************************************************************************)
Increasing(q) == \A i, j \in DOMAIN q : i < j => q[i] < q[j]

\* A set of numbers that is not empty has a least one.
LEMMA Least ==
    ASSUME NEW S \in SUBSET Nat, S # {}
    PROVE  \E n \in S : \A m \in S : n <= m
<1>1. IsWellFoundedOn(OpToRel(<, Nat), Nat)
    BY NatLessThanWellFounded
<1>2. PICK n \in S : \A m \in S : ~(<<m, n>> \in OpToRel(<, Nat))
    BY <1>1, WFMin
<1>3. \A m \in S : ~(m < n)
    BY <1>2 DEF OpToRel
<1> QED BY <1>3

\* Every finite set of numbers can be put in order: else there is a smallest one
\* that cannot, and its other elements can follow the first.
LEMMA OrderExists ==
    ASSUME NEW S \in SUBSET Nat, IsFiniteSet(S)
    PROVE  \E q \in [1..Cardinality(S) -> S] : Increasing(q)
<1> DEFINE Bad == {n \in Nat : \E T \in SUBSET Nat :
                      /\ IsFiniteSet(T) /\ Cardinality(T) = n
                      /\ ~\E q \in [1..n -> T] : Increasing(q)}
<1>1. SUFFICES ASSUME Bad # {} PROVE FALSE
    <2>1. Cardinality(S) \in Nat
        BY FS_CardinalityType
    <2> QED BY <2>1
<1>2. PICK n \in Bad : \A m \in Bad : n <= m
    <2>1. Bad \in SUBSET Nat
        OBVIOUS
    <2> HIDE DEF Bad
    <2> QED BY <1>1, <2>1, Least
<1>3. PICK T \in SUBSET Nat : /\ IsFiniteSet(T) /\ Cardinality(T) = n
                              /\ ~\E q \in [1..n -> T] : Increasing(q)
    BY <1>2
<1>4. n \in Nat
    BY <1>2
<1>5. CASE T = {}
    <2>1. n = 0
        BY <1>3, <1>5, FS_EmptySet
    <2>2. << >> \in [1..0 -> T] /\ Increasing(<< >>)
        BY DEF Increasing
    <2> QED BY <1>3, <2>1, <2>2
<1>6. CASE T # {}
    <2>1. PICK x \in T : \A y \in T : x <= y
        BY <1>6, Least
    <2>2. /\ IsFiniteSet(T \ {x}) /\ Cardinality(T \ {x}) = n - 1
        BY <1>3, FS_RemoveElement
    <2>3. n - 1 \in Nat
        BY <2>2, FS_CardinalityType
    <2>4. n - 1 \notin Bad
        BY <1>2, <1>4
    <2>5. PICK q \in [1..n - 1 -> T \ {x}] : Increasing(q)
        BY <2>2, <2>3, <2>4
    <2> DEFINE p == [i \in 1..n |-> IF i = 1 THEN x ELSE q[i - 1]]
    <2>6. ASSUME NEW i \in 1..n, i # 1 PROVE i - 1 \in 1..n - 1
        BY <1>4, <2>6
    <2>7. p \in [1..n -> T]
        BY <2>6
    <2>8. ASSUME NEW i \in DOMAIN p, NEW j \in DOMAIN p, i < j PROVE p[i] < p[j]
        <3>1. i \in 1..n /\ j \in 1..n /\ j # 1 /\ p[j] = q[j - 1]
            BY <1>4, <2>8
        <3>2. j - 1 \in 1..n - 1 /\ q[j - 1] \in T \ {x}
            BY <2>6, <3>1
        <3>3. CASE i = 1
            <4>1. x \in Nat /\ q[j - 1] \in Nat /\ x <= q[j - 1] /\ x # q[j - 1]
                BY <2>1, <3>2
            <4>2. p[i] = x
                BY <3>1, <3>3
            <4> QED BY <3>1, <4>1, <4>2
        <3>4. CASE i # 1
            <4>1. i - 1 \in 1..n - 1 /\ i - 1 < j - 1 /\ p[i] = q[i - 1]
                BY <1>4, <2>6, <2>8, <3>1, <3>4
            <4> QED BY <2>5, <3>1, <3>2, <4>1 DEF Increasing
        <3> QED BY <3>3, <3>4
    <2> HIDE DEF p
    <2> QED BY <1>3, <2>7, <2>8 DEF Increasing
<1> QED BY <1>5, <1>6

-----------------------------------------------------------------------------
(***************************************************************************)
(* Lists of notes in the order of their times.                             *)
(***************************************************************************)
\* The list has the notes of the set, in the order of their times.
LEMMA OrderedIs ==
    ASSUME NEW S \in SUBSET Note
    PROVE  /\ Ordered(S) \in Seq(S) /\ Increasing(Ordered(S))
           /\ DOMAIN Ordered(S) = 1..Len(Ordered(S)) /\ Len(Ordered(S)) \in Nat
           /\ S = {} => Ordered(S) = << >>
           /\ S # {} => Len(Ordered(S)) > 0
<1>1. IsFiniteSet(S) /\ S \in SUBSET Nat /\ Cardinality(S) \in Nat
    BY FS_Subset, FS_CardinalityType, NotesAssumption
<1> DEFINE n == Cardinality(S)
           q == Ordered(S)
<1>2. q \in [1..n -> S] /\ Increasing(q)
    BY <1>1, OrderExists DEF Ordered, Increasing
<1>3. n \in Nat /\ (S = {} <=> n = 0)
    BY <1>1, FS_EmptySet
<1> HIDE DEF n, q
<1>4. q \in Seq(S) /\ Len(q) = n /\ DOMAIN q = 1..n
    BY <1>2, <1>3
<1>5. q = << >> \/ n # 0
    BY <1>3, <1>4
<1> QED BY <1>2, <1>3, <1>4, <1>5 DEF q

-----------------------------------------------------------------------------
(***************************************************************************)
(* The main queue.                                                         *)
(***************************************************************************)
Reload == [kind |-> "reload"]

LEMMA ReloadFacts == Reload \in Block /\ Reload.kind = "reload"
BY DEF Reload, Block

LEMMA Concatenation ==
    ASSUME NEW S, NEW s \in Seq(S), NEW t \in Seq(S)
    PROVE  /\ s \o t \in Seq(S) /\ Len(s \o t) = Len(s) + Len(t)
           /\ \A i \in 1..Len(s) + Len(t) :
                  (s \o t)[i] = IF i <= Len(s) THEN s[i] ELSE t[i - Len(s)]
OBVIOUS

\* The client posts a block.
LEMMA Posted ==
    ASSUME NEW q \in Seq(Block), NEW b \in Block
    PROVE  LET p == Append(q, b)
           IN  /\ p \in Seq(Block)
               /\ Reloading(q) => Reloading(p)
               /\ NoError(q) /\ b.kind # "error" => NoError(p)
               /\ b.kind = "snapshot" => Pending(p) # {} /\ Newest(p, b.notes)
<1> DEFINE p == Append(q, b)
<1>1. /\ p \in Seq(Block) /\ DOMAIN p = 1..Len(q) + 1 /\ DOMAIN q = 1..Len(q)
      /\ p[Len(q) + 1] = b /\ \A i \in 1..Len(q) : p[i] = q[i]
      /\ Len(q) \in Nat
    OBVIOUS
<1> HIDE DEF p
<1>2. Reloading(q) => Reloading(p)
    BY <1>1 DEF Reloading
<1>3. NoError(q) /\ b.kind # "error" => NoError(p)
    BY <1>1 DEF NoError
<1>4. ASSUME b.kind = "snapshot" PROVE Pending(p) # {} /\ Newest(p, b.notes)
    <2>1. Len(q) + 1 \in Pending(p)
        BY <1>1, <1>4 DEF Pending
    <2>2. ASSUME NEW i \in Pending(p), \A j \in Pending(p) : j <= i
          PROVE  i = Len(q) + 1
        <3>1. i \in 1..Len(q) + 1 /\ Len(q) + 1 <= i
            BY <1>1, <2>1, <2>2 DEF Pending
        <3> QED BY <1>1, <3>1
    <2> QED BY <1>1, <2>1, <2>2 DEF Newest
<1> QED BY <1>1, <1>2, <1>3, <1>4 DEF p

\* The first block of the queue runs, and posts m reloads.
Ran(q, p, m) ==
    /\ p \in Seq(Block) /\ DOMAIN p = 1..Len(q) - 1 + m
    /\ \A i \in DOMAIN p : p[i] = IF i < Len(q) THEN q[i + 1] ELSE Reload

LEMMA RunsBlock ==
    ASSUME NEW q \in Seq(Block), q # << >>
    PROVE  /\ Head(q) \in Block
           /\ Ran(q, Tail(q), 0)
           /\ \A m \in Nat : Ran(q, Tail(q) \o [i \in 1..m |-> Reload], m)
<1>1. /\ Head(q) = q[1] /\ Len(q) \in Nat \ {0} /\ Head(q) \in Block
      /\ Tail(q) \in Seq(Block) /\ Len(Tail(q)) = Len(q) - 1
      /\ \A i \in 1..Len(q) - 1 : Tail(q)[i] = q[i + 1]
    OBVIOUS
<1>2. Ran(q, Tail(q), 0)
    BY <1>1 DEF Ran
<1>3. ASSUME NEW m \in Nat PROVE Ran(q, Tail(q) \o [i \in 1..m |-> Reload], m)
    <2> DEFINE t == Tail(q)
               r == [i \in 1..m |-> Reload]
    <2>1. r \in Seq(Block) /\ Len(r) = m /\ \A i \in 1..m : r[i] = Reload
        BY ReloadFacts
    <2>2. t \in Seq(Block) /\ Len(t) = Len(q) - 1
          /\ \A i \in 1..Len(q) - 1 : t[i] = q[i + 1]
        BY <1>1
    <2> HIDE DEF t, r
    <2>3. /\ t \o r \in Seq(Block) /\ Len(t \o r) = Len(q) - 1 + m
          /\ \A i \in 1..Len(q) - 1 + m :
                (t \o r)[i] = IF i <= Len(q) - 1 THEN t[i] ELSE r[i - (Len(q) - 1)]
        <3>1. /\ t \o r \in Seq(Block) /\ Len(t \o r) = Len(t) + Len(r)
              /\ \A i \in 1..Len(t) + Len(r) :
                    (t \o r)[i] = IF i <= Len(t) THEN t[i] ELSE r[i - Len(t)]
            BY <2>1, <2>2, Concatenation
        <3>2. Len(t) = Len(q) - 1 /\ Len(r) = m /\ Len(t) + Len(r) = Len(q) - 1 + m
            BY <2>1, <2>2
        <3>3. ASSUME NEW i \in 1..Len(q) - 1 + m
              PROVE  (t \o r)[i] =
                         IF i <= Len(q) - 1 THEN t[i] ELSE r[i - (Len(q) - 1)]
            <4>1. i \in 1..Len(t) + Len(r)
                BY <3>2
            <4> QED BY <3>1, <3>2, <4>1
        <3> QED BY <3>1, <3>2, <3>3
    <2>4. ASSUME NEW i \in 1..Len(q) - 1 + m
          PROVE  (t \o r)[i] = IF i < Len(q) THEN q[i + 1] ELSE Reload
        <3>1. CASE i < Len(q)
            <4>1. i <= Len(q) - 1 /\ i \in 1..Len(q) - 1
                BY <1>1, <3>1
            <4> QED BY <2>2, <2>3, <3>1, <4>1
        <3>2. CASE ~(i < Len(q))
            <4>1. ~(i <= Len(q) - 1) /\ i - (Len(q) - 1) \in 1..m
                BY <1>1, <3>2
            <4> QED BY <2>1, <2>3, <3>2, <4>1
        <3> QED BY <3>1, <3>2
    <2>5. Ran(q, t \o r, m)
        <3> DEFINE p == t \o r
        <3>1. /\ p \in Seq(Block) /\ Len(p) = Len(q) - 1 + m
              /\ \A i \in 1..Len(q) - 1 + m :
                    p[i] = IF i < Len(q) THEN q[i + 1] ELSE Reload
            BY <2>3, <2>4
        <3> HIDE DEF p
        <3>2. DOMAIN p = 1..Len(q) - 1 + m
            BY <3>1
        <3>3. Ran(q, p, m)
            BY <3>1, <3>2, Zenon DEF Ran
        <3> QED BY <3>3 DEF p
    <2> QED BY <2>5 DEF t, r
<1> QED BY <1>1, <1>2, <1>3

\* What remains of the queue.
LEMMA RanFacts ==
    ASSUME NEW q \in Seq(Block), q # << >>, NEW m \in Nat, NEW p, Ran(q, p, m),
           NEW V
    PROVE  /\ NoError(q) => NoError(p)
           /\ m > 0 \/ (Reloading(q) /\ Head(q).kind # "reload") => Reloading(p)
           /\ Newest(q, V) => Newest(p, V)
           /\ Pending(p) = {} /\ Head(q).kind # "snapshot" => Pending(q) = {}
           /\ Pending(p) = {} /\ Head(q).kind = "snapshot" /\ Newest(q, V)
                  => Head(q).notes = V
<1>1. /\ Head(q) = q[1] /\ Len(q) \in Nat \ {0} /\ DOMAIN q = 1..Len(q)
      /\ DOMAIN p = 1..Len(q) - 1 + m
      /\ \A i \in DOMAIN p : p[i] = IF i < Len(q) THEN q[i + 1] ELSE Reload
      /\ \A i \in DOMAIN q : i # 1 => i - 1 \in DOMAIN p /\ p[i - 1] = q[i]
      /\ Reload.kind = "reload"
    <2>1. /\ Head(q) = q[1] /\ Len(q) \in Nat \ {0} /\ DOMAIN q = 1..Len(q)
          /\ DOMAIN p = 1..Len(q) - 1 + m
          /\ \A i \in DOMAIN p : p[i] = IF i < Len(q) THEN q[i + 1] ELSE Reload
        BY DEF Ran
    <2>2. ASSUME NEW i \in DOMAIN q, i # 1
          PROVE  i - 1 \in DOMAIN p /\ p[i - 1] = q[i]
        <3>1. i \in 1..Len(q) /\ i - 1 \in 1..Len(q) - 1 + m /\ i - 1 < Len(q)
            BY <2>1, <2>2
        <3> QED BY <2>1, <3>1
    <2> QED BY <2>1, <2>2, ReloadFacts
<1>2. ASSUME NoError(q) PROVE NoError(p)
    <2>1. ASSUME NEW i \in DOMAIN p PROVE p[i].kind # "error"
        <3>1. CASE i < Len(q)
            <4>1. i + 1 \in DOMAIN q /\ p[i] = q[i + 1]
                BY <1>1, <3>1
            <4> QED BY <1>2, <4>1 DEF NoError
        <3>2. CASE ~(i < Len(q))
            BY <1>1, <3>2
        <3> QED BY <3>1, <3>2
    <2> QED BY <2>1 DEF NoError
<1>3. ASSUME m > 0 PROVE Reloading(p)
    <2>1. Len(q) \in DOMAIN p /\ p[Len(q)] = Reload
        BY <1>1, <1>3
    <2> QED BY <1>1, <2>1 DEF Reloading
<1>4. ASSUME Reloading(q), Head(q).kind # "reload" PROVE Reloading(p)
    <2>1. PICK i \in DOMAIN q : q[i].kind = "reload" /\ i # 1
        BY <1>1, <1>4 DEF Reloading
    <2> QED BY <1>1, <2>1 DEF Reloading
<1>5. /\ \A i \in Pending(p) : i < Len(q) /\ i + 1 \in Pending(q) /\ p[i] = q[i + 1]
      /\ \A i \in Pending(q) : i # 1 => i - 1 \in Pending(p)
      /\ 1 \in Pending(q) <=> Head(q).kind = "snapshot"
      /\ Pending(p) \subseteq Nat /\ Pending(q) \subseteq Nat
    <2>1. ASSUME NEW i \in Pending(p)
          PROVE  i < Len(q) /\ i + 1 \in Pending(q) /\ p[i] = q[i + 1]
        BY <1>1 DEF Pending
    <2>2. \A i \in Pending(q) : i # 1 => i - 1 \in Pending(p)
        BY <1>1 DEF Pending
    <2>3. 1 \in Pending(q) <=> Head(q).kind = "snapshot"
        BY <1>1 DEF Pending
    <2>4. Pending(p) \subseteq Nat /\ Pending(q) \subseteq Nat
        BY <1>1 DEF Pending
    <2> QED BY <2>1, <2>2, <2>3, <2>4
<1>6. ASSUME Newest(q, V) PROVE Newest(p, V)
    <2> SUFFICES ASSUME NEW i \in Pending(p), \A j \in Pending(p) : j <= i
                 PROVE  p[i].notes = V
        BY DEF Newest
    <2>1. ASSUME NEW j \in Pending(q) PROVE j <= i + 1
        <3>1. CASE j = 1
            BY <1>5, <3>1
        <3>2. CASE j # 1
            <4>1. j - 1 <= i
                BY <1>5, <3>2
            <4> QED BY <1>5, <4>1
        <3> QED BY <3>1, <3>2
    <2> QED BY <1>5, <1>6, <2>1 DEF Newest
<1>7. Pending(p) = {} /\ Head(q).kind # "snapshot" => Pending(q) = {}
    BY <1>5
<1>8. ASSUME Pending(p) = {}, Head(q).kind = "snapshot", Newest(q, V)
      PROVE  Head(q).notes = V
    <2>1. 1 \in Pending(q) /\ \A j \in Pending(q) : j <= 1
        BY <1>5, <1>8
    <2> QED BY <1>1, <1>8, <2>1 DEF Newest
<1> QED BY <1>2, <1>3, <1>4, <1>6, <1>7, <1>8

-----------------------------------------------------------------------------
(***************************************************************************)
(* The steps.                                                              *)
(***************************************************************************)
LEMMA ViewType ==
    ASSUME TypeOK
    PROVE  View \in SUBSET Note
<1>1. \A i \in DOMAIN waiting : waiting[i] \in Note
    BY DEF TypeOK
<1> QED BY <1>1 DEF TypeOK, View

\* A change of what the client shows: the listener gets a snapshot of it.
LEMMA EmitStep ==
    ASSUME IInv, Emit, UNCHANGED <<listening, notes, rows>>,
           saved' \in SUBSET Note, seen' \in SUBSET saved', waiting' \in Seq(Note),
           rejected' \in SUBSET Note
    PROVE  IInv'
<1> USE DEF IInv
<1> DEFINE b == [kind |-> "snapshot", notes |-> View']
<1>1. View' \in SUBSET Note
    <2>1. \A i \in DOMAIN waiting' : waiting'[i] \in Note
        OBVIOUS
    <2> QED BY <2>1 DEF View
<1>2. b \in Block /\ b.kind = "snapshot" /\ b.notes = View'
    BY <1>1 DEF Block
<1>3. main \in Seq(Block)
    BY DEF TypeOK
<1>4. main' = main \/ main' = Append(main, b)
    BY DEF Emit
<1>5. listening => main' = Append(main, b) \/ (main' = main /\ View' = View)
    BY DEF Emit
<1> HIDE DEF b
<1>6. /\ Append(main, b) \in Seq(Block) /\ (Reloading(main) => Reloading(Append(main, b)))
      /\ NoError(main) => NoError(Append(main, b))
      /\ Pending(Append(main, b)) # {} /\ Newest(Append(main, b), View')
    BY <1>2, <1>3, Posted
<1>7. TypeOK'
    BY <1>3, <1>4, <1>6 DEF TypeOK
<1>8. RowsHaveNotes'
    <2>1. Reloading(main) => Reloading(main')
        BY <1>4, <1>6
    <2> QED BY <2>1 DEF RowsHaveNotes, Reloading
<1>9. ShownOK'
    <2> SUFFICES ASSUME listening
                 PROVE  /\ NoError(main') /\ Newest(main', View')
                        /\ Pending(main') = {} =>
                              /\ notes = Ordered(View')
                              /\ Reloading(main') \/ rows = notes \/ View' = {}
        BY DEF ShownOK, NoError, Newest, Pending, Reloading
    <2>1. CASE main' = main /\ View' = View
        BY <2>1 DEF ShownOK
    <2>2. CASE main' = Append(main, b)
        BY <1>6, <2>2 DEF ShownOK
    <2> QED BY <1>5, <2>1, <2>2
<1> QED BY <1>7, <1>8, <1>9

LEMMA ClientStep ==
    ASSUME IInv,
           \/ Acknowledge \/ Reject \/ Synchronize
           \/ \E n \in Note : SaveButtonPressed(n)
    PROVE  IInv'
<1> USE DEF IInv
<1>1. waiting # << >> => Head(waiting) \in Note /\ Tail(waiting) \in Seq(Note)
    BY DEF TypeOK
<1>2. CASE Acknowledge
    BY <1>1, <1>2, EmitStep DEF Acknowledge, TypeOK
<1>3. CASE Reject
    BY <1>1, <1>3, EmitStep DEF Reject, TypeOK
<1>4. CASE Synchronize
    BY <1>4, EmitStep DEF Synchronize, TypeOK
<1>5. ASSUME NEW n \in Note, SaveButtonPressed(n) PROVE IInv'
    BY <1>5, EmitStep DEF SaveButtonPressed, TypeOK
<1> QED BY <1>2, <1>3, <1>4, <1>5

\* The list opens, and shows what the client knows.
LEMMA LoadStep == ASSUME IInv, LoadNotes PROVE IInv'
<1> USE DEF IInv
<1> DEFINE b == [kind |-> "snapshot", notes |-> View]
<1>1. b \in Block /\ b.kind = "snapshot" /\ b.notes = View
    BY ViewType DEF Block
<1>2. main' = <<b>>
    BY DEF LoadNotes
<1>3. View' = View
    BY DEF LoadNotes, View
<1> HIDE DEF b
<1>4. /\ main' \in Seq(Block) /\ DOMAIN main' = {1} /\ main'[1] = b
    BY <1>1, <1>2
<1>5. TypeOK'
    BY <1>4 DEF LoadNotes, TypeOK
<1>6. RowsHaveNotes'
    BY DEF LoadNotes, RowsHaveNotes
<1>7. ShownOK'
    <2>1. NoError(main') /\ Newest(main', View') /\ 1 \in Pending(main')
        BY <1>1, <1>3, <1>4 DEF NoError, Newest, Pending
    <2> QED BY <2>1 DEF ShownOK, NoError, Newest, Pending
<1> QED BY <1>5, <1>6, <1>7

\* Another device saves, or the listen ends.
LEMMA BackendStep ==
    ASSUME IInv, RejectListen \/ \E n \in Note : SaveElsewhere(n)
    PROVE  IInv'
<1> USE DEF IInv
<1>1. CASE RejectListen
    <2> DEFINE b == [kind |-> "error"]
    <2>1. b \in Block /\ main' = Append(main, b)
        BY <1>1 DEF RejectListen, Block
    <2> HIDE DEF b
    <2>2. main' \in Seq(Block) /\ (Reloading(main) => Reloading(main'))
        BY <2>1, Posted DEF TypeOK
    <2>3. TypeOK'
        BY <1>1, <2>2 DEF RejectListen, TypeOK
    <2>4. RowsHaveNotes'
        BY <1>1, <2>2 DEF RejectListen, RowsHaveNotes, Reloading
    <2>5. ShownOK'
        BY <1>1 DEF RejectListen, ShownOK
    <2> QED BY <2>3, <2>4, <2>5
<1>2. ASSUME NEW n \in Note, SaveElsewhere(n) PROVE IInv'
    <2>1. TypeOK'
        BY <1>2 DEF SaveElsewhere, TypeOK
    <2>2. RowsHaveNotes'
        BY <1>2 DEF SaveElsewhere, RowsHaveNotes
    <2>3. View' = View
        BY <1>2 DEF SaveElsewhere, View
    <2>4. ShownOK'
        BY <1>2, <2>3 DEF SaveElsewhere, ShownOK, NoError, Newest, Pending, Reloading
    <2> QED BY <2>1, <2>2, <2>4
<1> QED BY <1>1, <1>2

LEMMA RunMainStep == ASSUME IInv, RunMain PROVE IInv'
<1> USE DEF IInv
<1>1. main # << >> /\ main \in Seq(Block) /\ Head(main) \in Block
    <2>1. main # << >> /\ main \in Seq(Block)
        BY DEF RunMain, OnSnapshot, OnError, ReloadData, Runs, TypeOK
    <2> QED BY <2>1, RunsBlock
<1>2. View' = View /\ UNCHANGED <<saved, seen, waiting, rejected, listening>>
    BY DEF RunMain, OnSnapshot, OnError, ReloadData, View
<1>3. \A m \in Nat : Ran(main, main', m) => main' \in Seq(Block)
    BY DEF Ran
\* It is enough to look at the main queue, the array and the rows.
<1>4. ASSUME notes' \in Seq(Note), rows' \in Seq(Note), RowsHaveNotes',
             NEW m \in Nat, Ran(main, main', m),
             listening /\ NoError(main) /\ Pending(main') = {} =>
                 /\ notes' = Ordered(View)
                 /\ Reloading(main') \/ rows' = notes' \/ View = {}
      PROVE  IInv'
    <2>1. TypeOK'
        BY <1>2, <1>3, <1>4 DEF TypeOK
    <2>2. listening => NoError(main') /\ Newest(main', View)
        BY <1>1, <1>4, RanFacts DEF ShownOK
    <2>3. ShownOK'
        BY <1>2, <1>4, <2>2 DEF ShownOK, NoError, Newest, Pending, Reloading
    <2> QED BY <1>4, <2>1, <2>3
<1>5. CASE OnSnapshot
    <2> DEFINE read == Ordered(Head(main).notes)
    <2>1. Head(main).kind = "snapshot" /\ Head(main).notes \in SUBSET Note
        BY <1>1, <1>5 DEF OnSnapshot, Runs, Block
    <2>2. /\ read \in Seq(Head(main).notes) /\ Len(read) \in Nat
          /\ DOMAIN read = 1..Len(read)
          /\ Head(main).notes = {} => read = << >>
          /\ Head(main).notes # {} => Len(read) > 0
        BY <2>1, OrderedIs
    <2>3. read \in Seq(Note)
        BY <2>1, <2>2
    <2>4. /\ notes' = read /\ rows' = rows
          /\ main' = Tail(main) \o [i \in 1..Len(read) |-> Reload]
        BY <1>5, <2>2 DEF OnSnapshot, Reload
    <2> HIDE DEF read
    <2>5. Ran(main, main', Len(read))
        BY <1>1, <2>2, <2>4, RunsBlock
    <2>6. Head(main).notes # {} => Reloading(main')
        BY <1>1, <2>2, <2>5, RanFacts
    <2>7. RowsHaveNotes'
        BY <2>2, <2>4, <2>6 DEF RowsHaveNotes, Reloading
    <2>8. ASSUME listening, Pending(main') = {} PROVE Head(main).notes = View
        BY <1>1, <2>1, <2>2, <2>5, <2>8, RanFacts DEF ShownOK
    <2>9. ASSUME listening, Pending(main') = {}
          PROVE  /\ notes' = Ordered(View)
                 /\ Reloading(main') \/ rows' = notes' \/ View = {}
        BY <2>4, <2>6, <2>8, <2>9 DEF read
    <2>10. notes' \in Seq(Note) /\ rows' \in Seq(Note) /\ Len(read) \in Nat
        BY <2>2, <2>3, <2>4 DEF TypeOK
    <2> QED BY <1>4, <2>5, <2>7, <2>9, <2>10
<1>6. CASE OnError
    <2>1. /\ Ran(main, main', 0) /\ notes' = << >> /\ rows' = rows
          /\ Head(main).kind = "error"
        BY <1>1, <1>6, RunsBlock DEF OnError, Runs
    <2>2. RowsHaveNotes'
        BY <2>1 DEF RowsHaveNotes
    <2>3. ~NoError(main)
        BY <1>1, <2>1 DEF NoError
    <2>4. notes' \in Seq(Note) /\ rows' \in Seq(Note)
        BY <2>1 DEF TypeOK
    <2> QED BY <1>4, <2>1, <2>2, <2>3, <2>4
<1>7. CASE ReloadData
    <2>1. /\ Ran(main, main', 0) /\ notes' = notes /\ rows' = notes
          /\ Head(main).kind = "reload"
        BY <1>1, <1>7, RunsBlock DEF ReloadData, Runs
    <2>2. RowsHaveNotes'
        BY <2>1 DEF RowsHaveNotes, TypeOK
    <2>3. notes' \in Seq(Note) /\ rows' \in Seq(Note)
        BY <2>1 DEF TypeOK
    <2>4. Pending(main') = {} => Pending(main) = {}
        BY <1>1, <2>1, RanFacts
    <2> QED BY <1>4, <2>1, <2>2, <2>3, <2>4 DEF ShownOK
<1> QED BY <1>5, <1>6, <1>7 DEF RunMain

LEMMA TerminateStep == ASSUME IInv, Terminate PROVE IInv'
<1>1. TypeOK'
    <2>1. \A S : << >> \in Seq(S)
        OBVIOUS
    <2> QED BY <2>1 DEF Terminate, IInv, TypeOK
<1>2. RowsHaveNotes' /\ ShownOK'
    BY DEF Terminate, RowsHaveNotes, ShownOK
<1> QED BY <1>1, <1>2 DEF IInv

\* A cell is filled from the array as it is now.
LEMMA ScrollStep ==
    ASSUME IInv, NEW i \in DOMAIN rows, Scroll(i)
    PROVE  IInv'
<1> USE DEF IInv
<1>1. CASE i \notin DOMAIN notes
    BY <1>1, TerminateStep DEF Scroll
<1>2. CASE i \in DOMAIN notes
    <2>1. /\ rows' = [rows EXCEPT ![i] = notes[i]]
          /\ UNCHANGED <<saved, seen, waiting, rejected, listening, main, notes>>
        BY <1>2 DEF Scroll
    <2>2. notes \in Seq(Note) /\ rows \in Seq(Note) /\ notes[i] \in Note
        BY <1>2 DEF TypeOK
    <2>3. rows' \in Seq(Note) /\ Len(rows') = Len(rows)
        BY <2>1, <2>2
    <2>4. rows = notes => rows' = notes
        BY <2>1, <2>2
    <2>5. TypeOK'
        BY <2>1, <2>3 DEF TypeOK
    <2>6. RowsHaveNotes'
        BY <2>1, <2>3 DEF RowsHaveNotes
    <2>7. View' = View
        BY <2>1 DEF View
    <2>8. ShownOK'
        BY <2>1, <2>4, <2>7 DEF ShownOK, NoError, Newest, Pending, Reloading
    <2> QED BY <2>5, <2>6, <2>8
<1> QED BY <1>1, <1>2

LEMMA InvInit == Init => IInv
<1> SUFFICES ASSUME Init PROVE IInv
    OBVIOUS
<1>1. TypeOK
    <2>1. \A S : << >> \in Seq(S)
        OBVIOUS
    <2> QED BY <2>1 DEF Init, TypeOK
<1>2. RowsHaveNotes /\ ShownOK
    BY DEF Init, RowsHaveNotes, ShownOK
<1> QED BY <1>1, <1>2 DEF IInv

LEMMA InvStep == IInv /\ [Next]_vars => IInv'
<1> SUFFICES ASSUME IInv, [Next]_vars PROVE IInv'
    OBVIOUS
<1>1. CASE UNCHANGED vars
    <2>1. TypeOK' /\ RowsHaveNotes'
        BY <1>1 DEF vars, IInv, TypeOK, RowsHaveNotes
    <2>2. ShownOK'
        BY <1>1 DEF vars, IInv, ShownOK, View, NoError, Newest, Pending, Reloading
    <2> QED BY <2>1, <2>2 DEF IInv
<1>2. CASE Next
    BY <1>2, LoadStep, ClientStep, BackendStep, RunMainStep, TerminateStep, ScrollStep
        DEF Next
<1> QED BY <1>1, <1>2

-----------------------------------------------------------------------------
(***************************************************************************)
(* The theorems.                                                           *)
(***************************************************************************)
\* The invariant of the list is inductive: every snapshot, reload, scroll and
\* save keeps it.
THEOREM Inductive == Spec => []IInv
BY InvInit, InvStep, PTL DEF Spec

\* Whatever a snapshot holds, the array is a list of notes, in particular the
\* sorted query has a result, and the rows of the table were notes.
THEOREM TypeCorrect == Spec => []TypeOK
<1>1. IInv => TypeOK
    BY DEF IInv
<1> QED BY <1>1, Inductive, PTL

\* The table never has more rows than the array has notes, except until a
\* reload that is already queued, or when the array has become empty.
THEOREM RowsHaveNotesCorrect == Spec => []RowsHaveNotes
<1>1. IInv => RowsHaveNotes
    BY DEF IInv
<1> QED BY <1>1, Inductive, PTL

\* Whenever the main queue is idle, the table shows, in the order of their
\* times, the notes the client knows of and those that are still to be sent.
THEOREM ListAgreesCorrect == Spec => []ListAgrees
<1>1. IInv => ListAgrees
    BY DEF IInv, ShownOK, ListAgrees, Pending, Reloading
<1> QED BY <1>1, Inductive, PTL
=============================================================================
