-------------------------- MODULE EmailUpdateProofs --------------------------
(***************************************************************************)
(* Proofs about EmailUpdate: for every set of accounts, devices, addresses *)
(* and texts, and for every bound.                                         *)
(***************************************************************************)
EXTENDS EmailUpdate, SequenceTheorems, WellFoundedInduction, TLAPS

\* Where an update to users/<u> may be: a call that Auth has accepted, a
\* completion on the main queue, a write in the Firestore client's queues.
Accepted(d, u) == /\ call[d] # None
                  /\ call[d].uid = u /\ call[d].stage = "accepted"
Ending(q, u)   == {i \in DOMAIN q : q[i].by \in Ends /\ q[i].uid = u}
Written(q, u)  == {i \in DOMAIN q : q[i].uid = u}

IsLast(i, S) == i \in S /\ \A j \in S : j <= i

\* The last completion, and the last write, about an account.
EndsWith(q, u, a) == \A i \in Ending(q, u) :
                         IsLast(i, Ending(q, u)) => q[i].text.addr = a
WritesLast(q, u, t) == \A i \in Written(q, u) :
                           IsLast(i, Written(q, u)) => q[i].text = t

-----------------------------------------------------------------------------
\* A call under way: a sign-up has no account until Auth accepts it, Auth
\* accepts no change to an address with spaces, and a change on the current
\* FIRUser object has a session.
CallOK(d) ==
    /\ IF call[d].stage = "sent"
       THEN call[d].uid = None <=> call[d].by = "signUp"
       ELSE /\ call[d].uid \in Uid
            /\ call[d].by = "update" => ~call[d].text.spaced
    /\ call[d].by = "update" /\ call[d].object = "current" => user[d] # None

CallsOK == \A d \in Device : call[d] # None => CallOK(d)

BlocksOK ==
    \A d \in Device : \A i \in DOMAIN main[d] :
        main[d][i].by = "update" => ~main[d][i].text.spaced

\* Nobody is signed in to, and nothing is about, an account that does not exist.
AccountsOK ==
    \A d \in Device :
        /\ user[d] # None => account[user[d].uid] # None
        /\ \A u \in Uid : account[u] = None => Quiet(d, u)

\* What is written to the document of an undisturbed account is in the queue of
\* that account, so that it is sent in order.
OwnersOK ==
    \A d \in Device : \A i \in DOMAIN writes[d] :
        \/ writes[d][i].uid \in disturbed
        \/ writes[d][i].owner = writes[d][i].uid

\* Changes of an undisturbed account's address are under way on one device.
OneDevice ==
    \A u \in Uid \ disturbed : \A d, e \in Device :
        Quiet(d, u) \/ Quiet(e, u) \/ d = e

\* The last of what is under way about an undisturbed account has its address.
CarriesAddress(d, u) ==
    IF Accepted(d, u) THEN call[d].text.addr = account[u]
    ELSE IF Ending(main[d], u) # {} THEN EndsWith(main[d], u, account[u])
    ELSE WritesLast(writes[d], u, Plain(account[u]))

AtRest(d, u) == /\ ~Accepted(d, u) /\ Ending(main[d], u) = {}
                /\ Written(writes[d], u) = {}

Copied(u) == doc[u] = IF account[u] = None THEN None ELSE Plain(account[u])

LatestOK ==
    \A u \in Uid \ disturbed :
        /\ \A d \in Device : CarriesAddress(d, u)
        /\ (\A d \in Device : AtRest(d, u)) => Copied(u)

IInv == /\ TypeOK /\ CallsOK /\ BlocksOK /\ AccountsOK
        /\ OwnersOK /\ OneDevice /\ LatestOK

-----------------------------------------------------------------------------
(***************************************************************************)
(* Queues.                                                                 *)
(***************************************************************************)
\* A set of numbers that is not empty has a least one.
LEMMA Least ==
    ASSUME NEW S \in SUBSET Nat, S # {}
    PROVE  \E n \in S : \A m \in S : n <= m
<1>1. IsWellFoundedOn(OpToRel(<, Nat), Nat)
    BY NatLessThanWellFounded
<1>2. PICK n \in S : \A m \in S : ~(<<m, n>> \in OpToRel(<, Nat))
    BY <1>1, WFMin
<1>3. \A m \in S : ~(m < n)
    BY <1>2 DEF OpToRel
<1> QED BY <1>3

\* A bounded set of numbers has a greatest one.
LEMMA Greatest ==
    ASSUME NEW S \in SUBSET Nat, S # {}, NEW k \in Nat, \A n \in S : n <= k
    PROVE  \E n \in S : \A m \in S : m <= n
<1> DEFINE U == {j \in Nat : \E n \in S : j = k - n}
<1>1. PICK x \in S : TRUE
    OBVIOUS
<1>2. k - x \in U
    OBVIOUS
<1>3. PICK j \in U : \A i \in U : j <= i
    <2>1. U \in SUBSET Nat /\ U # {}
        BY <1>2
    <2> HIDE DEF U
    <2> QED BY <2>1, Least
<1>4. PICK n \in S : j = k - n
    BY <1>3
<1>5. ASSUME NEW m \in S PROVE m <= n
    <2>1. k - m \in U
        OBVIOUS
    <2>2. j <= k - m
        BY <1>3, <2>1
    <2> QED BY <1>4, <2>2
<1> QED BY <1>5

\* What has a position has a last one.
LEMMA MaxIsIn ==
    ASSUME NEW q, NEW S, q \in Seq(S), NEW I \in SUBSET DOMAIN q, I # {}
    PROVE  Max(I) \in I
<1>1. I \in SUBSET Nat /\ Len(q) \in Nat /\ \A n \in I : n <= Len(q)
    OBVIOUS
<1>2. \E n \in I : \A m \in I : n >= m
    BY <1>1, Greatest
<1> QED BY <1>2 DEF Max

\* Posting a block that is not about the account, or one that is.
LEMMA EndingAppend ==
    ASSUME NEW q \in Seq(Block), NEW b \in Block, NEW u, NEW a
    PROVE  /\ b.by \notin Ends \/ b.uid # u =>
                  /\ Ending(Append(q, b), u) = Ending(q, u)
                  /\ EndsWith(q, u, a) => EndsWith(Append(q, b), u, a)
           /\ b.by \in Ends /\ b.uid = u =>
                  /\ Ending(Append(q, b), u) # {}
                  /\ b.text.addr = a => EndsWith(Append(q, b), u, a)
<1>1. /\ Len(Append(q, b)) = Len(q) + 1 /\ Append(q, b)[Len(q) + 1] = b
      /\ \A i \in DOMAIN q : Append(q, b)[i] = q[i]
      /\ DOMAIN Append(q, b) = 1..Len(q) + 1 /\ DOMAIN q = 1..Len(q)
      /\ Len(q) \in Nat
    OBVIOUS
<1>2. CASE b.by \notin Ends \/ b.uid # u
    <2>1. Ending(Append(q, b), u) = Ending(q, u)
        BY <1>1, <1>2 DEF Ending
    <2>2. EndsWith(q, u, a) => EndsWith(Append(q, b), u, a)
        <3>1. \A i \in Ending(q, u) : i \in DOMAIN q
            BY DEF Ending
        <3> QED BY <1>1, <2>1, <3>1 DEF EndsWith
    <2> QED BY <1>2, <2>1, <2>2
<1>3. CASE b.by \in Ends /\ b.uid = u
    <2>1. Len(q) + 1 \in Ending(Append(q, b), u)
        BY <1>1, <1>3 DEF Ending
    <2>2. ASSUME NEW i, IsLast(i, Ending(Append(q, b), u)) PROVE i = Len(q) + 1
        <3>1. i \in 1..Len(q) + 1 /\ Len(q) + 1 <= i
            BY <1>1, <2>1, <2>2 DEF IsLast, Ending
        <3> QED BY <1>1, <3>1
    <2> QED BY <1>1, <1>3, <2>1, <2>2 DEF EndsWith
<1> QED BY <1>2, <1>3

\* The first block of the queue runs.
LEMMA EndingTail ==
    ASSUME NEW q \in Seq(Block), q # <<>>, NEW u, NEW a
    PROVE  /\ Ending(q, u) = {} => Ending(Tail(q), u) = {}
           /\ Head(q).by \notin Ends \/ Head(q).uid # u =>
                  (Ending(Tail(q), u) = {} => Ending(q, u) = {})
           /\ EndsWith(q, u, a) => EndsWith(Tail(q), u, a)
           /\ EndsWith(q, u, a) /\ Ending(Tail(q), u) = {}
                 /\ Head(q).by \in Ends /\ Head(q).uid = u
              => Head(q).text.addr = a
<1>1. /\ Len(Tail(q)) = Len(q) - 1 /\ Head(q) = q[1] /\ Len(q) \in Nat \ {0}
      /\ \A i \in 1..Len(q) - 1 : Tail(q)[i] = q[i + 1]
      /\ DOMAIN Tail(q) = 1..Len(q) - 1 /\ DOMAIN q = 1..Len(q)
    OBVIOUS
<1>2. \A i \in Int : i \in Ending(Tail(q), u) <=> i >= 1 /\ i + 1 \in Ending(q, u)
    BY <1>1 DEF Ending
<1>3. 1 \in Ending(q, u) <=> Head(q).by \in Ends /\ Head(q).uid = u
    BY <1>1 DEF Ending
<1>4. Ending(q, u) \subseteq 1..Len(q) /\ Ending(Tail(q), u) \subseteq 1..Len(q) - 1
    BY <1>1 DEF Ending
<1>5. Ending(q, u) = {} => Ending(Tail(q), u) = {}
    BY <1>1, <1>2, <1>4
<1>6. ASSUME NEW i \in Ending(q, u), i # 1 PROVE i - 1 \in Ending(Tail(q), u)
    BY <1>1, <1>2, <1>4, <1>6
<1>7. EndsWith(q, u, a) => EndsWith(Tail(q), u, a)
    <2> SUFFICES ASSUME EndsWith(q, u, a), NEW i \in Ending(Tail(q), u),
                        IsLast(i, Ending(Tail(q), u))
                 PROVE  Tail(q)[i].text.addr = a
        BY DEF EndsWith
    <2>1. i \in 1..Len(q) - 1 /\ i + 1 \in Ending(q, u)
        BY <1>1, <1>2, <1>4
    <2>2. ASSUME NEW j \in Ending(q, u) PROVE j <= i + 1
        <3>1. j \in 1..Len(q)
            BY <1>4
        <3>2. CASE j = 1
            BY <2>1, <3>2, <1>1
        <3>3. CASE j # 1
            <4>1. j - 1 <= i
                BY <1>6, <3>3 DEF IsLast
            <4> QED BY <1>1, <2>1, <3>1, <4>1
        <3> QED BY <3>2, <3>3
    <2>3. IsLast(i + 1, Ending(q, u))
        BY <2>1, <2>2 DEF IsLast
    <2> QED BY <1>1, <2>1, <2>3 DEF EndsWith
<1>8. ASSUME EndsWith(q, u, a), Ending(Tail(q), u) = {}, 1 \in Ending(q, u)
      PROVE  Head(q).text.addr = a
    <2>1. IsLast(1, Ending(q, u))
        BY <1>6, <1>8 DEF IsLast
    <2> QED BY <1>1, <1>8, <2>1 DEF EndsWith
<1> QED BY <1>3, <1>5, <1>6, <1>7, <1>8

\* Queueing a write.
LEMMA WrittenAppend ==
    ASSUME NEW q \in Seq(Write), NEW w \in Write, NEW u, NEW t
    PROVE  /\ w.uid # u => /\ Written(Append(q, w), u) = Written(q, u)
                           /\ WritesLast(q, u, t) => WritesLast(Append(q, w), u, t)
           /\ w.uid = u => /\ Written(Append(q, w), u) # {}
                           /\ w.text = t => WritesLast(Append(q, w), u, t)
<1>1. /\ Len(Append(q, w)) = Len(q) + 1 /\ Append(q, w)[Len(q) + 1] = w
      /\ \A i \in DOMAIN q : Append(q, w)[i] = q[i]
      /\ DOMAIN Append(q, w) = 1..Len(q) + 1 /\ DOMAIN q = 1..Len(q)
      /\ Len(q) \in Nat
    OBVIOUS
<1>2. CASE w.uid # u
    <2>1. Written(Append(q, w), u) = Written(q, u)
        BY <1>1, <1>2 DEF Written
    <2>2. WritesLast(q, u, t) => WritesLast(Append(q, w), u, t)
        <3>1. \A i \in Written(q, u) : i \in DOMAIN q
            BY DEF Written
        <3> QED BY <1>1, <2>1, <3>1 DEF WritesLast
    <2> QED BY <1>2, <2>1, <2>2
<1>3. CASE w.uid = u
    <2>1. Len(q) + 1 \in Written(Append(q, w), u)
        BY <1>1, <1>3 DEF Written
    <2>2. ASSUME NEW i, IsLast(i, Written(Append(q, w), u)) PROVE i = Len(q) + 1
        <3>1. i \in 1..Len(q) + 1 /\ Len(q) + 1 <= i
            BY <1>1, <2>1, <2>2 DEF IsLast, Written
        <3> QED BY <1>1, <3>1
    <2> QED BY <1>1, <1>3, <2>1, <2>2 DEF WritesLast
<1> QED BY <1>2, <1>3

\* A write leaves the queue.
LEMMA RemoveAtFacts ==
    ASSUME NEW q \in Seq(Write), NEW k \in DOMAIN q
    PROVE  /\ RemoveAt(q, k) \in Seq(Write)
           /\ DOMAIN RemoveAt(q, k) = 1..Len(q) - 1
           /\ \A i \in 1..Len(q) - 1 :
                  RemoveAt(q, k)[i] = IF i < k THEN q[i] ELSE q[i + 1]
<1> DEFINE before == SubSeq(q, 1, k - 1)
           after  == SubSeq(q, k + 1, Len(q))
<1>1. Len(q) \in Nat /\ k \in 1..Len(q)
    OBVIOUS
<1>2. /\ before \in Seq(Write) /\ Len(before) = k - 1
      /\ \A i \in 1..k - 1 : before[i] = q[i]
    BY <1>1
<1>3. /\ after \in Seq(Write) /\ Len(after) = Len(q) - k
      /\ \A i \in 1..Len(q) - k : after[i] = q[k + i]
    BY <1>1
<1>4. RemoveAt(q, k) = before \o after
    BY DEF RemoveAt
<1> HIDE DEF before, after
<1>5. /\ before \o after \in Seq(Write)
      /\ Len(before \o after) = Len(q) - 1
      /\ \A i \in 1..Len(q) - 1 :
            (before \o after)[i] = IF i <= k - 1 THEN before[i]
                                   ELSE after[i - (k - 1)]
    <2>1. /\ before \o after \in Seq(Write)
          /\ Len(before \o after) = Len(before) + Len(after)
          /\ \A i \in 1..Len(before) + Len(after) :
                (before \o after)[i] = IF i <= Len(before) THEN before[i]
                                       ELSE after[i - Len(before)]
        BY <1>2, <1>3, ConcatProperties
    <2>2. /\ Len(before) = k - 1
          /\ Len(before) + Len(after) = Len(q) - 1
        BY <1>1, <1>2, <1>3
    <2> QED BY <2>1, <2>2
<1>6. ASSUME NEW i \in 1..Len(q) - 1
      PROVE  RemoveAt(q, k)[i] = IF i < k THEN q[i] ELSE q[i + 1]
    <2>1. CASE i < k
        <3>1. i <= k - 1 /\ i \in 1..k - 1
            BY <1>1, <2>1
        <3> QED BY <1>2, <1>4, <1>5, <2>1, <3>1
    <2>2. CASE ~(i < k)
        <3>1. ~(i <= k - 1) /\ i - (k - 1) \in 1..Len(q) - k
            BY <1>1, <2>2
        <3>2. RemoveAt(q, k)[i] = after[i - (k - 1)]
            BY <1>4, <1>5, <3>1
        <3>3. k + (i - (k - 1)) = i + 1
            BY <1>1
        <3> QED BY <1>3, <2>2, <3>1, <3>2, <3>3
    <2> QED BY <2>1, <2>2
<1> QED BY <1>1, <1>4, <1>5, <1>6

\* The first write about an account leaves the queue, or one about another.
LEMMA WrittenRemove ==
    ASSUME NEW q \in Seq(Write), NEW k \in DOMAIN q, NEW u, NEW t,
           q[k].uid = u => \A j \in 1..k - 1 : q[j].uid # u
    PROVE  LET r == RemoveAt(q, k)
           IN  /\ Written(q, u) = {} => Written(r, u) = {}
               /\ q[k].uid # u => (Written(r, u) = {} => Written(q, u) = {})
               /\ WritesLast(q, u, t) => WritesLast(r, u, t)
               /\ WritesLast(q, u, t) /\ Written(r, u) = {} /\ q[k].uid = u
                      => q[k].text = t
<1> DEFINE r == RemoveAt(q, k)
<1>0. /\ DOMAIN r = 1..Len(q) - 1
      /\ \A i \in 1..Len(q) - 1 : r[i] = IF i < k THEN q[i] ELSE q[i + 1]
    BY RemoveAtFacts
<1> HIDE DEF r
<1>1. /\ DOMAIN q = 1..Len(q) /\ Len(q) \in Nat /\ k \in 1..Len(q)
      /\ DOMAIN r = 1..Len(q) - 1
      /\ \A i \in 1..Len(q) - 1 : r[i] = IF i < k THEN q[i] ELSE q[i + 1]
    BY <1>0
<1>2. ASSUME NEW i \in Written(r, u)
      PROVE  /\ i \in 1..Len(q) - 1
             /\ IF i < k THEN i \in Written(q, u) ELSE i + 1 \in Written(q, u)
    BY <1>1, <1>2 DEF Written
<1>3. ASSUME NEW j \in Written(q, u), j # k
      PROVE  /\ j \in 1..Len(q)
             /\ IF j < k THEN j \in Written(r, u) ELSE j - 1 \in Written(r, u)
    BY <1>1, <1>3 DEF Written
<1>4. Written(q, u) = {} => Written(r, u) = {}
    BY <1>2
<1>5. ASSUME q[k].uid # u, Written(r, u) = {} PROVE Written(q, u) = {}
    BY <1>3, <1>5 DEF Written
<1>6. ASSUME WritesLast(q, u, t) PROVE WritesLast(r, u, t)
    <2> SUFFICES ASSUME NEW i \in Written(r, u), IsLast(i, Written(r, u))
                 PROVE  r[i].text = t
        BY DEF WritesLast
    <2> DEFINE o == IF i < k THEN i ELSE i + 1
    <2>1. o \in Written(q, u) /\ r[i] = q[o] /\ o \in 1..Len(q)
        BY <1>1, <1>2
    <2>2. ASSUME NEW j \in Written(q, u) PROVE j <= o
        <3>1. CASE j = k
            <4>1. q[k].uid = u /\ q[o].uid = u
                BY <2>1, <3>1 DEF Written
            <4>2. ~(i < k)
                BY <1>1, <1>2, <4>1
            <4> QED BY <1>1, <1>2, <3>1, <4>2
        <3>2. CASE j # k
            <4>1. /\ j \in 1..Len(q) /\ i \in 1..Len(q) - 1
                  /\ IF j < k THEN j <= i ELSE j - 1 <= i
                BY <1>2, <1>3, <3>2 DEF IsLast
            <4> QED BY <1>1, <3>2, <4>1
        <3> QED BY <3>1, <3>2
    <2>3. IsLast(o, Written(q, u))
        BY <2>1, <2>2 DEF IsLast
    <2> QED BY <1>6, <2>1, <2>3 DEF WritesLast
<1>7. ASSUME WritesLast(q, u, t), Written(r, u) = {}, q[k].uid = u
      PROVE  q[k].text = t
    <2>1. \A j \in Written(q, u) : j = k
        BY <1>3, <1>7
    <2>2. IsLast(k, Written(q, u))
        BY <1>1, <1>7, <2>1 DEF IsLast, Written
    <2> QED BY <1>7, <2>2 DEF WritesLast, IsLast
<1> QED BY <1>4, <1>5, <1>6, <1>7 DEF r

-----------------------------------------------------------------------------
(***************************************************************************)
(* Types.                                                                  *)
(***************************************************************************)
LEMMA TypeInit == Init => TypeOK
BY DEF Init, TypeOK, Plain, Text

\* What FIRAuth tells the Firestore client ends no sign-up and no change.
LEMMA ChangeIsBlock ==
    ASSUME NEW session \in User \cup {None}
    PROVE  UserChange(session) \in Block /\ UserChange(session).by \notin Ends
<1>1. UidOf(session) \in Uid \cup {None}
    BY DEF UidOf, User
<1> QED BY <1>1 DEF UserChange, Block, Ends

LEMMA ReplaceType ==
    ASSUME TypeOK, NEW d \in Device, NEW session \in User \cup {None},
           NEW queue \in Seq(Block), Replace(d, session, queue)
    PROVE  /\ user' \in [Device -> User \cup {None}]
           /\ call' \in [Device -> Call \cup {None}]
           /\ main' \in [Device -> Seq(Block)]
<1>1. user' \in [Device -> User \cup {None}]
    BY DEF Replace, TypeOK
<1>2. call' \in [Device -> Call \cup {None}]
    <2>1. CASE call[d] = None
        BY <2>1 DEF Replace, TypeOK
    <2>2. CASE call[d] # None
        <3>1. [call[d] EXCEPT !.object = "replaced"] \in Call
            <4>1. call[d] \in Call
                BY <2>2 DEF TypeOK
            <4>2. \A c \in Call : [c EXCEPT !.object = "replaced"] \in Call
                BY DEF Call
            <4> QED BY <4>1, <4>2, Zenon
        <3>2. call' = [call EXCEPT ![d] = [call[d] EXCEPT !.object = "replaced"]]
            BY <2>2 DEF Replace
        <3> QED BY <3>1, <3>2 DEF TypeOK
    <2> QED BY <2>1, <2>2
<1>3. main' \in [Device -> Seq(Block)]
    <2>1. Append(queue, UserChange(session)) \in Seq(Block)
        BY ChangeIsBlock
    <2> QED BY <2>1 DEF Replace, TypeOK
<1> QED BY <1>1, <1>2, <1>3

\* The text a view shows is one that was written, or that of the version.
LEMMA ViewType ==
    ASSUME TypeOK, NEW d \in Device, NEW u \in Uid,
           NEW version \in Text \cup {None}
    PROVE  View(d, u, version) \in Text \cup {None}
<1> DEFINE own == {i \in DOMAIN writes[d] : /\ writes[d][i].uid = u
                                           /\ writes[d][i].owner = client[d]}
<1>1. writes[d] \in Seq(Write) /\ \A i \in own : writes[d][i] \in Write
    <2>1. writes[d] \in Seq(Write)
        BY DEF TypeOK
    <2> QED BY <2>1
<1>2. ASSUME own # {} PROVE writes[d][Max(own)].text \in Text
    <2>1. Max(own) \in own
        BY <1>1, <1>2, MaxIsIn
    <2>2. writes[d][Max(own)] \in Write
        <3> HIDE DEF own
        <3> QED BY <1>1, <2>1
    <2> QED BY <2>2 DEF Write
<1> QED BY <1>2 DEF View

LEMMA EmitType ==
    ASSUME TypeOK, NEW d \in Device, NEW u \in Uid, NEW t \in Text \cup {None},
           Emit(d, u, t)
    PROVE  /\ [by |-> "snapshot", uid |-> u, text |-> t] \in Block
           /\ main' \in [Device -> Seq(Block)]
<1>1. [by |-> "snapshot", uid |-> u, text |-> t] \in Block
    BY DEF Emit, Block
<1> QED BY <1>1 DEF Emit, TypeOK

LEMMA TailType ==
    ASSUME TypeOK, NEW d \in Device, main[d] # <<>>
    PROVE  /\ Head(main[d]) \in Block
           /\ [main EXCEPT ![d] = Tail(@)] \in [Device -> Seq(Block)]
<1>1. main[d] \in Seq(Block)
    BY DEF TypeOK
<1>2. Head(main[d]) \in Block /\ Tail(main[d]) \in Seq(Block)
    BY <1>1
<1> QED BY <1>2 DEF TypeOK

LEMMA UserType ==
    ASSUME TypeOK, NEW d \in Device, user[d] # None
    PROVE  user[d].uid \in Uid /\ user[d].email \in Address
BY DEF TypeOK, User

LEMMA WriteEmailType ==
    ASSUME TypeOK, NEW d \in Device, main[d] # <<>>, NEW u \in Uid,
           NEW t \in Text, NEW op \in {"set", "update"}, WriteEmail(d, u, t, op)
    PROVE  /\ main' \in [Device -> Seq(Block)]
           /\ writes' \in [Device -> Seq(Write)]
           /\ [owner |-> client[d], uid |-> u, text |-> t, op |-> op] \in Write
<1>1. [owner |-> client[d], uid |-> u, text |-> t, op |-> op] \in Write
    BY DEF TypeOK, Write
<1>2. writes' \in [Device -> Seq(Write)]
    BY <1>1 DEF WriteEmail, TypeOK
<1>3. main' \in [Device -> Seq(Block)]
    BY TailType DEF WriteEmail
<1> QED BY <1>1, <1>2, <1>3

LEMMA CrashType == ASSUME TypeOK, NEW d \in Device, Crash(d) PROVE TypeOK'
<1>1. ASSUME NEW i \in Completions(d) PROVE main[d][i].uid \in Uid
    <2>1. main[d] \in Seq(Block) /\ i \in DOMAIN main[d]
        BY DEF TypeOK, Completions
    <2>2. main[d][i] \in Block /\ main[d][i].by \in Ends
        BY <2>1 DEF Completions
    <2> QED BY <2>2 DEF Block, Ends
<1>2. disturbed' \subseteq Uid
    BY <1>1 DEF Crash, TypeOK
<1>3. main' \in [Device -> Seq(Block)]
    <2>1. UserChange(user[d]) \in Block
        BY ChangeIsBlock DEF TypeOK
    <2> QED BY <2>1 DEF Crash, TypeOK
<1> QED BY <1>2, <1>3 DEF Crash, TypeOK

LEMMA SessionType ==
    ASSUME TypeOK, AccountsOK, NEW d \in Device,
           \/ LogoutPressed(d) \/ OpenSettings(d)
           \/ \E u \in Uid : SignIn(d, u)
    PROVE  TypeOK'
<1>1. ASSUME NEW u \in Uid, SignIn(d, u) PROVE TypeOK'
    <2>1. [uid |-> u, email |-> account[u]] \in User
        BY <1>1 DEF SignIn, TypeOK, User
    <2>2. main[d] \in Seq(Block)
        BY DEF TypeOK
    <2>3. /\ user' \in [Device -> User \cup {None}]
          /\ call' \in [Device -> Call \cup {None}]
          /\ main' \in [Device -> Seq(Block)]
        BY <1>1, <2>1, <2>2, ReplaceType DEF SignIn
    <2> QED BY <1>1, <2>3 DEF SignIn, TypeOK
<1>2. CASE LogoutPressed(d)
    <2>1. main[d] \in Seq(Block)
        BY DEF TypeOK
    <2>2. /\ user' \in [Device -> User \cup {None}]
          /\ call' \in [Device -> Call \cup {None}]
          /\ main' \in [Device -> Seq(Block)]
        BY <1>2, <2>1, ReplaceType DEF LogoutPressed
    <2> QED BY <1>2, <2>2 DEF LogoutPressed, TypeOK
<1>3. CASE OpenSettings(d)
    <2>1. /\ user[d] \in User /\ user[d].uid \in Uid
          /\ account[user[d].uid] \in Address
        BY <1>3, UserType DEF OpenSettings, AccountsOK, TypeOK
    <2>2. [user[d] EXCEPT !.email = account[user[d].uid]] \in User
        BY <2>1 DEF User
    <2>3. user' \in [Device -> User \cup {None}]
        BY <1>3, <2>2 DEF OpenSettings, TypeOK
    <2>4. listening' \in [Device -> SUBSET Uid]
        BY <1>3, <2>1 DEF OpenSettings, TypeOK
    <2> QED BY <1>3, <2>3, <2>4 DEF OpenSettings, TypeOK
<1> QED BY <1>1, <1>2, <1>3

\* The block that an answer posts.
AnswerOf(d) == [by |-> call[d].by, uid |-> call[d].uid, text |-> call[d].text]

\* The queue it is posted to: behind the new account's user, if there is one.
AnswerQueue(d) ==
    IF call[d].by = "signUp"
    THEN Append(main[d], UserChange([uid |-> call[d].uid,
                                     email |-> call[d].text.addr]))
    ELSE main[d]

LEMMA AnswerFacts ==
    ASSUME TypeOK, CallsOK, NEW d \in Device, call[d] # None,
           call[d].stage = "accepted"
    PROVE  /\ AnswerOf(d) \in Block /\ call[d].by \in Ends
           /\ call[d].uid \in Uid /\ call[d].text \in Text
           /\ call[d].text.addr \in Address
           /\ call[d].by = "update" => ~call[d].text.spaced
<1>1. /\ call[d] \in Call /\ call[d].uid \in Uid
      /\ call[d].by = "update" => ~call[d].text.spaced
    BY DEF TypeOK, CallsOK, CallOK
<1>2. /\ call[d].by \in Ends /\ call[d].text \in Text
    BY <1>1 DEF Call, Ends
<1>3. AnswerOf(d) \in Block
    BY <1>1, <1>2 DEF Block, AnswerOf
<1> QED BY <1>1, <1>2, <1>3 DEF Text

LEMMA AnswerQueueFacts ==
    ASSUME TypeOK, CallsOK, NEW d \in Device, call[d] # None,
           call[d].stage = "accepted"
    PROVE  /\ AnswerQueue(d) \in Seq(Block)
           /\ \/ AnswerQueue(d) = main[d]
              \/ \E b \in Block : /\ b.by \notin Ends
                                  /\ AnswerQueue(d) = Append(main[d], b)
<1> DEFINE b == UserChange([uid |-> call[d].uid, email |-> call[d].text.addr])
<1>1. [uid |-> call[d].uid, email |-> call[d].text.addr] \in User
    BY AnswerFacts DEF User
<1>2. b \in Block /\ b.by \notin Ends
    BY <1>1, ChangeIsBlock
<1>3. main[d] \in Seq(Block)
    BY DEF TypeOK
<1>4. AnswerQueue(d) = main[d] \/ AnswerQueue(d) = Append(main[d], b)
    BY DEF AnswerQueue
<1> HIDE DEF b
<1> QED BY <1>2, <1>3, <1>4

LEMMA CallType ==
    ASSUME TypeOK, CallsOK, NEW d \in Device,
           \/ \E t \in Typed : SignUpPressed(d, t) \/ UpdateEmailPressed(d, t)
           \/ Accept(d) \/ Fail(d) \/ Answer(d)
    PROVE  TypeOK'
<1>1. ASSUME NEW t \in Typed, SignUpPressed(d, t) PROVE TypeOK'
    <2>1. [by |-> "signUp", uid |-> None, text |-> t, object |-> "current",
           stage |-> "sent"] \in Call
        BY EmailAssumption DEF Call
    <2> QED BY <1>1, <2>1 DEF SignUpPressed, Submit, TypeOK
<1>2. ASSUME NEW t \in Typed, UpdateEmailPressed(d, t) PROVE TypeOK'
    <2>1. user[d].uid \in Uid
        BY <1>2, UserType DEF UpdateEmailPressed
    <2>2. PICK object \in {"current", "replaced"} :
              Submit(d, [by |-> "update", uid |-> user[d].uid, text |-> t,
                         object |-> object, stage |-> "sent"])
        BY <1>2 DEF UpdateEmailPressed
    <2>3. [by |-> "update", uid |-> user[d].uid, text |-> t,
           object |-> object, stage |-> "sent"] \in Call
        BY <2>1, EmailAssumption DEF Call
    <2>4. disturbed' \subseteq Uid
        BY <1>2, <2>1 DEF UpdateEmailPressed, TypeOK
    <2> QED BY <2>2, <2>3, <2>4 DEF Submit, TypeOK
<1>3. CASE Accept(d)
    <2>1. call[d] \in Call /\ call[d].text \in Text /\ call[d].text.addr \in Address
        BY <1>3 DEF Accept, TypeOK, Call, Text
    <2>2. PICK u \in Uid :
              /\ account' = [account EXCEPT ![u] = call[d].text.addr]
              /\ call' = [call EXCEPT ![d].stage = "accepted", ![d].uid = u]
        BY <1>3 DEF Accept
    <2>3. [call[d] EXCEPT !.stage = "accepted", !.uid = u] \in Call
        BY <2>1 DEF Call
    <2>4. call' = [call EXCEPT
                     ![d] = [call[d] EXCEPT !.stage = "accepted", !.uid = u]]
        BY <2>1, <2>2 DEF TypeOK
    <2>5. call' \in [Device -> Call \cup {None}]
        BY <2>3, <2>4 DEF TypeOK
    <2>6. account' \in [Uid -> Address \cup {None}]
        BY <2>1, <2>2 DEF TypeOK
    <2> QED BY <1>3, <2>5, <2>6 DEF Accept, TypeOK
<1>4. CASE Fail(d)
    <2>1. /\ call[d] \in Call /\ call[d].text.addr \in Address
          /\ call[d].uid \in Uid \/ call[d].stage = "sent"
        BY <1>4 DEF Fail, TypeOK, Call, Text, CallsOK, CallOK
    <2>2. user' \in [Device -> User \cup {None}]
        <3>1. CASE UNCHANGED user
            BY <3>1 DEF TypeOK
        <3>2. CASE /\ call[d].by = "update" /\ call[d].object = "current"
                   /\ user' = [user EXCEPT ![d].email = call[d].text.addr]
            <4>1. user[d] \in User
                BY <1>4, <3>2 DEF Fail, CallsOK, CallOK, TypeOK
            <4>2. [user[d] EXCEPT !.email = call[d].text.addr] \in User
                BY <2>1, <4>1 DEF User
            <4> QED BY <3>2, <4>2 DEF TypeOK
        <3> QED BY <1>4, <3>1, <3>2 DEF Fail
    <2> QED BY <1>4, <2>1, <2>2 DEF Fail, TypeOK
<1>5. CASE Answer(d)
    <2>1. AnswerOf(d) \in Block /\ call[d].text.addr \in Address /\ call[d].uid \in Uid
        BY <1>5, AnswerFacts DEF Answer
    <2>2. main' \in [Device -> Seq(Block)]
        <3>1. AnswerQueue(d) \in Seq(Block)
            BY <1>5, AnswerQueueFacts DEF Answer
        <3>2. main' = [main EXCEPT ![d] = Append(AnswerQueue(d), AnswerOf(d))]
            BY <1>5 DEF Answer, AnswerOf, AnswerQueue
        <3> QED BY <2>1, <3>1, <3>2 DEF TypeOK
    <2>3. [uid |-> call[d].uid, email |-> call[d].text.addr] \in User
        BY <2>1 DEF User
    <2>4. user' \in [Device -> User \cup {None}]
        BY <1>5, <2>3 DEF Answer, TypeOK
    <2> QED BY <1>5, <2>2, <2>4 DEF Answer, TypeOK
<1> QED BY <1>1, <1>2, <1>3, <1>4, <1>5

LEMMA BlockType ==
    ASSUME TypeOK, NEW d \in Device, RunMain(d)
    PROVE  TypeOK'
<1>1. main[d] # <<>>
    BY DEF RunMain, CredentialChange, SignUpCompletion, UpdateEmailCompletion,
           UpdateEmailCrash, EmailSnapshot, Runs
<1>2. /\ Head(main[d]).by \in Ends => Head(main[d]).uid \in Uid
      /\ Head(main[d]).by = "user" => Head(main[d]).uid \in Uid \cup {None}
    BY <1>1, TailType DEF Block, Ends
<1>3. CASE SignUpCompletion(d)
    <2>0. Head(main[d]).uid \in Uid
        BY <1>2, <1>3 DEF SignUpCompletion, Runs, Ends
    <2>1. PICK t \in Typed : WriteEmail(d, Head(main[d]).uid, t, "set")
        BY <1>3 DEF SignUpCompletion
    <2>2. t \in Text
        BY EmailAssumption
    <2>3. main' \in [Device -> Seq(Block)] /\ writes' \in [Device -> Seq(Write)]
        BY <1>1, <2>0, <2>1, <2>2, WriteEmailType
    <2>4. disturbed' \subseteq Uid
        BY <1>3, <2>0 DEF SignUpCompletion, TypeOK
    <2> QED BY <2>1, <2>3, <2>4 DEF WriteEmail, TypeOK
<1>4. CASE UpdateEmailCompletion(d)
    <2>1. user[d].uid \in Uid /\ Head(main[d]).uid \in Uid
        BY <1>2, <1>4, UserType DEF UpdateEmailCompletion, Runs, Ends
    <2>2. PICK t \in Typed : WriteEmail(d, user[d].uid, t, "update")
        BY <1>4 DEF UpdateEmailCompletion
    <2>3. t \in Text
        BY EmailAssumption
    <2>4. main' \in [Device -> Seq(Block)] /\ writes' \in [Device -> Seq(Write)]
        BY <1>1, <2>1, <2>2, <2>3, WriteEmailType
    <2>5. disturbed' \subseteq Uid
        BY <1>4, <2>1 DEF UpdateEmailCompletion, TypeOK
    <2> QED BY <2>2, <2>4, <2>5 DEF WriteEmail, TypeOK
<1>5. CASE UpdateEmailCrash(d)
    BY <1>5, CrashType DEF UpdateEmailCrash
<1>6. CASE EmailSnapshot(d)
    <2>1. /\ user' \in [Device -> User \cup {None}]
          /\ call' \in [Device -> Call \cup {None}]
          /\ main' \in [Device -> Seq(Block)]
        <3>1. CASE /\ main' = [main EXCEPT ![d] = Tail(@)]
                   /\ UNCHANGED <<user, call>>
            BY <1>1, <3>1, TailType DEF TypeOK
        <3>2. CASE Replace(d, None, Tail(main[d]))
            <4>1. Tail(main[d]) \in Seq(Block)
                BY <1>1 DEF TypeOK
            <4> QED BY <3>2, <4>1, ReplaceType
        <3> QED BY <1>6, <3>1, <3>2 DEF EmailSnapshot
    <2> QED BY <1>6, <2>1 DEF EmailSnapshot, TypeOK
<1>7. CASE CredentialChange(d)
    <2>1. main' \in [Device -> Seq(Block)]
        BY <1>1, <1>7, TailType DEF CredentialChange
    <2>2. client' \in [Device -> Uid \cup {None}]
        BY <1>2, <1>7 DEF CredentialChange, Runs, TypeOK
    <2> QED BY <1>7, <2>1, <2>2 DEF CredentialChange, TypeOK
<1> QED BY <1>3, <1>4, <1>5, <1>6, <1>7 DEF RunMain

LEMMA ListenType ==
    ASSUME TypeOK, NEW d \in Device, NEW u \in Uid, EmitView(d, u) \/ Sync(d, u)
    PROVE  TypeOK'
<1>1. CASE EmitView(d, u)
    <2>1. View(d, u, known[d][u]) \in Text \cup {None}
        <3>1. known[d][u] \in Text \cup {None}
            BY DEF TypeOK
        <3> QED BY <3>1, ViewType
    <2>2. main' \in [Device -> Seq(Block)]
        BY <1>1, <2>1, EmitType DEF EmitView
    <2> QED BY <1>1, <2>2 DEF EmitView, TypeOK
<1>2. CASE Sync(d, u)
    <2>1. doc[u] \in Text \cup {None}
        BY DEF TypeOK
    <2>2. View(d, u, doc[u]) \in Text \cup {None}
        BY <2>1, ViewType
    <2>3. main' \in [Device -> Seq(Block)]
        BY <1>2, <2>2, EmitType DEF Sync
    <2>4. known' \in [Device -> [Uid -> Text \cup {None}]]
        BY <1>2, <2>1 DEF Sync, TypeOK
    <2> QED BY <1>2, <2>3, <2>4 DEF Sync, TypeOK
<1> QED BY <1>1, <1>2

LEMMA DeliverType == ASSUME TypeOK, NEW d \in Device, Deliver(d) PROVE TypeOK'
<1>1. PICK i \in NextWrite(d) :
          /\ \/ writes' = [writes EXCEPT ![d] = RemoveAt(@, i)]
             \/ UNCHANGED writes
          /\ \/ UNCHANGED doc
             \/ doc' = [doc EXCEPT ![writes[d][i].uid] = writes[d][i].text]
          /\ \/ UNCHANGED known
             \/ known' = [known EXCEPT ![d][writes[d][i].uid] = writes[d][i].text]
          /\ \/ UNCHANGED disturbed
             \/ disturbed' = disturbed \cup {writes[d][i].uid}
          /\ UNCHANGED <<account, user, client, call, main, listening>>
    BY DEF Deliver
<1>2. writes[d] \in Seq(Write) /\ i \in DOMAIN writes[d]
    BY DEF TypeOK, NextWrite
<1>3. writes[d][i] \in Write
    BY <1>2
<1>4. writes[d][i].uid \in Uid /\ writes[d][i].text \in Text
    BY <1>3 DEF Write
<1>5. writes' \in [Device -> Seq(Write)]
    <2>1. RemoveAt(writes[d], i) \in Seq(Write)
        BY <1>2, RemoveAtFacts
    <2> QED BY <1>1, <2>1 DEF TypeOK
<1>6. doc' \in [Uid -> Text \cup {None}] /\ disturbed' \subseteq Uid
    BY <1>1, <1>4 DEF TypeOK
<1>7. known' \in [Device -> [Uid -> Text \cup {None}]]
    <2> DEFINE uid == writes[d][i].uid
               text == writes[d][i].text
    <2>1. uid \in Uid /\ text \in Text
        BY <1>4
    <2>2. UNCHANGED known \/ known' = [known EXCEPT ![d][uid] = text]
        BY <1>1
    <2> HIDE DEF uid, text
    <2>3. [known[d] EXCEPT ![uid] = text] \in [Uid -> Text \cup {None}]
        BY <2>1 DEF TypeOK
    <2>4. CASE known' = [known EXCEPT ![d][uid] = text]
        <3>1. known' = [known EXCEPT ![d] = [known[d] EXCEPT ![uid] = text]]
            BY <2>4
        <3> QED BY <2>3, <3>1 DEF TypeOK
    <2> QED BY <2>2, <2>4 DEF TypeOK
<1> QED BY <1>1, <1>5, <1>6, <1>7 DEF TypeOK

LEMMA TypeStep == ASSUME IInv, [Next]_vars PROVE TypeOK'
<1>1. CASE UNCHANGED vars
    BY <1>1 DEF IInv, TypeOK, vars
<1>2. ASSUME NEW d \in Device, Crash(d) PROVE TypeOK'
    BY <1>2, CrashType DEF IInv
<1>3. ASSUME NEW d \in Device, RunMain(d) PROVE TypeOK'
    BY <1>3, BlockType DEF IInv
<1>4. ASSUME NEW d \in Device, Deliver(d) PROVE TypeOK'
    BY <1>4, DeliverType DEF IInv
<1> QED BY <1>1, <1>2, <1>3, <1>4, SessionType, CallType, ListenType DEF Next, IInv

-----------------------------------------------------------------------------
(***************************************************************************)
(* What a step leaves alone.                                               *)
(***************************************************************************)
LEMMA QuietIs ==
    ASSUME NEW d, NEW u
    PROVE  /\ Quiet(d, u) <=> /\ call[d] # None => call[d].uid # u
                              /\ Ending(main[d], u) = {}
                              /\ Written(writes[d], u) = {}
           /\ Quiet(d, u)' <=> /\ call'[d] # None => call'[d].uid # u
                               /\ Ending(main'[d], u) = {}
                               /\ Written(writes'[d], u) = {}
BY DEF Quiet, Completions, Ending, Written

\* The calls go on, perhaps on a FIRUser object that is no longer current.
SameCall(d) ==
    /\ call'[d] = None <=> call[d] = None
    /\ call[d] # None =>
          /\ call'[d].by = call[d].by /\ call'[d].uid = call[d].uid
          /\ call'[d].text = call[d].text /\ call'[d].stage = call[d].stage
          /\ call'[d].object = "current" =>
                call[d].object = "current" /\ (user[d] # None => user'[d] # None)

\* The blocks that end no sign-up and no change come and go.
SameBlocks(d) ==
    \E q \in {main[d], Tail(main[d])} :
        /\ q # main[d] => main[d] # <<>> /\ Head(main[d]).by \notin Ends
        /\ \/ main'[d] = q
           \/ \E b \in Block : b.by \notin Ends /\ main'[d] = Append(q, b)

\* The completions about u in the queue q are those in r.
KeptEnding(q, r, u, a) ==
    /\ Ending(r, u) = {} <=> Ending(q, u) = {}
    /\ EndsWith(q, u, a) => EndsWith(r, u, a)

\* What is under way about u on device d is carried on.
SameCompletions(d, u) ==
    /\ Ending(main'[d], u) = {} <=> Ending(main[d], u) = {}
    /\ EndsWith(main[d], u, account[u]) => EndsWith(main'[d], u, account[u])

SameWrites(d, u) ==
    /\ Written(writes'[d], u) = {} <=> Written(writes[d], u) = {}
    /\ WritesLast(writes[d], u, Plain(account[u])) =>
           WritesLast(writes'[d], u, Plain(account[u]))

SameAccepted(d, u) ==
    /\ Accepted(d, u)' <=> Accepted(d, u)
    /\ Accepted(d, u) => call'[d].text = call[d].text

LEMMA SameCarries ==
    ASSUME NEW d, NEW u, SameAccepted(d, u), SameCompletions(d, u),
           SameWrites(d, u), account'[u] = account[u]
    PROVE  /\ CarriesAddress(d, u) => CarriesAddress(d, u)'
           /\ AtRest(d, u)' <=> AtRest(d, u)
<1>1. AtRest(d, u)' <=> AtRest(d, u)
    BY DEF AtRest, SameAccepted, SameCompletions, SameWrites
<1>2. EndsWith(main'[d], u, account[u]) <=> EndsWith(main[d], u, account[u])'
    BY DEF EndsWith, Ending
<1>3. WritesLast(writes'[d], u, Plain(account[u])) <=>
          WritesLast(writes[d], u, Plain(account[u]))'
    BY DEF WritesLast, Written
<1>4. ASSUME CarriesAddress(d, u) PROVE CarriesAddress(d, u)'
    <2>1. CASE Accepted(d, u)
        BY <1>4, <2>1 DEF CarriesAddress, SameAccepted
    <2>2. CASE ~Accepted(d, u) /\ Ending(main[d], u) # {}
        BY <1>2, <1>4, <2>2 DEF CarriesAddress, SameAccepted, SameCompletions
    <2>3. CASE ~Accepted(d, u) /\ Ending(main[d], u) = {}
        BY <1>3, <1>4, <2>3 DEF CarriesAddress, SameAccepted, SameCompletions,
                                SameWrites
    <2> QED BY <2>1, <2>2, <2>3
<1> QED BY <1>1, <1>4

\* A device whose step is about other things.
LEMMA SameDevice ==
    ASSUME NEW d, NEW u, call'[d] = call[d], main'[d] = main[d],
           writes'[d] = writes[d]
    PROVE  /\ SameAccepted(d, u) /\ SameCompletions(d, u) /\ SameWrites(d, u)
           /\ Quiet(d, u)' <=> Quiet(d, u)
BY QuietIs DEF SameAccepted, SameCompletions, SameWrites, Accepted

LEMMA SameLatest ==
    ASSUME NEW u \in Uid \ disturbed, LatestOK,
           account'[u] = account[u], doc'[u] = doc[u],
           \A d \in Device : /\ SameAccepted(d, u) /\ SameCompletions(d, u)
                             /\ SameWrites(d, u)
    PROVE  /\ \A d \in Device : CarriesAddress(d, u)'
           /\ (\A d \in Device : AtRest(d, u)') => Copied(u)'
<1>1. \A d \in Device : /\ CarriesAddress(d, u)'
                        /\ AtRest(d, u)' <=> AtRest(d, u)
    BY SameCarries DEF LatestOK
<1> QED BY <1>1 DEF LatestOK, Copied

LEMMA BlocksOfTail ==
    ASSUME NEW q \in Seq(Block), q # <<>>, NEW i \in DOMAIN Tail(q)
    PROVE  \E j \in DOMAIN q : Tail(q)[i] = q[j]
<1>1. i \in 1..Len(q) - 1 /\ Len(q) \in Nat
    OBVIOUS
<1>2. i + 1 \in DOMAIN q /\ Tail(q)[i] = q[i + 1]
    BY <1>1
<1> QED BY <1>2

LEMMA BlocksOfAppend ==
    ASSUME NEW q \in Seq(Block), NEW b \in Block, NEW i \in DOMAIN Append(q, b)
    PROVE  Append(q, b)[i] = b \/ \E j \in DOMAIN q : Append(q, b)[i] = q[j]
<1>1. CASE i = Len(q) + 1
    BY <1>1
<1>2. CASE i # Len(q) + 1
    <2>1. i \in DOMAIN q /\ Append(q, b)[i] = q[i]
        BY <1>2
    <2> QED BY <2>1
<1> QED BY <1>1, <1>2

\* A block about something else leaves the main queue.
LEMMA TailKept ==
    ASSUME NEW d, NEW v, main[d] \in Seq(Block), main[d] # <<>>,
           main'[d] = Tail(main[d]),
           Head(main[d]).by \notin Ends \/ Head(main[d]).uid # v
    PROVE  SameCompletions(d, v)
<1> DEFINE q == main[d]
           a == account[v]
<1>1. /\ q \in Seq(Block) /\ q # <<>>
      /\ Head(q).by \notin Ends \/ Head(q).uid # v
      /\ main'[d] = Tail(q)
    OBVIOUS
<1>2. /\ Ending(Tail(q), v) = {} <=> Ending(q, v) = {}
      /\ EndsWith(q, v, a) => EndsWith(Tail(q), v, a)
    <2> HIDE DEF q, a
    <2> QED BY <1>1, EndingTail
<1> QED BY <1>1, <1>2 DEF SameCompletions

\* One that ends nothing comes or goes.
LEMMA KeptTail ==
    ASSUME NEW q \in Seq(Block), q # <<>>, Head(q).by \notin Ends, NEW u, NEW a
    PROVE  KeptEnding(q, Tail(q), u, a)
BY EndingTail DEF KeptEnding

LEMMA KeptAppend ==
    ASSUME NEW q \in Seq(Block), NEW b \in Block, b.by \notin Ends, NEW u, NEW a
    PROVE  KeptEnding(q, Append(q, b), u, a)
BY EndingAppend DEF KeptEnding

\* Sessions and listeners: the address and its changes go on as they were.
LEMMA SessionStep ==
    ASSUME IInv, TypeOK', UNCHANGED <<account, doc, writes, disturbed>>,
           \A d \in Device : /\ SameCall(d) /\ SameBlocks(d)
                             /\ user'[d] # None => account[user'[d].uid] # None
    PROVE  IInv'
<1>1. ASSUME NEW d \in Device, NEW u \in Uid
      PROVE  /\ SameAccepted(d, u) /\ SameCompletions(d, u) /\ SameWrites(d, u)
             /\ Quiet(d, u) => Quiet(d, u)'
    <2>1. SameAccepted(d, u)
        BY DEF SameCall, SameAccepted, Accepted
    <2>2. SameWrites(d, u)
        BY DEF SameWrites
    <2>3. SameCompletions(d, u)
        <3>1. main[d] \in Seq(Block)
            BY DEF IInv, TypeOK
        <3>2. PICK q \in {main[d], Tail(main[d])} :
                  /\ q # main[d] => main[d] # <<>> /\ Head(main[d]).by \notin Ends
                  /\ \/ main'[d] = q
                     \/ \E b \in Block : b.by \notin Ends /\ main'[d] = Append(q, b)
            BY DEF SameBlocks
        <3>3. q \in Seq(Block) /\ KeptEnding(main[d], q, u, account[u])
            <4>1. CASE q = main[d]
                BY <3>1, <4>1 DEF KeptEnding
            <4>2. CASE q # main[d]
                <5>1. /\ q = Tail(main[d]) /\ main[d] # <<>>
                      /\ Head(main[d]).by \notin Ends
                    BY <3>2, <4>2
                <5>2. KeptEnding(main[d], Tail(main[d]), u, account[u])
                    BY <3>1, <5>1, KeptTail, Zenon
                <5>3. Tail(main[d]) \in Seq(Block)
                    BY <3>1, <5>1
                <5> QED BY <5>1, <5>2, <5>3
            <4> QED BY <4>1, <4>2
        <3>4. KeptEnding(q, main'[d], u, account[u])
            <4>1. CASE main'[d] = q
                BY <4>1 DEF KeptEnding
            <4>2. ASSUME NEW b \in Block, b.by \notin Ends, main'[d] = Append(q, b)
                  PROVE  KeptEnding(q, main'[d], u, account[u])
                BY <3>3, <4>2, KeptAppend
            <4> QED BY <3>2, <4>1, <4>2
        <3> QED BY <3>3, <3>4 DEF KeptEnding, SameCompletions
    <2>4. Quiet(d, u) => Quiet(d, u)'
        BY <2>2, <2>3, QuietIs DEF SameCall, SameWrites, SameCompletions
    <2> QED BY <2>1, <2>2, <2>3, <2>4
<1>2. CallsOK'
    BY DEF CallsOK, CallOK, SameCall, IInv
<1>3. BlocksOK'
    <2> SUFFICES ASSUME NEW d \in Device, NEW i \in DOMAIN main'[d],
                        main'[d][i].by = "update"
                 PROVE  ~main'[d][i].text.spaced
        BY DEF BlocksOK
    <2>1. main[d] \in Seq(Block)
        BY DEF IInv, TypeOK
    <2>2. \E j \in DOMAIN main[d] : main'[d][i] = main[d][j]
        <3>1. PICK q \in {main[d], Tail(main[d])} :
                  /\ q # main[d] => main[d] # <<>> /\ Head(main[d]).by \notin Ends
                  /\ \/ main'[d] = q
                     \/ \E b \in Block : b.by \notin Ends /\ main'[d] = Append(q, b)
            BY DEF SameBlocks
        <3>2. q \in Seq(Block) /\ \A k \in DOMAIN q : \E j \in DOMAIN main[d] :
                                                          q[k] = main[d][j]
            <4>1. CASE q = main[d]
                BY <2>1, <4>1
            <4>2. CASE q = Tail(main[d]) /\ main[d] # <<>>
                BY <2>1, <4>2, BlocksOfTail
            <4> QED BY <3>1, <4>1, <4>2
        <3>3. \E k \in DOMAIN q : main'[d][i] = q[k]
            <4>1. CASE main'[d] = q
                BY <4>1
            <4>2. ASSUME NEW b \in Block, b.by \notin Ends, main'[d] = Append(q, b)
                  PROVE  \E k \in DOMAIN q : main'[d][i] = q[k]
                <5>1. main'[d][i] = b \/ \E k \in DOMAIN q : main'[d][i] = q[k]
                    BY <3>2, <4>2, BlocksOfAppend
                <5> QED BY <4>2, <5>1 DEF Ends
            <4> QED BY <3>1, <4>1, <4>2
        <3> QED BY <3>2, <3>3
    <2> QED BY <2>2 DEF IInv, BlocksOK
<1>4. AccountsOK'
    BY <1>1 DEF AccountsOK, IInv
<1>5. OwnersOK'
    BY DEF OwnersOK, IInv
<1>6. OneDevice'
    BY <1>1 DEF OneDevice, IInv
<1>7. LatestOK'
    BY <1>1, SameLatest DEF LatestOK, IInv
<1> QED BY <1>2, <1>3, <1>4, <1>5, <1>6, <1>7 DEF IInv

LEMMA ReplaceSame ==
    ASSUME TypeOK, NEW d \in Device, NEW session \in User \cup {None},
           NEW queue \in {main[d], Tail(main[d])}, Replace(d, session, queue),
           queue # main[d] => main[d] # <<>> /\ Head(main[d]).by \notin Ends,
           NEW e \in Device
    PROVE  /\ SameCall(e) /\ SameBlocks(e)
           /\ user'[e] = IF e = d THEN session ELSE user[e]
<1>1. user'[e] = IF e = d THEN session ELSE user[e]
    BY DEF Replace, TypeOK
<1>2. SameCall(e)
    <2>1. CASE call' = call
        <3>1. CASE e = d /\ call[d] # None
            <4>1. call' = [call EXCEPT ![d].object = "replaced"]
                BY <3>1 DEF Replace
            <4>2. call'[d] = [call[d] EXCEPT !.object = "replaced"]
                BY <4>1 DEF TypeOK
            <4>3. call[d] \in Call
                BY <3>1 DEF TypeOK
            <4>4. call'[d].object = "replaced"
                BY <4>2, <4>3 DEF Call
            <4> QED BY <2>1, <3>1, <4>4 DEF SameCall
        <3>2. CASE ~(e = d /\ call[d] # None)
            BY <1>1, <2>1, <3>2 DEF SameCall
        <3> QED BY <3>1, <3>2
    <2>2. CASE call[d] # None
        <3>1. call[d] \in Call
            BY <2>2 DEF TypeOK
        <3>2. call' = [call EXCEPT ![d].object = "replaced"]
            BY <2>2 DEF Replace
        <3>3. call'[e] = IF e = d THEN [call[d] EXCEPT !.object = "replaced"]
                         ELSE call[e]
            BY <3>2 DEF TypeOK
        <3>4. CASE e = d
            <4>1. [call[d] EXCEPT !.object = "replaced"] \in Call
                BY <3>1 DEF Call
            <4>2. call'[d] # None
                BY <3>3, <3>4, <4>1, EmailAssumption
            <4> QED BY <2>2, <3>1, <3>3, <3>4, <4>2 DEF SameCall, Call
        <3>5. CASE e # d
            BY <1>1, <3>3, <3>5 DEF SameCall
        <3> QED BY <3>4, <3>5
    <2> QED BY <2>1, <2>2 DEF Replace
<1>3. SameBlocks(e)
    <2>1. /\ main'[d] = Append(queue, UserChange(session))
          /\ e # d => main'[e] = main[e]
        BY DEF Replace, TypeOK
    <2> QED BY <2>1, ChangeIsBlock DEF SameBlocks
<1> QED BY <1>1, <1>2, <1>3

LEMMA SessionActions ==
    ASSUME IInv, NEW d \in Device,
           \/ LogoutPressed(d) \/ OpenSettings(d)
           \/ EmailSnapshot(d) \/ CredentialChange(d)
           \/ \E u \in Uid : SignIn(d, u) \/ EmitView(d, u) \/ Sync(d, u)
    PROVE  IInv'
<1> USE DEF IInv
<1>1. CASE LogoutPressed(d)
    <2>1. TypeOK'
        BY <1>1, SessionType
    <2>2. ASSUME NEW e \in Device
          PROVE  /\ SameCall(e) /\ SameBlocks(e)
                 /\ user'[e] # None => account[user'[e].uid] # None
        <3>1. /\ SameCall(e) /\ SameBlocks(e)
              /\ user'[e] = IF e = d THEN None ELSE user[e]
            BY <1>1, ReplaceSame DEF LogoutPressed
        <3> QED BY <3>1 DEF AccountsOK
    <2> QED BY <1>1, <2>1, <2>2, SessionStep DEF LogoutPressed
<1>2. CASE OpenSettings(d)
    <2>1. TypeOK'
        BY <1>2, SessionType
    <2>2. ASSUME NEW e \in Device
          PROVE  /\ SameCall(e) /\ SameBlocks(e)
                 /\ user'[e] # None => account[user'[e].uid] # None
        <3>1. /\ user[d] \in User /\ user[d].uid \in Uid
              /\ account[user[d].uid] \in Address
            BY <1>2, UserType DEF OpenSettings, AccountsOK, TypeOK
        <3>2. /\ user[e] # None => user'[e] # None
              /\ user'[e] # None => user[e] # None /\ user'[e].uid = user[e].uid
            <4>1. CASE user' = user
                BY <4>1
            <4>2. CASE user' = [user EXCEPT ![d].email = account[user[d].uid]]
                <5>1. user'[e] = IF e = d
                                 THEN [user[d] EXCEPT !.email = account[user[d].uid]]
                                 ELSE user[e]
                    BY <4>2 DEF TypeOK
                <5>2. /\ user[d] # None
                      /\ [user[d] EXCEPT !.email = account[user[d].uid]] \in User
                      /\ [user[d] EXCEPT !.email = account[user[d].uid]].uid
                           = user[d].uid
                    BY <1>2, <3>1 DEF OpenSettings, User
                <5>3. CASE e = d
                    <6>1. user'[d] \in User /\ user'[d].uid = user[d].uid
                        BY <5>1, <5>2, <5>3
                    <6>2. None \notin User
                        BY EmailAssumption
                    <6> QED BY <5>2, <5>3, <6>1, <6>2
                <5>4. CASE e # d
                    BY <5>1, <5>4
                <5> QED BY <5>3, <5>4
            <4> QED BY <1>2, <4>1, <4>2 DEF OpenSettings
        <3>3. SameCall(e) /\ SameBlocks(e)
            BY <1>2, <3>2 DEF OpenSettings, SameCall, SameBlocks
        <3> QED BY <3>2, <3>3 DEF AccountsOK
    <2> QED BY <1>2, <2>1, <2>2, SessionStep DEF OpenSettings
<1>3. ASSUME NEW u \in Uid, SignIn(d, u) PROVE IInv'
    <2>1. TypeOK'
        BY <1>3, SessionType
    <2>2. ASSUME NEW e \in Device
          PROVE  /\ SameCall(e) /\ SameBlocks(e)
                 /\ user'[e] # None => account[user'[e].uid] # None
        <3>1. [uid |-> u, email |-> account[u]] \in User
            BY <1>3 DEF SignIn, TypeOK, User
        <3>2. /\ SameCall(e) /\ SameBlocks(e)
              /\ user'[e] = IF e = d THEN [uid |-> u, email |-> account[u]]
                            ELSE user[e]
            BY <1>3, <3>1, ReplaceSame DEF SignIn
        <3> QED BY <1>3, <3>2 DEF SignIn, AccountsOK
    <2> QED BY <1>3, <2>1, <2>2, SessionStep DEF SignIn
<1>4. CASE EmailSnapshot(d)
    <2>1. TypeOK'
        BY <1>4, BlockType DEF RunMain
    <2>2. ASSUME NEW e \in Device
          PROVE  /\ SameCall(e) /\ SameBlocks(e)
                 /\ user'[e] # None => account[user'[e].uid] # None
        <3>1. main[d] # <<>> /\ Head(main[d]).by \notin Ends
            BY <1>4 DEF EmailSnapshot, Runs, Ends
        <3>2. CASE /\ main' = [main EXCEPT ![d] = Tail(@)]
                   /\ UNCHANGED <<user, call>>
            <4>1. SameBlocks(e)
                BY <3>1, <3>2 DEF SameBlocks, TypeOK
            <4> QED BY <3>2, <4>1 DEF SameCall, AccountsOK
        <3>3. CASE Replace(d, None, Tail(main[d]))
            <4>1. /\ SameCall(e) /\ SameBlocks(e)
                  /\ user'[e] = IF e = d THEN None ELSE user[e]
                BY <3>1, <3>3, ReplaceSame
            <4> QED BY <4>1 DEF AccountsOK
        <3> QED BY <1>4, <3>2, <3>3 DEF EmailSnapshot
    <2> QED BY <1>4, <2>1, <2>2, SessionStep DEF EmailSnapshot
<1>5. ASSUME NEW u \in Uid, EmitView(d, u) \/ Sync(d, u) PROVE IInv'
    <2>1. TypeOK'
        BY <1>5, ListenType
    <2>2. PICK t \in Text \cup {None} : Emit(d, u, t)
        <3>1. known[d][u] \in Text \cup {None} /\ doc[u] \in Text \cup {None}
            BY DEF TypeOK
        <3>2. /\ View(d, u, known[d][u]) \in Text \cup {None}
              /\ View(d, u, doc[u]) \in Text \cup {None}
            BY <3>1, ViewType
        <3> QED BY <1>5, <3>2 DEF EmitView, Sync
    <2>3. ASSUME NEW e \in Device
          PROVE  /\ SameCall(e) /\ SameBlocks(e)
                 /\ user'[e] # None => account[user'[e].uid] # None
        <3> DEFINE b == [by |-> "snapshot", uid |-> u, text |-> t]
        <3>1. b \in Block /\ b.by \notin Ends
            BY <2>2, EmitType DEF Ends
        <3>2. main' = [main EXCEPT ![d] = Append(main[d], b)]
            BY <2>2 DEF Emit
        <3> HIDE DEF b
        <3>3. SameBlocks(e)
            BY <3>1, <3>2 DEF SameBlocks, TypeOK
        <3> QED BY <1>5, <3>3 DEF EmitView, Sync, SameCall, AccountsOK
    <2> QED BY <1>5, <2>1, <2>3, SessionStep DEF EmitView, Sync
<1>6. CASE CredentialChange(d)
    <2>1. TypeOK'
        BY <1>6, BlockType DEF RunMain
    <2>2. main[d] # <<>> /\ Head(main[d]).by \notin Ends
        BY <1>6 DEF CredentialChange, Runs, Ends
    <2>3. ASSUME NEW e \in Device
          PROVE  /\ SameCall(e) /\ SameBlocks(e)
                 /\ user'[e] # None => account[user'[e].uid] # None
        <3>1. SameBlocks(e)
            BY <1>6, <2>2 DEF CredentialChange, SameBlocks, TypeOK
        <3> QED BY <1>6, <3>1 DEF CredentialChange, SameCall, AccountsOK
    <2> QED BY <1>6, <2>1, <2>3, SessionStep DEF CredentialChange
<1> QED BY <1>1, <1>2, <1>3, <1>4, <1>5, <1>6

LEMMA CrashStep == ASSUME IInv, NEW d \in Device, Crash(d) PROVE IInv'
<1> USE DEF IInv
<1>1. TypeOK'
    BY CrashType
<1>2. /\ call' = [call EXCEPT ![d] = None]
      /\ \/ main' = [main EXCEPT ![d] = <<>>]
         \/ main' = [main EXCEPT ![d] = <<UserChange(user[d])>>]
      /\ UNCHANGED <<account, doc, user, writes>> /\ disturbed \subseteq disturbed'
    BY DEF Crash
<1>3. /\ call'[d] = None /\ writes'[d] = writes[d]
      /\ main'[d] = <<>> \/ main'[d] = <<UserChange(user[d])>>
      /\ \A e \in Device \ {d} : /\ call'[e] = call[e] /\ main'[e] = main[e]
                                 /\ writes'[e] = writes[e]
    BY <1>2 DEF TypeOK
<1>4. \A i \in DOMAIN main'[d] : main'[d][i].by \notin Ends
    <2>1. UserChange(user[d]).by \notin Ends
        BY ChangeIsBlock DEF TypeOK
    <2> QED BY <1>3, <2>1
<1>5. \A u : Ending(main'[d], u) = {}
    BY <1>4 DEF Ending
<1>6. ASSUME NEW u \in Uid, NEW e \in Device PROVE Quiet(e, u) => Quiet(e, u)'
    BY <1>3, <1>5, SameDevice, QuietIs
<1>7. ASSUME NEW u \in Uid \ disturbed', NEW e \in Device
      PROVE  SameAccepted(e, u) /\ SameCompletions(e, u) /\ SameWrites(e, u)
    <2>1. CASE e # d
        BY <1>3, <2>1, SameDevice
    <2>2. CASE e = d
        <3>1. ~Accepted(d, u)
            BY <1>7 DEF Crash, Accepted
        <3>2. Ending(main[d], u) = {}
            BY <1>7 DEF Crash, Ending, Completions
        <3> QED BY <1>3, <1>5, <2>2, <3>1, <3>2 DEF SameAccepted, SameCompletions,
                SameWrites, Accepted, EndsWith
    <2> QED BY <2>1, <2>2
<1>8. CallsOK'
    BY <1>2, <1>3 DEF CallsOK, CallOK
<1>9. BlocksOK'
    BY <1>3, <1>4 DEF BlocksOK, Ends
<1>10. AccountsOK'
    BY <1>2, <1>6 DEF AccountsOK
<1>11. OwnersOK'
    BY <1>2 DEF OwnersOK
<1>12. OneDevice'
    BY <1>2, <1>6 DEF OneDevice
<1>13. LatestOK'
    BY <1>2, <1>7, SameLatest DEF LatestOK
<1> QED BY <1>1, <1>8, <1>9, <1>10, <1>11, <1>12, <1>13

LEMMA SubmitStep ==
    ASSUME IInv, NEW d \in Device,
           \E t \in Typed : SignUpPressed(d, t) \/ UpdateEmailPressed(d, t)
    PROVE  IInv'
<1> USE DEF IInv
<1>1. TypeOK'
    BY CallType
<1>2. PICK c : /\ call[d] = None /\ call' = [call EXCEPT ![d] = c]
               /\ UNCHANGED <<account, doc, user, main, writes>>
               /\ disturbed \subseteq disturbed' /\ c.stage = "sent" /\ CallOK(d)'
               /\ \/ c.uid = None /\ disturbed' = disturbed
                  \/ /\ c.uid \in Uid /\ account[c.uid] # None
                     /\ \/ c.uid \in disturbed'
                        \/ \A e \in Device \ {d} : Quiet(e, c.uid)
    <2>1. ASSUME NEW t \in Typed, SignUpPressed(d, t)
          PROVE  \E c : /\ call[d] = None /\ call' = [call EXCEPT ![d] = c]
                        /\ UNCHANGED <<account, doc, user, main, writes>>
                        /\ c.stage = "sent" /\ CallOK(d)'
                        /\ c.uid = None /\ disturbed' = disturbed
        <3> DEFINE c == [by |-> "signUp", uid |-> None, text |-> t,
                         object |-> "current", stage |-> "sent"]
        <3>1. /\ call[d] = None /\ call' = [call EXCEPT ![d] = c]
              /\ UNCHANGED <<account, doc, user, main, writes, disturbed>>
            BY <2>1 DEF SignUpPressed, Submit
        <3>2. call'[d] = c
            BY <3>1 DEF TypeOK
        <3>3. CallOK(d)'
            BY <3>2 DEF CallOK
        <3>4. c.stage = "sent" /\ c.uid = None
            OBVIOUS
        <3> HIDE DEF c
        <3> QED BY <3>1, <3>3, <3>4
    <2>2. ASSUME NEW t \in Typed, UpdateEmailPressed(d, t)
          PROVE  \E c : /\ call[d] = None /\ call' = [call EXCEPT ![d] = c]
                        /\ UNCHANGED <<account, doc, user, main, writes>>
                        /\ disturbed \subseteq disturbed'
                        /\ c.stage = "sent" /\ CallOK(d)'
                        /\ c.uid \in Uid /\ account[c.uid] # None
                        /\ \/ c.uid \in disturbed'
                           \/ \A e \in Device \ {d} : Quiet(e, c.uid)
        <3>1. PICK object \in {"current", "replaced"} :
                  Submit(d, [by |-> "update", uid |-> user[d].uid, text |-> t,
                             object |-> object, stage |-> "sent"])
            BY <2>2 DEF UpdateEmailPressed
        <3> DEFINE c == [by |-> "update", uid |-> user[d].uid, text |-> t,
                         object |-> object, stage |-> "sent"]
        <3>2. /\ call[d] = None /\ call' = [call EXCEPT ![d] = c]
              /\ UNCHANGED <<account, doc, user, main, writes>>
            BY <3>1 DEF Submit
        <3>3. /\ user[d] # None /\ user[d].uid \in Uid
              /\ account[user[d].uid] # None /\ user[d].uid # None
            BY <2>2, UserType, EmailAssumption DEF UpdateEmailPressed, AccountsOK
        <3>4. call'[d] = c
            BY <3>2 DEF TypeOK
        <3>5. CallOK(d)'
            BY <3>2, <3>3, <3>4 DEF CallOK
        <3>6. c.stage = "sent" /\ c.uid = user[d].uid
            OBVIOUS
        <3> HIDE DEF c
        <3>7. /\ disturbed \subseteq disturbed'
              /\ \/ c.uid \in disturbed'
                 \/ \A e \in Device \ {d} : Quiet(e, c.uid)
            BY <2>2, <3>6 DEF UpdateEmailPressed
        <3> QED BY <3>2, <3>3, <3>5, <3>6, <3>7
    <2> QED BY <2>1, <2>2
<1>3. /\ call'[d] = c
      /\ \A e \in Device \ {d} : /\ call'[e] = call[e] /\ main'[e] = main[e]
                                 /\ writes'[e] = writes[e]
    BY <1>2 DEF TypeOK
<1>4. ASSUME NEW u \in Uid, NEW e \in Device
      PROVE  /\ SameAccepted(e, u) /\ SameCompletions(e, u) /\ SameWrites(e, u)
             /\ Quiet(e, u) /\ (e = d => c.uid # u) => Quiet(e, u)'
    <2>1. CASE e # d
        BY <1>3, <2>1, SameDevice
    <2>2. CASE e = d
        <3>1. SameAccepted(d, u)
            BY <1>2, <1>3 DEF SameAccepted, Accepted
        <3> QED BY <1>2, <1>3, <2>2, <3>1, QuietIs
                DEF SameCompletions, SameWrites
    <2> QED BY <2>1, <2>2
<1>5. CallsOK'
    BY <1>2, <1>3 DEF CallsOK, CallOK
<1>6. BlocksOK'
    BY <1>2 DEF BlocksOK
<1>7. AccountsOK'
    BY <1>2, <1>4, EmailAssumption DEF AccountsOK
<1>8. OwnersOK'
    BY <1>2 DEF OwnersOK
<1>9. OneDevice'
    <2> SUFFICES ASSUME NEW u \in Uid \ disturbed', NEW e \in Device,
                        NEW f \in Device, e # f
                 PROVE  Quiet(e, u)' \/ Quiet(f, u)'
        BY DEF OneDevice
    <2>1. Quiet(e, u) \/ Quiet(f, u)
        BY <1>2 DEF OneDevice
    <2>2. c.uid = u => (e # d => Quiet(e, u)) /\ (f # d => Quiet(f, u))
        BY <1>2, EmailAssumption
    <2> QED BY <1>4, <2>1, <2>2
<1>10. LatestOK'
    BY <1>2, <1>4, SameLatest DEF LatestOK
<1> QED BY <1>1, <1>5, <1>6, <1>7, <1>8, <1>9, <1>10

LEMMA FailStep == ASSUME IInv, NEW d \in Device, Fail(d) PROVE IInv'
<1> USE DEF IInv
<1>1. TypeOK'
    BY CallType
<1>2. /\ call[d] # None /\ call' = [call EXCEPT ![d] = None]
      /\ UNCHANGED <<account, doc, main, writes>> /\ disturbed \subseteq disturbed'
      /\ call[d].stage # "sent" => call[d].uid \in disturbed'
    BY DEF Fail
<1>3. /\ call'[d] = None
      /\ \A e \in Device \ {d} : call'[e] = call[e]
      /\ \A e \in Device : main'[e] = main[e] /\ writes'[e] = writes[e]
    BY <1>2 DEF TypeOK
<1>4. ASSUME NEW e \in Device
      PROVE  /\ user[e] = None <=> user'[e] = None
             /\ user[e] # None => user'[e].uid = user[e].uid
    <2>1. CASE UNCHANGED user
        BY <2>1
    <2>2. CASE /\ call[d].by = "update" /\ call[d].object = "current"
               /\ user' = [user EXCEPT ![d].email = call[d].text.addr]
        <3>1. user'[e] = IF e = d THEN [user[d] EXCEPT !.email = call[d].text.addr]
                         ELSE user[e]
            BY <2>2 DEF TypeOK
        <3>2. user[d] \in User
            BY <1>2, <2>2 DEF CallsOK, CallOK, TypeOK
        <3>3. user'[e] \in User \cup {None}
            BY <1>1 DEF TypeOK
        <3>4. e = d => user'[e].uid = user[d].uid /\ DOMAIN user'[e] = DOMAIN user[d]
            BY <3>1, <3>2 DEF User
        <3>5. CASE e = d
            <4>1. call[d].text.addr \in Address
                BY <1>2 DEF TypeOK, Call, Text
            <4>2. user'[e] \in User
                BY <3>1, <3>2, <3>5, <4>1 DEF User
            <4> QED BY <3>2, <3>4, <3>5, <4>2, EmailAssumption
        <3>6. CASE e # d
            BY <3>1, <3>6
        <3> QED BY <3>5, <3>6
    <2> QED BY <2>1, <2>2 DEF Fail
<1>5. ASSUME NEW u \in Uid, NEW e \in Device
      PROVE  /\ SameCompletions(e, u) /\ SameWrites(e, u)
             /\ Quiet(e, u) => Quiet(e, u)'
             /\ u \notin disturbed' => SameAccepted(e, u)
    <2>1. CASE e # d
        BY <1>3, <2>1, SameDevice
    <2>2. CASE e = d
        BY <1>2, <1>3, <2>2, QuietIs
           DEF SameCompletions, SameWrites, SameAccepted, Accepted
    <2> QED BY <2>1, <2>2
<1>6. CallsOK'
    BY <1>3, <1>4 DEF CallsOK, CallOK
<1>7. BlocksOK'
    BY <1>2 DEF BlocksOK
<1>8. AccountsOK'
    BY <1>2, <1>4, <1>5 DEF AccountsOK
<1>9. OwnersOK'
    BY <1>2 DEF OwnersOK
<1>10. OneDevice'
    BY <1>2, <1>5 DEF OneDevice
<1>11. LatestOK'
    BY <1>2, <1>5, SameLatest DEF LatestOK
<1> QED BY <1>1, <1>6, <1>7, <1>8, <1>9, <1>10, <1>11

LEMMA AcceptStep == ASSUME IInv, NEW d \in Device, Accept(d) PROVE IInv'
<1> USE DEF IInv
<1>1. TypeOK'
    BY CallType
<1>2. call[d] # None /\ call[d] \in Call /\ call[d].stage = "sent"
    BY DEF Accept, TypeOK
<1>3. PICK u \in Uid :
          /\ \/ call[d].by = "signUp" /\ account[u] = None
             \/ call[d].by = "update" /\ call[d].uid = u /\ ~call[d].text.spaced
          /\ account' = [account EXCEPT ![u] = call[d].text.addr]
          /\ call' = [call EXCEPT ![d].stage = "accepted", ![d].uid = u]
    BY DEF Accept
<1>4. UNCHANGED <<doc, user, main, writes, disturbed>>
    BY DEF Accept
<1>5. /\ call'[d] = [call[d] EXCEPT !.stage = "accepted", !.uid = u]
      /\ \A e \in Device \ {d} : call'[e] = call[e]
      /\ \A e \in Device : main'[e] = main[e] /\ writes'[e] = writes[e]
    BY <1>3, <1>4 DEF TypeOK
<1>6. /\ call'[d].stage = "accepted" /\ call'[d].uid = u
      /\ call'[d].by = call[d].by /\ call'[d].text = call[d].text
      /\ call'[d].object = call[d].object /\ call'[d] # None
    <2>1. [call[d] EXCEPT !.stage = "accepted", !.uid = u] \in Call
        BY <1>2 DEF Call
    <2> QED BY <1>2, <1>5, <2>1, EmailAssumption DEF Call
<1>7. /\ account'[u] = call[d].text.addr /\ account'[u] # None
      /\ \A v \in Uid \ {u} : account'[v] = account[v]
    <2>1. call[d].text.addr \in Address
        BY <1>2 DEF Call, Text
    <2> QED BY <1>3, <2>1, EmailAssumption DEF TypeOK
<1>8. \A v \in Uid \ {u} : call[d].uid # v
    BY <1>2, <1>3, EmailAssumption DEF CallsOK, CallOK
<1>9. ASSUME NEW v \in Uid, NEW e \in Device, e # d \/ v # u
      PROVE  /\ SameAccepted(e, v) /\ SameCompletions(e, v) /\ SameWrites(e, v)
             /\ Quiet(e, v) => Quiet(e, v)'
    <2>1. CASE e # d
        BY <1>5, <2>1, SameDevice
    <2>2. CASE e = d
        BY <1>2, <1>5, <1>6, <1>8, <1>9, <2>2, QuietIs
           DEF SameCompletions, SameWrites, SameAccepted, Accepted
    <2> QED BY <2>1, <2>2
\* An account that is created has nothing under way; one that changes has this
\* call, so that an undisturbed one has nothing on the other devices.
<1>10. ASSUME u \notin disturbed, NEW e \in Device \ {d} PROVE Quiet(e, u)
    <2>1. CASE call[d].by = "signUp"
        BY <1>3, <2>1 DEF AccountsOK
    <2>2. CASE call[d].by = "update"
        <3>1. ~Quiet(d, u)
            BY <1>2, <1>3, <2>2, QuietIs
        <3> QED BY <1>10, <3>1 DEF OneDevice
    <2> QED BY <1>3, <2>1, <2>2
<1>11. CallsOK'
    <2>1. ASSUME NEW e \in Device, e # d, call'[e] # None PROVE CallOK(e)'
        BY <1>4, <1>5, <2>1 DEF CallsOK, CallOK
    <2>2. CallOK(d)'
        BY <1>2, <1>3, <1>4, <1>6 DEF CallsOK, CallOK
    <2> QED BY <2>1, <2>2 DEF CallsOK
<1>12. BlocksOK'
    BY <1>4 DEF BlocksOK
<1>13. AccountsOK'
    <2>1. ASSUME NEW e \in Device, user[e] # None PROVE account'[user[e].uid] # None
        BY <1>7, <2>1, UserType DEF AccountsOK
    <2>2. ASSUME NEW e \in Device, NEW v \in Uid, account'[v] = None
          PROVE  Quiet(e, v)'
        BY <1>7, <1>9, <2>2 DEF AccountsOK
    <2> QED BY <1>4, <2>1, <2>2 DEF AccountsOK
<1>14. OwnersOK'
    BY <1>4 DEF OwnersOK
<1>15. OneDevice'
    <2> SUFFICES ASSUME NEW v \in Uid \ disturbed, NEW e \in Device,
                        NEW f \in Device, e # f
                 PROVE  Quiet(e, v)' \/ Quiet(f, v)'
        BY <1>4 DEF OneDevice
    <2>1. CASE v = u
        BY <1>9, <1>10, <2>1
    <2>2. CASE v # u
        BY <1>9, <2>2 DEF OneDevice
    <2> QED BY <2>1, <2>2
<1>16. ASSUME NEW v \in Uid \ disturbed
       PROVE  /\ \A e \in Device : CarriesAddress(e, v)'
              /\ (\A e \in Device : AtRest(e, v)') => Copied(v)'
    <2>1. CASE v # u
        BY <1>4, <1>7, <1>9, <2>1, SameLatest
    <2>2. CASE v = u
        <3>1. Accepted(d, u)' /\ CarriesAddress(d, u)'
            BY <1>6, <1>7 DEF Accepted, CarriesAddress
        <3>2. ASSUME NEW e \in Device, e # d PROVE CarriesAddress(e, u)'
            <4>1. Quiet(e, u)'
                BY <1>9, <1>10, <2>2, <3>2
            <4> QED BY <4>1, QuietIs
                    DEF CarriesAddress, Accepted, Ending, Written, WritesLast, IsLast
        <3>3. ~AtRest(d, u)'
            BY <3>1 DEF AtRest
        <3> QED BY <2>2, <3>1, <3>2, <3>3
    <2> QED BY <2>1, <2>2
<1>17. LatestOK'
    BY <1>4, <1>16 DEF LatestOK
<1> QED BY <1>1, <1>11, <1>12, <1>13, <1>14, <1>15, <1>17

\* An account about which something is under way.
LEMMA BusyFacts ==
    ASSUME IInv, NEW d \in Device, NEW u \in Uid, ~Quiet(d, u)
    PROVE  /\ account[u] \in Address /\ account[u] # None
           /\ u \notin disturbed => \A e \in Device \ {d} : Quiet(e, u)
BY DEF IInv, TypeOK, AccountsOK, OneDevice

LEMMA AnswerStep == ASSUME IInv, NEW d \in Device, Answer(d) PROVE IInv'
<1> USE DEF IInv
<1> DEFINE b == AnswerOf(d)
           q == AnswerQueue(d)
<1>0. PICK u : u = call[d].uid
    OBVIOUS
<1>1. TypeOK'
    BY CallType
<1>2. call[d] # None /\ call[d].stage = "accepted"
    BY DEF Answer
<1>3. /\ b \in Block /\ u \in Uid /\ b.by \in Ends /\ b.uid = u
      /\ b.by = "update" => ~b.text.spaced
      /\ b.text.addr = call[d].text.addr
    BY <1>0, <1>2, AnswerFacts DEF AnswerOf
<1>4. /\ call' = [call EXCEPT ![d] = None]
      /\ main' = [main EXCEPT ![d] = Append(q, b)]
      /\ user' = user \/ user' = [user EXCEPT ![d] =
                                    [uid |-> u, email |-> call[d].text.addr]]
      /\ UNCHANGED <<account, doc, writes, disturbed>>
    BY <1>0 DEF Answer, AnswerOf, AnswerQueue
<1>5. ~Quiet(d, u)
    BY <1>0, <1>2, QuietIs
<1>6. account[u] # None /\ (u \notin disturbed => \A e \in Device \ {d} : Quiet(e, u))
    BY <1>3, <1>5, BusyFacts
<1>7. Accepted(d, u) /\ \A v \in Uid : Accepted(d, v) => v = u
    BY <1>0, <1>2 DEF Accepted
<1>8. u \notin disturbed => b.text.addr = account[u]
    BY <1>3, <1>7 DEF LatestOK, CarriesAddress
<1>9. q = main[d] \/ \E c \in Block : c.by \notin Ends /\ q = Append(main[d], c)
    BY <1>2, AnswerQueueFacts
<1>10. q \in Seq(Block)
    BY <1>2, AnswerQueueFacts
<1> HIDE DEF b, q
<1>11. /\ call'[d] = None /\ main'[d] = Append(q, b) /\ main[d] \in Seq(Block)
       /\ \A e \in Device \ {d} : call'[e] = call[e] /\ main'[e] = main[e]
       /\ writes' = writes
    BY <1>4 DEF TypeOK
<1>12. ASSUME NEW v \in Uid, NEW a PROVE KeptEnding(main[d], q, v, a)
    <2>1. CASE q = main[d]
        BY <2>1 DEF KeptEnding
    <2>2. ASSUME NEW c \in Block, c.by \notin Ends, q = Append(main[d], c)
          PROVE  KeptEnding(main[d], q, v, a)
        BY <1>11, <2>2, KeptAppend
    <2> QED BY <1>9, <2>1, <2>2
<1>13. ASSUME NEW v \in Uid, NEW e \in Device, e # d \/ v # u
       PROVE  /\ SameAccepted(e, v) /\ SameCompletions(e, v) /\ SameWrites(e, v)
              /\ Quiet(e, v) => Quiet(e, v)'
    <2>1. CASE e # d
        BY <1>11, <2>1, SameDevice
    <2>2. CASE e = d
        <3>1. /\ Ending(main'[d], v) = {} <=> Ending(main[d], v) = {}
              /\ EndsWith(main[d], v, account[v]) => EndsWith(main'[d], v, account[v])
            <4>1. /\ Ending(Append(q, b), v) = Ending(q, v)
                  /\ EndsWith(q, v, account[v]) => EndsWith(Append(q, b), v, account[v])
                BY <1>10, <1>3, <1>13, <2>2, EndingAppend
            <4>2. KeptEnding(main[d], q, v, account[v])
                BY <1>12
            <4>3. main'[d] = Append(q, b)
                BY <1>11
            <4> QED BY <4>1, <4>2, <4>3 DEF KeptEnding
        <3>2. SameAccepted(d, v)
            BY <1>7, <1>11, <1>13, <2>2 DEF SameAccepted, Accepted
        <3>3. SameCompletions(d, v)
            BY <3>1 DEF SameCompletions
        <3>4. SameWrites(d, v)
            BY <1>11 DEF SameWrites
        <3>5. Quiet(d, v) => Quiet(d, v)'
            <4>1. call'[d] = None /\ writes'[d] = writes[d]
                BY <1>11
            <4> QED BY <3>1, <4>1, QuietIs
        <3> QED BY <2>2, <3>2, <3>3, <3>4, <3>5
    <2> QED BY <2>1, <2>2
<1>14. CallsOK'
    <2>1. ASSUME NEW e \in Device, call'[e] # None PROVE CallOK(e)'
        <3>1. e # d /\ call'[e] = call[e] /\ user'[e] = user[e]
            BY <1>4, <1>11, <2>1 DEF TypeOK
        <3> QED BY <2>1, <3>1 DEF CallsOK, CallOK
    <2> QED BY <2>1 DEF CallsOK
<1>15. BlocksOK'
    <2> SUFFICES ASSUME NEW e \in Device, NEW i \in DOMAIN main'[e],
                        main'[e][i].by = "update"
                 PROVE  ~main'[e][i].text.spaced
        BY DEF BlocksOK
    <2>1. CASE e # d
        BY <1>11, <2>1 DEF BlocksOK
    <2>2. CASE e = d
        <3>1. main'[d][i] = b \/ \E j \in DOMAIN q : main'[d][i] = q[j]
            BY <1>10, <1>3, <1>11, <2>2, BlocksOfAppend
        <3>2. ASSUME NEW j \in DOMAIN q, q[j].by = "update" PROVE ~q[j].text.spaced
            <4>1. CASE q = main[d]
                BY <3>2, <4>1 DEF BlocksOK
            <4>2. ASSUME NEW c \in Block, c.by \notin Ends, q = Append(main[d], c)
                  PROVE  ~q[j].text.spaced
                <5>1. q[j] = c \/ \E k \in DOMAIN main[d] : q[j] = main[d][k]
                    BY <1>11, <4>2, BlocksOfAppend
                <5> QED BY <3>2, <4>2, <5>1 DEF BlocksOK, Ends
            <4> QED BY <1>9, <4>1, <4>2
        <3> QED BY <1>3, <2>2, <3>1, <3>2
    <2> QED BY <2>1, <2>2
<1>16. AccountsOK'
    <2>1. ASSUME NEW e \in Device, user'[e] # None PROVE account[user'[e].uid] # None
        <3>1. user'[e] = user[e] \/ user'[e].uid = u
            BY <1>4 DEF TypeOK
        <3> QED BY <1>6, <2>1, <3>1 DEF AccountsOK
    <2>2. ASSUME NEW e \in Device, NEW v \in Uid, account[v] = None
          PROVE  Quiet(e, v)'
        BY <1>6, <1>13, <2>2 DEF AccountsOK
    <2> QED BY <1>4, <2>1, <2>2 DEF AccountsOK
<1>17. OwnersOK'
    BY <1>4 DEF OwnersOK
<1>18. OneDevice'
    <2> SUFFICES ASSUME NEW v \in Uid \ disturbed, NEW e \in Device,
                        NEW f \in Device, e # f
                 PROVE  Quiet(e, v)' \/ Quiet(f, v)'
        BY <1>4 DEF OneDevice
    <2>1. CASE v = u
        BY <1>6, <1>13, <2>1
    <2>2. CASE v # u
        BY <1>13, <2>2 DEF OneDevice
    <2> QED BY <2>1, <2>2
<1>19. ASSUME NEW v \in Uid \ disturbed
       PROVE  /\ \A e \in Device : CarriesAddress(e, v)'
              /\ (\A e \in Device : AtRest(e, v)') => Copied(v)'
    <2>1. CASE v # u
        BY <1>4, <1>13, <2>1, SameLatest
    <2>2. CASE v = u
        <3>1. Ending(main'[d], u) # {} /\ EndsWith(main'[d], u, account[u])
            <4>1. /\ Ending(Append(q, b), u) # {}
                  /\ EndsWith(Append(q, b), u, account[u])
                BY <1>10, <1>3, <1>8, <2>2, EndingAppend
            <4> QED BY <1>11, <4>1
        <3>2. ~AtRest(d, u)'
            BY <3>1 DEF AtRest
        <3>3. CarriesAddress(d, u)'
            BY <1>4, <1>11, <3>1 DEF CarriesAddress, Accepted, EndsWith, Ending
        <3>4. ASSUME NEW e \in Device, e # d PROVE CarriesAddress(e, u)'
            BY <1>4, <1>13, <2>2, <3>4, SameCarries DEF LatestOK
        <3> QED BY <2>2, <3>2, <3>3, <3>4
    <2> QED BY <2>1, <2>2
<1>20. LatestOK'
    BY <1>4, <1>19 DEF LatestOK
<1> QED BY <1>1, <1>14, <1>15, <1>16, <1>17, <1>18, <1>20

\* A completion writes t to the document of w.  It is the address that Auth
\* has, in the queue of the account, or both accounts are disturbed.
LEMMA CompletionStep ==
    ASSUME IInv, TypeOK', NEW d \in Device, main[d] # <<>>,
           Head(main[d]).by \in Ends, NEW w \in Uid, account[w] # None,
           NEW t \in Text, NEW op \in {"set", "update"}, WriteEmail(d, w, t, op),
           disturbed \subseteq disturbed',
           \/ /\ w = Head(main[d]).uid /\ client[d] = w
              /\ t = Plain(Head(main[d]).text.addr)
           \/ {w, Head(main[d]).uid} \subseteq disturbed'
    PROVE  IInv'
<1> USE DEF IInv
<1> DEFINE b == Head(main[d])
           r == [owner |-> client[d], uid |-> w, text |-> t, op |-> op]
<1>1. b \in Block /\ r \in Write /\ r.uid = w /\ r.text = t /\ r.owner = client[d]
    BY TailType, WriteEmailType
<1>2. /\ main' = [main EXCEPT ![d] = Tail(main[d])]
      /\ writes' = [writes EXCEPT ![d] = Append(writes[d], r)]
      /\ UNCHANGED <<account, doc, user, call>>
    BY DEF WriteEmail
<1>3. b.by \in Ends
    OBVIOUS
<1>4. b.uid \in Uid
    BY <1>1, <1>3 DEF Block, Ends
<1>5. \/ w = b.uid /\ client[d] = w /\ t = Plain(b.text.addr)
      \/ w \in disturbed' /\ b.uid \in disturbed'
    OBVIOUS
<1>6. b = Head(main[d])
    OBVIOUS
<1> HIDE DEF b, r
<1>7. /\ main[d] \in Seq(Block) /\ main'[d] = Tail(main[d])
      /\ writes[d] \in Seq(Write) /\ writes'[d] = Append(writes[d], r)
      /\ call' = call
      /\ \A e \in Device \ {d} : main'[e] = main[e] /\ writes'[e] = writes[e]
    BY <1>2 DEF TypeOK
<1>8. ~Quiet(d, b.uid) /\ Ending(main[d], b.uid) # {}
    <2>1. 1 \in DOMAIN main[d] /\ main[d][1] = b
        BY <1>6, <1>7
    <2>2. 1 \in Ending(main[d], b.uid)
        BY <1>3, <2>1 DEF Ending
    <2> QED BY <2>2, QuietIs
<1>9. account[b.uid] # None
    BY <1>4, <1>8, BusyFacts
<1>10. ASSUME NEW v \in Uid, NEW e \in Device, e # d \/ (v # w /\ v # b.uid)
       PROVE  /\ SameAccepted(e, v) /\ SameCompletions(e, v) /\ SameWrites(e, v)
              /\ Quiet(e, v) => Quiet(e, v)'
    <2>1. CASE e # d
        BY <1>7, <2>1, SameDevice
    <2>2. CASE e = d
        <3>1. SameCompletions(d, v)
            BY <1>6, <1>7, <1>10, <2>2, TailKept
        <3>2. SameWrites(d, v)
            BY <1>1, <1>7, <1>10, <2>2, WrittenAppend DEF SameWrites
        <3>3. SameAccepted(d, v)
            BY <1>7 DEF SameAccepted, Accepted
        <3> QED BY <1>7, <2>2, <3>1, <3>2, <3>3, QuietIs
                DEF SameCompletions, SameWrites
    <2> QED BY <2>1, <2>2
<1>11. CallsOK'
    BY <1>2 DEF CallsOK, CallOK
<1>12. BlocksOK'
    <2> SUFFICES ASSUME NEW e \in Device, NEW i \in DOMAIN main'[e],
                        main'[e][i].by = "update"
                 PROVE  ~main'[e][i].text.spaced
        BY DEF BlocksOK
    <2>1. CASE e # d
        BY <1>7, <2>1 DEF BlocksOK
    <2>2. CASE e = d
        <3>1. \E j \in DOMAIN main[d] : main'[d][i] = main[d][j]
            <4>1. i \in DOMAIN Tail(main[d]) /\ main'[d][i] = Tail(main[d])[i]
                BY <1>7, <2>2
            <4>2. \E j \in DOMAIN main[d] : Tail(main[d])[i] = main[d][j]
                BY <1>7, <4>1, BlocksOfTail
            <4> QED BY <4>1, <4>2
        <3> QED BY <2>2, <3>1 DEF BlocksOK
    <2> QED BY <2>1, <2>2
<1>13. AccountsOK'
    <2>1. ASSUME NEW e \in Device, NEW v \in Uid, account[v] = None
          PROVE  Quiet(e, v)'
        BY <1>9, <1>10, <2>1 DEF AccountsOK
    <2> QED BY <1>2, <2>1 DEF AccountsOK
<1>14. OwnersOK'
    <2> SUFFICES ASSUME NEW e \in Device, NEW i \in DOMAIN writes'[e]
                 PROVE  \/ writes'[e][i].uid \in disturbed'
                        \/ writes'[e][i].owner = writes'[e][i].uid
        BY DEF OwnersOK
    <2>1. CASE e # d
        BY <1>7, <2>1 DEF OwnersOK
    <2>2. CASE e = d
        <3>1. \/ i \in DOMAIN writes[d] /\ writes'[d][i] = writes[d][i]
              \/ writes'[d][i] = r
            BY <1>7, <2>2
        <3> QED BY <1>1, <1>5, <2>2, <3>1 DEF OwnersOK
    <2> QED BY <2>1, <2>2
<1>15. OneDevice'
    <2> SUFFICES ASSUME NEW v \in Uid \ disturbed', NEW e \in Device,
                        NEW f \in Device, e # f
                 PROVE  Quiet(e, v)' \/ Quiet(f, v)'
        BY DEF OneDevice
    <2>1. CASE v = b.uid
        <3>1. \A g \in Device \ {d} : Quiet(g, v)
            BY <1>8, <2>1, BusyFacts
        <3> QED BY <1>10, <3>1
    <2>2. CASE v # b.uid
        BY <1>5, <1>10, <2>2 DEF OneDevice
    <2> QED BY <2>1, <2>2
<1>16. ASSUME NEW v \in Uid \ disturbed'
       PROVE  /\ \A e \in Device : CarriesAddress(e, v)'
              /\ (\A e \in Device : AtRest(e, v)') => Copied(v)'
    <2>1. CASE v # b.uid
        BY <1>2, <1>5, <1>10, <2>1, SameLatest
    <2>2. CASE v = b.uid
        <3>1. w = v /\ t = Plain(b.text.addr)
            BY <1>5, <2>2
        <3>2. Written(writes'[d], v) # {}
            <4> DEFINE q == writes[d]
            <4>1. q \in Seq(Write) /\ r \in Write /\ r.uid = v
                BY <1>1, <1>7, <3>1
            <4>2. Written(Append(q, r), v) # {}
                <5> HIDE DEF q
                <5> QED BY <4>1, WrittenAppend
            <4> QED BY <1>7, <4>2
        <3>3. CarriesAddress(d, v)
            BY DEF LatestOK
        <3>4. CarriesAddress(d, v)'
            <4>1. CASE Accepted(d, v)
                BY <1>2, <3>3, <4>1 DEF CarriesAddress, Accepted
            <4>2. CASE ~Accepted(d, v)
                <5>1. EndsWith(main[d], v, account[v])
                    BY <1>8, <2>2, <3>3, <4>2 DEF CarriesAddress
                <5>2. CASE Ending(main'[d], v) # {}
                    <6>1. EndsWith(main'[d], v, account[v])
                        BY <1>7, <5>1, EndingTail
                    <6> QED BY <1>2, <4>2, <5>2, <6>1
                            DEF CarriesAddress, Accepted, EndsWith, Ending
                <5>3. CASE Ending(main'[d], v) = {}
                    <6>1. b.text.addr = account[v]
                        BY <1>3, <1>6, <1>7, <2>2, <5>1, <5>3, EndingTail
                    <6>2. WritesLast(writes'[d], v, Plain(account[v]))
                        BY <1>1, <1>7, <3>1, <6>1, WrittenAppend
                    <6> QED BY <1>2, <4>2, <5>3, <6>2
                            DEF CarriesAddress, Accepted, WritesLast, Written
                <5> QED BY <5>2, <5>3
            <4> QED BY <4>1, <4>2
        <3>5. ASSUME NEW e \in Device, e # d PROVE CarriesAddress(e, v)'
            BY <1>2, <1>10, <3>5, SameCarries DEF LatestOK
        <3> QED BY <3>2, <3>4, <3>5 DEF AtRest
    <2> QED BY <2>1, <2>2
<1>17. LatestOK'
    BY <1>16 DEF LatestOK
<1> QED BY <1>11, <1>12, <1>13, <1>14, <1>15, <1>17

LEMMA HeadFacts ==
    ASSUME IInv, NEW d \in Device, main[d] # <<>>, Head(main[d]).by \in Ends
    PROVE  /\ Head(main[d]).uid \in Uid /\ account[Head(main[d]).uid] # None
           /\ Head(main[d]).by = "update" =>
                  Head(main[d]).text = Plain(Head(main[d]).text.addr)
<1>1. main[d] \in Seq(Block)
    BY DEF IInv, TypeOK
<1>2. 1 \in DOMAIN main[d] /\ Head(main[d]) = main[d][1] /\ Head(main[d]) \in Block
    BY <1>1
<1>3. Head(main[d]).uid \in Uid /\ Head(main[d]).text \in Text
    BY <1>2 DEF Block, Ends
<1>4. ~Quiet(d, Head(main[d]).uid)
    <2>1. 1 \in Ending(main[d], Head(main[d]).uid)
        BY <1>2 DEF Ending
    <2> QED BY <2>1, QuietIs
<1>5. account[Head(main[d]).uid] # None
    BY <1>3, <1>4, BusyFacts
<1>6. Head(main[d]).by = "update" => ~Head(main[d]).text.spaced
    BY <1>2 DEF IInv, BlocksOK
<1> QED BY <1>3, <1>5, <1>6 DEF Text, Plain

LEMMA RunMainStep == ASSUME IInv, NEW d \in Device, RunMain(d) PROVE IInv'
<1> USE DEF IInv
<1>1. TypeOK' /\ (main[d] # <<>> => Head(main[d]) \in Block)
    BY BlockType, TailType
<1>2. CASE SignUpCompletion(d)
    <2>1. main[d] # <<>> /\ Head(main[d]).by = "signUp"
        BY <1>2 DEF SignUpCompletion, Runs
    <2>2. Head(main[d]).uid \in Uid /\ account[Head(main[d]).uid] # None
        BY <1>1, <2>1, HeadFacts DEF Ends
    <2>3. PICK t \in Typed :
              /\ WriteEmail(d, Head(main[d]).uid, t, "set")
              /\ disturbed' = IF client[d] = Head(main[d]).uid
                                 /\ t = Plain(Head(main[d]).text.addr)
                              THEN disturbed ELSE disturbed \cup {Head(main[d]).uid}
        BY <1>2 DEF SignUpCompletion
    <2>4. t \in Text
        BY EmailAssumption
    <2>5. disturbed \subseteq disturbed'
        BY <2>3
    <2>6. \/ client[d] = Head(main[d]).uid /\ t = Plain(Head(main[d]).text.addr)
          \/ Head(main[d]).uid \in disturbed'
        BY <2>3
    <2>7. Head(main[d]).by \in Ends
        BY <2>1 DEF Ends
    <2> QED BY <1>1, <2>1, <2>2, <2>3, <2>4, <2>5, <2>6, <2>7, CompletionStep
<1>3. CASE UpdateEmailCompletion(d)
    <2>1. /\ main[d] # <<>> /\ Head(main[d]).by = "update" /\ user[d] # None
        BY <1>3 DEF UpdateEmailCompletion, Runs
    <2>2. /\ user[d].uid \in Uid /\ account[user[d].uid] # None
          /\ Head(main[d]).text = Plain(Head(main[d]).text.addr)
        BY <1>1, <2>1, HeadFacts, UserType DEF AccountsOK, Ends
    <2>3. PICK t \in Typed :
              /\ WriteEmail(d, user[d].uid, t, "update")
              /\ disturbed' = IF /\ user[d].uid = Head(main[d]).uid
                                 /\ client[d] = Head(main[d]).uid
                                 /\ t = Head(main[d]).text THEN disturbed
                              ELSE disturbed \cup {Head(main[d]).uid, user[d].uid}
        BY <1>3 DEF UpdateEmailCompletion
    <2>4. t \in Text
        BY EmailAssumption
    <2>5. disturbed \subseteq disturbed'
        BY <2>3
    <2>6. \/ /\ user[d].uid = Head(main[d]).uid /\ client[d] = user[d].uid
             /\ t = Plain(Head(main[d]).text.addr)
          \/ {user[d].uid, Head(main[d]).uid} \subseteq disturbed'
        BY <2>2, <2>3
    <2>7. Head(main[d]).by \in Ends
        BY <2>1 DEF Ends
    <2> QED BY <1>1, <2>1, <2>2, <2>3, <2>4, <2>5, <2>6, <2>7, CompletionStep
<1>4. CASE UpdateEmailCrash(d)
    BY <1>4, CrashStep DEF UpdateEmailCrash
<1>5. CASE EmailSnapshot(d)
    BY <1>5, SessionActions
<1>6. CASE CredentialChange(d)
    BY <1>6, SessionActions
<1> QED BY <1>2, <1>3, <1>4, <1>5, <1>6 DEF RunMain

\* The writes of one account are sent in order.
LEMMA NextWriteFirst ==
    ASSUME IInv, NEW d \in Device, NEW i \in NextWrite(d), NEW u \in Uid \ disturbed
    PROVE  writes[d][i].uid = u => \A j \in 1..i - 1 : writes[d][j].uid # u
<1> SUFFICES ASSUME writes[d][i].uid = u, NEW j \in 1..i - 1, writes[d][j].uid = u
             PROVE  FALSE
    OBVIOUS
<1>1. writes[d] \in Seq(Write) /\ i \in DOMAIN writes[d]
    BY DEF IInv, TypeOK, NextWrite
<1>2. j \in DOMAIN writes[d]
    BY <1>1
<1>3. writes[d][i].owner = u /\ writes[d][j].owner = u
    BY <1>1, <1>2 DEF IInv, OwnersOK
<1> QED BY <1>3 DEF NextWrite

LEMMA DeliverStep == ASSUME IInv, NEW d \in Device, Deliver(d) PROVE IInv'
<1> USE DEF IInv
<1>1. TypeOK'
    BY DeliverType
<1>2. PICK i \in NextWrite(d) :
          /\ \/ writes' = [writes EXCEPT ![d] = RemoveAt(@, i)]
             \/ UNCHANGED writes
          /\ \/ /\ disturbed' = disturbed \cup {writes[d][i].uid}
                /\ UNCHANGED doc
             \/ /\ doc' = [doc EXCEPT ![writes[d][i].uid] = writes[d][i].text]
                /\ UNCHANGED disturbed
          /\ UNCHANGED <<account, user, call, main>>
    BY DEF Deliver
<1>3. PICK w : w = writes[d][i]
    OBVIOUS
<1>4. i \in DOMAIN writes[d] /\ writes[d] \in Seq(Write)
    BY DEF NextWrite, TypeOK
<1>5. w \in Write /\ w.uid \in Uid
    <2>1. w \in Write
        BY <1>3, <1>4
    <2> QED BY <2>1 DEF Write
<1>6. /\ disturbed \subseteq disturbed'
      /\ \A u \in Uid \ {w.uid} : doc'[u] = doc[u]
      /\ w.uid \in disturbed' \/ doc'[w.uid] = w.text
    BY <1>2, <1>3, <1>5 DEF TypeOK
<1>7. ~Quiet(d, w.uid) /\ Written(writes[d], w.uid) # {}
    BY <1>3, <1>4, QuietIs DEF Written
<1>8. ASSUME NEW e \in Device
      PROVE  \/ writes'[e] = writes[e]
             \/ e = d /\ writes'[d] = RemoveAt(writes[d], i)
    BY <1>2 DEF TypeOK
<1>9. ASSUME NEW u \in Uid, NEW e \in Device
      PROVE  /\ SameAccepted(e, u) /\ SameCompletions(e, u)
             /\ Quiet(e, u) => Quiet(e, u)'
    <2>1. SameAccepted(e, u) /\ SameCompletions(e, u)
        BY <1>2 DEF SameAccepted, SameCompletions, Accepted
    <2>2. Written(writes[e], u) = {} => Written(writes'[e], u) = {}
        <3>1. CASE writes'[e] = writes[e]
            BY <3>1
        <3>2. CASE e = d /\ writes'[d] = RemoveAt(writes[d], i)
            <4>1. ASSUME Written(writes[d], u) = {}
                  PROVE  Written(RemoveAt(writes[d], i), u) = {}
                <5>1. writes[d][i].uid # u
                    BY <1>4, <4>1 DEF Written
                <5> QED BY <1>4, <4>1, <5>1, WrittenRemove
            <4> QED BY <3>2, <4>1
        <3> QED BY <1>8, <3>1, <3>2
    <2> QED BY <1>2, <2>1, <2>2, QuietIs
<1>10. CallsOK'
    BY <1>2 DEF CallsOK, CallOK
<1>11. BlocksOK'
    BY <1>2 DEF BlocksOK
<1>12. AccountsOK'
    BY <1>2, <1>9 DEF AccountsOK
<1>13. OwnersOK'
    <2> SUFFICES ASSUME NEW e \in Device, NEW j \in DOMAIN writes'[e]
                 PROVE  \/ writes'[e][j].uid \in disturbed'
                        \/ writes'[e][j].owner = writes'[e][j].uid
        BY DEF OwnersOK
    <2>1. \E k \in DOMAIN writes[e] : writes'[e][j] = writes[e][k]
        <3>1. CASE writes'[e] = writes[e]
            BY <3>1
        <3>2. CASE e = d /\ writes'[d] = RemoveAt(writes[d], i)
            <4>1. /\ j \in 1..Len(writes[d]) - 1 /\ Len(writes[d]) \in Nat
                  /\ writes'[e][j] = IF j < i THEN writes[d][j] ELSE writes[d][j + 1]
                <5>1. /\ DOMAIN RemoveAt(writes[d], i) = 1..Len(writes[d]) - 1
                      /\ \A k \in 1..Len(writes[d]) - 1 :
                            RemoveAt(writes[d], i)[k] =
                                IF k < i THEN writes[d][k] ELSE writes[d][k + 1]
                    BY <1>4, RemoveAtFacts
                <5>2. Len(writes[d]) \in Nat
                    BY <1>4
                <5>3. writes'[e] = RemoveAt(writes[d], i)
                    BY <3>2
                <5>4. j \in 1..Len(writes[d]) - 1
                    BY <5>1, <5>3
                <5> QED BY <5>1, <5>2, <5>3, <5>4
            <4>2. j \in DOMAIN writes[d] /\ j + 1 \in DOMAIN writes[d]
                BY <1>4, <4>1
            <4> QED BY <3>2, <4>1, <4>2
        <3> QED BY <1>8, <3>1, <3>2
    <2> QED BY <1>6, <2>1 DEF OwnersOK
<1>14. OneDevice'
    BY <1>6, <1>9 DEF OneDevice
<1>15. ASSUME NEW u \in Uid \ disturbed'
       PROVE  /\ \A e \in Device : CarriesAddress(e, u)'
              /\ (\A e \in Device : AtRest(e, u)') => Copied(u)'
    <2> DEFINE q == writes[d]
               r == RemoveAt(q, i)
               t == Plain(account[u])
    <2>0. u \in Uid \ disturbed
        BY <1>6
    <2>1. ASSUME writes'[d] = RemoveAt(writes[d], i)
          PROVE  /\ Written(q, u) = {} => Written(r, u) = {}
                 /\ w.uid # u => (Written(r, u) = {} => Written(q, u) = {})
                 /\ WritesLast(q, u, t) => WritesLast(r, u, t)
                 /\ WritesLast(q, u, t) /\ Written(r, u) = {} /\ w.uid = u
                        => w.text = t
        <3>1. q[i].uid = u => \A j \in 1..i - 1 : q[j].uid # u
            BY <2>0, NextWriteFirst
        <3>2. q \in Seq(Write) /\ i \in DOMAIN q /\ q[i] = w
            BY <1>3, <1>4
        <3>3. r = RemoveAt(q, i)
            OBVIOUS
        <3> HIDE DEF q, r, t
        <3>4. /\ Written(q, u) = {} => Written(r, u) = {}
              /\ q[i].uid # u => (Written(r, u) = {} => Written(q, u) = {})
              /\ WritesLast(q, u, t) => WritesLast(r, u, t)
              /\ WritesLast(q, u, t) /\ Written(r, u) = {} /\ q[i].uid = u
                     => q[i].text = t
            BY <3>1, <3>2, <3>3, WrittenRemove
        <3> QED BY <3>2, <3>4
    <2>2. CASE w.uid # u
        <3>1. ASSUME NEW e \in Device PROVE SameWrites(e, u)
            <4>1. CASE writes'[e] = writes[e]
                BY <4>1 DEF SameWrites
            <4>2. CASE e = d /\ writes'[d] = RemoveAt(writes[d], i)
                BY <2>1, <2>2, <4>2 DEF SameWrites
            <4> QED BY <1>8, <4>1, <4>2
        <3> QED BY <1>2, <1>6, <1>9, <2>0, <2>2, <3>1, SameLatest
    <2>3. CASE w.uid = u
        <3>1. account[u] # None /\ \A e \in Device \ {d} : Quiet(e, u)
            BY <1>7, <2>0, <2>3, BusyFacts
        <3>2. CarriesAddress(d, u)
            BY <2>0 DEF LatestOK
        <3>3. ASSUME NEW e \in Device, e # d PROVE CarriesAddress(e, u)'
            <4>1. Quiet(e, u)'
                BY <1>9, <3>1, <3>3
            <4> QED BY <4>1, QuietIs
                    DEF CarriesAddress, Accepted, Ending, Written, WritesLast, IsLast
        <3>4. CarriesAddress(d, u)'
            <4>1. CASE Accepted(d, u) \/ Ending(main[d], u) # {}
                BY <1>2, <3>2, <4>1 DEF CarriesAddress, Accepted, EndsWith, Ending
            <4>2. CASE ~Accepted(d, u) /\ Ending(main[d], u) = {}
                <5>1. WritesLast(writes[d], u, Plain(account[u]))
                    BY <3>2, <4>2 DEF CarriesAddress
                <5>2. WritesLast(writes'[d], u, Plain(account[u]))
                    BY <1>8, <2>1, <5>1
                <5> QED BY <1>2, <4>2, <5>2 DEF CarriesAddress, Accepted, Ending,
                        WritesLast, Written
            <4> QED BY <4>1, <4>2
        <3>5. ASSUME AtRest(d, u)' PROVE Copied(u)'
            <4>1. ~Accepted(d, u) /\ Ending(main[d], u) = {}
                BY <1>2, <3>5 DEF AtRest, Accepted, Ending
            <4>2. Written(writes'[d], u) = {}
                BY <3>5 DEF AtRest
            <4>3. writes'[d] = RemoveAt(writes[d], i)
                BY <1>7, <1>8, <2>3, <4>2
            <4>4. WritesLast(writes[d], u, Plain(account[u]))
                BY <3>2, <4>1 DEF CarriesAddress
            <4>5. w.text = Plain(account[u])
                BY <2>1, <2>3, <4>2, <4>3, <4>4
            <4> QED BY <1>2, <1>6, <2>3, <3>1, <4>5 DEF Copied
        <3> QED BY <3>3, <3>4, <3>5
    <2> QED BY <2>2, <2>3
<1>16. LatestOK'
    BY <1>15 DEF LatestOK
<1> QED BY <1>1, <1>10, <1>11, <1>12, <1>13, <1>14, <1>16

-----------------------------------------------------------------------------
(***************************************************************************)
(* The theorems.                                                           *)
(***************************************************************************)
LEMMA InvInit == Init => IInv
<1> SUFFICES ASSUME Init PROVE IInv
    OBVIOUS
<1>1. TypeOK
    BY TypeInit
<1>2. ASSUME NEW d \in Device, NEW u
      PROVE  /\ Quiet(d, u) /\ Ending(main[d], u) = {} /\ Written(writes[d], u) = {}
             /\ ~Accepted(d, u)
    <2>1. call[d] = None /\ main[d] = <<>> /\ writes[d] = <<>>
        BY DEF Init
    <2> QED BY <2>1 DEF Quiet, Completions, Ending, Written, Accepted
<1>3. CallsOK /\ BlocksOK /\ OwnersOK
    BY DEF Init, CallsOK, BlocksOK, OwnersOK
<1>4. AccountsOK
    BY <1>2 DEF Init, AccountsOK
<1>5. OneDevice
    BY <1>2 DEF OneDevice
<1>6. LatestOK
    BY <1>2 DEF Init, LatestOK, CarriesAddress, WritesLast, IsLast, Copied
<1> QED BY <1>1, <1>3, <1>4, <1>5, <1>6 DEF IInv

LEMMA InvStep == IInv /\ [Next]_vars => IInv'
<1> SUFFICES ASSUME IInv, [Next]_vars PROVE IInv'
    OBVIOUS
<1>1. CASE UNCHANGED vars
    <2>1. TypeOK'
        BY TypeStep
    <2>2. ASSUME NEW d \in Device
          PROVE  /\ SameCall(d) /\ SameBlocks(d)
                 /\ user'[d] # None => account[user'[d].uid] # None
        BY <1>1 DEF vars, SameCall, SameBlocks, IInv, AccountsOK
    <2> QED BY <1>1, <2>1, <2>2, SessionStep DEF vars
<1>2. CASE Next
    BY <1>2, RunMainStep, AcceptStep, FailStep, AnswerStep, DeliverStep, CrashStep,
        SubmitStep, SessionActions DEF Next
<1> QED BY <1>1, <1>2

\* The invariant of the e-mail addresses is inductive: it holds initially, and
\* every handler, answer and delivery keeps it.
THEOREM Inductive == Spec => []IInv
BY InvInit, InvStep, PTL DEF Spec

\* Every variable has its type throughout; in particular a sign-up or a change
\* never applies its address to a missing session or account.
THEOREM TypeCorrect == Spec => []TypeOK
<1>1. IInv => TypeOK
    BY DEF IInv
<1> QED BY <1>1, Inductive, PTL

\* Whatever the devices, the accounts, the texts in the fields and the number of
\* writes queued: when nothing is under way about an account none of whose
\* changes was disturbed, users/<uid> has the address the Auth backend has.
THEOREM AgreementCorrect == Spec => []Agreement
<1>1. IInv => Agreement
    <2> SUFFICES ASSUME IInv, NEW u \in Uid \ disturbed,
                        \A d \in Device : Quiet(d, u)
                 PROVE  Copied(u)
        BY DEF Agreement, Copied
    <2>1. \A d \in Device : AtRest(d, u)
        BY QuietIs DEF AtRest, Accepted
    <2> QED BY <2>1 DEF IInv, LatestOK
<1> QED BY <1>1, Inductive, PTL
=============================================================================
