-------------------------- MODULE WriteQueueProofs --------------------------
(***************************************************************************)
(* Theorems about WriteQueue, for any set of users and of writes.          *)
(*                                                                         *)
(* What keeps an acknowledged write in place is that the backend applies a *)
(* queue from its oldest write on: the last write it applied is the one at *)
(* the end of the current round (InRound), and all that is acknowledged is *)
(* older than all that is still queued.                                    *)
(***************************************************************************)
EXTENDS WriteQueue, TLAPS

\* A round goes through the queue, and the last write of it is stored.
InRound ==
    \A u \in User :
        /\ round[u] <= Len(queue[u])
        /\ round[u] > 0 => stored[u] = queue[u][round[u]]

IInv == TypeOK /\ InOrder /\ InRound /\ AcknowledgedStays

-----------------------------------------------------------------------------
LEMMA QueueInit == Init => IInv
BY DEF Init, IInv, TypeOK, InOrder, InRound, AcknowledgedStays

LEMMA QueueType ==
    WriteAssumption /\ TypeOK /\ [Next]_vars => TypeOK'
<1> SUFFICES ASSUME WriteAssumption, TypeOK, [Next]_vars PROVE TypeOK'
    OBVIOUS
<1> USE DEF WriteAssumption, TypeOK
<1>1. ASSUME NEW u \in User, NEW w \in Write, Submit(u, w) PROVE TypeOK'
    BY <1>1 DEF Submit
<1>2. ASSUME NEW u \in User, Apply(u) PROVE TypeOK'
    <2>1. queue[u][round[u] + 1] \in Write
        BY <1>2 DEF Apply
    <2> QED BY <1>2, <2>1 DEF Apply
<1>3. ASSUME NEW u \in User, Refuse(u) PROVE TypeOK'
    BY <1>3 DEF Refuse
<1>4. ASSUME NEW u \in User, StartOver(u) PROVE TypeOK'
    BY <1>4 DEF StartOver
<1>5. ASSUME NEW u \in User, Acknowledge(u) PROVE TypeOK'
    <2>1. Head(queue[u]) \in Write /\ Tail(queue[u]) \in Seq(Write)
        BY <1>5 DEF Acknowledge
    <2> QED BY <1>5, <2>1 DEF Acknowledge
<1>6. ASSUME NEW u \in User, Reject(u) PROVE TypeOK'
    <2>1. Head(queue[u]) \in Write /\ Tail(queue[u]) \in Seq(Write)
        BY <1>6 DEF Reject
    <2> QED BY <1>6, <2>1 DEF Reject
<1>7. CASE UNCHANGED vars
    BY <1>7 DEF vars
<1> QED BY <1>1, <1>2, <1>3, <1>4, <1>5, <1>6, <1>7 DEF Next

\* A queue without its first write.
LEMMA TailFacts ==
    ASSUME NEW q \in Seq(Write), q # <<>>
    PROVE  /\ Head(q) = q[1] /\ 1 \in DOMAIN q
           /\ \A i \in DOMAIN Tail(q) :
                  Tail(q)[i] = q[i + 1] /\ i + 1 \in DOMAIN q /\ 1 < i + 1
           /\ \A i, j \in DOMAIN Tail(q) : i < j => i + 1 < j + 1
OBVIOUS

\* A queue in order, above the settled writes W, stays so when its first write
\* is settled too.
LEMMA TailInOrder ==
    ASSUME NEW q \in Seq(Write), q # <<>>, NEW W,
           \A i, j \in DOMAIN q : i < j => q[i] < q[j],
           \A i \in DOMAIN q, w \in W : w < q[i]
    PROVE  /\ \A i, j \in DOMAIN Tail(q) : i < j => Tail(q)[i] < Tail(q)[j]
           /\ \A i \in DOMAIN Tail(q), w \in W \cup {Head(q)} : w < Tail(q)[i]
<1>1. /\ Head(q) = q[1] /\ 1 \in DOMAIN q
      /\ \A i \in DOMAIN Tail(q) :
             Tail(q)[i] = q[i + 1] /\ i + 1 \in DOMAIN q /\ 1 < i + 1
      /\ \A i, j \in DOMAIN Tail(q) : i < j => i + 1 < j + 1
    BY TailFacts
<1>2. ASSUME NEW i \in DOMAIN Tail(q), NEW j \in DOMAIN Tail(q), i < j
      PROVE  Tail(q)[i] < Tail(q)[j]
    <2>1. q[i + 1] < q[j + 1]
        BY <1>1, <1>2, Zenon
    <2> QED BY <1>1, <2>1, Zenon
<1>3. ASSUME NEW i \in DOMAIN Tail(q) PROVE Head(q) < Tail(q)[i]
    <2>1. q[1] < q[i + 1]
        BY <1>1, Zenon
    <2> QED BY <1>1, <2>1, Zenon
<1>4. ASSUME NEW i \in DOMAIN Tail(q), NEW w \in W PROVE w < Tail(q)[i]
    <2>1. w < q[i + 1]
        BY <1>1, Zenon
    <2> QED BY <1>1, <2>1, Zenon
<1> QED BY <1>2, <1>3, <1>4, Zenon

LEMMA QueueInOrder ==
    WriteAssumption /\ TypeOK /\ InOrder /\ [Next]_vars => InOrder'
<1> SUFFICES ASSUME WriteAssumption, TypeOK, InOrder, [Next]_vars PROVE InOrder'
    OBVIOUS
<1> USE DEF WriteAssumption, TypeOK, InOrder
<1>1. ASSUME NEW u \in User, NEW w \in Write, Submit(u, w) PROVE InOrder'
    BY <1>1 DEF Submit, Newer
<1>2. ASSUME NEW u \in User, Apply(u) \/ Refuse(u) \/ StartOver(u)
      PROVE  InOrder'
    BY <1>2 DEF Apply, Refuse, StartOver
<1>3. ASSUME NEW u \in User, Acknowledge(u) PROVE InOrder'
    <2>1. /\ queue[u] \in Seq(Write) /\ queue[u] # <<>>
          /\ queue' = [queue EXCEPT ![u] = Tail(queue[u])]
          /\ acked' = [acked EXCEPT ![u] = @ \cup {Head(queue[u])}]
          /\ rejected' = rejected
        BY <1>3 DEF Acknowledge
    <2> SUFFICES ASSUME NEW v \in User
                 PROVE  /\ \A i, j \in DOMAIN queue'[v] :
                              i < j => queue'[v][i] < queue'[v][j]
                        /\ \A i \in DOMAIN queue'[v], w \in acked'[v] \cup rejected'[v] :
                              w < queue'[v][i]
        OBVIOUS
    <2>2. CASE v # u
        BY <2>1, <2>2
    <2>3. CASE v = u
        <3>1. /\ queue'[v] = Tail(queue[u])
              /\ acked'[v] \cup rejected'[v] =
                     acked[u] \cup rejected[u] \cup {Head(queue[u])}
            BY <2>1, <2>3
        <3>2. /\ \A i, j \in DOMAIN queue[u] : i < j => queue[u][i] < queue[u][j]
              /\ \A i \in DOMAIN queue[u], w \in acked[u] \cup rejected[u] : w < queue[u][i]
            BY <2>1
        <3>3. /\ \A i, j \in DOMAIN Tail(queue[u]) :
                     i < j => Tail(queue[u])[i] < Tail(queue[u])[j]
              /\ \A i \in DOMAIN Tail(queue[u]),
                    w \in acked[u] \cup rejected[u] \cup {Head(queue[u])} :
                     w < Tail(queue[u])[i]
            BY <2>1, <3>2, TailInOrder, Zenon
        <3> QED BY <3>1, <3>3, Zenon
    <2> QED BY <2>2, <2>3
<1>4. ASSUME NEW u \in User, Reject(u) PROVE InOrder'
    <2>1. /\ queue[u] \in Seq(Write) /\ queue[u] # <<>>
          /\ queue' = [queue EXCEPT ![u] = Tail(queue[u])]
          /\ rejected' = [rejected EXCEPT ![u] = @ \cup {Head(queue[u])}]
          /\ acked' = acked
        BY <1>4 DEF Reject
    <2> SUFFICES ASSUME NEW v \in User
                 PROVE  /\ \A i, j \in DOMAIN queue'[v] :
                              i < j => queue'[v][i] < queue'[v][j]
                        /\ \A i \in DOMAIN queue'[v], w \in acked'[v] \cup rejected'[v] :
                              w < queue'[v][i]
        OBVIOUS
    <2>2. CASE v # u
        BY <2>1, <2>2
    <2>3. CASE v = u
        <3>1. /\ queue'[v] = Tail(queue[u])
              /\ acked'[v] \cup rejected'[v] =
                     acked[u] \cup rejected[u] \cup {Head(queue[u])}
            BY <2>1, <2>3
        <3>2. /\ \A i, j \in DOMAIN queue[u] : i < j => queue[u][i] < queue[u][j]
              /\ \A i \in DOMAIN queue[u], w \in acked[u] \cup rejected[u] : w < queue[u][i]
            BY <2>1
        <3>3. /\ \A i, j \in DOMAIN Tail(queue[u]) :
                     i < j => Tail(queue[u])[i] < Tail(queue[u])[j]
              /\ \A i \in DOMAIN Tail(queue[u]),
                    w \in acked[u] \cup rejected[u] \cup {Head(queue[u])} :
                     w < Tail(queue[u])[i]
            BY <2>1, <3>2, TailInOrder, Zenon
        <3> QED BY <3>1, <3>3, Zenon
    <2> QED BY <2>2, <2>3
<1>5. CASE UNCHANGED vars
    BY <1>5 DEF vars
<1> QED BY <1>1, <1>2, <1>3, <1>4, <1>5 DEF Next

LEMMA QueueInRound ==
    WriteAssumption /\ TypeOK /\ InRound /\ [Next]_vars => InRound'
<1> SUFFICES ASSUME WriteAssumption, TypeOK, InRound, [Next]_vars PROVE InRound'
    OBVIOUS
<1> USE DEF WriteAssumption, TypeOK, InRound
<1>1. ASSUME NEW u \in User, NEW w \in Write, Submit(u, w) PROVE InRound'
    BY <1>1 DEF Submit
<1>2. ASSUME NEW u \in User, Apply(u) PROVE InRound'
    BY <1>2 DEF Apply
<1>3. ASSUME NEW u \in User, Refuse(u) \/ StartOver(u) PROVE InRound'
    <2>1. CASE Refuse(u)
        BY <2>1 DEF Refuse
    <2>2. CASE StartOver(u)
        <3>1. \A v \in User : round'[v] = IF v = u THEN 0 ELSE round[v]
            BY <2>2 DEF StartOver
        <3> QED BY <2>2, <3>1 DEF StartOver
    <2> QED BY <1>3, <2>1, <2>2
<1>4. ASSUME NEW u \in User, Acknowledge(u) PROVE InRound'
    BY <1>4 DEF Acknowledge
<1>5. ASSUME NEW u \in User, Reject(u) PROVE InRound'
    BY <1>5 DEF Reject
<1>6. CASE UNCHANGED vars
    BY <1>6 DEF vars
<1> QED BY <1>1, <1>2, <1>3, <1>4, <1>5, <1>6 DEF Next

LEMMA QueuedIsNumber ==
    ASSUME WriteAssumption, TypeOK, NEW u \in User, NEW i \in DOMAIN queue[u]
    PROVE  queue[u][i] \in Nat
<1>1. queue[u] \in Seq(Write)
    BY DEF TypeOK
<1>2. queue[u][i] \in Write
    BY <1>1
<1> QED BY <1>2 DEF WriteAssumption

LEMMA QueueAcknowledged ==
    WriteAssumption /\ IInv /\ [Next]_vars => AcknowledgedStays'
<1> SUFFICES ASSUME WriteAssumption, IInv, [Next]_vars PROVE AcknowledgedStays'
    OBVIOUS
<1> USE DEF WriteAssumption, IInv, TypeOK, AcknowledgedStays
<1>1. ASSUME NEW u \in User, NEW w \in Write, Submit(u, w)
      PROVE  AcknowledgedStays'
    BY <1>1 DEF Submit
<1>2. ASSUME NEW u \in User, Apply(u) PROVE AcknowledgedStays'
    <2>1. \A v \in acked[u] : v <= queue[u][round[u] + 1]
        <3>1. round[u] + 1 \in DOMAIN queue[u]
            BY <1>2 DEF Apply
        <3>2. /\ acked[u] \subseteq Nat /\ queue[u][round[u] + 1] \in Nat
              /\ \A v \in acked[u] : v < queue[u][round[u] + 1]
            BY <3>1, QueuedIsNumber DEF InOrder
        <3> QED BY <3>2
    <2> QED BY <1>2, <2>1 DEF Apply
<1>3. ASSUME NEW u \in User, Refuse(u) \/ StartOver(u)
      PROVE  AcknowledgedStays'
    BY <1>3 DEF Refuse, StartOver
<1>4. ASSUME NEW u \in User, Acknowledge(u) PROVE AcknowledgedStays'
    <2>1. Head(queue[u]) <= stored[u]
        <3>1. /\ 1 \in DOMAIN queue[u] /\ round[u] \in DOMAIN queue[u]
              /\ 1 <= round[u] /\ stored[u] = queue[u][round[u]]
            BY <1>4 DEF Acknowledge, InRound
        <3>2. queue[u][1] \in Nat /\ queue[u][round[u]] \in Nat
            BY <3>1, QueuedIsNumber
        <3>3. 1 < round[u] => queue[u][1] < queue[u][round[u]]
            BY <3>1 DEF InOrder
        <3>4. Head(queue[u]) = queue[u][1] /\ round[u] \in Nat
            BY <1>4 DEF Acknowledge
        <3> QED BY <3>1, <3>2, <3>3, <3>4
    <2> QED BY <1>4, <2>1 DEF Acknowledge
<1>5. ASSUME NEW u \in User, Reject(u) PROVE AcknowledgedStays'
    BY <1>5 DEF Reject
<1>6. CASE UNCHANGED vars
    BY <1>6 DEF vars
<1> QED BY <1>1, <1>2, <1>3, <1>4, <1>5, <1>6 DEF Next

\* The invariant of the queues: acknowledged writes stay (SyncEngine tells of a
\* success only after the backend has committed the batch and all before it).
THEOREM QueueSafety == WriteAssumption => (Spec => []IInv)
<1> SUFFICES ASSUME WriteAssumption PROVE Spec => []IInv
    OBVIOUS
<1>1. IInv /\ [Next]_vars => IInv'
    BY QueueType, QueueInOrder, QueueInRound, QueueAcknowledged DEF IInv
<1> QED BY QueueInit, <1>1, PTL DEF Spec
=============================================================================
