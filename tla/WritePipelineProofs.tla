------------------------ MODULE WritePipelineProofs ------------------------
(***************************************************************************)
(* Theorems about WritePipeline, for any set of users, writes and requests *)
(* and any bounds.                                                         *)
(***************************************************************************)
EXTENDS WritePipeline, SequenceTheorems, TLAPS

\* The ids of a mutation queue rise.
Increasing(q) == \A i, j \in 1..Len(q) : i < j => q[i].id < q[j].id

\* The part of a queue that the pipeline may hold.
Front(q) == SubSeq(q, 1, MinOf(Len(q), kMaxPendingWrites))

\* The id after the last of a queue, and that some queue has the highest.
NextId(q) == IF q = <<>> THEN 1 ELSE q[Len(q)].id + 1
Ends == [u \in User |-> NextId(queue[u])]
Bounded(f) == \A S \in SUBSET User : S # {} => \E u \in S : \A v \in S : f[v] <= f[u]

StoreOK ==
    /\ \A u \in User : Increasing(queue[u])
    /\ \A i \in 1..Len(queue[currentUser]) : queue[currentUser][i].id < nextBatchId
    /\ Bounded(Ends)
    /\ pipeline = Front(queue[currentUser])

Record == [stage : {"none", "asked", "read", "main", "worker"},
           user : User \cup {None}, failed : BOOLEAN, closed : BOOLEAN]

-----------------------------------------------------------------------------
(***************************************************************************)
(* Filling the pipeline.                                                   *)
(***************************************************************************)
LEMMA BatchType == \A b \in Batch : b.id \in Nat /\ 0 < b.id /\ b.write \in Write
BY DEF Batch

\* The batch after the ones in the pipeline is the next one of the queue.
LEMMA NextIsNext ==
    ASSUME NEW q \in Seq(Batch), Increasing(q),
           NEW p \in Seq(Batch), Len(p) <= Len(q),
           \A i \in 1..Len(p) : p[i] = q[i]
    PROVE  NextMutationBatch(q, LastId(p)) = Len(p) + 1
<1> DEFINE Fits(i) == /\ \A j \in 1..i - 1 : q[j].id <= LastId(p)
                      /\ i <= Len(q) => q[i].id > LastId(p)
<1>0. \A j \in 1..Len(q) : q[j].id \in Nat /\ 0 < q[j].id
    <2> TAKE j \in 1..Len(q)
    <2>1. q[j] \in Batch
        OBVIOUS
    <2> QED BY <2>1, BatchType
<1>1. LastId(p) = IF Len(p) = 0 THEN -1 ELSE q[Len(p)].id
    BY DEF LastId
<1>2. LastId(p) \in Int
    BY <1>0, <1>1
<1>3. Fits(Len(p) + 1)
    BY <1>0, <1>1 DEF Increasing
<1>4. ASSUME NEW i \in 1..Len(q) + 1, Fits(i) PROVE i = Len(p) + 1
    <2>1. CASE i < Len(p) + 1
        <3>1. q[i].id <= LastId(p) /\ q[i].id > LastId(p) /\ i \in 1..Len(q)
            BY <2>1, <1>3, <1>4
        <3> QED BY <3>1, <1>0, <1>2
    <2>2. CASE i > Len(p) + 1
        <3>1. /\ Len(p) + 1 \in 1..Len(q)
              /\ q[Len(p) + 1].id <= LastId(p) /\ q[Len(p) + 1].id > LastId(p)
            BY <2>2, <1>3, <1>4
        <3> QED BY <3>1, <1>0, <1>2
    <2> QED BY <2>1, <2>2
<1> HIDE DEF Fits
<1>5. (CHOOSE i \in 1..Len(q) + 1 : Fits(i)) = Len(p) + 1
    BY <1>3, <1>4
<1> QED BY <1>5 DEF NextMutationBatch, Fits

LEMMA AddedIsRest ==
    ASSUME NEW q \in Seq(Batch), Increasing(q),
           NEW p \in Seq(Batch), Len(p) <= Len(q), Len(p) <= kMaxPendingWrites,
           \A i \in 1..Len(p) : p[i] = q[i]
    PROVE  /\ Added(p, q) \in Seq(Batch)
           /\ Len(Added(p, q)) = Len(Front(q)) - Len(p)
           /\ \A i \in 1..Len(Added(p, q)) : Added(p, q)[i] = q[Len(p) + i]
           /\ p \o Added(p, q) = Front(q)
<1>1. kMaxPendingWrites \in Nat \ {0}
    BY PipelineAssumption
<1>2. Added(p, q) = SubSeq(q, Len(p) + 1, MinOf(Len(q), kMaxPendingWrites))
    <2>1. (Len(p) + 1) + kMaxPendingWrites - Len(p) - 1 = kMaxPendingWrites
        BY <1>1
    <2> QED BY <2>1, NextIsNext DEF Added
<1>3. MinOf(Len(q), kMaxPendingWrites) \in Len(p)..Len(q)
    BY <1>1 DEF MinOf
<1> DEFINE m == MinOf(Len(q), kMaxPendingWrites)
<1>4. SubSeq(q, Len(p) + 1, m) \in Seq(Batch)
    BY <1>3
<1>5. /\ Len(Added(p, q)) = m - Len(p) /\ Len(Front(q)) = m
      /\ \A i \in 1..Len(Added(p, q)) : Added(p, q)[i] = q[Len(p) + i]
      /\ \A i \in 1..m : Front(q)[i] = q[i]
      /\ Front(q) \in Seq(Batch)
    <2>1. m \in 0..Len(q)
        BY <1>3
    <2> HIDE DEF m
    <2>2. Front(q) = SubSeq(q, 1, m)
        BY DEF Front, m
    <2>3. /\ Len(SubSeq(q, 1, m)) = m /\ SubSeq(q, 1, m) \in Seq(Batch)
          /\ \A i \in 1..m : SubSeq(q, 1, m)[i] = q[i]
        BY <2>1
    <2>4. Added(p, q) = SubSeq(q, Len(p) + 1, m)
        BY <1>2 DEF m
    <2>5. m \in Len(p)..Len(q) /\ Len(p) \in Nat
        BY <1>3 DEF m
    <2>6. /\ Len(SubSeq(q, Len(p) + 1, m)) = m - Len(p)
          /\ \A i \in 1..Len(SubSeq(q, Len(p) + 1, m)) :
                SubSeq(q, Len(p) + 1, m)[i] = q[Len(p) + i]
        BY <2>5
    <2> QED BY <2>2, <2>3, <2>4, <2>6, Zenon
<1>6. p \o Added(p, q) = Front(q)
    <2> HIDE DEF m
    <2>0. Added(p, q) \in Seq(Batch)
        BY <1>2, <1>4 DEF m
    <2>1. /\ p \o Added(p, q) \in Seq(Batch)
          /\ Len(p \o Added(p, q)) = Len(p) + Len(Added(p, q))
          /\ \A i \in 1..Len(p) + Len(Added(p, q)) :
                (p \o Added(p, q))[i] =
                    IF i <= Len(p) THEN p[i] ELSE Added(p, q)[i - Len(p)]
        BY <2>0, ConcatProperties
    <2>2. m \in Len(p)..Len(q)
        BY <1>3 DEF m
    <2>3. ASSUME NEW i \in 1..m PROVE (p \o Added(p, q))[i] = Front(q)[i]
        <3>1. CASE i <= Len(p)
            BY <3>1, <2>1, <2>2, <1>5
        <3>2. CASE i > Len(p)
            <4>1. PICK k \in 1..Len(Added(p, q)) : i = Len(p) + k
                <5>1. i - Len(p) \in 1..Len(Added(p, q)) /\ i = Len(p) + (i - Len(p))
                    BY <3>2, <2>2, <1>5
                <5> QED BY <5>1
            <4>2. Added(p, q)[k] = q[i]
                BY <4>1, <1>5
            <4>3. i - Len(p) = k /\ i \in 1..Len(p) + Len(Added(p, q))
                BY <4>1, <2>2, <1>5
            <4>4. (p \o Added(p, q))[i] = Added(p, q)[k]
                BY <4>3, <3>2, <2>1
            <4>5. Front(q)[i] = q[i]
                BY <1>5
            <4> QED BY <4>2, <4>4, <4>5
        <3>3. i \in Int /\ Len(p) \in Int
            BY <2>2
        <3>4. i <= Len(p) \/ i > Len(p)
            BY <3>3
        <3> QED BY <3>1, <3>2, <3>4
    <2>4. Len(p \o Added(p, q)) = m
        BY <2>1, <2>2, <1>5
    <2> QED BY <1>5, <2>1, <2>3, <2>4, SeqEqual
<1> QED BY <1>2, <1>3, <1>4, <1>5, <1>6

LEMMA FrontGrows ==
    ASSUME NEW q \in Seq(Batch), NEW b \in Batch, Increasing(q),
           \A i \in 1..Len(q) : q[i].id < b.id
    PROVE  /\ Append(q, b) \in Seq(Batch)
           /\ Increasing(Append(q, b))
           /\ Added(Front(q), Append(q, b)) \in Seq(Batch)
           /\ Front(q) \o Added(Front(q), Append(q, b)) = Front(Append(q, b))
<1>1. Append(q, b) \in Seq(Batch) /\ Increasing(Append(q, b))
    BY DEF Increasing
<1>2. kMaxPendingWrites \in Nat \ {0}
    BY PipelineAssumption
<1>3. MinOf(Len(q), kMaxPendingWrites) \in 0..Len(q)
    BY <1>2 DEF MinOf
<1>4. /\ Front(q) \in Seq(Batch)
      /\ Len(Front(q)) = MinOf(Len(q), kMaxPendingWrites)
      /\ \A i \in 1..Len(Front(q)) : Front(q)[i] = q[i]
    BY <1>3 DEF Front
<1>5. /\ Len(Front(q)) <= Len(Append(q, b)) /\ Len(Front(q)) <= kMaxPendingWrites
      /\ \A i \in 1..Len(Front(q)) : Front(q)[i] = Append(q, b)[i]
    BY <1>2, <1>3, <1>4 DEF MinOf
<1> QED BY <1>1, <1>4, <1>5, AddedIsRest

\* Batches leave the queue at its front.
LEMMA FirstLeaves ==
    ASSUME NEW q \in Seq(Batch), Increasing(q), Front(q) # <<>>
    PROVE  /\ q # <<>> /\ Head(Front(q)) = q[1]
           /\ Without(q, Head(Front(q)).id) = Tail(q)
           /\ Tail(q) \in Seq(Batch)
           /\ Increasing(Tail(q))
           /\ Tail(Front(q)) \in Seq(Batch)
           /\ Added(Tail(Front(q)), Tail(q)) \in Seq(Batch)
           /\ Tail(Front(q)) \o Added(Tail(Front(q)), Tail(q)) = Front(Tail(q))
<1>1. kMaxPendingWrites \in Nat \ {0}
    BY PipelineAssumption
<1>2. MinOf(Len(q), kMaxPendingWrites) \in 0..Len(q)
    BY <1>1 DEF MinOf
<1>3. /\ Front(q) \in Seq(Batch)
      /\ Len(Front(q)) = MinOf(Len(q), kMaxPendingWrites)
      /\ \A i \in 1..Len(Front(q)) : Front(q)[i] = q[i]
    BY <1>2 DEF Front
<1>4. Len(Front(q)) >= 1 /\ Len(q) >= 1 /\ q # <<>>
    BY <1>2, <1>3
<1>5. Head(Front(q)) = q[1] /\ 1 \in DOMAIN q
    BY <1>3, <1>4
<1>6. Without(q, q[1].id) = Tail(q)
    <2>1. \A i \in DOMAIN q : q[i].id = q[1].id => i = 1
        <3>1. \A i \in 1..Len(q) : q[i].id \in Nat
            <4> TAKE i \in 1..Len(q)
            <4>1. q[i] \in Batch
                OBVIOUS
            <4> QED BY <4>1, BatchType
        <3> QED BY <1>4, <3>1 DEF Increasing
    <2>2. (CHOOSE i \in DOMAIN q : q[i].id = q[1].id) = 1
        BY <1>5, <2>1
    <2>3. SubSeq(q, 1, 1 - 1) = <<>> /\ SubSeq(q, 1 + 1, Len(q)) = Tail(q)
        BY <1>4
    <2>4. <<>> \o Tail(q) = Tail(q)
        BY <1>4
    <2> QED BY <2>2, <2>3, <2>4 DEF Without
<1>7. Tail(q) \in Seq(Batch) /\ Increasing(Tail(q)) /\ Tail(Front(q)) \in Seq(Batch)
    BY <1>3, <1>4 DEF Increasing
<1>8. /\ Len(Tail(Front(q))) <= Len(Tail(q)) /\ Len(Tail(Front(q))) <= kMaxPendingWrites
      /\ \A i \in 1..Len(Tail(Front(q))) : Tail(Front(q))[i] = Tail(q)[i]
    BY <1>1, <1>2, <1>3, <1>4 DEF MinOf
<1> QED BY <1>4, <1>5, <1>6, <1>7, <1>8, AddedIsRest

LEMMA FrontAnew ==
    ASSUME NEW q \in Seq(Batch), Increasing(q)
    PROVE  Added(<<>>, q) \in Seq(Batch) /\ Added(<<>>, q) = Front(q)
<1>1. PICK p \in Seq(Batch) : p = <<>>
    BY EmptySeq
<1>2. /\ Len(p) <= Len(q) /\ Len(p) <= kMaxPendingWrites
      /\ \A i \in 1..Len(p) : p[i] = q[i]
    BY <1>1, PipelineAssumption
<1>3. Added(p, q) \in Seq(Batch) /\ p \o Added(p, q) = Front(q)
    BY <1>2, AddedIsRest
<1> QED BY <1>1, <1>3

-----------------------------------------------------------------------------
(***************************************************************************)
(* The ids of batches.                                                     *)
(***************************************************************************)
LEMMA StaysBounded ==
    ASSUME NEW f, NEW g, NEW x \in User, Bounded(f),
           \A u \in User : f[u] \in Nat /\ g[u] \in Nat,
           \A u \in User \ {x} : g[u] = f[u]
    PROVE  Bounded(g)
<1> SUFFICES ASSUME NEW S \in SUBSET User, S # {}
             PROVE  \E u \in S : \A v \in S : g[v] <= g[u]
    BY DEF Bounded
<1>1. CASE S \ {x} = {}
    BY <1>1
<1>2. CASE S \ {x} # {}
    <2>1. PICK u \in S \ {x} : \A v \in S \ {x} : f[v] <= f[u]
        BY <1>2 DEF Bounded
    <2>2. u \in S /\ \A v \in S \ {x} : g[v] <= g[u]
        BY <2>1
    <2>3. CASE x \in S /\ g[u] <= g[x]
        BY <2>2, <2>3
    <2>4. CASE ~(x \in S /\ g[u] <= g[x])
        BY <2>2, <2>4
    <2> QED BY <2>3, <2>4
<1> QED BY <1>1, <1>2

LEMMA NextIdType ==
    ASSUME NEW q \in Seq(Batch)
    PROVE  /\ NextId(q) \in Nat \ {0}
           /\ Increasing(q) => \A i \in 1..Len(q) : q[i].id + 1 <= NextId(q)
<1>1. \A i \in 1..Len(q) : q[i].id \in Nat
    <2> TAKE i \in 1..Len(q)
    <2>1. q[i] \in Batch
        OBVIOUS
    <2> QED BY <2>1, BatchType
<1> QED BY <1>1 DEF NextId, Increasing

\* A queue loaded from disk gives no id that is on disk.
LEMMA LoadedIsNew ==
    ASSUME TypeOK, \A u \in User : Increasing(queue[u]), Bounded(Ends)
    PROVE  /\ LoadNextBatchId \in Nat \ {0}
           /\ \A u \in User : \A i \in 1..Len(queue[u]) :
                 queue[u][i].id < LoadNextBatchId
<1>0. \A u \in User : queue[u] \in Seq(Batch)
    BY DEF TypeOK
<1>1. \A u \in User : Ends[u] = NextId(queue[u])
    BY DEF Ends
<1>2. PICK u \in User : \A v \in User : Ends[v] <= Ends[u]
    <2>1. User # {} /\ User \in SUBSET User
        BY PipelineAssumption
    <2> QED BY <2>1 DEF Bounded
<1>3. \A v \in User : \A i \in 1..Len(queue[v]) :
         queue[v][i].id \in Nat /\ DOMAIN queue[v] = 1..Len(queue[v])
    <2> TAKE v \in User
    <2> TAKE i \in 1..Len(queue[v])
    <2>1. queue[v][i] \in Batch
        BY <1>0
    <2> QED BY <1>0, <2>1, BatchType
<1> DEFINE All == {1} \cup UNION {IdsAfter(v) : v \in User}
           Above(n) == \A v \in User : \A m \in IdsAfter(v) : m <= n
<1>4. Ends[u] \in All
    <2>1. CASE queue[u] = <<>>
        BY <2>1, <1>1 DEF NextId
    <2>2. CASE queue[u] # <<>>
        <3>1. Len(queue[u]) \in DOMAIN queue[u]
            BY <2>2, <1>0
        <3>2. Ends[u] = queue[u][Len(queue[u])].id + 1
            BY <2>2, <1>1 DEF NextId
        <3>3. Ends[u] \in IdsAfter(u)
            BY <3>1, <3>2 DEF IdsAfter
        <3> QED BY <3>3
    <2> QED BY <2>1, <2>2
<1>5. Above(Ends[u])
    <2> SUFFICES ASSUME NEW v \in User, NEW m \in IdsAfter(v) PROVE m <= Ends[u]
        OBVIOUS
    <2>1. PICK i \in 1..Len(queue[v]) : m = queue[v][i].id + 1
        BY <1>0 DEF IdsAfter
    <2>2. m <= NextId(queue[v]) /\ NextId(queue[v]) \in Nat /\ NextId(queue[u]) \in Nat
        BY <1>0, <2>1, NextIdType
    <2>3. queue[v][i].id \in Nat
        BY <1>3
    <2> QED BY <2>1, <2>2, <2>3, <1>1, <1>2
<1>6. All \subseteq Nat \ {0}
    <2> SUFFICES ASSUME NEW v \in User, NEW m \in IdsAfter(v) PROVE m \in Nat \ {0}
        OBVIOUS
    <2>1. PICK i \in 1..Len(queue[v]) : m = queue[v][i].id + 1
        BY <1>0 DEF IdsAfter
    <2> QED BY <2>1, <1>3
<1> DEFINE n == CHOOSE n \in All : Above(n)
<1>7. n \in All /\ Above(n)
    <2> HIDE DEF All, Above
    <2> QED BY <1>4, <1>5
<1>8. LoadNextBatchId = n
    BY DEF LoadNextBatchId
<1>9. \A v \in User : \A i \in 1..Len(queue[v]) : queue[v][i].id + 1 <= n
    <2> TAKE v \in User
    <2> TAKE i \in 1..Len(queue[v])
    <2>1. queue[v][i].id + 1 \in IdsAfter(v)
        BY <1>3 DEF IdsAfter
    <2> HIDE DEF n
    <2> QED BY <2>1, <1>7
<1> HIDE DEF All, Above, n
<1> QED BY <1>3, <1>6, <1>7, <1>8, <1>9

-----------------------------------------------------------------------------
(***************************************************************************)
(* Types, and the mutation queues.                                         *)
(***************************************************************************)
StreamState == {"Initial", "Starting", "Backoff", "Open", "Error"}

\* What MaybeStart does.
LEMMA Starts ==
    ASSUME NEW p, NEW s \in StreamState, NEW r \in [Request -> Record],
           MaybeStart(p, s, r)
    PROVE  /\ stream' = IF p # <<>> /\ s = "Initial" THEN "Starting"
                        ELSE IF p # <<>> /\ s = "Error" THEN "Backoff" ELSE s
           /\ stream' \in StreamState
           /\ request' \in [Request -> Record]
           /\ IF p # <<>> /\ s = "Initial"
              THEN \E k \in Request : /\ r[k].stage = "none"
                                      /\ request' = [r EXCEPT ![k] = Asked]
              ELSE request' = r
<1>1. Asked \in Record
    BY DEF Asked, NoRequest, Record
<1>2. CASE p # <<>> /\ s = "Initial"
    <2>1. stream' = "Starting" /\ RequestCredentials(r)
        BY <1>2 DEF MaybeStart
    <2>2. PICK k \in Request : r[k].stage = "none" /\ request' = [r EXCEPT ![k] = Asked]
        BY <2>1 DEF RequestCredentials
    <2> QED BY <1>1, <1>2, <2>1, <2>2 DEF StreamState
<1>3. CASE ~(p # <<>> /\ s = "Initial")
    BY <1>3 DEF MaybeStart, StreamState
<1> QED BY <1>2, <1>3

LEMMA ClosedType ==
    ASSUME NEW r \in [Request -> Record]
    PROVE  /\ Closed(r) \in [Request -> Record]
           /\ \A k \in Request :
                 /\ Closed(r)[k].stage = r[k].stage
                 /\ r[k].stage # "none" => Closed(r)[k].closed
                 /\ r[k].stage # "none" => Closed(r)[k] = [r[k] EXCEPT !.closed = TRUE]
BY DEF Closed, Record

NoRequests == [k \in Request |-> NoRequest]

LEMMA NoRequestType == NoRequest \in Record /\ NoRequests \in [Request -> Record]
BY DEF NoRequest, NoRequests, Record

\* The parts of the type invariant by what changes them.
Types == /\ request \in [Request -> Record]
         /\ stream \in StreamState
LEMMA TypesSplit == TypeOK => Types
BY DEF TypeOK, Types, Record, StreamState

LEMMA TasksType ==
    ASSUME TypeOK
    PROVE  /\ MainBlock \subseteq Task
           /\ main # <<>> => Head(main) \in MainBlock /\ Tail(main) \in Seq(MainBlock)
           /\ worker # <<>> => Head(worker) \in Task /\ Tail(worker) \in Seq(Task)
           /\ Runs("write") => Head(worker).write \in Write
           /\ Runs("user") => Head(worker).user \in User
           /\ Runs("token") => Head(worker).request \in Request
<1>1. main \in Seq(MainBlock) /\ worker \in Seq(Task)
    BY DEF TypeOK
<1>2. main # <<>> => Head(main) \in MainBlock /\ Tail(main) \in Seq(MainBlock)
    BY <1>1
<1>3. worker # <<>> => Head(worker) \in Task /\ Tail(worker) \in Seq(Task)
    BY <1>1
<1> QED BY <1>2, <1>3 DEF Runs, Task, MainBlock

\* What leaves the stores alone keeps StoreOK.
LEMMA StoreStays ==
    StoreOK /\ UNCHANGED <<currentUser, queue, nextBatchId, pipeline>> => StoreOK'
BY DEF StoreOK, Ends, Bounded

LEMMA StoreInit == Init => TypeOK /\ StoreOK
<1> SUFFICES ASSUME Init PROVE TypeOK /\ StoreOK
    OBVIOUS
<1>1. TypeOK
    <2>1. request \in [Request -> Record]
        BY NoRequestType DEF Init, NoRequests
    <2>2. queue \in [User -> Seq(Batch)] /\ pipeline \in Seq(Batch)
        BY EmptySeq DEF Init
    <2>3. /\ main \in Seq(MainBlock) /\ worker \in Seq(Task)
          /\ wire \in Seq(Batch \cup {Hello})
          /\ answers \in Seq({"hello", "result", "refused"})
        BY EmptySeq DEF Init
    <2>4. /\ called \in Nat /\ nextBatchId \in Nat \ {0} /\ currentUser \in User
          /\ callbacks \in [User -> SUBSET Batch]
          /\ told \in [Write -> {"nothing", "ok", "error"}]
          /\ stored \in [User -> Write \cup {0}]
          /\ acked \in [User -> SUBSET Write] /\ rejected \in [User -> SUBSET Write]
        BY DEF Init
    <2>5. /\ stream \in {"Initial", "Starting", "Backoff", "Open", "Error"}
          /\ conn \in User \cup {None} /\ handshake \in BOOLEAN /\ idle \in BOOLEAN
        BY DEF Init
    <2>6. authUser \in User
        BY DEF Init
    <2> QED BY <2>1, <2>2, <2>3, <2>4, <2>5, <2>6 DEF TypeOK, Record
<1>2. StoreOK
    <2>1. Front(<<>>) = <<>>
        <3>1. MinOf(Len(<<>>), kMaxPendingWrites) = 0
            BY PipelineAssumption DEF MinOf
        <3> QED BY <3>1 DEF Front
    <2>2. \A u \in User : queue[u] = <<>> /\ Ends[u] = 1
        BY DEF Init, Ends, NextId
    <2>3. Bounded(Ends)
        BY <2>2 DEF Bounded
    <2>4. currentUser \in User /\ pipeline = <<>>
        BY DEF Init
    <2> QED BY <2>1, <2>2, <2>3, <2>4 DEF StoreOK, Increasing
<1> QED BY <1>1, <1>2

\* FIRAuth, the main queue and the app.
Client == \/ \E u \in User : ChangeUser(u)
          \/ \E k \in Request : \/ ReadUser(k)
                                \/ \E error \in BOOLEAN : TokenCallback(k, error)
          \/ RunMain \/ AddDocument

LEMMA ClientType == TypeOK /\ Client => TypeOK'
<1> SUFFICES ASSUME TypeOK, Client PROVE TypeOK'
    OBVIOUS
<1>0. request \in [Request -> Record]
    BY TypesSplit DEF Types
<1>1. ASSUME NEW u \in User, ChangeUser(u) PROVE TypeOK'
    <2>1. [kind |-> "user", user |-> u] \in MainBlock
        BY DEF MainBlock
    <2>2. main' \in Seq(MainBlock)
        BY <1>1, <2>1 DEF ChangeUser, TypeOK
    <2> QED BY <1>1, <2>2 DEF ChangeUser, TypeOK, authVars, storeVars, streamVars, fateVars
<1>2. ASSUME NEW k \in Request, ReadUser(k) PROVE TypeOK'
    <2>1. request' \in [Request -> Record]
        <3>1. [request[k] EXCEPT !.stage = "read", !.user = authUser] \in Record
            BY <1>0 DEF Record, TypeOK
        <3>2. request' = [request EXCEPT ![k] = [@ EXCEPT !.stage = "read", !.user = authUser]]
            BY <1>0, <1>2 DEF ReadUser
        <3> QED BY <1>0, <3>1, <3>2
    <2> QED BY <1>2, <2>1
            DEF ReadUser, TypeOK, Record, authVars, storeVars, streamVars, fateVars
<1>3. ASSUME NEW k \in Request, NEW error \in BOOLEAN, TokenCallback(k, error)
      PROVE  TypeOK'
    <2>1. [kind |-> "token", request |-> k] \in MainBlock
        BY DEF MainBlock
    <2>2. main' \in Seq(MainBlock)
        BY <1>3, <2>1 DEF TokenCallback, TypeOK
    <2>3. request' \in [Request -> Record]
        <3>1. (request[k].failed \/ error) \in BOOLEAN
            OBVIOUS
        <3>2. request' = [request EXCEPT ![k].stage = "main",
                                         ![k].failed = request[k].failed \/ error]
            BY <1>0, <1>3 DEF TokenCallback, Record
        <3>3. \A b \in BOOLEAN : [request EXCEPT ![k].stage = "main", ![k].failed = b]
                                   \in [Request -> Record]
            BY <1>0 DEF Record
        <3> QED BY <3>1, <3>2, <3>3
    <2> QED BY <1>3, <2>2, <2>3
            DEF TokenCallback, TypeOK, Record, authVars, storeVars, streamVars, fateVars
<1>4. CASE Notify
    <2>1. main' \in Seq(MainBlock) /\ worker' \in Seq(Task)
        <3>1. worker \in Seq(Task) /\ Head(main) \in Task
            BY <1>4, TasksType DEF Notify, TypeOK
        <3> QED BY <1>4, <3>1, TasksType DEF Notify
    <2>2. request' \in [Request -> Record]
        BY <1>0, <1>4 DEF Notify, Record
    <2> QED BY <1>4, <2>1, <2>2
            DEF Notify, TypeOK, Record, authVars, storeVars, streamVars, fateVars
<1>5. CASE AnswerToken
    <2>1. main' \in Seq(MainBlock) /\ worker' \in Seq(Task)
        <3>1. worker \in Seq(Task) /\ Head(main) \in Task
            BY <1>5, TasksType DEF AnswerToken, TypeOK
        <3> QED BY <1>5, <3>1, TasksType DEF AnswerToken
    <2>2. request' \in [Request -> Record]
        BY <1>0, <1>5 DEF AnswerToken, Record
    <2> QED BY <1>5, <2>1, <2>2
            DEF AnswerToken, TypeOK, Record, authVars, storeVars, streamVars, fateVars
<1>6. CASE AddDocument
    <2>1. [kind |-> "write", write |-> called + 1] \in Task /\ called' \in Nat
        BY <1>6 DEF AddDocument, Task, TypeOK
    <2>2. worker' \in Seq(Task)
        BY <1>6, <2>1 DEF AddDocument, TypeOK
    <2> QED BY <1>6, <2>1, <2>2
            DEF AddDocument, TypeOK, authVars, storeVars, streamVars, fateVars
<1> QED BY <1>1, <1>2, <1>3, <1>4, <1>5, <1>6 DEF Client, RunMain

LEMMA ClientStore == StoreOK /\ Client => StoreOK'
<1> SUFFICES ASSUME StoreOK, Client PROVE StoreOK'
    OBVIOUS
<1>1. UNCHANGED <<currentUser, queue, nextBatchId, pipeline>>
    BY DEF Client, RunMain, ChangeUser, ReadUser, TokenCallback, Notify, AnswerToken,
           AddDocument, storeVars
<1> QED BY <1>1, StoreStays

\* One queue changes.
LEMMA QueueChanges ==
    ASSUME TypeOK, Bounded(Ends), NEW u \in User, NEW q \in Seq(Batch),
           queue' = [queue EXCEPT ![u] = q]
    PROVE  Bounded(Ends')
<1>1. \A v \in User : queue[v] \in Seq(Batch) /\ queue'[v] \in Seq(Batch)
    BY DEF TypeOK
<1>2. \A v \in User : Ends[v] = NextId(queue[v]) /\ Ends'[v] = NextId(queue'[v])
    BY DEF Ends
<1>3. \A v \in User : Ends[v] \in Nat /\ Ends'[v] \in Nat
    BY <1>1, <1>2, NextIdType
<1>4. \A v \in User \ {u} : Ends'[v] = Ends[v]
    BY <1>2 DEF TypeOK
<1> QED BY <1>3, <1>4, StaysBounded

LEMMA WriteKeeps == TypeOK /\ StoreOK /\ WriteMutations => TypeOK' /\ StoreOK'
<1> SUFFICES ASSUME TypeOK, StoreOK, WriteMutations PROVE TypeOK' /\ StoreOK'
    OBVIOUS
<1> DEFINE q == queue[currentUser]
           b == [id |-> nextBatchId, write |-> Head(worker).write]
           added == Added(pipeline, Append(q, b))
<1>1. b \in Batch
    BY TasksType DEF WriteMutations, TypeOK, Batch
<1>2. q \in Seq(Batch) /\ Increasing(q) /\ currentUser \in User /\ pipeline = Front(q)
    BY DEF TypeOK, StoreOK
<1>3. \A i \in 1..Len(q) : q[i].id < b.id
    BY DEF StoreOK
<1>4. queue' = [queue EXCEPT ![currentUser] = Append(q, b)]
    BY DEF WriteMutations
<1>5. /\ queue'[currentUser] = Append(q, b) /\ currentUser' = currentUser
      /\ nextBatchId' = nextBatchId + 1
    BY <1>4, <1>2 DEF WriteMutations, TypeOK
<1>6. FillWritePipeline(pipeline, Append(q, b))
    BY <1>5 DEF WriteMutations
<1>7. /\ Append(q, b) \in Seq(Batch) /\ Increasing(Append(q, b))
      /\ added \in Seq(Batch) /\ pipeline \o added = Front(Append(q, b))
    <2> HIDE DEF q, b
    <2> QED BY <1>1, <1>2, <1>3, FrontGrows
<1>8. pipeline' = pipeline \o added /\ MaybeStart(pipeline \o added, stream, request)
    BY <1>6 DEF FillWritePipeline
<1>9. StoreOK'
    <2>1. Bounded(Ends')
        <3> HIDE DEF q, b
        <3> QED BY <1>2, <1>4, <1>7, QueueChanges DEF StoreOK
    <2>2. \A u \in User : Increasing(queue'[u])
        <3> HIDE DEF b
        <3> QED BY <1>4, <1>7 DEF StoreOK, TypeOK
    <2>3. \A i \in 1..Len(Append(q, b)) : Append(q, b)[i].id < nextBatchId + 1
        <3> SUFFICES ASSUME NEW i \in 1..Len(Append(q, b))
                     PROVE  Append(q, b)[i].id < nextBatchId + 1
            OBVIOUS
        <3>1. CASE i <= Len(q)
            <4>1. Append(q, b)[i] = q[i] /\ i \in 1..Len(q)
                BY <3>1, <1>2
            <4>2. q[i] \in Batch
                BY <4>1, <1>2
            <4> QED BY <4>1, <4>2, <1>3, BatchType DEF TypeOK
        <3>2. CASE i = Len(q) + 1
            BY <3>2, <1>2 DEF TypeOK
        <3> QED BY <3>1, <3>2, <1>2
    <2>4. Bounded(Ends)' <=> Bounded(Ends')
        BY DEF Bounded
    <2> HIDE DEF q, b, added
    <2> QED BY <1>5, <1>7, <1>8, <2>1, <2>2, <2>3, <2>4 DEF StoreOK
<1>10. TypeOK'
    <2>1. request' \in [Request -> Record] /\ stream' \in StreamState
        <3> HIDE DEF q, b, added
        <3> QED BY <1>8, TypesSplit, Starts DEF Types
    <2>2. worker' \in Seq(Task)
        BY TasksType DEF WriteMutations, Runs
    <2>3. queue' \in [User -> Seq(Batch)]
        <3> HIDE DEF q, b
        <3> QED BY <1>4, <1>7 DEF TypeOK
    <2>4. pipeline' \in Seq(Batch)
        <3> HIDE DEF q, b, added
        <3> QED BY <1>7, <1>8, ConcatProperties DEF TypeOK
    <2>5. callbacks' \in [User -> SUBSET Batch]
        <3>1. callbacks' = callbacks \/
              callbacks' = [callbacks EXCEPT ![currentUser] = @ \cup {b}]
            BY DEF WriteMutations
        <3>2. /\ callbacks \in [User -> SUBSET Batch] /\ currentUser \in User
              /\ callbacks[currentUser] \cup {b} \in SUBSET Batch
            BY <1>1 DEF TypeOK
        <3> HIDE DEF b
        <3> QED BY <3>1, <3>2
    <2>6. wire' \in Seq(Batch \cup {Hello}) /\ idle' \in BOOLEAN
        <3>1. wire' = wire \/ wire' = wire \o added
            BY <1>6 DEF FillWritePipeline
        <3>2. added \in Seq(Batch \cup {Hello})
            <4> HIDE DEF added
            <4> QED BY <1>7
        <3>3. idle' \in BOOLEAN
            BY <1>6 DEF FillWritePipeline
        <3>4. wire \in Seq(Batch \cup {Hello})
            BY DEF TypeOK
        <3> HIDE DEF added
        <3>5. wire \o added \in Seq(Batch \cup {Hello})
            BY <3>2, <3>4, ConcatProperties
        <3> QED BY <3>1, <3>3, <3>4, <3>5
    <2>7. UNCHANGED <<authUser, main, called, currentUser, conn, handshake, answers,
                      stored, told, acked, rejected>> /\ nextBatchId' = nextBatchId + 1
        BY DEF WriteMutations, authVars, fateVars
    <2> QED BY <2>1, <2>2, <2>3, <2>4, <2>5, <2>6, <2>7 DEF TypeOK, Record, StreamState
<1> QED BY <1>9, <1>10

LEMMA NoStreamType ==
    TypeOK /\ NoStream => /\ conn' \in User \cup {None} /\ handshake' \in BOOLEAN
                          /\ idle' \in BOOLEAN /\ wire' \in Seq(Batch \cup {Hello})
                          /\ answers' \in Seq({"hello", "result", "refused"})
BY EmptySeq DEF NoStream

LEMMA ChangeKeeps ==
    TypeOK /\ StoreOK /\ HandleCredentialChange => TypeOK' /\ StoreOK'
<1> SUFFICES ASSUME TypeOK, StoreOK, HandleCredentialChange PROVE TypeOK' /\ StoreOK'
    OBVIOUS
<1> DEFINE u == Head(worker).user
           p == Added(<<>>, queue[u])
<1>1. u \in User /\ currentUser' = u /\ queue' = queue
    BY TasksType DEF HandleCredentialChange
<1>2. p \in Seq(Batch) /\ p = Front(queue[u])
    <2>1. queue[u] \in Seq(Batch) /\ Increasing(queue[u])
        BY <1>1 DEF TypeOK, StoreOK
    <2> QED BY <2>1, FrontAnew
<1>3. RestartStreams(queue[u])
    BY DEF HandleCredentialChange
<1>4. /\ pipeline' = p /\ NoStream
      /\ MaybeStart(p, IF IsStarted THEN "Initial" ELSE stream,
                    IF IsStarted THEN Closed(request) ELSE request)
    BY <1>3 DEF RestartStreams
<1>5. /\ LoadNextBatchId \in Nat \ {0}
      /\ \A v \in User : \A i \in 1..Len(queue[v]) : queue[v][i].id < LoadNextBatchId
    BY LoadedIsNew DEF StoreOK
<1>6. nextBatchId' = IF u = currentUser THEN nextBatchId ELSE LoadNextBatchId
    BY DEF HandleCredentialChange
<1>7. StoreOK'
    <2>1. Bounded(Ends)'
        BY <1>1 DEF StoreOK, Ends, Bounded
    <2>2. \A i \in 1..Len(queue[u]) : queue[u][i].id < nextBatchId'
        <3> HIDE DEF u
        <3> QED BY <1>1, <1>5, <1>6 DEF StoreOK
    <2> HIDE DEF u, p
    <2> QED BY <1>1, <1>2, <1>4, <2>1, <2>2 DEF StoreOK
<1>8. TypeOK'
    <2>1. request' \in [Request -> Record] /\ stream' \in StreamState
        <3>1. /\ (IF IsStarted THEN Closed(request) ELSE request) \in [Request -> Record]
              /\ (IF IsStarted THEN "Initial" ELSE stream) \in StreamState
            BY TypesSplit, ClosedType DEF Types, StreamState
        <3> HIDE DEF p, u
        <3> QED BY <1>4, <3>1, Starts
    <2>2. worker' \in Seq(Task)
        BY TasksType DEF HandleCredentialChange, Runs
    <2>3. nextBatchId' \in Nat \ {0}
        BY <1>5, <1>6 DEF TypeOK
    <2>4. UNCHANGED <<authUser, main, called, queue, callbacks, stored, told, acked,
                      rejected>>
        BY DEF HandleCredentialChange, authVars, fateVars
    <2> HIDE DEF u, p
    <2> QED BY <1>1, <1>2, <1>4, <2>1, <2>2, <2>3, <2>4, NoStreamType
            DEF TypeOK, Record, StreamState
<1> QED BY <1>7, <1>8

LEMMA NotifyType ==
    ASSUME TypeOK, NEW id, NEW verdict \in {"ok", "error"}, NotifyUser(id, verdict)
    PROVE  /\ callbacks' \in [User -> SUBSET Batch]
           /\ told' \in [Write -> {"nothing", "ok", "error"}]
<1>1. callbacks' \in [User -> SUBSET Batch]
    <2>1. callbacks \in [User -> SUBSET Batch] /\ currentUser \in User
        BY DEF TypeOK
    <2> QED BY <2>1 DEF NotifyUser
<1>2. told' \in [Write -> {"nothing", "ok", "error"}]
    BY DEF NotifyUser, TypeOK
<1> QED BY <1>1, <1>2

\* The first batch leaves queue and pipeline, which is filled again.
LEMMA SettledKeeps ==
    ASSUME TypeOK, StoreOK, pipeline # <<>>,
           queue' = [queue EXCEPT ![currentUser] = Without(@, Head(pipeline).id)],
           UNCHANGED <<currentUser, nextBatchId>>,
           pipeline' = Tail(pipeline) \o Added(Tail(pipeline), queue'[currentUser])
    PROVE  /\ StoreOK' /\ pipeline' \in Seq(Batch) /\ queue' \in [User -> Seq(Batch)]
           /\ queue'[currentUser] = Tail(queue[currentUser])
           /\ Added(Tail(pipeline), queue'[currentUser]) \in Seq(Batch)
           /\ Head(pipeline) = queue[currentUser][1] /\ queue[currentUser] # <<>>
           /\ Head(pipeline) \in Batch
<1> DEFINE q == queue[currentUser]
<1>1. q \in Seq(Batch) /\ Increasing(q) /\ currentUser \in User /\ pipeline = Front(q)
    BY DEF TypeOK, StoreOK
<1>2. /\ q # <<>> /\ Head(pipeline) = q[1]
      /\ Without(q, Head(pipeline).id) = Tail(q)
      /\ Tail(q) \in Seq(Batch) /\ Increasing(Tail(q))
      /\ Tail(pipeline) \in Seq(Batch)
      /\ Added(Tail(pipeline), Tail(q)) \in Seq(Batch)
      /\ Tail(pipeline) \o Added(Tail(pipeline), Tail(q)) = Front(Tail(q))
    <2> HIDE DEF q
    <2> QED BY <1>1, FirstLeaves
<1>3. queue' = [queue EXCEPT ![currentUser] = Tail(q)]
    BY <1>2
<1>4. queue' \in [User -> Seq(Batch)] /\ queue'[currentUser] = Tail(q)
    <2> HIDE DEF q
    <2>1. queue \in [User -> Seq(Batch)] /\ currentUser \in User /\ Tail(q) \in Seq(Batch)
        BY <1>2 DEF TypeOK
    <2> QED BY <1>3, <2>1
<1>5. pipeline' = Front(Tail(q)) /\ pipeline' \in Seq(Batch)
    <2> HIDE DEF q
    <2>1. pipeline' = Tail(pipeline) \o Added(Tail(pipeline), Tail(q))
        BY <1>4
    <2> QED BY <1>2, <2>1, ConcatProperties
<1>6. StoreOK'
    <2>1. Bounded(Ends')
        <3> HIDE DEF q
        <3> QED BY <1>1, <1>2, <1>3, QueueChanges DEF StoreOK
    <2>2. \A u \in User : Increasing(queue'[u])
        <3> HIDE DEF q
        <3> QED BY <1>2, <1>3 DEF StoreOK, TypeOK
    <2>3. \A i \in 1..Len(Tail(q)) : Tail(q)[i].id < nextBatchId
        <3>1. \A i \in 1..Len(Tail(q)) : Tail(q)[i] = q[i + 1] /\ i + 1 \in 1..Len(q)
            BY <1>1, <1>2
        <3> QED BY <3>1 DEF StoreOK
    <2>4. Bounded(Ends)' <=> Bounded(Ends')
        BY DEF Bounded
    <2> HIDE DEF q
    <2> QED BY <1>4, <1>5, <2>1, <2>2, <2>3, <2>4 DEF StoreOK
<1>7. Head(pipeline) \in Batch
    BY <1>1, <1>2
<1> QED BY <1>2, <1>4, <1>5, <1>6, <1>7

LEMMA WriteOf ==
    ASSUME TypeOK, NEW b \in Batch, NEW f \in [User -> SUBSET Write]
    PROVE  [f EXCEPT ![currentUser] = @ \cup {b.write}] \in [User -> SUBSET Write]
<1>1. f[currentUser] \cup {b.write} \in SUBSET Write /\ currentUser \in User
    BY BatchType DEF TypeOK
<1> QED BY <1>1

LEMMA ResultKeeps ==
    TypeOK /\ StoreOK /\ OnWriteStreamMutationResult => TypeOK' /\ StoreOK'
<1> SUFFICES ASSUME TypeOK, StoreOK, OnWriteStreamMutationResult
             PROVE  TypeOK' /\ StoreOK'
    OBVIOUS
<1> DEFINE added == Added(Tail(pipeline), queue'[currentUser])
<1>1. /\ pipeline # <<>> /\ answers # <<>>
      /\ queue' = [queue EXCEPT ![currentUser] = Without(@, Head(pipeline).id)]
      /\ UNCHANGED <<currentUser, nextBatchId>>
      /\ NotifyUser(Head(pipeline).id, "ok")
      /\ FillWritePipeline(Tail(pipeline), queue'[currentUser])
    BY DEF OnWriteStreamMutationResult
<1>2. /\ pipeline' = Tail(pipeline) \o added
      /\ MaybeStart(Tail(pipeline) \o added, stream, request)
      /\ wire' = wire \/ wire' = wire \o added
      /\ idle' \in BOOLEAN
    BY <1>1 DEF FillWritePipeline
<1>3. /\ StoreOK' /\ pipeline' \in Seq(Batch) /\ queue' \in [User -> Seq(Batch)]
      /\ added \in Seq(Batch) /\ Head(pipeline) \in Batch
    BY <1>1, <1>2, SettledKeeps
<1>4. TypeOK'
    <2>1. request' \in [Request -> Record] /\ stream' \in StreamState
        <3> HIDE DEF added
        <3> QED BY <1>2, TypesSplit, Starts DEF Types
    <2>2. wire' \in Seq(Batch \cup {Hello})
        <3> HIDE DEF added
        <3>1. wire \in Seq(Batch \cup {Hello}) /\ added \in Seq(Batch \cup {Hello})
            BY <1>3 DEF TypeOK
        <3>2. wire \o added \in Seq(Batch \cup {Hello})
            BY <3>1, ConcatProperties
        <3> QED BY <1>2, <3>1, <3>2
    <2>3. answers' \in Seq({"hello", "result", "refused"})
        BY <1>1 DEF OnWriteStreamMutationResult, TypeOK
    <2>4. acked' \in [User -> SUBSET Write]
        <3>1. acked' = [acked EXCEPT ![currentUser] = @ \cup {Head(pipeline).write}]
            BY DEF OnWriteStreamMutationResult
        <3>2. acked \in [User -> SUBSET Write]
            BY DEF TypeOK
        <3> QED BY <1>3, <3>1, <3>2, WriteOf
    <2>5. UNCHANGED <<authUser, main, worker, called, stored, currentUser, nextBatchId,
                      conn, handshake, rejected>>
        BY DEF OnWriteStreamMutationResult, elsewhere, authVars
    <2> HIDE DEF added
    <2> QED BY <1>1, <1>2, <1>3, <2>1, <2>2, <2>3, <2>4, <2>5, NotifyType
            DEF TypeOK, Record, StreamState
<1> QED BY <1>3, <1>4

LEMMA ErrorKeeps ==
    TypeOK /\ StoreOK /\ HandleWriteError => TypeOK' /\ StoreOK'
<1> SUFFICES ASSUME TypeOK, StoreOK, HandleWriteError PROVE TypeOK' /\ StoreOK'
    OBVIOUS
<1> DEFINE rest == Without(queue[currentUser], Head(pipeline).id)
           p == Tail(pipeline) \o Added(Tail(pipeline), rest)
<1>1. /\ pipeline # <<>>
      /\ queue' = [queue EXCEPT ![currentUser] = rest]
      /\ UNCHANGED <<currentUser, nextBatchId>>
      /\ NotifyUser(Head(pipeline).id, "error")
      /\ NoStream /\ pipeline' = p
      /\ MaybeStart(p, "Initial", Closed(request))
    BY DEF HandleWriteError
<1>2. queue'[currentUser] = rest
    BY <1>1 DEF TypeOK
<1>3. /\ StoreOK' /\ pipeline' \in Seq(Batch) /\ queue' \in [User -> Seq(Batch)]
      /\ Head(pipeline) \in Batch
    BY <1>1, <1>2, SettledKeeps
<1>4. TypeOK'
    <2>1. request' \in [Request -> Record] /\ stream' \in StreamState
        <3>1. Closed(request) \in [Request -> Record] /\ "Initial" \in StreamState
            BY TypesSplit, ClosedType DEF Types, StreamState
        <3> HIDE DEF p
        <3> QED BY <1>1, <3>1, Starts
    <2>2. rejected' \in [User -> SUBSET Write]
        <3>1. rejected' = [rejected EXCEPT ![currentUser] = @ \cup {Head(pipeline).write}]
            BY DEF HandleWriteError
        <3>2. rejected \in [User -> SUBSET Write]
            BY DEF TypeOK
        <3> QED BY <1>3, <3>1, <3>2, WriteOf
    <2>3. UNCHANGED <<authUser, main, worker, called, stored, currentUser, nextBatchId,
                      acked>>
        BY DEF HandleWriteError, elsewhere, authVars
    <2> HIDE DEF p, rest
    <2> QED BY <1>1, <1>3, <2>1, <2>2, <2>3, NotifyType, NoStreamType
            DEF TypeOK, Record, StreamState
<1> QED BY <1>3, <1>4

LEMMA RestartKeeps == TypeOK /\ StoreOK /\ Restart => TypeOK' /\ StoreOK'
<1> SUFFICES ASSUME TypeOK, StoreOK, Restart PROVE TypeOK' /\ StoreOK'
    OBVIOUS
<1>1. currentUser' \in User /\ queue' = queue /\ main' \in Seq(MainBlock)
    <2>1. authUser \in User /\ [kind |-> "user", user |-> authUser] \in MainBlock
        BY DEF TypeOK, MainBlock
    <2>2. \A m \in MainBlock : <<m>> \in Seq(MainBlock)
        OBVIOUS
    <2>3. <<[kind |-> "user", user |-> authUser]>> \in Seq(MainBlock)
        BY <2>1, <2>2
    <2>4. main' \in Seq(MainBlock)
        BY <2>3, EmptySeq DEF Restart
    <2>5. currentUser' \in User /\ queue' = queue
        BY <2>1, PipelineAssumption DEF Restart
    <2> QED BY <2>4, <2>5
<1>2. /\ Added(<<>>, queue[currentUser']) \in Seq(Batch)
      /\ Added(<<>>, queue[currentUser']) = Front(queue[currentUser'])
    <2>1. queue[currentUser'] \in Seq(Batch) /\ Increasing(queue[currentUser'])
        BY <1>1 DEF TypeOK, StoreOK
    <2> QED BY <2>1, FrontAnew
<1>3. /\ pipeline' = Front(queue[currentUser']) /\ pipeline' \in Seq(Batch)
      /\ NoStream /\ nextBatchId' = LoadNextBatchId
      /\ MaybeStart(pipeline', "Initial", NoRequests)
    BY <1>2 DEF Restart, NoRequests
<1>4. /\ LoadNextBatchId \in Nat \ {0}
      /\ \A v \in User : \A i \in 1..Len(queue[v]) : queue[v][i].id < LoadNextBatchId
    BY LoadedIsNew DEF StoreOK
<1>5. StoreOK'
    <2>1. Bounded(Ends)'
        BY <1>1 DEF StoreOK, Ends, Bounded
    <2> QED BY <1>1, <1>3, <1>4, <2>1 DEF StoreOK
<1>6. TypeOK'
    <2>1. request' \in [Request -> Record] /\ stream' \in StreamState
        <3>1. NoRequests \in [Request -> Record] /\ "Initial" \in StreamState
            BY NoRequestType DEF StreamState
        <3> QED BY <1>3, <3>1, Starts
    <2>2. worker' \in Seq(Task) /\ callbacks' \in [User -> SUBSET Batch]
        BY EmptySeq DEF Restart
    <2>3. UNCHANGED <<authUser, called, queue, stored, told, acked, rejected>>
        BY DEF Restart, fateVars
    <2> QED BY <1>1, <1>3, <1>4, <2>1, <2>2, <2>3, NoStreamType
            DEF TypeOK, Record, StreamState
<1> QED BY <1>5, <1>6

\* What leaves the queues alone: the stream, and a token that arrives.
Plain == \/ ResumeStart \/ OnWriteStreamOpen \/ OnWriteStreamHandshakeComplete
         \/ OnWriteStreamClose \/ BackoffElapsed \/ IdleTimeout \/ Serve

LEMMA FailType ==
    ASSUME TypeOK, NEW r \in [Request -> Record], FailStream(r)
    PROVE  request' \in [Request -> Record] /\ stream' \in StreamState
<1>1. Closed(r) \in [Request -> Record] /\ "Error" \in StreamState
    BY ClosedType DEF StreamState
<1> QED BY <1>1, Starts DEF FailStream

LEMMA DroppedType ==
    ASSUME TypeOK, NEW k \in Request
    PROVE  [request EXCEPT ![k] = NoRequest] \in [Request -> Record]
BY TypesSplit, NoRequestType DEF Types

LEMMA PlainType == TypeOK /\ Plain => TypeOK'
<1> SUFFICES ASSUME TypeOK, Plain PROVE TypeOK'
    OBVIOUS
<1>0. request \in [Request -> Record] /\ stream \in StreamState
    BY TypesSplit DEF Types
<1>1. CASE ResumeStart
    <2> DEFINE k == Head(worker).request
    <2>1. k \in Request /\ worker' \in Seq(Task)
        BY <1>1, TasksType DEF ResumeStart, Runs
    <2>2. [request EXCEPT ![k] = NoRequest] \in [Request -> Record]
        BY <2>1, DroppedType
    <2>3. UNCHANGED <<authVars, called, storeVars, stored, fateVars, pipeline>>
        BY <1>1 DEF ResumeStart, FailStream
    <2>4. CASE request' = [request EXCEPT ![k] = NoRequest] /\ UNCHANGED streamVars
        BY <2>1, <2>2, <2>3, <2>4
           DEF TypeOK, Record, authVars, storeVars, fateVars, streamVars
    <2>5. CASE FailStream([request EXCEPT ![k] = NoRequest])
        <3>1. request' \in [Request -> Record] /\ stream' \in StreamState
            BY <2>2, <2>5, FailType
        <3>2. NoStream
            BY <2>5 DEF FailStream
        <3> QED BY <2>1, <2>3, <3>1, <3>2, NoStreamType
                DEF TypeOK, Record, StreamState, authVars, storeVars, fateVars
    <2>6. CASE /\ conn' = request[k].user /\ request' = [request EXCEPT ![k] = NoRequest]
               /\ UNCHANGED <<stream, handshake, idle, wire, answers>>
        <3>1. conn' \in User \cup {None}
            BY <1>0, <2>1, <2>6 DEF Record
        <3> QED BY <2>1, <2>2, <2>3, <2>6, <3>1
                DEF TypeOK, Record, authVars, storeVars, fateVars
    <2> QED BY <1>1, <2>4, <2>5, <2>6 DEF ResumeStart
<1>2. CASE OnWriteStreamOpen
    <2>1. wire' \in Seq(Batch \cup {Hello})
        <3>1. \A S : \A x \in S : <<x>> \in Seq(S)
            OBVIOUS
        <3>2. wire' = <<Hello>> /\ Hello \in Batch \cup {Hello}
            BY <1>2 DEF OnWriteStreamOpen
        <3> QED BY <3>1, <3>2
    <2> QED BY <1>2, <2>1
            DEF OnWriteStreamOpen, TypeOK, elsewhere, authVars, storeVars, fateVars
<1>3. CASE OnWriteStreamHandshakeComplete
    <2>1. wire' \in Seq(Batch \cup {Hello})
        <3>1. wire \in Seq(Batch \cup {Hello}) /\ pipeline \in Seq(Batch \cup {Hello})
            BY DEF TypeOK
        <3>2. wire \o pipeline \in Seq(Batch \cup {Hello})
            BY <3>1, ConcatProperties
        <3> QED BY <1>3, <3>2 DEF OnWriteStreamHandshakeComplete
    <2>2. answers' \in Seq({"hello", "result", "refused"})
        BY <1>3 DEF OnWriteStreamHandshakeComplete, TypeOK
    <2> QED BY <1>3, <2>1, <2>2
            DEF OnWriteStreamHandshakeComplete, TypeOK, elsewhere, authVars, storeVars,
                fateVars
<1>4. CASE OnWriteStreamClose
    <2>1. FailStream(request)
        BY <1>4 DEF OnWriteStreamClose
    <2>2. request' \in [Request -> Record] /\ stream' \in StreamState
        BY <1>0, <2>1, FailType
    <2>3. NoStream /\ UNCHANGED pipeline
        BY <2>1 DEF FailStream
    <2> QED BY <1>4, <2>2, <2>3, NoStreamType
            DEF OnWriteStreamClose, TypeOK, Record, StreamState, elsewhere, authVars,
                storeVars, fateVars
<1>5. CASE BackoffElapsed
    <2>1. request' \in [Request -> Record]
        <3>1. \E k \in Request : request' = [request EXCEPT ![k] = Asked]
            BY <1>5 DEF BackoffElapsed, RequestCredentials
        <3>2. Asked \in Record
            BY DEF Asked, NoRequest, Record
        <3> QED BY <1>0, <3>1, <3>2
    <2> QED BY <1>5, <2>1
            DEF BackoffElapsed, TypeOK, Record, elsewhere, authVars, storeVars, fateVars
<1>6. CASE IdleTimeout
    <2>1. request' \in [Request -> Record] /\ stream' \in StreamState
        <3>1. Closed(request) \in [Request -> Record] /\ "Initial" \in StreamState
            BY <1>0, ClosedType DEF StreamState
        <3> QED BY <1>6, <3>1, Starts DEF IdleTimeout
    <2> QED BY <1>6, <2>1, NoStreamType
            DEF IdleTimeout, TypeOK, Record, StreamState, elsewhere, authVars, storeVars,
                fateVars
<1>7. CASE Serve
    <2>1. Head(wire) \in Batch \cup {Hello} /\ wire' \in Seq(Batch \cup {Hello})
        BY <1>7 DEF Serve, TypeOK
    <2>2. answers' \in Seq({"hello", "result", "refused"})
        <3>1. \E a \in {"hello", "result", "refused"} : answers' = Append(answers, a)
            BY <1>7 DEF Serve
        <3>2. answers \in Seq({"hello", "result", "refused"})
            BY DEF TypeOK
        <3> QED BY <3>1, <3>2
    <2>3. stored' \in [User -> Write \cup {0}]
        <3>1. CASE stored' = stored
            BY <3>1 DEF TypeOK
        <3>2. CASE Head(wire) # Hello /\ stored' = [stored EXCEPT ![conn] = Head(wire).write]
            <4>1. Head(wire).write \in Write \cup {0}
                BY <2>1, <3>2, BatchType
            <4> QED BY <3>2, <4>1 DEF TypeOK
        <3> QED BY <1>7, <3>1, <3>2 DEF Serve
    <2> QED BY <1>7, <2>1, <2>2, <2>3 DEF Serve, TypeOK, authVars, storeVars, fateVars
<1> QED BY <1>1, <1>2, <1>3, <1>4, <1>5, <1>6, <1>7 DEF Plain

LEMMA PlainStore == StoreOK /\ Plain => StoreOK'
<1> SUFFICES ASSUME StoreOK, Plain PROVE StoreOK'
    OBVIOUS
<1>1. UNCHANGED <<currentUser, queue, nextBatchId, pipeline>>
    BY DEF Plain, ResumeStart, OnWriteStreamOpen, OnWriteStreamHandshakeComplete,
           OnWriteStreamClose, BackoffElapsed, IdleTimeout, Serve, FailStream, storeVars
<1> QED BY <1>1, StoreStays

LEMMA NextSplit ==
    Next => \/ Client \/ WriteMutations \/ HandleCredentialChange
            \/ OnWriteStreamMutationResult \/ HandleWriteError \/ Restart \/ Plain
BY DEF Next, Client, Plain, RunTask, StreamEvent

LEMMA Unchanged == UNCHANGED vars => UNCHANGED <<authUser, main, request, worker, called,
    currentUser, queue, nextBatchId, callbacks, told, pipeline, stream, conn, handshake,
    idle, wire, answers, stored, acked, rejected>>
BY DEF vars, authVars, storeVars, streamVars, fateVars

LEMMA StoreStep == TypeOK /\ StoreOK /\ [Next]_vars => TypeOK' /\ StoreOK'
<1> SUFFICES ASSUME TypeOK, StoreOK, [Next]_vars PROVE TypeOK' /\ StoreOK'
    OBVIOUS
<1>1. CASE UNCHANGED vars
    BY <1>1, Unchanged, StoreStays DEF TypeOK
<1>2. CASE Next
    BY <1>2, NextSplit, ClientType, ClientStore, WriteKeeps, ChangeKeeps, ResultKeeps,
       ErrorKeeps, RestartKeeps, PlainType, PlainStore
<1> QED BY <1>1, <1>2

\* Types are correct, and the ids of every mutation queue rise (LoadNextBatchIdFromDb
\* never gives an id that is in use).
THEOREM StoreCorrect == Spec => [](TypeOK /\ StoreOK)
BY StoreInit, StoreStep, PTL DEF Spec

\* Types of the write path, whatever the users, writes, requests and bounds.
THEOREM TypeCorrect == Spec => []TypeOK
BY StoreCorrect, PTL

\* The pipeline is the first part of the mutation queue in use (AddToWritePipeline,
\* FillWritePipeline and the restarts of the streams keep it so).
THEOREM PipelineCorrect == Spec => []PipelineIsPrefix
<1>1. TypeOK /\ StoreOK => PipelineIsPrefix
    BY DEF StoreOK, Front, PipelineIsPrefix
<1> QED BY <1>1, StoreCorrect, PTL

-----------------------------------------------------------------------------
(***************************************************************************)
(* Tokens.  A request that is still of use belongs to the stream that      *)
(* starts, and there is one at most; where its token is, its stage says.   *)
(***************************************************************************)
InUse(r) == r.stage # "none" /\ ~r.closed

RequestOK ==
    /\ \A k \in Request : InUse(request[k]) => stream = "Starting" /\ conn = None
    /\ \A k, l \in Request : InUse(request[k]) /\ InUse(request[l]) => k = l
    /\ conn # None => stream \in {"Starting", "Open"}

IsToken(block, k) == block.kind = "token" /\ block.request = k

TokensOK ==
    /\ \A i \in 1..Len(main) : main[i].kind = "token" =>
           request[main[i].request].stage = "main"
    /\ \A i \in 1..Len(worker) : worker[i].kind = "token" =>
           request[worker[i].request].stage = "worker"
    /\ \A i, j \in 1..Len(main), k \in Request :
           IsToken(main[i], k) /\ IsToken(main[j], k) => i = j
    /\ \A i, j \in 1..Len(worker), k \in Request :
           IsToken(worker[i], k) /\ IsToken(worker[j], k) => i = j

(***************************************************************************)
(* Users.  What the client has yet to hear ends with FIRAuth's user.       *)
(***************************************************************************)
NoUser(s) == \A i \in 1..Len(s) : s[i].kind # "user"
LastUser(s, u) == \E i \in 1..Len(s) :
    /\ s[i].kind = "user" /\ s[i].user = u
    /\ \A j \in i + 1..Len(s) : s[j].kind # "user"

\* The client's user once its worker queue has run.
WillBe(u) == \/ NoUser(worker) /\ currentUser = u
             \/ LastUser(worker, u)

UserOK == \/ NoUser(main) /\ WillBe(authUser)
          \/ LastUser(main, authUser)

\* A token of use is that of the user the client will have when it arrives.
TokenOf(k) ==
    LET r == request[k] IN
    /\ r.stage = "read" /\ NoUser(main) => WillBe(r.user)
    /\ \A i \in 1..Len(main) :
          IsToken(main[i], k) /\ (\A j \in 1..i - 1 : main[j].kind # "user") =>
              WillBe(r.user)
    /\ \A i \in 1..Len(worker) :
          IsToken(worker[i], k) /\ (\A j \in 1..i - 1 : worker[j].kind # "user") =>
              r.user = currentUser

CredOK == \A k \in Request :
    InUse(request[k]) /\ ~request[k].failed => TokenOf(k)

TokenInv == RequestOK /\ TokensOK /\ UserOK /\ CredOK /\ OwnToken

-----------------------------------------------------------------------------
(***************************************************************************)
(* The stream.  Once it is open, what is on its way to the backend and     *)
(* what the backend has answered are, together, the pipeline.              *)
(***************************************************************************)
Answered == \A i \in 1..Len(answers) :
    \/ answers[i] = "result"
    \/ answers[i] = "refused" /\ i = Len(answers)

StreamOK ==
    /\ stream # "Open" => /\ wire = <<>> /\ answers = <<>>
                          /\ ~handshake /\ ~idle
    /\ stream = "Open" => conn # None
    /\ stream = "Open" /\ ~handshake =>
           /\ ~idle
           /\ \/ wire = <<Hello>> /\ answers = <<>>
              \/ wire = <<>> /\ answers = <<"hello">>
    /\ handshake =>
           /\ Answered
           /\ Len(answers) + Len(wire) = Len(pipeline)
           /\ \A i \in 1..Len(wire) : wire[i] = pipeline[Len(answers) + i]
    /\ idle => pipeline = <<>>

-----------------------------------------------------------------------------
(***************************************************************************)
(* Queues of blocks and tasks.                                             *)
(***************************************************************************)
LEMMA TailOf ==
    ASSUME NEW S, NEW s \in Seq(S), s # <<>>
    PROVE  /\ Tail(s) \in Seq(S) /\ Len(s) \in Nat \ {0} /\ Len(Tail(s)) = Len(s) - 1
           /\ Head(s) = s[1]
           /\ \A i \in 1..Len(Tail(s)) : Tail(s)[i] = s[i + 1] /\ i + 1 \in 1..Len(s)
OBVIOUS

LEMMA AppendOf ==
    ASSUME NEW S, NEW s \in Seq(S), NEW e \in S
    PROVE  /\ Append(s, e) \in Seq(S) /\ Len(s) \in Nat
           /\ Len(Append(s, e)) = Len(s) + 1
           /\ Append(s, e)[Len(s) + 1] = e
           /\ \A i \in 1..Len(s) : Append(s, e)[i] = s[i]
OBVIOUS

LEMMA TailUser ==
    ASSUME NEW S, NEW s \in Seq(S), s # <<>>
    PROVE  /\ Head(s).kind # "user" =>
                 /\ NoUser(Tail(s)) <=> NoUser(s)
                 /\ \A u : LastUser(s, u) => LastUser(Tail(s), u)
           /\ \A u : LastUser(s, u) =>
                 \/ LastUser(Tail(s), u)
                 \/ NoUser(Tail(s)) /\ Head(s).user = u
<1>1. /\ Len(s) \in Nat \ {0} /\ Len(Tail(s)) = Len(s) - 1 /\ Head(s) = s[1]
      /\ \A i \in 1..Len(Tail(s)) : Tail(s)[i] = s[i + 1]
    BY TailOf
<1>2. ASSUME NEW u, LastUser(s, u)
      PROVE  \/ LastUser(Tail(s), u)
             \/ NoUser(Tail(s)) /\ Head(s).user = u /\ Head(s).kind = "user"
    <2>1. PICK i \in 1..Len(s) : /\ s[i].kind = "user" /\ s[i].user = u
                                 /\ \A j \in i + 1..Len(s) : s[j].kind # "user"
        BY <1>2 DEF LastUser
    <2>2. CASE i = 1
        BY <1>1, <2>1, <2>2 DEF NoUser
    <2>3. CASE i > 1
        <3>1. i - 1 \in 1..Len(Tail(s)) /\ Tail(s)[i - 1] = s[i]
            BY <1>1, <2>3
        <3>2. \A j \in (i - 1) + 1..Len(Tail(s)) : Tail(s)[j].kind # "user"
            BY <1>1, <2>1, <2>3
        <3> QED BY <2>1, <3>1, <3>2 DEF LastUser
    <2>4. i = 1 \/ i > 1
        BY <1>1
    <2> QED BY <2>2, <2>3, <2>4
<1>3. ASSUME Head(s).kind # "user" PROVE NoUser(Tail(s)) <=> NoUser(s)
    <2>1. ASSUME NoUser(Tail(s)), NEW i \in 1..Len(s) PROVE s[i].kind # "user"
        <3>1. CASE i = 1
            BY <1>1, <1>3, <3>1
        <3>2. CASE i > 1
            <4>1. i - 1 \in 1..Len(Tail(s)) /\ Tail(s)[i - 1] = s[i]
                BY <1>1, <3>2
            <4> QED BY <2>1, <4>1 DEF NoUser
        <3>3. i = 1 \/ i > 1
            BY <1>1
        <3> QED BY <3>1, <3>2, <3>3
    <2>2. NoUser(s) => NoUser(Tail(s))
        BY <1>1 DEF NoUser
    <2> QED BY <2>1, <2>2 DEF NoUser
<1> QED BY <1>2, <1>3

LEMMA AppendUser ==
    ASSUME NEW S, NEW s \in Seq(S), NEW e \in S
    PROVE  /\ e.kind = "user" => LastUser(Append(s, e), e.user)
           /\ NoUser(Append(s, e)) => NoUser(s)
           /\ e.kind # "user" =>
                 /\ NoUser(s) => NoUser(Append(s, e))
                 /\ \A u : LastUser(s, u) => LastUser(Append(s, e), u)
<1>1. /\ Len(s) \in Nat /\ Len(Append(s, e)) = Len(s) + 1
      /\ Append(s, e)[Len(s) + 1] = e
      /\ \A i \in 1..Len(s) : Append(s, e)[i] = s[i]
    BY AppendOf
<1>2. ASSUME e.kind = "user" PROVE LastUser(Append(s, e), e.user)
    BY <1>1, <1>2 DEF LastUser
<1>3. NoUser(Append(s, e)) => NoUser(s)
    BY <1>1 DEF NoUser
<1>4. ASSUME e.kind # "user", NoUser(s) PROVE NoUser(Append(s, e))
    BY <1>1, <1>4 DEF NoUser
<1>5. ASSUME e.kind # "user", NEW u, LastUser(s, u) PROVE LastUser(Append(s, e), u)
    <2>1. PICK i \in 1..Len(s) : /\ s[i].kind = "user" /\ s[i].user = u
                                 /\ \A j \in i + 1..Len(s) : s[j].kind # "user"
        BY <1>5 DEF LastUser
    <2>2. \A j \in i + 1..Len(s) + 1 : Append(s, e)[j].kind # "user"
        BY <1>1, <1>5, <2>1
    <2> QED BY <1>1, <2>1, <2>2 DEF LastUser
<1> QED BY <1>2, <1>3, <1>4, <1>5

LEMMA NotBoth == ASSUME NEW s, NEW u, LastUser(s, u) PROVE ~NoUser(s)
BY DEF LastUser, NoUser

\* How WillBe goes on.
LEMMA WillBeAdded ==
    ASSUME TypeOK, NEW e \in Task, worker' = Append(worker, e), currentUser' = currentUser
    PROVE  /\ e.kind = "user" => WillBe(e.user)'
           /\ e.kind # "user" => \A u : WillBe(u) => WillBe(u)'
<1>1. worker \in Seq(Task)
    BY DEF TypeOK
<1> QED BY <1>1, AppendUser DEF WillBe

LEMMA WillBeRun ==
    ASSUME TypeOK, worker # <<>>, worker' = Tail(worker),
           IF Head(worker).kind = "user" THEN currentUser' = Head(worker).user
           ELSE currentUser' = currentUser
    PROVE  \A u : WillBe(u) => WillBe(u)'
<1>1. worker \in Seq(Task)
    BY DEF TypeOK
<1>2. CASE Head(worker).kind = "user"
    <2>1. ~NoUser(worker)
        <3>1. Head(worker) = worker[1] /\ 1 \in 1..Len(worker)
            BY <1>1, TailOf
        <3> QED BY <1>2, <3>1 DEF NoUser
    <2> QED BY <1>1, <1>2, <2>1, TailUser DEF WillBe
<1>3. CASE Head(worker).kind # "user"
    BY <1>1, <1>3, TailUser DEF WillBe
<1> QED BY <1>2, <1>3

-----------------------------------------------------------------------------
\* What changes the worker queue, and with it the user of the client.
LEMMA UserStep == TypeOK /\ UserOK /\ [Next]_vars => UserOK'
<1> SUFFICES ASSUME TypeOK, UserOK, [Next]_vars PROVE UserOK'
    OBVIOUS
<1>0. main \in Seq(MainBlock) /\ MainBlock \subseteq Task
    BY TasksType DEF TypeOK
<1>1. ASSUME NEW u \in User, ChangeUser(u) PROVE UserOK'
    <2> DEFINE e == [kind |-> "user", user |-> u]
    <2>1. e \in MainBlock /\ e.kind = "user" /\ e.user = u
        BY DEF MainBlock
    <2>2. main' = Append(main, e) /\ authUser' = u
        BY <1>1 DEF ChangeUser
    <2>3. LastUser(main', u)
        <3> HIDE DEF e
        <3> QED BY <1>0, <2>1, <2>2, AppendUser
    <2> QED BY <2>2, <2>3 DEF UserOK
<1>2. ASSUME NEW k \in Request, NEW error \in BOOLEAN, TokenCallback(k, error)
      PROVE  UserOK'
    <2> DEFINE e == [kind |-> "token", request |-> k]
    <2>1. e \in MainBlock /\ e.kind # "user"
        BY DEF MainBlock
    <2>2. main' = Append(main, e) /\ UNCHANGED <<authUser, worker, currentUser>>
        BY <1>2 DEF TokenCallback, storeVars
    <2> HIDE DEF e
    <2>3. /\ NoUser(main) => NoUser(main')
          /\ \A u : LastUser(main, u) => LastUser(main', u)
        BY <1>0, <2>1, <2>2, AppendUser
    <2> QED BY <2>2, <2>3 DEF UserOK, WillBe
<1>3. CASE Notify
    <2>1. /\ main # <<>> /\ Head(main).kind = "user" /\ main' = Tail(main)
          /\ worker' = Append(worker, Head(main))
          /\ authUser' = authUser /\ currentUser' = currentUser
        BY <1>3 DEF Notify, storeVars
    <2>2. ~NoUser(main)
        <3>1. Head(main) = main[1] /\ 1 \in 1..Len(main)
            BY <1>0, <2>1, TailOf
        <3> QED BY <2>1, <3>1 DEF NoUser
    <2>3. \/ LastUser(Tail(main), authUser)
          \/ NoUser(Tail(main)) /\ Head(main).user = authUser
        BY <1>0, <2>1, <2>2, TailUser DEF UserOK
    <2>4. NoUser(Tail(main)) /\ Head(main).user = authUser => WillBe(authUser)'
        <3>1. worker \in Seq(Task) /\ Head(main) \in Task
            BY <1>0, <2>1, TasksType DEF TypeOK
        <3>2. LastUser(Append(worker, Head(main)), Head(main).user)
            BY <2>1, <3>1, AppendUser
        <3> QED BY <2>1, <3>2 DEF WillBe
    <2> QED BY <2>1, <2>3, <2>4 DEF UserOK
<1>4. CASE AnswerToken
    <2>1. /\ main # <<>> /\ Head(main).kind # "user" /\ main' = Tail(main)
          /\ worker' = Append(worker, Head(main))
          /\ authUser' = authUser /\ currentUser' = currentUser
        BY <1>4 DEF AnswerToken, storeVars
    <2>2. Head(main) \in Task
        BY <1>0, <2>1, TasksType
    <2>3. WillBe(authUser) => WillBe(authUser)'
        <3>1. \A u : WillBe(u) => WillBe(u)'
            BY <2>1, <2>2, WillBeAdded
        <3> QED BY <2>1, <3>1 DEF WillBe
    <2>4. /\ NoUser(main) => NoUser(main')
          /\ \A u : LastUser(main, u) => LastUser(main', u)
        BY <1>0, <2>1, TailUser
    <2> QED BY <2>1, <2>3, <2>4 DEF UserOK
<1>5. CASE AddDocument
    <2> DEFINE e == [kind |-> "write", write |-> called + 1]
    <2>1. /\ e \in Task /\ e.kind # "user" /\ worker' = Append(worker, e)
          /\ UNCHANGED <<authUser, main, currentUser>>
        BY <1>5 DEF AddDocument, Task, authVars, storeVars
    <2> HIDE DEF e
    <2>2. \A u : WillBe(u) => WillBe(u)'
        BY <2>1, WillBeAdded
    <2> QED BY <2>1, <2>2 DEF UserOK, WillBe
<1>6. CASE RunTask
    <2>1. /\ worker # <<>> /\ worker' = Tail(worker)
          /\ UNCHANGED <<authUser, main>>
          /\ IF Head(worker).kind = "user" THEN currentUser' = Head(worker).user
             ELSE currentUser' = currentUser
        BY <1>6 DEF RunTask, WriteMutations, HandleCredentialChange, ResumeStart, Runs,
                    authVars, storeVars
    <2>2. \A u : WillBe(u) => WillBe(u)'
        BY <2>1, WillBeRun
    <2> QED BY <2>1, <2>2 DEF UserOK, WillBe
<1>7. CASE Restart
    <2>1. CASE main' = <<>> /\ currentUser' = authUser
        <3>1. NoUser(main')
            BY <2>1 DEF NoUser
        <3> QED BY <1>7, <2>1, <3>1 DEF UserOK, WillBe, Restart, NoUser
    <2>2. CASE main' = <<[kind |-> "user", user |-> authUser]>>
        <3>1. Len(main') = 1 /\ main'[1].kind = "user" /\ main'[1].user = authUser
            BY <2>2
        <3>2. LastUser(main', authUser)
            BY <3>1 DEF LastUser
        <3> QED BY <1>7, <3>2 DEF UserOK, Restart
    <2> QED BY <1>7, <2>1, <2>2 DEF Restart
<1>8. CASE \/ UNCHANGED vars \/ StreamEvent \/ Serve
           \/ \E k \in Request : ReadUser(k)
    <2>1. UNCHANGED <<authUser, main, worker, currentUser>>
        BY <1>8, Unchanged
           DEF StreamEvent, OnWriteStreamOpen, OnWriteStreamHandshakeComplete,
               OnWriteStreamMutationResult, HandleWriteError, OnWriteStreamClose,
               BackoffElapsed, IdleTimeout, Serve, ReadUser, elsewhere, authVars, storeVars
    <2> QED BY <2>1 DEF UserOK, WillBe
<1> QED BY <1>1, <1>2, <1>3, <1>4, <1>5, <1>6, <1>7, <1>8 DEF Next, RunMain

-----------------------------------------------------------------------------
(***************************************************************************)
(* Requests.                                                               *)
(***************************************************************************)
\* A stream that starts anew: its request is the only one in use.
LEMMA StartsAnew ==
    ASSUME NEW p, NEW s \in StreamState \ {"Starting", "Open"},
           NEW r \in [Request -> Record], \A k \in Request : ~InUse(r[k]),
           MaybeStart(p, s, r), conn' = None
    PROVE  /\ RequestOK'
           /\ \A k \in Request : r[k].stage # "none" => request'[k].stage = r[k].stage
           /\ \A k \in Request : InUse(request'[k]) => request'[k].stage = "asked"
<1>1. CASE request' = r
    BY <1>1 DEF RequestOK
<1>2. CASE stream' = "Starting" /\ \E k \in Request : /\ r[k].stage = "none"
                                                      /\ request' = [r EXCEPT ![k] = Asked]
    <2>1. PICK k \in Request : r[k].stage = "none" /\ request' = [r EXCEPT ![k] = Asked]
        BY <1>2
    <2>2. \A l \in Request : request'[l] = IF l = k THEN Asked ELSE r[l]
        BY <2>1
    <2>3. Asked.stage = "asked"
        BY DEF Asked, NoRequest
    <2> QED BY <1>2, <2>1, <2>2, <2>3 DEF RequestOK
<1> QED BY <1>1, <1>2, Starts

\* A stream that goes on, or waits.
LEMMA StartsWith ==
    ASSUME NEW p, TypeOK, RequestOK, MaybeStart(p, stream, request), conn' = conn
    PROVE  /\ RequestOK'
           /\ \A k \in Request : \/ request'[k] = request[k]
                                 \/ /\ request[k].stage = "none"
                                    /\ request'[k].stage = "asked"
<1>0. stream \in StreamState /\ request \in [Request -> Record]
    BY TypesSplit DEF Types
<1>1. CASE stream \in {"Starting", "Open"}
    BY <1>0, <1>1, Starts DEF RequestOK
<1>2. CASE stream \notin {"Starting", "Open"}
    <2>1. conn = None /\ \A k \in Request : ~InUse(request[k])
        BY <1>2 DEF RequestOK
    <2>2. RequestOK'
        BY <1>0, <1>2, <2>1, StartsAnew
    <2>3. Asked.stage = "asked"
        BY DEF Asked, NoRequest
    <2>4. \/ request' = request
          \/ \E k \in Request : /\ request[k].stage = "none"
                                /\ request' = [request EXCEPT ![k] = Asked]
        BY <1>0, Starts
    <2> QED BY <1>0, <2>2, <2>3, <2>4
<1> QED BY <1>1, <1>2

LEMMA NoneInUse ==
    ASSUME NEW r \in [Request -> Record]
    PROVE  \A k \in Request : ~InUse(Closed(r)[k])
BY ClosedType DEF InUse

\* The steps at which the stream ends.
StreamEnds == \/ HandleCredentialChange \/ HandleWriteError \/ OnWriteStreamClose
         \/ IdleTimeout \/ Restart
         \/ /\ ResumeStart
            /\ FailStream([request EXCEPT ![Head(worker).request] = NoRequest])

LEMMA EndsAnew ==
    ASSUME TypeOK, RequestOK, StreamEnds
    PROVE  /\ RequestOK' /\ conn' = None
           /\ \A k \in Request : InUse(request'[k]) => request'[k].stage = "asked"
           /\ Restart \/ \A k \in Request :
                 /\ request[k].stage # "none"
                 /\ Runs("token") => k # Head(worker).request
                 => request'[k].stage = request[k].stage
<1>0. stream \in StreamState /\ request \in [Request -> Record]
    BY TypesSplit DEF Types
<1>1. /\ Closed(request) \in [Request -> Record]
      /\ \A k \in Request : ~InUse(Closed(request)[k])
      /\ \A k \in Request : Closed(request)[k].stage = request[k].stage
    BY <1>0, ClosedType, NoneInUse
<1>2. CASE HandleCredentialChange
    <2> DEFINE r == IF IsStarted THEN Closed(request) ELSE request
               s == IF IsStarted THEN "Initial" ELSE stream
    <2>1. /\ r \in [Request -> Record] /\ \A k \in Request : ~InUse(r[k])
          /\ \A k \in Request : r[k].stage = request[k].stage
          /\ s \in StreamState \ {"Starting", "Open"}
        BY <1>0, <1>1 DEF IsStarted, StreamState, RequestOK
    <2>2. conn' = None /\ \E p : MaybeStart(p, s, r)
        BY <1>2 DEF HandleCredentialChange, RestartStreams, NoStream
    <2> HIDE DEF r, s
    <2> QED BY <2>1, <2>2, StartsAnew
<1>3. CASE HandleWriteError \/ IdleTimeout
    <2>1. conn' = None /\ \E p : MaybeStart(p, "Initial", Closed(request))
        BY <1>3 DEF HandleWriteError, IdleTimeout, NoStream
    <2>2. "Initial" \in StreamState \ {"Starting", "Open"}
        BY DEF StreamState
    <2> QED BY <1>1, <2>1, <2>2, StartsAnew
<1>4. CASE OnWriteStreamClose
    <2>1. conn' = None /\ \E p : MaybeStart(p, "Error", Closed(request))
        BY <1>4 DEF OnWriteStreamClose, FailStream, NoStream
    <2>2. "Error" \in StreamState \ {"Starting", "Open"}
        BY DEF StreamState
    <2> QED BY <1>1, <2>1, <2>2, StartsAnew
<1>5. CASE ResumeStart /\ FailStream([request EXCEPT ![Head(worker).request] = NoRequest])
    <2> DEFINE k == Head(worker).request
               r == [request EXCEPT ![k] = NoRequest]
    <2>1. r \in [Request -> Record] /\ k \in Request /\ Runs("token")
        BY <1>5, TasksType, DroppedType DEF ResumeStart
    <2>2. \A l \in Request \ {k} : r[l] = request[l]
        BY <1>0, <2>1
    <2>3. conn' = None /\ \E p : MaybeStart(p, "Error", Closed(r))
        BY <1>5 DEF FailStream, NoStream
    <2>4. "Error" \in StreamState \ {"Starting", "Open"}
        BY DEF StreamState
    <2> HIDE DEF r
    <2>5. /\ Closed(r) \in [Request -> Record]
          /\ \A l \in Request : ~InUse(Closed(r)[l])
          /\ \A l \in Request : Closed(r)[l].stage = r[l].stage
        BY <2>1, ClosedType, NoneInUse
    <2> HIDE DEF k
    <2>6. /\ RequestOK'
          /\ \A l \in Request : r[l].stage # "none" => request'[l].stage = r[l].stage
          /\ \A l \in Request : InUse(request'[l]) => request'[l].stage = "asked"
        BY <2>3, <2>4, <2>5, StartsAnew
    <2> QED BY <2>1, <2>2, <2>3, <2>6 DEF k
<1>6. CASE Restart
    <2>1. conn' = None /\ \E p : MaybeStart(p, "Initial", NoRequests)
        BY <1>6 DEF Restart, NoRequests, NoStream
    <2>2. \A k \in Request : ~InUse(NoRequests[k])
        BY DEF NoRequests, NoRequest, InUse
    <2>3. "Initial" \in StreamState \ {"Starting", "Open"}
        BY DEF StreamState
    <2> QED BY <1>6, <2>1, <2>2, <2>3, NoRequestType, StartsAnew
<1> QED BY <1>2, <1>3, <1>4, <1>5, <1>6 DEF StreamEnds

LEMMA RequestsStay ==
    ASSUME RequestOK, UNCHANGED <<stream, conn>>,
           \A k \in Request : InUse(request'[k]) => InUse(request[k])
    PROVE  RequestOK'
BY DEF RequestOK

LEMMA RequestStep == TypeOK /\ RequestOK /\ TokensOK /\ [Next]_vars => RequestOK'
<1> SUFFICES ASSUME TypeOK, RequestOK, TokensOK, [Next]_vars PROVE RequestOK'
    OBVIOUS
<1>0. stream \in StreamState /\ request \in [Request -> Record]
    BY TypesSplit DEF Types
<1>1. CASE StreamEnds
    BY <1>1, EndsAnew
<1>2. CASE WriteMutations \/ OnWriteStreamMutationResult
    <2>1. conn' = conn /\ \E p : MaybeStart(p, stream, request)
        BY <1>2 DEF WriteMutations, OnWriteStreamMutationResult, FillWritePipeline
    <2> QED BY <2>1, StartsWith
<1>3. CASE Client
    <2>1. UNCHANGED <<stream, conn>>
        BY <1>3 DEF Client, RunMain, ChangeUser, ReadUser, TokenCallback, Notify,
                    AnswerToken, AddDocument, streamVars
    <2>2. \A k \in Request : InUse(request'[k]) => InUse(request[k])
        <3>1. CASE \/ \E u \in User : ChangeUser(u)
                   \/ AddDocument \/ \E k \in Request : ReadUser(k)
            <4>1. CASE \E u \in User : ChangeUser(u)
                BY <4>1 DEF ChangeUser
            <4>2. CASE AddDocument
                BY <4>2 DEF AddDocument
            <4>3. CASE \E k \in Request : ReadUser(k)
                BY <1>0, <4>3 DEF ReadUser, InUse, Record
            <4> QED BY <3>1, <4>1, <4>2, <4>3
        <3>2. CASE \E k \in Request, error \in BOOLEAN : TokenCallback(k, error)
            BY <1>0, <3>2 DEF TokenCallback, InUse, Record
        <3>3. CASE Notify
            BY <1>0, <3>3 DEF Notify, InUse, Record
        <3>4. CASE AnswerToken
            <4> DEFINE k == Head(main).request
            <4>1. main[1] = Head(main) /\ 1 \in 1..Len(main) /\ k \in Request
                <5>1. main \in Seq(MainBlock) /\ main # <<>> /\ Head(main) \in MainBlock
                    BY <3>4, TasksType DEF AnswerToken, TypeOK
                <5>2. k \in Request
                    BY <3>4, <5>1 DEF AnswerToken, MainBlock
                <5> QED BY <5>1, <5>2, TailOf
            <4>2. request[k].stage = "main"
                BY <3>4, <4>1 DEF AnswerToken, TokensOK
            <4>3. request' = [request EXCEPT ![k].stage = "worker"]
                BY <3>4 DEF AnswerToken
            <4> HIDE DEF k
            <4> QED BY <1>0, <4>1, <4>2, <4>3 DEF InUse, Record
        <3> QED BY <1>3, <3>1, <3>2, <3>3, <3>4 DEF Client, RunMain
    <2> QED BY <2>1, <2>2, RequestsStay
<1>4. CASE ResumeStart /\ ~StreamEnds
    <2> DEFINE k == Head(worker).request
    <2>1. /\ k \in Request /\ request' = [request EXCEPT ![k] = NoRequest]
          /\ stream' = stream
          /\ \/ conn' = conn
             \/ InUse(request[k])
        <3>1. Runs("token") /\ k \in Request
            BY <1>4, TasksType DEF ResumeStart
        <3>2. worker[1] = Head(worker) /\ 1 \in 1..Len(worker)
            <4>1. worker \in Seq(Task) /\ worker # <<>>
                BY <3>1 DEF Runs, TypeOK
            <4> QED BY <4>1, TailOf
        <3>3. request[k].stage = "worker"
            BY <3>1, <3>2 DEF TokensOK, Runs
        <3> QED BY <1>4, <3>1, <3>3 DEF ResumeStart, StreamEnds, InUse, streamVars
    <2>2. /\ ~InUse(request'[k])
          /\ \A l \in Request : InUse(request'[l]) => InUse(request[l])
        BY <1>0, <2>1 DEF NoRequest, InUse
    <2> HIDE DEF k
    <2>3. CASE conn' = conn
        BY <2>1, <2>2, <2>3, RequestsStay
    <2>4. CASE InUse(request[k])
        BY <2>1, <2>2, <2>4 DEF RequestOK
    <2> QED BY <2>1, <2>3, <2>4
<1>5. CASE OnWriteStreamOpen
    BY <1>5 DEF OnWriteStreamOpen, RequestOK
<1>6. CASE BackoffElapsed
    <2>1. conn = None /\ \A k \in Request : ~InUse(request[k])
        BY <1>6 DEF BackoffElapsed, RequestOK
    <2>2. PICK k \in Request : request' = [request EXCEPT ![k] = Asked]
        BY <1>6 DEF BackoffElapsed, RequestCredentials
    <2>3. \A l \in Request : InUse(request'[l]) => l = k
        BY <1>0, <2>1, <2>2
    <2> QED BY <1>6, <2>1, <2>3 DEF BackoffElapsed, RequestOK
<1>7. CASE UNCHANGED vars \/ OnWriteStreamHandshakeComplete \/ Serve
    <2>1. UNCHANGED <<stream, conn, request>>
        BY <1>7, Unchanged DEF OnWriteStreamHandshakeComplete, Serve
    <2> QED BY <2>1, RequestsStay
<1> QED BY <1>1, <1>2, <1>3, <1>4, <1>5, <1>6, <1>7
        DEF Next, Client, RunTask, StreamEvent, StreamEnds

LEMMA QueueTypes ==
    ASSUME TypeOK
    PROVE  /\ main \in Seq(MainBlock) /\ worker \in Seq(Task)
           /\ \A i \in 1..Len(main) : main[i].kind = "token" => main[i].request \in Request
           /\ \A i \in 1..Len(worker) :
                 worker[i].kind = "token" => worker[i].request \in Request
<1>1. main \in Seq(MainBlock) /\ worker \in Seq(Task)
    BY DEF TypeOK
<1>2. ASSUME NEW i \in 1..Len(main), main[i].kind = "token"
      PROVE  main[i].request \in Request
    <2>1. main[i] \in MainBlock
        BY <1>1
    <2> QED BY <1>2, <2>1 DEF MainBlock
<1>3. ASSUME NEW i \in 1..Len(worker), worker[i].kind = "token"
      PROVE  worker[i].request \in Request
    <2>1. worker[i] \in Task
        BY <1>1
    <2> QED BY <1>3, <2>1 DEF Task, MainBlock
<1> QED BY <1>1, <1>2, <1>3

\* What is on the queues stays there; requests on them keep their stages.
LEMMA TokensStay ==
    ASSUME TypeOK, TokensOK, main' = main,
           \/ worker' = worker
           \/ worker # <<>> /\ worker' = Tail(worker),
           \A k \in Request : /\ request[k].stage \in {"main", "worker"}
                              /\ ~(worker' # worker /\ IsToken(Head(worker), k))
                              => request'[k].stage = request[k].stage
    PROVE  TokensOK'
<1>0. /\ main \in Seq(MainBlock) /\ worker \in Seq(Task)
      /\ \A i \in 1..Len(main) : main[i].kind = "token" => main[i].request \in Request
      /\ \A i \in 1..Len(worker) : worker[i].kind = "token" => worker[i].request \in Request
    BY QueueTypes
<1>1. CASE worker' = worker
    BY <1>0, <1>1 DEF TokensOK
<1>2. CASE worker' # worker /\ worker # <<>> /\ worker' = Tail(worker)
    <2>1. /\ Len(worker) \in Nat \ {0} /\ Len(worker') = Len(worker) - 1
          /\ Head(worker) = worker[1]
          /\ \A i \in 1..Len(worker') : worker'[i] = worker[i + 1] /\ i + 1 \in 1..Len(worker)
        BY <1>0, <1>2, TailOf
    <2>2. \A i \in 1..Len(main) : main[i].kind = "token" =>
             request'[main[i].request].stage = "main"
        <3> SUFFICES ASSUME NEW i \in 1..Len(main), main[i].kind = "token"
                     PROVE  request'[main[i].request].stage = "main"
            OBVIOUS
        <3>1. main[i].request \in Request /\ request[main[i].request].stage = "main"
            BY <1>0 DEF TokensOK
        <3>2. ~IsToken(worker[1], main[i].request)
            BY <2>1, <3>1 DEF TokensOK, IsToken
        <3> QED BY <2>1, <3>1, <3>2
    <2>3. \A i \in 1..Len(worker') : worker'[i].kind = "token" =>
             request'[worker'[i].request].stage = "worker"
        <3> SUFFICES ASSUME NEW i \in 1..Len(worker'), worker'[i].kind = "token"
                     PROVE  request'[worker'[i].request].stage = "worker"
            OBVIOUS
        <3> DEFINE k == worker[i + 1].request
        <3>1. /\ worker'[i] = worker[i + 1] /\ i + 1 \in 1..Len(worker)
              /\ k \in Request /\ request[k].stage = "worker"
              /\ IsToken(worker[i + 1], k)
            BY <1>0, <2>1 DEF TokensOK, IsToken
        <3>2. 1 \in 1..Len(worker) /\ i + 1 # 1
            BY <2>1
        <3> HIDE DEF k
        <3>3. ~IsToken(worker[1], k)
            BY <3>1, <3>2 DEF TokensOK
        <3>4. request'[k].stage = "worker"
            BY <2>1, <3>1, <3>3
        <3> QED BY <3>1, <3>4 DEF k
    <2>4. \A i, j \in 1..Len(worker'), k \in Request :
             IsToken(worker'[i], k) /\ IsToken(worker'[j], k) => i = j
        <3> SUFFICES ASSUME NEW i \in 1..Len(worker'), NEW j \in 1..Len(worker'),
                            NEW k \in Request, IsToken(worker'[i], k), IsToken(worker'[j], k)
                     PROVE  i = j
            OBVIOUS
        <3>1. i + 1 = j + 1
            BY <2>1 DEF TokensOK
        <3> QED BY <3>1
    <2> QED BY <2>2, <2>3, <2>4 DEF TokensOK
<1> QED BY <1>1, <1>2

\* A block is added to the main queue.
LEMMA TokensMain ==
    ASSUME TypeOK, TokensOK, NEW e \in MainBlock, main' = Append(main, e),
           worker' = worker,
           e.kind = "token" => /\ request[e.request].stage \notin {"main", "worker"}
                               /\ request'[e.request].stage = "main"
                               /\ e.request \in Request,
           \A k \in Request : request[k].stage \in {"main", "worker"} =>
               request'[k].stage = request[k].stage
    PROVE  TokensOK'
<1>0. /\ main \in Seq(MainBlock) /\ worker \in Seq(Task)
      /\ \A i \in 1..Len(main) : main[i].kind = "token" => main[i].request \in Request
      /\ \A i \in 1..Len(worker) : worker[i].kind = "token" => worker[i].request \in Request
    BY QueueTypes
<1>1. /\ Len(main) \in Nat /\ Len(main') = Len(main) + 1 /\ main'[Len(main) + 1] = e
      /\ \A i \in 1..Len(main) : main'[i] = main[i]
    BY <1>0, AppendOf
<1>2. \A i \in 1..Len(main') : i \in 1..Len(main) \/ i = Len(main) + 1
    BY <1>1
<1>3. \A i \in 1..Len(main') : main'[i].kind = "token" =>
         request'[main'[i].request].stage = "main"
    BY <1>0, <1>1, <1>2 DEF TokensOK
<1>4. \A i \in 1..Len(worker') : worker'[i].kind = "token" =>
         request'[worker'[i].request].stage = "worker"
    BY <1>0 DEF TokensOK
<1>5. \A i, j \in 1..Len(main'), k \in Request :
         IsToken(main'[i], k) /\ IsToken(main'[j], k) => i = j
    <2>1. \A i \in 1..Len(main), k \in Request :
             ~(IsToken(main[i], k) /\ IsToken(e, k))
        BY <1>0 DEF TokensOK, IsToken
    <2> QED BY <1>1, <1>2, <2>1 DEF TokensOK
<1> QED BY <1>3, <1>4, <1>5 DEF TokensOK

\* A block moves from the main queue to the worker queue, or the app adds a task.
LEMMA TokensWorker ==
    ASSUME TypeOK, TokensOK, NEW e \in Task, worker' = Append(worker, e),
           \/ main' = main /\ e.kind # "token"
           \/ main # <<>> /\ main' = Tail(main) /\ e = Head(main),
           e.kind = "token" => request'[e.request].stage = "worker",
           \A k \in Request : request[k].stage \in {"main", "worker"} /\ ~IsToken(e, k) =>
               request'[k].stage = request[k].stage
    PROVE  TokensOK'
<1>0. /\ main \in Seq(MainBlock) /\ worker \in Seq(Task)
      /\ \A i \in 1..Len(main) : main[i].kind = "token" => main[i].request \in Request
      /\ \A i \in 1..Len(worker) : worker[i].kind = "token" => worker[i].request \in Request
      /\ e.kind = "token" => e.request \in Request
    BY QueueTypes DEF Task, MainBlock
<1>1. /\ Len(worker) \in Nat /\ Len(worker') = Len(worker) + 1
      /\ worker'[Len(worker) + 1] = e
      /\ \A i \in 1..Len(worker) : worker'[i] = worker[i]
    BY <1>0, AppendOf
<1>2. \A i \in 1..Len(worker') : i \in 1..Len(worker) \/ i = Len(worker) + 1
    BY <1>1
<1>3. \A i \in 1..Len(main') : \E j \in 1..Len(main) :
         /\ main'[i] = main[j]
         /\ \A k \in Request : IsToken(main[j], k) => ~IsToken(e, k)
    <2>1. CASE main' = main /\ e.kind # "token"
        BY <2>1 DEF IsToken
    <2>2. CASE main # <<>> /\ main' = Tail(main) /\ e = Head(main)
        <3>1. /\ Len(main) \in Nat \ {0} /\ e = main[1]
              /\ \A i \in 1..Len(main') : main'[i] = main[i + 1] /\ i + 1 \in 1..Len(main)
            BY <1>0, <2>2, TailOf
        <3> QED BY <3>1 DEF TokensOK
    <2> QED BY <2>1, <2>2
<1>4. \A k \in Request : IsToken(e, k) => request[k].stage = "main"
    <2>1. main # <<>> => Head(main) = main[1] /\ 1 \in 1..Len(main)
        BY <1>0, TailOf
    <2> QED BY <2>1 DEF TokensOK, IsToken
<1>5. \A i \in 1..Len(main') : main'[i].kind = "token" =>
         request'[main'[i].request].stage = "main"
    <2> SUFFICES ASSUME NEW i \in 1..Len(main'), main'[i].kind = "token"
                 PROVE  request'[main'[i].request].stage = "main"
        OBVIOUS
    <2>1. PICK j \in 1..Len(main) : /\ main'[i] = main[j]
                                    /\ \A k \in Request : IsToken(main[j], k) => ~IsToken(e, k)
        BY <1>3
    <2>2. /\ main[j].request \in Request /\ request[main[j].request].stage = "main"
          /\ IsToken(main[j], main[j].request)
        BY <1>0, <2>1 DEF TokensOK, IsToken
    <2>3. ~IsToken(e, main[j].request)
        BY <2>1, <2>2
    <2> QED BY <2>1, <2>2, <2>3
<1>6. \A i \in 1..Len(worker') : worker'[i].kind = "token" =>
         request'[worker'[i].request].stage = "worker"
    <2> SUFFICES ASSUME NEW i \in 1..Len(worker), worker[i].kind = "token"
                 PROVE  request'[worker[i].request].stage = "worker"
        BY <1>1, <1>2
    <2>1. worker[i].request \in Request /\ request[worker[i].request].stage = "worker"
        BY <1>0 DEF TokensOK
    <2>2. ~IsToken(e, worker[i].request)
        BY <1>4, <2>1
    <2> QED BY <2>1, <2>2
<1>7. \A i, j \in 1..Len(main'), k \in Request :
         IsToken(main'[i], k) /\ IsToken(main'[j], k) => i = j
    <2>1. CASE main' = main
        BY <2>1 DEF TokensOK
    <2>2. CASE main # <<>> /\ main' = Tail(main)
        <3>1. \A i \in 1..Len(main') : main'[i] = main[i + 1] /\ i + 1 \in 1..Len(main)
            BY <1>0, <2>2, TailOf
        <3> SUFFICES ASSUME NEW i \in 1..Len(main'), NEW j \in 1..Len(main'),
                            NEW k \in Request, IsToken(main'[i], k), IsToken(main'[j], k)
                     PROVE  i = j
            OBVIOUS
        <3>2. i + 1 = j + 1
            BY <3>1 DEF TokensOK
        <3> QED BY <3>2
    <2> QED BY <2>1, <2>2
<1>8. \A i, j \in 1..Len(worker'), k \in Request :
         IsToken(worker'[i], k) /\ IsToken(worker'[j], k) => i = j
    <2>1. \A i \in 1..Len(worker), k \in Request :
             ~(IsToken(worker[i], k) /\ IsToken(e, k))
        BY <1>0, <1>4 DEF TokensOK, IsToken
    <2> QED BY <1>1, <1>2, <2>1 DEF TokensOK
<1> QED BY <1>5, <1>6, <1>7, <1>8 DEF TokensOK

LEMMA TokensStep == TypeOK /\ RequestOK /\ TokensOK /\ [Next]_vars => TokensOK'
<1> SUFFICES ASSUME TypeOK, RequestOK, TokensOK, [Next]_vars PROVE TokensOK'
    OBVIOUS
<1>0. request \in [Request -> Record]
    BY TypesSplit DEF Types
<1>1. ASSUME NEW u \in User, ChangeUser(u) PROVE TokensOK'
    <2> DEFINE e == [kind |-> "user", user |-> u]
    <2>1. e \in MainBlock /\ e.kind # "token"
        BY DEF MainBlock
    <2>2. main' = Append(main, e) /\ worker' = worker /\ request' = request
        BY <1>1 DEF ChangeUser
    <2> HIDE DEF e
    <2> QED BY <2>1, <2>2, TokensMain
<1>2. ASSUME NEW k \in Request, NEW error \in BOOLEAN, TokenCallback(k, error)
      PROVE  TokensOK'
    <2> DEFINE e == [kind |-> "token", request |-> k]
    <2>1. e \in MainBlock /\ e.kind = "token" /\ e.request = k
        BY DEF MainBlock
    <2>2. main' = Append(main, e) /\ worker' = worker
        BY <1>2 DEF TokenCallback
    <2>3. /\ request[k].stage = "read" /\ request'[k].stage = "main"
          /\ \A l \in Request : request[l].stage \in {"main", "worker"} =>
                request'[l].stage = request[l].stage
        BY <1>0, <1>2 DEF TokenCallback, Record
    <2> HIDE DEF e
    <2> QED BY <2>1, <2>2, <2>3, TokensMain
<1>3. CASE Notify
    <2> DEFINE e == Head(main)
    <2>1. e \in Task /\ e.kind = "user" /\ main # <<>> /\ main' = Tail(main)
          /\ worker' = Append(worker, e)
        BY <1>3, TasksType DEF Notify
    <2>2. \A k \in Request : request'[k].stage = request[k].stage
        BY <1>0, <1>3 DEF Notify, Record
    <2> QED BY <2>1, <2>2, TokensWorker
<1>4. CASE AnswerToken
    <2> DEFINE e == Head(main)
    <2>1. /\ e \in Task /\ e.kind = "token" /\ main # <<>> /\ main' = Tail(main)
          /\ worker' = Append(worker, e)
          /\ request' = [request EXCEPT ![e.request].stage = "worker"]
        BY <1>4, TasksType DEF AnswerToken
    <2>2. e.request \in Request
        BY <2>1 DEF Task, MainBlock
    <2>3. /\ request'[e.request].stage = "worker"
          /\ \A k \in Request : ~IsToken(e, k) => request'[k].stage = request[k].stage
        <3> HIDE DEF e
        <3> QED BY <1>0, <2>1, <2>2 DEF Record, IsToken
    <2> QED BY <2>1, <2>3, TokensWorker
<1>5. CASE AddDocument
    <2> DEFINE e == [kind |-> "write", write |-> called + 1]
    <2>1. /\ e \in Task /\ e.kind # "token" /\ worker' = Append(worker, e)
          /\ main' = main /\ request' = request
        BY <1>5 DEF AddDocument, Task, authVars
    <2> HIDE DEF e
    <2> QED BY <2>1, TokensWorker
<1>6. CASE Restart
    <2>1. worker' = <<>>
        BY <1>6 DEF Restart
    <2>2. main' = <<>> \/ main' = <<[kind |-> "user", user |-> authUser]>>
        BY <1>6 DEF Restart
    <2>3. Len(worker') = 0 /\ \A i \in 1..Len(main') : main'[i].kind # "token"
        BY <2>1, <2>2
    <2> QED BY <2>3 DEF TokensOK, IsToken
<1>7. CASE StreamEnds /\ ~Restart
    <2>1. \A k \in Request : /\ request[k].stage # "none"
                             /\ Runs("token") => k # Head(worker).request
                             => request'[k].stage = request[k].stage
        BY <1>7, EndsAnew
    <2>2. main' = main
        BY <1>7 DEF StreamEnds, HandleCredentialChange, HandleWriteError, IdleTimeout,
                    OnWriteStreamClose, ResumeStart, elsewhere, authVars
    <2>3. CASE ResumeStart
        <3>1. worker # <<>> /\ worker' = Tail(worker) /\ Head(worker).kind = "token"
            BY <2>3 DEF ResumeStart, Runs
        <3>2. worker' # worker
            <4>1. worker \in Seq(Task)
                BY DEF TypeOK
            <4>2. Len(worker') # Len(worker)
                BY <3>1, <4>1, TailOf
            <4> QED BY <4>2
        <3> QED BY <2>1, <2>2, <3>1, <3>2, TokensStay DEF Runs, IsToken
    <2>4. CASE HandleCredentialChange
        <3>1. worker # <<>> /\ worker' = Tail(worker) /\ ~Runs("token")
            BY <2>4 DEF HandleCredentialChange, Runs
        <3> QED BY <2>1, <2>2, <3>1, TokensStay
    <2>5. CASE HandleWriteError \/ OnWriteStreamClose \/ IdleTimeout
        <3>1. worker' = worker
            BY <2>5 DEF HandleWriteError, OnWriteStreamClose, IdleTimeout, elsewhere
        <3>2. \A k \in Request : request[k].stage # "none" =>
                 request'[k].stage = request[k].stage
            <4>1. Closed(request) \in [Request -> Record]
                  /\ \A k \in Request : Closed(request)[k].stage = request[k].stage
                BY <1>0, ClosedType
            <4>2. \E p : \E s \in {"Initial", "Error"} : MaybeStart(p, s, Closed(request))
                BY <2>5 DEF HandleWriteError, OnWriteStreamClose, IdleTimeout, FailStream
            <4>3. PICK p : \E s \in {"Initial", "Error"} : MaybeStart(p, s, Closed(request))
                BY <4>2
            <4>4. PICK s \in {"Initial", "Error"} : MaybeStart(p, s, Closed(request))
                BY <4>3
            <4>5. s \in StreamState
                BY DEF StreamState
            <4> QED BY <4>1, <4>4, <4>5, Starts
        <3> QED BY <2>2, <3>1, <3>2, TokensStay
    <2> QED BY <1>7, <2>3, <2>4, <2>5 DEF StreamEnds
<1>8. CASE ResumeStart /\ ~StreamEnds
    <2> DEFINE k == Head(worker).request
    <2>1. /\ worker # <<>> /\ worker' = Tail(worker) /\ Head(worker).kind = "token"
          /\ main' = main /\ request' = [request EXCEPT ![k] = NoRequest]
        BY <1>8 DEF ResumeStart, Runs, StreamEnds, authVars
    <2>2. worker' # worker
        <3>1. worker \in Seq(Task)
            BY DEF TypeOK
        <3>2. Len(worker') # Len(worker)
            BY <2>1, <3>1, TailOf
        <3> QED BY <3>2
    <2>3. \A l \in Request : l # k => request'[l] = request[l]
        <3> HIDE DEF k
        <3> QED BY <1>0, <2>1
    <2> QED BY <2>1, <2>2, <2>3, TokensStay DEF IsToken
<1>9. CASE WriteMutations \/ OnWriteStreamMutationResult
    <2>1. conn' = conn /\ \E p : MaybeStart(p, stream, request)
        BY <1>9 DEF WriteMutations, OnWriteStreamMutationResult, FillWritePipeline
    <2>2. \A k \in Request : request[k].stage \in {"main", "worker"} =>
             request'[k].stage = request[k].stage
        BY <2>1, StartsWith
    <2>3. /\ main' = main
          /\ worker' = worker \/ (worker # <<>> /\ worker' = Tail(worker))
        <3>1. CASE WriteMutations
            BY <3>1 DEF WriteMutations, Runs, authVars
        <3>2. CASE OnWriteStreamMutationResult
            BY <3>2 DEF OnWriteStreamMutationResult, elsewhere, authVars
        <3> QED BY <1>9, <3>1, <3>2
    <2> QED BY <2>2, <2>3, TokensStay
<1>10. CASE \/ UNCHANGED vars \/ OnWriteStreamOpen \/ OnWriteStreamHandshakeComplete
            \/ BackoffElapsed \/ Serve \/ \E k \in Request : ReadUser(k)
    <2>1. main' = main /\ worker' = worker
        BY <1>10, Unchanged
           DEF OnWriteStreamOpen, OnWriteStreamHandshakeComplete, BackoffElapsed, Serve,
               ReadUser, elsewhere, authVars
    <2>2. \A k \in Request : request[k].stage \in {"main", "worker"} =>
             request'[k].stage = request[k].stage
        <3>1. CASE UNCHANGED vars \/ OnWriteStreamOpen \/ OnWriteStreamHandshakeComplete
                   \/ Serve
            BY <3>1, Unchanged DEF OnWriteStreamOpen, OnWriteStreamHandshakeComplete, Serve
        <3>2. CASE BackoffElapsed
            <4>1. \E k \in {l \in Request : request[l].stage = "none"} :
                     request' = [request EXCEPT ![k] = Asked]
                BY <3>2 DEF BackoffElapsed, RequestCredentials
            <4> QED BY <1>0, <4>1
        <3>3. CASE \E k \in Request : ReadUser(k)
            BY <1>0, <3>3 DEF ReadUser, Record
        <3> QED BY <1>10, <3>1, <3>2, <3>3
    <2> QED BY <2>1, <2>2, TokensStay
<1> QED BY <1>1, <1>2, <1>3, <1>4, <1>5, <1>6, <1>7, <1>8, <1>9, <1>10
        DEF Next, RunMain, RunTask, StreamEvent, StreamEnds

-----------------------------------------------------------------------------
(***************************************************************************)
(* Whose token it is.                                                      *)
(***************************************************************************)
LEMMA AskedIsNowhere ==
    ASSUME TokensOK', NEW k \in Request, request'[k].stage = "asked"
    PROVE  TokenOf(k)'
BY DEF TokensOK, TokenOf, IsToken

LEMMA AllAsked ==
    ASSUME TokensOK', \A k \in Request : InUse(request'[k]) => request'[k].stage = "asked"
    PROVE  CredOK'
BY AskedIsNowhere DEF CredOK

\* The queues stay, and a request that is as it was.
LEMMA TokenStays ==
    ASSUME NEW k \in Request, TokenOf(k), UNCHANGED <<main, worker, currentUser>>,
           request'[k].user = request[k].user, request'[k].stage = request[k].stage
    PROVE  TokenOf(k)'
BY DEF TokenOf, WillBe

CredPre == TypeOK /\ RequestOK /\ TokensOK /\ UserOK /\ CredOK /\ TokensOK'

LEMMA CredChangeUser ==
    ASSUME CredPre, NEW u \in User, ChangeUser(u) PROVE CredOK'
<1> DEFINE e == [kind |-> "user", user |-> u]
<1>1. e \in MainBlock /\ e.kind = "user"
    BY DEF MainBlock
<1>2. main' = Append(main, e) /\ UNCHANGED <<worker, request, currentUser>>
    BY DEF ChangeUser, storeVars
<1>3. main \in Seq(MainBlock)
    BY DEF CredPre, TypeOK
<1> HIDE DEF e
<1>4. /\ ~NoUser(main') /\ Len(main) \in Nat /\ Len(main') = Len(main) + 1
      /\ main'[Len(main) + 1] = e
      /\ \A i \in 1..Len(main) : main'[i] = main[i]
    BY <1>1, <1>2, <1>3, AppendOf, AppendUser, NotBoth
<1> SUFFICES ASSUME NEW k \in Request, InUse(request[k]), ~request[k].failed
             PROVE  TokenOf(k)'
    BY <1>2 DEF CredOK
<1>5. TokenOf(k)
    BY DEF CredPre, CredOK
<1>6. ASSUME NEW i \in 1..Len(main'), IsToken(main'[i], k),
             \A j \in 1..i - 1 : main'[j].kind # "user"
      PROVE  WillBe(request[k].user)'
    <2>1. i \in 1..Len(main)
        BY <1>1, <1>4, <1>6 DEF IsToken
    <2>2. WillBe(request[k].user)
        BY <1>4, <1>5, <1>6, <2>1 DEF TokenOf
    <2> QED BY <1>2, <2>2 DEF WillBe
<1> QED BY <1>2, <1>4, <1>5, <1>6 DEF TokenOf

LEMMA CredReadUser ==
    ASSUME CredPre, NEW k \in Request, ReadUser(k) PROVE CredOK'
<1>0. request \in [Request -> Record]
    BY TypesSplit DEF CredPre, Types
<1>1. /\ UNCHANGED <<authUser, main, worker, currentUser>>
      /\ request' = [request EXCEPT ![k].stage = "read", ![k].user = authUser]
      /\ request[k].stage = "asked"
    BY DEF ReadUser, authVars, storeVars
<1> SUFFICES ASSUME NEW l \in Request, InUse(request'[l]), ~request'[l].failed
             PROVE  TokenOf(l)'
    BY DEF CredOK
<1>2. CASE l # k
    <2>1. request'[l] = request[l]
        BY <1>0, <1>1, <1>2
    <2>2. TokenOf(l)
        BY <2>1 DEF CredPre, CredOK
    <2> QED BY <1>1, <2>1, <2>2, TokenStays
<1>3. CASE l = k
    <2>1. request'[k].stage = "read" /\ request'[k].user = authUser
        BY <1>0, <1>1 DEF Record
    <2>2. NoUser(main) => WillBe(authUser)
        BY NotBoth DEF CredPre, UserOK
    <2>3. NoUser(main') => WillBe(authUser)'
        BY <1>1, <2>2 DEF WillBe
    <2> QED BY <1>1, <1>3, <2>1, <2>3 DEF TokenOf, CredPre, TokensOK, IsToken
<1> QED BY <1>2, <1>3

LEMMA CredTokenCallback ==
    ASSUME CredPre, NEW k \in Request, NEW error \in BOOLEAN, TokenCallback(k, error)
    PROVE  CredOK'
<1> DEFINE e == [kind |-> "token", request |-> k]
<1>0. request \in [Request -> Record] /\ main \in Seq(MainBlock)
    BY TypesSplit DEF CredPre, Types, TypeOK
<1>1. e \in MainBlock /\ e.kind = "token" /\ e.request = k
    BY DEF MainBlock
<1>2. main' = Append(main, e) /\ UNCHANGED <<worker, currentUser>>
    BY DEF TokenCallback, storeVars
<1>3. /\ request[k].stage = "read" /\ request'[k].stage = "main"
      /\ request'[k].user = request[k].user /\ request'[k].closed = request[k].closed
      /\ ~request'[k].failed => ~request[k].failed
      /\ \A l \in Request : l # k => request'[l] = request[l]
    BY <1>0 DEF TokenCallback, Record
<1> HIDE DEF e
<1>4. /\ NoUser(main') => NoUser(main)
      /\ Len(main) \in Nat /\ Len(main') = Len(main) + 1 /\ main'[Len(main) + 1] = e
      /\ \A i \in 1..Len(main) : main'[i] = main[i]
    BY <1>0, <1>1, <1>2, AppendOf, AppendUser
<1> SUFFICES ASSUME NEW l \in Request, InUse(request'[l]), ~request'[l].failed
             PROVE  TokenOf(l)'
    BY DEF CredOK
<1>5. TokenOf(l) /\ request'[l].user = request[l].user
    BY <1>3 DEF CredPre, CredOK, InUse
<1>6. \A u : WillBe(u)' <=> WillBe(u)
    BY <1>2 DEF WillBe
<1>7. ASSUME NEW i \in 1..Len(main'), IsToken(main'[i], l),
             \A j \in 1..i - 1 : main'[j].kind # "user"
      PROVE  WillBe(request[l].user)
    <2>1. CASE i \in 1..Len(main)
        BY <1>4, <1>5, <1>7, <2>1 DEF TokenOf
    <2>2. CASE i = Len(main) + 1
        <3>1. l = k /\ NoUser(main)
            BY <1>1, <1>4, <1>7, <2>2 DEF IsToken, NoUser
        <3> QED BY <1>3, <1>5, <3>1 DEF TokenOf
    <2> QED BY <1>4, <2>1, <2>2
<1>8. request'[l].stage = "read" /\ NoUser(main') => WillBe(request[l].user)
    BY <1>3, <1>4, <1>5 DEF TokenOf
<1>9. ASSUME NEW i \in 1..Len(worker), IsToken(worker[i], l),
             \A j \in 1..i - 1 : worker[j].kind # "user"
      PROVE  request[l].user = currentUser
    BY <1>5, <1>9 DEF TokenOf
<1> QED BY <1>2, <1>5, <1>6, <1>7, <1>8, <1>9 DEF TokenOf

LEMMA CredNotify == ASSUME CredPre, Notify PROVE CredOK'
<1> DEFINE e == Head(main)
<1>0. /\ request \in [Request -> Record] /\ worker \in Seq(Task) /\ e \in Task
    BY TypesSplit, TasksType DEF CredPre, Types, TypeOK, Notify
<1>1. e.kind = "user" /\ worker' = Append(worker, e) /\ currentUser' = currentUser
    BY DEF Notify, storeVars
<1> HIDE DEF e
<1>2. /\ Len(worker) \in Nat /\ Len(worker') = Len(worker) + 1
      /\ worker'[Len(worker) + 1] = e
      /\ \A i \in 1..Len(worker) : worker'[i] = worker[i]
    BY <1>0, <1>1, AppendOf
<1> SUFFICES ASSUME NEW l \in Request, InUse(request'[l]), ~request'[l].failed
             PROVE  TokenOf(l)'
    BY DEF CredOK
<1>3. request'[l] = request[l] /\ request[l].stage = "worker"
    BY <1>0 DEF Notify, Record, InUse
<1>4. TokenOf(l)
    BY <1>3 DEF CredPre, CredOK
<1>5. ASSUME NEW i \in 1..Len(worker'), IsToken(worker'[i], l),
             \A j \in 1..i - 1 : worker'[j].kind # "user"
      PROVE  request[l].user = currentUser
    <2>1. i \in 1..Len(worker)
        BY <1>1, <1>2, <1>5 DEF IsToken
    <2> QED BY <1>2, <1>4, <1>5, <2>1 DEF TokenOf
<1>6. \A i \in 1..Len(main') : ~IsToken(main'[i], l)
    BY <1>3 DEF CredPre, TokensOK, IsToken
<1> QED BY <1>1, <1>3, <1>5, <1>6 DEF TokenOf

LEMMA CredAnswerToken == ASSUME CredPre, AnswerToken PROVE CredOK'
<1> DEFINE e == Head(main)
           k == e.request
<1>0. /\ request \in [Request -> Record] /\ worker \in Seq(Task) /\ e \in Task
      /\ main \in Seq(MainBlock) /\ main # <<>> /\ main' = Tail(main) /\ TypeOK
    BY TypesSplit, TasksType DEF CredPre, Types, TypeOK, AnswerToken
<1>1. /\ e.kind = "token" /\ worker' = Append(worker, e) /\ currentUser' = currentUser
      /\ request' = [request EXCEPT ![k].stage = "worker"]
    BY DEF AnswerToken, storeVars
<1>2. k \in Request /\ IsToken(e, k)
    BY <1>0, <1>1 DEF Task, MainBlock, IsToken
<1> HIDE DEF e, k
<1>3. /\ Len(worker) \in Nat /\ Len(worker') = Len(worker) + 1
      /\ worker'[Len(worker) + 1] = e
      /\ \A i \in 1..Len(worker) : worker'[i] = worker[i]
    BY <1>0, <1>1, AppendOf
<1>4. /\ Len(main) \in Nat \ {0} /\ Len(main') = Len(main) - 1 /\ e = main[1]
      /\ \A i \in 1..Len(main') : main'[i] = main[i + 1] /\ i + 1 \in 1..Len(main)
      /\ NoUser(main') <=> NoUser(main)
    BY <1>0, <1>1, TailOf, TailUser DEF e
<1>5. request[k].stage = "main" /\ request'[k].stage = "worker"
      /\ request'[k].user = request[k].user /\ request'[k].closed = request[k].closed
      /\ request'[k].failed = request[k].failed
      /\ \A l \in Request : l # k => request'[l] = request[l]
    <2>1. request[k].stage = "main"
        BY <1>1, <1>2, <1>4 DEF CredPre, TokensOK, IsToken
    <2> QED BY <1>0, <1>1, <1>2, <2>1 DEF Record
<1>6. \A u : WillBe(u) => WillBe(u)'
    BY <1>0, <1>1, WillBeAdded
<1> SUFFICES ASSUME NEW l \in Request, InUse(request'[l]), ~request'[l].failed
             PROVE  TokenOf(l)'
    BY DEF CredOK
<1>7. TokenOf(l) /\ request'[l].user = request[l].user
    BY <1>2, <1>5 DEF CredPre, CredOK, InUse
<1>8. request'[l].stage = "read" /\ NoUser(main') => WillBe(request[l].user)
    BY <1>4, <1>5, <1>7 DEF TokenOf
<1>9. ASSUME NEW i \in 1..Len(main'), IsToken(main'[i], l),
             \A j \in 1..i - 1 : main'[j].kind # "user"
      PROVE  WillBe(request[l].user)
    <2>1. \A j \in 1..(i + 1) - 1 : main[j].kind # "user"
        <3> SUFFICES ASSUME NEW j \in 1..(i + 1) - 1 PROVE main[j].kind # "user"
            OBVIOUS
        <3>1. CASE j = 1
            BY <1>1, <1>4, <3>1
        <3>2. CASE j > 1
            <4>1. j - 1 \in 1..i - 1 /\ j - 1 \in 1..Len(main') /\ (j - 1) + 1 = j
                BY <1>4, <3>2
            <4>2. main'[j - 1] = main[j]
                BY <1>4, <4>1
            <4> QED BY <1>9, <4>1, <4>2
        <3> QED BY <3>1, <3>2
    <2>2. i + 1 \in 1..Len(main) /\ IsToken(main[i + 1], l)
        BY <1>4, <1>9
    <2> QED BY <1>7, <2>1, <2>2 DEF TokenOf
<1>10. ASSUME NEW i \in 1..Len(worker'), IsToken(worker'[i], l),
              \A j \in 1..i - 1 : worker'[j].kind # "user"
       PROVE  request[l].user = currentUser
    <2>1. CASE i \in 1..Len(worker)
        BY <1>3, <1>7, <1>10, <2>1 DEF TokenOf
    <2>2. CASE i = Len(worker) + 1
        <3>1. l = k /\ NoUser(worker)
            BY <1>2, <1>3, <1>10, <2>2 DEF IsToken, NoUser
        <3>2. WillBe(request[l].user)
            <4>1. 1 \in 1..Len(main) /\ IsToken(main[1], l)
                BY <1>2, <1>4, <3>1
            <4> QED BY <1>7, <4>1 DEF TokenOf
        <3> QED BY <3>1, <3>2, NotBoth DEF WillBe
    <2> QED BY <1>3, <2>1, <2>2
<1> QED BY <1>1, <1>6, <1>7, <1>8, <1>9, <1>10 DEF TokenOf

LEMMA CredAddDocument == ASSUME CredPre, AddDocument PROVE CredOK'
<1> DEFINE e == [kind |-> "write", write |-> called + 1]
<1>0. TypeOK /\ worker \in Seq(Task)
    BY DEF CredPre, TypeOK
<1>1. /\ e \in Task /\ e.kind = "write" /\ worker' = Append(worker, e)
      /\ UNCHANGED <<main, request, currentUser>>
    BY DEF AddDocument, Task, authVars, storeVars
<1> HIDE DEF e
<1>2. /\ Len(worker) \in Nat /\ Len(worker') = Len(worker) + 1
      /\ worker'[Len(worker) + 1] = e
      /\ \A i \in 1..Len(worker) : worker'[i] = worker[i]
    BY <1>0, <1>1, AppendOf
<1>3. \A u : WillBe(u) => WillBe(u)'
    BY <1>0, <1>1, WillBeAdded
<1> SUFFICES ASSUME NEW l \in Request, InUse(request[l]), ~request[l].failed
             PROVE  TokenOf(l)'
    BY <1>1 DEF CredOK
<1>4. TokenOf(l)
    BY DEF CredPre, CredOK
<1>5. ASSUME NEW i \in 1..Len(worker'), IsToken(worker'[i], l),
             \A j \in 1..i - 1 : worker'[j].kind # "user"
      PROVE  request[l].user = currentUser
    <2>1. i \in 1..Len(worker)
        BY <1>1, <1>2, <1>5 DEF IsToken
    <2> QED BY <1>2, <1>4, <1>5, <2>1 DEF TokenOf
<1> QED BY <1>1, <1>3, <1>4, <1>5 DEF TokenOf

\* A task has run that is no change of user.
LEMMA CredTask ==
    ASSUME CredPre, worker # <<>>, worker' = Tail(worker), Head(worker).kind # "user",
           UNCHANGED <<main, currentUser>>,
           \A k \in Request : \/ request'[k] = request[k]
                              \/ request'[k].stage = "asked"
                              \/ ~InUse(request'[k])
    PROVE  CredOK'
<1>0. TypeOK /\ worker \in Seq(Task)
    BY DEF CredPre, TypeOK
<1>1. /\ Len(worker) \in Nat \ {0} /\ Len(worker') = Len(worker) - 1
      /\ Head(worker) = worker[1]
      /\ \A i \in 1..Len(worker') : worker'[i] = worker[i + 1] /\ i + 1 \in 1..Len(worker)
    BY <1>0, TailOf
<1>2. \A u : WillBe(u) => WillBe(u)'
    BY <1>0, WillBeRun
<1> SUFFICES ASSUME NEW l \in Request, InUse(request'[l]), ~request'[l].failed
             PROVE  TokenOf(l)'
    BY DEF CredOK
<1>3. CASE request'[l].stage = "asked"
    BY <1>3, AskedIsNowhere DEF CredPre
<1>4. CASE request'[l] = request[l]
    <2>1. TokenOf(l)
        BY <1>4 DEF CredPre, CredOK
    <2>2. ASSUME NEW i \in 1..Len(worker'), IsToken(worker'[i], l),
                 \A j \in 1..i - 1 : worker'[j].kind # "user"
          PROVE  request[l].user = currentUser
        <3>1. \A j \in 1..(i + 1) - 1 : worker[j].kind # "user"
            <4> SUFFICES ASSUME NEW j \in 1..(i + 1) - 1 PROVE worker[j].kind # "user"
                OBVIOUS
            <4>1. CASE j = 1
                BY <1>1, <4>1
            <4>2. CASE j > 1
                <5>1. j - 1 \in 1..i - 1 /\ j - 1 \in 1..Len(worker') /\ (j - 1) + 1 = j
                    BY <1>1, <4>2
                <5>2. worker'[j - 1] = worker[j]
                    BY <1>1, <5>1
                <5> QED BY <2>2, <5>1, <5>2
            <4> QED BY <4>1, <4>2
        <3>2. i + 1 \in 1..Len(worker) /\ IsToken(worker[i + 1], l)
            BY <1>1, <2>2
        <3> QED BY <2>1, <3>1, <3>2 DEF TokenOf
    <2> QED BY <1>2, <1>4, <2>1, <2>2 DEF TokenOf
<1> QED BY <1>3, <1>4

LEMMA CredStep ==
    TypeOK /\ RequestOK /\ TokensOK /\ UserOK /\ CredOK /\ [Next]_vars => CredOK'
<1> SUFFICES ASSUME TypeOK, RequestOK, TokensOK, UserOK, CredOK, [Next]_vars
             PROVE  CredOK'
    OBVIOUS
<1>0. CredPre /\ request \in [Request -> Record]
    BY TokensStep, TypesSplit DEF CredPre, Types
<1>1. CASE Client
    BY <1>0, <1>1, CredChangeUser, CredReadUser, CredTokenCallback, CredNotify,
       CredAnswerToken, CredAddDocument DEF Client, RunMain
<1>2. CASE StreamEnds
    BY <1>0, <1>2, EndsAnew, AllAsked DEF CredPre
<1>3. CASE WriteMutations
    <2>1. /\ worker # <<>> /\ worker' = Tail(worker) /\ Head(worker).kind # "user"
          /\ UNCHANGED <<main, currentUser>>
        BY <1>3 DEF WriteMutations, Runs, authVars
    <2>2. conn' = conn /\ \E p : MaybeStart(p, stream, request)
        BY <1>3 DEF WriteMutations, FillWritePipeline
    <2> QED BY <1>0, <2>1, <2>2, StartsWith, CredTask
<1>4. CASE ResumeStart /\ ~StreamEnds
    <2> DEFINE k == Head(worker).request
    <2>1. /\ worker # <<>> /\ worker' = Tail(worker) /\ Head(worker).kind # "user"
          /\ UNCHANGED <<main, currentUser>>
          /\ request' = [request EXCEPT ![k] = NoRequest]
        BY <1>4 DEF ResumeStart, Runs, StreamEnds, authVars, storeVars
    <2>2. \A l \in Request : request'[l] = request[l] \/ ~InUse(request'[l])
        <3> HIDE DEF k
        <3> QED BY <1>0, <2>1 DEF NoRequest, InUse
    <2> QED BY <1>0, <2>1, <2>2, CredTask
<1>5. CASE OnWriteStreamMutationResult
    <2>1. UNCHANGED <<main, worker, currentUser>>
        BY <1>5 DEF OnWriteStreamMutationResult, elsewhere, authVars
    <2>2. conn' = conn /\ \E p : MaybeStart(p, stream, request)
        BY <1>5 DEF OnWriteStreamMutationResult, FillWritePipeline
    <2>3. \A k \in Request : request'[k] = request[k] \/ request'[k].stage = "asked"
        BY <2>2, StartsWith
    <2> QED BY <1>0, <2>1, <2>3, AskedIsNowhere, TokenStays DEF CredPre, CredOK
<1>6. CASE BackoffElapsed
    <2>1. \A k \in Request : ~InUse(request[k])
        BY <1>6 DEF BackoffElapsed, RequestOK
    <2>2. PICK k \in Request : request' = [request EXCEPT ![k] = Asked]
        BY <1>6 DEF BackoffElapsed, RequestCredentials
    <2>3. \A l \in Request : InUse(request'[l]) => request'[l].stage = "asked"
        BY <1>0, <2>1, <2>2 DEF Asked, NoRequest
    <2> QED BY <1>0, <2>3, AllAsked DEF CredPre
<1>7. CASE UNCHANGED vars \/ OnWriteStreamOpen \/ OnWriteStreamHandshakeComplete \/ Serve
    <2>1. UNCHANGED <<main, worker, currentUser, request>>
        BY <1>7, Unchanged
           DEF OnWriteStreamOpen, OnWriteStreamHandshakeComplete, Serve, elsewhere,
               authVars, storeVars
    <2> QED BY <2>1, TokenStays DEF CredOK
<1> QED BY <1>1, <1>2, <1>3, <1>4, <1>5, <1>6, <1>7
        DEF Next, Client, RunTask, StreamEvent, StreamEnds

LEMMA OwnTokenStep ==
    TypeOK /\ RequestOK /\ TokensOK /\ CredOK /\ OwnToken /\ [Next]_vars => OwnToken'
<1> SUFFICES ASSUME TypeOK, RequestOK, TokensOK, CredOK, OwnToken, [Next]_vars
             PROVE  OwnToken'
    OBVIOUS
<1>1. CASE StreamEnds
    BY <1>1, EndsAnew DEF OwnToken
<1>2. CASE ResumeStart /\ ~StreamEnds
    <2> DEFINE k == Head(worker).request
    <2>1. /\ worker # <<>> /\ Head(worker).kind = "token" /\ currentUser' = currentUser
          /\ \/ conn' = conn
             \/ ~request[k].closed /\ ~request[k].failed /\ conn' = request[k].user
        BY <1>2 DEF ResumeStart, Runs, StreamEnds, storeVars, streamVars
    <2>2. k \in Request
        BY <1>2, TasksType DEF ResumeStart
    <2>3. Head(worker) = worker[1] /\ 1 \in 1..Len(worker)
        <3>1. worker \in Seq(Task)
            BY DEF TypeOK
        <3> QED BY <2>1, <3>1, TailOf
    <2>4. request[k].stage = "worker" /\ IsToken(worker[1], k)
        BY <2>1, <2>3 DEF TokensOK, IsToken
    <2>5. CASE conn' = conn
        BY <2>1, <2>5 DEF OwnToken
    <2>6. CASE ~request[k].closed /\ ~request[k].failed /\ conn' = request[k].user
        <3>1. TokenOf(k)
            BY <2>2, <2>4, <2>6 DEF CredOK, InUse
        <3> HIDE DEF k
        <3>2. request[k].user = currentUser
            BY <2>3, <2>4, <3>1 DEF TokenOf
        <3> QED BY <2>1, <2>6, <3>2 DEF OwnToken
    <2> QED BY <2>1, <2>5, <2>6
<1>3. CASE ~StreamEnds /\ ~ResumeStart
    <2>1. UNCHANGED <<conn, currentUser>>
        <3>1. CASE Client \/ Serve \/ UNCHANGED vars
            BY <3>1, Unchanged
               DEF Client, RunMain, ChangeUser, ReadUser, TokenCallback, Notify,
                   AnswerToken, AddDocument, Serve, storeVars, streamVars
        <3>2. CASE WriteMutations \/ OnWriteStreamMutationResult
            BY <3>2 DEF WriteMutations, OnWriteStreamMutationResult
        <3>3. CASE OnWriteStreamOpen \/ OnWriteStreamHandshakeComplete \/ BackoffElapsed
            BY <3>3 DEF OnWriteStreamOpen, OnWriteStreamHandshakeComplete, BackoffElapsed,
                        storeVars
        <3> QED BY <1>3, <3>1, <3>2, <3>3
                DEF Next, Client, RunTask, StreamEvent, StreamEnds
    <2> QED BY <2>1 DEF OwnToken
<1> QED BY <1>1, <1>2, <1>3

LEMMA TokenInit == Init => TokenInv
<1> SUFFICES ASSUME Init PROVE TokenInv
    OBVIOUS
<1>1. \A k \in Request : request[k].stage = "none"
    BY DEF Init, NoRequest
<1>2. main = <<>> /\ worker = <<>> /\ conn = None /\ currentUser = authUser
    BY DEF Init
<1>3. RequestOK /\ CredOK
    BY <1>1, <1>2 DEF RequestOK, CredOK, InUse
<1>4. TokensOK
    BY <1>2 DEF TokensOK
<1>5. UserOK /\ OwnToken
    BY <1>2 DEF UserOK, OwnToken, NoUser, WillBe
<1> QED BY <1>3, <1>4, <1>5 DEF TokenInv

\* No stream carries the token of another user than the client's: whichever of FIRAuth,
\* the main queue and the worker queue hears of a change first, token_counter and
\* close_count_ stop the tokens that are too late.
\* The invariant about tokens: a stream that waits for one has asked once, and what it
\* gets is the token of the user the client will have when it arrives, or of no use
\* (token_counter and close_count_).
THEOREM TokenCorrect == Spec => [](TypeOK /\ TokenInv)
<1>1. TypeOK /\ StoreOK /\ TokenInv /\ [Next]_vars => TokenInv'
    BY RequestStep, TokensStep, UserStep, CredStep, OwnTokenStep DEF TokenInv
<1> QED BY <1>1, StoreInit, StoreStep, TokenInit, PTL DEF Spec

\* A stream never has the token of another user than the client's (RequestCredentials,
\* and the restart of the streams in HandleCredentialChange).
THEOREM OwnTokenCorrect == Spec => []OwnToken
BY TokenCorrect, PTL DEF TokenInv

-----------------------------------------------------------------------------
(***************************************************************************)
(* What is under way on the stream.                                        *)
(***************************************************************************)
LEMMA StreamGone == NoStream /\ stream' # "Open" => StreamOK'
BY DEF NoStream, StreamOK

LEMMA EndsClosed ==
    ASSUME TypeOK, StreamEnds PROVE NoStream /\ stream' # "Open"
<1>0. stream \in StreamState /\ request \in [Request -> Record]
    BY TypesSplit DEF Types
<1>1. Closed(request) \in [Request -> Record]
    BY <1>0, ClosedType
<1>2. CASE HandleCredentialChange
    <2> DEFINE r == IF IsStarted THEN Closed(request) ELSE request
               s == IF IsStarted THEN "Initial" ELSE stream
    <2>1. r \in [Request -> Record] /\ s \in StreamState /\ s # "Open"
        BY <1>0, <1>1 DEF IsStarted, StreamState
    <2>2. NoStream /\ \E p : MaybeStart(p, s, r)
        BY <1>2 DEF HandleCredentialChange, RestartStreams
    <2> HIDE DEF r, s
    <2> QED BY <2>1, <2>2, Starts
<1>3. CASE HandleWriteError \/ IdleTimeout \/ OnWriteStreamClose
    <2>1. NoStream /\ \E p : \E s \in {"Initial", "Error"} : MaybeStart(p, s, Closed(request))
        BY <1>3 DEF HandleWriteError, IdleTimeout, OnWriteStreamClose, FailStream
    <2> QED BY <1>1, <2>1, Starts DEF StreamState
<1>4. CASE ResumeStart /\ FailStream([request EXCEPT ![Head(worker).request] = NoRequest])
    <2> DEFINE r == [request EXCEPT ![Head(worker).request] = NoRequest]
    <2>1. r \in [Request -> Record]
        BY <1>4, TasksType, DroppedType DEF ResumeStart
    <2> HIDE DEF r
    <2>2. Closed(r) \in [Request -> Record]
        BY <2>1, ClosedType
    <2>3. NoStream /\ \E p : MaybeStart(p, "Error", Closed(r))
        BY <1>4 DEF FailStream, r
    <2> QED BY <2>2, <2>3, Starts DEF StreamState
<1>5. CASE Restart
    <2>1. NoStream /\ \E p : MaybeStart(p, "Initial", NoRequests)
        BY <1>5 DEF Restart, NoRequests
    <2> QED BY <2>1, NoRequestType, Starts DEF StreamState
<1> QED BY <1>2, <1>3, <1>4, <1>5 DEF StreamEnds

LEMMA FrontHas ==
    ASSUME NEW q \in Seq(Batch), q # <<>>
    PROVE  Front(q) # <<>> /\ Len(Front(q)) \in 1..Len(q)
           /\ \A i \in 1..Len(Front(q)) : Front(q)[i] = q[i]
<1>1. Len(q) \in Nat \ {0} /\ kMaxPendingWrites \in Nat \ {0}
    BY PipelineAssumption
<1>2. MinOf(Len(q), kMaxPendingWrites) \in 1..Len(q)
    BY <1>1 DEF MinOf
<1> DEFINE m == MinOf(Len(q), kMaxPendingWrites)
<1> HIDE DEF m
<1>3. Len(SubSeq(q, 1, m)) = m /\ \A i \in 1..m : SubSeq(q, 1, m)[i] = q[i]
    BY <1>2 DEF m
<1>4. m >= 1
    BY <1>2 DEF m
<1>5. Front(q) = SubSeq(q, 1, m)
    BY DEF Front, m
<1>6. m \in 1..Len(q)
    BY <1>2 DEF m
<1>7. Len(Front(q)) = m /\ \A i \in 1..m : Front(q)[i] = q[i]
    BY <1>3, <1>5
<1>8. Front(q) # <<>>
    BY <1>4, <1>7, EmptySeq
<1> QED BY <1>6, <1>7, <1>8

\* The wire w holds the batches of the pipeline p that come after the first n,
\* those whose answers are under way.
Fills(n, w, p) == /\ n + Len(w) = Len(p)
                  /\ \A i \in 1..Len(w) : w[i] = p[n + i]

\* Batches join the end of the pipeline, and of the wire once it is open.
LEMMA StreamFills ==
    ASSUME NEW S, NEW a \in Seq(S), NEW p \in Seq(S), NEW w \in Seq(S),
           NEW n \in Nat, Fills(n, w, p)
    PROVE  Fills(n, w \o a, p \o a)
<1>. USE DEF Fills
<1>1. /\ Len(p \o a) = Len(p) + Len(a) /\ Len(w \o a) = Len(w) + Len(a)
      /\ \A i \in 1..Len(p) + Len(a) :
            (p \o a)[i] = IF i <= Len(p) THEN p[i] ELSE a[i - Len(p)]
      /\ \A i \in 1..Len(w) + Len(a) :
            (w \o a)[i] = IF i <= Len(w) THEN w[i] ELSE a[i - Len(w)]
    BY ConcatProperties
<1>2. Len(p) \in Nat /\ Len(w) \in Nat /\ Len(a) \in Nat
    OBVIOUS
<1>3. ASSUME NEW i \in 1..Len(w) + Len(a) PROVE (w \o a)[i] = (p \o a)[n + i]
    <2>1. n + i \in 1..Len(p) + Len(a) /\ (i <= Len(w) <=> n + i <= Len(p))
        BY <1>2
    <2>2. CASE i <= Len(w)
        BY <1>1, <1>2, <2>1, <2>2
    <2>3. CASE ~(i <= Len(w))
        <3>1. (w \o a)[i] = a[i - Len(w)]
            BY <1>1, <2>3
        <3>2. (p \o a)[n + i] = a[(n + i) - Len(p)]
            BY <1>1, <2>1, <2>3
        <3>3. i - Len(w) = (n + i) - Len(p)
            <4>1. Len(w) \in Nat /\ Len(p) \in Nat /\ n + Len(w) = Len(p)
                BY <1>2
            <4>2. \A x, y \in Nat, j \in Int : j - y = (x + j) - (x + y)
                OBVIOUS
            <4>3. i \in Int /\ n \in Nat
                OBVIOUS
            <4>4. i - Len(w) = (n + i) - (n + Len(w))
                BY <4>1, <4>2, <4>3, Zenon
            <4> QED BY <4>1, <4>4, Zenon
        <3> QED BY <3>1, <3>2, <3>3
    <2> QED BY <2>2, <2>3
<1>4. n + Len(w \o a) = Len(p \o a)
    <2>1. \A x, y, z, t \in Nat : x + y = z => x + (y + t) = z + t
        OBVIOUS
    <2>2. n + (Len(w) + Len(a)) = Len(p) + Len(a)
        BY <1>2, <2>1
    <2> QED BY <1>1, <2>2
<1>5. \A i \in 1..Len(w \o a) : (w \o a)[i] = (p \o a)[n + i]
    BY <1>1, <1>3, Zenon
<1> QED BY <1>4, <1>5

LEMMA BatchIsNotHello == Hello \notin Batch
BY DEF Hello, Batch

LEMMA StreamWrite ==
    ASSUME TypeOK, StoreOK, StreamOK, WriteMutations PROVE StreamOK'
<1> DEFINE q == queue[currentUser]
           b == [id |-> nextBatchId, write |-> Head(worker).write]
           a == Added(pipeline, Append(q, b))
           S == Batch \cup {Hello}
<1>1. b \in Batch
    BY TasksType DEF WriteMutations, TypeOK, Batch
<1>2. q \in Seq(Batch) /\ Increasing(q) /\ currentUser \in User /\ pipeline = Front(q)
    BY DEF TypeOK, StoreOK
<1>3. \A i \in 1..Len(q) : q[i].id < b.id
    BY DEF StoreOK
<1>4. queue'[currentUser] = Append(q, b)
    BY <1>2 DEF WriteMutations, TypeOK
<1>5. FillWritePipeline(pipeline, Append(q, b)) /\ UNCHANGED <<conn, handshake, answers>>
    BY <1>4 DEF WriteMutations
<1>6. /\ Append(q, b) \in Seq(Batch) /\ Append(q, b) # <<>>
      /\ a \in Seq(Batch) /\ pipeline \o a = Front(Append(q, b))
    <2> HIDE DEF q, b
    <2>1. Append(q, b) # <<>>
        <3>1. Len(Append(q, b)) = Len(q) + 1 /\ Len(q) \in Nat
            BY <1>1, <1>2, AppendOf
        <3> QED BY <3>1, EmptySeq
    <2> QED BY <1>1, <1>2, <1>3, <2>1, FrontGrows
<1>7. pipeline \o a # <<>>
    <2> HIDE DEF q, b, a
    <2> QED BY <1>6, FrontHas
<1>8. /\ pipeline' = pipeline \o a
      /\ wire' = IF stream = "Open" /\ handshake THEN wire \o a ELSE wire
      /\ idle' = (stream = "Open" /\ idle /\ (a = <<>> \/ ~handshake))
      /\ MaybeStart(pipeline \o a, stream, request)
    <2> HIDE DEF q, b
    <2> QED BY <1>5, <1>7 DEF FillWritePipeline
<1> HIDE DEF q, b, a
<1>9. ~idle'
    <2>1. CASE idle
        <3>1. pipeline = <<>> /\ handshake
            BY <2>1 DEF StreamOK
        <3>2. a # <<>>
            <4>1. <<>> \o a = a
                BY <1>6, ConcatEmptySeq
            <4> QED BY <1>7, <3>1, <4>1
        <3> QED BY <1>8, <3>1, <3>2
    <2>2. CASE ~idle
        BY <1>8, <2>2
    <2> QED BY <2>1, <2>2
<1>10. CASE stream # "Open"
    <2>1. stream' # "Open"
        BY <1>8, <1>10, TypesSplit, Starts DEF Types
    <2> QED BY <1>5, <1>8, <1>9, <1>10, <2>1 DEF StreamOK
<1>11. CASE stream = "Open" /\ ~handshake
    <2>1. stream' = "Open"
        BY <1>8, <1>11, TypesSplit, Starts DEF Types
    <2>2. wire' = wire
        BY <1>8, <1>11
    <2> QED BY <1>5, <1>9, <1>11, <2>1, <2>2 DEF StreamOK
<1>12. CASE stream = "Open" /\ handshake
    <2>1. stream' = "Open"
        BY <1>8, <1>12, TypesSplit, Starts DEF Types
    <2>2. wire' = wire \o a
        BY <1>8, <1>12
    <2>3. /\ Len(answers) \in Nat /\ wire \in Seq(S) /\ pipeline \in Seq(S) /\ a \in Seq(S)
          /\ Len(answers) + Len(wire) = Len(pipeline)
          /\ \A i \in 1..Len(wire) : wire[i] = pipeline[Len(answers) + i]
        BY <1>6, <1>12 DEF TypeOK, StreamOK
    <2>4. /\ Len(answers) + Len(wire \o a) = Len(pipeline \o a)
          /\ \A i \in 1..Len(wire \o a) : (wire \o a)[i] = (pipeline \o a)[Len(answers) + i]
        <3> DEFINE n == Len(answers)
        <3>1. n \in Nat /\ n + Len(wire) = Len(pipeline)
              /\ \A i \in 1..Len(wire) : wire[i] = pipeline[n + i]
            BY <2>3
        <3> HIDE DEF S, a, n
        <3>2. Fills(n, wire, pipeline)
            BY <3>1 DEF Fills
        <3>3. Fills(n, wire \o a, pipeline \o a)
            BY <2>3, <3>1, <3>2, StreamFills
        <3> QED BY <3>3 DEF n, Fills
    <2>5. Answered' /\ conn # None
        BY <1>5, <1>12 DEF StreamOK, Answered
    <2> QED BY <1>5, <1>8, <1>9, <1>12, <2>1, <2>2, <2>4, <2>5 DEF StreamOK
<1> QED BY <1>10, <1>11, <1>12

LEMMA StreamResult ==
    ASSUME TypeOK, StoreOK, StreamOK, OnWriteStreamMutationResult PROVE StreamOK'
<1> DEFINE a == Added(Tail(pipeline), queue'[currentUser])
           p == Tail(pipeline)
           n == Len(answers) - 1
           S == Batch \cup {Hello}
<1>1. /\ answers # <<>> /\ Head(answers) = "result" /\ answers' = Tail(answers)
      /\ pipeline # <<>> /\ UNCHANGED <<conn, handshake, currentUser, nextBatchId>>
      /\ queue' = [queue EXCEPT ![currentUser] = Without(@, Head(pipeline).id)]
      /\ FillWritePipeline(Tail(pipeline), queue'[currentUser])
    BY DEF OnWriteStreamMutationResult
<1>2. stream = "Open" /\ handshake
    BY <1>1 DEF StreamOK
<1>3. /\ pipeline' = p \o a /\ wire' = wire \o a
      /\ idle' => p \o a = <<>> \/ (idle /\ a = <<>>)
      /\ MaybeStart(p \o a, stream, request)
    BY <1>1, <1>2 DEF FillWritePipeline
<1>4. a \in Seq(Batch)
    BY <1>1, <1>3, SettledKeeps
<1>5. /\ answers \in Seq({"hello", "result", "refused"}) /\ pipeline \in Seq(Batch)
      /\ wire \in Seq(S)
    BY DEF TypeOK
<1>6. /\ n \in Nat /\ Len(answers') = n
      /\ \A i \in 1..n : answers'[i] = answers[i + 1] /\ i + 1 \in 1..Len(answers)
    BY <1>1, <1>5, TailOf
<1>7. /\ p \in Seq(Batch) /\ Len(p) = Len(pipeline) - 1 /\ Len(pipeline) \in Nat \ {0}
      /\ \A i \in 1..Len(p) : p[i] = pipeline[i + 1]
    BY <1>1, <1>5, TailOf
<1>8. /\ Len(answers) + Len(wire) = Len(pipeline) /\ Len(wire) \in Nat
      /\ \A i \in 1..Len(wire) : wire[i] = pipeline[Len(answers) + i]
    BY <1>2, <1>5 DEF StreamOK
<1>9. n + Len(wire) = Len(p) /\ \A i \in 1..Len(wire) : wire[i] = p[n + i]
    <2>1. Len(answers) \in Nat /\ Len(p) \in Nat
        BY <1>5, <1>7
    <2>2. n + Len(wire) = Len(p)
        <3> DEFINE x == Len(answers)
                   y == Len(wire)
                   z == Len(pipeline)
        <3>1. x \in Nat /\ y \in Nat /\ z \in Nat /\ x + y = z
            BY <1>7, <1>8, <2>1
        <3> HIDE DEF x, y, z
        <3>2. (x - 1) + y = z - 1
            BY <3>1
        <3>3. (Len(answers) - 1) + Len(wire) = Len(pipeline) - 1
            BY <3>2 DEF x, y, z
        <3> QED BY <1>7, <3>3
    <2>3. ASSUME NEW i \in 1..Len(wire) PROVE wire[i] = p[n + i]
        <3>1. n + i \in 1..Len(p) /\ (n + i) + 1 = Len(answers) + i
            <4>1. \A x \in Int, j \in Int : ((x - 1) + j) + 1 = x + j
                OBVIOUS
            <4>2. (n + i) + 1 = Len(answers) + i
                BY <2>1, <4>1
            <4> HIDE DEF n
            <4>3. n + i \in 1..Len(p)
                BY <1>6, <1>8, <2>1, <2>2
            <4> QED BY <4>2, <4>3
        <3> QED BY <1>7, <1>8, <3>1
    <2> QED BY <2>2, <2>3
<1>10. /\ n + Len(wire \o a) = Len(p \o a)
       /\ \A i \in 1..Len(wire \o a) : (wire \o a)[i] = (p \o a)[n + i]
    <2>1. p \in Seq(S) /\ a \in Seq(S)
        <3> HIDE DEF p, a
        <3> QED BY <1>4, <1>7
    <2> HIDE DEF p, a, n, S
    <2>2. /\ n \in Nat /\ wire \in Seq(S) /\ n + Len(wire) = Len(p)
          /\ \A i \in 1..Len(wire) : wire[i] = p[n + i]
        BY <1>5, <1>6, <1>9
    <2>3. Fills(n, wire, p)
        BY <2>2 DEF Fills
    <2>4. Fills(n, wire \o a, p \o a)
        BY <2>1, <2>2, <2>3, StreamFills
    <2> QED BY <2>4 DEF Fills
<1>11. Answered'
    <2> SUFFICES ASSUME NEW i \in 1..Len(answers')
                 PROVE  \/ answers'[i] = "result"
                        \/ answers'[i] = "refused" /\ i = Len(answers')
        BY DEF Answered
    <2>1. /\ answers'[i] = answers[i + 1] /\ i + 1 \in 1..Len(answers)
          /\ i + 1 = Len(answers) => i = Len(answers')
        BY <1>6
    <2> QED BY <1>2, <2>1 DEF StreamOK, Answered
<1>12. ~(idle /\ pipeline # <<>>) /\ ~idle
    BY <1>1 DEF StreamOK
<1>13. stream' = "Open" /\ conn' # None
    <2>1. stream' = "Open"
        <3> HIDE DEF p, a
        <3> QED BY <1>2, <1>3, TypesSplit, Starts DEF Types
    <2> QED BY <1>1, <1>2, <2>1 DEF StreamOK
<1> HIDE DEF p, a, n
<1> QED BY <1>1, <1>2, <1>3, <1>6, <1>10, <1>11, <1>12, <1>13 DEF StreamOK

LEMMA StreamHandshake ==
    ASSUME TypeOK, StreamOK, OnWriteStreamHandshakeComplete PROVE StreamOK'
<1>1. /\ answers # <<>> /\ Head(answers) = "hello" /\ answers' = Tail(answers)
      /\ handshake' = TRUE /\ wire' = wire \o pipeline
      /\ UNCHANGED <<pipeline, stream, conn, idle>>
    BY DEF OnWriteStreamHandshakeComplete
<1>2. stream = "Open"
    BY <1>1 DEF StreamOK
<1>3. ~handshake
    <2>1. answers \in Seq({"hello", "result", "refused"})
        BY DEF TypeOK
    <2>2. answers[1] = "hello" /\ 1 \in 1..Len(answers)
        BY <1>1, <2>1, TailOf
    <2> QED BY <2>2 DEF StreamOK, Answered
<1>4. wire = <<>> /\ answers = <<"hello">> /\ ~idle /\ conn # None
    BY <1>1, <1>2, <1>3 DEF StreamOK
<1>5. pipeline \in Seq(Batch)
    BY DEF TypeOK
<1>6. wire' = pipeline /\ answers' = <<>>
    BY <1>1, <1>4, <1>5, ConcatEmptySeq
<1>7. Len(answers') = 0
    BY <1>6
<1>8. Answered'
    BY <1>7 DEF Answered
<1>9. Len(answers') + Len(wire') = Len(pipeline')
    <2>1. Len(pipeline) \in Nat /\ \A n \in Nat : 0 + n = n
        BY <1>5
    <2> QED BY <1>1, <1>6, <1>7, <2>1, Zenon
<1>10. \A i \in 1..Len(wire') : wire'[i] = pipeline'[Len(answers') + i]
    <2> SUFFICES ASSUME NEW i \in 1..Len(pipeline) PROVE pipeline[i] = pipeline[0 + i]
        BY <1>1, <1>6, <1>7, Zenon
    <2>1. 0 + i = i
        OBVIOUS
    <2> QED BY <2>1
<1> QED BY <1>1, <1>2, <1>4, <1>8, <1>9, <1>10 DEF StreamOK

LEMMA StreamServe == ASSUME TypeOK, StreamOK, Serve PROVE StreamOK'
<1> DEFINE S == Batch \cup {Hello}
           A == {"hello", "result", "refused"}
<1>1. /\ wire # <<>> /\ wire' = Tail(wire) /\ ~Refused
      /\ UNCHANGED <<pipeline, stream, conn, idle, handshake>>
      /\ \/ Head(wire) = Hello /\ answers' = Append(answers, "hello")
         \/ Head(wire) # Hello /\ answers' = Append(answers, "result")
         \/ Head(wire) # Hello /\ answers' = Append(answers, "refused")
    BY DEF Serve
<1>2. stream = "Open" /\ conn # None
    BY <1>1 DEF StreamOK
<1>3. wire \in Seq(S) /\ answers \in Seq(A) /\ pipeline \in Seq(Batch)
    BY DEF TypeOK
<1>4. CASE ~handshake
    <2>1. wire = <<Hello>> /\ answers = <<>> /\ ~idle
        BY <1>1, <1>2, <1>4 DEF StreamOK
    <2>2. Head(wire) = Hello /\ Tail(wire) = <<>> /\ Append(<<>>, "hello") = <<"hello">>
        BY <2>1
    <2>3. wire' = <<>> /\ answers' = <<"hello">>
        BY <1>1, <2>1, <2>2
    <2>4. ~handshake' /\ ~idle' /\ stream' = "Open" /\ conn' # None
        BY <1>1, <1>2, <1>4, <2>1
    <2> QED BY <2>3, <2>4 DEF StreamOK
<1>5. CASE handshake
    <2>1. /\ Answered /\ Len(answers) + Len(wire) = Len(pipeline)
          /\ \A i \in 1..Len(wire) : wire[i] = pipeline[Len(answers) + i]
        BY <1>5 DEF StreamOK
    <2>2. /\ Len(wire) \in Nat \ {0} /\ Len(wire') = Len(wire) - 1 /\ Head(wire) = wire[1]
          /\ \A i \in 1..Len(wire') : wire'[i] = wire[i + 1] /\ i + 1 \in 1..Len(wire)
        BY <1>1, <1>3, TailOf
    <2>3. Head(wire) # Hello
        <3>1. Len(answers) \in Nat /\ Len(pipeline) \in Nat
            BY <1>3
        <3>2. 1 \in 1..Len(wire) /\ Len(answers) + 1 \in 1..Len(pipeline)
            <4>1. \A x, z \in Nat, y \in Nat \ {0} : x + y = z => x + 1 \in 1..z
                OBVIOUS
            <4> QED BY <2>1, <2>2, <3>1, <4>1
        <3>3. Head(wire) \in Batch
            BY <1>3, <2>1, <2>2, <3>2
        <3> QED BY <3>3, BatchIsNotHello
    <2>4. PICK e \in {"result", "refused"} : answers' = Append(answers, e)
        BY <1>1, <2>3
    <2>5. /\ Len(answers) \in Nat /\ Len(answers') = Len(answers) + 1
          /\ answers'[Len(answers) + 1] = e
          /\ \A i \in 1..Len(answers) : answers'[i] = answers[i]
        <3>1. e \in A
            OBVIOUS
        <3> QED BY <1>3, <2>4, <3>1, AppendOf
    <2>6. Answered'
        <3> SUFFICES ASSUME NEW i \in 1..Len(answers')
                     PROVE  \/ answers'[i] = "result"
                            \/ answers'[i] = "refused" /\ i = Len(answers')
            BY DEF Answered
        <3>1. CASE i \in 1..Len(answers)
            <4>1. answers[i] # "refused"
                BY <1>1, <1>3, <3>1 DEF Refused
            <4> QED BY <2>1, <2>5, <3>1, <4>1 DEF Answered
        <3>2. CASE i = Len(answers) + 1
            BY <2>5, <3>2
        <3> QED BY <2>5, <3>1, <3>2
    <2>7. Len(answers') + Len(wire') = Len(pipeline')
        <3> DEFINE x == Len(answers)
                   y == Len(wire)
                   z == Len(pipeline)
        <3>1. x \in Nat /\ y \in Nat /\ z \in Nat /\ x + y = z
            <4>1. z \in Nat /\ y \in Nat
                BY <1>3
            <4> QED BY <2>1, <2>5, <4>1
        <3> HIDE DEF x, y, z
        <3>2. (x + 1) + (y - 1) = z
            BY <3>1
        <3>4. (Len(answers) + 1) + (Len(wire) - 1) = Len(pipeline)
            BY <3>2 DEF x, y, z
        <3> QED BY <1>1, <2>2, <2>5, <3>4
    <2>8. ASSUME NEW i \in 1..Len(wire') PROVE wire'[i] = pipeline'[Len(answers') + i]
        <3>1. wire'[i] = wire[i + 1] /\ i + 1 \in 1..Len(wire)
            BY <2>2
        <3>2. wire[i + 1] = pipeline[Len(answers) + (i + 1)]
            BY <2>1, <3>1
        <3>3. Len(answers) + (i + 1) = Len(answers') + i
            <4>1. i \in Int
                OBVIOUS
            <4> QED BY <2>5, <4>1
        <3> QED BY <1>1, <3>1, <3>2, <3>3
    <2> QED BY <1>1, <1>2, <1>5, <2>6, <2>7, <2>8 DEF StreamOK
<1> QED BY <1>4, <1>5

LEMMA StreamStep ==
    TypeOK /\ StoreOK /\ RequestOK /\ TokensOK /\ StreamOK /\ [Next]_vars => StreamOK'
<1> SUFFICES ASSUME TypeOK, StoreOK, RequestOK, TokensOK, StreamOK, [Next]_vars
             PROVE  StreamOK'
    OBVIOUS
<1>1. CASE StreamEnds
    BY <1>1, EndsClosed, StreamGone
<1>2. CASE Client \/ UNCHANGED vars
    <2>1. UNCHANGED <<pipeline, streamVars>>
        BY <1>2, Unchanged
           DEF Client, RunMain, ChangeUser, ReadUser, TokenCallback, Notify, AnswerToken,
               AddDocument, streamVars
    <2> QED BY <2>1 DEF StreamOK, Answered, streamVars
<1>3. CASE ResumeStart /\ ~StreamEnds
    <2> DEFINE k == Head(worker).request
    <2>1. /\ worker # <<>> /\ Head(worker).kind = "token"
          /\ UNCHANGED <<pipeline, stream, handshake, idle, wire, answers>>
          /\ conn' = conn \/ ~request[k].closed
        BY <1>3 DEF ResumeStart, Runs, StreamEnds, streamVars
    <2>2. conn' = conn \/ stream = "Starting"
        <3>1. Head(worker) = worker[1] /\ 1 \in 1..Len(worker)
            <4>1. worker \in Seq(Task)
                BY DEF TypeOK
            <4> QED BY <2>1, <4>1, TailOf
        <3>2. request[k].stage = "worker" /\ k \in Request
            BY <1>3, <2>1, <3>1, TasksType DEF TokensOK, ResumeStart
        <3> HIDE DEF k
        <3> QED BY <2>1, <3>2 DEF RequestOK, InUse
    <2> QED BY <2>1, <2>2 DEF StreamOK, Answered
<1>4. CASE OnWriteStreamOpen
    BY <1>4 DEF OnWriteStreamOpen, StreamOK
<1>5. CASE BackoffElapsed
    BY <1>5 DEF BackoffElapsed, StreamOK
<1> QED BY <1>1, <1>2, <1>3, <1>4, <1>5, StreamWrite, StreamResult, StreamHandshake,
           StreamServe
        DEF Next, Client, RunTask, StreamEvent, StreamEnds

IInv == TypeOK /\ StoreOK /\ TokenInv /\ StreamOK

\* The invariant of the write path.
THEOREM Inductive == Spec => []IInv
<1>1. Init => StreamOK
    BY DEF Init, StreamOK
<1>2. IInv /\ [Next]_vars => StreamOK'
    BY StreamStep DEF IInv, TokenInv
<1>3. IInv /\ [Next]_vars => IInv'
    <2>1. TypeOK /\ TokenInv /\ [Next]_vars => TokenInv'
        BY RequestStep, TokensStep, UserStep, CredStep, OwnTokenStep DEF TokenInv
    <2> QED BY <1>2, <2>1, StoreStep DEF IInv
<1>4. Init => IInv
    BY <1>1, StoreInit, TokenInit DEF IInv
<1> QED BY <1>3, <1>4, PTL DEF Spec

\* What RemoteStore, Stream, WriteStream and the mutation queue assert holds: a result is
\* about the first batch of the pipeline, which is on disk; an idle stream has nothing to
\* send; a token finds the stream that asked for it.
THEOREM AssertionsCorrect == Spec => []AssertionsHold
<1>1. IInv => AssertionsHold
    <2> SUFFICES ASSUME IInv PROVE AssertionsHold
        OBVIOUS
    <2>1. ASSUME answers # <<>>, Head(answers) \in {"result", "refused"}
          PROVE  /\ handshake /\ pipeline # <<>>
                 /\ Holds(queue[currentUser], Head(pipeline).id)
        <3>1. answers \in Seq({"hello", "result", "refused"}) /\ pipeline \in Seq(Batch)
              /\ wire \in Seq(Batch \cup {Hello})
            BY DEF IInv, TypeOK
        <3>2. answers[1] # "hello" /\ Len(answers) >= 1
            BY <2>1, <3>1
        <3>3. stream = "Open" /\ handshake
            <4>1. stream = "Open"
                BY <2>1 DEF IInv, StreamOK
            <4>2. answers # <<>> /\ answers # <<"hello">>
                BY <3>2
            <4> QED BY <4>1, <4>2 DEF IInv, StreamOK
        <3>4. pipeline # <<>>
            <4>1. Len(answers) + Len(wire) = Len(pipeline)
                BY <3>3 DEF IInv, StreamOK
            <4>2. Len(answers) \in Nat /\ Len(wire) \in Nat /\ Len(pipeline) # 0
                BY <3>1, <3>2, <4>1
            <4> QED BY <4>2, EmptySeq
        <3>5. Holds(queue[currentUser], Head(pipeline).id)
            <4> DEFINE q == queue[currentUser]
            <4>1. q \in Seq(Batch) /\ Increasing(q) /\ pipeline = Front(q)
                BY DEF IInv, TypeOK, StoreOK
            <4> HIDE DEF q
            <4>2. Head(pipeline) = q[1] /\ q # <<>>
                BY <3>4, <4>1, FirstLeaves
            <4>3. 1 \in DOMAIN q
                BY <4>1, <4>2
            <4> QED BY <4>2, <4>3 DEF Holds, q
        <3> QED BY <3>3, <3>4, <3>5
    <2>2. idle => pipeline = <<>>
        BY DEF IInv, StreamOK
    <2>3. ASSUME Runs("token"), ~request[Head(worker).request].closed
          PROVE  stream = "Starting" /\ conn = None
        <3> DEFINE k == Head(worker).request
        <3>1. Head(worker) = worker[1] /\ 1 \in 1..Len(worker)
            <4>1. worker \in Seq(Task)
                BY DEF IInv, TypeOK
            <4> QED BY <2>3, <4>1, TailOf DEF Runs
        <3>2. request[k].stage = "worker" /\ k \in Request
            BY <2>3, <3>1, TasksType DEF IInv, TokenInv, TokensOK, Runs
        <3> HIDE DEF k
        <3> QED BY <2>3, <3>2 DEF IInv, TokenInv, RequestOK, InUse, k
    <2> QED BY <2>1, <2>2, <2>3 DEF AssertionsHold
<1> QED BY <1>1, Inductive, PTL

-----------------------------------------------------------------------------
(***************************************************************************)
(* The order of writes: that of the calls, from the worker queue to disk   *)
(* and beyond.                                                             *)
(***************************************************************************)
Waits(w) == \E i \in 1..Len(worker) : worker[i].kind = "write" /\ worker[i].write = w

\* Older than what the app has still to call and what the worker queue has to run.
Waiting == {w \in Write : Waits(w)}

Older(v, last, waiting) == v <= last /\ \A w \in waiting : v < w

OrderOK ==
    /\ \A w \in Write : Waits(w) => w <= called
    /\ \A i, j \in 1..Len(worker) :
          i < j /\ worker[i].kind = "write" /\ worker[j].kind = "write" =>
              worker[i].write < worker[j].write
    /\ \A u \in User : /\ \A i \in 1..Len(queue[u]) : Older(queue[u][i].write, called, Waiting)
                       /\ \A w \in acked[u] \cup rejected[u] : Older(w, called, Waiting)
    /\ \A u \in User : /\ \A i, j \in 1..Len(queue[u]) :
                             i < j => queue[u][i].write < queue[u][j].write
                       /\ \A i \in 1..Len(queue[u]) :
                             \A w \in acked[u] \cup rejected[u] : w < queue[u][i].write

WorkOrder == \A i, j \in 1..Len(worker) :
    i < j /\ worker[i].kind = "write" /\ worker[j].kind = "write" =>
        worker[i].write < worker[j].write

\* No new write is on the worker queue.
LEMMA LessWork ==
    ASSUME TypeOK, WorkOrder,
           \/ worker' = worker
           \/ worker' = <<>>
           \/ worker # <<>> /\ worker' = Tail(worker)
           \/ \E e \in Task : e.kind # "write" /\ worker' = Append(worker, e)
    PROVE  /\ \A w : Waits(w)' => Waits(w)
           /\ WorkOrder'
<1>0. worker \in Seq(Task)
    BY DEF TypeOK
<1>1. CASE worker' = worker
    BY <1>1 DEF Waits, WorkOrder
<1>2. CASE worker' = <<>>
    BY <1>2 DEF Waits, WorkOrder
<1>3. CASE worker # <<>> /\ worker' = Tail(worker)
    <2>1. /\ Len(worker) \in Nat \ {0} /\ Len(worker') = Len(worker) - 1
          /\ \A i \in 1..Len(worker') : worker'[i] = worker[i + 1] /\ i + 1 \in 1..Len(worker)
        BY <1>0, <1>3, TailOf
    <2>2. \A w : Waits(w)' => Waits(w)
        BY <2>1 DEF Waits
    <2>3. WorkOrder'
        <3> SUFFICES ASSUME NEW i \in 1..Len(worker'), NEW j \in 1..Len(worker'), i < j,
                            worker'[i].kind = "write", worker'[j].kind = "write"
                     PROVE  worker'[i].write < worker'[j].write
            BY DEF WorkOrder
        <3>1. i + 1 < j + 1
            OBVIOUS
        <3> QED BY <2>1, <3>1 DEF WorkOrder
    <2> QED BY <2>2, <2>3
<1>4. CASE \E e \in Task : e.kind # "write" /\ worker' = Append(worker, e)
    <2>1. PICK e \in Task : e.kind # "write" /\ worker' = Append(worker, e)
        BY <1>4
    <2>2. /\ Len(worker) \in Nat /\ Len(worker') = Len(worker) + 1
          /\ worker'[Len(worker) + 1] = e
          /\ \A i \in 1..Len(worker) : worker'[i] = worker[i]
        BY <1>0, <2>1, AppendOf
    <2>3. \A i \in 1..Len(worker') : worker'[i].kind = "write" =>
             i \in 1..Len(worker) /\ worker'[i] = worker[i]
        BY <2>1, <2>2
    <2> QED BY <2>3 DEF Waits, WorkOrder
<1> QED BY <1>1, <1>2, <1>3, <1>4

LEMMA OrderStays ==
    ASSUME OrderOK, \A w : Waits(w)' => Waits(w), WorkOrder',
           UNCHANGED <<called, queue, acked, rejected>>
    PROVE  OrderOK'
<1>1. Waiting' \subseteq Waiting
    BY DEF Waiting
<1>2. \A v : Older(v, called, Waiting) => Older(v, called', Waiting')
    BY <1>1 DEF Older
<1> QED BY <1>2 DEF OrderOK, WorkOrder

\* The parts of OrderOK.
WaitsCalled == \A w \in Write : Waits(w) => w <= called

AllOlder == \A u \in User : /\ \A i \in 1..Len(queue[u]) : Older(queue[u][i].write, called, Waiting)
                            /\ \A w \in acked[u] \cup rejected[u] : Older(w, called, Waiting)

BatchOrder ==
    \A u \in User : /\ \A i, j \in 1..Len(queue[u]) :
                          i < j => queue[u][i].write < queue[u][j].write
                    /\ \A i \in 1..Len(queue[u]) :
                          \A w \in acked[u] \cup rejected[u] : w < queue[u][i].write

LEMMA OrderParts ==
    /\ OrderOK <=> WaitsCalled /\ WorkOrder /\ AllOlder /\ BatchOrder
    /\ OrderOK' <=> WaitsCalled' /\ WorkOrder' /\ AllOlder' /\ BatchOrder'
<1>1. OrderOK <=> WaitsCalled /\ WorkOrder /\ AllOlder /\ BatchOrder
    BY DEF OrderOK, WaitsCalled, WorkOrder, AllOlder, BatchOrder
<1>2. OrderOK' <=> WaitsCalled' /\ WorkOrder' /\ AllOlder' /\ BatchOrder'
    BY DEF OrderOK, WaitsCalled, WorkOrder, AllOlder, BatchOrder
<1> QED BY <1>1, <1>2

\* The numbers of writes, for the provers.
LEMMA WriteNumbers ==
    ASSUME TypeOK
    PROVE  /\ Write \subseteq Nat /\ called \in Nat
           /\ \A w : Waits(w) => w \in Write
           /\ \A u \in User : /\ queue[u] \in Seq(Batch)
                              /\ \A i \in 1..Len(queue[u]) : queue[u][i].write \in Write
                              /\ acked[u] \subseteq Write /\ rejected[u] \subseteq Write
<1>1. Write \subseteq Nat /\ called \in Nat
    BY PipelineAssumption DEF TypeOK
<1>2. ASSUME NEW w, Waits(w) PROVE w \in Write
    <2>1. PICK i \in 1..Len(worker) : worker[i].kind = "write" /\ worker[i].write = w
        BY <1>2 DEF Waits
    <2>2. worker[i] \in Task
        BY DEF TypeOK
    <2> QED BY <2>1, <2>2 DEF Task, MainBlock
<1>3. ASSUME NEW u \in User
      PROVE  /\ queue[u] \in Seq(Batch)
             /\ \A i \in 1..Len(queue[u]) : queue[u][i].write \in Write
             /\ acked[u] \subseteq Write /\ rejected[u] \subseteq Write
    <2>1. queue[u] \in Seq(Batch) /\ acked[u] \subseteq Write /\ rejected[u] \subseteq Write
        BY DEF TypeOK
    <2>2. ASSUME NEW i \in 1..Len(queue[u]) PROVE queue[u][i].write \in Write
        <3>1. queue[u][i] \in Batch
            BY <2>1
        <3> QED BY <3>1, BatchType
    <2> QED BY <2>1, <2>2
<1> QED BY <1>1, <1>2, <1>3

LEMMA OrderAdd == ASSUME TypeOK, OrderOK, AddDocument PROVE OrderOK'
<1> DEFINE w == called + 1
           e == [kind |-> "write", write |-> w]
<1>1. /\ w \in Write /\ called' = w /\ worker' = Append(worker, e)
      /\ UNCHANGED <<queue, acked, rejected>> /\ worker \in Seq(Task) /\ e \in Task
    BY DEF AddDocument, TypeOK, Task, storeVars, fateVars
<1>2. /\ Write \subseteq Nat /\ called \in Nat /\ w \in Nat /\ called < w
      /\ \A v : Waits(v) => v \in Write /\ v <= called
    BY WriteNumbers DEF OrderOK
<1>3. e.kind = "write" /\ e.write = w
    OBVIOUS
<1> HIDE DEF e
<1>4. /\ Len(worker) \in Nat /\ Len(worker') = Len(worker) + 1
      /\ worker'[Len(worker) + 1] = e
      /\ \A i \in 1..Len(worker) : worker'[i] = worker[i]
    BY <1>1, AppendOf
<1>5. \A v : Waits(v)' => Waits(v) \/ v = w
    BY <1>3, <1>4 DEF Waits
<1> HIDE DEF w
<1>6. WorkOrder'
    <2> SUFFICES ASSUME NEW i \in 1..Len(worker'), NEW j \in 1..Len(worker'), i < j,
                        worker'[i].kind = "write", worker'[j].kind = "write"
                 PROVE  worker'[i].write < worker'[j].write
        BY DEF WorkOrder
    <2>1. i \in 1..Len(worker) /\ worker'[i] = worker[i]
        BY <1>4
    <2>2. CASE j \in 1..Len(worker)
        BY <1>4, <2>1, <2>2 DEF OrderOK
    <2>3. CASE j = Len(worker) + 1
        <3>1. Waits(worker[i].write)
            BY <2>1 DEF Waits
        <3>2. worker[i].write <= called /\ worker[i].write \in Nat
            BY <1>2, <3>1
        <3> QED BY <1>2, <1>3, <1>4, <2>1, <2>3, <3>2
    <2> QED BY <1>4, <2>2, <2>3
<1>7. WaitsCalled'
    <2>1. \A v \in Write : Waits(v)' => v <= called'
        BY <1>1, <1>2, <1>5
    <2> QED BY <2>1 DEF WaitsCalled
<1>8. \A v \in Write : Older(v, called, Waiting) => Older(v, called', Waiting')
    <2> SUFFICES ASSUME NEW v \in Write, Older(v, called, Waiting) PROVE Older(v, called', Waiting')
        OBVIOUS
    <2>1. v <= called /\ v \in Nat
        BY <1>2 DEF Older
    <2>2. v <= called' /\ v < w
        BY <1>1, <1>2, <2>1
    <2>3. \A x \in Waiting' : x \in Waiting \/ x = w
        BY <1>5 DEF Waiting
    <2> QED BY <2>2, <2>3 DEF Older
<1>9. AllOlder'
    <2> SUFFICES ASSUME NEW u \in User
                 PROVE  /\ \A i \in 1..Len(queue[u]) : Older(queue[u][i].write, called', Waiting')
                        /\ \A v \in acked[u] \cup rejected[u] : Older(v, called', Waiting')
        BY <1>1 DEF AllOlder
    <2>1. /\ \A i \in 1..Len(queue[u]) : queue[u][i].write \in Write
          /\ acked[u] \subseteq Write /\ rejected[u] \subseteq Write
        BY WriteNumbers
    <2>2. /\ \A i \in 1..Len(queue[u]) : Older(queue[u][i].write, called, Waiting)
          /\ \A v \in acked[u] \cup rejected[u] : Older(v, called, Waiting)
        BY DEF OrderOK
    <2> QED BY <1>8, <2>1, <2>2
<1>10. BatchOrder'
    BY <1>1, OrderParts DEF BatchOrder
<1> QED BY <1>6, <1>7, <1>9, <1>10, OrderParts

LEMMA OrderWrite == ASSUME TypeOK, OrderOK, WriteMutations PROVE OrderOK'
<1> DEFINE w == Head(worker).write
           b == [id |-> nextBatchId, write |-> w]
           q == queue[currentUser]
<1>1. /\ worker # <<>> /\ Head(worker).kind = "write" /\ worker' = Tail(worker)
      /\ queue' = [queue EXCEPT ![currentUser] = Append(q, b)]
      /\ UNCHANGED <<called, acked, rejected>> /\ w \in Write
    BY TasksType DEF WriteMutations, Runs, fateVars
<1>2. /\ worker \in Seq(Task) /\ currentUser \in User /\ q \in Seq(Batch) /\ b \in Batch
      /\ b.write = w /\ queue \in [User -> Seq(Batch)]
    BY <1>1 DEF TypeOK, Batch
<1> HIDE DEF b
<1>3. Write \subseteq Nat /\ called \in Nat
    BY WriteNumbers
<1>4. /\ Len(worker) \in Nat \ {0} /\ Len(worker') = Len(worker) - 1
      /\ Head(worker) = worker[1]
      /\ \A i \in 1..Len(worker') : worker'[i] = worker[i + 1] /\ i + 1 \in 1..Len(worker)
    BY <1>1, <1>2, TailOf
<1>5. Waits(w) /\ w <= called
    <2>1. Waits(w)
        BY <1>1, <1>4 DEF Waits
    <2> QED BY <1>1, <2>1 DEF OrderOK
<1>6. \A v : Waits(v)' => Waits(v) /\ w < v
    <2> SUFFICES ASSUME NEW v, Waits(v)' PROVE Waits(v) /\ w < v
        OBVIOUS
    <2>1. PICK i \in 1..Len(worker') : worker'[i].kind = "write" /\ worker'[i].write = v
        BY DEF Waits
    <2>2. /\ i + 1 \in 1..Len(worker) /\ 1 \in 1..Len(worker) /\ 1 < i + 1
          /\ worker[i + 1].kind = "write" /\ worker[i + 1].write = v
        BY <1>4, <2>1
    <2>3. worker[1].write < worker[i + 1].write
        BY <1>1, <1>4, <2>2 DEF OrderOK
    <2> QED BY <1>4, <2>2, <2>3 DEF Waits
<1>7. WorkOrder'
    BY <1>1, LessWork DEF OrderOK, WorkOrder
<1> HIDE DEF w
<1>8. Older(w, called', Waiting') /\ \A v : Older(v, called, Waiting) => Older(v, called', Waiting')
    <2>1. called' = called
        BY <1>1
    <2>2. w <= called' /\ \A v \in Waiting' : w < v
        BY <1>5, <1>6, <2>1 DEF Waiting
    <2>3. ASSUME NEW v, Older(v, called, Waiting) PROVE Older(v, called', Waiting')
        <3>1. v <= called'
            BY <2>1, <2>3 DEF Older
        <3>2. \A x \in Waiting' : v < x
            BY <1>6, <2>3 DEF Older, Waiting
        <3> QED BY <3>1, <3>2 DEF Older
    <2> QED BY <2>2, <2>3 DEF Older
<1>9. /\ Len(Append(q, b)) = Len(q) + 1 /\ Len(q) \in Nat /\ Append(q, b)[Len(q) + 1] = b
      /\ \A i \in 1..Len(q) : Append(q, b)[i] = q[i]
      /\ queue'[currentUser] = Append(q, b)
      /\ \A u \in User \ {currentUser} : queue'[u] = queue[u]
    <2> HIDE DEF q
    <2> QED BY <1>1, <1>2, AppendOf
<1>10. /\ \A i \in 1..Len(q) : Older(q[i].write, called, Waiting) /\ q[i].write < w
       /\ \A u \in User : \A v \in acked[u] \cup rejected[u] : Older(v, called, Waiting) /\ v < w
    BY <1>1, <1>2, <1>5 DEF OrderOK, Older, Waiting
<1>11. ASSUME NEW u \in User
       PROVE  /\ \A i \in 1..Len(queue'[u]) : Older(queue'[u][i].write, called', Waiting')
              /\ \A v \in acked'[u] \cup rejected'[u] : Older(v, called', Waiting')
              /\ \A i, j \in 1..Len(queue'[u]) :
                    i < j => queue'[u][i].write < queue'[u][j].write
              /\ \A i \in 1..Len(queue'[u]) :
                    \A v \in acked'[u] \cup rejected'[u] : v < queue'[u][i].write
    <2>1. CASE u # currentUser
        <3>1. queue'[u] = queue[u] /\ acked' = acked /\ rejected' = rejected
            BY <1>1, <1>9, <2>1
        <3>2. /\ \A i \in 1..Len(queue[u]) : Older(queue[u][i].write, called', Waiting')
              /\ \A v \in acked[u] \cup rejected[u] : Older(v, called', Waiting')
            BY <1>8 DEF OrderOK
        <3>3. /\ \A i, j \in 1..Len(queue[u]) :
                    i < j => queue[u][i].write < queue[u][j].write
              /\ \A i \in 1..Len(queue[u]) :
                    \A v \in acked[u] \cup rejected[u] : v < queue[u][i].write
            BY DEF OrderOK
        <3> QED BY <3>1, <3>2, <3>3
    <2>2. CASE u = currentUser
        <3> DEFINE p == Append(q, b)
        <3>1. \A i \in 1..Len(p) : \/ i \in 1..Len(q) /\ p[i] = q[i]
                                   \/ i = Len(q) + 1 /\ p[i].write = w
            BY <1>2, <1>9
        <3>2. /\ \A i \in 1..Len(p) : Older(p[i].write, called', Waiting')
              /\ \A i \in 1..Len(p) : \A v \in acked[u] \cup rejected[u] : v < p[i].write
            <4> HIDE DEF p
            <4>1. \A i \in 1..Len(q) : \A v \in acked[u] \cup rejected[u] : v < q[i].write
                BY <2>2 DEF OrderOK
            <4> SUFFICES ASSUME NEW i \in 1..Len(p)
                         PROVE  /\ Older(p[i].write, called', Waiting')
                                /\ \A v \in acked[u] \cup rejected[u] : v < p[i].write
                OBVIOUS
            <4>2. CASE i \in 1..Len(q) /\ p[i] = q[i]
                BY <1>8, <1>10, <4>1, <4>2
            <4>3. CASE i = Len(q) + 1 /\ p[i].write = w
                BY <1>8, <1>10, <4>3
            <4> QED BY <3>1, <4>2, <4>3
        <3>3. \A i, j \in 1..Len(p) : i < j => p[i].write < p[j].write
            <4> HIDE DEF p
            <4> SUFFICES ASSUME NEW i \in 1..Len(p), NEW j \in 1..Len(p), i < j
                         PROVE  p[i].write < p[j].write
                OBVIOUS
            <4>1. CASE j \in 1..Len(q) /\ p[j] = q[j]
                <5>1. i \in 1..Len(q) /\ p[i] = q[i]
                    BY <1>9, <3>1, <4>1
                <5> QED BY <1>2, <4>1, <5>1 DEF OrderOK
            <4>2. CASE j = Len(q) + 1 /\ p[j].write = w
                <5>1. i \in 1..Len(q) /\ p[i] = q[i]
                    BY <1>9, <3>1, <4>2
                <5> QED BY <1>10, <4>2, <5>1
            <4> QED BY <3>1, <4>1, <4>2
        <3>4. queue'[u] = p /\ acked' = acked /\ rejected' = rejected
            BY <1>1, <1>9, <2>2
        <3>5. \A v \in acked[u] \cup rejected[u] : Older(v, called', Waiting')
            BY <1>8, <1>10
        <3> HIDE DEF p
        <3> QED BY <3>2, <3>3, <3>4, <3>5
    <2> QED BY <2>1, <2>2
<1>12. WaitsCalled'
    <2>1. called' = called
        BY <1>1
    <2>2. \A v \in Write : Waits(v)' => v <= called'
        BY <1>6, <2>1 DEF OrderOK
    <2> QED BY <2>2 DEF WaitsCalled
<1>13. AllOlder' /\ BatchOrder'
    BY <1>11 DEF AllOlder, BatchOrder
<1> QED BY <1>7, <1>12, <1>13, OrderParts

\* The first batch leaves the queue of the client's user and is settled.
LEMMA OrderSettle ==
    ASSUME TypeOK, StoreOK, OrderOK, pipeline # <<>>,
           queue' = [queue EXCEPT ![currentUser] = Without(@, Head(pipeline).id)],
           UNCHANGED <<currentUser, nextBatchId, called, worker>>,
           pipeline' = Tail(pipeline) \o Added(Tail(pipeline), queue'[currentUser]),
           \/ /\ acked' = [acked EXCEPT ![currentUser] = @ \cup {Head(pipeline).write}]
              /\ rejected' = rejected
           \/ /\ rejected' = [rejected EXCEPT ![currentUser] = @ \cup {Head(pipeline).write}]
              /\ acked' = acked
    PROVE  OrderOK'
<1> DEFINE q == queue[currentUser]
           h == Head(pipeline).write
<1>1. /\ q \in Seq(Batch) /\ q # <<>> /\ h = q[1].write /\ queue'[currentUser] = Tail(q)
      /\ \A u \in User \ {currentUser} : queue'[u] = queue[u]
    BY SettledKeeps DEF TypeOK
<1>2. currentUser \in User /\ acked \in [User -> SUBSET Write]
      /\ rejected \in [User -> SUBSET Write]
    BY DEF TypeOK
<1> HIDE DEF h
<1>3. /\ \A u \in User \ {currentUser} : acked'[u] \cup rejected'[u] = acked[u] \cup rejected[u]
      /\ acked'[currentUser] \cup rejected'[currentUser]
             = (acked[currentUser] \cup rejected[currentUser]) \cup {h}
    <2>1. CASE /\ acked' = [acked EXCEPT ![currentUser] = @ \cup {h}]
               /\ rejected' = rejected
        BY <1>2, <2>1
    <2>2. CASE /\ rejected' = [rejected EXCEPT ![currentUser] = @ \cup {h}]
               /\ acked' = acked
        BY <1>2, <2>2
    <2> QED BY <2>1, <2>2 DEF h
<1>4. UNCHANGED <<Waiting, called>> /\ WaitsCalled' /\ WorkOrder'
    <2>1. WaitsCalled /\ WorkOrder
        BY OrderParts
    <2> QED BY <2>1 DEF Waiting, Waits, WaitsCalled, WorkOrder
<1>5. /\ Len(q) \in Nat \ {0}
      /\ \A i \in 1..Len(Tail(q)) : Tail(q)[i] = q[i + 1] /\ i + 1 \in 1..Len(q)
      /\ 1 \in 1..Len(q)
    <2> HIDE DEF q
    <2>1. Len(q) \in Nat \ {0}
          /\ \A i \in 1..Len(Tail(q)) : Tail(q)[i] = q[i + 1] /\ i + 1 \in 1..Len(q)
        BY <1>1, TailOf
    <2> QED BY <2>1
<1>6. /\ \A i \in 1..Len(q) : Older(q[i].write, called, Waiting)
      /\ \A w \in acked[currentUser] \cup rejected[currentUser] : Older(w, called, Waiting)
      /\ \A i, j \in 1..Len(q) : i < j => q[i].write < q[j].write
      /\ \A i \in 1..Len(q) :
            \A w \in acked[currentUser] \cup rejected[currentUser] : w < q[i].write
    BY <1>2 DEF OrderOK
<1>7. ASSUME NEW u \in User
      PROVE  /\ \A i \in 1..Len(queue'[u]) : Older(queue'[u][i].write, called', Waiting')
             /\ \A w \in acked'[u] \cup rejected'[u] : Older(w, called', Waiting')
             /\ \A i, j \in 1..Len(queue'[u]) :
                   i < j => queue'[u][i].write < queue'[u][j].write
             /\ \A i \in 1..Len(queue'[u]) :
                   \A w \in acked'[u] \cup rejected'[u] : w < queue'[u][i].write
    <2>1. CASE u # currentUser
        <3>1. queue'[u] = queue[u] /\ acked'[u] \cup rejected'[u] = acked[u] \cup rejected[u]
            BY <1>1, <1>3, <2>1
        <3>2. called' = called /\ Waiting' = Waiting
            BY <1>4
        <3> QED BY <3>1, <3>2 DEF OrderOK
    <2>2. CASE u = currentUser
        <3>1. queue'[u] = Tail(q)
            BY <1>1, <2>2
        <3>2. acked'[u] \cup rejected'[u]
                  = (acked[currentUser] \cup rejected[currentUser]) \cup {h}
            BY <1>3, <2>2
        <3>3. called' = called /\ Waiting' = Waiting
            BY <1>4
        <3> HIDE DEF q
        <3>4. \A i \in 1..Len(Tail(q)) : Older(Tail(q)[i].write, called, Waiting)
            BY <1>5, <1>6
        <3>5. Older(h, called, Waiting)
            BY <1>1, <1>5, <1>6
        <3>6. \A i, j \in 1..Len(Tail(q)) : i < j => Tail(q)[i].write < Tail(q)[j].write
            <4> SUFFICES ASSUME NEW i \in 1..Len(Tail(q)), NEW j \in 1..Len(Tail(q)), i < j
                         PROVE  Tail(q)[i].write < Tail(q)[j].write
                OBVIOUS
            <4>1. i + 1 < j + 1
                OBVIOUS
            <4> QED BY <1>5, <1>6, <4>1
        <3>7. \A i \in 1..Len(Tail(q)) : h < Tail(q)[i].write
            <4> SUFFICES ASSUME NEW i \in 1..Len(Tail(q)) PROVE h < Tail(q)[i].write
                OBVIOUS
            <4>1. 1 < i + 1
                OBVIOUS
            <4> QED BY <1>1, <1>5, <1>6, <4>1
        <3>8. \A i \in 1..Len(Tail(q)) :
                 \A w \in acked[currentUser] \cup rejected[currentUser] : w < Tail(q)[i].write
            BY <1>5, <1>6
        <3> QED BY <1>6, <3>1, <3>2, <3>3, <3>4, <3>5, <3>6, <3>7, <3>8
    <2> QED BY <2>1, <2>2
<1>8. AllOlder' /\ BatchOrder'
    BY <1>7 DEF AllOlder, BatchOrder
<1> QED BY <1>4, <1>8, OrderParts

LEMMA OrderStep ==
    TypeOK /\ StoreOK /\ OrderOK /\ [Next]_vars => OrderOK'
<1> SUFFICES ASSUME TypeOK, StoreOK, OrderOK, [Next]_vars PROVE OrderOK'
    OBVIOUS
<1>0. WorkOrder /\ worker \in Seq(Task)
    BY OrderParts DEF TypeOK
<1>1. CASE AddDocument
    BY <1>1, OrderAdd
<1>2. CASE WriteMutations
    BY <1>2, OrderWrite
<1>3. CASE OnWriteStreamMutationResult
    <2>1. /\ pipeline # <<>>
          /\ queue' = [queue EXCEPT ![currentUser] = Without(@, Head(pipeline).id)]
          /\ UNCHANGED <<currentUser, nextBatchId, called, worker, rejected>>
          /\ acked' = [acked EXCEPT ![currentUser] = @ \cup {Head(pipeline).write}]
          /\ pipeline' = Tail(pipeline) \o Added(Tail(pipeline), queue'[currentUser])
        BY <1>3 DEF OnWriteStreamMutationResult, FillWritePipeline, elsewhere
    <2> QED BY <2>1, OrderSettle
<1>4. CASE HandleWriteError
    <2> DEFINE rest == Without(queue[currentUser], Head(pipeline).id)
    <2>1. /\ pipeline # <<>>
          /\ queue' = [queue EXCEPT ![currentUser] = rest]
          /\ UNCHANGED <<currentUser, nextBatchId, called, worker, acked>>
          /\ rejected' = [rejected EXCEPT ![currentUser] = @ \cup {Head(pipeline).write}]
          /\ pipeline' = Tail(pipeline) \o Added(Tail(pipeline), rest)
        BY <1>4 DEF HandleWriteError, elsewhere
    <2>2. queue'[currentUser] = rest
        BY <2>1 DEF TypeOK
    <2> QED BY <2>1, <2>2, OrderSettle
<1>5. CASE /\ UNCHANGED <<called, queue, acked, rejected>>
           /\ \/ worker' = worker
              \/ worker' = <<>>
              \/ worker # <<>> /\ worker' = Tail(worker)
              \/ \E e \in Task : e.kind # "write" /\ worker' = Append(worker, e)
    <2>1. /\ \A w : Waits(w)' => Waits(w)
          /\ WorkOrder'
        BY <1>0, <1>5, LessWork
    <2> QED BY <1>5, <2>1, OrderStays
<1>6. CASE Notify \/ AnswerToken
    <2>1. /\ UNCHANGED <<called, queue, acked, rejected>>
          /\ worker' = Append(worker, Head(main)) /\ Head(main).kind # "write"
          /\ Head(main) \in Task
        BY <1>6, TasksType DEF Notify, AnswerToken, storeVars, fateVars
    <2> QED BY <1>5, <2>1
<1>7. CASE HandleCredentialChange \/ ResumeStart
    BY <1>5, <1>7 DEF HandleCredentialChange, ResumeStart, Runs, storeVars, fateVars
<1>8. CASE Restart
    BY <1>5, <1>8 DEF Restart, fateVars
<1>9. CASE UNCHANGED vars
    BY <1>5, <1>9, Unchanged
<1>10. CASE \/ \E u \in User : ChangeUser(u)
            \/ \E k \in Request : \/ ReadUser(k)
                                  \/ \E error \in BOOLEAN : TokenCallback(k, error)
            \/ OnWriteStreamOpen \/ OnWriteStreamHandshakeComplete
            \/ OnWriteStreamClose \/ BackoffElapsed \/ IdleTimeout \/ Serve
    <2>1. UNCHANGED <<called, worker, queue, acked, rejected>>
        BY <1>10 DEF ChangeUser, ReadUser, TokenCallback, OnWriteStreamOpen,
               OnWriteStreamHandshakeComplete, OnWriteStreamClose, BackoffElapsed,
               IdleTimeout, Serve, elsewhere, storeVars, fateVars
    <2> QED BY <1>5, <2>1
<1> QED BY <1>1, <1>2, <1>3, <1>4, <1>6, <1>7, <1>8, <1>9, <1>10
        DEF Next, RunMain, RunTask, StreamEvent

\* Writes are stored, sent and settled in the order in which the app has called for them,
\* over every restart and change of user.
THEOREM OrderCorrect == Spec => [](TypeOK /\ OrderOK)
<1>1. Init => OrderOK
    <2> SUFFICES ASSUME Init PROVE OrderOK
        OBVIOUS
    <2>1. /\ worker = <<>> /\ \A u \in User : queue[u] = <<>> /\ acked[u] = {} /\ rejected[u] = {}
        BY DEF Init
    <2> QED BY <2>1 DEF OrderOK, Waits
<1> QED BY <1>1, OrderStep, StoreInit, StoreStep, PTL DEF Spec

-----------------------------------------------------------------------------
(***************************************************************************)
(* WritePipeline implements WriteQueue.                                    *)
(***************************************************************************)
WritesOf(q) == [i \in 1..Len(q) |-> q[i].write]

Queues == [u \in User |-> [i \in 1..Len(queue[u]) |-> queue[u][i].write]]
Rounds == [u \in User |-> IF u = currentUser /\ handshake THEN Results ELSE 0]
Refusals == [u \in User |-> u = currentUser /\ handshake /\ Refused]

LEMMA WritesType ==
    ASSUME NEW q \in Seq(Batch)
    PROVE  WritesOf(q) \in Seq(Write) /\ Len(WritesOf(q)) = Len(q)
<1>1. Len(q) \in Nat /\ \A i \in 1..Len(q) : q[i].write \in Write
    <2>1. \A i \in 1..Len(q) : q[i] \in Batch
        OBVIOUS
    <2> QED BY <2>1, BatchType
<1> QED BY <1>1 DEF WritesOf

LEMMA WritesAppend ==
    ASSUME NEW q \in Seq(Batch), NEW b \in Batch
    PROVE  WritesOf(Append(q, b)) = Append(WritesOf(q), b.write)
<1>1. /\ WritesOf(q) \in Seq(Write) /\ Len(WritesOf(q)) = Len(q) /\ b.write \in Write
      /\ Append(q, b) \in Seq(Batch)
    BY WritesType, BatchType
<1>2. /\ Len(Append(q, b)) = Len(q) + 1 /\ Len(q) \in Nat
      /\ Append(q, b)[Len(q) + 1] = b
      /\ \A i \in 1..Len(q) : Append(q, b)[i] = q[i]
    BY AppendOf
<1>3. /\ Append(WritesOf(q), b.write) \in Seq(Write)
      /\ Len(Append(WritesOf(q), b.write)) = Len(q) + 1
      /\ Append(WritesOf(q), b.write)[Len(q) + 1] = b.write
      /\ \A i \in 1..Len(q) : Append(WritesOf(q), b.write)[i] = WritesOf(q)[i]
    BY <1>1, AppendOf
<1>4. /\ WritesOf(Append(q, b)) \in Seq(Write)
      /\ Len(WritesOf(Append(q, b))) = Len(q) + 1
    BY <1>1, <1>2, WritesType
<1>5. \A i \in 1..Len(q) + 1 : WritesOf(Append(q, b))[i] = Append(WritesOf(q), b.write)[i]
    <2> SUFFICES ASSUME NEW i \in 1..Len(q) + 1
                 PROVE  WritesOf(Append(q, b))[i] = Append(WritesOf(q), b.write)[i]
        OBVIOUS
    <2>1. WritesOf(Append(q, b))[i] = Append(q, b)[i].write
        BY <1>2 DEF WritesOf
    <2>2. CASE i \in 1..Len(q)
        <3>1. WritesOf(q)[i] = q[i].write
            BY <2>2 DEF WritesOf
        <3>2. Append(q, b)[i] = q[i]
            BY <1>2, <2>2
        <3>3. Append(WritesOf(q), b.write)[i] = WritesOf(q)[i]
            BY <1>3, <2>2
        <3> QED BY <2>1, <3>1, <3>2, <3>3, Zenon
    <2>3. CASE i = Len(q) + 1
        BY <1>2, <1>3, <2>1, <2>3, Zenon
    <2>4. i \in 1..Len(q) \/ i = Len(q) + 1
        <3>1. Len(q) \in Nat
            OBVIOUS
        <3> QED BY <3>1
    <2> QED BY <2>2, <2>3, <2>4
<1> QED BY <1>3, <1>4, <1>5, SeqEqual

LEMMA WritesTail ==
    ASSUME NEW q \in Seq(Batch), q # <<>>
    PROVE  /\ WritesOf(q) # <<>> /\ Head(WritesOf(q)) = q[1].write
           /\ WritesOf(Tail(q)) = Tail(WritesOf(q))
<1>1. WritesOf(q) \in Seq(Write) /\ Len(WritesOf(q)) = Len(q)
    BY WritesType
<1>2. /\ Tail(q) \in Seq(Batch) /\ Len(q) \in Nat \ {0} /\ Len(Tail(q)) = Len(q) - 1
      /\ \A i \in 1..Len(Tail(q)) : Tail(q)[i] = q[i + 1] /\ i + 1 \in 1..Len(q)
    BY TailOf
<1>3. WritesOf(q) # <<>>
    BY <1>1, <1>2, EmptySeq
<1>4. /\ Tail(WritesOf(q)) \in Seq(Write) /\ Len(Tail(WritesOf(q))) = Len(q) - 1
      /\ Head(WritesOf(q)) = WritesOf(q)[1]
      /\ \A i \in 1..Len(q) - 1 : Tail(WritesOf(q))[i] = WritesOf(q)[i + 1]
    BY <1>1, <1>3, TailOf
<1>5. Head(WritesOf(q)) = q[1].write
    BY <1>2, <1>4 DEF WritesOf
<1>6. WritesOf(Tail(q)) \in Seq(Write) /\ Len(WritesOf(Tail(q))) = Len(q) - 1
    BY <1>2, WritesType
<1>7. \A i \in 1..Len(q) - 1 : WritesOf(Tail(q))[i] = Tail(WritesOf(q))[i]
    BY <1>2, <1>4 DEF WritesOf
<1> QED BY <1>3, <1>4, <1>5, <1>6, <1>7, SeqEqual

LEMMA QueuesType ==
    ASSUME TypeOK
    PROVE  /\ \A u \in User : Queues[u] = WritesOf(queue[u])
           /\ \A u \in User : Len(Queues[u]) = Len(queue[u])
           /\ \A u \in User : \A i \in 1..Len(queue[u]) : Queues[u][i] = queue[u][i].write
<1>1. ASSUME NEW u \in User
      PROVE  /\ Queues[u] = WritesOf(queue[u])
             /\ Len(Queues[u]) = Len(queue[u])
             /\ \A i \in 1..Len(queue[u]) : Queues[u][i] = queue[u][i].write
    <2>1. Queues[u] = WritesOf(queue[u])
        BY DEF Queues, WritesOf
    <2>2. queue[u] \in Seq(Batch)
        BY DEF TypeOK
    <2> QED BY <2>1, <2>2, WritesType DEF WritesOf
<1> QED BY <1>1

\* Steps of the abstract queue, in terms of the mapping.
LEMMA MapsStutter ==
    ASSUME UNCHANGED <<Queues, Rounds, Refusals, stored, acked, rejected>>
    PROVE  UNCHANGED Queue!vars
BY DEF Queue!vars, Queues, Rounds, Refusals

LEMMA MapsSubmit ==
    ASSUME NEW u \in User, NEW w \in Write,
           \A i \in DOMAIN Queues[u] : Queues[u][i] < w,
           \A v \in acked[u] \cup rejected[u] : v < w,
           Queues' = [Queues EXCEPT ![u] = Append(@, w)],
           UNCHANGED <<Rounds, Refusals, stored, acked, rejected>>
    PROVE  Queue!Next
<1>1. Queue!Submit(u, w)
    BY DEF Queue!Submit, Queue!Newer, Queues, Rounds, Refusals
<1> QED BY <1>1 DEF Queue!Next

LEMMA MapsApply ==
    ASSUME NEW u \in User, ~Refusals[u], Rounds[u] < Len(Queues[u]),
           stored' = [stored EXCEPT ![u] = Queues[u][Rounds[u] + 1]],
           Rounds' = [Rounds EXCEPT ![u] = @ + 1],
           UNCHANGED <<Queues, Refusals, acked, rejected>>
    PROVE  Queue!Next
<1>1. Queue!Apply(u)
    BY DEF Queue!Apply, Queues, Rounds, Refusals
<1> QED BY <1>1 DEF Queue!Next

LEMMA MapsRefuse ==
    ASSUME NEW u \in User, ~Refusals[u], Rounds[u] < Len(Queues[u]),
           Refusals' = [Refusals EXCEPT ![u] = TRUE],
           UNCHANGED <<Queues, Rounds, stored, acked, rejected>>
    PROVE  Queue!Next
<1>1. Queue!Refuse(u)
    BY DEF Queue!Refuse, Queues, Rounds, Refusals
<1> QED BY <1>1 DEF Queue!Next

LEMMA MapsStartOver ==
    ASSUME NEW u \in User,
           Rounds' = [Rounds EXCEPT ![u] = 0],
           Refusals' = [Refusals EXCEPT ![u] = FALSE],
           UNCHANGED <<Queues, stored, acked, rejected>>
    PROVE  Queue!Next
<1>1. Queue!StartOver(u)
    BY DEF Queue!StartOver, Queues, Rounds, Refusals
<1> QED BY <1>1 DEF Queue!Next

LEMMA MapsAcknowledge ==
    ASSUME NEW u \in User, Rounds[u] > 0, Queues[u] # <<>>,
           acked' = [acked EXCEPT ![u] = @ \cup {Head(Queues[u])}],
           Queues' = [Queues EXCEPT ![u] = Tail(@)],
           Rounds' = [Rounds EXCEPT ![u] = @ - 1],
           UNCHANGED <<Refusals, stored, rejected>>
    PROVE  Queue!Next
<1>1. Queue!Acknowledge(u)
    BY DEF Queue!Acknowledge, Queues, Rounds, Refusals
<1> QED BY <1>1 DEF Queue!Next

LEMMA MapsReject ==
    ASSUME NEW u \in User, Refusals[u], Rounds[u] = 0, Queues[u] # <<>>,
           rejected' = [rejected EXCEPT ![u] = @ \cup {Head(Queues[u])}],
           Queues' = [Queues EXCEPT ![u] = Tail(@)],
           Refusals' = [Refusals EXCEPT ![u] = FALSE],
           UNCHANGED <<Rounds, stored, acked>>
    PROVE  Queue!Next
<1>1. Queue!Reject(u)
    BY DEF Queue!Reject, Queues, Rounds, Refusals
<1> QED BY <1>1 DEF Queue!Next

\* Where the mapping says the backend is in a queue.
LEMMA MapsSame ==
    ASSUME UNCHANGED <<queue, currentUser, handshake, answers, stored, acked, rejected>>
    PROVE  UNCHANGED Queue!vars
<1>1. UNCHANGED <<Queues, Rounds, Refusals>>
    BY DEF Queues, Rounds, Refusals, Results, Refused
<1> QED BY <1>1, MapsStutter

LEMMA MapsIdle ==
    ASSUME ~handshake, ~handshake'
    PROVE  UNCHANGED <<Rounds, Refusals>>
BY DEF Rounds, Refusals

LEMMA MapsHandshake ==
    ASSUME TypeOK, StreamOK, OnWriteStreamHandshakeComplete
    PROVE  UNCHANGED Queue!vars
<1>1. /\ answers # <<>> /\ Head(answers) = "hello" /\ answers' = Tail(answers)
      /\ UNCHANGED <<queue, currentUser, stored, acked, rejected>>
    BY DEF OnWriteStreamHandshakeComplete, elsewhere, storeVars, fateVars
<1>2. stream = "Open"
    BY <1>1 DEF StreamOK
<1>3. ~handshake
    <2>1. answers \in Seq({"hello", "result", "refused"})
        BY DEF TypeOK
    <2>2. answers[1] = "hello" /\ 1 \in 1..Len(answers)
        BY <1>1, <2>1, TailOf
    <2> QED BY <2>2 DEF StreamOK, Answered
<1>4. answers' = <<>>
    <2>1. answers = <<"hello">>
        BY <1>1, <1>2, <1>3 DEF StreamOK
    <2> QED BY <1>1, <2>1
<1>5. Results' = 0 /\ ~Refused'
    BY <1>4 DEF Results, Refused
<1>6. UNCHANGED <<Rounds, Refusals, Queues>>
    BY <1>1, <1>3, <1>5 DEF Rounds, Refusals, Queues
<1> QED BY <1>1, <1>6, MapsStutter

LEMMA MapsWrite ==
    ASSUME TypeOK, OrderOK, WriteMutations PROVE Queue!Next
<1> DEFINE w == Head(worker).write
           b == [id |-> nextBatchId, write |-> w]
           q == queue[currentUser]
<1>1. /\ worker # <<>> /\ Head(worker).kind = "write" /\ w \in Write
      /\ queue' = [queue EXCEPT ![currentUser] = Append(q, b)]
      /\ UNCHANGED <<currentUser, handshake, answers, stored, acked, rejected>>
    BY TasksType DEF WriteMutations, Runs, fateVars
<1>2. /\ worker \in Seq(Task) /\ currentUser \in User /\ q \in Seq(Batch) /\ b \in Batch
      /\ b.write = w /\ queue \in [User -> Seq(Batch)]
    BY <1>1 DEF TypeOK, Batch
<1> HIDE DEF b
<1>3. w \in Waiting
    <2>1. Head(worker) = worker[1] /\ 1 \in 1..Len(worker)
        BY <1>1, <1>2, TailOf
    <2> QED BY <1>1, <2>1 DEF Waiting, Waits
<1> HIDE DEF w
<1>4. /\ \A i \in 1..Len(q) : q[i].write < w
      /\ \A v \in acked[currentUser] \cup rejected[currentUser] : v < w
    BY <1>2, <1>3 DEF OrderOK, Older
<1>5. \A i \in DOMAIN Queues[currentUser] : Queues[currentUser][i] < w
    BY <1>2, <1>4, QueuesType DEF Queues
<1>6. Queues' = [Queues EXCEPT ![currentUser] = Append(@, w)]
    <2>1. Queues = [u \in User |-> WritesOf(queue[u])]
        BY DEF Queues, WritesOf
    <2>2. Queues' = [u \in User |-> WritesOf(queue'[u])]
        BY DEF Queues, WritesOf
    <2> HIDE DEF q
    <2>3. WritesOf(Append(q, b)) = Append(WritesOf(q), w)
        BY <1>2, WritesAppend
    <2>4. ASSUME NEW u \in User
          PROVE  WritesOf(queue'[u]) =
                     IF u = currentUser THEN Append(WritesOf(q), w) ELSE WritesOf(queue[u])
        BY <1>1, <1>2, <2>3
    <2> QED BY <1>2, <2>1, <2>2, <2>4 DEF q
<1>7. UNCHANGED <<Rounds, Refusals>>
    BY <1>1 DEF Rounds, Refusals, Results, Refused
<1> HIDE DEF q
<1> QED BY <1>1, <1>2, <1>4, <1>5, <1>6, <1>7, MapsSubmit

\* The first batch leaves the queue.
LEMMA MapsTail ==
    ASSUME TypeOK, queue[currentUser] # <<>>,
           queue' = [queue EXCEPT ![currentUser] = Tail(queue[currentUser])]
    PROVE  /\ Queues' = [Queues EXCEPT ![currentUser] = Tail(@)]
           /\ Queues[currentUser] # <<>>
           /\ Head(Queues[currentUser]) = queue[currentUser][1].write
<1> DEFINE q == queue[currentUser]
<1>1. currentUser \in User /\ q \in Seq(Batch) /\ queue \in [User -> Seq(Batch)]
    BY DEF TypeOK
<1>2. Queues = [u \in User |-> WritesOf(queue[u])]
    BY DEF Queues, WritesOf
<1>3. Queues' = [u \in User |-> WritesOf(queue'[u])]
    BY DEF Queues, WritesOf
<1>4. /\ WritesOf(q) # <<>> /\ Head(WritesOf(q)) = q[1].write
      /\ WritesOf(Tail(q)) = Tail(WritesOf(q))
    <2> HIDE DEF q
    <2>1. q # <<>>
        BY DEF q
    <2> QED BY <1>1, <2>1, WritesTail
<1>5. ASSUME NEW u \in User
      PROVE  WritesOf(queue'[u]) =
                 IF u = currentUser THEN Tail(WritesOf(q)) ELSE WritesOf(queue[u])
    BY <1>1, <1>4
<1>6. Queues[currentUser] = WritesOf(q)
    BY <1>1, <1>2
<1>7. Queues' = [Queues EXCEPT ![currentUser] = Tail(@)]
    BY <1>1, <1>2, <1>3, <1>5, <1>6
<1> QED BY <1>4, <1>6, <1>7

LEMMA MapsServe ==
    ASSUME TypeOK, StoreOK, OwnToken, StreamOK, Serve
    PROVE  Queue!Next \/ UNCHANGED Queue!vars
<1>1. /\ wire # <<>> /\ ~Refused
      /\ UNCHANGED <<queue, currentUser, handshake, acked, rejected>>
    BY DEF Serve, storeVars, fateVars
<1>2. stream = "Open" /\ conn = currentUser
    BY <1>1 DEF StreamOK, OwnToken
<1>3. /\ wire \in Seq(Batch \cup {Hello}) /\ answers \in Seq({"hello", "result", "refused"})
      /\ pipeline \in Seq(Batch) /\ currentUser \in User /\ queue[currentUser] \in Seq(Batch)
    BY DEF TypeOK
<1>4. UNCHANGED Queues
    BY <1>1 DEF Queues
<1>5. CASE ~handshake
    <2>1. wire = <<Hello>>
        BY <1>1, <1>2, <1>5 DEF StreamOK
    <2>2. Head(wire) = Hello
        BY <2>1
    <2>3. stored' = stored
        BY <2>2 DEF Serve
    <2>4. UNCHANGED <<Rounds, Refusals>>
        BY <1>1, <1>5, MapsIdle
    <2> QED BY <1>1, <1>4, <2>3, <2>4, MapsStutter
<1>6. CASE handshake
    <2> DEFINE n == Len(answers)
               q == queue[currentUser]
    <2>1. /\ n \in Nat /\ n + Len(wire) = Len(pipeline)
          /\ \A i \in 1..Len(wire) : wire[i] = pipeline[n + i]
        BY <1>3, <1>6 DEF StreamOK
    <2>2. Len(wire) \in Nat \ {0} /\ Head(wire) = wire[1] /\ 1 \in 1..Len(wire)
        BY <1>1, <1>3, TailOf
    <2>3. n + 1 \in 1..Len(pipeline)
        <3>1. \A x, z \in Nat, y \in Nat \ {0} : x + y = z => x + 1 \in 1..z
            OBVIOUS
        <3>2. Len(pipeline) \in Nat
            BY <1>3
        <3> HIDE DEF n
        <3> QED BY <2>1, <2>2, <3>1, <3>2
    <2>4. Len(pipeline) \in 1..Len(q) /\ pipeline[n + 1] = q[n + 1] /\ q # <<>>
        <3>1. pipeline = Front(q)
            BY DEF StoreOK
        <3>2. q # <<>>
            <4>1. Front(<<>>) = <<>>
                <5>1. MinOf(Len(<<>>), kMaxPendingWrites) = 0
                    BY PipelineAssumption DEF MinOf
                <5> QED BY <5>1 DEF Front
            <4>2. Len(pipeline) # 0
                BY <2>3
            <4> HIDE DEF q, n
            <4>3. pipeline # <<>>
                BY <4>2, EmptySeq
            <4> QED BY <3>1, <4>1, <4>3
        <3> HIDE DEF q, n
        <3>3. Len(Front(q)) \in 1..Len(q) /\ \A i \in 1..Len(Front(q)) : Front(q)[i] = q[i]
            BY <1>3, <3>2, FrontHas DEF q
        <3> QED BY <2>3, <3>1, <3>2, <3>3
    <2>5. Head(wire) = q[n + 1]
        BY <2>1, <2>2, <2>4
    <2>6. q[n + 1] \in Batch /\ n + 1 \in 1..Len(q) /\ n < Len(q)
        <3>1. Len(q) \in Nat
            BY <1>3
        <3> HIDE DEF n
        <3>2. n + 1 \in 1..Len(q) /\ n < Len(q)
            BY <2>1, <2>3, <2>4, <3>1
        <3> QED BY <1>3, <3>2
    <2>7. Head(wire) # Hello
        BY <2>5, <2>6, BatchIsNotHello
    <2>8. /\ Rounds[currentUser] = n /\ ~Refusals[currentUser]
          /\ Len(Queues[currentUser]) = Len(q)
          /\ Queues[currentUser][n + 1] = q[n + 1].write
        BY <1>1, <1>3, <1>6, <2>6, QueuesType DEF Rounds, Refusals, Results
    <2>9. CASE /\ answers' = Append(answers, "result")
               /\ stored' = [stored EXCEPT ![conn] = Head(wire).write]
        <3>1. ~Refused' /\ Len(answers') = n + 1
            BY <1>1, <1>3, <2>9 DEF Refused
        <3>2. Results' = n + 1 /\ Results = n
            BY <1>1, <3>1 DEF Results
        <3>3. Rounds' = [Rounds EXCEPT ![currentUser] = @ + 1]
            BY <1>1, <1>3, <1>6, <3>2 DEF Rounds
        <3>4. UNCHANGED Refusals
            BY <1>1, <3>1 DEF Refusals
        <3>5. stored' = [stored EXCEPT ![currentUser] =
                                     Queues[currentUser][Rounds[currentUser] + 1]]
            BY <1>2, <2>5, <2>8, <2>9
        <3> HIDE DEF n, q
        <3> QED BY <1>1, <1>3, <1>4, <2>6, <2>8, <3>3, <3>4, <3>5, MapsApply
    <2>10. CASE answers' = Append(answers, "refused") /\ stored' = stored
        <3>1. Refused' /\ Len(answers') = n + 1
            <4>1. /\ answers'[n + 1] = "refused" /\ Len(answers') = n + 1
                  /\ answers' \in Seq({"hello", "result", "refused"})
                BY <1>3, <2>10, AppendOf
            <4> QED BY <2>1, <4>1 DEF Refused
        <3>2. Results' = n /\ Results = n
            BY <1>1, <2>1, <3>1 DEF Results
        <3>3. UNCHANGED Rounds
            BY <1>1, <3>2 DEF Rounds
        <3>4. Refusals' = [Refusals EXCEPT ![currentUser] = TRUE]
            BY <1>1, <1>3, <1>6, <3>1 DEF Refusals
        <3> HIDE DEF n, q
        <3> QED BY <1>1, <1>3, <1>4, <2>6, <2>8, <2>10, <3>3, <3>4, MapsRefuse
    <2> QED BY <2>7, <2>9, <2>10 DEF Serve
<1> QED BY <1>5, <1>6

LEMMA MapsResult ==
    ASSUME TypeOK, StoreOK, StreamOK, OnWriteStreamMutationResult PROVE Queue!Next
<1>1. /\ answers # <<>> /\ Head(answers) = "result" /\ answers' = Tail(answers)
      /\ pipeline # <<>>
      /\ queue' = [queue EXCEPT ![currentUser] = Without(@, Head(pipeline).id)]
      /\ pipeline' = Tail(pipeline) \o Added(Tail(pipeline), queue'[currentUser])
      /\ acked' = [acked EXCEPT ![currentUser] = @ \cup {Head(pipeline).write}]
      /\ UNCHANGED <<currentUser, nextBatchId, handshake, stored, rejected>>
    BY DEF OnWriteStreamMutationResult, FillWritePipeline, elsewhere
<1>2. /\ queue'[currentUser] = Tail(queue[currentUser]) /\ queue[currentUser] # <<>>
      /\ Head(pipeline) = queue[currentUser][1]
    BY <1>1, SettledKeeps
<1>3. currentUser \in User /\ answers \in Seq({"hello", "result", "refused"})
      /\ queue \in [User -> Seq(Batch)]
    BY DEF TypeOK
<1>4. queue' = [queue EXCEPT ![currentUser] = Tail(queue[currentUser])]
    <2>1. Without(queue[currentUser], Head(pipeline).id) = Tail(queue[currentUser])
        BY <1>1, <1>2, <1>3
    <2> QED BY <1>1, <2>1
<1>5. /\ Queues' = [Queues EXCEPT ![currentUser] = Tail(@)]
      /\ Queues[currentUser] # <<>>
      /\ Head(Queues[currentUser]) = Head(pipeline).write
    BY <1>2, <1>4, MapsTail
<1>6. handshake /\ Answered
    BY <1>1 DEF StreamOK
<1>7. /\ Len(answers) \in Nat \ {0} /\ Len(answers') = Len(answers) - 1
      /\ answers[1] = "result"
      /\ \A i \in 1..Len(answers') : answers'[i] = answers[i + 1] /\ i + 1 \in 1..Len(answers)
    BY <1>1, <1>3, TailOf
<1>8. answers' \in Seq({"hello", "result", "refused"})
    BY <1>1, <1>3
<1>9. Refused' <=> Refused
    <2>1. ASSUME Refused PROVE Refused'
        <3>1. PICK i \in 1..Len(answers) : answers[i] = "refused"
            BY <1>3, <2>1 DEF Refused
        <3>2. i # 1
            BY <1>7, <3>1
        <3>3. i - 1 \in 1..Len(answers') /\ (i - 1) + 1 = i
            BY <1>7, <3>1, <3>2
        <3>4. answers'[i - 1] = "refused"
            BY <1>7, <3>1, <3>3
        <3> QED BY <1>8, <3>3, <3>4 DEF Refused
    <2>2. ASSUME Refused' PROVE Refused
        <3>1. PICK i \in 1..Len(answers') : answers'[i] = "refused"
            BY <1>8, <2>2 DEF Refused
        <3>2. answers[i + 1] = "refused" /\ i + 1 \in 1..Len(answers)
            BY <1>7, <3>1
        <3>3. DOMAIN answers = 1..Len(answers)
            BY <1>3
        <3> QED BY <3>2, <3>3 DEF Refused
    <2> QED BY <2>1, <2>2
<1>10. Refused => Len(answers) > 1
    <2> SUFFICES ASSUME Refused PROVE Len(answers) > 1
        OBVIOUS
    <2>1. PICK i \in 1..Len(answers) : answers[i] = "refused"
        BY <1>3 DEF Refused
    <2>2. i # 1
        BY <1>7, <2>1
    <2> QED BY <1>7, <2>1, <2>2
<1>11. Results > 0 /\ Results' = Results - 1
    BY <1>7, <1>9, <1>10 DEF Results
<1>12. Rounds[currentUser] > 0 /\ Rounds' = [Rounds EXCEPT ![currentUser] = @ - 1]
    BY <1>1, <1>3, <1>6, <1>11 DEF Rounds
<1>13. UNCHANGED Refusals
    BY <1>1, <1>9 DEF Refusals
<1>14. acked' = [acked EXCEPT ![currentUser] = @ \cup {Head(Queues[currentUser])}]
    BY <1>1, <1>5
<1> QED BY <1>1, <1>3, <1>5, <1>12, <1>13, <1>14, MapsAcknowledge

LEMMA MapsError ==
    ASSUME TypeOK, StoreOK, StreamOK, HandleWriteError PROVE Queue!Next
<1> DEFINE rest == Without(queue[currentUser], Head(pipeline).id)
<1>1. /\ answers # <<>> /\ Head(answers) = "refused"
      /\ pipeline # <<>>
      /\ queue' = [queue EXCEPT ![currentUser] = rest]
      /\ pipeline' = Tail(pipeline) \o Added(Tail(pipeline), rest)
      /\ rejected' = [rejected EXCEPT ![currentUser] = @ \cup {Head(pipeline).write}]
      /\ UNCHANGED <<currentUser, nextBatchId, stored, acked>> /\ ~handshake'
    BY DEF HandleWriteError, NoStream, elsewhere
<1>2. currentUser \in User /\ answers \in Seq({"hello", "result", "refused"})
      /\ queue \in [User -> Seq(Batch)]
    BY DEF TypeOK
<1>3. queue'[currentUser] = rest
    BY <1>1, <1>2
<1>4. /\ queue'[currentUser] = Tail(queue[currentUser]) /\ queue[currentUser] # <<>>
      /\ Head(pipeline) = queue[currentUser][1]
    BY <1>1, <1>3, SettledKeeps
<1>5. queue' = [queue EXCEPT ![currentUser] = Tail(queue[currentUser])]
    BY <1>1, <1>3, <1>4
<1>6. /\ Queues' = [Queues EXCEPT ![currentUser] = Tail(@)]
      /\ Queues[currentUser] # <<>>
      /\ Head(Queues[currentUser]) = Head(pipeline).write
    BY <1>4, <1>5, MapsTail
<1>7. answers[1] = "refused" /\ Len(answers) \in Nat \ {0} /\ 1 \in 1..Len(answers)
    BY <1>1, <1>2, TailOf
<1>8. handshake
    <2>1. stream = "Open" /\ answers # <<"hello">>
        BY <1>1, <1>7 DEF StreamOK
    <2> QED BY <1>1, <2>1 DEF StreamOK
<1>9. Len(answers) = 1 /\ Refused
    <2>1. Answered
        BY <1>8 DEF StreamOK
    <2>2. answers[1] # "result"
        BY <1>7
    <2>3. Len(answers) = 1
        BY <1>7, <2>1, <2>2 DEF Answered
    <2>4. 1 \in DOMAIN answers
        BY <1>2, <1>7
    <2>5. Refused
        BY <1>7, <2>4 DEF Refused
    <2> QED BY <2>3, <2>5
<1>10. Refusals[currentUser] /\ Rounds[currentUser] = 0
    <2>1. Results = 0
        BY <1>9 DEF Results
    <2>2. Refusals[currentUser]
        BY <1>2, <1>8, <1>9 DEF Refusals
    <2> QED BY <1>2, <2>1, <2>2 DEF Rounds
<1>11. UNCHANGED Rounds
    BY <1>1, <1>10 DEF Rounds
<1>12. Refusals' = [Refusals EXCEPT ![currentUser] = FALSE]
    BY <1>1, <1>2 DEF Refusals
<1>13. rejected' = [rejected EXCEPT ![currentUser] = @ \cup {Head(Queues[currentUser])}]
    BY <1>1, <1>6
<1> QED BY <1>1, <1>2, <1>6, <1>10, <1>11, <1>12, <1>13, MapsReject

LEMMA MapsEnds ==
    ASSUME TypeOK, ~handshake', UNCHANGED <<queue, stored, acked, rejected>>
    PROVE  Queue!Next
<1>1. currentUser \in User
    BY DEF TypeOK
<1>2. Rounds' = [Rounds EXCEPT ![currentUser] = 0]
    BY <1>1 DEF Rounds
<1>3. Refusals' = [Refusals EXCEPT ![currentUser] = FALSE]
    BY <1>1 DEF Refusals
<1>4. UNCHANGED Queues
    BY DEF Queues
<1> QED BY <1>1, <1>2, <1>3, <1>4, MapsStartOver

LEMMA MapsStep ==
    ASSUME IInv, OrderOK, [Next]_vars
    PROVE  [Queue!Next]_(Queue!vars)
<1> USE DEF IInv, TokenInv
<1>1. CASE WriteMutations
    BY <1>1, MapsWrite
<1>2. CASE Serve
    BY <1>2, MapsServe
<1>3. CASE OnWriteStreamHandshakeComplete
    BY <1>3, MapsHandshake
<1>4. CASE OnWriteStreamMutationResult
    BY <1>4, MapsResult
<1>5. CASE HandleWriteError
    BY <1>5, MapsError
<1>6. CASE StreamEnds /\ ~HandleWriteError
    <2>1. ~handshake'
        BY <1>6, EndsClosed DEF NoStream
    <2>2. UNCHANGED <<queue, stored, acked, rejected>>
        BY <1>6 DEF StreamEnds, HandleCredentialChange, OnWriteStreamClose, IdleTimeout,
               Restart, ResumeStart, elsewhere, storeVars, fateVars
    <2> QED BY <2>1, <2>2, MapsEnds
<1>7. CASE Client \/ OnWriteStreamOpen \/ BackoffElapsed \/ UNCHANGED vars
           \/ (ResumeStart /\ ~StreamEnds)
    <2>1. UNCHANGED <<queue, currentUser, handshake, answers, stored, acked, rejected>>
        <3>1. CASE Client
            BY <3>1 DEF Client, RunMain, ChangeUser, ReadUser, TokenCallback, Notify,
                   AnswerToken, AddDocument, storeVars, streamVars, fateVars
        <3>2. CASE OnWriteStreamOpen \/ BackoffElapsed
            BY <3>2 DEF OnWriteStreamOpen, BackoffElapsed, elsewhere, storeVars, fateVars
        <3>3. CASE UNCHANGED vars
            BY <3>3, Unchanged
        <3>4. CASE ResumeStart /\ ~StreamEnds
            BY <3>4 DEF ResumeStart, StreamEnds, storeVars, streamVars, fateVars
        <3> QED BY <1>7, <3>1, <3>2, <3>3, <3>4
    <2> QED BY <2>1, MapsSame
<1> QED BY <1>1, <1>2, <1>3, <1>4, <1>5, <1>6, <1>7
        DEF Next, Client, RunTask, StreamEvent, StreamEnds

\* The client keeps what WriteQueue promises: every step of it is one of the queue of the
\* client's user, or none.
THEOREM PromiseKept == Spec => KeepsPromise
<1>1. Init => Queue!Init
    <2> SUFFICES ASSUME Init PROVE Queue!Init
        OBVIOUS
    <2>1. /\ Queues = [u \in User |-> <<>>]
          /\ Rounds = [u \in User |-> 0]
          /\ Refusals = [u \in User |-> FALSE]
        <3>1. \A u \in User : queue[u] = <<>>
            BY DEF Init
        <3>2. ~handshake
            BY DEF Init
        <3>3. WritesOf(<<>>) = <<>>
            <4>1. <<>> \in Seq(Batch) /\ Len(<<>>) = 0
                OBVIOUS
            <4>2. WritesOf(<<>>) \in Seq(Write) /\ Len(WritesOf(<<>>)) = 0
                BY <4>1, WritesType
            <4> QED BY <4>2, EmptySeq
        <3>4. Queues = [u \in User |-> WritesOf(queue[u])]
            BY DEF Queues, WritesOf
        <3> QED BY <3>1, <3>2, <3>3, <3>4 DEF Rounds, Refusals
    <2>2. stored = [u \in User |-> 0] /\ acked = [u \in User |-> {}]
          /\ rejected = [u \in User |-> {}]
        BY DEF Init
    <2> QED BY <2>1, <2>2 DEF Queue!Init, Queues, Rounds, Refusals
<1>2. IInv /\ OrderOK /\ [Next]_vars => [Queue!Next]_(Queue!vars)
    BY MapsStep
<1> QED BY <1>1, <1>2, Inductive, OrderCorrect, PTL DEF Spec, KeepsPromise, Queue!Spec

QueueP == INSTANCE WriteQueueProofs WITH
    queue <- Queues, round <- Rounds, refused <- Refusals

\* No acknowledged write is undone: SyncEngine tells of a success only after the backend
\* has applied the write and all before it, and sends none again that it has settled.
THEOREM AcknowledgedCorrect == Spec => []AcknowledgedStays
<1>1. Queue!Init => QueueP!IInv
    <2>1. Queue!Init => QueueP!Init
        BY DEF Queue!Init, QueueP!Init, Queues, Rounds, Refusals
    <2> QED BY <2>1, QueueP!QueueInit
<1>2. [Queue!Next]_(Queue!vars) => [QueueP!Next]_(QueueP!vars)
    BY DEF Queue!Next, Queue!vars, Queue!Submit, Queue!Newer, Queue!Apply, Queue!Refuse,
           Queue!StartOver, Queue!Acknowledge, Queue!Reject,
           QueueP!Next, QueueP!vars, QueueP!Submit, QueueP!Newer, QueueP!Apply,
           QueueP!Refuse, QueueP!StartOver, QueueP!Acknowledge, QueueP!Reject,
           Queues, Rounds, Refusals
<1>3. QueueP!WriteAssumption
    BY PipelineAssumption DEF QueueP!WriteAssumption
<1>4. QueueP!IInv /\ [QueueP!Next]_(QueueP!vars) => QueueP!IInv'
    BY <1>3, QueueP!QueueType, QueueP!QueueInOrder, QueueP!QueueInRound,
       QueueP!QueueAcknowledged DEF QueueP!IInv
<1>5. QueueP!IInv => AcknowledgedStays
    BY DEF QueueP!IInv, QueueP!AcknowledgedStays, AcknowledgedStays, Queue!AcknowledgedStays
<1> QED BY <1>1, <1>2, <1>4, <1>5, PromiseKept, PTL DEF KeepsPromise, Queue!Spec

-----------------------------------------------------------------------------
(***************************************************************************)
(* Callbacks.  A write is in one queue at most.                            *)
(***************************************************************************)
Apart == \A u, v \in User : u # v =>
    \A i \in 1..Len(queue[u]), j \in 1..Len(queue[v]) : queue[u][i].write # queue[v][j].write

ToldOK == \A w \in Write : /\ told[w] = "ok" => \E v \in User : w \in acked[v]
                           /\ told[w] = "error" => \E v \in User : w \in rejected[v]

CallersOK == \A u \in User : \A b \in callbacks[u] : InQueue(u, b) /\ told[b.write] = "nothing"

LEMMA VerdictParts == ToldOK /\ CallersOK => VerdictsTold
BY DEF VerdictsTold, ToldOK, CallersOK

\* A new write has no verdict, and is in no queue.
LEMMA VerdictWrite ==
    ASSUME TypeOK, StoreOK, OrderOK, Apart, ToldOK, CallersOK, WriteMutations
    PROVE  Apart' /\ ToldOK' /\ CallersOK'
<1> DEFINE w == Head(worker).write
           b == [id |-> nextBatchId, write |-> w]
           q == queue[currentUser]
<1>1. /\ worker # <<>> /\ Head(worker).kind = "write" /\ w \in Write
      /\ queue' = [queue EXCEPT ![currentUser] = Append(q, b)]
      /\ \/ callbacks' = callbacks
         \/ callbacks' = [callbacks EXCEPT ![currentUser] = @ \cup {b}]
      /\ UNCHANGED <<told, acked, rejected>>
    BY TasksType DEF WriteMutations, Runs, fateVars
<1>2. /\ worker \in Seq(Task) /\ currentUser \in User /\ q \in Seq(Batch) /\ b \in Batch
      /\ b.write = w /\ queue \in [User -> Seq(Batch)]
      /\ callbacks \in [User -> SUBSET Batch] /\ told \in [Write -> {"nothing", "ok", "error"}]
    BY <1>1 DEF TypeOK, Batch
<1> HIDE DEF b
<1>3. w \in Waiting
    <2>1. Head(worker) = worker[1] /\ 1 \in 1..Len(worker)
        BY <1>1, <1>2, TailOf
    <2> QED BY <1>1, <2>1 DEF Waiting, Waits
<1> HIDE DEF w
<1>4. /\ \A u \in User : \A i \in 1..Len(queue[u]) : queue[u][i].write < w
      /\ \A u \in User : \A v \in acked[u] \cup rejected[u] : v < w
    BY <1>3 DEF OrderOK, Older
<1>5. w \in Nat
    BY <1>1, PipelineAssumption
<1>6. /\ Len(q) \in Nat /\ Len(Append(q, b)) = Len(q) + 1 /\ Append(q, b)[Len(q) + 1] = b
      /\ \A i \in 1..Len(q) : Append(q, b)[i] = q[i]
      /\ queue'[currentUser] = Append(q, b)
      /\ \A u \in User \ {currentUser} : queue'[u] = queue[u]
    <2> HIDE DEF q
    <2> QED BY <1>1, <1>2, AppendOf
<1>7. told[w] = "nothing"
    <2>1. w \notin UNION {acked[u] \cup rejected[u] : u \in User}
        BY <1>4, <1>5
    <2> QED BY <1>1, <1>2, <2>1 DEF ToldOK
<1>8. ToldOK'
    BY <1>1 DEF ToldOK
<1>9. ASSUME NEW u \in User, NEW c \in callbacks'[u]
      PROVE  InQueue(u, c)' /\ told'[c.write] = "nothing"
    <2>1. CASE c \in callbacks[u]
        <3>1. InQueue(u, c) /\ told[c.write] = "nothing"
            BY <2>1 DEF CallersOK
        <3>2. PICK i \in 1..Len(queue[u]) : queue[u][i] = c
            <4>1. queue[u] \in Seq(Batch)
                BY <1>2
            <4> QED BY <3>1, <4>1 DEF InQueue
        <3>3. i \in 1..Len(queue'[u]) /\ queue'[u][i] = c /\ queue'[u] \in Seq(Batch)
            <4>1. CASE u = currentUser
                <5>1. i \in 1..Len(q) /\ q[i] = c
                    BY <3>2, <4>1
                <5> HIDE DEF q
                <5>2. Append(q, b) \in Seq(Batch)
                    BY <1>2
                <5>3. i \in 1..Len(Append(q, b)) /\ Append(q, b)[i] = c
                    BY <1>6, <5>1
                <5> QED BY <1>6, <4>1, <5>2, <5>3
            <4>2. CASE u # currentUser
                BY <1>2, <1>6, <3>2, <4>2
            <4> QED BY <4>1, <4>2
        <3>4. i \in DOMAIN queue'[u]
            BY <3>3
        <3> QED BY <1>1, <3>1, <3>3, <3>4 DEF InQueue
    <2>2. CASE u = currentUser /\ c = b
        <3>1. Append(q, b) \in Seq(Batch)
            <4> HIDE DEF q
            <4> QED BY <1>2
        <3> HIDE DEF q
        <3>2. Len(q) + 1 \in DOMAIN Append(q, b)
            BY <1>6, <3>1
        <3> QED BY <1>1, <1>2, <1>6, <1>7, <2>2, <3>2 DEF InQueue
    <2> QED BY <1>1, <1>2, <2>1, <2>2
<1>10. CallersOK'
    BY <1>9 DEF CallersOK
<1>11. ASSUME NEW u \in User
       PROVE  \A i \in 1..Len(queue'[u]) :
                 \/ i \in 1..Len(queue[u]) /\ queue'[u][i] = queue[u][i]
                 \/ u = currentUser /\ queue'[u][i].write = w
    <2>1. CASE u = currentUser
        <3> SUFFICES ASSUME NEW i \in 1..Len(q) + 1
                     PROVE  \/ i \in 1..Len(q) /\ Append(q, b)[i] = q[i]
                            \/ Append(q, b)[i].write = w
            BY <1>6, <2>1
        <3> HIDE DEF q
        <3>1. i \in 1..Len(q) \/ i = Len(q) + 1
            BY <1>6
        <3> QED BY <1>2, <1>6, <3>1
    <2>2. CASE u # currentUser
        BY <1>6, <2>2
    <2> QED BY <2>1, <2>2
<1>12. Apart'
    <2> SUFFICES ASSUME NEW u \in User, NEW v \in User, u # v,
                        NEW i \in 1..Len(queue'[u]), NEW j \in 1..Len(queue'[v])
                 PROVE  queue'[u][i].write # queue'[v][j].write
        BY DEF Apart
    <2>1. CASE /\ i \in 1..Len(queue[u]) /\ queue'[u][i] = queue[u][i]
               /\ j \in 1..Len(queue[v]) /\ queue'[v][j] = queue[v][j]
        BY <2>1 DEF Apart
    <2>2. CASE /\ i \in 1..Len(queue[u]) /\ queue'[u][i] = queue[u][i]
               /\ queue'[v][j].write = w
        <3>1. queue[u][i].write < w
            BY <1>4, <2>2
        <3> QED BY <1>5, <2>2, <3>1
    <2>3. CASE /\ j \in 1..Len(queue[v]) /\ queue'[v][j] = queue[v][j]
               /\ queue'[u][i].write = w
        <3>1. queue[v][j].write < w
            BY <1>4, <2>3
        <3> QED BY <1>5, <2>3, <3>1
    <2> QED BY <1>11, <2>1, <2>2, <2>3
<1> QED BY <1>8, <1>10, <1>12

\* The verdict of a batch reaches the caller of its write.
LEMMA VerdictSettle ==
    ASSUME TypeOK, StoreOK, OrderOK, Apart, ToldOK, CallersOK, pipeline # <<>>,
           NEW verdict \in {"ok", "error"},
           queue' = [queue EXCEPT ![currentUser] = Without(@, Head(pipeline).id)],
           UNCHANGED <<currentUser, nextBatchId>>,
           pipeline' = Tail(pipeline) \o Added(Tail(pipeline), queue'[currentUser]),
           NotifyUser(Head(pipeline).id, verdict),
           \/ /\ verdict = "ok" /\ rejected' = rejected
              /\ acked' = [acked EXCEPT ![currentUser] = @ \cup {Head(pipeline).write}]
           \/ /\ verdict = "error" /\ acked' = acked
              /\ rejected' = [rejected EXCEPT ![currentUser] = @ \cup {Head(pipeline).write}]
    PROVE  Apart' /\ ToldOK' /\ CallersOK'
<1> DEFINE q == queue[currentUser]
           h == Head(pipeline)
           waiting == {c \in callbacks[currentUser] : c.id = h.id}
<1>1. /\ q \in Seq(Batch) /\ q # <<>> /\ h = q[1] /\ queue'[currentUser] = Tail(q)
      /\ h \in Batch
      /\ \A u \in User \ {currentUser} : queue'[u] = queue[u]
    BY SettledKeeps DEF TypeOK
<1>2. /\ currentUser \in User /\ acked \in [User -> SUBSET Write]
      /\ rejected \in [User -> SUBSET Write] /\ callbacks \in [User -> SUBSET Batch]
      /\ told \in [Write -> {"nothing", "ok", "error"}]
    BY DEF TypeOK
<1>3. /\ callbacks' = [callbacks EXCEPT ![currentUser] = @ \ waiting]
      /\ told' = [x \in Write |-> IF \E c \in waiting : c.write = x
                                  THEN verdict ELSE told[x]]
    BY DEF NotifyUser
<1>4. /\ Len(q) \in Nat \ {0} /\ 1 \in 1..Len(q)
      /\ \A i \in 1..Len(Tail(q)) : Tail(q)[i] = q[i + 1] /\ i + 1 \in 1..Len(q)
      /\ Len(Tail(q)) = Len(q) - 1 /\ Tail(q) \in Seq(Batch)
    <2> HIDE DEF q
    <2>1. /\ Len(q) \in Nat \ {0}
          /\ \A i \in 1..Len(Tail(q)) : Tail(q)[i] = q[i + 1] /\ i + 1 \in 1..Len(q)
          /\ Len(Tail(q)) = Len(q) - 1 /\ Tail(q) \in Seq(Batch)
        BY <1>1, TailOf
    <2> QED BY <2>1
<1>5. ASSUME NEW c \in callbacks[currentUser]
      PROVE  \E i \in 1..Len(q) : q[i] = c
    BY <1>1, <1>2 DEF CallersOK, InQueue
<1>6. \A i \in 1..Len(q) : i # 1 => h.id # q[i].id /\ h.write # q[i].write
    <2> SUFFICES ASSUME NEW i \in 1..Len(q), i # 1
                 PROVE  h.id # q[i].id /\ h.write # q[i].write
        OBVIOUS
    <2>1. q[i] \in Batch /\ 1 < i
        BY <1>1
    <2>2. q[1].id < q[i].id
        BY <1>2, <1>4, <2>1 DEF StoreOK, Increasing
    <2>3. q[1].write < q[i].write
        BY <1>2, <1>4, <2>1 DEF OrderOK
    <2>4. /\ q[1].id \in Nat /\ q[i].id \in Nat /\ q[1].write \in Nat /\ q[i].write \in Nat
        BY <1>1, <2>1, BatchType, PipelineAssumption
    <2> HIDE DEF q, h
    <2> QED BY <1>1, <2>2, <2>3, <2>4
<1> HIDE DEF h
<1>7. waiting \subseteq {h}
    <2> SUFFICES ASSUME NEW c \in callbacks[currentUser], c.id = h.id PROVE c = h
        OBVIOUS
    <2>1. PICK i \in 1..Len(q) : q[i] = c
        BY <1>5
    <2> QED BY <1>1, <1>6, <2>1
<1>8. h.write \in Write /\ \A x \in Write : x # h.write => told'[x] = told[x]
    BY <1>1, <1>3, <1>7, BatchType
<1>9. /\ told'[h.write] \in {verdict, told[h.write]}
      /\ \A x \in Write : told'[x] \in {verdict, told[x]}
    BY <1>3, <1>8
<1>10. /\ \A u \in User : acked[u] \subseteq acked'[u] /\ rejected[u] \subseteq rejected'[u]
       /\ verdict = "ok" => h.write \in acked'[currentUser]
       /\ verdict = "error" => h.write \in rejected'[currentUser]
    <2>1. CASE /\ verdict = "ok" /\ rejected' = rejected
               /\ acked' = [acked EXCEPT ![currentUser] = @ \cup {h.write}]
        BY <1>2, <2>1
    <2>2. CASE /\ verdict = "error" /\ acked' = acked
               /\ rejected' = [rejected EXCEPT ![currentUser] = @ \cup {h.write}]
        BY <1>2, <2>2
    <2> QED BY <2>1, <2>2 DEF h
<1>11. ToldOK'
    <2> SUFFICES ASSUME NEW x \in Write
                 PROVE  /\ told'[x] = "ok" => \E v \in User : x \in acked'[v]
                        /\ told'[x] = "error" => \E v \in User : x \in rejected'[v]
        BY DEF ToldOK
    <2>1. CASE told'[x] = told[x]
        BY <1>10, <2>1 DEF ToldOK
    <2>2. CASE x = h.write /\ told'[x] = verdict
        BY <1>2, <1>10, <2>2
    <2> QED BY <1>8, <1>9, <2>1, <2>2
<1>12. ASSUME NEW u \in User, NEW c \in callbacks'[u]
       PROVE  InQueue(u, c)' /\ told'[c.write] = "nothing"
    <2>1. c \in callbacks[u] /\ (u = currentUser => c \notin waiting)
        BY <1>2, <1>3
    <2>2. InQueue(u, c) /\ told[c.write] = "nothing" /\ c.write \in Write
        BY <1>2, <2>1, BatchType DEF CallersOK
    <2>3. PICK i \in 1..Len(queue[u]) : queue[u][i] = c
        <3>1. queue[u] \in Seq(Batch)
            BY DEF TypeOK
        <3> QED BY <2>2, <3>1 DEF InQueue
    <2>4. InQueue(u, c)' /\ c.write # h.write
        <3>1. CASE u # currentUser
            <4>1. queue'[u] = queue[u] /\ InQueue(u, c)'
                BY <1>1, <2>2, <3>1 DEF InQueue
            <4>2. queue[u][i].write # queue[currentUser][1].write
                BY <1>2, <1>4, <2>3, <3>1 DEF Apart
            <4> QED BY <1>1, <2>3, <4>1, <4>2
        <3>2. CASE u = currentUser
            <4>1. c.id # h.id
                BY <2>1, <3>2
            <4>2. i \in 1..Len(q) /\ q[i] = c
                BY <2>3, <3>2
            <4>3. i # 1
                BY <1>1, <4>1, <4>2
            <4>4. i - 1 \in 1..Len(Tail(q)) /\ (i - 1) + 1 = i
                <5> HIDE DEF q
                <5> QED BY <1>4, <4>2, <4>3
            <4>5. Tail(q)[i - 1] = c /\ i - 1 \in DOMAIN Tail(q)
                <5> HIDE DEF q
                <5>1. DOMAIN Tail(q) = 1..Len(Tail(q))
                    BY <1>4
                <5> QED BY <1>4, <4>2, <4>4, <5>1
            <4> HIDE DEF q
            <4>6. InQueue(u, c)'
                BY <1>1, <3>2, <4>5 DEF InQueue
            <4> QED BY <1>6, <4>2, <4>3, <4>6
        <3> QED BY <3>1, <3>2
    <2> QED BY <1>8, <2>2, <2>4
<1>13. CallersOK'
    BY <1>12 DEF CallersOK
<1>14. ASSUME NEW u \in User, NEW i \in 1..Len(queue'[u])
       PROVE  \E j \in 1..Len(queue[u]) : queue'[u][i] = queue[u][j]
    <2>1. CASE u = currentUser
        <3>1. i \in 1..Len(Tail(q)) /\ queue'[u][i] = Tail(q)[i]
            BY <1>1, <2>1
        <3>2. Tail(q)[i] = q[i + 1] /\ i + 1 \in 1..Len(q)
            BY <1>4, <3>1
        <3>3. q = queue[u]
            BY <2>1
        <3> HIDE DEF q
        <3> QED BY <3>1, <3>2, <3>3
    <2>2. CASE u # currentUser
        BY <1>1, <2>2
    <2> QED BY <2>1, <2>2
<1>15. Apart'
    <2> SUFFICES ASSUME NEW u \in User, NEW v \in User, u # v,
                        NEW i \in 1..Len(queue'[u]), NEW j \in 1..Len(queue'[v])
                 PROVE  queue'[u][i].write # queue'[v][j].write
        BY DEF Apart
    <2>1. PICK k \in 1..Len(queue[u]) : queue'[u][i] = queue[u][k]
        BY <1>14
    <2>2. PICK l \in 1..Len(queue[v]) : queue'[v][j] = queue[v][l]
        BY <1>14
    <2> QED BY <2>1, <2>2 DEF Apart
<1> QED BY <1>11, <1>13, <1>15

LEMMA VerdictStep ==
    TypeOK /\ StoreOK /\ OrderOK /\ Apart /\ ToldOK /\ CallersOK /\ [Next]_vars =>
        Apart' /\ ToldOK' /\ CallersOK'
<1> SUFFICES ASSUME TypeOK, StoreOK, OrderOK, Apart, ToldOK, CallersOK, [Next]_vars
             PROVE  Apart' /\ ToldOK' /\ CallersOK'
    OBVIOUS
<1>1. CASE WriteMutations
    BY <1>1, VerdictWrite
<1>2. CASE OnWriteStreamMutationResult
    <2>1. /\ pipeline # <<>>
          /\ queue' = [queue EXCEPT ![currentUser] = Without(@, Head(pipeline).id)]
          /\ UNCHANGED <<currentUser, nextBatchId, rejected>>
          /\ NotifyUser(Head(pipeline).id, "ok")
          /\ acked' = [acked EXCEPT ![currentUser] = @ \cup {Head(pipeline).write}]
          /\ pipeline' = Tail(pipeline) \o Added(Tail(pipeline), queue'[currentUser])
        BY <1>2 DEF OnWriteStreamMutationResult, FillWritePipeline
    <2> QED BY <2>1, VerdictSettle
<1>3. CASE HandleWriteError
    <2> DEFINE rest == Without(queue[currentUser], Head(pipeline).id)
    <2>1. /\ pipeline # <<>>
          /\ queue' = [queue EXCEPT ![currentUser] = rest]
          /\ UNCHANGED <<currentUser, nextBatchId, acked>>
          /\ NotifyUser(Head(pipeline).id, "error")
          /\ rejected' = [rejected EXCEPT ![currentUser] = @ \cup {Head(pipeline).write}]
          /\ pipeline' = Tail(pipeline) \o Added(Tail(pipeline), rest)
        BY <1>3 DEF HandleWriteError
    <2>2. queue'[currentUser] = rest
        BY <2>1 DEF TypeOK
    <2> QED BY <2>1, <2>2, VerdictSettle
<1>4. CASE Restart
    <2>1. UNCHANGED <<queue, told, acked, rejected>> /\ \A u \in User : callbacks'[u] = {}
        BY <1>4 DEF Restart, fateVars
    <2> QED BY <2>1 DEF Apart, ToldOK, CallersOK
<1>5. CASE Client \/ HandleCredentialChange \/ Plain \/ UNCHANGED vars
    <2>1. UNCHANGED <<queue, callbacks, told, acked, rejected>>
        <3>1. CASE Client
            BY <3>1 DEF Client, RunMain, ChangeUser, ReadUser, TokenCallback, Notify,
                   AnswerToken, AddDocument, storeVars, fateVars
        <3>2. CASE HandleCredentialChange
            BY <3>2 DEF HandleCredentialChange, fateVars
        <3>3. CASE Plain
            BY <3>3 DEF Plain, ResumeStart, OnWriteStreamOpen,
                   OnWriteStreamHandshakeComplete, OnWriteStreamClose, BackoffElapsed,
                   IdleTimeout, Serve, storeVars, fateVars
        <3>4. CASE UNCHANGED vars
            BY <3>4, Unchanged
        <3> QED BY <1>5, <3>1, <3>2, <3>3, <3>4
    <2> QED BY <2>1 DEF Apart, ToldOK, CallersOK, InQueue
<1> QED BY <1>1, <1>2, <1>3, <1>4, <1>5, NextSplit

\* Whoever waits for a write waits for one that is in the queue, and hears the verdict of
\* that write: an id is never that of two batches, not even after a restart.
THEOREM VerdictsCorrect == Spec => []VerdictsTold
<1>1. Init => Apart /\ ToldOK /\ CallersOK
    <2> SUFFICES ASSUME Init PROVE Apart /\ ToldOK /\ CallersOK
        OBVIOUS
    <2>1. /\ \A u \in User : queue[u] = <<>> /\ callbacks[u] = {}
          /\ \A w \in Write : told[w] = "nothing"
        BY DEF Init
    <2> QED BY <2>1 DEF Apart, ToldOK, CallersOK
<1>2. ToldOK /\ CallersOK => VerdictsTold
    BY VerdictParts
<1> QED BY <1>1, <1>2, VerdictStep, OrderStep, StoreStep, StoreInit, OrderCorrect,
           StoreCorrect, PTL DEF Spec
=============================================================================
