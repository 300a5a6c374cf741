------------------------- MODULE DisplayNameProofs -------------------------
(***************************************************************************)
(* Proofs about DisplayName: for any accounts, objects, names and bounds.  *)
(***************************************************************************)
EXTENDS DisplayName, SequenceTheorems, TLAPS

\* The last name of a queue, or the stored one when the queue is empty.
LastOf(q, stored) == IF q = <<>> THEN stored ELSE q[Len(q)]

\* The objects of u that have names to store.
Busy(u) == {o \in Object : owner[o] = u /\ tasks[o] # <<>>}

\* updateDisplayName is between its two writes for u.
Half(u) == changing # None /\ changing.uid = u

\* A task is an account's, and a running one has its name in the queue.
TasksOK == \A o \in Object : /\ tasks[o] # <<>> => owner[o] \in Uid
                             /\ stage[o] = "sent" => tasks[o] # <<>>

\* One queue at most stores names of u, and the last name in it, or the stored
\* one, is the last that the document gets: but for the name that the second
\* half of updateDisplayName still has to queue.
NewestOK(u) ==
    LET last == LastOf(writes[u], doc[u]) IN
    /\ \A o, p \in Busy(u) : o = p
    /\ Half(u) => last = changing.name
    /\ ~Half(u) => /\ \A o \in Busy(u) : LastOf(tasks[o], account[u]) = last
                   /\ Busy(u) = {} => account[u] = last

IInv == TypeOK /\ TasksOK /\ \A u \in Uid \ disturbed : NewestOK(u)

-----------------------------------------------------------------------------
(***************************************************************************)
(* Queues of names.                                                        *)
(***************************************************************************)
\* A new name is the last.
LEMMA LastAppended ==
    ASSUME NEW q \in Seq(Name), NEW n \in Name
    PROVE  /\ Append(q, n) \in Seq(Name) /\ Append(q, n) # <<>>
           /\ \A x : LastOf(Append(q, n), x) = n
BY DEF LastOf

\* Without its first name a queue has the same last one; if it had no other, any
\* name that was in it is that one.
LEMMA LastStored ==
    ASSUME NEW q \in Seq(Name), q # <<>>
    PROVE  /\ Head(q) \in Name /\ Tail(q) \in Seq(Name)
           /\ \A i \in DOMAIN q : q[i] \in Name
           /\ \A i \in DOMAIN q : \A x : LastOf(Tail(q), q[i]) = LastOf(q, x)
           /\ \A x : LastOf(Tail(q), Head(q)) = LastOf(q, x)
<1>1. Head(q) \in Name /\ Tail(q) \in Seq(Name) /\ \A i \in DOMAIN q : q[i] \in Name
    OBVIOUS
<1>2. Len(Tail(q)) = Len(q) - 1 /\ Len(q) \in Nat /\ Head(q) = q[1] /\ 1 \in DOMAIN q
    OBVIOUS
<1>3. \A i \in DOMAIN q : \A x : LastOf(Tail(q), q[i]) = LastOf(q, x)
  <2>1. CASE Tail(q) = <<>>
    <3>1. Len(<<>>) = 0
        BY EmptySeq
    <3>2. Len(Tail(q)) = 0
        BY <2>1, <3>1, Zenon
    <3>3. Len(q) = 1
        <4>1. \A n \in Nat : n - 1 = 0 => n = 1
            OBVIOUS
        <4> QED BY <1>2, <3>2, <4>1, Zenon
    <3>4. \A x : LastOf(q, x) = q[1]
        <4>1. \A x : LastOf(q, x) = q[Len(q)]
            BY DEF LastOf
        <4> QED BY <3>3, <4>1
    <3>5. \A i \in DOMAIN q : i = 1
        BY <3>3
    <3>6. \A i \in DOMAIN q : LastOf(Tail(q), q[i]) = q[1]
        BY <2>1, <3>5, Zenon DEF LastOf
    <3> QED BY <3>4, <3>6, Zenon
  <2>2. CASE Tail(q) # <<>>
    <3>1. Len(Tail(q)) \in 1..Len(Tail(q))
        BY <1>1, <2>2
    <3>2. Tail(q)[Len(Tail(q))] = q[Len(q)]
        BY <1>2, <3>1
    <3> QED BY <1>1, <2>2, <3>2 DEF LastOf
  <2> QED BY <2>1, <2>2
<1> QED BY <1>1, <1>2, <1>3, Zenon

\* The last name of a queue that is not empty does not depend on the stored one.
LEMMA LastQueued ==
    ASSUME NEW q, q # <<>>
    PROVE  \A x, y : LastOf(q, x) = LastOf(q, y)
BY DEF LastOf

-----------------------------------------------------------------------------
(***************************************************************************)
(* Types.                                                                  *)
(***************************************************************************)
\* Every action keeps TypeOK and TasksOK.
LEMMA TypeStep ==
    ASSUME DisplayAssumption, TypeOK, TasksOK, [Next]_vars
    PROVE  TypeOK' /\ TasksOK'
<1> USE DEF DisplayAssumption, TypeOK, TasksOK
<1>1. ASSUME NEW o \in Object, NEW u \in Uid, SignIn(o, u)
      PROVE  TypeOK' /\ TasksOK'
    BY <1>1 DEF SignIn
<1>2. CASE EndSession
    BY <1>2 DEF EndSession
<1>3. CASE Relaunch
    BY <1>3 DEF Relaunch
<1>4. ASSUME NEW n \in Name, UpdateDocument(n) PROVE TypeOK' /\ TasksOK'
    <2>1. owner[current] \in Uid
        BY <1>4 DEF UpdateDocument
    <2>2. Append(writes[owner[current]], n) \in Seq(Name)
        BY <2>1, LastAppended
    <2>3. [uid |-> owner[current], name |-> n] \in Change
        BY <2>1 DEF Change
    <2>4. disturbed' \in SUBSET Uid
        BY <1>4 DEF UpdateDocument
    <2> QED BY <1>4, <2>1, <2>2, <2>3, <2>4 DEF UpdateDocument
<1>5. CASE CommitChanges
    <2>1. changing.uid \in Uid /\ changing.name \in Name
        BY <1>5 DEF CommitChanges, Change
    <2>2. disturbed' \in SUBSET Uid
        BY <1>5, <2>1 DEF CommitChanges
    <2>3. CASE current = None
        BY <1>5, <2>2, <2>3 DEF CommitChanges
    <2>4. CASE current # None
        <3>1. tasks' = [tasks EXCEPT ![current] = Append(@, changing.name)]
            BY <1>5, <2>4 DEF CommitChanges
        <3>2. current \in Object /\ owner[current] \in Uid
            BY <2>4
        <3>3. Append(tasks[current], changing.name) \in Seq(Name) \ {<<>>}
            BY <2>1, <3>2, LastAppended
        <3> QED BY <1>5, <2>2, <3>1, <3>2, <3>3 DEF CommitChanges
    <2> QED BY <2>3, <2>4
<1>6. ASSUME NEW o \in Object, StartTask(o) PROVE TypeOK' /\ TasksOK'
    BY <1>6 DEF StartTask
<1>7. ASSUME NEW o \in Object, SetAccountInfo(o) PROVE TypeOK' /\ TasksOK'
    <2>1. owner[o] \in Uid /\ Head(tasks[o]) \in Name /\ Tail(tasks[o]) \in Seq(Name)
        BY <1>7, LastStored DEF SetAccountInfo
    <2> QED BY <1>7, <2>1 DEF SetAccountInfo
<1>8. ASSUME NEW o \in Object, Complete(o) PROVE TypeOK' /\ TasksOK'
    BY <1>8 DEF Complete
<1>9. ASSUME NEW o \in Object, Fail(o) PROVE TypeOK' /\ TasksOK'
    <2>1. owner[o] \in Uid /\ Tail(tasks[o]) \in Seq(Name)
        BY <1>9, LastStored DEF Fail
    <2> QED BY <1>9, <2>1 DEF Fail
<1>10. ASSUME NEW u \in Uid, Acknowledge(u) \/ AcknowledgementLost(u)
       PROVE  TypeOK' /\ TasksOK'
    <2>1. PICK i \in DOMAIN writes[u] :
              /\ doc' = [doc EXCEPT ![u] = writes[u][i]]
              /\ UNCHANGED <<account, current, owner, tasks, stage, changing,
                             disturbed>>
              /\ \/ writes' = writes
                 \/ writes' = [writes EXCEPT ![u] = Tail(@)]
        BY <1>10 DEF Acknowledge, AcknowledgementLost, Store
    <2>2. writes[u] # <<>>
        BY <2>1
    <2>3. writes[u][i] \in Name /\ Tail(writes[u]) \in Seq(Name)
        BY <2>1, <2>2, LastStored
    <2>4. writes' \in [Uid -> Seq(Name)]
        BY <2>1, <2>3
    <2>5. doc' \in [Uid -> Name \cup {None}]
        BY <2>1, <2>3
    <2> QED BY <2>1, <2>4, <2>5
<1>11. ASSUME NEW u \in Uid, RejectBatch(u) PROVE TypeOK' /\ TasksOK'
    <2>1. Tail(writes[u]) \in Seq(Name)
        BY <1>11, LastStored DEF RejectBatch
    <2> QED BY <1>11, <2>1 DEF RejectBatch
<1>12. CASE UNCHANGED vars
    BY <1>12 DEF vars
<1> QED BY <1>1, <1>2, <1>3, <1>4, <1>5, <1>6, <1>7, <1>8, <1>9, <1>10,
           <1>11, <1>12 DEF Next

-----------------------------------------------------------------------------
(***************************************************************************)
(* The two queues end with the same name.                                  *)
(***************************************************************************)
\* A step that has nothing to do with u's name.
Apart(u) ==
    /\ writes'[u] = writes[u] /\ doc'[u] = doc[u] /\ account'[u] = account[u]
    /\ Busy(u)' = Busy(u) /\ \A o \in Busy(u) : tasks'[o] = tasks[o]
    /\ Half(u)' = Half(u) /\ (Half(u) => changing'.name = changing.name)

LEMMA ApartKeeps ==
    ASSUME NEW u, NewestOK(u), Apart(u)
    PROVE  NewestOK(u)'
<1>1. LastOf(writes[u], doc[u])' = LastOf(writes[u], doc[u])
    BY DEF Apart, LastOf
<1>2. \A o \in Busy(u) : LastOf(tasks[o], account[u])' = LastOf(tasks[o], account[u])
    BY DEF Apart, LastOf
<1> QED BY <1>1, <1>2 DEF NewestOK, Apart

\* A sign-in takes an object without tasks.
LEMMA NewestSignIn ==
    ASSUME TypeOK, NEW o \in Object, NEW v \in Uid, SignIn(o, v), NEW u \in Uid
    PROVE  Apart(u)
<1>1. \A p \in Object : p # o => owner'[p] = owner[p]
    BY DEF SignIn, TypeOK
<1> QED BY <1>1 DEF SignIn, Apart, Busy, Half

\* Who had nothing under way agrees after a restart as before.
LEMMA NewestRelaunch ==
    ASSUME TypeOK, Relaunch, NEW u \in Uid \ disturbed', NewestOK(u)
    PROVE  NewestOK(u)'
<1>1. Busy(u) = {} /\ ~Half(u)
    BY DEF Relaunch, Busy, Half
<1>2. Busy(u)' = {} /\ ~Half(u)'
    BY DEF Relaunch, Busy, Half
<1>3. account[u] = LastOf(writes[u], doc[u])
    BY <1>1 DEF NewestOK
<1>4. account'[u] = LastOf(writes[u], doc[u])'
    BY <1>3 DEF Relaunch, LastOf
<1> QED BY <1>2, <1>4 DEF NewestOK

\* The first half makes the name the document's last.
LEMMA NewestUpdate ==
    ASSUME DisplayAssumption, TypeOK, NEW n \in Name, UpdateDocument(n),
           NEW u \in Uid \ disturbed', u \notin disturbed => NewestOK(u)
    PROVE  NewestOK(u)'
<1> DEFINE v == owner[current]
<1>1. /\ v \in Uid /\ changing = None /\ changing' = [uid |-> v, name |-> n]
      /\ writes' = [writes EXCEPT ![v] = Append(@, n)]
      /\ disturbed' = IF Quiet(v) THEN disturbed \ {v} ELSE disturbed
      /\ UNCHANGED <<account, doc, owner, tasks>>
    BY DEF UpdateDocument, TypeOK
<1>2. changing' # None
    BY <1>1 DEF DisplayAssumption, Change
<1>3. Busy(u)' = Busy(u)
    BY <1>1 DEF Busy
<1> HIDE DEF v
<1>4. CASE u = v
    <2>1. LastOf(writes[u], doc[u])' = n
        <3>1. writes[u] \in Seq(Name) /\ writes'[u] = Append(writes[u], n)
            BY <1>1, <1>4 DEF TypeOK
        <3> QED BY <3>1, LastAppended
    <2>2. Half(u)' /\ changing'.name = n
        BY <1>1, <1>2, <1>4 DEF Half
    <2>3. \A o, p \in Busy(u) : o = p
        <3>1. CASE u \in disturbed
            <4>1. Quiet(u)
                BY <1>1, <1>4, <3>1
            <4> QED BY <4>1 DEF Quiet, Busy
        <3>2. CASE u \notin disturbed
            BY <3>2 DEF NewestOK
        <3> QED BY <3>1, <3>2
    <2> QED BY <1>3, <2>1, <2>2, <2>3 DEF NewestOK
<1>5. CASE u # v
    <2>1. NewestOK(u)
        BY <1>1, <1>5
    <2>2. Apart(u)
        BY <1>1, <1>3, <1>5 DEF Apart, Half, TypeOK
    <2> QED BY <2>1, <2>2, ApartKeeps
<1> QED BY <1>4, <1>5

\* The second half makes it the last of the account's only queue.
LEMMA NewestCommit ==
    ASSUME DisplayAssumption, TypeOK, CommitChanges,
           NEW u \in Uid \ disturbed', u \notin disturbed => NewestOK(u)
    PROVE  NewestOK(u)'
<1>1. /\ changing # None /\ changing \in Change /\ changing' = None
      /\ UNCHANGED <<account, doc, current, owner, writes>>
      /\ u \notin disturbed
    BY DEF CommitChanges, TypeOK
<1>2. changing.uid \in Uid /\ changing.name \in Name
    BY <1>1 DEF Change
<1>3. ~Half(u)'
    BY <1>1 DEF Half
<1>4. CASE u = changing.uid
    <2>1. SignedIn(u) /\ Others(current, u) = {}
        BY <1>2, <1>4 DEF CommitChanges
    <2>2. current \in Object /\ owner[current] = u /\ current # None
        BY <2>1 DEF SignedIn, TypeOK
    <2>3. tasks' = [tasks EXCEPT ![current] = Append(@, changing.name)]
        BY <2>2 DEF CommitChanges
    <2>4. /\ tasks'[current] = Append(tasks[current], changing.name)
          /\ tasks'[current] # <<>>
          /\ \A x : LastOf(tasks'[current], x) = changing.name
        BY <1>2, <2>2, <2>3, LastAppended DEF TypeOK
    <2>5. \A p \in Object : p # current => tasks'[p] = tasks[p]
        BY <2>3 DEF TypeOK
    <2>6. Busy(u)' = {current}
        BY <1>1, <2>1, <2>2, <2>4, <2>5 DEF Busy, Others
    <2>7. LastOf(writes[u], doc[u]) = changing.name
        BY <1>1, <1>4 DEF NewestOK, Half
    <2>8. LastOf(writes[u], doc[u])' = changing.name
        BY <1>1, <2>7 DEF LastOf
    <2>9. LastOf(tasks[current], account[u])' = changing.name
        BY <1>1, <2>4
    <2>10. \A o \in Busy(u)' : o = current
        BY <2>6
    <2> QED BY <1>1, <1>3, <2>6, <2>8, <2>9, <2>10 DEF NewestOK
<1>5. CASE u # changing.uid
    <2>1. ~SignedIn(u)
        BY <1>1, <1>2, <1>5 DEF CommitChanges, SignedIn
    <2>2. \A p \in Object : owner[p] = u => tasks'[p] = tasks[p]
        BY <2>1 DEF CommitChanges, SignedIn, TypeOK
    <2>3. Apart(u)
        BY <1>1, <1>3, <1>5, <2>2 DEF Apart, Busy, Half
    <2> QED BY <1>1, <2>3, ApartKeeps
<1> QED BY <1>4, <1>5

\* Storing a name on the account takes it from the front of the only queue.
LEMMA NewestSetInfo ==
    ASSUME TypeOK, TasksOK, NEW o \in Object, SetAccountInfo(o),
           NEW u \in Uid, NewestOK(u)
    PROVE  NewestOK(u)'
<1> DEFINE q == tasks[o]
<1>1. /\ q \in Seq(Name) /\ q # <<>> /\ owner[o] \in Uid
      /\ account' = [account EXCEPT ![owner[o]] = Head(q)]
      /\ tasks' = [tasks EXCEPT ![o] = Tail(q)]
      /\ UNCHANGED <<doc, owner, writes, changing>>
    BY DEF SetAccountInfo, TypeOK, TasksOK
<1>2. \A p \in Object : p # o => tasks'[p] = tasks[p]
    BY <1>1 DEF TypeOK
<1>3. tasks'[o] = Tail(q)
    BY <1>1 DEF TypeOK
<1>4. CASE owner[o] = u
    <2>1. account'[u] = Head(q)
        BY <1>1, <1>4 DEF TypeOK
    <2>2. Busy(u) = {o}
        <3>1. o \in Busy(u)
            BY <1>1, <1>4 DEF Busy
        <3> QED BY <3>1 DEF NewestOK
    <2>3. Busy(u)' = IF Tail(q) = <<>> THEN {} ELSE {o}
        <3>1. ASSUME NEW p \in Object
              PROVE  p \in Busy(u)' <=> p = o /\ Tail(q) # <<>>
            <4>1. CASE p = o
                BY <1>1, <1>3, <1>4, <4>1 DEF Busy
            <4>2. CASE p # o
                <5>1. p \notin Busy(u)
                    BY <2>2, <4>2
                <5> QED BY <1>1, <1>2, <4>2, <5>1 DEF Busy
            <4> QED BY <4>1, <4>2
        <3>2. Busy(u)' \subseteq Object
            BY DEF Busy
        <3> QED BY <3>1, <3>2
    <2>4. LastOf(writes[u], doc[u])' = LastOf(writes[u], doc[u])
        BY <1>1 DEF LastOf
    <2>5. Half(u)' = Half(u) /\ changing' = changing
        BY <1>1 DEF Half
    <2>6. ASSUME ~Half(u)
          PROVE  LastOf(Tail(q), Head(q)) = LastOf(writes[u], doc[u])
        <3>1. LastOf(q, account[u]) = LastOf(writes[u], doc[u])
            BY <2>2, <2>6 DEF NewestOK
        <3>2. \A x : LastOf(Tail(q), Head(q)) = LastOf(q, x)
            BY <1>1, LastStored
        <3> QED BY <3>1, <3>2
    <2>7. LastOf(tasks[o], account[u])' = LastOf(Tail(q), Head(q))
        BY <1>3, <2>1
    <2>8. Tail(q) = <<>> => LastOf(Tail(q), Head(q)) = account'[u]
        BY <2>1 DEF LastOf
    <2>9. Half(u) => LastOf(writes[u], doc[u]) = changing.name
        BY DEF NewestOK
    <2> HIDE DEF q
    <2>10. \A p, r \in Busy(u)' : p = r
        BY <2>3
    <2>11. \A p \in Busy(u)' : p = o
        BY <2>3
    <2>12. Busy(u)' = {} => Tail(q) = <<>>
        BY <2>3
    <2> QED BY <2>4, <2>5, <2>6, <2>7, <2>8, <2>9, <2>10, <2>11, <2>12 DEF NewestOK
<1>5. CASE owner[o] # u
    <2>1. Apart(u)
        BY <1>1, <1>2, <1>5 DEF Apart, Busy, Half, TypeOK
    <2> QED BY <2>1, ApartKeeps
<1> QED BY <1>4, <1>5

\* Storing one in the document changes the document's last name in nothing.
LEMMA NewestStore ==
    ASSUME TypeOK, NEW v \in Uid, Acknowledge(v) \/ AcknowledgementLost(v),
           NEW u \in Uid, NewestOK(u)
    PROVE  NewestOK(u)'
<1>1. PICK i \in DOMAIN writes[v] :
          /\ doc' = [doc EXCEPT ![v] = writes[v][i]]
          /\ UNCHANGED <<account, owner, tasks, changing>>
          /\ \/ writes' = [writes EXCEPT ![v] = Tail(@)]
             \/ writes' = writes
    BY DEF Acknowledge, AcknowledgementLost, Store
<1>1a. writes[v] \in Seq(Name) /\ writes[v] # <<>>
    BY <1>1 DEF TypeOK
<1>2. Busy(u)' = Busy(u) /\ Half(u)' = Half(u)
    BY <1>1 DEF Busy, Half
<1>3. LastOf(writes[u], doc[u])' = LastOf(writes[u], doc[u])
    <2>1. CASE u # v
        BY <1>1, <2>1 DEF LastOf, TypeOK
    <2>2. CASE u = v /\ writes' = writes
        BY <1>1a, <2>2, LastQueued
    <2>3. CASE u = v /\ writes' = [writes EXCEPT ![v] = Tail(@)]
        <3>1. writes'[u] = Tail(writes[u]) /\ doc'[u] = writes[u][i]
            BY <1>1, <2>3 DEF TypeOK
        <3>2. LastOf(Tail(writes[u]), writes[u][i]) = LastOf(writes[u], doc[u])
            BY <1>1, <1>1a, <2>3, LastStored
        <3> QED BY <3>1, <3>2
    <2> QED BY <1>1, <2>1, <2>2, <2>3
<1>4. \A o \in Busy(u) : LastOf(tasks[o], account[u])' = LastOf(tasks[o], account[u])
    BY <1>1
<1> QED BY <1>1, <1>2, <1>3, <1>4 DEF NewestOK

\* Every action keeps NewestOK of the accounts that are not disturbed.
LEMMA NewestStep ==
    ASSUME DisplayAssumption, IInv, [Next]_vars, NEW u \in Uid \ disturbed'
    PROVE  NewestOK(u)'
<1> USE DEF IInv
<1>0. ASSUME disturbed \subseteq disturbed' \/ u \notin disturbed, Apart(u)
      PROVE  NewestOK(u)'
    BY <1>0, ApartKeeps
<1>1. ASSUME NEW o \in Object, NEW v \in Uid, SignIn(o, v) PROVE NewestOK(u)'
    BY <1>0, <1>1, NewestSignIn DEF SignIn
<1>2. CASE EndSession
    BY <1>0, <1>2 DEF EndSession, Apart, Busy, Half
<1>3. CASE Relaunch
    BY <1>3, NewestRelaunch DEF Relaunch
<1>4. ASSUME NEW n \in Name, UpdateDocument(n) PROVE NewestOK(u)'
    BY <1>4, NewestUpdate
<1>5. CASE CommitChanges
    BY <1>5, NewestCommit
<1>6. ASSUME NEW o \in Object, StartTask(o) \/ Complete(o) PROVE NewestOK(u)'
    BY <1>0, <1>6 DEF StartTask, Complete, Apart, Busy, Half
<1>7. ASSUME NEW o \in Object, SetAccountInfo(o) PROVE NewestOK(u)'
    BY <1>7, NewestSetInfo DEF SetAccountInfo
<1>8. ASSUME NEW o \in Object, Fail(o) PROVE NewestOK(u)'
    <2>1. owner[o] # u /\ disturbed \subseteq disturbed'
        BY <1>8 DEF Fail
    <2>2. \A p \in Object : p # o => tasks'[p] = tasks[p]
        BY <1>8 DEF Fail, TypeOK
    <2>3. Apart(u)
        BY <1>8, <2>1, <2>2 DEF Fail, Apart, Busy, Half
    <2> QED BY <1>0, <2>1, <2>3
<1>9. ASSUME NEW v \in Uid, Acknowledge(v) \/ AcknowledgementLost(v)
      PROVE  NewestOK(u)'
    BY <1>9, NewestStore DEF Acknowledge, AcknowledgementLost, Store
<1>10. ASSUME NEW v \in Uid, RejectBatch(v) PROVE NewestOK(u)'
    <2>1. v # u /\ disturbed \subseteq disturbed'
        BY <1>10 DEF RejectBatch
    <2>2. Apart(u)
        BY <1>10, <2>1 DEF RejectBatch, Apart, Busy, Half, TypeOK
    <2> QED BY <1>0, <2>1, <2>2
<1>11. CASE UNCHANGED vars
    BY <1>0, <1>11 DEF vars, Apart, Busy, Half
<1> QED BY <1>1, <1>2, <1>3, <1>4, <1>5, <1>6, <1>7, <1>8, <1>9, <1>10,
           <1>11 DEF Next

-----------------------------------------------------------------------------
(***************************************************************************)
(* The theorems.                                                           *)
(***************************************************************************)
LEMMA InitOK == Init => IInv
<1> SUFFICES ASSUME Init PROVE IInv
    OBVIOUS
<1>1. TypeOK /\ TasksOK
    BY DisplayAssumption DEF Init, TypeOK, TasksOK
<1>2. ASSUME NEW u \in Uid PROVE NewestOK(u)
    BY DEF Init, NewestOK, Busy, Half, LastOf
<1> QED BY <1>1, <1>2 DEF IInv

LEMMA StepOK == IInv /\ [Next]_vars => IInv'
BY DisplayAssumption, TypeStep, NewestStep DEF IInv

\* DisplayName's inductive invariant holds in every reachable state.
THEOREM Inductive == Spec => []IInv
BY InitOK, StepOK, PTL DEF Spec

\* Every variable keeps its type: a change of name in particular is always that
\* of an account, since updateDisplayName asks who is signed in first.
THEOREM TypeCorrect == Spec => []TypeOK
<1>1. IInv => TypeOK
    BY DEF IInv
<1> QED BY <1>1, Inductive, PTL

\* Document and account have the same name once nothing is under way, unless a
\* change was disturbed: any number of changes, objects and sign-ins.
THEOREM NamesCorrect == Spec => []NamesAgree
<1>1. IInv => NamesAgree
    <2> SUFFICES ASSUME IInv, NEW u \in Uid \ disturbed, Quiet(u)
                 PROVE  doc[u] = account[u]
        BY DEF NamesAgree
    <2>1. NewestOK(u) /\ Busy(u) = {} /\ ~Half(u) /\ writes[u] = <<>>
        BY DEF IInv, Quiet, Busy, Half
    <2> QED BY <2>1 DEF NewestOK, LastOf
<1> QED BY <1>1, Inductive, PTL
=============================================================================
