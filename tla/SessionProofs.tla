--------------------------- MODULE SessionProofs ---------------------------
(***************************************************************************)
(* Proofs about Session: for every set of accounts, every number of        *)
(* requests under way and every bound.                                     *)
(***************************************************************************)
EXTENDS Session, TLAPS

\* A request whose FIRUser is still current is about the account signed in.
CurrentOK ==
    \A r \in requests : r.object = "current" => /\ currentUser # NoUser
                                                  /\ r.uid = currentUser.uid

\* After the first invocation the root controller is previousUserID's.
RootLink == prevUid # Unset => rootOwner = prevUid

\* Nobody is signed in before the keychain is read.
ReadyOK == ~ready => currentUser = NoUser

\* The answers under way are not ahead of the accounts either.
RequestsNotAhead == \A r \in requests : r.email <= account[r.uid]

\* While the completion of an accepted password waits on the main queue,
\* whoever is signed in has had a password accepted since the launch.
CheckedOK ==
    \A i \in 1..Len(main) : main[i].by = "checkPassword" =>
        ready /\ (currentUser # NoUser => currentUser.uid \in verified)

\* The login screens are those of a root controller without a session.
ScreenLink == screen \in LoginScreens => rootOwner = NoUser

IInv == /\ TypeOK /\ CurrentOK /\ ReadyOK /\ RootLink /\ RootFollowsUser
        /\ RequestsNotAhead /\ EmailsNotAhead
        /\ CheckedOK /\ PasswordOnlyVerified
        /\ EndIsAnnounced /\ ScreenLink

-----------------------------------------------------------------------------
(***************************************************************************)
(* The main queue.                                                         *)
(***************************************************************************)
\* The blocks FIRAuth and Firestore post are blocks of the main queue.
LEMMA BlockTypes ==
    /\ Notify \in Block
    /\ \A u \in Uid, e \in Nat : Snapshot(u, e) \in Block
    /\ \A r \in Request : Completion(r) \in Block
BY DEF Notify, Snapshot, Completion, Block, Request, Senders

\* Posting a block leaves the blocks before it where they are.
LEMMA AppendType ==
    ASSUME NEW q \in Seq(Block), NEW b \in Block
    PROVE  /\ Append(q, b) \in Seq(Block)
           /\ Len(Append(q, b)) = Len(q) + 1
           /\ \A i \in 1..Len(q) : Append(q, b)[i] = q[i]
           /\ Append(q, b)[Len(q) + 1] = b
OBVIOUS

\* Running the first block moves the others up by one.
LEMMA TailType ==
    ASSUME NEW q \in Seq(Block), q # <<>>
    PROVE  /\ Tail(q) \in Seq(Block)
           /\ Len(Tail(q)) = Len(q) - 1
           /\ \A i \in 1..Len(Tail(q)) : Tail(q)[i] = q[i + 1]
           /\ Head(q) = q[1] /\ 1 \in 1..Len(q) /\ Head(q) \in Block
OBVIOUS

\* Taking a screen out of the window changes nothing but the sender.
LEMMA HideType ==
    ASSUME NEW screens
    PROVE  /\ \A b \in Block : /\ Hide(b, screens) \in Block
                               /\ Hide(b, screens).by = b.by
                               /\ Hide(b, screens).uid = b.uid
                               /\ Hide(b, screens).email = b.email
           /\ \A r \in Request : /\ Hide(r, screens) \in Request
                                 /\ Hide(r, screens).by = r.by
                                 /\ Hide(r, screens).uid = r.uid
                                 /\ Hide(r, screens).email = r.email
                                 /\ Hide(r, screens).object = r.object
BY DEF Hide, Block, Request, Senders

\* The same for all the blocks of the queue.
LEMMA HideInQueueType ==
    ASSUME NEW q \in Seq(Block), NEW screens
    PROVE  /\ HideInQueue(q, screens) \in Seq(Block)
           /\ Len(HideInQueue(q, screens)) = Len(q)
           /\ \A i \in 1..Len(q) :
                 /\ HideInQueue(q, screens)[i].by = q[i].by
                 /\ HideInQueue(q, screens)[i].uid = q[i].uid
                 /\ HideInQueue(q, screens)[i].email = q[i].email
<1>1. \A i \in 1..Len(q) : q[i] \in Block
  OBVIOUS
<1>3. HideInQueue(q, screens) \in [1..Len(q) -> Block]
  BY <1>1, HideType DEF HideInQueue
<1>4. HideInQueue(q, screens) \in Seq(Block) /\ Len(HideInQueue(q, screens)) = Len(q)
  BY <1>3
<1> QED
  BY <1>1, <1>4, HideType DEF HideInQueue

Blocks(q) == {q[i] : i \in 1..Len(q)}

\* What posting, running and hiding do to the set of blocks waiting.
LEMMA BlocksOf ==
    ASSUME NEW q \in Seq(Block)
    PROVE  /\ \A b \in Block : Blocks(Append(q, b)) = Blocks(q) \cup {b}
           /\ q # <<>> => Blocks(Tail(q)) \cup {Head(q)} = Blocks(q)
           /\ \A screens : \A b \in Blocks(HideInQueue(q, screens)) :
                 \E c \in Blocks(q) : b.by = c.by /\ b.uid = c.uid
                                       /\ b.email = c.email
           /\ \A screens : \A c \in Blocks(q) :
                 \E b \in Blocks(HideInQueue(q, screens)) : b.by = c.by
<1>1. ASSUME NEW b \in Block PROVE Blocks(Append(q, b)) = Blocks(q) \cup {b}
  BY AppendType DEF Blocks
<1>2. ASSUME q # <<>> PROVE Blocks(Tail(q)) \cup {Head(q)} = Blocks(q)
  <2>1. \A i \in 1..Len(q) : i = 1 \/ i - 1 \in 1..Len(Tail(q))
    BY <1>2, TailType
  <2>2. \A i \in 1..Len(Tail(q)) : i + 1 \in 1..Len(q) /\ i + 1 - 1 = i
    BY <1>2, TailType
  <2>3. \A i \in 1..Len(q) : i # 1 => Tail(q)[i - 1] = q[i]
    BY <1>2, <2>1, TailType
  <2> QED
    BY <1>2, <2>1, <2>2, <2>3, TailType DEF Blocks
<1>3. ASSUME NEW screens
      PROVE  /\ \A b \in Blocks(HideInQueue(q, screens)) :
                   \E c \in Blocks(q) : b.by = c.by /\ b.uid = c.uid
                                         /\ b.email = c.email
             /\ \A c \in Blocks(q) :
                   \E b \in Blocks(HideInQueue(q, screens)) : b.by = c.by
  BY HideInQueueType DEF Blocks
<1> QED
  BY <1>1, <1>2, <1>3

\* Hiding screens keeps the type of the requests under way.
LEMMA HideInType ==
    ASSUME NEW S \in SUBSET Request, NEW screens
    PROVE  HideIn(S, screens) \in SUBSET Request
BY HideType DEF HideIn

\* A replaced FIRUser object is not the current one; nothing else of the
\* request changes.
LEMMA ReplacedType ==
    \A r \in Request : /\ Replaced(r) \in Request
                       /\ Replaced(r).by = r.by
                       /\ Replaced(r).uid = r.uid
                       /\ Replaced(r).email = r.email
                       /\ Replaced(r).object # "current"
BY DEF Replaced, Request

\* A request sent is about the user and the sender it was sent for.
LEMMA SendType ==
    ASSUME TypeOK, NEW by \in SignIns \cup UserUpdates, NEW user \in User,
           NEW stage \in {"password", "info", "done"}, NEW from \in Senders,
           Send(by, user, stage, from)
    PROVE  /\ requests' \in SUBSET Request
           /\ \A r \in requests' \ requests :
                 /\ r.by = by /\ r.uid = user.uid /\ r.email = user.email
                 /\ r.object = IF by \in SignIns THEN "new" ELSE "current"
BY DEF Send, Request, TypeOK, User

\* The account and the cached address of the user signed in.
LEMMA UserFacts ==
    ASSUME TypeOK, currentUser # NoUser
    PROVE  currentUser \in User /\ currentUser.uid \in Uid
           /\ currentUser.email \in Nat
BY DEF TypeOK, User

-----------------------------------------------------------------------------
(***************************************************************************)
(* Type correctness of every step.                                         *)
(***************************************************************************)
\* Every action keeps the type of every variable.
LEMMA TypeStep ==
    ASSUME TypeOK, CurrentOK, [Next]_vars
    PROVE  TypeOK'
<1> USE DEF TypeOK, vars, cloudVars, authVars, uiVars, LoginScreens, HomeScreens
<1>1. CASE Relaunch
  <2>1. <<Notify>> \in Seq(Block)
    BY BlockTypes
  <2> QED
    BY <1>1, <2>1 DEF Relaunch
<1>2. CASE StateDidChange
  <2>1. main # <<>>
    BY <1>2 DEF StateDidChange, Runs
  <2>2. UidOf(currentUser) \in Uid \cup {NoUser}
    BY UserFacts DEF UidOf
  <2>3. HideInQueue(Tail(main), Senders) \in Seq(Block)
        /\ Tail(main) \in Seq(Block)
    BY <2>1, TailType, HideInQueueType
  <2>4. HideIn(requests, Senders) \in SUBSET Request
    BY HideInType
  <2> QED
    BY <1>2, <2>2, <2>3, <2>4 DEF StateDidChange
<1>3. CASE MoveOn
  <2>1. Tail(main) \in Seq(Block)
    BY <1>3, TailType DEF MoveOn, Runs
  <2> QED
    BY <1>3, <2>1 DEF MoveOn
<1>4. CASE PasswordChecked
  <2>1. Tail(main) \in Seq(Block) /\ Head(main) \in Block
    BY <1>4, TailType DEF PasswordChecked, Runs
  <2>2. requests' \in SUBSET Request
    BY <1>4, <2>1, SendType, UserFacts
       DEF PasswordChecked, SignIns, UserUpdates, Block
  <2> QED
    BY <1>4, <2>1, <2>2 DEF PasswordChecked
<1>5. CASE EmailSnapshot
  <2>1. Tail(main) \in Seq(Block) /\ Append(Tail(main), Notify) \in Seq(Block)
    BY <1>5, TailType, AppendType, BlockTypes DEF EmailSnapshot, Runs
  <2>2. {Replaced(r) : r \in requests} \in SUBSET Request
    BY ReplacedType
  <2> QED
    BY <1>5, <2>1, <2>2 DEF EmailSnapshot, Logout, UpdateCurrentUser
<1>6. CASE LoadKeychain
  <2>1. Append(main, Notify) \in Seq(Block)
    BY AppendType, BlockTypes
  <2> QED
    BY <1>6, <2>1 DEF LoadKeychain
<1>7. ASSUME NEW r \in requests, VerifyPassword(r) \/ GetAccountInfo(r) \/ Fail(r)
      PROVE  TypeOK'
  <2>1. [r EXCEPT !.stage = "info"] \in Request
        /\ [r EXCEPT !.stage = "done", !.email = account[r.uid]] \in Request
    BY DEF Request
  <2> QED
    BY <1>7, <2>1 DEF VerifyPassword, GetAccountInfo, Fail, Answer
<1>8. ASSUME NEW r \in requests, FinishSignIn(r)
      PROVE  TypeOK'
  <2>1. Append(Append(main, Notify), Completion(r)) \in Seq(Block)
    BY AppendType, BlockTypes
  <2>2. [uid |-> r.uid, email |-> r.email] \in User /\ r.uid \in Uid
    BY DEF Request, User
  <2>3. {Replaced(q) : q \in requests \ {r}} \in SUBSET Request
    BY ReplacedType
  <2> QED
    BY <1>8, <2>1, <2>2, <2>3 DEF FinishSignIn, UpdateCurrentUser
<1>9. ASSUME NEW r \in requests, FinishUserUpdate(r)
      PROVE  TypeOK'
  <2>1. Append(main, Notify) \in Seq(Block)
        /\ Append(main, Completion(r)) \in Seq(Block)
        /\ Append(Append(main, Notify), Completion(r)) \in Seq(Block)
    BY AppendType, BlockTypes
  <2>2. r.object = "current" => [currentUser EXCEPT !.email = r.email] \in User
    BY UserFacts DEF CurrentOK, Request, User
  <2> QED
    BY <1>9, <2>1, <2>2 DEF FinishUserUpdate
<1>10. ASSUME NEW r \in requests, TokenRevoked(r)
       PROVE  TypeOK'
  <2>1. Append(main, Notify) \in Seq(Block)
    BY AppendType, BlockTypes
  <2>2. {Replaced(q) : q \in requests \ {r}} \in SUBSET Request
    BY ReplacedType
  <2> QED
    BY <1>10, <2>1, <2>2 DEF TokenRevoked, UpdateCurrentUser
<1>11. ASSUME NEW u \in Uid, EmitSnapshot(u)
       PROVE  TypeOK'
  <2>1. PICK n \in 0..account[u] : main' = Append(main, Snapshot(u, n))
    BY <1>11 DEF EmitSnapshot
  <2>2. main' \in Seq(Block)
    BY <2>1, AppendType, BlockTypes
  <2> QED
    BY <1>11, <2>2 DEF EmitSnapshot
<1>12. ASSUME NEW u \in Uid, ListenRejected(u) \/ RemoteEmailChange(u)
       PROVE  TypeOK'
  <2>1. CASE ListenRejected(u)
    BY <2>1 DEF ListenRejected
  <2>2. CASE RemoteEmailChange(u)
    <3>1. account[u] + 1 \in Nat
      OBVIOUS
    <3>2. account' \in [Uid -> Nat]
      BY <2>2, <3>1 DEF RemoteEmailChange
    <3> QED
      BY <2>2, <3>2 DEF RemoteEmailChange
  <2> QED
    BY <1>12, <2>1, <2>2
<1>13. CASE Navigate
  <2>1. \A closed : HideIn(requests, closed) \in SUBSET Request
                   /\ HideInQueue(main, closed) \in Seq(Block)
    BY HideInType, HideInQueueType
  <2> QED
    BY <1>13, <2>1 DEF Navigate, Leave
<1>14. CASE OpenSettings
  <2>1. requests' \in SUBSET Request
    BY <1>14, SendType, UserFacts DEF OpenSettings, UserUpdates, Senders
  <2> QED
    BY <1>14, <2>1, UserFacts DEF OpenSettings
<1>15. CASE Reauthenticate
  <2>1. requests' \in SUBSET Request
    <3>1. PICK by \in SignIns, from \in Senders : Send(by, currentUser, "password", from)
      BY <1>15 DEF Reauthenticate, SignIns, Senders
    <3>2. currentUser \in User
      BY <1>15, UserFacts DEF Reauthenticate
    <3> QED
      BY <3>1, <3>2, SendType
  <2> QED
    BY <1>15, <2>1 DEF Reauthenticate
<1>16. CASE LogoutPressed
  <2>1. Append(main, Notify) \in Seq(Block)
    BY AppendType, BlockTypes
  <2>2. {Replaced(r) : r \in requests} \in SUBSET Request
    BY ReplacedType
  <2> QED
    BY <1>16, <2>1, <2>2 DEF LogoutPressed, Logout, UpdateCurrentUser
<1>17. ASSUME NEW u \in Uid, LoginPressed(u)
       PROVE  TypeOK'
  <2>1. [uid |-> u, email |-> account[u]] \in User
    BY DEF User
  <2>2. requests' \in SUBSET Request
    BY <1>17, <2>1, SendType DEF LoginPressed, SignIns, Senders
  <2> QED
    BY <1>17, <2>2 DEF LoginPressed
<1>18. ASSUME NEW u \in Uid, SignUpPressed(u)
       PROVE  TypeOK'
  <2>1. [uid |-> u, email |-> 0] \in User
    BY DEF User
  <2>2. requests' \in SUBSET Request
    BY <1>18, <2>1, SendType DEF SignUpPressed, SignIns, Senders
  <2> QED
    BY <1>18, <2>2 DEF SignUpPressed
<1>19. ASSUME NEW r \in requests, CreateUser(r)
       PROVE  TypeOK'
  <2>1. [r EXCEPT !.stage = "info"] \in Request
    BY DEF Request
  <2>2. account' \in [Uid -> Nat]
    BY <1>19 DEF CreateUser
  <2> QED
    BY <1>19, <2>1, <2>2 DEF CreateUser
<1>20. CASE SignUpCompletion
  <2>1. main # <<>> /\ Head(main).by = "signUp"
    BY <1>20 DEF SignUpCompletion, Runs
  <2>2. Tail(main) \in Seq(Block) /\ Head(main) \in Block
    BY <2>1, TailType
  <2>3. Head(main).uid \in Uid
    BY <2>1, <2>2 DEF Block
  <2> QED
    BY <1>20, <2>2, <2>3 DEF SignUpCompletion
<1>21. CASE UNCHANGED vars
  BY <1>21
<1> QED
  BY <1>1, <1>2, <1>3, <1>4, <1>5, <1>6, <1>7, <1>8, <1>9, <1>10, <1>11,
     <1>12, <1>13, <1>14, <1>15, <1>16, <1>17, <1>18, <1>19, <1>20, <1>21
     DEF Next, RunMain, Auth, Cloud, Person

-----------------------------------------------------------------------------
(***************************************************************************)
(* A current request is about the account signed in: every action that     *)
(* replaces the user also turns the current requests into replaced ones.   *)
(***************************************************************************)
\* updateCurrentUser leaves no request about the current FIRUser.
LEMMA UpdateDropsCurrent ==
    ASSUME NEW S \in SUBSET Request
    PROVE  \A r \in {Replaced(q) : q \in S} : r.object # "current"
BY ReplacedType

\* Leaving a screen keeps what the requests are about.
LEMMA HideKeepsCurrent ==
    ASSUME NEW S \in SUBSET Request, NEW screens
    PROVE  \A r \in HideIn(S, screens) : \E q \in S :
              /\ r.object = q.object /\ r.uid = q.uid
              /\ r.email = q.email /\ r.by = q.by
BY HideType DEF HideIn

\* Every action keeps CurrentOK and ReadyOK.
LEMMA CurrentStep ==
    ASSUME TypeOK, CurrentOK, ReadyOK, [Next]_vars
    PROVE  CurrentOK' /\ ReadyOK'
<1>0. requests \in SUBSET Request
  BY DEF TypeOK
<1>0a. ASSUME NEW by \in SignIns \cup UserUpdates, NEW stage, NEW from,
              stage \in {"password", "info", "done"}, from \in Senders,
              currentUser # NoUser \/ by \in SignIns, NEW user \in User,
              user = currentUser \/ by \in SignIns,
              Send(by, user, stage, from), UNCHANGED authVars
       PROVE  CurrentOK' /\ ReadyOK'
  BY <1>0a, SendType DEF CurrentOK, ReadyOK, authVars
<1>1. CASE Relaunch
  BY <1>1 DEF Relaunch, CurrentOK, ReadyOK
<1>2. CASE StateDidChange
  BY <1>0, <1>2, HideKeepsCurrent
     DEF StateDidChange, CurrentOK, ReadyOK, authVars
<1>3. CASE MoveOn \/ SignUpCompletion
  BY <1>3 DEF MoveOn, SignUpCompletion, CurrentOK, ReadyOK, authVars
<1>4. CASE PasswordChecked
  <2>1. Head(main).from \in Senders
    BY <1>4, TailType DEF PasswordChecked, Runs, TypeOK, Block
  <2>0. UNCHANGED authVars
    BY <1>4 DEF PasswordChecked
  <2>2. CASE UNCHANGED requests
    BY <2>0, <2>2 DEF CurrentOK, ReadyOK, authVars
  <2>3. CASE /\ currentUser # NoUser
             /\ Send("setPassword", currentUser, "info", Head(main).from)
    BY <2>0, <2>1, <2>3, <1>0a, UserFacts DEF UserUpdates
  <2> QED
    BY <1>4, <2>2, <2>3 DEF PasswordChecked
<1>5. CASE EmailSnapshot \/ LogoutPressed
  BY <1>0, <1>5, UpdateDropsCurrent
     DEF EmailSnapshot, LogoutPressed, Logout, UpdateCurrentUser, CurrentOK, ReadyOK
<1>6. CASE LoadKeychain
  BY <1>6 DEF LoadKeychain, CurrentOK, ReadyOK
<1>7. ASSUME NEW r \in requests,
             VerifyPassword(r) \/ CreateUser(r) \/ GetAccountInfo(r) \/ Fail(r)
      PROVE  CurrentOK' /\ ReadyOK'
  BY <1>0, <1>7
     DEF VerifyPassword, CreateUser, GetAccountInfo, Fail, Answer, CurrentOK,
         ReadyOK, authVars, Request
<1>8. ASSUME NEW r \in requests, FinishSignIn(r) \/ TokenRevoked(r)
      PROVE  CurrentOK' /\ ReadyOK'
  BY <1>0, <1>8, UpdateDropsCurrent
     DEF FinishSignIn, TokenRevoked, UpdateCurrentUser, CurrentOK, ReadyOK
<1>9. ASSUME NEW r \in requests, FinishUserUpdate(r)
      PROVE  CurrentOK' /\ ReadyOK'
  <2>1. r.object = "current" =>
           /\ [currentUser EXCEPT !.email = r.email] \in User
           /\ [currentUser EXCEPT !.email = r.email].uid = currentUser.uid
    BY <1>0, UserFacts DEF CurrentOK, Request, User
  <2> QED
    BY <1>9, <2>1, SessionAssumption DEF FinishUserUpdate, CurrentOK, ReadyOK, User
<1>10. CASE Navigate
  BY <1>0, <1>10, HideKeepsCurrent
     DEF Navigate, Leave, CurrentOK, ReadyOK, authVars
<1>11. CASE OpenSettings
  BY <1>11, <1>0a, UserFacts
     DEF OpenSettings, CurrentOK, ReadyOK, authVars, UserUpdates, Senders
<1>12. CASE Reauthenticate
  BY <1>12, <1>0a, UserFacts DEF Reauthenticate, authVars, SignIns, Senders
<1>13. ASSUME NEW u \in Uid, LoginPressed(u)
       PROVE  CurrentOK' /\ ReadyOK'
  <2>1. [uid |-> u, email |-> account[u]] \in User
    BY DEF User, TypeOK
  <2> QED
    BY <1>13, <2>1, <1>0a DEF LoginPressed, authVars, SignIns, Senders
<1>14. ASSUME NEW u \in Uid, SignUpPressed(u)
       PROVE  CurrentOK' /\ ReadyOK'
  <2>1. [uid |-> u, email |-> 0] \in User
    BY DEF User
  <2> QED
    BY <1>14, <2>1, <1>0a DEF SignUpPressed, authVars, SignIns, Senders
<1>15. ASSUME NEW u \in Uid, EmitSnapshot(u) \/ ListenRejected(u)
                            \/ RemoteEmailChange(u)
       PROVE  CurrentOK' /\ ReadyOK'
  BY <1>15 DEF EmitSnapshot, ListenRejected, RemoteEmailChange,
               CurrentOK, ReadyOK, authVars
<1>16. CASE UNCHANGED vars
  BY <1>16 DEF vars, authVars, CurrentOK, ReadyOK
<1> QED
  BY <1>1, <1>2, <1>3, <1>4, <1>5, <1>6, <1>7, <1>8, <1>9, <1>10, <1>11,
     <1>12, <1>13, <1>14, <1>15, <1>16 DEF Next, RunMain, Auth, Cloud, Person

-----------------------------------------------------------------------------
(***************************************************************************)
(* No address is newer than the account's.  An answer about a FIRUser      *)
(* reaches the session only through CurrentOK: it is about the account     *)
(* signed in.                                                              *)
(***************************************************************************)
EmailInv == RequestsNotAhead /\ EmailsNotAhead

\* Actions that only move addresses between requests, session and keychain.
LEMMA EmailFrame ==
    ASSUME EmailInv, UNCHANGED account,
           \A r \in requests' : \E q \in requests : r.uid = q.uid /\ r.email = q.email,
           \A user \in {currentUser', keychain'} \ {NoUser} :
               \/ user \in {currentUser, keychain}
               \/ \E q \in requests : user.uid = q.uid /\ user.email = q.email
    PROVE  EmailInv'
BY DEF EmailInv, RequestsNotAhead, EmailsNotAhead

\* No action puts an address ahead of its account.
LEMMA EmailStep ==
    ASSUME TypeOK, CurrentOK, EmailInv, [Next]_vars
    PROVE  EmailInv'
<1>0. requests \in SUBSET Request /\ main \in Seq(Block)
  BY DEF TypeOK
\* A request is sent, and nothing else changes.
<1>0a. ASSUME NEW by \in SignIns \cup UserUpdates, NEW user \in User,
              NEW stage \in {"password", "info", "done"}, NEW from \in Senders,
              Send(by, user, stage, from), user.email <= account[user.uid],
              UNCHANGED <<account, currentUser, keychain>>
       PROVE  EmailInv'
  <2>1. \A r \in requests' : r.email <= account[r.uid]
    BY <1>0a, SendType DEF EmailInv, RequestsNotAhead
  <2> QED
    BY <1>0a, <2>1 DEF EmailInv, RequestsNotAhead, EmailsNotAhead
<1>0b. currentUser # NoUser => currentUser.email <= account[currentUser.uid]
  BY DEF EmailInv, EmailsNotAhead
\* The accounts only get newer addresses.
<1>0c. ASSUME \A v \in Uid : account'[v] \in Nat /\ account[v] <= account'[v],
              UNCHANGED <<currentUser, keychain>>,
              \A r \in requests' : \E q \in requests : r.uid = q.uid /\ r.email = q.email
       PROVE  EmailInv'
  <2>1. \A e \in Nat : \A v \in Uid : e <= account[v] => e <= account'[v]
    BY <1>0c DEF TypeOK
  <2>2. RequestsNotAhead'
    BY <1>0, <1>0c, <2>1 DEF EmailInv, RequestsNotAhead, Request
  <2>3. EmailsNotAhead'
    BY <1>0c, <2>1 DEF EmailInv, EmailsNotAhead, TypeOK, User
  <2> QED
    BY <2>2, <2>3 DEF EmailInv
<1>1. CASE Relaunch
  BY <1>1, EmailFrame DEF Relaunch, cloudVars
<1>2. CASE StateDidChange
  <2>1. \A r \in requests' : \E q \in requests : r.uid = q.uid /\ r.email = q.email
    BY <1>0, <1>2, HideKeepsCurrent DEF StateDidChange
  <2> QED
    BY <1>2, <2>1, EmailFrame DEF StateDidChange, authVars, cloudVars
<1>3. CASE MoveOn \/ SignUpCompletion
  BY <1>3, EmailFrame DEF MoveOn, SignUpCompletion, authVars, cloudVars
<1>4. CASE PasswordChecked
  <2>1. Head(main).from \in Senders
    BY <1>0, <1>4, TailType DEF PasswordChecked, Runs, Block
  <2>2. UNCHANGED <<account, currentUser, keychain>>
    BY <1>4 DEF PasswordChecked, cloudVars, authVars
  <2>3. CASE UNCHANGED requests
    BY <2>2, <2>3, EmailFrame
  <2>4. CASE /\ currentUser # NoUser
             /\ Send("setPassword", currentUser, "info", Head(main).from)
    BY <1>0a, <1>0b, <2>1, <2>2, <2>4, UserFacts DEF UserUpdates
  <2> QED
    BY <1>4, <2>3, <2>4 DEF PasswordChecked
<1>5. CASE EmailSnapshot \/ LogoutPressed
  <2>1. \A r \in requests' : \E q \in requests : r.uid = q.uid /\ r.email = q.email
    BY <1>0, <1>5, ReplacedType
       DEF EmailSnapshot, LogoutPressed, Logout, UpdateCurrentUser
  <2>2. UNCHANGED account
        /\ {currentUser', keychain'} \ {NoUser} \subseteq {currentUser, keychain}
    BY <1>5 DEF EmailSnapshot, LogoutPressed, Logout, UpdateCurrentUser, cloudVars
  <2> QED
    BY <2>1, <2>2, EmailFrame
<1>6. CASE LoadKeychain
  BY <1>6, EmailFrame DEF LoadKeychain, cloudVars
<1>7. ASSUME NEW r \in requests, VerifyPassword(r) \/ Fail(r)
      PROVE  EmailInv'
  <2>1. /\ [r EXCEPT !.stage = "info"].uid = r.uid
        /\ [r EXCEPT !.stage = "info"].email = r.email
    BY <1>0 DEF Request
  <2>2. \A q \in requests' : \E x \in requests : q.uid = x.uid /\ q.email = x.email
    BY <1>7, <2>1 DEF VerifyPassword, Fail, Answer
  <2> QED
    BY <1>7, <2>2, EmailFrame DEF VerifyPassword, Fail, Answer, cloudVars, authVars
<1>8. ASSUME NEW r \in requests, GetAccountInfo(r)
      PROVE  EmailInv'
  <2> DEFINE answered == [r EXCEPT !.stage = "done", !.email = account[r.uid]]
  <2>1. answered.uid = r.uid /\ answered.email = account[r.uid]
    BY <1>0 DEF Request
  <2>2. requests' = (requests \ {r}) \cup {answered}
        /\ UNCHANGED <<account, currentUser, keychain>>
    BY <1>8 DEF GetAccountInfo, Answer, cloudVars, authVars
  <2>3. account[r.uid] <= account[r.uid]
    BY <1>0 DEF TypeOK, Request
  <2> HIDE DEF answered
  <2> QED
    BY <2>1, <2>2, <2>3 DEF EmailInv, RequestsNotAhead, EmailsNotAhead
<1>9. ASSUME NEW r \in requests, CreateUser(r)
      PROVE  EmailInv'
  <2>1. /\ [r EXCEPT !.stage = "info"].uid = r.uid
        /\ [r EXCEPT !.stage = "info"].email = r.email
    BY <1>0 DEF Request
  <2>2. \A q \in requests' : \E x \in requests : q.uid = x.uid /\ q.email = x.email
    BY <1>9, <2>1 DEF CreateUser
  <2>3. \A v \in Uid : account'[v] \in Nat /\ account[v] <= account'[v]
    BY <1>9 DEF CreateUser, TypeOK
  <2> QED
    BY <1>9, <2>2, <2>3, <1>0c DEF CreateUser, authVars
<1>10. ASSUME NEW r \in requests, FinishSignIn(r) \/ TokenRevoked(r)
       PROVE  EmailInv'
  <2>1. \A q \in requests' : \E x \in requests : q.uid = x.uid /\ q.email = x.email
    BY <1>0, <1>10, ReplacedType DEF FinishSignIn, TokenRevoked, UpdateCurrentUser
  <2>2. \A user \in {currentUser', keychain'} \ {NoUser} :
           \/ user \in {currentUser, keychain}
           \/ \E q \in requests : user.uid = q.uid /\ user.email = q.email
    BY <1>10 DEF FinishSignIn, TokenRevoked, UpdateCurrentUser
  <2> QED
    BY <1>10, <2>1, <2>2, EmailFrame DEF FinishSignIn, TokenRevoked, cloudVars
<1>11. ASSUME NEW r \in requests, FinishUserUpdate(r)
       PROVE  EmailInv'
  <2>1. r.object = "current" =>
           /\ [currentUser EXCEPT !.email = r.email].uid = r.uid
           /\ [currentUser EXCEPT !.email = r.email].email = r.email
    BY <1>0, UserFacts DEF CurrentOK, User
  <2>2. \A user \in {currentUser', keychain'} \ {NoUser} :
           \/ user \in {currentUser, keychain}
           \/ user.uid = r.uid /\ user.email = r.email
    BY <1>11, <2>1 DEF FinishUserUpdate
  <2>3. UNCHANGED account /\ requests' \subseteq requests
    BY <1>11 DEF FinishUserUpdate, cloudVars
  <2> QED
    BY <2>2, <2>3, EmailFrame
<1>12. CASE Navigate
  <2>1. \A r \in requests' : \E q \in requests : r.uid = q.uid /\ r.email = q.email
    BY <1>0, <1>12, HideKeepsCurrent DEF Navigate, Leave
  <2> QED
    BY <1>12, <2>1, EmailFrame DEF Navigate, authVars, cloudVars
<1>13. CASE OpenSettings \/ Reauthenticate
  <2>1. UNCHANGED <<account, currentUser, keychain>>
    BY <1>13 DEF OpenSettings, Reauthenticate, cloudVars, authVars
  <2>2. CASE UNCHANGED requests
    BY <2>1, <2>2, EmailFrame
  <2>3. CASE OpenSettings /\ requests' # requests
    BY <1>0a, <1>0b, <2>1, <2>3, UserFacts DEF OpenSettings, UserUpdates, Senders
  <2>4. CASE Reauthenticate
    BY <1>0a, <1>0b, <2>1, <2>4, UserFacts DEF Reauthenticate, SignIns, Senders
  <2> QED
    BY <1>13, <2>2, <2>3, <2>4
<1>14. ASSUME NEW u \in Uid, LoginPressed(u) \/ SignUpPressed(u)
       PROVE  EmailInv'
  <2>1. UNCHANGED <<account, currentUser, keychain>>
    BY <1>14 DEF LoginPressed, SignUpPressed, cloudVars, authVars
  <2>2. /\ [uid |-> u, email |-> account[u]] \in User /\ account[u] <= account[u]
        /\ [uid |-> u, email |-> 0] \in User /\ 0 <= account[u]
    BY DEF User, TypeOK
  <2> QED
    BY <1>0a, <1>14, <2>1, <2>2 DEF LoginPressed, SignUpPressed, SignIns, Senders
<1>15. ASSUME NEW u \in Uid, EmitSnapshot(u) \/ ListenRejected(u)
       PROVE  EmailInv'
  BY <1>15, EmailFrame DEF EmitSnapshot, ListenRejected, cloudVars, authVars
<1>16. ASSUME NEW u \in Uid, RemoteEmailChange(u)
       PROVE  EmailInv'
  <2>1. \A v \in Uid : account'[v] \in Nat /\ account[v] <= account'[v]
    BY <1>16 DEF RemoteEmailChange, TypeOK
  <2> QED
    BY <1>16, <2>1, <1>0c DEF RemoteEmailChange, authVars
<1>17. CASE UNCHANGED vars
  BY <1>17, EmailFrame DEF vars, cloudVars, authVars
<1> QED
  BY <1>1, <1>2, <1>3, <1>4, <1>5, <1>6, <1>7, <1>8, <1>9, <1>10, <1>11,
     <1>12, <1>13, <1>14, <1>15, <1>16, <1>17
     DEF Next, RunMain, Auth, Cloud, Person

-----------------------------------------------------------------------------
(***************************************************************************)
(* The root controller.  Every action that replaces the user queues a      *)
(* notification behind it; only the listener itself removes one, and it    *)
(* then brings previousUserID and the root up to date.                     *)
(***************************************************************************)
\* Whether a notification waits depends only on the set of waiting blocks.
LEMMA PendingBlocks ==
    /\ Pending <=> \E b \in Blocks(main) : b.by = "notify"
    /\ Pending' <=> \E b \in Blocks(main') : b.by = "notify"
BY DEF Pending, Blocks

\* The actions that add blocks, and those that take one that is no
\* notification, keep the notifications.
LEMMA QueueKeepsPending ==
    ASSUME TypeOK
    PROVE  /\ Pending => \E b \in Blocks(main) : b.by = "notify"
           /\ \E b \in Blocks(Append(main, Notify)) : b.by = "notify"
           /\ \A r \in Request :
                 \E b \in Blocks(Append(Append(main, Notify), Completion(r))) :
                    b.by = "notify"
           /\ \A x \in Block : Blocks(main) \subseteq Blocks(Append(main, x))
           /\ \A screens : \A c \in Blocks(main) :
                 \E b \in Blocks(HideInQueue(main, screens)) : b.by = c.by
           /\ main # <<>> /\ Head(main).by # "notify" =>
                 \A c \in Blocks(main) :
                    c.by = "notify" => c \in Blocks(Tail(main))
           /\ main # <<>> =>
                 \E b \in Blocks(Append(Tail(main), Notify)) : b.by = "notify"
<1>0. main \in Seq(Block)
  BY DEF TypeOK
<1>1. Notify \in Block /\ Notify.by = "notify"
  BY BlockTypes DEF Notify
<1>2. Append(main, Notify) \in Seq(Block)
      /\ Blocks(Append(main, Notify)) = Blocks(main) \cup {Notify}
  BY <1>0, <1>1, AppendType, BlocksOf
<1>3. ASSUME NEW r \in Request
      PROVE  \E b \in Blocks(Append(Append(main, Notify), Completion(r))) :
                b.by = "notify"
  <2>1. Completion(r) \in Block
    BY BlockTypes
  <2>2. Blocks(Append(Append(main, Notify), Completion(r)))
          = Blocks(Append(main, Notify)) \cup {Completion(r)}
    BY <1>2, <2>1, BlocksOf
  <2> QED
    BY <1>1, <1>2, <2>2
<1>4. \A x \in Block : Blocks(main) \subseteq Blocks(Append(main, x))
  BY <1>0, BlocksOf
<1>5. \A screens : \A c \in Blocks(main) :
         \E b \in Blocks(HideInQueue(main, screens)) : b.by = c.by
  BY <1>0, BlocksOf
<1>6. ASSUME main # <<>>
      PROVE  /\ Blocks(Tail(main)) \cup {Head(main)} = Blocks(main)
             /\ Blocks(Append(Tail(main), Notify)) = Blocks(Tail(main)) \cup {Notify}
  <2>1. Tail(main) \in Seq(Block)
    BY <1>0, <1>6, TailType
  <2> QED
    BY <1>0, <1>1, <1>6, <2>1, BlocksOf
<1> QED
  BY <1>1, <1>2, <1>3, <1>4, <1>5, <1>6, PendingBlocks

\* Every action keeps RootLink and RootFollowsUser.
LEMMA RootStep ==
    ASSUME TypeOK, CurrentOK, RootLink, RootFollowsUser, [Next]_vars
    PROVE  RootLink' /\ RootFollowsUser'
<1>0. requests \in SUBSET Request /\ main \in Seq(Block)
  BY DEF TypeOK
\* Notifications stay, and so does the user or a notification is there.
<1>0a. ASSUME UNCHANGED <<prevUid, rootOwner>>,
              Pending => Pending',
              Pending' \/ UidOf(currentUser') = UidOf(currentUser)
       PROVE  RootLink' /\ RootFollowsUser'
  BY <1>0a DEF RootLink, RootFollowsUser, UidOf
<1>0b. ASSUME UNCHANGED <<prevUid, rootOwner>>,
              Blocks(main) \subseteq Blocks(main') \/ Pending',
              UNCHANGED currentUser \/ Pending'
       PROVE  RootLink' /\ RootFollowsUser'
  BY <1>0a, <1>0b, PendingBlocks DEF UidOf
<1>1. CASE Relaunch
  <2>1. Notify \in Blocks(<<Notify>>) /\ Notify.by = "notify"
    BY DEF Blocks, Notify
  <2> QED
    BY <1>1, <2>1, PendingBlocks DEF Relaunch, RootFollowsUser, RootLink
<1>2. CASE StateDidChange
  <2>1. prevUid' = UidOf(currentUser) /\ UNCHANGED currentUser
    BY <1>2 DEF StateDidChange, authVars
  <2>2. rootOwner' = UidOf(currentUser)
    <3>1. UidOf(currentUser) # Unset
      BY UserFacts, SessionAssumption DEF UidOf
    <3>2. CASE prevUid # UidOf(currentUser)
      BY <1>2, <3>2 DEF StateDidChange
    <3>3. CASE prevUid = UidOf(currentUser)
      BY <1>2, <3>1, <3>3 DEF StateDidChange, RootLink
    <3> QED
      BY <3>2, <3>3
  <2> QED
    BY <2>1, <2>2 DEF RootFollowsUser, RootLink, UidOf
<1>3. CASE MoveOn \/ SignUpCompletion
  <2>1. main # <<>> /\ Head(main).by # "notify"
    BY <1>3 DEF MoveOn, SignUpCompletion, Runs
  <2>2. main' = Tail(main) /\ UNCHANGED <<prevUid, rootOwner, currentUser>>
    BY <1>3 DEF MoveOn, SignUpCompletion, authVars, uiVars
  <2>3. Pending => Pending'
    BY <2>1, <2>2, QueueKeepsPending, PendingBlocks
  <2> QED
    BY <2>2, <2>3, <1>0a
<1>4. CASE PasswordChecked
  <2>1. main # <<>> /\ Head(main).by # "notify"
    BY <1>4 DEF PasswordChecked, Runs
  <2>2. main' = Tail(main) /\ UNCHANGED <<prevUid, rootOwner, currentUser>>
    BY <1>4 DEF PasswordChecked, authVars, uiVars
  <2>3. Pending => Pending'
    BY <2>1, <2>2, QueueKeepsPending, PendingBlocks
  <2> QED
    BY <2>2, <2>3, <1>0a
<1>5. CASE EmailSnapshot
  <2>1. main # <<>> /\ Head(main).by # "notify"
    BY <1>5 DEF EmailSnapshot, Runs
  <2>2. UNCHANGED <<prevUid, rootOwner>>
    BY <1>5 DEF EmailSnapshot, uiVars
  <2>3. CASE main' = Tail(main) /\ UNCHANGED currentUser
    BY <2>1, <2>2, <2>3, QueueKeepsPending, PendingBlocks, <1>0a
  <2>4. CASE main' = Append(Tail(main), Notify)
    BY <2>1, <2>2, <2>4, QueueKeepsPending, PendingBlocks, <1>0a
  <2> QED
    BY <1>5, <2>3, <2>4 DEF EmailSnapshot, Logout, UpdateCurrentUser
<1>6. CASE LoadKeychain \/ LogoutPressed
  <2>1. UNCHANGED <<prevUid, rootOwner>>
    BY <1>6 DEF LoadKeychain, LogoutPressed, uiVars
  <2>2. \/ main' = main /\ UNCHANGED currentUser
        \/ main' = Append(main, Notify)
    BY <1>6 DEF LoadKeychain, LogoutPressed, Logout, UpdateCurrentUser
  <2> QED
    BY <2>1, <2>2, QueueKeepsPending, PendingBlocks, <1>0b
<1>7. ASSUME NEW r \in requests,
             VerifyPassword(r) \/ CreateUser(r) \/ GetAccountInfo(r) \/ Fail(r)
      PROVE  RootLink' /\ RootFollowsUser'
  <2>1. UNCHANGED <<prevUid, rootOwner, main, currentUser>>
    BY <1>7 DEF VerifyPassword, CreateUser, GetAccountInfo, Fail, Answer, authVars, uiVars
  <2> QED
    BY <2>1, <1>0b
<1>8. ASSUME NEW r \in requests, FinishSignIn(r)
      PROVE  RootLink' /\ RootFollowsUser'
  <2>1. Pending'
    BY <1>0, <1>8, QueueKeepsPending, PendingBlocks
       DEF FinishSignIn, UpdateCurrentUser
  <2> QED
    BY <1>8, <2>1, <1>0b DEF FinishSignIn, uiVars
<1>9. ASSUME NEW r \in requests, FinishUserUpdate(r)
      PROVE  RootLink' /\ RootFollowsUser'
  <2>1. UNCHANGED <<prevUid, rootOwner>>
    BY <1>9 DEF FinishUserUpdate, uiVars
  <2>2. UidOf(currentUser') = UidOf(currentUser)
    <3>1. r.object = "current" =>
             /\ currentUser # NoUser
             /\ [currentUser EXCEPT !.email = r.email] # NoUser
             /\ [currentUser EXCEPT !.email = r.email].uid = currentUser.uid
      BY <1>0, UserFacts, SessionAssumption DEF CurrentOK, Request, User
    <3> QED
      BY <1>9, <3>1 DEF FinishUserUpdate, UidOf
  <2>3. Completion(r) \in Block
    BY <1>0, BlockTypes
  <2>4. Pending => Pending'
    BY <1>0, <1>9, <2>3, QueueKeepsPending, PendingBlocks DEF FinishUserUpdate
  <2> QED
    BY <2>1, <2>2, <2>4, <1>0a
<1>10. ASSUME NEW r \in requests, TokenRevoked(r)
       PROVE  RootLink' /\ RootFollowsUser'
  <2>1. UNCHANGED <<prevUid, rootOwner>>
    BY <1>10 DEF TokenRevoked, uiVars
  <2>2. \/ UNCHANGED <<main, currentUser>>
        \/ main' = Append(main, Notify)
    BY <1>10 DEF TokenRevoked, UpdateCurrentUser
  <2> QED
    BY <2>1, <2>2, QueueKeepsPending, PendingBlocks, <1>0b
<1>11. CASE Navigate
  <2>1. UNCHANGED <<prevUid, rootOwner, currentUser>>
    BY <1>11 DEF Navigate, authVars
  <2>2. \E closed : main' = HideInQueue(main, closed)
    BY <1>11 DEF Navigate, Leave
  <2>3. Pending => Pending'
    BY <2>2, QueueKeepsPending, PendingBlocks
  <2> QED
    BY <2>1, <2>3, <1>0a
<1>12. CASE OpenSettings \/ Reauthenticate
              \/ \E u \in Uid : LoginPressed(u) \/ SignUpPressed(u)
  <2>1. UNCHANGED <<prevUid, rootOwner, main, currentUser>>
    BY <1>12 DEF OpenSettings, Reauthenticate, LoginPressed, SignUpPressed, authVars, uiVars
  <2> QED
    BY <2>1, <1>0b
<1>13. ASSUME NEW u \in Uid, EmitSnapshot(u)
       PROVE  RootLink' /\ RootFollowsUser'
  <2>1. PICK n \in 0..account[u] : main' = Append(main, Snapshot(u, n))
    BY <1>13 DEF EmitSnapshot
  <2>2. Snapshot(u, n) \in Block
    BY BlockTypes DEF TypeOK
  <2>3. UNCHANGED <<prevUid, rootOwner, currentUser>>
    BY <1>13 DEF EmitSnapshot, authVars, uiVars
  <2> QED
    BY <2>1, <2>2, <2>3, QueueKeepsPending, <1>0b
<1>14. ASSUME NEW u \in Uid, ListenRejected(u) \/ RemoteEmailChange(u)
       PROVE  RootLink' /\ RootFollowsUser'
  <2>1. UNCHANGED <<prevUid, rootOwner, main, currentUser>>
    BY <1>14 DEF ListenRejected, RemoteEmailChange, authVars, uiVars
  <2> QED
    BY <2>1, <1>0b
<1>15. CASE UNCHANGED vars
  BY <1>15, <1>0b DEF vars, authVars, uiVars
<1> QED
  BY <1>1, <1>2, <1>3, <1>4, <1>5, <1>6, <1>7, <1>8, <1>9, <1>10, <1>11,
     <1>12, <1>13, <1>14, <1>15
     DEF Next, RunMain, Auth, Cloud, Person

-----------------------------------------------------------------------------
(***************************************************************************)
(* Passwords are set only for accounts that were verified.  A sign-in      *)
(* verifies the account it makes current, before its completion is queued; *)
(* whoever replaces that user until the completion runs was verified by    *)
(* another sign-in, because the keychain is read only once.                *)
(***************************************************************************)
CheckedNow == ready /\ (currentUser # NoUser => currentUser.uid \in verified)

PasswordInv == CheckedOK /\ PasswordOnlyVerified

\* CheckedOK, said of the set of waiting blocks.
LEMMA CheckedBlocks ==
    /\ CheckedOK <=> \A b \in Blocks(main) : b.by = "checkPassword" => CheckedNow
    /\ CheckedOK' <=> \A b \in Blocks(main') : b.by = "checkPassword" => CheckedNow'
BY DEF CheckedOK, CheckedNow, Blocks

\* Where the completions of password checks can come from.
LEMMA QueueChecks ==
    ASSUME TypeOK
    PROVE  /\ \A x \in Block : \A b \in Blocks(Append(main, x)) :
                 b.by = x.by \/ b \in Blocks(main)
           /\ \A x, y \in Block : \A b \in Blocks(Append(Append(main, x), y)) :
                 b.by \in {x.by, y.by} \/ b \in Blocks(main)
           /\ main # <<>> => \A b \in Blocks(Tail(main)) : b \in Blocks(main)
           /\ main # <<>> => \A b \in Blocks(Append(Tail(main), Notify)) :
                 b.by = "notify" \/ b \in Blocks(main)
           /\ main # <<>> => Head(main) \in Blocks(main)
           /\ \A screens : \A b \in Blocks(HideInQueue(main, screens)) :
                 \E c \in Blocks(main) : b.by = c.by
           /\ main # <<>> => \A b \in Blocks(HideInQueue(Tail(main), Senders)) :
                 \E c \in Blocks(main) : b.by = c.by
<1>0. main \in Seq(Block)
  BY DEF TypeOK
<1>1. \A q \in Seq(Block) : \A x \in Block :
         Append(q, x) \in Seq(Block) /\ Blocks(Append(q, x)) = Blocks(q) \cup {x}
  BY AppendType, BlocksOf
<1>2. \A q \in Seq(Block) : \A screens : \A b \in Blocks(HideInQueue(q, screens)) :
         \E c \in Blocks(q) : b.by = c.by
  BY BlocksOf
<1>3. ASSUME main # <<>>
      PROVE  /\ Tail(main) \in Seq(Block)
             /\ Blocks(Tail(main)) \cup {Head(main)} = Blocks(main)
  BY <1>0, <1>3, TailType, BlocksOf
<1>4. Notify \in Block /\ Notify.by = "notify"
  BY BlockTypes DEF Notify
<1>5. \A x \in Block : \A b \in Blocks(Append(main, x)) :
         b.by = x.by \/ b \in Blocks(main)
  BY <1>0, <1>1
<1>6. ASSUME NEW x \in Block, NEW y \in Block
      PROVE  \A b \in Blocks(Append(Append(main, x), y)) :
                b.by \in {x.by, y.by} \/ b \in Blocks(main)
  <2>1. Append(main, x) \in Seq(Block)
        /\ Blocks(Append(main, x)) = Blocks(main) \cup {x}
    BY <1>0, <1>1
  <2>2. Blocks(Append(Append(main, x), y)) = Blocks(Append(main, x)) \cup {y}
    BY <1>1, <2>1
  <2> QED
    BY <2>1, <2>2
<1>7. ASSUME main # <<>>
      PROVE  Blocks(Append(Tail(main), Notify)) = Blocks(Tail(main)) \cup {Notify}
  BY <1>1, <1>3, <1>4, <1>7
<1>8. ASSUME main # <<>>
      PROVE  \A b \in Blocks(HideInQueue(Tail(main), Senders)) :
                \E c \in Blocks(main) : b.by = c.by
  <2>1. \A b \in Blocks(HideInQueue(Tail(main), Senders)) :
           \E c \in Blocks(Tail(main)) : b.by = c.by
    BY <1>2, <1>3, <1>8
  <2> QED
    BY <1>3, <1>8, <2>1
<1>9. \A screens : \A b \in Blocks(HideInQueue(main, screens)) :
         \E c \in Blocks(main) : b.by = c.by
  BY <1>0, <1>2
<1> QED
  BY <1>3, <1>4, <1>5, <1>6, <1>7, <1>8, <1>9

\* Old requests to set a password, and old completions of checks.
LEMMA PasswordFrame ==
    ASSUME PasswordInv,
           \A r \in requests' : r.by = "setPassword" =>
              \E q \in requests : q.by = r.by /\ q.uid = r.uid,
           verified \subseteq verified',
           \A b \in Blocks(main') : b.by = "checkPassword" =>
              CheckedNow' \/ \E c \in Blocks(main) : c.by = b.by,
           ready => ready',
           \/ ~ready /\ \A b \in Blocks(main') : b.by # "checkPassword"
           \/ currentUser' = NoUser
           \/ currentUser # NoUser /\ currentUser'.uid = currentUser.uid
           \/ currentUser' # NoUser /\ currentUser'.uid \in verified'
           \/ UNCHANGED currentUser
    PROVE  PasswordInv'
<1>1. PasswordOnlyVerified'
  BY DEF PasswordInv, PasswordOnlyVerified
<1>2. CheckedOK'
  BY CheckedBlocks DEF PasswordInv, CheckedNow
<1> QED
  BY <1>1, <1>2 DEF PasswordInv

\* Every action keeps CheckedOK and PasswordOnlyVerified.
LEMMA PasswordStep ==
    ASSUME TypeOK, CurrentOK, ReadyOK, PasswordInv, [Next]_vars
    PROVE  PasswordInv'
<1>0. requests \in SUBSET Request /\ main \in Seq(Block)
  BY DEF TypeOK
<1>0a. Notify \in Block /\ Notify.by = "notify"
  BY BlockTypes DEF Notify
<1>0b. \A r \in Request : Completion(r) \in Block /\ Completion(r).by = r.by
  BY BlockTypes DEF Completion
<1>0c. ASSUME NEW from \in Senders, currentUser # NoUser,
              Send("setPassword", currentUser, "info", from)
       PROVE  \A r \in requests' \ requests : r.uid = currentUser.uid
  BY <1>0c, SendType, UserFacts DEF UserUpdates
<1>1. CASE Relaunch
  <2>1. \A b \in Blocks(<<Notify>>) : b.by # "checkPassword"
    BY <1>0a DEF Blocks
  <2> QED
    BY <1>1, <2>1, CheckedBlocks DEF Relaunch, PasswordInv, PasswordOnlyVerified
<1>2. CASE StateDidChange
  <2>1. \A r \in requests' : \E q \in requests : q.by = r.by /\ q.uid = r.uid
    BY <1>0, <1>2, HideKeepsCurrent DEF StateDidChange
  <2>2. main # <<>>
    BY <1>2 DEF StateDidChange, Runs
  <2>3. \A b \in Blocks(main') : \E c \in Blocks(main) : c.by = b.by
    BY <1>2, <2>2, QueueChecks DEF StateDidChange
  <2> QED
    BY <1>2, <2>1, <2>3, PasswordFrame DEF StateDidChange, authVars
<1>3. CASE MoveOn \/ SignUpCompletion
  <2>1. main # <<>> /\ main' = Tail(main) /\ UNCHANGED <<authVars, requests>>
    BY <1>3 DEF MoveOn, SignUpCompletion, Runs
  <2> QED
    BY <2>1, QueueChecks, PasswordFrame DEF authVars
<1>4. CASE PasswordChecked
  <2>1. main # <<>> /\ Head(main).by = "checkPassword"
        /\ Head(main).from \in Senders
    BY <1>0, <1>4, TailType DEF PasswordChecked, Runs, Block
  <2>2. UNCHANGED authVars /\ main' = Tail(main)
    BY <1>4 DEF PasswordChecked
  <2>3. CheckedNow
    BY <2>1, QueueChecks, CheckedBlocks DEF PasswordInv
  <2>4. PasswordOnlyVerified'
    <3>1. CASE UNCHANGED requests
      BY <2>2, <3>1 DEF PasswordOnlyVerified, PasswordInv, authVars
    <3>2. CASE /\ currentUser # NoUser
               /\ Send("setPassword", currentUser, "info", Head(main).from)
      <4>1. \A r \in requests' \ requests : r.uid = currentUser.uid
        BY <2>1, <3>2, <1>0c
      <4> QED
        BY <2>2, <2>3, <3>2, <4>1
           DEF PasswordOnlyVerified, PasswordInv, CheckedNow, authVars
    <3> QED
      BY <1>4, <3>1, <3>2 DEF PasswordChecked
  <2>5. CheckedOK'
    BY <2>1, <2>2, QueueChecks, CheckedBlocks
       DEF PasswordInv, CheckedNow, authVars
  <2> QED
    BY <2>4, <2>5 DEF PasswordInv
<1>5. CASE EmailSnapshot \/ LogoutPressed
  <2>1. \A r \in requests' : \E q \in requests : q.by = r.by /\ q.uid = r.uid
    BY <1>0, <1>5, ReplacedType
       DEF EmailSnapshot, LogoutPressed, Logout, UpdateCurrentUser
  <2>2. \A b \in Blocks(main') : b.by = "notify" \/ b \in Blocks(main)
    BY <1>0a, <1>5, QueueChecks
       DEF EmailSnapshot, LogoutPressed, Logout, UpdateCurrentUser, Runs
  <2>3. UNCHANGED <<ready, verified>> /\ currentUser' \in {currentUser, NoUser}
    BY <1>5 DEF EmailSnapshot, LogoutPressed, Logout, UpdateCurrentUser
  <2> QED
    BY <2>1, <2>2, <2>3, PasswordFrame
<1>6. CASE LoadKeychain
  <2>1. \A b \in Blocks(main') : b.by = "notify" \/ b \in Blocks(main)
    BY <1>0a, <1>6, QueueChecks DEF LoadKeychain
  <2>2. \A b \in Blocks(main') : b.by # "checkPassword"
    BY <1>6, <2>1, CheckedBlocks DEF LoadKeychain, PasswordInv, CheckedNow
  <2> QED
    BY <1>6, <2>2, PasswordFrame DEF LoadKeychain
<1>7. ASSUME NEW r \in requests,
             VerifyPassword(r) \/ CreateUser(r) \/ GetAccountInfo(r) \/ Fail(r)
      PROVE  PasswordInv'
  <2>1. /\ [r EXCEPT !.stage = "info"].uid = r.uid
        /\ [r EXCEPT !.stage = "info"].by = r.by
        /\ [r EXCEPT !.stage = "done", !.email = account[r.uid]].uid = r.uid
        /\ [r EXCEPT !.stage = "done", !.email = account[r.uid]].by = r.by
    BY <1>0 DEF Request
  <2>2. \A x \in requests' : \E q \in requests : q.by = x.by /\ q.uid = x.uid
    <3>1. CASE VerifyPassword(r) \/ CreateUser(r)
      BY <2>1, <3>1 DEF VerifyPassword, CreateUser, Answer
    <3>2. CASE GetAccountInfo(r)
      BY <2>1, <3>2 DEF GetAccountInfo, Answer
    <3>3. CASE Fail(r)
      BY <3>3 DEF Fail
    <3> QED
      BY <1>7, <3>1, <3>2, <3>3
  <2>3. UNCHANGED <<authVars, main>>
    BY <1>7 DEF VerifyPassword, CreateUser, GetAccountInfo, Fail, Answer
  <2> QED
    BY <2>2, <2>3, PasswordFrame DEF authVars
<1>8. ASSUME NEW r \in requests, FinishSignIn(r)
      PROVE  PasswordInv'
  <2>1. \A x \in requests' : \E q \in requests : q.by = x.by /\ q.uid = x.uid
    BY <1>0, <1>8, ReplacedType DEF FinishSignIn, UpdateCurrentUser
  <2>2. CheckedNow' /\ currentUser'.uid \in verified'
    BY <1>8 DEF FinishSignIn, UpdateCurrentUser, CheckedNow
  <2>3. PasswordOnlyVerified'
    BY <1>8, <2>1 DEF FinishSignIn, PasswordInv, PasswordOnlyVerified
  <2> QED
    BY <2>2, <2>3, CheckedBlocks DEF PasswordInv
<1>9. ASSUME NEW r \in requests, FinishUserUpdate(r)
      PROVE  PasswordInv'
  <2>1. r.object = "current" =>
           /\ currentUser # NoUser
           /\ [currentUser EXCEPT !.email = r.email].uid = currentUser.uid
    BY <1>0, UserFacts DEF CurrentOK, User
  <2>2. Completion(r).by # "checkPassword"
    BY <1>0, <1>0b, <1>9 DEF FinishUserUpdate, UserUpdates
  <2>3. \A b \in Blocks(main') : b.by = "checkPassword" => b \in Blocks(main)
    BY <1>0, <1>0a, <1>0b, <1>9, <2>2, QueueChecks DEF FinishUserUpdate
  <2> QED
    BY <1>9, <2>1, <2>3, PasswordFrame DEF FinishUserUpdate
<1>10. ASSUME NEW r \in requests, TokenRevoked(r)
       PROVE  PasswordInv'
  <2>1. \A x \in requests' : \E q \in requests : q.by = x.by /\ q.uid = x.uid
    BY <1>0, <1>10, ReplacedType DEF TokenRevoked, UpdateCurrentUser
  <2>2. \A b \in Blocks(main') : b.by = "notify" \/ b \in Blocks(main)
    BY <1>0a, <1>10, QueueChecks DEF TokenRevoked, UpdateCurrentUser
  <2>3. UNCHANGED <<ready, verified>> /\ currentUser' \in {currentUser, NoUser}
    BY <1>10 DEF TokenRevoked, UpdateCurrentUser
  <2> QED
    BY <2>1, <2>2, <2>3, PasswordFrame
<1>11. CASE Navigate
  <2>1. \A x \in requests' : \E q \in requests : q.by = x.by /\ q.uid = x.uid
    BY <1>0, <1>11, HideKeepsCurrent DEF Navigate, Leave
  <2>2. \A b \in Blocks(main') : \E c \in Blocks(main) : c.by = b.by
    BY <1>11, QueueChecks DEF Navigate, Leave
  <2> QED
    BY <1>11, <2>1, <2>2, PasswordFrame DEF Navigate, authVars
<1>12. CASE OpenSettings \/ Reauthenticate
              \/ \E u \in Uid : LoginPressed(u) \/ SignUpPressed(u)
  <2>1. UNCHANGED <<authVars, main>>
    BY <1>12 DEF OpenSettings, Reauthenticate, LoginPressed, SignUpPressed
  <2>2. \A r \in requests' \ requests : r.by # "setPassword"
    BY <1>12 DEF OpenSettings, Reauthenticate, LoginPressed, SignUpPressed, Send
  <2> QED
    BY <2>1, <2>2, PasswordFrame DEF authVars
<1>13. ASSUME NEW u \in Uid, EmitSnapshot(u)
       PROVE  PasswordInv'
  <2>1. PICK n \in 0..account[u] : main' = Append(main, Snapshot(u, n))
    BY <1>13 DEF EmitSnapshot
  <2>2. Snapshot(u, n) \in Block /\ Snapshot(u, n).by = "snapshot"
    BY BlockTypes DEF Snapshot, TypeOK
  <2>3. \A b \in Blocks(main') : b.by = "snapshot" \/ b \in Blocks(main)
    BY <2>1, <2>2, QueueChecks
  <2> QED
    BY <1>13, <2>3, PasswordFrame DEF EmitSnapshot, authVars
<1>14. ASSUME NEW u \in Uid, ListenRejected(u) \/ RemoteEmailChange(u)
       PROVE  PasswordInv'
  <2>1. UNCHANGED <<authVars, requests, main>>
    BY <1>14 DEF ListenRejected, RemoteEmailChange
  <2> QED
    BY <2>1, PasswordFrame DEF authVars
<1>15. CASE UNCHANGED vars
  BY <1>15, PasswordFrame DEF vars, authVars
<1> QED
  BY <1>1, <1>2, <1>3, <1>4, <1>5, <1>6, <1>7, <1>8, <1>9, <1>10, <1>11,
     <1>12, <1>13, <1>14, <1>15
     DEF Next, RunMain, Auth, Cloud, Person

-----------------------------------------------------------------------------
(***************************************************************************)
(* The end of a session is announced.  Whatever signs the user out posts   *)
(* the notification behind everything that waits, a block that is taken    *)
(* from the front is behind none, and no other completion comes between.   *)
(***************************************************************************)
\* Every completion of a sign-in in q has a notification behind it.
Announced(q) ==
    \A i \in 1..Len(q) : q[i].by \in SignIns =>
        \E j \in i + 1..Len(q) : q[j].by = "notify"

\* A notification at the end is behind everything.
LEMMA AnnouncedByNotify ==
    ASSUME NEW q \in Seq(Block)
    PROVE  Announced(Append(q, Notify))
<1> DEFINE p == Append(q, Notify)
           n == Len(q)
<1>1. /\ n \in Nat /\ Len(p) = n + 1 /\ p[n + 1] = Notify
      /\ Notify.by = "notify" /\ Notify.by \notin SignIns
  BY BlockTypes, AppendType DEF Notify, SignIns
<1> HIDE DEF p, n
<1>2. ASSUME NEW i \in 1..Len(p), p[i].by \in SignIns
      PROVE  \E j \in i + 1..Len(p) : p[j].by = "notify"
  <2>1. i # n + 1
    BY <1>1, <1>2
  <2>2. n + 1 \in i + 1..Len(p)
    BY <1>1, <2>1
  <2> QED
    BY <1>1, <2>2
<1>3. Announced(p)
  BY <1>2 DEF Announced
<1> QED
  BY <1>3 DEF p

\* Posting anything else than the completion of a sign-in changes nothing.
LEMMA AnnouncedAppend ==
    ASSUME NEW q \in Seq(Block), NEW b \in Block, b.by \notin SignIns, Announced(q)
    PROVE  Announced(Append(q, b))
<1> DEFINE p == Append(q, b)
           n == Len(q)
<1>1. /\ n \in Nat /\ Len(p) = n + 1 /\ p[n + 1] = b
      /\ \A i \in 1..n : p[i] = q[i]
  BY AppendType
<1>2. \A i \in 1..n : q[i].by \in SignIns =>
         \E j \in i + 1..n : q[j].by = "notify"
  BY DEF Announced
<1> HIDE DEF p, n
<1>3. ASSUME NEW i \in 1..Len(p), p[i].by \in SignIns
      PROVE  \E j \in i + 1..Len(p) : p[j].by = "notify"
  <2>1. i \in 1..n /\ q[i].by \in SignIns
    BY <1>1, <1>3
  <2>2. PICK j \in i + 1..n : q[j].by = "notify"
    BY <1>2, <2>1
  <2>3. j \in 1..n /\ j \in i + 1..Len(p)
    BY <1>1, <2>1, <2>2
  <2> QED
    BY <1>1, <2>2, <2>3
<1>4. Announced(p)
  BY <1>3 DEF Announced
<1> QED
  BY <1>4 DEF p

\* Running the first block takes it from behind nothing.
LEMMA AnnouncedTail ==
    ASSUME NEW q \in Seq(Block), q # <<>>, Announced(q)
    PROVE  Announced(Tail(q))
<1> DEFINE p == Tail(q)
           n == Len(q)
<1>1. /\ n \in Nat /\ Len(p) = n - 1
      /\ \A i \in 1..Len(p) : p[i] = q[i + 1]
  BY TailType
<1>2. \A i \in 1..n : q[i].by \in SignIns =>
         \E j \in i + 1..n : q[j].by = "notify"
  BY DEF Announced
<1> HIDE DEF p, n
<1>3. ASSUME NEW i \in 1..Len(p), p[i].by \in SignIns
      PROVE  \E j \in i + 1..Len(p) : p[j].by = "notify"
  <2>1. i + 1 \in 1..n /\ q[i + 1].by \in SignIns
    BY <1>1, <1>3
  <2>2. PICK k \in (i + 1) + 1..n : q[k].by = "notify"
    BY <1>2, <2>1
  <2>3. k - 1 \in i + 1..Len(p) /\ k - 1 \in 1..Len(p) /\ (k - 1) + 1 = k
    BY <1>1, <2>2
  <2>4. p[k - 1] = q[k]
    BY <1>1, <2>3
  <2> QED
    BY <2>2, <2>3, <2>4
<1>4. Announced(p)
  BY <1>3 DEF Announced
<1> QED
  BY <1>4 DEF p

\* Taking screens out of the window changes the order of nothing.
LEMMA AnnouncedHidden ==
    ASSUME NEW q \in Seq(Block), NEW screens, Announced(q)
    PROVE  Announced(HideInQueue(q, screens))
<1> DEFINE p == HideInQueue(q, screens)
           n == Len(q)
<1>1. n \in Nat /\ Len(p) = n /\ \A i \in 1..n : p[i].by = q[i].by
  BY HideInQueueType
<1>2. \A i \in 1..n : q[i].by \in SignIns =>
         \E j \in i + 1..n : q[j].by = "notify"
  BY DEF Announced
<1> HIDE DEF p, n
<1>3. ASSUME NEW i \in 1..n, p[i].by \in SignIns
      PROVE  \E j \in i + 1..n : p[j].by = "notify"
  <2>1. PICK j \in i + 1..n : q[j].by = "notify"
    BY <1>1, <1>2, <1>3
  <2>2. j \in 1..n
    BY <1>1, <2>1
  <2> QED
    BY <1>1, <2>1, <2>2
<1>4. Announced(p)
  BY <1>1, <1>3 DEF Announced
<1> QED
  BY <1>4 DEF p

\* Every action keeps EndIsAnnounced.
LEMMA EndStep ==
    ASSUME TypeOK, CurrentOK, EndIsAnnounced, [Next]_vars
    PROVE  EndIsAnnounced'
<1>0. requests \in SUBSET Request /\ main \in Seq(Block)
  BY DEF TypeOK
<1>0a. ASSUME Announced(main) => Announced(main'),
              currentUser' = NoUser => currentUser = NoUser
       PROVE  EndIsAnnounced'
  BY <1>0a DEF EndIsAnnounced, Announced
<1>0b. ASSUME Announced(main') PROVE EndIsAnnounced'
  BY <1>0b DEF EndIsAnnounced, Announced
\* Signing out, or failing to, with a queue that keeps the announcements.
<1>0c. ASSUME NEW q \in Seq(Block), Announced(main) => Announced(q), Logout(q)
       PROVE  EndIsAnnounced'
  <2>1. CASE main' = Append(q, Notify)
    BY <2>1, <1>0b, AnnouncedByNotify
  <2>2. CASE main' = q /\ UNCHANGED currentUser
    BY <1>0c, <2>2, <1>0a
  <2> QED
    BY <1>0c, <2>1, <2>2 DEF Logout, UpdateCurrentUser
<1>1. CASE Relaunch
  <2>1. Announced(<<Notify>>)
    BY DEF Announced, Notify, SignIns
  <2> QED
    BY <1>1, <2>1, <1>0b DEF Relaunch
<1>2. CASE StateDidChange
  <2>1. main # <<>> /\ UNCHANGED currentUser
        /\ (main' = Tail(main) \/ main' = HideInQueue(Tail(main), Senders))
    BY <1>2 DEF StateDidChange, Runs, authVars
  <2>2. Tail(main) \in Seq(Block)
    BY <1>0, <2>1, TailType
  <2>3. Announced(main) => Announced(main')
    BY <1>0, <2>1, <2>2, AnnouncedTail, AnnouncedHidden
  <2> QED
    BY <2>1, <2>3, <1>0a
<1>3. CASE MoveOn \/ SignUpCompletion \/ PasswordChecked
  <2>1. main # <<>> /\ UNCHANGED currentUser /\ main' = Tail(main)
    BY <1>3 DEF MoveOn, SignUpCompletion, PasswordChecked, Runs, authVars
  <2>2. Announced(main) => Announced(main')
    BY <1>0, <2>1, AnnouncedTail
  <2> QED
    BY <2>1, <2>2, <1>0a
<1>4. CASE EmailSnapshot
  <2>1. main # <<>>
    BY <1>4 DEF EmailSnapshot, Runs
  <2>2. Tail(main) \in Seq(Block) /\ (Announced(main) => Announced(Tail(main)))
    BY <1>0, <2>1, TailType, AnnouncedTail
  <2>3. CASE main' = Tail(main) /\ UNCHANGED currentUser
    BY <2>2, <2>3, <1>0a
  <2>4. CASE Logout(Tail(main))
    BY <2>2, <2>4, <1>0c
  <2> QED
    BY <1>4, <2>3, <2>4 DEF EmailSnapshot
<1>5. CASE LoadKeychain
  <2>1. CASE main' = Append(main, Notify)
    BY <1>0, <2>1, <1>0b, AnnouncedByNotify
  <2>2. CASE UNCHANGED <<main, currentUser>>
    BY <2>2, <1>0a
  <2> QED
    BY <1>5, <2>1, <2>2 DEF LoadKeychain
<1>6. CASE LogoutPressed
  BY <1>0, <1>6, <1>0c DEF LogoutPressed
<1>7. ASSUME NEW r \in requests,
             VerifyPassword(r) \/ CreateUser(r) \/ GetAccountInfo(r) \/ Fail(r)
      PROVE  EndIsAnnounced'
  <2>1. UNCHANGED <<main, currentUser>>
    BY <1>7 DEF VerifyPassword, CreateUser, GetAccountInfo, Fail, Answer, authVars
  <2> QED
    BY <2>1, <1>0a
<1>8. ASSUME NEW r \in requests, FinishSignIn(r) PROVE EndIsAnnounced'
  <2>1. currentUser' = [uid |-> r.uid, email |-> r.email]
    BY <1>8 DEF FinishSignIn, UpdateCurrentUser
  <2>2. [uid |-> r.uid, email |-> r.email] \in User
    BY <1>0 DEF Request, User
  <2>3. currentUser' # NoUser
    BY <2>1, <2>2, SessionAssumption DEF User
  <2> QED
    BY <2>3 DEF EndIsAnnounced
<1>9. ASSUME NEW r \in requests, FinishUserUpdate(r) PROVE EndIsAnnounced'
  <2>1. currentUser' = NoUser => currentUser = NoUser
    <3>1. r.object = "current" => [currentUser EXCEPT !.email = r.email] # NoUser
      BY <1>0, UserFacts, SessionAssumption DEF CurrentOK, Request, User
    <3> QED
      BY <1>9, <3>1 DEF FinishUserUpdate
  <2>2. /\ Completion(r) \in Block /\ Notify \in Block
        /\ Completion(r).by \notin SignIns /\ Notify.by \notin SignIns
    BY <1>0, <1>9, BlockTypes
       DEF FinishUserUpdate, Completion, Notify, SignIns, UserUpdates
  <2>3. ASSUME NEW q \in Seq(Block), Announced(main) => Announced(q),
               main' \in {q, Append(q, Completion(r))}
        PROVE  EndIsAnnounced'
    <3>1. Announced(main) => Announced(main')
      BY <2>2, <2>3, AnnouncedAppend
    <3> QED
      BY <2>1, <3>1, <1>0a
  <2>4. CASE main' \in {main, Append(main, Completion(r))}
    BY <1>0, <2>3, <2>4
  <2>5. CASE main' \in {Append(main, Notify),
                        Append(Append(main, Notify), Completion(r))}
    <3>1. Append(main, Notify) \in Seq(Block) /\ Announced(Append(main, Notify))
      BY <1>0, <2>2, AppendType, AnnouncedByNotify
    <3> QED
      BY <2>3, <2>5, <3>1
  <2> QED
    BY <1>9, <2>4, <2>5 DEF FinishUserUpdate
<1>10. ASSUME NEW r \in requests, TokenRevoked(r) PROVE EndIsAnnounced'
  <2>1. CASE UNCHANGED <<main, currentUser>>
    BY <2>1, <1>0a
  <2>2. CASE main' = Append(main, Notify)
    BY <1>0, <2>2, <1>0b, AnnouncedByNotify
  <2> QED
    BY <1>10, <2>1, <2>2 DEF TokenRevoked, UpdateCurrentUser
<1>11. CASE Navigate
  <2>1. UNCHANGED currentUser /\ \E closed : main' = HideInQueue(main, closed)
    BY <1>11 DEF Navigate, Leave, authVars
  <2>2. Announced(main) => Announced(main')
    BY <1>0, <2>1, AnnouncedHidden
  <2> QED
    BY <2>1, <2>2, <1>0a
<1>12. CASE OpenSettings \/ Reauthenticate
              \/ \E u \in Uid : LoginPressed(u) \/ SignUpPressed(u)
  <2>1. UNCHANGED <<main, currentUser>>
    BY <1>12 DEF OpenSettings, Reauthenticate, LoginPressed, SignUpPressed, authVars
  <2> QED
    BY <2>1, <1>0a
<1>13. ASSUME NEW u \in Uid, EmitSnapshot(u) PROVE EndIsAnnounced'
  <2>1. PICK n \in 0..account[u] : main' = Append(main, Snapshot(u, n))
    BY <1>13 DEF EmitSnapshot
  <2>2. Snapshot(u, n) \in Block /\ Snapshot(u, n).by \notin SignIns
    BY BlockTypes DEF Snapshot, SignIns, TypeOK
  <2>3. UNCHANGED currentUser
    BY <1>13 DEF EmitSnapshot, authVars
  <2>4. Announced(main) => Announced(main')
    BY <1>0, <2>1, <2>2, AnnouncedAppend
  <2> QED
    BY <2>3, <2>4, <1>0a
<1>14. ASSUME NEW u \in Uid, ListenRejected(u) \/ RemoteEmailChange(u)
       PROVE  EndIsAnnounced'
  <2>1. UNCHANGED <<main, currentUser>>
    BY <1>14 DEF ListenRejected, RemoteEmailChange, authVars
  <2> QED
    BY <2>1, <1>0a
<1>15. CASE UNCHANGED vars
  BY <1>15, <1>0a DEF vars, authVars
<1> QED
  BY <1>1, <1>2, <1>3, <1>4, <1>5, <1>6, <1>7, <1>8, <1>9, <1>10, <1>11,
     <1>12, <1>13, <1>14, <1>15
     DEF Next, RunMain, Auth, Cloud, Person

\* Every action keeps ScreenLink: only a root controller without a session
\* shows the login screens, and nothing goes back to them from the home ones.
LEMMA ScreenStep ==
    ASSUME TypeOK, ScreenLink, [Next]_vars
    PROVE  ScreenLink'
<1> USE DEF ScreenLink, LoginScreens
<1>1. CASE Relaunch
  BY <1>1 DEF Relaunch
<1>2. CASE StateDidChange
  BY <1>2, SessionAssumption DEF StateDidChange
<1>3. CASE MoveOn
  BY <1>3 DEF MoveOn
<1>4. CASE SignUpCompletion \/ PasswordChecked \/ EmailSnapshot
  BY <1>4 DEF SignUpCompletion, PasswordChecked, EmailSnapshot, uiVars
<1>5. CASE Auth
  BY <1>5 DEF Auth, LoadKeychain, VerifyPassword, CreateUser, GetAccountInfo,
              Fail, Answer, FinishSignIn, FinishUserUpdate, TokenRevoked, uiVars
<1>6. CASE Cloud
  BY <1>6 DEF Cloud, EmitSnapshot, ListenRejected, RemoteEmailChange, uiVars
<1>7. CASE Navigate
  BY <1>7 DEF Navigate, Leave
<1>8. CASE OpenSettings
  BY <1>8 DEF OpenSettings
<1>9. CASE Reauthenticate \/ LogoutPressed
             \/ \E u \in Uid : LoginPressed(u) \/ SignUpPressed(u)
  BY <1>9 DEF Reauthenticate, LogoutPressed, LoginPressed, SignUpPressed, uiVars
<1>10. CASE UNCHANGED vars
  BY <1>10 DEF vars, uiVars
<1> QED
  BY <1>1, <1>2, <1>3, <1>4, <1>5, <1>6, <1>7, <1>8, <1>9, <1>10
     DEF Next, RunMain, Person

-----------------------------------------------------------------------------
(***************************************************************************)
(* The theorems.                                                           *)
(***************************************************************************)
\* A launch establishes the inductive invariant.
LEMMA InitOK == Init => IInv
<1> SUFFICES ASSUME Init PROVE IInv
  OBVIOUS
<1>1. TypeOK
  <2>1. <<Notify>> \in Seq(Block)
    BY BlockTypes
  <2>2. \A u \in Uid : [uid |-> u, email |-> 1] \in User
    BY DEF User
  <2>3. account \in [Uid -> Nat] /\ documents \in SUBSET Uid
    <3>1. account \in [Uid -> {0, 1}] /\ documents = {u \in Uid : account[u] = 1}
      BY DEF Init
    <3> QED
      BY <3>1
  <2>4. keychain \in User \cup {NoUser}
    BY <2>2, <2>3 DEF Init
  <2> QED
    BY <2>1, <2>3, <2>4 DEF Init, TypeOK, LoginScreens
<1>2. /\ CurrentOK /\ ReadyOK /\ RootLink
      /\ RequestsNotAhead /\ PasswordOnlyVerified /\ ScreenLink
  BY DEF Init, ScreenLink, CurrentOK, ReadyOK, RootLink, RequestsNotAhead,
         PasswordOnlyVerified
<1>3. main = <<Notify>> /\ Len(main) = 1 /\ main[1].by = "notify"
  BY DEF Init, Notify
<1>4. RootFollowsUser /\ CheckedOK /\ EndIsAnnounced
  BY <1>3 DEF RootFollowsUser, Pending, CheckedOK, EndIsAnnounced, SignIns
<1>5. EmailsNotAhead
  BY DEF Init, EmailsNotAhead
<1> QED
  BY <1>1, <1>2, <1>4, <1>5 DEF IInv

\* Every step keeps it.
LEMMA StepOK == IInv /\ [Next]_vars => IInv'
BY TypeStep, CurrentStep, RootStep, EmailStep, PasswordStep, EndStep, ScreenStep
   DEF IInv, EmailInv, PasswordInv

\* Session's inductive invariant holds in every reachable state.
THEOREM Inductive == Spec => []IInv
<1>1. Init => IInv
  BY InitOK
<1>2. IInv /\ [Next]_vars => IInv'
  BY StepOK
<1> QED
  BY <1>1, <1>2, PTL DEF Spec

\* Every variable keeps the type of what FIRAuth, UIKit and Firestore store
\* there; in particular the answer to a request about the current FIRUser
\* never finds nobody signed in.
THEOREM TypeCorrect == Spec => []TypeOK
<1>1. IInv => TypeOK
  BY DEF IInv
<1> QED
  BY <1>1, Inductive, PTL

\* SceneDelegate's root controller agrees with the session whenever no state
\* notification waits, for any number of accounts and requests.
THEOREM RootCorrect == Spec => []RootFollowsUser
<1>1. IInv => RootFollowsUser
  BY DEF IInv
<1> QED
  BY <1>1, Inductive, PTL

\* Neither the session nor the keychain has an address its account never had,
\* whichever users were replaced while requests about them were under way.
THEOREM EmailsCorrect == Spec => []EmailsNotAhead
<1>1. IInv => EmailsNotAhead
  BY DEF IInv
<1> QED
  BY <1>1, Inductive, PTL

\* PasswordResetViewController sets passwords of verified accounts only.
THEOREM PasswordsCorrect == Spec => []PasswordOnlyVerified
<1>1. IInv => PasswordOnlyVerified
  BY DEF IInv
<1> QED
  BY <1>1, Inductive, PTL

\* A completion of a sign-in finds somebody signed in, or the notification of
\* the session's end is queued behind it, whatever signed the user out.
THEOREM EndsAnnounced == Spec => []EndIsAnnounced
<1>1. IInv => EndIsAnnounced
  BY DEF IInv
<1> QED
  BY <1>1, Inductive, PTL

\* Whoever is signed in sees the home screens once the state notifications
\* have run, whichever login, logout and segue came in between.
THEOREM HomeShown == Spec => []SignedInSeesHome
<1>1. IInv => SignedInSeesHome
  <2> SUFFICES ASSUME IInv, ~Pending, currentUser # NoUser
               PROVE  screen \in HomeScreens
    BY DEF SignedInSeesHome
  <2>1. rootOwner = currentUser.uid /\ currentUser.uid \in Uid
    BY UserFacts DEF IInv, RootFollowsUser, UidOf
  <2>2. screen \notin LoginScreens
    BY <2>1, SessionAssumption DEF IInv, ScreenLink
  <2> QED
    BY <2>2 DEF IInv, TypeOK
<1> QED
  BY <1>1, Inductive, PTL

=============================================================================
