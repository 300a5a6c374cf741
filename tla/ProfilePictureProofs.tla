------------------------- MODULE ProfilePictureProofs -------------------------
(***************************************************************************)
(* Proofs about ProfilePicture: for every set of accounts, every number of *)
(* tasks under way and every number of pictures chosen.                    *)
(***************************************************************************)
EXTENDS ProfilePicture, TLAPS

\* Whoever is signed in, has a settings screen, or is named by a photo URL has
\* chosen a picture, at sign-up at the latest.
SessionOK ==
    /\ user # None => picks[user] > 0
    /\ screen # None => picks[screen] > 0
    /\ cached # None => picks[cached] > 0
    /\ \A u \in Uid : photo[u] # None => picks[photo[u]] > 0

\* What a task is about.  A request of a FIRUser that is current is one of the
\* session; an upload belongs to the account whose object it writes until it
\* asks whose profile to change.
TaskOK(t) ==
    /\ t.uid # None => picks[t.uid] > 0
    /\ t.uid = None => t.stage \in {"start", "fetch"}
    /\ picks[t.url] > 0
    /\ t.current => t.uid = user
    /\ t.shown => screen # None
    /\ t.stage \in {"signedUp", "put", "url"} => t.uid = t.url
    /\ t.stage \in {"signedUp", "put"} => t.pic \in Picture
    /\ t.stage = "signedUp" => t.pic.by = t.uid

TasksOK == \A t \in tasks : TaskOK(t)

\* Whether a download writes u's file or is shown on u's screen.
Targets(t, u) == t.uid = u \/ (t.shown /\ screen = u)

\* An account no session was mixed up for: the URL it has, where the session
\* keeps it, what is uploaded to its object, and what a download is of.
CarriesOwn(t, u) ==
    /\ t.stage = "put" /\ t.url = u => t.pic.by = u
    /\ t.stage = "start" /\ t.uid = u => t.url = u
    /\ t.stage \in Downloading /\ Targets(t, u) => t.url = u
    /\ t.stage \in {"fetched", "show"} /\ Targets(t, u) => IsOwn(t.pic, u)

UrlsOK ==
    \A u \in Uid \ crossed :
        /\ photo[u] \in {None, u}
        /\ user = u => cached \in {None, u}
        /\ \A t \in tasks : CarriesOwn(t, u)

\* An undisturbed account, step by step: the file has the newest picture when
\* the upload begins, Storage when the upload has put it, the profile when the
\* upload is over; and a download finds the newest picture in Storage.
PlacesOK(u) ==
    /\ picks[u] > 0 =>
          /\ About(u, {"signedUp"}) = {} => file[u] = Newest(u)
          /\ About(u, {"signedUp", "put"}) = {} => stored[u] = Newest(u)
          /\ About(u, Uploading) = {} => photo[u] = u
    /\ screen = u => view = Newest(u)

CarriesNewest(t, u) ==
    /\ t.stage \in {"signedUp", "put"} /\ t.url = u => t.pic = Newest(u)
    /\ t.stage = "commit" /\ t.url = u => t.uid = u
    /\ t.stage = "fetch" /\ u \in {t.uid, t.url} =>
          About(u, {"signedUp", "put"}) = {}
    /\ t.stage \in {"fetched", "show"} /\ Targets(t, u) => t.pic = Newest(u)

NewestOK ==
    \A u \in Uid \ (crossed \cup disturbed) :
        PlacesOK(u) /\ \A t \in tasks : CarriesNewest(t, u)

IInv == TypeOK /\ SessionOK /\ TasksOK /\ UrlsOK /\ OwnPictures /\ NewestOK

-----------------------------------------------------------------------------
(***************************************************************************)
(* The steps' common parts.                                                *)
(***************************************************************************)
\* A picture about to be chosen is the account's newest then.
LEMMA ChosenIsNewest ==
    ASSUME TypeOK, NEW u \in Uid, picks[u] < MaxPicks[u],
           picks' = [picks EXCEPT ![u] = @ + 1]
    PROVE  /\ Chosen(u) \in Picture /\ Chosen(u).by = u
           /\ Chosen(u) = Newest(u)'
           /\ picks' \in [Uid -> Nat]
           /\ \A v \in Uid : picks'[v] <= MaxPicks[v] /\ picks'[v] >= picks[v]
           /\ picks'[u] > 0
           /\ \A v \in Uid \ {u} : picks'[v] = picks[v]
<1>1. /\ picks[u] \in Nat /\ picks' \in [Uid -> Nat]
      /\ picks'[u] = picks[u] + 1
      /\ \A v \in Uid \ {u} : picks'[v] = picks[v]
    BY DEF TypeOK
<1>2. MaxPicks[u] \in Nat
    BY PictureAssumption
<1>3. \A v \in Uid : picks'[v] <= MaxPicks[v] /\ picks'[v] >= picks[v]
    BY <1>1, <1>2 DEF TypeOK
<1>4. Chosen(u) \in Picture
    BY <1>1, <1>2 DEF Chosen, Picture
<1> QED BY <1>1, <1>3, <1>4 DEF Chosen, Newest

\* The tasks of a session that is replaced, and of a screen that is closed.
LEMMA ReplacedTasks ==
    ASSUME TypeOK
    PROVE  /\ Replaced \in SUBSET Task
           /\ \A t \in Replaced : ~t.current /\ \E s \in tasks :
                  /\ t.stage = s.stage /\ t.uid = s.uid /\ t.url = s.url
                  /\ t.pic = s.pic /\ t.shown = s.shown
           /\ \A s \in tasks : \E t \in Replaced :
                  t.stage = s.stage /\ t.uid = s.uid /\ t.url = s.url
<1>1. ASSUME NEW s \in tasks
      PROVE  LET t == [s EXCEPT !.current = FALSE]
             IN  /\ t \in Task /\ ~t.current
                 /\ t.stage = s.stage /\ t.uid = s.uid /\ t.url = s.url
                 /\ t.pic = s.pic /\ t.shown = s.shown
    <2>1. s \in Task
        BY DEF TypeOK
    <2> QED BY <2>1 DEF Task
<1> QED BY <1>1 DEF Replaced

LEMMA HiddenTasks ==
    ASSUME TypeOK
    PROVE  /\ Hidden \in SUBSET Task
           /\ \A t \in Hidden : ~t.shown /\ \E s \in tasks :
                  /\ t.stage = s.stage /\ t.uid = s.uid /\ t.url = s.url
                  /\ t.pic = s.pic /\ t.current = s.current
           /\ \A s \in tasks : \E t \in Hidden :
                  t.stage = s.stage /\ t.uid = s.uid /\ t.url = s.url
<1>1. ASSUME NEW s \in tasks
      PROVE  LET t == [s EXCEPT !.shown = FALSE]
             IN  /\ t \in Task /\ ~t.shown
                 /\ t.stage = s.stage /\ t.uid = s.uid /\ t.url = s.url
                 /\ t.pic = s.pic /\ t.current = s.current
    <2>1. s \in Task
        BY DEF TypeOK
    <2> QED BY <2>1 DEF Task
<1> QED BY <1>1 DEF Hidden

\* The task of a sign-up.
LEMMA SignUpTask ==
    ASSUME TypeOK, NEW u \in Uid, SignUp(u)
    PROVE  /\ picks[u] < MaxPicks[u] /\ picks' = [picks EXCEPT ![u] = @ + 1]
           /\ \E n \in Task :
                  /\ tasks' = Replaced \cup {n}
                  /\ n.stage = "signedUp" /\ n.uid = u /\ n.url = u
                  /\ n.pic = Chosen(u) /\ ~n.shown /\ ~n.current
<1>1. picks[u] < MaxPicks[u] /\ picks' = [picks EXCEPT ![u] = @ + 1]
    <2>1. picks[u] = 0 /\ MaxPicks[u] > 0
        BY DEF SignUp
    <2> QED BY <2>1 DEF SignUp, TypeOK
<1>2. PICK s \in Slot :
          tasks' = Replaced \cup
              {[slot |-> s, stage |-> "signedUp", uid |-> u, url |-> u,
                pic |-> Chosen(u), shown |-> FALSE, current |-> FALSE]}
    BY DEF SignUp, FreeSlots
<1> DEFINE n == [slot |-> s, stage |-> "signedUp", uid |-> u, url |-> u,
                 pic |-> Chosen(u), shown |-> FALSE, current |-> FALSE]
<1>3. Chosen(u) \in Picture
    BY <1>1, ChosenIsNewest
<1>4. n \in Task
    BY <1>3 DEF Task, Uploading
<1>5. /\ n.stage = "signedUp" /\ n.uid = u /\ n.url = u
      /\ n.pic = Chosen(u) /\ ~n.shown /\ ~n.current
    OBVIOUS
<1>6. tasks' = Replaced \cup {n}
    BY <1>2
<1> HIDE DEF n
<1> QED BY <1>1, <1>4, <1>5, <1>6

LEMMA OpenTask ==
    ASSUME TypeOK, OpenSettings
    PROVE  \E n \in Task :
               /\ tasks' = tasks \cup {n}
               /\ n.stage = "opened" /\ n.uid = user /\ n.url = user
               /\ n.shown /\ ~n.current
<1>1. PICK s \in Slot :
          tasks' = tasks \cup
              {[slot |-> s, stage |-> "opened", uid |-> user, url |-> user,
                pic |-> None, shown |-> TRUE, current |-> FALSE]}
    BY DEF OpenSettings, FreeSlots
<1> DEFINE n == [slot |-> s, stage |-> "opened", uid |-> user, url |-> user,
                 pic |-> None, shown |-> TRUE, current |-> FALSE]
<1>2. user \in Uid
    BY DEF OpenSettings, TypeOK
<1>3. n \in Task
    BY <1>2 DEF Task, Handling
<1>4. /\ n.stage = "opened" /\ n.uid = user /\ n.url = user
      /\ n.shown /\ ~n.current
    OBVIOUS
<1>5. tasks' = tasks \cup {n}
    BY <1>1
<1> HIDE DEF n
<1> QED BY <1>3, <1>4, <1>5

\* updateProfilePicture: the new task is about whoever is signed in, whose file
\* alone is written, and who is mixed up with the picture's account if that is
\* another.
LEMMA UploadFacts ==
    ASSUME TypeOK, NEW pic \in Picture, NEW others \in SUBSET Task,
           NotUploaded(pic, others) \/ Upload(pic, others)
    PROVE  /\ crossed \subseteq crossed' /\ crossed' \in SUBSET Uid
           /\ disturbed \subseteq disturbed' /\ disturbed' \in SUBSET Uid
           /\ file' \in [Uid -> Picture \cup {None, Junk}]
           /\ \A u \in Uid : file'[u] # file[u] => user = u /\ file'[u] = pic
           /\ \A u \in Uid \ crossed' : user = u => pic.by = u
           /\ \A u \in Uid \ (crossed' \cup disturbed') :
                  /\ pic.by = u <=> user = u
                  /\ user = u =>
                        /\ Among(others, u, Uploading \cup Downloading) = {}
                        /\ file'[u] = pic
           /\ \/ user = None /\ tasks' = others
              \/ user \in Uid /\ \E n \in Task :
                     /\ tasks' = others \cup {n}
                     /\ n.stage = "put" /\ n.uid = user /\ n.url = user
                     /\ n.pic = pic /\ ~n.shown /\ ~n.current
<1>1. pic.by \in Uid
    BY DEF Picture
<1>2. CASE NotUploaded(pic, others)
    BY <1>1, <1>2, PictureAssumption DEF NotUploaded, TypeOK
<1>3. CASE Upload(pic, others)
    <2>1. user \in Uid
        BY <1>3 DEF Upload, TypeOK
    <2>2. PICK s \in Slot :
              tasks' = others \cup
                  {[slot |-> s, stage |-> "put", uid |-> user, url |-> user,
                    pic |-> pic, shown |-> FALSE, current |-> FALSE]}
        BY <1>3 DEF Upload, FreeSlots
    <2>3. \E n \in Task :
              /\ tasks' = others \cup {n}
              /\ n.stage = "put" /\ n.uid = user /\ n.url = user
              /\ n.pic = pic /\ ~n.shown /\ ~n.current
        <3> DEFINE n == [slot |-> s, stage |-> "put", uid |-> user,
                         url |-> user, pic |-> pic, shown |-> FALSE,
                         current |-> FALSE]
        <3>1. n \in Task
            BY <2>1 DEF Task, Uploading
        <3>2. /\ n.stage = "put" /\ n.uid = user /\ n.url = user
              /\ n.pic = pic /\ ~n.shown /\ ~n.current
            OBVIOUS
        <3>3. tasks' = others \cup {n}
            BY <2>2
        <3> HIDE DEF n
        <3> QED BY <3>1, <3>2, <3>3
    <2>4. /\ crossed' = crossed \cup ({user} \ {pic.by})
          /\ crossed \subseteq crossed' /\ crossed' \in SUBSET Uid
        BY <1>3, <2>1 DEF Upload, TypeOK
    <2>5. CASE /\ file' = [file EXCEPT ![user] = pic]
               /\ disturbed' = disturbed \cup ({pic.by} \ {user}) \cup
                     {u \in {user} :
                         Among(others, u, Uploading \cup Downloading) # {}}
        <3>1. /\ file' \in [Uid -> Picture \cup {None, Junk}]
              /\ file'[user] = pic
              /\ \A u \in Uid \ {user} : file'[u] = file[u]
            BY <2>1, <2>5 DEF TypeOK
        <3>2. disturbed \subseteq disturbed' /\ disturbed' \in SUBSET Uid
            BY <1>1, <2>1, <2>5 DEF TypeOK
        <3>3. \A u \in Uid \ (crossed' \cup disturbed') :
                  /\ pic.by = u <=> user = u
                  /\ user = u =>
                        Among(others, u, Uploading \cup Downloading) = {}
            BY <2>4, <2>5
        <3> QED BY <2>1, <2>3, <2>4, <3>1, <3>2, <3>3
    <2>6. CASE file' = file /\ disturbed' = disturbed \cup {pic.by, user}
        <3>1. file' \in [Uid -> Picture \cup {None, Junk}]
            BY <2>6 DEF TypeOK
        <3>2. disturbed \subseteq disturbed' /\ disturbed' \in SUBSET Uid
            BY <1>1, <2>1, <2>6 DEF TypeOK
        <3>3. \A u \in Uid \ (crossed' \cup disturbed') :
                  pic.by # u /\ user # u
            BY <2>6
        <3> QED BY <2>1, <2>3, <2>4, <2>6, <3>1, <3>2, <3>3
    <2> QED BY <1>3, <2>5, <2>6 DEF Upload
<1> QED BY <1>2, <1>3

\* A step that lets one task go on.
Continues(t, s) == tasks' = (tasks \ {t}) \cup {s}

\* How tasks go on.
LEMMA PutTask ==
    ASSUME TypeOK, NEW t \in tasks, PutData(t)
    PROVE  \E s \in Task : /\ Continues(t, s) /\ s.stage = "url"
                           /\ s.uid = t.uid /\ s.url = t.url
                           /\ s.shown = t.shown /\ s.current = t.current
<1> DEFINE w == [t EXCEPT !.stage = "url", !.pic = None]
<1>1. t \in Task
    BY DEF TypeOK
<1>2. w \in Task
    BY <1>1 DEF Task, Uploading
<1>3. /\ w.stage = "url" /\ w.uid = t.uid /\ w.url = t.url
      /\ w.shown = t.shown /\ w.current = t.current
    BY <1>1 DEF Task
<1>4. Continues(t, w)
    BY DEF PutData, Continues
<1> HIDE DEF w
<1> QED BY <1>2, <1>3, <1>4

LEMMA UrlTask ==
    ASSUME TypeOK, NEW t \in tasks, DownloadUrl(t)
    PROVE  \/ user = None /\ tasks' = tasks \ {t}
           \/ user \in Uid /\ \E s \in Task :
                  /\ Continues(t, s) /\ s.stage = "commit" /\ s.uid = user
                  /\ s.url = t.url /\ s.shown = t.shown
<1>1. CASE user = None
    BY <1>1 DEF DownloadUrl
<1>2. CASE user # None
    <2> DEFINE w == [t EXCEPT !.stage = "commit", !.uid = user,
                              !.current = TRUE]
    <2>1. t \in Task /\ user \in Uid
        BY <1>2 DEF TypeOK
    <2>2. w \in Task
        BY <2>1 DEF Task, Uploading
    <2>3. /\ w.stage = "commit" /\ w.uid = user /\ w.url = t.url
          /\ w.shown = t.shown
        BY <2>1 DEF Task
    <2>4. Continues(t, w)
        BY <1>2 DEF DownloadUrl, Continues
    <2> HIDE DEF w
    <2> QED BY <2>1, <2>2, <2>3, <2>4
<1> QED BY <1>1, <1>2

LEMMA SendTask ==
    ASSUME TypeOK, NEW t \in tasks, SendReload(t)
    PROVE  \/ tasks' = tasks \ {t}
           \/ user \in Uid /\ \E s \in Task :
                  /\ Continues(t, s) /\ s.stage = "reload" /\ s.uid = user
                  /\ s.url = user /\ s.shown = t.shown
<1>1. CASE user = None
    BY <1>1 DEF SendReload
<1>2. CASE user # None
    <2> DEFINE w == [t EXCEPT !.stage = "reload", !.uid = user, !.url = user,
                              !.current = TRUE]
    <2>1. t \in Task /\ user \in Uid
        BY <1>2 DEF TypeOK
    <2>2. w \in Task
        BY <2>1 DEF Task
    <2>3. /\ w.stage = "reload" /\ w.uid = user /\ w.url = user
          /\ w.shown = t.shown
        BY <2>1 DEF Task
    <2>4. Continues(t, w)
        BY <1>2 DEF SendReload, Continues
    <2> HIDE DEF w
    <2> QED BY <2>1, <2>2, <2>3, <2>4
<1> QED BY <1>1, <1>2

LEMMA ReloadTask ==
    ASSUME TypeOK, NEW t \in tasks, Reload(t)
    PROVE  \E s \in Task : /\ Continues(t, s) /\ s.stage = "read"
                           /\ s.uid = t.uid /\ s.url = t.url
                           /\ s.shown = t.shown /\ ~s.current
<1> DEFINE w == [t EXCEPT !.stage = "read", !.current = FALSE]
<1>1. t \in Task
    BY DEF TypeOK
<1>2. w \in Task
    BY <1>1 DEF Task
<1>3. /\ w.stage = "read" /\ w.uid = t.uid /\ w.url = t.url
      /\ w.shown = t.shown /\ ~w.current
    BY <1>1 DEF Task
<1>4. Continues(t, w)
    BY DEF Reload, Continues
<1> HIDE DEF w
<1> QED BY <1>2, <1>3, <1>4

LEMMA ReadTask ==
    ASSUME TypeOK, NEW t \in tasks, ReadUrl(t)
    PROVE  \/ tasks' = tasks \ {t}
           \/ cached \in Uid /\ \E s \in Task :
                  /\ Continues(t, s) /\ s.stage = "start" /\ s.uid = user
                  /\ s.url = cached /\ s.shown = t.shown
                  /\ s.current = t.current
<1>1. CASE cached = None
    BY <1>1 DEF ReadUrl
<1>2. CASE cached # None
    <2> DEFINE w == [t EXCEPT !.stage = "start", !.uid = user, !.url = cached]
    <2>1. t \in Task /\ user \in Uid \cup {None} /\ cached \in Uid
        BY <1>2 DEF TypeOK
    <2>2. w \in Task
        BY <2>1 DEF Task, Handling
    <2>3. /\ w.stage = "start" /\ w.uid = user /\ w.url = cached
          /\ w.shown = t.shown /\ w.current = t.current
        BY <2>1 DEF Task
    <2>4. Continues(t, w)
        BY <1>2 DEF ReadUrl, Continues
    <2> HIDE DEF w
    <2> QED BY <2>1, <2>2, <2>3, <2>4
<1> QED BY <1>1, <1>2

LEMMA StartTask ==
    ASSUME TypeOK, NEW t \in tasks, StartDownload(t)
    PROVE  \E s \in Task : /\ Continues(t, s) /\ s.stage = "fetch"
                           /\ s.uid = user /\ s.url = t.url
                           /\ s.shown = t.shown /\ s.current = t.current
<1> DEFINE w == [t EXCEPT !.stage = "fetch", !.uid = user]
<1>1. t \in Task /\ user \in Uid \cup {None}
    BY DEF TypeOK
<1>2. w \in Task
    BY <1>1 DEF Task, Downloading
<1>3. /\ w.stage = "fetch" /\ w.uid = user /\ w.url = t.url
      /\ w.shown = t.shown /\ w.current = t.current
    BY <1>1 DEF Task
<1>4. Continues(t, w)
    BY DEF StartDownload, Continues
<1> HIDE DEF w
<1> QED BY <1>2, <1>3, <1>4

LEMMA FetchTask ==
    ASSUME TypeOK, NEW t \in tasks, Fetch(t)
    PROVE  \E s \in Task :
               /\ Continues(t, s) /\ s.stage = "fetched"
               /\ s.uid = t.uid /\ s.url = t.url
               /\ s.shown = t.shown /\ s.current = t.current
               /\ s.pic \in {stored[t.url], Junk} \ {None}
               /\ disturbed' = disturbed \cup
                      (IF s.pic = Junk THEN {t.uid, t.url} ELSE {})
<1>1. PICK data \in {stored[t.url], Junk} \ {None} :
          /\ tasks' = (tasks \ {t}) \cup
                      {[t EXCEPT !.stage = "fetched", !.pic = data]}
          /\ disturbed' = disturbed \cup
                          (IF data = Junk THEN {t.uid, t.url} ELSE {})
    BY DEF Fetch
<1> DEFINE w == [t EXCEPT !.stage = "fetched", !.pic = data]
<1>2. t \in Task /\ t.url \in Uid
    BY DEF TypeOK, Task
<1>3. data \in Picture \cup {None, Junk}
    BY <1>2 DEF TypeOK
<1>4. w \in Task
    BY <1>2, <1>3 DEF Task, Downloading
<1>5. /\ w.stage = "fetched" /\ w.uid = t.uid /\ w.url = t.url
      /\ w.shown = t.shown /\ w.current = t.current /\ w.pic = data
    BY <1>2 DEF Task
<1>6. Continues(t, w)
    BY <1>1 DEF Continues
<1> HIDE DEF w
<1> QED BY <1>1, <1>4, <1>5, <1>6

LEMMA SaveTask ==
    ASSUME TypeOK, NEW t \in tasks, Save(t)
    PROVE  \E s \in Task : /\ Continues(t, s) /\ s.stage = "show"
                           /\ s.uid = t.uid /\ s.url = t.url /\ s.pic = t.pic
                           /\ s.shown = t.shown /\ s.current = t.current
<1> DEFINE w == [t EXCEPT !.stage = "show"]
<1>1. t \in Task
    BY DEF TypeOK
<1>2. w \in Task
    BY <1>1 DEF Task, Downloading
<1>3. /\ w.stage = "show" /\ w.uid = t.uid /\ w.url = t.url /\ w.pic = t.pic
      /\ w.shown = t.shown /\ w.current = t.current
    BY <1>1 DEF Task
<1>4. Continues(t, w)
    BY DEF Save, Continues
<1> HIDE DEF w
<1> QED BY <1>2, <1>3, <1>4

-----------------------------------------------------------------------------
(***************************************************************************)
(* Types.                                                                  *)
(***************************************************************************)
SessionStep ==
    \/ \E u \in Uid : SignIn(u) \/ SignUp(u)
    \/ SignOut \/ OpenSettings \/ CloseSettings \/ PickPicture \/ Crash

LEMMA TypeInit == Init => TypeOK
<1> SUFFICES ASSUME Init PROVE TypeOK
    OBVIOUS
<1>1. ASSUME NEW u \in Uid PROVE picks[u] <= MaxPicks[u]
    <2>1. MaxPicks[u] \in Nat
        BY PictureAssumption
    <2>2. picks[u] = 0
        BY DEF Init
    <2> QED BY <2>1, <2>2
<1>2. picks \in [Uid -> Nat]
    BY DEF Init
<1>3. /\ photo \in [Uid -> Uid \cup {None}]
      /\ stored \in [Uid -> Picture \cup {None}]
      /\ file \in [Uid -> Picture \cup {None, Junk}]
    BY DEF Init
<1> QED BY <1>1, <1>2, <1>3 DEF Init, TypeOK

LEMMA TypeCrash == TypeOK /\ Crash => TypeOK'
BY DEF Crash, TypeOK

\* A picture chosen on a settings screen, and what is uploaded then.
LEMMA PickFacts ==
    ASSUME TypeOK, PickPicture
    PROVE  \E u \in Uid :
               /\ screen = u /\ screen' = u /\ view' = Chosen(u)
               /\ Chosen(u) \in Picture /\ Chosen(u).by = u
               /\ Chosen(u) = Newest(u)'
               /\ picks' \in [Uid -> Nat]
               /\ \A v \in Uid : picks'[v] <= MaxPicks[v] /\ picks'[v] >= picks[v]
               /\ picks'[u] > 0
               /\ \A v \in Uid \ {u} : picks'[v] = picks[v]
               /\ NotUploaded(Chosen(u), tasks) \/ Upload(Chosen(u), tasks)
<1>1. PICK u \in Uid : screen = u
    BY DEF PickPicture, TypeOK
<1>2. /\ picks[u] < MaxPicks[u] /\ picks' = [picks EXCEPT ![u] = @ + 1]
      /\ screen' = u /\ view' = Chosen(u)
      /\ NotUploaded(Chosen(u), tasks) \/ Upload(Chosen(u), tasks)
    BY <1>1 DEF PickPicture
<1> QED BY <1>1, <1>2, ChosenIsNewest

LEMMA TypeSession == TypeOK /\ SessionStep => TypeOK'
<1> SUFFICES ASSUME TypeOK, SessionStep PROVE TypeOK'
    OBVIOUS
<1>1. ASSUME NEW u \in Uid, SignIn(u) PROVE TypeOK'
    BY <1>1, ReplacedTasks DEF SignIn, TypeOK
<1>2. ASSUME NEW u \in Uid, SignUp(u) PROVE TypeOK'
    <2>1. tasks' \in SUBSET Task
        BY <1>2, SignUpTask, ReplacedTasks
    <2>2. picks' \in [Uid -> Nat] /\ \A v \in Uid : picks'[v] <= MaxPicks[v]
        BY <1>2, SignUpTask, ChosenIsNewest
    <2> QED BY <1>2, <2>1, <2>2 DEF SignUp, TypeOK
<1>3. CASE SignOut
    BY <1>3, ReplacedTasks DEF SignOut, TypeOK
<1>4. CASE OpenSettings
    <2>1. tasks' \in SUBSET Task
        BY <1>4, OpenTask DEF TypeOK
    <2>2. user \in Uid
        BY <1>4 DEF OpenSettings, TypeOK
    <2>3. disturbed' \in SUBSET Uid
        BY <1>4, <2>2 DEF OpenSettings, TypeOK
    <2> QED BY <1>4, <2>1, <2>2, <2>3 DEF OpenSettings, TypeOK
<1>5. CASE CloseSettings
    BY <1>5, HiddenTasks DEF CloseSettings, TypeOK
<1>6. CASE PickPicture
    <2>1. tasks \in SUBSET Task
        BY DEF TypeOK
    <2>2. /\ crossed' \in SUBSET Uid /\ disturbed' \in SUBSET Uid
          /\ file' \in [Uid -> Picture \cup {None, Junk}]
          /\ tasks' \in SUBSET Task
        BY <1>6, <2>1, PickFacts, UploadFacts
    <2>3. picks' \in [Uid -> Nat] /\ \A v \in Uid : picks'[v] <= MaxPicks[v]
        BY <1>6, PickFacts
    <2>4. view' \in Picture
        BY <1>6, PickFacts
    <2> QED BY <1>6, <2>2, <2>3, <2>4 DEF PickPicture, TypeOK
<1>7. CASE Crash
    BY <1>7, TypeCrash
<1> QED BY <1>1, <1>2, <1>3, <1>4, <1>5, <1>6, <1>7 DEF SessionStep

\* What the upload of a sign-up's picture is about.
LEMMA CompletionFacts ==
    ASSUME TypeOK, TasksOK, NEW t \in tasks, SignUpCompletion(t)
    PROVE  /\ t.pic \in Picture /\ t.pic.by = t.uid /\ t.url = t.uid
           /\ t.uid \in Uid /\ (tasks \ {t}) \in SUBSET Task
           /\ \/ NotUploaded(t.pic, tasks \ {t})
              \/ Upload(t.pic, tasks \ {t})
BY DEF SignUpCompletion, TasksOK, TaskOK, TypeOK, Task, Picture

LEMMA TypeAnswers ==
    ASSUME TypeOK, TasksOK, NEW t \in tasks, Answers(t)
    PROVE  TypeOK'
<1>1. /\ t \in Task /\ t.uid \in Uid \cup {None} /\ t.url \in Uid
      /\ t.pic \in Picture \cup {None, Junk}
      /\ t.uid = None => t.stage \in {"start", "fetch"}
    BY DEF TypeOK, Task, TasksOK, TaskOK
<1>2. CASE SignUpCompletion(t)
    <2>1. /\ crossed' \in SUBSET Uid /\ disturbed' \in SUBSET Uid
          /\ file' \in [Uid -> Picture \cup {None, Junk}]
          /\ tasks' \in SUBSET Task
        <3> DEFINE others == tasks \ {t}
        <3>1. /\ t.pic \in Picture /\ others \in SUBSET Task
              /\ NotUploaded(t.pic, others) \/ Upload(t.pic, others)
            BY <1>2, CompletionFacts
        <3> HIDE DEF others
        <3> QED BY <3>1, UploadFacts
    <2> QED BY <1>2, <2>1 DEF SignUpCompletion, TypeOK
<1>3. CASE PutData(t)
    <2>1. t.pic \in Picture
        BY <1>3 DEF PutData, TasksOK, TaskOK
    <2>2. tasks' \in SUBSET Task
        BY <1>3, PutTask DEF Continues, TypeOK
    <2> QED BY <1>1, <1>3, <2>1, <2>2 DEF PutData, TypeOK
<1>4. CASE DownloadUrl(t)
    <2>1. tasks' \in SUBSET Task
        BY <1>4, UrlTask DEF Continues, TypeOK
    <2> QED BY <1>1, <1>4, <2>1 DEF DownloadUrl, TypeOK
<1>5. CASE Commit(t)
    <2>1. t.uid \in Uid
        BY <1>1, <1>5 DEF Commit
    <2> QED BY <1>1, <1>5, <2>1 DEF Commit, TypeOK
<1>6. CASE Fail(t)
    <2>1. t.uid \in Uid
        BY <1>1, <1>6 DEF Fail
    <2> QED BY <1>1, <1>6, <2>1 DEF Fail, TypeOK
<1>7. CASE SendReload(t)
    <2>1. tasks' \in SUBSET Task
        BY <1>7, SendTask DEF Continues, TypeOK
    <2> QED BY <1>7, <2>1 DEF SendReload, TypeOK
<1>8. CASE Reload(t)
    <2>1. t.uid \in Uid
        BY <1>1, <1>8 DEF Reload
    <2>2. tasks' \in SUBSET Task
        BY <1>8, ReloadTask DEF Continues, TypeOK
    <2> QED BY <1>8, <2>1, <2>2 DEF Reload, TypeOK
<1>9. CASE ReadUrl(t)
    <2>1. tasks' \in SUBSET Task
        BY <1>9, ReadTask DEF Continues, TypeOK
    <2> QED BY <1>9, <2>1 DEF ReadUrl, TypeOK
<1>10. CASE StartDownload(t)
    <2>1. tasks' \in SUBSET Task
        BY <1>10, StartTask DEF Continues, TypeOK
    <2>2. crossed' \in SUBSET Uid
        BY <1>10 DEF StartDownload, TypeOK
    <2>3. disturbed' \in SUBSET Uid
        <3>1. \A u \in {user, t.url} :
                  About(u, {"signedUp", "put"}) # {} => u \in Uid
            BY <1>1 DEF About, Among, TypeOK, TasksOK, TaskOK, Task
        <3> QED BY <1>10, <3>1 DEF StartDownload, TypeOK
    <2> QED BY <1>10, <2>1, <2>2, <2>3 DEF StartDownload, TypeOK
<1>11. CASE Fetch(t)
    <2>1. PICK s \in Task :
              /\ Continues(t, s)
              /\ disturbed' = disturbed \cup
                     (IF s.pic = Junk THEN {t.uid, t.url} ELSE {})
        BY <1>11, FetchTask
    <2>2. t.uid \in Uid
        BY <1>1, <1>11 DEF Fetch
    <2> QED BY <1>1, <1>11, <2>1, <2>2 DEF Fetch, Continues, TypeOK
<1>12. CASE Save(t)
    <2>1. t.uid \in Uid
        BY <1>1, <1>12 DEF Save
    <2>2. tasks' \in SUBSET Task
        BY <1>12, SaveTask DEF Continues, TypeOK
    <2>3. file' \in [Uid -> Picture \cup {None, Junk}]
        BY <1>1, <1>12, <2>1 DEF Save, TypeOK
    <2> QED BY <1>12, <2>1, <2>2, <2>3 DEF Save, TypeOK
<1>13. CASE Show(t)
    BY <1>1, <1>13 DEF Show, TypeOK
<1>14. CASE DownloadFails(t)
    BY <1>14, TypeCrash DEF DownloadFails
<1> QED BY <1>2, <1>3, <1>4, <1>5, <1>6, <1>7, <1>8, <1>9, <1>10, <1>11, <1>12,
           <1>13, <1>14 DEF Answers

-----------------------------------------------------------------------------
(***************************************************************************)
(* Sessions and tasks.                                                     *)
(***************************************************************************)
LEMMA TasksSession ==
    ASSUME TypeOK, SessionOK, TasksOK, SessionStep
    PROVE  SessionOK' /\ TasksOK'
<1>1. ASSUME NEW u \in Uid, SignIn(u) PROVE SessionOK' /\ TasksOK'
    <2>1. SessionOK'
        BY <1>1 DEF SignIn, SessionOK
    <2>2. TasksOK'
        BY <1>1, ReplacedTasks DEF SignIn, TasksOK, TaskOK, Picture
    <2> QED BY <2>1, <2>2
<1>2. ASSUME NEW u \in Uid, SignUp(u) PROVE SessionOK' /\ TasksOK'
    <2>1. /\ Chosen(u) \in Picture /\ Chosen(u).by = u /\ picks'[u] > 0
          /\ \A v \in Uid \ {u} : picks'[v] = picks[v]
        BY <1>2, SignUpTask, ChosenIsNewest
    <2>2. PICK n \in Task :
              /\ tasks' = Replaced \cup {n}
              /\ n.stage = "signedUp" /\ n.uid = u /\ n.url = u
              /\ n.pic = Chosen(u) /\ ~n.shown /\ ~n.current
        BY <1>2, SignUpTask
    <2>3. \A v \in Uid : picks[v] > 0 => picks'[v] > 0
        BY <2>1
    <2>4. SessionOK'
        BY <1>2, <2>1, <2>3 DEF SignUp, SessionOK, TypeOK
    <2>5. ASSUME NEW t \in Replaced
          PROVE  /\ t.uid # None => picks'[t.uid] > 0
                 /\ picks'[t.url] > 0
        BY <2>3, ReplacedTasks DEF TasksOK, TaskOK, Task
    <2>6. TasksOK'
        <3>1. \A v \in Uid \cup {None} : v # None => v \in Uid
            OBVIOUS
        <3>2. u # None
            BY PictureAssumption
        <3> QED BY <1>2, <2>1, <2>2, <2>5, <3>2, ReplacedTasks
                DEF SignUp, TasksOK, TaskOK, Picture
    <2> QED BY <2>4, <2>6
<1>3. CASE SignOut
    <2>1. SessionOK'
        BY <1>3 DEF SignOut, SessionOK
    <2>2. TasksOK'
        BY <1>3, ReplacedTasks DEF SignOut, TasksOK, TaskOK, Picture
    <2> QED BY <2>1, <2>2
<1>4. CASE OpenSettings
    <2>1. SessionOK'
        BY <1>4 DEF OpenSettings, SessionOK
    <2>2. PICK n \in Task :
              /\ tasks' = tasks \cup {n}
              /\ n.stage = "opened" /\ n.uid = user /\ n.url = user
              /\ n.shown /\ ~n.current
        BY <1>4, OpenTask
    <2>3. TasksOK'
        BY <1>4, <2>2 DEF OpenSettings, SessionOK, TasksOK, TaskOK, Picture
    <2> QED BY <2>1, <2>3
<1>5. CASE CloseSettings
    <2>1. SessionOK'
        BY <1>5 DEF CloseSettings, SessionOK
    <2>2. TasksOK'
        BY <1>5, HiddenTasks DEF CloseSettings, TasksOK, TaskOK, Picture
    <2> QED BY <2>1, <2>2
<1>6. CASE PickPicture
    <2>1. \A v \in Uid : picks[v] > 0 => picks'[v] > 0
        BY <1>6, PickFacts DEF TypeOK
    <2>2. SessionOK'
        BY <1>6, <2>1 DEF PickPicture, SessionOK, TypeOK
    <2>3. \A t \in tasks : /\ t.uid # None => picks'[t.uid] > 0
                           /\ picks'[t.url] > 0
        BY <2>1 DEF TasksOK, TaskOK, TypeOK, Task
    <2>4. user \in Uid => picks'[user] > 0 /\ user # None
        BY <2>1, PictureAssumption DEF SessionOK
    <2>5. /\ Chosen(screen) \in Picture /\ tasks \in SUBSET Task
          /\ \/ NotUploaded(Chosen(screen), tasks)
             \/ Upload(Chosen(screen), tasks)
        BY <1>6, PickFacts DEF TypeOK
    <2>6. \/ tasks' = tasks
          \/ user \in Uid /\ \E n \in Task :
                 /\ tasks' = tasks \cup {n}
                 /\ n.stage = "put" /\ n.uid = user /\ n.url = user
                 /\ n.pic = Chosen(screen) /\ ~n.shown /\ ~n.current
        BY <2>5, UploadFacts
    <2>7. TasksOK'
        BY <1>6, <2>3, <2>4, <2>5, <2>6 DEF PickPicture, TasksOK, TaskOK, Picture
    <2> QED BY <2>2, <2>7
<1>7. CASE Crash
    BY <1>7 DEF Crash, SessionOK, TasksOK
<1> QED BY <1>1, <1>2, <1>3, <1>4, <1>5, <1>6, <1>7 DEF SessionStep

\* Answers leave user and screen as they are, unless they end the process.
LEMMA SessionAnswers ==
    ASSUME TypeOK, SessionOK, TasksOK, NEW t \in tasks, Answers(t)
    PROVE  SessionOK'
<1>1. /\ t.uid \in Uid \cup {None} /\ t.url \in Uid /\ picks[t.url] > 0
      /\ t.uid = None => t.stage \in {"start", "fetch"}
    BY DEF TypeOK, Task, TasksOK, TaskOK
<1>2. CASE Commit(t)
    BY <1>1, <1>2 DEF Commit, SessionOK, TypeOK
<1>3. CASE Reload(t)
    BY <1>1, <1>3 DEF Reload, SessionOK
<1>4. CASE DownloadFails(t)
    BY <1>4 DEF DownloadFails, Crash, SessionOK
<1>5. CASE SignUpCompletion(t) \/ PutData(t) \/ DownloadUrl(t) \/ Fail(t)
    BY <1>5 DEF SessionOK, SignUpCompletion, PutData, DownloadUrl, Fail
<1>6. CASE SendReload(t) \/ ReadUrl(t) \/ StartDownload(t) \/ Fetch(t)
           \/ Save(t) \/ Show(t)
    BY <1>6 DEF SessionOK, SendReload, ReadUrl, StartDownload, Fetch, Save, Show
<1> QED BY <1>2, <1>3, <1>4, <1>5, <1>6 DEF Answers

\* A task goes on while session, screen and picks are as they were.
LEMMA TasksGoOn ==
    ASSUME TasksOK, NEW t \in tasks, UNCHANGED <<user, screen, picks>>,
           \/ tasks' = tasks \ {t}
           \/ \E s : Continues(t, s) /\ TaskOK(s)
    PROVE  TasksOK'
<1> SUFFICES ASSUME NEW s \in tasks' PROVE TaskOK(s)'
    BY DEF TasksOK
<1>1. TaskOK(s)
    BY DEF TasksOK, Continues
<1> QED BY <1>1 DEF TaskOK, Picture

LEMMA TasksAnswers ==
    ASSUME TypeOK, SessionOK, TasksOK, NEW t \in tasks, Answers(t)
    PROVE  TasksOK'
<1>1. /\ t.url \in Uid /\ TaskOK(t)
      /\ t.current => t.uid = user
    BY DEF TypeOK, Task, TasksOK, TaskOK
<1>2. /\ user \in Uid => user # None
      /\ user # None => picks[user] > 0
      /\ cached \in Uid => picks[cached] > 0
    BY PictureAssumption DEF SessionOK
<1>3. CASE SignUpCompletion(t)
    <2> DEFINE others == tasks \ {t}
    <2>1. /\ t.pic \in Picture /\ others \in SUBSET Task
          /\ NotUploaded(t.pic, others) \/ Upload(t.pic, others)
        BY <1>3, CompletionFacts
    <2>2. \/ tasks' = others
          \/ user \in Uid /\ \E n \in Task :
                 /\ tasks' = others \cup {n}
                 /\ n.stage = "put" /\ n.uid = user /\ n.url = user
                 /\ n.pic = t.pic /\ ~n.shown /\ ~n.current
        <3> HIDE DEF others
        <3> QED BY <2>1, UploadFacts
    <2>3. \/ tasks' = tasks \ {t}
          \/ \E n : Continues(t, n) /\ TaskOK(n)
        BY <1>2, <2>1, <2>2 DEF Continues, TaskOK
    <2> QED BY <1>3, <2>3, TasksGoOn DEF SignUpCompletion
<1>4. CASE PutData(t)
    <2>1. PICK s \in Task : /\ Continues(t, s) /\ s.stage = "url"
                            /\ s.uid = t.uid /\ s.url = t.url
                            /\ s.shown = t.shown /\ s.current = t.current
        BY <1>4, PutTask
    <2>2. TaskOK(s)
        BY <1>1, <1>4, <2>1 DEF PutData, TaskOK
    <2> QED BY <1>4, <2>1, <2>2, TasksGoOn DEF PutData
<1>5. CASE DownloadUrl(t)
    <2>1. \/ tasks' = tasks \ {t}
          \/ user \in Uid /\ \E s \in Task :
                 /\ Continues(t, s) /\ s.stage = "commit" /\ s.uid = user
                 /\ s.url = t.url /\ s.shown = t.shown
        BY <1>5, UrlTask
    <2>2. \/ tasks' = tasks \ {t}
          \/ \E s : Continues(t, s) /\ TaskOK(s)
        BY <1>1, <1>2, <2>1 DEF TaskOK
    <2> QED BY <1>5, <2>2, TasksGoOn DEF DownloadUrl
<1>6. CASE Commit(t)
    BY <1>6, TasksGoOn DEF Commit
<1>7. CASE Fail(t)
    BY <1>7, TasksGoOn DEF Fail
<1>8. CASE SendReload(t)
    <2>1. \/ tasks' = tasks \ {t}
          \/ \E s : Continues(t, s) /\ TaskOK(s)
        BY <1>1, <1>2, <1>8, SendTask DEF TaskOK
    <2> QED BY <1>8, <2>1, TasksGoOn DEF SendReload
<1>9. CASE Reload(t)
    <2>1. PICK s \in Task : /\ Continues(t, s) /\ s.stage = "read"
                            /\ s.uid = t.uid /\ s.url = t.url
                            /\ s.shown = t.shown /\ ~s.current
        BY <1>9, ReloadTask
    <2>2. TaskOK(s)
        BY <1>1, <1>9, <2>1 DEF Reload, TaskOK
    <2> QED BY <1>9, <2>1, <2>2, TasksGoOn DEF Reload
<1>10. CASE ReadUrl(t)
    <2>1. ~t.current \/ t.uid = user
        BY <1>1
    <2>2. \/ tasks' = tasks \ {t}
          \/ \E s : Continues(t, s) /\ TaskOK(s)
        BY <1>1, <1>2, <1>10, <2>1, ReadTask DEF TaskOK
    <2> QED BY <1>10, <2>2, TasksGoOn DEF ReadUrl
<1>11. CASE StartDownload(t)
    <2>1. PICK s \in Task : /\ Continues(t, s) /\ s.stage = "fetch"
                            /\ s.uid = user /\ s.url = t.url
                            /\ s.shown = t.shown /\ s.current = t.current
        BY <1>11, StartTask
    <2>2. TaskOK(s)
        BY <1>1, <1>2, <2>1 DEF TaskOK
    <2> QED BY <1>11, <2>1, <2>2, TasksGoOn DEF StartDownload
<1>12. CASE Fetch(t)
    <2>1. PICK s \in Task : /\ Continues(t, s) /\ s.stage = "fetched"
                            /\ s.uid = t.uid /\ s.url = t.url
                            /\ s.shown = t.shown /\ s.current = t.current
        BY <1>12, FetchTask
    <2>2. TaskOK(s)
        BY <1>1, <1>12, <2>1 DEF Fetch, TaskOK
    <2> QED BY <1>12, <2>1, <2>2, TasksGoOn DEF Fetch
<1>13. CASE Save(t)
    <2>1. PICK s \in Task : /\ Continues(t, s) /\ s.stage = "show"
                            /\ s.uid = t.uid /\ s.url = t.url
                            /\ s.shown = t.shown /\ s.current = t.current
        BY <1>13, SaveTask
    <2>2. TaskOK(s)
        BY <1>1, <1>13, <2>1 DEF Save, TaskOK
    <2> QED BY <1>13, <2>1, <2>2, TasksGoOn DEF Save
<1>14. CASE Show(t)
    BY <1>14, TasksGoOn DEF Show
<1>15. CASE DownloadFails(t)
    BY <1>15 DEF DownloadFails, Crash, TasksOK
<1> QED BY <1>3, <1>4, <1>5, <1>6, <1>7, <1>8, <1>9, <1>10, <1>11, <1>12,
           <1>13, <1>14, <1>15 DEF Answers

-----------------------------------------------------------------------------
(***************************************************************************)
(* Pictures stay with their accounts.                                      *)
(***************************************************************************)
\* The tasks are the same, but for the FIRUser and the screen they belong to.
Alike ==
    /\ \A t \in tasks' : \E s \in tasks :
          /\ t.stage = s.stage /\ t.uid = s.uid /\ t.url = s.url
          /\ t.pic = s.pic
          /\ t.shown => s.shown /\ screen' = screen
    /\ \A s \in tasks : \E t \in tasks' :
          t.stage = s.stage /\ t.uid = s.uid /\ t.url = s.url

LEMMA AlikeSteps ==
    ASSUME TypeOK, SignOut \/ CloseSettings \/ \E u \in Uid : SignIn(u)
    PROVE  Alike
<1>1. CASE SignOut \/ \E u \in Uid : SignIn(u)
    BY <1>1, ReplacedTasks DEF SignOut, SignIn, Alike
<1>2. CASE CloseSettings
    BY <1>2, HiddenTasks DEF CloseSettings, Alike
<1> QED BY <1>1, <1>2

LEMMA UrlsSession ==
    ASSUME TypeOK, SessionOK, TasksOK, UrlsOK, SessionStep
    PROVE  UrlsOK'
<1>1. CASE SignOut \/ CloseSettings \/ \E u \in Uid : SignIn(u)
    <2> SUFFICES ASSUME NEW u \in Uid \ crossed'
                 PROVE  /\ photo'[u] \in {None, u}
                        /\ user' = u => cached' \in {None, u}
                        /\ \A t \in tasks' : CarriesOwn(t, u)'
        BY DEF UrlsOK
    <2>1. crossed' = crossed /\ photo' = photo
        BY <1>1 DEF SignOut, CloseSettings, SignIn
    <2>2. user' = u => cached' \in {None, u}
        BY <1>1, <2>1 DEF SignOut, CloseSettings, SignIn, UrlsOK
    <2>3. ASSUME NEW t \in tasks' PROVE CarriesOwn(t, u)'
        <3>1. PICK s \in tasks :
                  /\ t.stage = s.stage /\ t.uid = s.uid /\ t.url = s.url
                  /\ t.pic = s.pic
                  /\ t.shown => s.shown /\ screen' = screen
            BY <1>1, AlikeSteps DEF Alike
        <3>2. CarriesOwn(s, u)
            BY <2>1 DEF UrlsOK
        <3> QED BY <3>1, <3>2 DEF CarriesOwn, Targets, IsOwn
    <2> QED BY <2>1, <2>2, <2>3 DEF UrlsOK
<1>2. ASSUME NEW u \in Uid, SignUp(u) PROVE UrlsOK'
    <2>1. PICK n \in Task : tasks' = Replaced \cup {n} /\ n.stage = "signedUp"
        BY <1>2, SignUpTask
    <2>2. /\ crossed' = crossed /\ photo' = photo /\ cached' = None
          /\ screen' = screen
        BY <1>2 DEF SignUp
    <2> SUFFICES ASSUME NEW v \in Uid \ crossed, NEW t \in tasks'
                 PROVE  CarriesOwn(t, v)'
        BY <2>2 DEF UrlsOK
    <2>3. CASE t = n
        BY <2>1, <2>3 DEF CarriesOwn, Downloading
    <2>4. CASE t \in Replaced
        <3>1. PICK s \in tasks :
                  /\ t.stage = s.stage /\ t.uid = s.uid /\ t.url = s.url
                  /\ t.pic = s.pic /\ t.shown = s.shown
            BY <2>4, ReplacedTasks
        <3>2. CarriesOwn(s, v)
            BY DEF UrlsOK
        <3> QED BY <2>2, <3>1, <3>2 DEF CarriesOwn, Targets, IsOwn
    <2> QED BY <2>1, <2>3, <2>4
<1>3. CASE OpenSettings
    <2>1. PICK n \in Task : tasks' = tasks \cup {n} /\ n.stage = "opened"
        BY <1>3, OpenTask
    <2>2. /\ crossed' = crossed /\ photo' = photo /\ cached' = cached
          /\ user' = user /\ screen = None
        BY <1>3 DEF OpenSettings
    <2> SUFFICES ASSUME NEW v \in Uid \ crossed, NEW t \in tasks'
                 PROVE  CarriesOwn(t, v)'
        BY <2>2 DEF UrlsOK
    <2>3. CASE t = n
        BY <2>1, <2>3 DEF CarriesOwn, Downloading
    <2>4. CASE t \in tasks
        <3>1. CarriesOwn(t, v) /\ ~t.shown
            BY <2>2, <2>4 DEF UrlsOK, TasksOK, TaskOK
        <3> QED BY <3>1 DEF CarriesOwn, Targets, IsOwn
    <2> QED BY <2>1, <2>3, <2>4
<1>4. CASE PickPicture
    <2>1. PICK w \in Uid :
              /\ screen = w /\ screen' = w
              /\ Chosen(w) \in Picture /\ Chosen(w).by = w
              /\ NotUploaded(Chosen(w), tasks) \/ Upload(Chosen(w), tasks)
        BY <1>4, PickFacts
    <2>2. tasks \in SUBSET Task
        BY DEF TypeOK
    <2>3. /\ crossed \subseteq crossed'
          /\ \A u \in Uid \ crossed' : user = u => w = u
          /\ \/ tasks' = tasks
             \/ \E n \in Task : /\ tasks' = tasks \cup {n}
                                /\ n.stage = "put" /\ n.uid = user
                                /\ n.url = user /\ n.pic = Chosen(w)
        BY <2>1, <2>2, UploadFacts
    <2>4. photo' = photo /\ cached' = cached /\ user' = user
        BY <1>4 DEF PickPicture
    <2> SUFFICES ASSUME NEW v \in Uid \ crossed', NEW t \in tasks'
                 PROVE  CarriesOwn(t, v)'
        BY <2>3, <2>4 DEF UrlsOK
    <2>5. CASE t \in tasks
        <3>1. CarriesOwn(t, v)
            BY <2>3, <2>5 DEF UrlsOK
        <3> QED BY <2>1, <3>1 DEF CarriesOwn, Targets, IsOwn
    <2>6. CASE t.stage = "put" /\ t.url = user /\ t.pic = Chosen(w)
        BY <2>1, <2>3, <2>6 DEF CarriesOwn, Downloading
    <2> QED BY <2>3, <2>5, <2>6
<1>5. CASE Crash
    BY <1>5 DEF Crash, UrlsOK
<1> QED BY <1>1, <1>2, <1>3, <1>4, <1>5 DEF SessionStep

\* A task goes on while the screen is as it was.
LEMMA UrlsGoOn ==
    ASSUME UrlsOK, NEW t \in tasks, screen' = screen,
           crossed \subseteq crossed',
           \A u \in Uid \ crossed' :
               /\ photo'[u] \in {None, u}
               /\ user' = u => cached' \in {None, u},
           \/ tasks' = tasks \ {t}
           \/ \E s : /\ Continues(t, s)
                     /\ \A u \in Uid \ crossed' : CarriesOwn(s, u)
    PROVE  UrlsOK'
<1> SUFFICES ASSUME NEW u \in Uid \ crossed', NEW s \in tasks'
             PROVE  CarriesOwn(s, u)'
    BY DEF UrlsOK
<1>1. CarriesOwn(s, u)
    BY DEF UrlsOK, Continues
<1> QED BY <1>1 DEF CarriesOwn, Targets, IsOwn

LEMMA UrlsAnswers ==
    ASSUME TypeOK, TasksOK, UrlsOK, OwnPictures, NEW t \in tasks, Answers(t)
    PROVE  UrlsOK'
<1>1. /\ t.uid \in Uid \cup {None} /\ t.url \in Uid
      /\ t.current => t.uid = user
      /\ t.uid = None => t.stage \in {"start", "fetch"}
      /\ t.shown => screen # None
    BY DEF TypeOK, Task, TasksOK, TaskOK
<1>2. ASSUME NEW u \in Uid \ crossed
      PROVE  /\ photo[u] \in {None, u}
             /\ user = u => cached \in {None, u}
             /\ CarriesOwn(t, u)
    BY DEF UrlsOK
<1>3. CASE SignUpCompletion(t)
    <2> DEFINE others == tasks \ {t}
    <2>1. /\ t.pic \in Picture /\ t.pic.by = t.uid /\ others \in SUBSET Task
          /\ NotUploaded(t.pic, others) \/ Upload(t.pic, others)
        BY <1>3, CompletionFacts
    <2>2. /\ crossed \subseteq crossed'
          /\ \A u \in Uid \ crossed' : user = u => t.pic.by = u
          /\ \/ tasks' = others
             \/ \E n \in Task : /\ tasks' = others \cup {n}
                                /\ n.stage = "put" /\ n.url = user
                                /\ n.pic = t.pic
        <3> HIDE DEF others
        <3> QED BY <2>1, UploadFacts
    <2>3. \/ tasks' = tasks \ {t}
          \/ \E n : /\ Continues(t, n)
                    /\ \A u \in Uid \ crossed' : CarriesOwn(n, u)
        BY <2>2 DEF Continues, CarriesOwn, Downloading
    <2>4. photo' = photo /\ cached' = cached /\ user' = user /\ screen' = screen
        BY <1>3 DEF SignUpCompletion
    <2> QED BY <1>2, <2>2, <2>3, <2>4, UrlsGoOn
<1>4. CASE PutData(t)
    <2>1. PICK s \in Task : Continues(t, s) /\ s.stage = "url"
        BY <1>4, PutTask
    <2>2. \A u \in Uid : CarriesOwn(s, u)
        BY <2>1 DEF CarriesOwn, Downloading
    <2> QED BY <1>2, <1>4, <2>1, <2>2, UrlsGoOn DEF PutData
<1>5. CASE DownloadUrl(t)
    <2>1. \/ tasks' = tasks \ {t}
          \/ \E s : /\ Continues(t, s)
                    /\ \A u \in Uid \ crossed' : CarriesOwn(s, u)
        BY <1>5, UrlTask DEF CarriesOwn, Downloading
    <2> QED BY <1>2, <1>5, <2>1, UrlsGoOn DEF DownloadUrl
<1>6. CASE Commit(t)
    <2>1. /\ crossed \subseteq crossed'
          /\ \A u \in Uid \ crossed' : u = t.uid => t.url = u
        BY <1>6 DEF Commit
    <2>2. t.uid \in Uid
        BY <1>1, <1>6 DEF Commit
    <2>3. ASSUME NEW u \in Uid \ crossed'
          PROVE  /\ photo'[u] \in {None, u}
                 /\ user' = u => cached' \in {None, u}
        BY <1>1, <1>2, <1>6, <2>1, <2>2 DEF Commit, TypeOK
    <2> QED BY <1>6, <2>1, <2>3, UrlsGoOn DEF Commit
<1>7. CASE Fail(t)
    BY <1>2, <1>7, UrlsGoOn DEF Fail
<1>8. CASE SendReload(t)
    <2>1. \/ tasks' = tasks \ {t}
          \/ \E s : /\ Continues(t, s)
                    /\ \A u \in Uid \ crossed' : CarriesOwn(s, u)
        BY <1>8, SendTask DEF CarriesOwn, Downloading
    <2> QED BY <1>2, <1>8, <2>1, UrlsGoOn DEF SendReload
<1>9. CASE Reload(t)
    <2>1. PICK s \in Task : Continues(t, s) /\ s.stage = "read"
        BY <1>9, ReloadTask
    <2>2. \A u \in Uid : CarriesOwn(s, u)
        BY <2>1 DEF CarriesOwn, Downloading
    <2>3. ASSUME NEW u \in Uid \ crossed
          PROVE  user' = u => cached' \in {None, u}
        BY <1>1, <1>2, <1>9 DEF Reload
    <2> QED BY <1>2, <1>9, <2>1, <2>2, <2>3, UrlsGoOn DEF Reload
<1>10. CASE ReadUrl(t)
    <2>1. cached \in Uid => cached # None
        BY PictureAssumption
    <2>2. \A u \in Uid \ crossed : user = u => cached \in {None, u}
        BY <1>2
    <2>3. \/ tasks' = tasks \ {t}
          \/ \E s : /\ Continues(t, s)
                    /\ \A u \in Uid \ crossed : CarriesOwn(s, u)
        BY <1>10, <2>1, <2>2, ReadTask DEF CarriesOwn, Downloading
    <2> QED BY <1>2, <1>10, <2>3, UrlsGoOn DEF ReadUrl
<1>11. CASE StartDownload(t)
    <2>1. PICK s \in Task : /\ Continues(t, s) /\ s.stage = "fetch"
                            /\ s.uid = user /\ s.url = t.url
                            /\ s.shown = t.shown
        BY <1>11, StartTask
    <2>2. crossed \subseteq crossed' /\ t.stage = "start"
        BY <1>11 DEF StartDownload
    <2>3. ASSUME NEW u \in Uid \ crossed' PROVE CarriesOwn(s, u)
        <3>1. Targets(s, u) => t.uid = u
            BY <1>11, <2>1, PictureAssumption DEF StartDownload, Targets
        <3>2. t.uid = u => t.url = u
            BY <1>2, <2>2 DEF CarriesOwn
        <3> QED BY <2>1, <3>1, <3>2 DEF CarriesOwn
    <2> QED BY <1>2, <1>11, <2>1, <2>2, <2>3, UrlsGoOn DEF StartDownload
<1>12. CASE Fetch(t)
    <2>1. PICK s \in Task : /\ Continues(t, s) /\ s.stage = "fetched"
                            /\ s.uid = t.uid /\ s.url = t.url
                            /\ s.shown = t.shown
                            /\ s.pic \in {stored[t.url], Junk} \ {None}
        BY <1>12, FetchTask
    <2>2. crossed' = crossed /\ t.stage = "fetch"
        BY <1>12 DEF Fetch
    <2>3. ASSUME NEW u \in Uid \ crossed' PROVE CarriesOwn(s, u)
        <3>1. Targets(s, u) => t.url = u
            BY <1>2, <2>1, <2>2 DEF CarriesOwn, Targets, Downloading
        <3>2. IsOwn(stored[u], u)
            BY <2>2 DEF OwnPictures
        <3>3. Targets(s, u) => IsOwn(s.pic, u)
            BY <2>1, <3>1, <3>2 DEF IsOwn
        <3> QED BY <2>1, <3>1, <3>3 DEF CarriesOwn
    <2> QED BY <1>2, <1>12, <2>1, <2>2, <2>3, UrlsGoOn DEF Fetch
<1>13. CASE Save(t)
    <2>1. PICK s \in Task : /\ Continues(t, s) /\ s.stage = "show"
                            /\ s.uid = t.uid /\ s.url = t.url
                            /\ s.shown = t.shown /\ s.pic = t.pic
        BY <1>13, SaveTask
    <2>2. ASSUME NEW u \in Uid \ crossed PROVE CarriesOwn(s, u)
        BY <1>2, <1>13, <2>1 DEF Save, CarriesOwn, Targets, Downloading, IsOwn
    <2> QED BY <1>2, <1>13, <2>1, <2>2, UrlsGoOn DEF Save
<1>14. CASE Show(t)
    BY <1>2, <1>14, UrlsGoOn DEF Show
<1>15. CASE DownloadFails(t)
    BY <1>15 DEF DownloadFails, Crash, UrlsOK
<1> QED BY <1>3, <1>4, <1>5, <1>6, <1>7, <1>8, <1>9, <1>10, <1>11, <1>12,
           <1>13, <1>14, <1>15 DEF Answers

\* Showing nothing, the local file, or the picture just chosen, is safe.
LEMMA OwnSession ==
    ASSUME TypeOK, SessionOK, OwnPictures, SessionStep
    PROVE  OwnPictures'
<1>1. CASE SignOut \/ CloseSettings \/ \E u \in Uid : SignIn(u) \/ SignUp(u)
    BY <1>1 DEF SignOut, CloseSettings, SignIn, SignUp, OwnPictures, IsOwn
<1>2. CASE OpenSettings
    BY <1>2 DEF OpenSettings, OwnPictures, IsOwn
<1>3. CASE PickPicture
    <2>1. PICK w \in Uid :
              /\ screen' = w /\ view' = Chosen(w)
              /\ Chosen(w) \in Picture /\ Chosen(w).by = w
              /\ NotUploaded(Chosen(w), tasks) \/ Upload(Chosen(w), tasks)
        BY <1>3, PickFacts
    <2>2. tasks \in SUBSET Task
        BY DEF TypeOK
    <2>3. /\ crossed \subseteq crossed'
          /\ \A u \in Uid : file'[u] # file[u] => user = u /\ file'[u] = Chosen(w)
          /\ \A u \in Uid \ crossed' : user = u => w = u
        BY <2>1, <2>2, UploadFacts
    <2>4. stored' = stored
        BY <1>3 DEF PickPicture
    <2>5. ASSUME NEW u \in Uid \ crossed'
          PROVE  /\ IsOwn(stored[u], u) /\ IsOwn(file'[u], u)
                 /\ screen' = u => IsOwn(view', u)
        BY <2>1, <2>3 DEF OwnPictures, IsOwn
    <2> QED BY <2>4, <2>5 DEF OwnPictures, IsOwn
<1>4. CASE Crash
    BY <1>4 DEF Crash, OwnPictures, IsOwn
<1> QED BY <1>1, <1>2, <1>3, <1>4 DEF SessionStep

LEMMA OwnAnswers ==
    ASSUME TypeOK, TasksOK, UrlsOK, OwnPictures, NEW t \in tasks, Answers(t)
    PROVE  OwnPictures'
<1>1. /\ t.uid \in Uid \cup {None} /\ t.url \in Uid
      /\ t.uid = None => t.stage \in {"start", "fetch"}
    BY DEF TypeOK, Task, TasksOK, TaskOK
<1>2. \A u \in Uid \ crossed : CarriesOwn(t, u)
    BY DEF UrlsOK
<1>3. CASE SignUpCompletion(t)
    <2> DEFINE others == tasks \ {t}
    <2>1. /\ t.pic \in Picture /\ others \in SUBSET Task
          /\ NotUploaded(t.pic, others) \/ Upload(t.pic, others)
        BY <1>3, CompletionFacts
    <2>2. /\ crossed \subseteq crossed'
          /\ \A u \in Uid : file'[u] # file[u] => user = u /\ file'[u] = t.pic
          /\ \A u \in Uid \ crossed' : user = u => t.pic.by = u
        <3> HIDE DEF others
        <3> QED BY <2>1, UploadFacts
    <2>3. stored' = stored /\ view' = view /\ screen' = screen
        BY <1>3 DEF SignUpCompletion
    <2>4. ASSUME NEW u \in Uid \ crossed' PROVE IsOwn(file'[u], u)
        BY <2>2 DEF OwnPictures, IsOwn
    <2> QED BY <2>2, <2>3, <2>4 DEF OwnPictures, IsOwn
<1>4. CASE PutData(t)
    <2>1. ASSUME NEW u \in Uid \ crossed PROVE IsOwn(stored'[u], u)
        BY <1>1, <1>2, <1>4 DEF PutData, OwnPictures, IsOwn, TypeOK, CarriesOwn
    <2> QED BY <1>4, <2>1 DEF PutData, OwnPictures, IsOwn
<1>5. CASE Commit(t) \/ StartDownload(t)
    <2>1. /\ crossed \subseteq crossed'
          /\ UNCHANGED <<stored, file, view, screen>>
        BY <1>5 DEF Commit, StartDownload
    <2> QED BY <2>1 DEF OwnPictures, IsOwn
<1>6. CASE DownloadUrl(t) \/ Fail(t) \/ SendReload(t) \/ Reload(t)
           \/ ReadUrl(t) \/ Fetch(t)
    <2>1. UNCHANGED <<crossed, stored, file, view, screen>>
        BY <1>6 DEF DownloadUrl, Fail, SendReload, Reload, ReadUrl, Fetch
    <2> QED BY <2>1 DEF OwnPictures, IsOwn
<1>7. CASE Save(t)
    <2>1. t.uid \in Uid \ crossed => IsOwn(t.pic, t.uid)
        BY <1>2, <1>7 DEF Save, CarriesOwn, Targets
    <2>2. ASSUME NEW u \in Uid \ crossed PROVE IsOwn(file'[u], u)
        BY <1>1, <1>7, <2>1 DEF Save, OwnPictures, IsOwn, TypeOK
    <2> QED BY <1>7, <2>2 DEF Save, OwnPictures, IsOwn
<1>8. CASE Show(t)
    <2>1. ASSUME NEW u \in Uid \ crossed, screen = u PROVE IsOwn(view', u)
        BY <1>2, <1>8, <2>1 DEF Show, OwnPictures, CarriesOwn, Targets, IsOwn
    <2> QED BY <1>8, <2>1 DEF Show, OwnPictures, IsOwn
<1>9. CASE DownloadFails(t)
    BY <1>9 DEF DownloadFails, Crash, OwnPictures, IsOwn
<1> QED BY <1>3, <1>4, <1>5, <1>6, <1>7, <1>8, <1>9 DEF Answers

-----------------------------------------------------------------------------
(***************************************************************************)
(* Undisturbed accounts.                                                   *)
(***************************************************************************)
LEMMA NewestStays ==
    ASSUME NewestOK, Alike,
           UNCHANGED <<photo, stored, file, picks, crossed, disturbed>>,
           (screen' = screen /\ view' = view) \/ screen' = None
    PROVE  NewestOK'
<1> SUFFICES ASSUME NEW u \in Uid \ (crossed \cup disturbed)
             PROVE  (PlacesOK(u) /\ \A t \in tasks : CarriesNewest(t, u))'
    BY DEF NewestOK
<1>1. PlacesOK(u) /\ \A t \in tasks : CarriesNewest(t, u)
    BY DEF NewestOK
<1>2. Newest(u)' = Newest(u)
    BY DEF Newest
<1>3. \A stages : About(u, stages)' = {} <=> About(u, stages) = {}
    BY DEF Alike, About, Among
<1>4. screen' = u => screen = u /\ view' = view
    BY PictureAssumption
<1>5. PlacesOK(u)'
    BY <1>1, <1>2, <1>3, <1>4 DEF PlacesOK
<1>6. ASSUME NEW t \in tasks' PROVE CarriesNewest(t, u)'
    <2>1. PICK s \in tasks : /\ t.stage = s.stage /\ t.uid = s.uid
                             /\ t.url = s.url /\ t.pic = s.pic
                             /\ t.shown => s.shown /\ screen' = screen
        BY DEF Alike
    <2>2. CarriesNewest(s, u)
        BY <1>1
    <2> QED BY <1>2, <1>3, <2>1, <2>2 DEF CarriesNewest, Targets
<1> QED BY <1>5, <1>6

\* A sign-up: nothing was about the account before.
LEMMA NewestSignUp ==
    ASSUME TypeOK, SessionOK, TasksOK, NewestOK, NEW w \in Uid, SignUp(w)
    PROVE  NewestOK'
<1>1. /\ Chosen(w) = Newest(w)' /\ \A v \in Uid \ {w} : picks'[v] = picks[v]
    BY SignUpTask, ChosenIsNewest
<1>2. PICK n \in Task :
          /\ tasks' = Replaced \cup {n}
          /\ n.stage = "signedUp" /\ n.uid = w /\ n.url = w
          /\ n.pic = Chosen(w) /\ ~n.shown
    BY SignUpTask
<1>3. /\ UNCHANGED <<photo, stored, file, screen, view, crossed, disturbed>>
      /\ picks[w] = 0
    BY DEF SignUp
<1> SUFFICES ASSUME NEW u \in Uid \ (crossed \cup disturbed)
             PROVE  (PlacesOK(u) /\ \A t \in tasks : CarriesNewest(t, u))'
    BY <1>3 DEF NewestOK
<1>4. CASE u = w
    <2>1. ASSUME NEW t \in Replaced
          PROVE  t.uid # u /\ t.url # u /\ t.stage \notin {}
        BY <1>3, <1>4, ReplacedTasks, PictureAssumption DEF TasksOK, TaskOK
    <2>2. screen # u
        BY <1>3, <1>4, PictureAssumption DEF SessionOK
    <2>3. /\ n \in About(u, {"signedUp"})' /\ n \in About(u, {"signedUp", "put"})'
          /\ n \in About(u, Uploading)'
        BY <1>2, <1>4 DEF About, Among, Uploading
    <2>4. PlacesOK(u)'
        BY <1>3, <2>2, <2>3 DEF PlacesOK
    <2>5. ASSUME NEW t \in tasks' PROVE CarriesNewest(t, u)'
        BY <1>1, <1>2, <1>3, <1>4, <2>1, <2>2 DEF CarriesNewest, Targets
    <2> QED BY <2>4, <2>5
<1>5. CASE u # w
    <2>1. PlacesOK(u) /\ \A t \in tasks : CarriesNewest(t, u)
        BY DEF NewestOK
    <2>2. picks'[u] = picks[u] /\ Newest(u)' = Newest(u)
        BY <1>1, <1>5 DEF Newest
    <2>3. \A stages : About(u, stages)' = {} <=> About(u, stages) = {}
        BY <1>2, <1>5, ReplacedTasks DEF About, Among
    <2>4. PlacesOK(u)'
        BY <1>3, <2>1, <2>2, <2>3 DEF PlacesOK
    <2>5. ASSUME NEW t \in tasks' PROVE CarriesNewest(t, u)'
        <3>1. CASE t = n
            BY <1>2, <1>5, <3>1 DEF CarriesNewest
        <3>2. CASE t \in Replaced
            <4>1. PICK s \in tasks : /\ t.stage = s.stage /\ t.uid = s.uid
                                     /\ t.url = s.url /\ t.pic = s.pic
                                     /\ t.shown = s.shown
                BY <3>2, ReplacedTasks
            <4>2. CarriesNewest(s, u)
                BY <2>1
            <4> QED BY <1>3, <2>2, <2>3, <4>1, <4>2 DEF CarriesNewest, Targets
        <3> QED BY <1>2, <3>1, <3>2
    <2> QED BY <2>4, <2>5
<1> QED BY <1>4, <1>5

LEMMA NewestOpen ==
    ASSUME TypeOK, SessionOK, TasksOK, NewestOK, OpenSettings
    PROVE  NewestOK'
<1>1. PICK n \in Task : tasks' = tasks \cup {n} /\ n.stage = "opened"
    BY OpenTask
<1>2. /\ UNCHANGED <<user, photo, stored, file, picks, crossed>>
      /\ screen = None /\ screen' = user /\ view' = file[user]
      /\ disturbed' = disturbed \cup
                      {v \in {user} : About(v, {"signedUp"}) # {}}
    BY DEF OpenSettings
<1> SUFFICES ASSUME NEW u \in Uid \ (crossed' \cup disturbed')
             PROVE  (PlacesOK(u) /\ \A t \in tasks : CarriesNewest(t, u))'
    BY DEF NewestOK
<1>3. PlacesOK(u) /\ \A t \in tasks : CarriesNewest(t, u)
    BY <1>2 DEF NewestOK
<1>4. Newest(u)' = Newest(u)
    BY <1>2 DEF Newest
<1>5. /\ About(u, {"signedUp"})' = About(u, {"signedUp"})
      /\ About(u, {"signedUp", "put"})' = About(u, {"signedUp", "put"})
      /\ About(u, Uploading)' = About(u, Uploading)
    BY <1>1 DEF About, Among, Uploading
<1>6. user = u => picks[u] > 0 /\ About(u, {"signedUp"}) = {}
    BY <1>2, PictureAssumption DEF SessionOK
<1>7. PlacesOK(u)'
    BY <1>2, <1>3, <1>4, <1>5, <1>6 DEF PlacesOK
<1>8. ASSUME NEW t \in tasks' PROVE CarriesNewest(t, u)'
    <2>1. CASE t = n
        BY <1>1, <2>1 DEF CarriesNewest
    <2>2. CASE t \in tasks
        <3>1. CarriesNewest(t, u) /\ ~t.shown
            BY <1>2, <1>3, <2>2 DEF TasksOK, TaskOK
        <3> QED BY <1>4, <1>5, <3>1 DEF CarriesNewest, Targets
    <2> QED BY <1>1, <2>1, <2>2
<1> QED BY <1>7, <1>8

\* A picture is chosen on an undisturbed account's screen: it is that of the
\* session, nothing else is under way for it, and the picture is the newest
\* one, shown, saved, and about to be put.
LEMMA NewestPick ==
    ASSUME TypeOK, UrlsOK, NewestOK, PickPicture
    PROVE  NewestOK'
<1>1. PICK w \in Uid :
          /\ screen = w /\ screen' = w /\ view' = Chosen(w)
          /\ Chosen(w) \in Picture /\ Chosen(w).by = w
          /\ Chosen(w) = Newest(w)'
          /\ \A v \in Uid \ {w} : picks'[v] = picks[v]
          /\ NotUploaded(Chosen(w), tasks) \/ Upload(Chosen(w), tasks)
    BY PickFacts
<1>2. photo' = photo /\ stored' = stored
    BY DEF PickPicture
<1>3. tasks \in SUBSET Task
    BY DEF TypeOK
<1>4. /\ crossed \subseteq crossed' /\ disturbed \subseteq disturbed'
      /\ \A u \in Uid : file'[u] # file[u] => user = u
      /\ \A u \in Uid \ (crossed' \cup disturbed') :
             /\ w = u <=> user = u
             /\ user = u =>
                   /\ Among(tasks, u, Uploading \cup Downloading) = {}
                   /\ file'[u] = Chosen(w)
      /\ \/ user = None /\ tasks' = tasks
         \/ user \in Uid /\ \E n \in Task :
                /\ tasks' = tasks \cup {n}
                /\ n.stage = "put" /\ n.uid = user /\ n.url = user
                /\ n.pic = Chosen(w)
    <2>1. /\ crossed \subseteq crossed' /\ disturbed \subseteq disturbed'
          /\ \A u \in Uid : file'[u] # file[u] => user = u
        BY <1>1, <1>3, UploadFacts
    <2>2. ASSUME NEW u \in Uid \ (crossed' \cup disturbed')
          PROVE  /\ w = u <=> user = u
                 /\ user = u =>
                       /\ Among(tasks, u, Uploading \cup Downloading) = {}
                       /\ file'[u] = Chosen(w)
        <3>1. Chosen(w).by = u <=> user = u
            BY <1>1, <1>3, UploadFacts
        <3>2. user = u => /\ Among(tasks, u, Uploading \cup Downloading) = {}
                          /\ file'[u] = Chosen(w)
            BY <1>1, <1>3, UploadFacts
        <3> QED BY <1>1, <3>1, <3>2
    <2>3. \/ user = None /\ tasks' = tasks
          \/ user \in Uid /\ \E n \in Task :
                 /\ tasks' = tasks \cup {n}
                 /\ n.stage = "put" /\ n.uid = user /\ n.url = user
                 /\ n.pic = Chosen(w)
        BY <1>1, <1>3, UploadFacts
    <2> QED BY <2>1, <2>2, <2>3
<1> SUFFICES ASSUME NEW u \in Uid \ (crossed' \cup disturbed')
             PROVE  (PlacesOK(u) /\ \A t \in tasks : CarriesNewest(t, u))'
    BY DEF NewestOK
<1>5. CASE u = w
    <2>1. /\ user = u /\ file'[u] = Newest(u)'
          /\ Among(tasks, u, Uploading \cup Downloading) = {}
        BY <1>1, <1>4, <1>5
    <2>2. PICK n \in Task : /\ tasks' = tasks \cup {n} /\ n.stage = "put"
                            /\ n.uid = u /\ n.url = u /\ n.pic = Newest(u)'
        BY <1>1, <1>4, <1>5, <2>1, PictureAssumption
    <2>3. \A t \in tasks : u \in {t.uid, t.url} =>
              t.stage \notin Uploading \cup Downloading
        BY <2>1 DEF Among
    <2>4. n \in About(u, {"signedUp", "put"})' /\ n \in About(u, Uploading)'
        BY <2>2 DEF About, Among, Uploading
    <2>5. PlacesOK(u)'
        BY <1>1, <1>5, <2>1, <2>4 DEF PlacesOK
    <2>6. ASSUME NEW t \in tasks' PROVE CarriesNewest(t, u)'
        <3>1. CASE t = n
            BY <2>2, <3>1 DEF CarriesNewest
        <3>2. CASE t \in tasks
            <4>1. CarriesOwn(t, u)
                BY <1>4, <3>2 DEF UrlsOK
            <4>2. t.stage \in Downloading => ~Targets(t, u)
                BY <2>3, <3>2, <4>1 DEF CarriesOwn
            <4> QED BY <1>1, <2>3, <3>2, <4>2
                    DEF CarriesNewest, Targets, Uploading, Downloading
        <3> QED BY <2>2, <3>1, <3>2
    <2> QED BY <2>5, <2>6
<1>6. CASE u # w
    <2>1. PlacesOK(u) /\ \A t \in tasks : CarriesNewest(t, u)
        BY <1>4 DEF NewestOK
    <2>2. /\ picks'[u] = picks[u] /\ Newest(u)' = Newest(u)
          /\ user # u /\ file'[u] = file[u]
        BY <1>1, <1>4, <1>6 DEF Newest
    <2>3. \A stages : About(u, stages)' = About(u, stages)
        BY <1>4, <2>2 DEF About, Among
    <2>4. PlacesOK(u)'
        BY <1>1, <1>2, <1>6, <2>1, <2>2, <2>3 DEF PlacesOK
    <2>5. ASSUME NEW t \in tasks' PROVE CarriesNewest(t, u)'
        <3>1. CASE t \in tasks
            BY <1>1, <2>1, <2>2, <2>3, <3>1 DEF CarriesNewest, Targets
        <3>2. CASE t.stage = "put" /\ t.url = user
            BY <2>2, <3>2 DEF CarriesNewest
        <3> QED BY <1>4, <3>1, <3>2
    <2> QED BY <2>4, <2>5
<1> QED BY <1>5, <1>6

\* The end of the process disturbs every upload under way.
LEMMA NewestCrash == TypeOK /\ NewestOK /\ Crash => NewestOK'
<1> SUFFICES ASSUME TypeOK, NewestOK, Crash,
                    NEW u \in Uid \ (crossed' \cup disturbed')
             PROVE  (PlacesOK(u) /\ \A t \in tasks : CarriesNewest(t, u))'
    BY DEF NewestOK
<1>1. u \notin crossed \cup disturbed /\ About(u, Uploading) = {}
    BY DEF Crash
<1>2. PlacesOK(u)
    BY <1>1 DEF NewestOK
<1>3. About(u, {"signedUp"}) = {} /\ About(u, {"signedUp", "put"}) = {}
    BY <1>1 DEF About, Among, Uploading
<1>4. Newest(u)' = Newest(u) /\ screen' # u
    BY PictureAssumption DEF Crash, Newest
<1> QED BY <1>1, <1>2, <1>3, <1>4 DEF Crash, PlacesOK

LEMMA NewestSession ==
    ASSUME TypeOK, SessionOK, TasksOK, UrlsOK, NewestOK, SessionStep
    PROVE  NewestOK'
<1>1. CASE SignOut \/ CloseSettings \/ \E u \in Uid : SignIn(u)
    BY <1>1, AlikeSteps, NewestStays DEF SignOut, CloseSettings, SignIn
<1>2. ASSUME NEW u \in Uid, SignUp(u) PROVE NewestOK'
    BY <1>2, NewestSignUp
<1>3. CASE OpenSettings
    BY <1>3, NewestOpen
<1>4. CASE PickPicture
    BY <1>4, NewestPick
<1>5. CASE Crash
    BY <1>5, NewestCrash
<1> QED BY <1>1, <1>2, <1>3, <1>4, <1>5 DEF SessionStep

\* A task ends, or goes on at a stage that is no upload's, while the places
\* are as they were.
LEMMA NewestGoesOn ==
    ASSUME NEW u \in Uid, NEW t \in tasks,
           PlacesOK(u), \A s \in tasks : CarriesNewest(s, u),
           t.stage \in Uploading => u \notin {t.uid, t.url},
           picks' = picks, screen' = screen,
           photo'[u] = photo[u], stored'[u] = stored[u],
           file'[u] \in {file[u], Newest(u)},
           screen = u => view' \in {view, Newest(u)},
           \/ tasks' = tasks \ {t}
           \/ \E s \in Task : /\ Continues(t, s)
                              /\ s.stage \notin {"signedUp", "put", "url"}
                              /\ s.stage = "commit" => u \notin {s.uid, s.url}
                              /\ CarriesNewest(s, u)
    PROVE  (PlacesOK(u) /\ \A s \in tasks : CarriesNewest(s, u))'
<1>1. Newest(u)' = Newest(u)
    BY DEF Newest
<1>2. /\ About(u, {"signedUp"})' = About(u, {"signedUp"})
      /\ About(u, {"signedUp", "put"})' = About(u, {"signedUp", "put"})
      /\ About(u, Uploading)' = About(u, Uploading)
    BY DEF About, Among, Uploading, Continues
<1>3. PlacesOK(u)'
    BY <1>1, <1>2 DEF PlacesOK
<1>4. ASSUME NEW s \in tasks' PROVE CarriesNewest(s, u)'
    <2>1. CarriesNewest(s, u)
        BY DEF Continues
    <2> QED BY <1>1, <1>2, <2>1 DEF CarriesNewest, Targets
<1> QED BY <1>3, <1>4

\* The completion of a sign-up, for an undisturbed account: it is still the
\* session's and nothing else is under way for it.
LEMMA NewestCompletion ==
    ASSUME TypeOK, TasksOK, UrlsOK, NewestOK,
           NEW t \in tasks, SignUpCompletion(t)
    PROVE  NewestOK'
<1> DEFINE others == tasks \ {t}
<1>1. /\ t.pic \in Picture /\ t.pic.by = t.uid /\ t.url = t.uid
      /\ t.uid \in Uid /\ others \in SUBSET Task
      /\ NotUploaded(t.pic, others) \/ Upload(t.pic, others)
    BY CompletionFacts
<1>2. /\ UNCHANGED <<photo, stored, picks, screen, view>>
      /\ t.stage = "signedUp"
    BY DEF SignUpCompletion
<1>3. /\ crossed \subseteq crossed' /\ disturbed \subseteq disturbed'
      /\ \A u \in Uid : file'[u] # file[u] => user = u
      /\ \A u \in Uid \ (crossed' \cup disturbed') :
             /\ t.uid = u <=> user = u
             /\ user = u =>
                   /\ Among(others, u, Uploading \cup Downloading) = {}
                   /\ file'[u] = t.pic
      /\ \/ user = None /\ tasks' = others
         \/ user \in Uid /\ \E n \in Task :
                /\ tasks' = others \cup {n}
                /\ n.stage = "put" /\ n.uid = user /\ n.url = user
                /\ n.pic = t.pic
    <2> HIDE DEF others
    <2>1. /\ crossed \subseteq crossed' /\ disturbed \subseteq disturbed'
          /\ \A u \in Uid : file'[u] # file[u] => user = u
        BY <1>1, UploadFacts
    <2>2. ASSUME NEW u \in Uid \ (crossed' \cup disturbed')
          PROVE  /\ t.uid = u <=> user = u
                 /\ user = u =>
                       /\ Among(others, u, Uploading \cup Downloading) = {}
                       /\ file'[u] = t.pic
        <3>1. t.pic.by = u <=> user = u
            BY <1>1, UploadFacts
        <3>2. user = u => /\ Among(others, u, Uploading \cup Downloading) = {}
                          /\ file'[u] = t.pic
            BY <1>1, UploadFacts
        <3> QED BY <1>1, <3>1, <3>2
    <2>3. \/ user = None /\ tasks' = others
          \/ user \in Uid /\ \E n \in Task :
                 /\ tasks' = others \cup {n}
                 /\ n.stage = "put" /\ n.uid = user /\ n.url = user
                 /\ n.pic = t.pic
        BY <1>1, UploadFacts
    <2> QED BY <2>1, <2>2, <2>3
<1> SUFFICES ASSUME NEW u \in Uid \ (crossed' \cup disturbed')
             PROVE  (PlacesOK(u) /\ \A s \in tasks : CarriesNewest(s, u))'
    BY DEF NewestOK
<1>4. PlacesOK(u) /\ \A s \in tasks : CarriesNewest(s, u)
    BY <1>3 DEF NewestOK
<1>5. Newest(u)' = Newest(u)
    BY <1>2 DEF Newest
<1>6. CASE u = t.uid
    <2>1. /\ user = u /\ file'[u] = Newest(u)
          /\ Among(others, u, Uploading \cup Downloading) = {}
        BY <1>1, <1>2, <1>3, <1>4, <1>6 DEF CarriesNewest
    <2>2. PICK n \in Task : /\ tasks' = others \cup {n} /\ n.stage = "put"
                            /\ n.uid = u /\ n.url = u /\ n.pic = Newest(u)
        BY <1>1, <1>2, <1>3, <1>4, <1>6, <2>1, PictureAssumption
        DEF CarriesNewest
    <2>3. \A s \in others : u \in {s.uid, s.url} =>
              s.stage \notin Uploading \cup Downloading
        BY <2>1 DEF Among
    <2>4. n \in About(u, {"signedUp", "put"})' /\ n \in About(u, Uploading)'
        BY <2>2 DEF About, Among, Uploading
    <2>5. PlacesOK(u)'
        BY <1>2, <1>4, <1>5, <2>1, <2>4 DEF PlacesOK
    <2>6. ASSUME NEW s \in tasks' PROVE CarriesNewest(s, u)'
        <3>1. CASE s = n
            BY <1>5, <2>2, <3>1 DEF CarriesNewest
        <3>2. CASE s \in others
            <4>1. CarriesNewest(s, u)
                BY <1>4, <3>2
            <4> QED BY <1>2, <1>5, <2>3, <3>2, <4>1
                    DEF CarriesNewest, Targets, Downloading
        <3> QED BY <2>2, <3>1, <3>2
    <2> QED BY <2>5, <2>6
<1>7. CASE u # t.uid
    <2>1. user # u /\ file'[u] = file[u]
        BY <1>3, <1>7
    <2>2. \A stages : About(u, stages)' = About(u, stages)
        BY <1>1, <1>3, <1>7, <2>1 DEF About, Among
    <2>3. PlacesOK(u)'
        BY <1>2, <1>4, <1>5, <2>1, <2>2 DEF PlacesOK
    <2>4. ASSUME NEW s \in tasks' PROVE CarriesNewest(s, u)'
        <3>1. CASE s \in others
            BY <1>2, <1>4, <1>5, <2>2, <3>1 DEF CarriesNewest, Targets
        <3>2. CASE s.stage = "put" /\ s.url = user
            BY <2>1, <3>2 DEF CarriesNewest
        <3> QED BY <1>3, <3>1, <3>2
    <2> QED BY <2>3, <2>4
<1> QED BY <1>6, <1>7

LEMMA NewestPut ==
    ASSUME TypeOK, TasksOK, NewestOK, NEW t \in tasks, PutData(t)
    PROVE  NewestOK'
<1>1. PICK s \in Task : /\ Continues(t, s) /\ s.stage = "url"
                        /\ s.uid = t.uid /\ s.url = t.url
    BY PutTask
<1>2. /\ UNCHANGED <<photo, file, screen, view, picks, crossed, disturbed>>
      /\ stored' = [stored EXCEPT ![t.url] = t.pic]
      /\ t.stage = "put" /\ t.uid = t.url /\ t.url \in Uid
    BY DEF PutData, TypeOK, Task, TasksOK, TaskOK
<1> SUFFICES ASSUME NEW u \in Uid \ (crossed \cup disturbed)
             PROVE  (PlacesOK(u) /\ \A x \in tasks : CarriesNewest(x, u))'
    BY <1>2 DEF NewestOK
<1>3. PlacesOK(u) /\ \A x \in tasks : CarriesNewest(x, u)
    BY DEF NewestOK
<1>4. Newest(u)' = Newest(u)
    BY <1>2 DEF Newest
<1>5. About(u, {"signedUp"})' = About(u, {"signedUp"})
    BY <1>1, <1>2 DEF About, Among, Continues
<1>6. CASE u = t.url
    <2>1. stored'[u] = Newest(u)
        BY <1>2, <1>3, <1>6 DEF CarriesNewest, TypeOK
    <2>2. s \in About(u, Uploading)'
        BY <1>1, <1>6 DEF About, Among, Uploading, Continues
    <2>3. t \in About(u, {"signedUp", "put"})
        BY <1>2, <1>6 DEF About, Among
    <2>4. PlacesOK(u)'
        BY <1>2, <1>3, <1>4, <1>5, <2>1, <2>2 DEF PlacesOK
    <2>5. ASSUME NEW x \in tasks' PROVE CarriesNewest(x, u)'
        BY <1>1, <1>2, <1>3, <1>4, <2>3 DEF CarriesNewest, Targets, Continues
    <2> QED BY <2>4, <2>5
<1>7. CASE u # t.url
    <2>1. /\ About(u, {"signedUp", "put"})' = About(u, {"signedUp", "put"})
          /\ About(u, Uploading)' = About(u, Uploading)
        BY <1>1, <1>2, <1>7 DEF About, Among, Continues
    <2>2. stored'[u] = stored[u]
        BY <1>2, <1>7 DEF TypeOK
    <2>3. PlacesOK(u)'
        BY <1>2, <1>3, <1>4, <1>5, <2>1, <2>2 DEF PlacesOK
    <2>4. ASSUME NEW x \in tasks' PROVE CarriesNewest(x, u)'
        BY <1>1, <1>2, <1>3, <1>4, <2>1 DEF CarriesNewest, Targets, Continues
    <2> QED BY <2>3, <2>4
<1> QED BY <1>6, <1>7

\* An upload goes on with the profile of whoever is signed in: that is the
\* account of the picture, or its account is disturbed.
LEMMA NewestUrl ==
    ASSUME TypeOK, TasksOK, NewestOK, NEW t \in tasks, DownloadUrl(t)
    PROVE  NewestOK'
<1>1. /\ UNCHANGED <<photo, stored, file, screen, view, picks, crossed>>
      /\ disturbed' = disturbed \cup ({t.url} \ {user})
      /\ t.stage = "url" /\ t.uid = t.url
    BY DEF DownloadUrl, TasksOK, TaskOK
<1> SUFFICES ASSUME NEW u \in Uid \ (crossed' \cup disturbed')
             PROVE  (PlacesOK(u) /\ \A s \in tasks : CarriesNewest(s, u))'
    BY DEF NewestOK
<1>2. /\ PlacesOK(u) /\ \A s \in tasks : CarriesNewest(s, u)
      /\ u \notin {t.url} \ {user}
    BY <1>1 DEF NewestOK
<1>3. Newest(u)' = Newest(u)
    BY <1>1 DEF Newest
<1>4. CASE user = None /\ tasks' = tasks \ {t}
    <2>1. u # t.url
        BY <1>2, <1>4, PictureAssumption
    <2> QED BY <1>1, <1>2, <1>4, <2>1, NewestGoesOn
<1>5. CASE \E s \in Task : /\ Continues(t, s) /\ s.stage = "commit"
                           /\ s.uid = user /\ s.url = t.url
    <2>1. PICK s \in Task : /\ Continues(t, s) /\ s.stage = "commit"
                            /\ s.uid = user /\ s.url = t.url
        BY <1>5
    <2>2. /\ About(u, {"signedUp"})' = About(u, {"signedUp"})
          /\ About(u, {"signedUp", "put"})' = About(u, {"signedUp", "put"})
        BY <1>1, <2>1 DEF About, Among, Continues
    <2>3. About(u, Uploading)' = {} => About(u, Uploading) = {}
        BY <1>1, <2>1 DEF About, Among, Uploading, Continues
    <2>4. PlacesOK(u)'
        BY <1>1, <1>2, <1>3, <2>2, <2>3 DEF PlacesOK
    <2>5. ASSUME NEW x \in tasks' PROVE CarriesNewest(x, u)'
        BY <1>1, <1>2, <1>3, <2>1, <2>2 DEF CarriesNewest, Targets, Continues
    <2> QED BY <2>4, <2>5
<1> QED BY <1>4, <1>5, UrlTask

LEMMA NewestCommit ==
    ASSUME TypeOK, TasksOK, NewestOK, NEW t \in tasks, Commit(t)
    PROVE  NewestOK'
<1>1. /\ UNCHANGED <<stored, file, screen, view, picks, disturbed>>
      /\ photo' = [photo EXCEPT ![t.uid] = t.url]
      /\ tasks' = tasks \ {t} /\ t.stage = "commit"
      /\ crossed' = crossed \cup ({t.uid} \ {t.url})
    BY DEF Commit
<1>2. t.uid \in Uid
    BY <1>1 DEF TypeOK, Task, TasksOK, TaskOK
<1> SUFFICES ASSUME NEW u \in Uid \ (crossed' \cup disturbed')
             PROVE  (PlacesOK(u) /\ \A s \in tasks : CarriesNewest(s, u))'
    BY DEF NewestOK
<1>3. /\ PlacesOK(u) /\ \A s \in tasks : CarriesNewest(s, u)
      /\ u \notin {t.uid} \ {t.url}
    BY <1>1 DEF NewestOK
<1>4. Newest(u)' = Newest(u)
    BY <1>1 DEF Newest
<1>5. /\ About(u, {"signedUp"})' = About(u, {"signedUp"})
      /\ About(u, {"signedUp", "put"})' = About(u, {"signedUp", "put"})
    BY <1>1 DEF About, Among
<1>6. IF u = t.uid THEN photo'[u] = u
      ELSE photo'[u] = photo[u] /\ About(u, Uploading)' = About(u, Uploading)
    <2>1. u # t.uid => u # t.url
        BY <1>1, <1>3 DEF CarriesNewest
    <2> QED BY <1>1, <1>2, <1>3, <2>1 DEF TypeOK, About, Among
<1>7. PlacesOK(u)'
    BY <1>1, <1>3, <1>4, <1>5, <1>6 DEF PlacesOK
<1>8. ASSUME NEW x \in tasks' PROVE CarriesNewest(x, u)'
    BY <1>1, <1>3, <1>4, <1>5 DEF CarriesNewest, Targets
<1> QED BY <1>7, <1>8

LEMMA NewestFail ==
    ASSUME TypeOK, NewestOK, NEW t \in tasks, Fail(t)
    PROVE  NewestOK'
<1> SUFFICES ASSUME NEW u \in Uid \ (crossed' \cup disturbed')
             PROVE  (PlacesOK(u) /\ \A s \in tasks : CarriesNewest(s, u))'
    BY DEF NewestOK
<1>1. /\ PlacesOK(u) /\ \A s \in tasks : CarriesNewest(s, u)
      /\ u \notin (IF t.stage = "reload" THEN {} ELSE {t.uid, t.url})
    BY DEF Fail, NewestOK
<1> QED BY <1>1, NewestGoesOn DEF Fail, Uploading

\* A download that disturbs nobody finds the upload put.
LEMMA NewestStart ==
    ASSUME TypeOK, UrlsOK, NewestOK, NEW t \in tasks, StartDownload(t)
    PROVE  NewestOK'
<1>1. PICK s \in Task : /\ Continues(t, s) /\ s.stage = "fetch"
                        /\ s.uid = user /\ s.url = t.url
    BY StartTask
<1>2. /\ UNCHANGED <<photo, stored, file, screen, view, picks>>
      /\ crossed \subseteq crossed' /\ t.stage = "start"
      /\ disturbed' = disturbed \cup
             {v \in {user, t.url} : About(v, {"signedUp", "put"}) # {}}
    BY DEF StartDownload
<1> SUFFICES ASSUME NEW u \in Uid \ (crossed' \cup disturbed')
             PROVE  (PlacesOK(u) /\ \A x \in tasks : CarriesNewest(x, u))'
    BY DEF NewestOK
<1>3. /\ PlacesOK(u) /\ \A x \in tasks : CarriesNewest(x, u)
      /\ u \in {user, t.url} => About(u, {"signedUp", "put"}) = {}
    BY <1>2 DEF NewestOK
<1>4. CarriesNewest(s, u)
    BY <1>1, <1>3 DEF CarriesNewest
<1> QED BY <1>1, <1>2, <1>3, <1>4, NewestGoesOn DEF Uploading

\* What is fetched for an undisturbed account is the newest picture, since no
\* upload of it is left to be put.
LEMMA NewestFetch ==
    ASSUME TypeOK, TasksOK, UrlsOK, NewestOK, NEW t \in tasks, Fetch(t)
    PROVE  NewestOK'
<1>1. PICK s \in Task :
          /\ Continues(t, s) /\ s.stage = "fetched"
          /\ s.uid = t.uid /\ s.url = t.url /\ s.shown = t.shown
          /\ s.pic \in {stored[t.url], Junk} \ {None}
          /\ disturbed' = disturbed \cup
                 (IF s.pic = Junk THEN {t.uid, t.url} ELSE {})
    BY FetchTask
<1>2. /\ UNCHANGED <<photo, stored, file, screen, view, picks, crossed>>
      /\ t.stage = "fetch"
    BY DEF Fetch
<1> SUFFICES ASSUME NEW u \in Uid \ (crossed' \cup disturbed')
             PROVE  (PlacesOK(u) /\ \A x \in tasks : CarriesNewest(x, u))'
    BY DEF NewestOK
<1>3. /\ PlacesOK(u) /\ \A x \in tasks : CarriesNewest(x, u)
      /\ s.pic = Junk => u \notin {t.uid, t.url}
      /\ u \notin crossed
    BY <1>1, <1>2 DEF NewestOK
<1>4. ASSUME Targets(s, u) PROVE s.pic = Newest(u)
    <2>1. t.url = u
        BY <1>1, <1>2, <1>3, <1>4 DEF UrlsOK, CarriesOwn, Targets, Downloading
    <2>2. picks[u] > 0
        BY <2>1 DEF TasksOK, TaskOK
    <2>3. stored[u] = Newest(u)
        BY <1>2, <1>3, <2>1, <2>2 DEF CarriesNewest, PlacesOK
    <2> QED BY <1>1, <1>3, <2>1, <2>3
<1>5. CarriesNewest(s, u)
    BY <1>1, <1>4 DEF CarriesNewest
<1> QED BY <1>1, <1>2, <1>3, <1>5, NewestGoesOn DEF Uploading

LEMMA NewestSave ==
    ASSUME TypeOK, TasksOK, NewestOK, NEW t \in tasks, Save(t)
    PROVE  NewestOK'
<1>1. PICK s \in Task : /\ Continues(t, s) /\ s.stage = "show"
                        /\ s.uid = t.uid /\ s.url = t.url /\ s.pic = t.pic
                        /\ s.shown = t.shown
    BY SaveTask
<1>2. /\ UNCHANGED <<photo, stored, screen, view, picks, crossed>>
      /\ t.stage = "fetched" /\ disturbed \subseteq disturbed'
      /\ file' \in {file, [file EXCEPT ![t.uid] = t.pic]}
    BY DEF Save
<1> SUFFICES ASSUME NEW u \in Uid \ (crossed' \cup disturbed')
             PROVE  (PlacesOK(u) /\ \A x \in tasks : CarriesNewest(x, u))'
    BY DEF NewestOK
<1>3. PlacesOK(u) /\ \A x \in tasks : CarriesNewest(x, u)
    BY <1>2 DEF NewestOK
<1>4. CarriesNewest(s, u)
    BY <1>1, <1>2, <1>3 DEF CarriesNewest, Targets
<1>5. file'[u] \in {file[u], Newest(u)}
    BY <1>2, <1>3 DEF CarriesNewest, Targets, TypeOK
<1> QED BY <1>1, <1>2, <1>3, <1>4, <1>5, NewestGoesOn DEF Uploading

LEMMA NewestShow ==
    ASSUME TypeOK, NewestOK, NEW t \in tasks, Show(t)
    PROVE  NewestOK'
<1> SUFFICES ASSUME NEW u \in Uid \ (crossed \cup disturbed)
             PROVE  (PlacesOK(u) /\ \A s \in tasks : CarriesNewest(s, u))'
    BY DEF NewestOK, Show
<1>1. PlacesOK(u) /\ \A s \in tasks : CarriesNewest(s, u)
    BY DEF NewestOK
<1>2. screen = u => view' \in {view, Newest(u)}
    BY <1>1 DEF Show, CarriesNewest, Targets
<1> QED BY <1>1, <1>2, NewestGoesOn DEF Show, Uploading

\* What leads to a download leaves the places alone.
LEMMA NewestReading ==
    ASSUME TypeOK, NewestOK, NEW t \in tasks,
           SendReload(t) \/ Reload(t) \/ ReadUrl(t)
    PROVE  NewestOK'
<1>1. /\ UNCHANGED <<photo, stored, file, screen, view, picks, crossed, disturbed>>
      /\ t.stage \notin Uploading
    BY DEF SendReload, Reload, ReadUrl, Uploading
<1>2. \/ tasks' = tasks \ {t}
      \/ \E s \in Task : Continues(t, s) /\ s.stage \in {"reload", "read", "start"}
    BY SendTask, ReloadTask, ReadTask
<1> SUFFICES ASSUME NEW u \in Uid \ (crossed \cup disturbed)
             PROVE  (PlacesOK(u) /\ \A x \in tasks : CarriesNewest(x, u))'
    BY <1>1 DEF NewestOK
<1>3. PlacesOK(u) /\ \A x \in tasks : CarriesNewest(x, u)
    BY DEF NewestOK
<1>4. \A s \in Task : s.stage \in {"reload", "read", "start"} =>
          CarriesNewest(s, u)
    BY DEF CarriesNewest
<1> QED BY <1>1, <1>2, <1>3, <1>4, NewestGoesOn

LEMMA NewestAnswers ==
    ASSUME TypeOK, TasksOK, UrlsOK, NewestOK, NEW t \in tasks, Answers(t)
    PROVE  NewestOK'
BY NewestCompletion, NewestPut, NewestUrl, NewestCommit, NewestFail,
   NewestReading, NewestStart, NewestFetch, NewestSave, NewestShow, NewestCrash
DEF Answers, DownloadFails

-----------------------------------------------------------------------------
(***************************************************************************)
(* Theorems.                                                               *)
(***************************************************************************)
LEMMA InitOK == Init => IInv
<1> SUFFICES ASSUME Init PROVE IInv
    OBVIOUS
<1>1. SessionOK /\ TasksOK /\ UrlsOK
    BY DEF Init, SessionOK, TasksOK, UrlsOK
<1>2. OwnPictures
    BY PictureAssumption DEF Init, OwnPictures, IsOwn
<1>3. ASSUME NEW u \in Uid PROVE PlacesOK(u)
    <2>1. picks[u] = 0 /\ screen # u
        BY PictureAssumption DEF Init
    <2> QED BY <2>1 DEF PlacesOK
<1>4. NewestOK
    BY <1>3 DEF Init, NewestOK
<1> QED BY <1>1, <1>2, <1>4, TypeInit DEF IInv

LEMMA StepOK == IInv /\ [Next]_vars => IInv'
<1> SUFFICES ASSUME IInv, [Next]_vars PROVE IInv'
    OBVIOUS
<1> USE DEF IInv
<1>1. CASE SessionStep
    BY <1>1, TypeSession, TasksSession, UrlsSession, OwnSession, NewestSession
<1>2. ASSUME NEW t \in tasks, Answers(t) PROVE IInv'
    BY <1>2, TypeAnswers, SessionAnswers, TasksAnswers, UrlsAnswers,
       OwnAnswers, NewestAnswers
<1>3. CASE UNCHANGED vars
    <2>1. TypeOK' /\ SessionOK' /\ OwnPictures'
        BY <1>3 DEF vars, TypeOK, SessionOK, OwnPictures
    <2>2. TasksOK' /\ UrlsOK'
        BY <1>3 DEF vars, TasksOK, TaskOK, UrlsOK, CarriesOwn, Targets, IsOwn
    <2>3. NewestOK'
        BY <1>3 DEF vars, NewestOK, PlacesOK, CarriesNewest, Targets, About,
                    Among, Newest
    <2> QED BY <2>1, <2>2, <2>3
<1> QED BY <1>1, <1>2, <1>3 DEF Next, SessionStep

\* The invariant of the profile pictures, for any accounts and any number of
\* sign-ups, uploads and downloads under way.
THEOREM Inductive == Spec => []IInv
BY InitOK, StepOK, PTL DEF Spec

\* The variables have their types.
THEOREM TypeCorrect == Spec => []TypeOK
<1>1. IInv => TypeOK
    BY DEF IInv
<1> QED BY <1>1, Inductive, PTL

\* An account has another's picture in Storage, on disk or on its settings
\* screen only if two sessions were mixed up for it, in one of the ways that
\* updateProfilePicture, downloadProfilePicture and their callers allow by
\* reading the current user again and again.
THEOREM OwnPicturesCorrect == Spec => []OwnPictures
<1>1. IInv => OwnPictures
    BY DEF IInv
<1> QED BY <1>1, Inductive, PTL

\* When nothing is under way for an undisturbed account, file, Storage, photo
\* URL and its open settings screen agree on the picture chosen last.
THEOREM PicturesAgreeCorrect == Spec => []PicturesAgree
<1>1. IInv => PicturesAgree
    <2> SUFFICES ASSUME IInv, NEW u \in Uid \ (crossed \cup disturbed),
                        Quiet(u), picks[u] > 0
                 PROVE  /\ file[u] = Newest(u) /\ stored[u] = Newest(u)
                        /\ photo[u] = u
                        /\ screen = u => view = Newest(u)
        BY DEF PicturesAgree
    <2>1. /\ About(u, {"signedUp"}) = {} /\ About(u, {"signedUp", "put"}) = {}
          /\ About(u, Uploading) = {}
        BY DEF Quiet, About, Among, Uploading, Downloading
    <2> QED BY <2>1 DEF IInv, NewestOK, PlacesOK
<1> QED BY <1>1, Inductive, PTL
=============================================================================
