----------------------- MODULE SecretMountFreshProofs -----------------------
(***************************************************************************)
(* What holds of SecretMount whether or not the driver records the         *)
(* versions of what it has written: what has no pin is fresh and no file   *)
(* goes back, whatever the lists; and if the files of pinned objects are   *)
(* stable, every file holds the secret it stands for.                      *)
(***************************************************************************)
EXTENDS SecretMountProofs

-----------------------------------------------------------------------------
(* The age of the files: no assumption on the lists.                       *)

\* Content k exists at versions now.
Exists(k, now) == k.ver <= now[k.secret]

\* Handler m has gathered what exists, of an object without a pin what it may
\* mount, and nothing in a volume d is newer than what was current when it began.
HandlerFresh(m, d, now) ==
  /\ \A s \in Secrets : m.since[s] <= now[s]
  /\ \A i \in DOMAIN m.objs : \A f \in Files :
       LastBefore(m.objs, m.next, i, f) /\ m.objs[i].pin = None =>
         Acceptable(m.objs[i], f, m.files[f], m.since, now)
  /\ \A f \in Files : m.files[f] # NoFile => Exists(m.files[f], now)
  /\ \A f \in Files : d[f] # NoFile => Exists(d[f], m.since)

\* The inductive invariant behind NoRollback, whatever the files stand for.
FreshInv ==
  /\ \A f \in Files : disk[f] # NoFile => Exists(disk[f], latest)
  /\ \A c \in Calls : awaiting = c /\ mount[c].pc = "loop" =>
       HandlerFresh(mount[c], disk, latest)

\* The object o that a handler is at adds what exists and, if it has no pin, what
\* serves it: the handler stays fresh.
LEMMA AddSecretFresh ==
  ASSUME NEW m \in Handler, NEW d, NEW now,
         HandlerFresh(m, d, now),
         m.objs \in Specs, m.next \in DOMAIN m.objs,
         NEW k \in Content, NEW v \in Versions \cup {None}, Exists(k, now),
         m.objs[m.next].pin = None => Serves(m.objs[m.next], k, m.since, now)
  PROVE  HandlerFresh(AddSecret(m, m.objs[m.next], k, v), d, now)
<1> DEFINE o == m.objs[m.next]
           n == AddSecret(m, o, k, v)
<1>1. o \in SecretObject /\ DOMAIN m.objs \subseteq Nat
  BY SpecsAssumption
<1>2. /\ n.objs = m.objs /\ n.since = m.since /\ n.next = m.next + 1
      /\ \A f \in Files :
           n.files[f] = IF f \in Writes(o) THEN Written(o, k, f) ELSE m.files[f]
  BY <1>1, AddSecretType
<1>3. o.pin = None => Serves(o, k, m.since, now)
  OBVIOUS
<1> HIDE DEF n, o
<1>4. ASSUME NEW i \in DOMAIN m.objs, NEW f \in Files, LastBefore(m.objs, n.next, i, f),
             m.objs[i].pin = None
      PROVE  Acceptable(m.objs[i], f, n.files[f], m.since, now)
  <2>1. CASE f \in Writes(o)
    <3>1. m.objs[i] = o
      BY <1>1, <1>2, <1>4, <2>1, LastStep DEF o
    <3> QED
      BY <1>1, <1>2, <1>3, <1>4, <2>1, <3>1, ServedFile
  <2>2. CASE f \notin Writes(o)
    <3>1. LastBefore(m.objs, m.next, i, f)
      BY <1>1, <1>2, <1>4, <2>2, LastStep DEF o
    <3> QED
      BY <1>2, <1>4, <2>2, <3>1 DEF HandlerFresh
  <2> QED
    BY <2>1, <2>2
<1>5. ASSUME NEW f \in Files, n.files[f] # NoFile
      PROVE  Exists(n.files[f], now)
  <2>1. CASE f \in Writes(o)
    <3>1. n.files[f].secret = k.secret /\ n.files[f].ver = k.ver
      BY <1>1, <1>2, <2>1, WrittenFile
    <3> QED
      BY <3>1 DEF Exists
  <2>2. CASE f \notin Writes(o)
    BY <1>2, <1>5, <2>2 DEF HandlerFresh
  <2> QED
    BY <2>1, <2>2
<1>6. /\ \A s \in Secrets : n.since[s] <= now[s]
      /\ \A f \in Files : d[f] # NoFile => Exists(d[f], n.since)
  BY <1>2 DEF HandlerFresh
<1> QED
  BY <1>2, <1>4, <1>5, <1>6 DEF HandlerFresh, n, o

\* Steps that leave the volume and the stores alone need only look at the
\* handler the driver waits for.
LEMMA FreshHandlerStep ==
  ASSUME FreshInv, UNCHANGED <<latest, disk>>,
         \A c \in Calls : awaiting' = c /\ mount'[c].pc = "loop" =>
           HandlerFresh(mount'[c], disk, latest)
  PROVE  FreshInv'
  BY DEF FreshInv, HandlerFresh, Acceptable, Names, Exists

\* Nor does one that leaves every handler the driver waits for as it was.
LEMMA FreshOtherStep ==
  ASSUME FreshInv, UNCHANGED <<latest, disk>>,
         \A c \in Calls : awaiting' = c /\ mount'[c].pc = "loop" =>
           awaiting = c /\ mount'[c] = mount[c]
  PROVE  FreshInv'
<1>1. \A c \in Calls : awaiting' = c /\ mount'[c].pc = "loop" =>
        HandlerFresh(mount'[c], disk, latest)
  BY DEF FreshInv
<1> QED
  BY <1>1, FreshHandlerStep

\* What exists goes on to exist after a rotation.
LEMMA RotationExists ==
  ASSUME TypeOK, NEW t \in Secrets, RotateSecret(t), NEW k \in Content, Exists(k, latest)
  PROVE  Exists(k, latest')
<1>1. k.ver \in Nat /\ k.secret \in Secrets
  BY BoundsFacts DEF Content
<1>2. latest[k.secret] \in Nat
  BY <1>1, BoundsFacts DEF TypeOK, Cloud
<1>3. latest'[k.secret] \in {latest[k.secret], latest[k.secret] + 1}
  BY <1>1 DEF RotateSecret, TypeOK, Cloud
<1> QED
  BY <1>1, <1>2, <1>3 DEF Exists

\* A rotation leaves fresh what was fresh.
LEMMA RotationFresh ==
  ASSUME TypeOK, NEW t \in Secrets, RotateSecret(t),
         NEW m \in Handler, m.objs \in Specs \cup {<<>>}, HandlerFresh(m, disk, latest)
  PROVE  HandlerFresh(m, disk, latest')
<1>1. \A s \in Secrets : latest[s] \in Nat /\ latest'[s] \in Nat /\ latest[s] <= latest'[s]
  <2>1. \A s \in Secrets : latest[s] \in Nat
    BY BoundsFacts DEF TypeOK, Cloud
  <2>2. \A s \in Secrets : latest'[s] = IF s = t THEN latest[t] + 1 ELSE latest[s]
    BY DEF RotateSecret, TypeOK, Cloud
  <2> QED
    BY <2>1, <2>2
<1>2. \A s \in Secrets : m.since[s] \in Nat
  BY BoundsFacts DEF Handler, Cloud
<1>3. ASSUME NEW i \in DOMAIN m.objs, NEW f \in Files, LastBefore(m.objs, m.next, i, f),
             m.objs[i].pin = None
      PROVE  Acceptable(m.objs[i], f, m.files[f], m.since, latest')
  <2>1. m.objs[i] \in SecretObject
    BY SpecsAssumption
  <2>2. Acceptable(m.objs[i], f, m.files[f], m.since, latest)
    BY <1>3 DEF HandlerFresh
  <2>3. m.files[f] \in Content /\ m.objs[i].secret \in Secrets
    BY <2>1, <2>2, ExtractionTypes DEF Acceptable, Handler, FileMap
  <2>4. m.files[f].ver \in Nat
    BY <2>3, BoundsFacts DEF Content
  <2> QED
    BY <1>1, <2>2, <2>3, <2>4 DEF Acceptable
<1>4. \A s \in Secrets : m.since[s] <= latest'[s]
  BY <1>1, <1>2 DEF HandlerFresh
<1>5. ASSUME NEW f \in Files, m.files[f] # NoFile PROVE Exists(m.files[f], latest')
  <2>1. m.files[f] \in Content /\ Exists(m.files[f], latest)
    BY <1>5 DEF HandlerFresh, Handler, FileMap
  <2> QED
    BY <2>1, RotationExists
<1> QED
  BY <1>3, <1>4, <1>5 DEF HandlerFresh

\* Nothing is mounted or gathered at first.
LEMMA FreshInit == Init => FreshInv
<1> SUFFICES ASSUME Init PROVE FreshInv
  OBVIOUS
<1>1. \A f \in Files : disk[f] = NoFile
  BY DEF Init, NoFiles
<1>2. \A c \in Calls : awaiting # c
  BY CallsAssumption DEF Init
<1> QED
  BY <1>1, <1>2 DEF FreshInv

\* Every step keeps the invariant.
LEMMA FreshStep == TypeOK /\ FreshInv /\ [Next]_vars => FreshInv'
<1> SUFFICES ASSUME TypeOK, FreshInv, [Next]_vars PROVE FreshInv'
  OBVIOUS
<1> USE CallsAssumption
<1>1. ASSUME NEW c \in Calls, Begin(c) PROVE FreshInv'
  <2>1. ASSUME NEW a \in Calls, awaiting' = a, mount'[a].pc = "loop"
        PROVE  HandlerFresh(mount'[a], disk, latest)
    <3>1. a = c
      BY <1>1, <2>1 DEF Begin
    <3>2. /\ mount'[c].since = latest /\ mount'[c].next = 1 /\ mount'[c].objs = spc
          /\ mount'[c].files = NoFiles
      BY <1>1 DEF Begin, TypeOK, Idle
    <3>3. \A s \in Secrets : latest[s] \in Nat
      BY BoundsFacts DEF TypeOK, Cloud
    <3>4. \A i \in DOMAIN spc : i \in Nat /\ i >= 1
      BY SpecsAssumption DEF TypeOK
    <3>5. \A f \in Files : mount'[c].files[f] = NoFile
      BY <3>2 DEF NoFiles
    <3>6. \A f \in Files : disk[f] # NoFile => Exists(disk[f], latest)
      BY DEF FreshInv
    <3>7. \A i \in DOMAIN spc : ~(i < 1)
      BY <3>4
    <3> QED
      BY <3>1, <3>2, <3>3, <3>5, <3>6, <3>7 DEF HandlerFresh, LastBefore
  <2> QED
    BY <1>1, <2>1, FreshHandlerStep DEF Begin, env, volume
<1>2. ASSUME NEW c \in Calls, ReloadSecret(c) PROVE FreshInv'
  <2>1. PICK o : /\ AtObject(c, o) /\ IsCurrent(o, mount[c].cur) /\ Reloadable(o)
                 /\ mount' = [mount EXCEPT ![c] =
                       AddSecret(@, o, disk[o.file], mount[c].cur[o.file])]
                 /\ UNCHANGED <<env, volume, awaiting, faults>>
    BY <1>2 DEF ReloadSecret
  <2>2. /\ o \in SecretObject /\ mount[c] \in Handler /\ mount[c].objs \in Specs
        /\ mount[c].next \in DOMAIN mount[c].objs /\ mount[c].pc = "loop"
        /\ o = mount[c].objs[mount[c].next]
    BY <2>1, ObjectType DEF AtObject
  <2>3. disk[o.file] \in Content /\ mount[c].cur[o.file] \in Versions \cup {None}
    BY <2>1, <2>2, ReloadType, ExtractionTypes DEF Handler, VersionMap
  <2>4. ASSUME awaiting = c
        PROVE  HandlerFresh(AddSecret(mount[c], o, disk[o.file], mount[c].cur[o.file]),
                            disk, latest)
    <3>1. HandlerFresh(mount[c], disk, latest)
      BY <2>2, <2>4 DEF FreshInv
    <3>2. Exists(disk[o.file], latest) /\ o.pin # None
      BY <2>1, <2>2, ExtractionTypes DEF FreshInv, Reloadable, IsCurrent
    <3> QED
      BY <2>2, <2>3, <3>1, <3>2, AddSecretFresh
  <2>5. ASSUME NEW a \in Calls, awaiting' = a, mount'[a].pc = "loop"
        PROVE  HandlerFresh(mount'[a], disk, latest)
    BY <2>1, <2>4, <2>5 DEF FreshInv, TypeOK
  <2> QED
    BY <2>1, <2>5, FreshHandlerStep DEF env, volume
<1>3. ASSUME NEW c \in Calls, GetSecret(c) PROVE FreshInv'
  <2>1. PICK o : /\ AtObject(c, o) /\ Obtainable(o) /\ Extractable(o, FetchSecret(o))
                 /\ mount' = [mount EXCEPT ![c] =
                       AddSecret(@, o, FetchSecret(o), ReportedVersion(o))]
                 /\ UNCHANGED <<env, volume, awaiting, faults>>
    BY <1>3 DEF GetSecret
  <2>2. /\ o \in SecretObject /\ mount[c] \in Handler /\ mount[c].objs \in Specs
        /\ mount[c].next \in DOMAIN mount[c].objs /\ mount[c].pc = "loop"
        /\ o = mount[c].objs[mount[c].next]
    BY <2>1, ObjectType DEF AtObject
  <2>3. FetchSecret(o) \in Content /\ ReportedVersion(o) \in Versions \cup {None}
    BY <2>2, FetchType
  <2>4. ASSUME awaiting = c
        PROVE  HandlerFresh(AddSecret(mount[c], o, FetchSecret(o), ReportedVersion(o)),
                            disk, latest)
    <3>1. HandlerFresh(mount[c], disk, latest)
      BY <2>2, <2>4 DEF FreshInv
    <3>2. \A s \in Secrets : mount[c].since[s] <= latest[s]
      BY <3>1 DEF HandlerFresh
    <3>3. Serves(o, FetchSecret(o), mount[c].since, latest)
      BY <2>1, <2>2, <3>2, FetchServes
    <3>4. Exists(FetchSecret(o), latest)
      BY <3>3 DEF Serves, Exists
    <3> QED
      BY <2>2, <2>3, <3>1, <3>3, <3>4, AddSecretFresh
  <2>5. ASSUME NEW a \in Calls, awaiting' = a, mount'[a].pc = "loop"
        PROVE  HandlerFresh(mount'[a], disk, latest)
    BY <2>1, <2>4, <2>5 DEF FreshInv, TypeOK
  <2> QED
    BY <2>1, <2>5, FreshHandlerStep DEF env, volume
<1>4. ASSUME NEW c \in Calls, ObjectFails(c) PROVE FreshInv'
  BY <1>4, FreshOtherStep DEF ObjectFails, TypeOK, Idle, env, volume
<1>5. ASSUME NEW c \in Calls, Stumble(c) PROVE FreshInv'
  BY <1>5, FreshOtherStep DEF Stumble, TypeOK, Idle, env, volume
<1>6. ASSUME NEW c \in Calls, Receive(c) PROVE FreshInv'
  <2>1. /\ disk' = mount[c].files /\ latest' = latest
        /\ awaiting' = NoCall /\ HandlerFresh(mount[c], disk, latest)
    BY <1>6 DEF Receive, Answered, FreshInv, env
  <2> QED
    BY <2>1 DEF FreshInv, HandlerFresh
<1>7. ASSUME NEW c \in Calls, ReceiveError(c) PROVE FreshInv'
  BY <1>7, FreshOtherStep DEF ReceiveError, env, volume
<1>8. ASSUME NEW c \in Calls, Drop(c) PROVE FreshInv'
  BY <1>8, FreshOtherStep DEF Drop, TypeOK, env, volume
<1>9. CASE Save
  BY <1>9, FreshOtherStep DEF Save, env
<1>10. CASE SaveLost
  BY <1>10, FreshOtherStep DEF SaveLost, env
<1>11. CASE GiveUp
  BY <1>11, FreshOtherStep DEF GiveUp, env, volume
<1>12. CASE ProviderRestart
  BY <1>12, FreshOtherStep DEF ProviderRestart, env, volume
<1>13. CASE PodReplaced
  <2>1. (\A f \in Files : disk'[f] = NoFile) /\ awaiting' = NoCall
    BY <1>13 DEF PodReplaced, NoFiles
  <2> QED
    BY <2>1 DEF FreshInv
<1>14. ASSUME NEW t \in Secrets, RotateSecret(t) PROVE FreshInv'
  <2>1. UNCHANGED <<mount, disk, awaiting>>
    BY <1>14 DEF RotateSecret, volume
  <2>2. ASSUME NEW c \in Calls, awaiting = c, mount[c].pc = "loop"
        PROVE  HandlerFresh(mount[c], disk, latest')
    BY <1>14, <2>2, RotationFresh DEF FreshInv, TypeOK, Handler
  <2>3. ASSUME NEW f \in Files, disk[f] # NoFile PROVE Exists(disk[f], latest')
    BY <1>14, <2>3, RotationExists DEF FreshInv, TypeOK, FileMap
  <2> QED
    BY <2>1, <2>2, <2>3 DEF FreshInv
<1>15. CASE EditClass
  BY <1>15, FreshOtherStep DEF EditClass, volume
<1>16. CASE UNCHANGED vars
  BY <1>16, FreshOtherStep DEF vars, env, volume
<1> QED
  BY <1>1, <1>2, <1>3, <1>4, <1>5, <1>6, <1>7, <1>8, <1>9, <1>10, <1>11, <1>12,
     <1>13, <1>14, <1>15, <1>16 DEF Next

\* The files of the volume exist, and what the handler the driver waits for has
\* gathered is not too old: for all lists, pins and losses.
THEOREM FilesAge == Spec => []FreshInv
<1> QED
  BY TypeCorrect, FreshInit, FreshStep, PTL DEF Spec

\* The handler that is at its end has gathered all of its list.
LEMMA AnsweredAll ==
  ASSUME TypeOK, NEW c \in Calls, Answered(c)
  PROVE  \A i \in DOMAIN mount[c].objs : i < mount[c].next
<1>1. mount[c] \in Handler
  BY DEF TypeOK
<1>2. mount[c].objs \in Seq(SecretObject)
  <2>1. mount[c].objs \in Specs \cup {<<>>}
    BY <1>1 DEF Handler
  <2>2. <<>> \in Seq(SecretObject)
    OBVIOUS
  <2> QED
    BY <2>1, <2>2, SpecsAssumption
<1> QED
  BY <1>1, <1>2 DEF Answered, Handler

\* What is mounted for an object without a pin is acceptable.
UnpinnedFresh ==
  \A c \in Calls : awaiting = c /\ Answered(c) =>
    LET m == mount[c] IN
    \A i \in DOMAIN m.objs : \A f \in Files :
      Last(m.objs, i, f) /\ m.objs[i].pin = None =>
        Acceptable(m.objs[i], f, m.files[f], m.since, latest)

\* The driver never mounts a file of an object without a pin from another secret
\* or at a version older than the call, whatever the files of the class stand for
\* and whatever the driver recorded: isCurrent never reads such an object back.
THEOREM UnpinnedAreFresh == Spec => []UnpinnedFresh
<1>1. TypeOK /\ FreshInv => UnpinnedFresh
  <2> SUFFICES ASSUME TypeOK, FreshInv, NEW c \in Calls, awaiting = c, Answered(c),
                      NEW i \in DOMAIN mount[c].objs, NEW f \in Files,
                      Last(mount[c].objs, i, f), mount[c].objs[i].pin = None
               PROVE  Acceptable(mount[c].objs[i], f, mount[c].files[f],
                                 mount[c].since, latest)
    BY DEF UnpinnedFresh
  <2>1. HandlerFresh(mount[c], disk, latest)
    BY DEF FreshInv, Answered
  <2>2. LastBefore(mount[c].objs, mount[c].next, i, f)
    BY AnsweredAll, LastAtEnd
  <2> QED
    BY <2>1, <2>2 DEF HandlerFresh
<1> QED
  BY <1>1, TypeCorrect, FilesAge, PTL

\* No answer takes a file of an object without a pin back to an older version.
THEOREM FilesNeverGoBack == Spec => NoRollback
<1> DEFINE Forward == \A q \in Asked : \A i \in DOMAIN q.objs : \A f \in Files :
       /\ Last(q.objs, i, f) /\ q.objs[i].pin = None
       /\ disk[f] # NoFile /\ disk'[f] # NoFile
       /\ disk[f].secret = q.objs[i].secret
       => disk'[f].ver >= disk[f].ver
<1>1. TypeOK /\ TypeOK' /\ FreshInv /\ [Next]_vars => [Forward]_vars
  <2> SUFFICES ASSUME TypeOK, TypeOK', FreshInv, Next,
                      NEW q \in Asked, NEW i \in DOMAIN q.objs, NEW f \in Files,
                      Last(q.objs, i, f), q.objs[i].pin = None, disk[f] # NoFile, disk'[f] # NoFile,
                      disk[f].secret = q.objs[i].secret
               PROVE  disk'[f].ver >= disk[f].ver
    OBVIOUS
  <2>1. PICK c \in Calls : /\ awaiting = c /\ mount[c].pc = "loop"
                           /\ q = [objs |-> mount[c].objs, since |-> mount[c].since]
    BY DEF Asked
  <2>2. mount[c] \in Handler /\ HandlerFresh(mount[c], disk, latest)
    BY <2>1 DEF TypeOK, FreshInv
  <2>3. i \in DOMAIN mount[c].objs /\ Last(mount[c].objs, i, f)
    BY <2>1
  <2>5. disk[f].ver \in Nat /\ disk'[f].ver \in Nat /\ mount[c].since[disk[f].secret] \in Nat
    BY <2>2, BoundsFacts DEF TypeOK, FileMap, Content, Handler, Cloud
  <2>6. disk[f].ver <= mount[c].since[disk[f].secret]
    BY <2>2 DEF HandlerFresh, Exists
  <2>7. ASSUME NEW a \in Calls, Receive(a) PROVE disk'[f].ver >= disk[f].ver
    <3>1. a = c /\ Answered(c) /\ disk' = mount[c].files
      BY <2>1, <2>7 DEF Receive
    <3>2. LastBefore(mount[c].objs, mount[c].next, i, f)
      BY <2>3, <3>1, AnsweredAll, LastAtEnd
    <3>3. Acceptable(mount[c].objs[i], f, disk'[f], mount[c].since, latest)
      BY <2>1, <2>2, <2>3, <3>1, <3>2 DEF HandlerFresh
    <3>4. mount[c].since[disk[f].secret] <= disk'[f].ver
      BY <2>1, <3>3 DEF Acceptable
    <3> QED
      BY <2>5, <2>6, <3>4
  <2>8. CASE PodReplaced
    BY <2>8 DEF PodReplaced, NoFiles
  <2>9. CASE disk' = disk
    BY <2>5, <2>9
  <2> QED
    BY <2>7, <2>8, <2>9
    DEF Next, Begin, ReloadSecret, GetSecret, ObjectFails, Stumble, ReceiveError, Drop,
        Save, SaveLost, GiveUp, ProviderRestart, RotateSecret, EditClass, volume
<1> QED
  BY <1>1, TypeCorrect, FilesAge, PTL DEF Spec, NoRollback

-----------------------------------------------------------------------------
(* What the files stand for: the files of pinned objects are stable.       *)

\* The inductive invariant that AnswerFresh needs beside the other: the files of
\* the volume, and those gathered, hold what they stand for.
HandlerNames(m) ==
  /\ Gathered(m)
  /\ \A i \in DOMAIN m.objs : \A f \in Files : LastBefore(m.objs, m.next, i, f) =>
       m.files[f] # NoFile /\ Names(m.objs[i], f, m.files[f])

NamesInv ==
  /\ \A f \in Files : disk[f] # NoFile =>
       \E s \in Specs : \E i \in DOMAIN s : f \in Writes(s[i]) /\ Names(s[i], f, disk[f])
  /\ \A c \in Calls : awaiting = c /\ mount[c].pc = "loop" => HandlerNames(mount[c])

\* The value k is the secret of object o, and all of it if o's file is for that.
RightSecret(o, k) ==
  k.secret = o.secret /\ (o.file \notin DOMAIN o.jmes => k.part = Whole)

\* A handler that adds the secret of the object it is at keeps the names.
LEMMA AddSecretNames ==
  ASSUME NEW m \in Handler, HandlerNames(m),
         m.objs \in Specs, m.next \in DOMAIN m.objs,
         NEW k \in Content, NEW v \in Versions \cup {None},
         RightSecret(m.objs[m.next], k)
  PROVE  HandlerNames(AddSecret(m, m.objs[m.next], k, v))
<1> DEFINE o == m.objs[m.next]
           n == AddSecret(m, o, k, v)
<1>1. o \in SecretObject /\ DOMAIN m.objs \subseteq Nat
  BY SpecsAssumption
<1>2. /\ n.objs = m.objs /\ n.next = m.next + 1
      /\ \A f \in Files :
           n.files[f] = IF f \in Writes(o) THEN Written(o, k, f) ELSE m.files[f]
  BY <1>1, AddSecretType
<1>3. RightSecret(o, k)
  OBVIOUS
<1> HIDE DEF n, o
<1>4. ASSUME NEW i \in DOMAIN m.objs, NEW f \in Files, LastBefore(m.objs, n.next, i, f)
      PROVE  n.files[f] # NoFile /\ Names(m.objs[i], f, n.files[f])
  <2>1. CASE f \in Writes(o)
    <3>1. m.objs[i] = o
      BY <1>1, <1>2, <1>4, <2>1, LastStep DEF o
    <3>2. n.files[f] # NoFile /\ n.files[f].secret = k.secret
          /\ n.files[f].part = PartOf(o, f)
      BY <1>1, <1>2, <1>3, <2>1, WrittenFile DEF RightSecret
    <3> QED
      BY <1>3, <3>1, <3>2 DEF Names, RightSecret
  <2>2. CASE f \notin Writes(o)
    <3>1. LastBefore(m.objs, m.next, i, f)
      BY <1>1, <1>2, <1>4, <2>2, LastStep DEF o
    <3> QED
      BY <1>2, <2>2, <3>1 DEF HandlerNames
  <2> QED
    BY <2>1, <2>2
<1>5. Gathered(n)
  <2>1. Gathered(m)
    BY DEF HandlerNames
  <2> QED
    BY <1>1, <1>2, <2>1, GatheredStep DEF o
<1> QED
  BY <1>2, <1>4, <1>5 DEF HandlerNames, n, o

\* Steps that leave the volume alone need only look at the handler the driver
\* waits for.
LEMMA NamesHandlerStep ==
  ASSUME NamesInv, UNCHANGED disk,
         \A c \in Calls : awaiting' = c /\ mount'[c].pc = "loop" => HandlerNames(mount'[c])
  PROVE  NamesInv'
  BY DEF NamesInv, HandlerNames, Gathered, Names

\* Nor does one that leaves every handler the driver waits for as it was.
LEMMA NamesOtherStep ==
  ASSUME NamesInv, UNCHANGED disk,
         \A c \in Calls : awaiting' = c /\ mount'[c].pc = "loop" =>
           awaiting = c /\ mount'[c] = mount[c]
  PROVE  NamesInv'
<1>1. \A c \in Calls : awaiting' = c /\ mount'[c].pc = "loop" => HandlerNames(mount'[c])
  BY DEF NamesInv
<1> QED
  BY <1>1, NamesHandlerStep

\* A file that is read back is the pinned object's, whatever its version: it has
\* always stood for the same part of the same secret.
LEMMA ReloadNames ==
  ASSUME TypeOK, PinnedFilesStable, NamesInv, NEW c \in Calls, NEW o,
         AtObject(c, o), IsCurrent(o, mount[c].cur), Reloadable(o)
  PROVE  RightSecret(o, disk[o.file])
<1> DEFINE k == disk[o.file]
<1>1. /\ o \in SecretObject /\ mount[c].objs \in Specs /\ o.pin # None
      /\ mount[c].next \in DOMAIN mount[c].objs /\ o = mount[c].objs[mount[c].next]
  BY ObjectType DEF AtObject, IsCurrent
<1>2. o.file \in Files /\ k # NoFile
  BY <1>1, ExtractionTypes DEF Reloadable
<1>3. PICK s \in Specs : \E i \in DOMAIN s : o.file \in Writes(s[i]) /\ Names(s[i], o.file, k)
  BY <1>2 DEF NamesInv
<1>4. PICK i \in DOMAIN s : o.file \in Writes(s[i]) /\ Names(s[i], o.file, k)
  BY <1>3
<1>5. s[i].secret = o.secret /\ PartOf(s[i], o.file) = PartOf(o, o.file)
  BY <1>1, <1>4 DEF PinnedFilesStable
<1> QED
  BY <1>4, <1>5 DEF Names, RightSecret, PartOf

\* Nothing is mounted or gathered at first.
LEMMA NamesInit == Init => NamesInv
<1> SUFFICES ASSUME Init PROVE NamesInv
  OBVIOUS
<1>1. \A f \in Files : disk[f] = NoFile
  BY DEF Init, NoFiles
<1>2. \A c \in Calls : awaiting # c
  BY CallsAssumption DEF Init
<1> QED
  BY <1>1, <1>2 DEF NamesInv

\* Every step keeps the names.
LEMMA NamesStep ==
  ASSUME PinnedFilesStable
  PROVE  TypeOK /\ NamesInv /\ [Next]_vars => NamesInv'
<1> SUFFICES ASSUME TypeOK, NamesInv, [Next]_vars PROVE NamesInv'
  OBVIOUS
<1> USE CallsAssumption
<1>1. ASSUME NEW c \in Calls, Begin(c) PROVE NamesInv'
  <2>1. ASSUME NEW a \in Calls, awaiting' = a, mount'[a].pc = "loop"
        PROVE  HandlerNames(mount'[a])
    <3>1. a = c
      BY <1>1, <2>1 DEF Begin
    <3>2. /\ mount'[c].next = 1 /\ mount'[c].objs = spc
          /\ mount'[c].files = NoFiles
      BY <1>1 DEF Begin, TypeOK, Idle
    <3>3. \A i \in DOMAIN spc : ~(i < 1)
      BY SpecsAssumption DEF TypeOK
    <3>4. \A f \in Files : mount'[c].files[f] = NoFile
      BY <3>2 DEF NoFiles
    <3> QED
      BY <3>1, <3>2, <3>3, <3>4 DEF HandlerNames, Gathered, LastBefore
  <2> QED
    BY <1>1, <2>1, NamesHandlerStep DEF Begin, volume
<1>2. ASSUME NEW c \in Calls, ReloadSecret(c) PROVE NamesInv'
  <2>1. PICK o : /\ AtObject(c, o) /\ IsCurrent(o, mount[c].cur) /\ Reloadable(o)
                 /\ mount' = [mount EXCEPT ![c] =
                       AddSecret(@, o, disk[o.file], mount[c].cur[o.file])]
                 /\ UNCHANGED <<env, volume, awaiting, faults>>
    BY <1>2 DEF ReloadSecret
  <2>2. /\ o \in SecretObject /\ mount[c] \in Handler /\ mount[c].objs \in Specs
        /\ mount[c].next \in DOMAIN mount[c].objs /\ mount[c].pc = "loop"
        /\ o = mount[c].objs[mount[c].next]
    BY <2>1, ObjectType DEF AtObject
  <2>3. disk[o.file] \in Content /\ mount[c].cur[o.file] \in Versions \cup {None}
    BY <2>1, <2>2, ReloadType, ExtractionTypes DEF Handler, VersionMap
  <2>4. RightSecret(o, disk[o.file])
    BY <2>1, ReloadNames
  <2>5. awaiting = c =>
          HandlerNames(AddSecret(mount[c], o, disk[o.file], mount[c].cur[o.file]))
    BY <2>2, <2>3, <2>4, AddSecretNames DEF NamesInv
  <2>6. ASSUME NEW a \in Calls, awaiting' = a, mount'[a].pc = "loop"
        PROVE  HandlerNames(mount'[a])
    BY <2>1, <2>5, <2>6 DEF NamesInv, TypeOK
  <2> QED
    BY <2>1, <2>6, NamesHandlerStep DEF volume
<1>3. ASSUME NEW c \in Calls, GetSecret(c) PROVE NamesInv'
  <2>1. PICK o : /\ AtObject(c, o)
                 /\ mount' = [mount EXCEPT ![c] =
                       AddSecret(@, o, FetchSecret(o), ReportedVersion(o))]
                 /\ UNCHANGED <<env, volume, awaiting, faults>>
    BY <1>3 DEF GetSecret
  <2>2. /\ o \in SecretObject /\ mount[c] \in Handler /\ mount[c].objs \in Specs
        /\ mount[c].next \in DOMAIN mount[c].objs /\ mount[c].pc = "loop"
        /\ o = mount[c].objs[mount[c].next]
    BY <2>1, ObjectType DEF AtObject
  <2>3. FetchSecret(o) \in Content /\ ReportedVersion(o) \in Versions \cup {None}
    BY <2>2, FetchType
  <2>4. RightSecret(o, FetchSecret(o))
    BY DEF RightSecret, FetchSecret
  <2>5. awaiting = c => HandlerNames(AddSecret(mount[c], o, FetchSecret(o), ReportedVersion(o)))
    BY <2>2, <2>3, <2>4, AddSecretNames DEF NamesInv
  <2>6. ASSUME NEW a \in Calls, awaiting' = a, mount'[a].pc = "loop"
        PROVE  HandlerNames(mount'[a])
    BY <2>1, <2>5, <2>6 DEF NamesInv, TypeOK
  <2> QED
    BY <2>1, <2>6, NamesHandlerStep DEF volume
<1>4. ASSUME NEW c \in Calls, ObjectFails(c) PROVE NamesInv'
  BY <1>4, NamesOtherStep DEF ObjectFails, TypeOK, Idle, volume
<1>5. ASSUME NEW c \in Calls, Stumble(c) PROVE NamesInv'
  BY <1>5, NamesOtherStep DEF Stumble, TypeOK, Idle, volume
<1>6. ASSUME NEW c \in Calls, Receive(c) PROVE NamesInv'
  <2> DEFINE m == mount[c]
  <2>1. /\ disk' = m.files /\ awaiting' = NoCall /\ m \in Handler /\ HandlerNames(m)
    BY <1>6 DEF Receive, Answered, NamesInv, TypeOK
  <2>2. ASSUME NEW f \in Files, disk'[f] # NoFile
        PROVE  \E s \in Specs : \E i \in DOMAIN s :
                 f \in Writes(s[i]) /\ Names(s[i], f, disk'[f])
    <3>1. PICK i \in DOMAIN m.objs : LastBefore(m.objs, m.next, i, f)
      BY <2>1, <2>2 DEF HandlerNames, Gathered
    <3>2. Names(m.objs[i], f, m.files[f]) /\ f \in Writes(m.objs[i])
      BY <2>1, <3>1 DEF HandlerNames, LastBefore
    <3>3. m.objs \in Specs
      BY <2>1, <3>1 DEF Handler
    <3> QED
      BY <2>1, <3>2, <3>3
  <2> QED
    BY <2>1, <2>2 DEF NamesInv, Names
<1>7. ASSUME NEW c \in Calls, ReceiveError(c) PROVE NamesInv'
  BY <1>7, NamesOtherStep DEF ReceiveError, volume
<1>8. ASSUME NEW c \in Calls, Drop(c) PROVE NamesInv'
  BY <1>8, NamesOtherStep DEF Drop, TypeOK, volume
<1>9. CASE Save
  BY <1>9, NamesOtherStep DEF Save
<1>10. CASE SaveLost
  BY <1>10, NamesOtherStep DEF SaveLost
<1>11. CASE GiveUp
  BY <1>11, NamesOtherStep DEF GiveUp, volume
<1>12. CASE ProviderRestart
  BY <1>12, NamesOtherStep DEF ProviderRestart, volume
<1>13. CASE PodReplaced
  <2>1. (\A f \in Files : disk'[f] = NoFile) /\ awaiting' = NoCall
    BY <1>13 DEF PodReplaced, NoFiles
  <2> QED
    BY <2>1 DEF NamesInv
<1>14. ASSUME NEW t \in Secrets, RotateSecret(t) PROVE NamesInv'
  BY <1>14, NamesOtherStep DEF RotateSecret, volume
<1>15. CASE EditClass
  BY <1>15, NamesOtherStep DEF EditClass, volume
<1>16. CASE UNCHANGED vars
  BY <1>16, NamesOtherStep DEF vars, volume
<1> QED
  BY <1>1, <1>2, <1>3, <1>4, <1>5, <1>6, <1>7, <1>8, <1>9, <1>10, <1>11, <1>12,
     <1>13, <1>14, <1>15, <1>16 DEF Next

\* The files of the volume and of the awaited handler hold what they stand for,
\* whatever was recorded.
THEOREM FilesRight ==
  ASSUME PinnedFilesStable
  PROVE  Spec => []NamesInv
<1> QED
  BY TypeCorrect, NamesInit, NamesStep, PTL DEF Spec

\* Even when the driver loses records, every file that is mounted holds the
\* secret it stands for, and an object without a pin is fresh.
THEOREM MountsFresh ==
  ASSUME PinnedFilesStable
  PROVE  Spec => []AnswerFresh
<1>1. TypeOK /\ UnpinnedFresh /\ NamesInv => AnswerFresh
  <2> SUFFICES ASSUME TypeOK, UnpinnedFresh, NamesInv,
                      NEW c \in Calls, awaiting = c, Answered(c),
                      NEW i \in DOMAIN mount[c].objs, NEW f \in Files,
                      Last(mount[c].objs, i, f)
               PROVE  LET m == mount[c] IN
                      /\ m.files[f] # NoFile /\ Names(m.objs[i], f, m.files[f])
                      /\ m.objs[i].pin = None =>
                           Acceptable(m.objs[i], f, m.files[f], m.since, latest)
    BY DEF AnswerFresh
  <2>1. HandlerNames(mount[c])
    BY DEF NamesInv, Answered
  <2>2. LastBefore(mount[c].objs, mount[c].next, i, f)
    BY AnsweredAll, LastAtEnd
  <2> QED
    BY <2>1, <2>2 DEF UnpinnedFresh, HandlerNames
<1> QED
  BY <1>1, TypeCorrect, UnpinnedAreFresh, FilesRight, PTL
=============================================================================
