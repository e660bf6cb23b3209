-------------------------- MODULE SecretMountProofs --------------------------
(***************************************************************************)
(* What holds of SecretMount for every set of files, secrets, handlers and *)
(* object lists.                                                           *)
(***************************************************************************)
EXTENDS SecretMount, TLAPS

-----------------------------------------------------------------------------
(* Types of what a handler computes.                                       *)

\* The volume before the first answer is well typed.
LEMMA EmptyTypes ==
  /\ NoFiles \in FileMap /\ NoVersions \in VersionMap /\ FirstVersions \in Cloud
  BY VersionAssumption
  DEF NoFiles, FileMap, NoVersions, VersionMap, FirstVersions, Cloud, Versions

\* Versions are natural numbers above None; OosVersion is one.
LEMMA BoundsFacts ==
  /\ 1 \in Versions /\ Versions \subseteq Nat /\ None \notin Versions
  /\ OosVersion \in Versions
  BY VersionAssumption DEF Versions, None, OosVersion

\* The extracted parts of an object are paths, and its files are files.
LEMMA ExtractionTypes ==
  ASSUME NEW o \in SecretObject
  PROVE  /\ o.file \in Files /\ o.secret \in Secrets /\ o.pin \in Versions \cup {None}
         /\ DOMAIN o.jmes \subseteq Files
         /\ \A f \in DOMAIN o.jmes : o.jmes[f] \in Paths
         /\ Writes(o) \subseteq Files
<1>1. o.jmes \in Extractions /\ o.file \in Files /\ o.secret \in Secrets
      /\ o.pin \in Versions \cup {None}
  BY DEF SecretObject
<1>2. PICK S \in SUBSET Files : o.jmes \in [S -> Paths]
  BY <1>1 DEF Extractions
<1> QED
  BY <1>1, <1>2 DEF Writes

\* The initial and idle record of a handler is well typed.
LEMMA IdleType == Idle \in Handler /\ [Idle EXCEPT !.pc = "failed"] \in Handler
  BY EmptyTypes DEF Idle, Handler

\* The object a handler is at comes from a list of the class.
LEMMA ObjectType ==
  ASSUME TypeOK, NEW c \in Calls, NEW o, AtObject(c, o)
  PROVE  /\ o \in SecretObject /\ mount[c] \in Handler
         /\ mount[c].objs \in Specs
         /\ mount[c].next \in DOMAIN mount[c].objs
<1>1. mount[c] \in Handler
  BY DEF TypeOK
<1>2. mount[c].objs \in Specs \cup {<<>>} /\ mount[c].next \in Nat \ {0}
  BY <1>1 DEF Handler
<1>3. mount[c].objs # <<>>
  BY <1>2 DEF AtObject
<1>4. mount[c].objs \in Seq(SecretObject)
  BY <1>2, <1>3, SpecsAssumption
<1>5. mount[c].next \in 1 .. Len(mount[c].objs)
  BY <1>2, <1>4 DEF AtObject
<1> QED
  BY <1>1, <1>2, <1>3, <1>4, <1>5 DEF AtObject

\* A handler with another place, other files and other versions is a handler.
LEMMA HandlerUpdate ==
  ASSUME NEW m \in Handler, NEW n \in Nat \ {0}, NEW fs \in FileMap, NEW vs \in VersionMap
  PROVE  [m EXCEPT !.next = n, !.files = fs, !.cur = vs] \in Handler
  BY DEF Handler

\* What is put in the file f of object o when it has the value k.
Written(o, k, f) == [k EXCEPT !.part = IF f \in DOMAIN o.jmes THEN o.jmes[f] ELSE @]

\* Adding a value of an object to a handler's answer keeps the handler well typed.
LEMMA AddSecretType ==
  ASSUME NEW m \in Handler, NEW o \in SecretObject, NEW k \in Content,
         NEW v \in Versions \cup {None}
  PROVE  /\ AddSecret(m, o, k, v) \in Handler
         /\ AddSecret(m, o, k, v).pc = m.pc
         /\ AddSecret(m, o, k, v).objs = m.objs
         /\ AddSecret(m, o, k, v).since = m.since
         /\ AddSecret(m, o, k, v).next = m.next + 1
         /\ \A f \in Files :
              /\ AddSecret(m, o, k, v).cur[f] = IF f \in Writes(o) THEN v ELSE m.cur[f]
              /\ AddSecret(m, o, k, v).files[f] =
                   IF f \in Writes(o) THEN Written(o, k, f) ELSE m.files[f]
<1>1. \A f \in DOMAIN o.jmes : o.jmes[f] \in Paths
  BY ExtractionTypes
<1>2. \A f \in Files : [k EXCEPT !.part = IF f \in DOMAIN o.jmes THEN o.jmes[f] ELSE @] \in Content
  BY <1>1 DEF Content
<1> DEFINE files == [f \in Files |-> IF f \in Writes(o)
                      THEN [k EXCEPT !.part = IF f \in DOMAIN o.jmes THEN o.jmes[f] ELSE @]
                      ELSE m.files[f]]
           cur == [f \in Files |-> IF f \in Writes(o) THEN v ELSE m.cur[f]]
<1>3. m.files \in FileMap /\ m.cur \in VersionMap /\ m.next \in Nat \ {0}
  BY DEF Handler
<1>4. files \in FileMap
  BY <1>2, <1>3 DEF FileMap
<1>5. cur \in VersionMap
  BY <1>3 DEF VersionMap
<1>6. AddSecret(m, o, k, v) = [m EXCEPT !.next = m.next + 1, !.files = files, !.cur = cur]
  BY DEF AddSecret, Handler
<1> HIDE DEF files, cur
<1>7. [m EXCEPT !.next = m.next + 1, !.files = files, !.cur = cur] \in Handler
  <2>1. m.next + 1 \in Nat \ {0}
    BY <1>3
  <2> QED
    BY <1>4, <1>5, <2>1, HandlerUpdate
<1>8. /\ AddSecret(m, o, k, v).pc = m.pc
      /\ AddSecret(m, o, k, v).objs = m.objs
      /\ AddSecret(m, o, k, v).since = m.since
      /\ AddSecret(m, o, k, v).next = m.next + 1
      /\ AddSecret(m, o, k, v).files = files
      /\ AddSecret(m, o, k, v).cur = cur
  BY <1>6 DEF Handler
<1> QED
  BY <1>6, <1>7, <1>8 DEF files, cur, Written

\* A file that is read back and a secret that is fetched are contents.
LEMMA ReloadType ==
  ASSUME TypeOK, NEW o \in SecretObject, Reloadable(o)
  PROVE  disk[o.file] \in Content
  BY ExtractionTypes DEF TypeOK, FileMap, Reloadable

\* A store's answer and the version reported with it are well typed.
LEMMA FetchType ==
  ASSUME TypeOK, NEW o \in SecretObject
  PROVE  /\ AnswerVersion(o) \in Versions
         /\ FetchSecret(o) \in Content
         /\ ReportedVersion(o) \in Versions
<1>1. latest[o.secret] \in Versions
  BY ExtractionTypes DEF TypeOK, Cloud
<1>2. AnswerVersion(o) \in Versions
  BY <1>1, ExtractionTypes DEF AnswerVersion
<1> QED
  BY <1>2, ExtractionTypes, BoundsFacts DEF FetchSecret, Content, ReportedVersion

-----------------------------------------------------------------------------
(* Type correctness.                                                       *)

\* The types hold at first.
LEMMA TypeInit == Init => TypeOK
<1> SUFFICES ASSUME Init PROVE TypeOK
  OBVIOUS
<1>1. saving \in BOOLEAN /\ published \in BOOLEAN
  BY Zenon DEF Init
<1>2. faults \in 0 .. MaxFaults
  BY FaultsAssumption DEF Init
<1> QED
  BY <1>1, <1>2, IdleType, EmptyTypes DEF Init, TypeOK

\* Every action of a handler, the driver or the cloud keeps the types.
LEMMA TypeStep == TypeOK /\ [Next]_vars => TypeOK'
<1> SUFFICES ASSUME TypeOK, [Next]_vars PROVE TypeOK'
  OBVIOUS
<1>1. ASSUME NEW c \in Calls, Begin(c) PROVE TypeOK'
  <2>1. [Idle EXCEPT !.pc = "loop", !.objs = spc, !.since = latest,
                     !.cur = IF published THEN status ELSE NoVersions] \in Handler
    BY IdleType DEF TypeOK, Idle, Handler, VersionMap, NoVersions
  <2> QED
    BY <1>1, <2>1 DEF Begin, TypeOK, env, volume
<1>2. ASSUME NEW c \in Calls, ReloadSecret(c) PROVE TypeOK'
  <2>1. PICK o : /\ AtObject(c, o) /\ Reloadable(o)
                 /\ mount' = [mount EXCEPT ![c] =
                       AddSecret(@, o, disk[o.file], mount[c].cur[o.file])]
                 /\ UNCHANGED <<env, volume, awaiting, faults>>
    BY <1>2 DEF ReloadSecret
  <2>2. o \in SecretObject /\ mount[c] \in Handler
    BY <2>1, ObjectType
  <2>3. disk[o.file] \in Content /\ mount[c].cur[o.file] \in Versions \cup {None}
    BY <2>1, <2>2, ReloadType, ExtractionTypes DEF Handler, VersionMap
  <2>4. AddSecret(mount[c], o, disk[o.file], mount[c].cur[o.file]) \in Handler
    BY <2>2, <2>3, AddSecretType
  <2> QED
    BY <2>1, <2>4 DEF TypeOK, env, volume
<1>3. ASSUME NEW c \in Calls, GetSecret(c) PROVE TypeOK'
  <2>1. PICK o : /\ AtObject(c, o)
                 /\ mount' = [mount EXCEPT ![c] =
                       AddSecret(@, o, FetchSecret(o), ReportedVersion(o))]
                 /\ UNCHANGED <<env, volume, awaiting, faults>>
    BY <1>3 DEF GetSecret
  <2>2. o \in SecretObject /\ mount[c] \in Handler
    BY <2>1, ObjectType
  <2>3. AddSecret(mount[c], o, FetchSecret(o), ReportedVersion(o)) \in Handler
    BY <2>2, FetchType, AddSecretType
  <2> QED
    BY <2>1, <2>3 DEF TypeOK, env, volume
<1>4. ASSUME NEW c \in Calls, ObjectFails(c) PROVE TypeOK'
  BY <1>4, IdleType DEF ObjectFails, TypeOK, env, volume
<1>5. ASSUME NEW c \in Calls, Stumble(c) PROVE TypeOK'
  BY <1>5, IdleType, FaultsAssumption DEF Stumble, TypeOK, env, volume
<1>6. ASSUME NEW c \in Calls, Receive(c) PROVE TypeOK'
  <2>1. mount[c].files \in FileMap /\ mount[c].cur \in VersionMap
    BY DEF TypeOK, Handler
  <2> QED
    BY <1>6, <2>1, IdleType DEF Receive, TypeOK, env
<1>7. ASSUME NEW c \in Calls, ReceiveError(c) PROVE TypeOK'
  BY <1>7, IdleType DEF ReceiveError, TypeOK, env, volume
<1>8. ASSUME NEW c \in Calls, Drop(c) PROVE TypeOK'
  BY <1>8, IdleType DEF Drop, TypeOK, env, volume
<1>9. CASE Save
  BY <1>9 DEF Save, TypeOK, env
<1>10. CASE SaveLost
  <2>1. saving' \in BOOLEAN
    BY <1>10, Zenon DEF SaveLost
  <2>2. faults' \in 0 .. MaxFaults
    BY <1>10, FaultsAssumption DEF SaveLost, TypeOK
  <2> QED
    BY <1>10, <2>1, <2>2 DEF SaveLost, TypeOK, env
<1>11. CASE GiveUp
  BY <1>11, FaultsAssumption DEF GiveUp, TypeOK, env, volume
<1>12. CASE ProviderRestart
  BY <1>12, IdleType, FaultsAssumption DEF ProviderRestart, TypeOK, env, volume
<1>13. CASE PodReplaced
  <2>1. saving' \in BOOLEAN /\ published' \in BOOLEAN
    BY <1>13, Zenon DEF PodReplaced
  <2>2. faults' \in 0 .. MaxFaults
    BY <1>13, FaultsAssumption DEF PodReplaced, TypeOK
  <2> QED
    BY <1>13, <2>1, <2>2, EmptyTypes DEF PodReplaced, TypeOK, env
<1>14. ASSUME NEW s \in Secrets, RotateSecret(s) PROVE TypeOK'
  BY <1>14, VersionAssumption DEF RotateSecret, TypeOK, Cloud, Versions, volume
<1>15. CASE EditClass
  BY <1>15 DEF EditClass, TypeOK, volume
<1>16. CASE UNCHANGED vars
  BY <1>16 DEF vars, env, volume, TypeOK
<1> QED
  BY <1>1, <1>2, <1>3, <1>4, <1>5, <1>6, <1>7, <1>8, <1>9, <1>10, <1>11, <1>12,
     <1>13, <1>14, <1>15, <1>16 DEF Next

\* Every variable keeps its type, for every value of the constants.
THEOREM TypeCorrect == Spec => []TypeOK
<1> QED
  BY TypeInit, TypeStep, PTL DEF Spec

-----------------------------------------------------------------------------
(* The inductive invariant.                                                *)

\* Content k exists at versions now, and some list of the class mounts it at f.
Proper(f, k, now) ==
  /\ k.ver <= now[k.secret]
  /\ k.part # Whole => <<k.secret, k.ver>> \in Documents
  /\ \E s \in Specs : \E i \in DOMAIN s : f \in Writes(s[i]) /\ Names(s[i], f, k)

\* Object i is the last of those before place n that is mounted as file f.
LastBefore(s, n, i, f) ==
  /\ i < n /\ f \in Writes(s[i])
  /\ \A j \in DOMAIN s : i < j /\ j < n => f \notin Writes(s[j])

\* Every file handler m has gathered is there for an object that it has seen.
Gathered(m) ==
  \A f \in Files : m.files[f] # NoFile =>
    \E i \in DOMAIN m.objs : LastBefore(m.objs, m.next, i, f)

\* Handler m on a volume d: what it has gathered is right, and what it was told
\* of a file it has not come to is true of the volume.
HandlerRight(m, d, now) ==
  /\ \A s \in Secrets : m.since[s] <= now[s]
  /\ \A i \in DOMAIN m.objs : \A f \in Files : LastBefore(m.objs, m.next, i, f) =>
       Acceptable(m.objs[i], f, m.files[f], m.since, now) /\ Labels(m.cur[f], m.files[f])
  /\ Gathered(m)
  /\ \A f \in Files : m.files[f] = NoFile /\ d[f] # NoFile /\ m.cur[f] # None =>
       Labels(m.cur[f], d[f])

\* The inductive invariant behind AnswerAcceptable and VersionsHonest.
RecordInv ==
  /\ \A f \in Files : disk[f] # NoFile =>
       Proper(f, disk[f], latest) /\ Labels(answer[f], disk[f])
  /\ ~saving /\ published => status = answer
  /\ \A c \in Calls : awaiting = c /\ mount[c].pc = "loop" =>
       HandlerRight(mount[c], disk, latest)

-----------------------------------------------------------------------------
(* What a handler gathers.                                                 *)

\* The value k is right for object o, whichever of o's files it is put in.
Serves(o, k, since, now) ==
  /\ k.secret = o.secret
  /\ o.file \notin DOMAIN o.jmes => k.part = Whole
  /\ DOMAIN o.jmes # {} => <<k.secret, k.ver>> \in Documents
  /\ k.ver <= now[o.secret]
  /\ o.pin = None => since[o.secret] <= k.ver
  /\ o.pin # None /\ o.secret \in KmsSecrets => k.ver = o.pin

\* In a list of the class, the file of a pinned object belongs to no other.
LEMMA OwnFile ==
  ASSUME PinnedFilesStable, NEW s \in Specs, NEW i \in DOMAIN s, NEW j \in DOMAIN s,
         s[i].pin # None, s[i].file \in Writes(s[j])
  PROVE  i = j
  BY DEF PinnedFilesStable

\* With one more object, that one is the last of its files; of all other files
\* the last is who was it before.
LEMMA LastStep ==
  ASSUME NEW s, DOMAIN s \subseteq Nat, NEW n \in DOMAIN s, NEW i \in DOMAIN s, NEW f
  PROVE  LastBefore(s, n + 1, i, f) <=>
           IF f \in Writes(s[n]) THEN i = n ELSE LastBefore(s, n, i, f)
<1>1. \A j \in DOMAIN s : j \in Nat /\ (j < n + 1 <=> j < n \/ j = n)
  OBVIOUS
<1>2. CASE f \in Writes(s[n])
  BY <1>1, <1>2 DEF LastBefore
<1>3. CASE f \notin Writes(s[n])
  BY <1>1, <1>3 DEF LastBefore
<1> QED
  BY <1>2, <1>3

\* At the end of the list the last so far is the last.
LEMMA LastAtEnd ==
  ASSUME NEW s, NEW n, \A j \in DOMAIN s : j < n, NEW i \in DOMAIN s, NEW f
  PROVE  LastBefore(s, n, i, f) <=> Last(s, i, f)
  BY DEF LastBefore, Last

\* It is of the same version of the same secret, and the part the file is for.
LEMMA WrittenFile ==
  ASSUME NEW o \in SecretObject, NEW k \in Content, NEW f \in Writes(o),
         NEW x, x = Written(o, k, f)
  PROVE  /\ x \in Content /\ x # NoFile /\ x.secret = k.secret /\ x.ver = k.ver
         /\ (o.file \notin DOMAIN o.jmes => k.part = Whole) => x.part = PartOf(o, f)
         /\ \A v : Labels(v, x) <=> Labels(v, k)
<1>1. /\ x \in Content /\ x.secret = k.secret /\ x.ver = k.ver
      /\ x.part = IF f \in DOMAIN o.jmes THEN o.jmes[f] ELSE k.part
  BY ExtractionTypes DEF Content, Written
<1>2. f \notin DOMAIN o.jmes => f = o.file
  BY DEF Writes
<1> QED
  BY <1>1, <1>2, ContentAssumption DEF PartOf, Labels

\* Each of the files a served object writes is acceptable.
LEMMA ServedFile ==
  ASSUME NEW o \in SecretObject, NEW k \in Content, NEW since, NEW now,
         Serves(o, k, since, now), NEW f \in Writes(o), NEW x, x = Written(o, k, f)
  PROVE  Acceptable(o, f, x, since, now)
<1>1. /\ x # NoFile /\ x.secret = k.secret /\ x.ver = k.ver
      /\ (o.file \notin DOMAIN o.jmes => k.part = Whole) => x.part = PartOf(o, f)
  BY WrittenFile
<1>2. x.part = PartOf(o, f)
  BY <1>1 DEF Serves
<1>3. x.part # Whole => DOMAIN o.jmes # {}
  BY <1>2 DEF PartOf
<1> QED
  BY <1>1, <1>2, <1>3 DEF Acceptable, Serves, Names

\* What a handler adds is there for the object it is at.
LEMMA GatheredStep ==
  ASSUME NEW m, NEW n, Gathered(m), DOMAIN m.objs \subseteq Nat, m.next \in DOMAIN m.objs,
         n.objs = m.objs, n.next = m.next + 1,
         \A f \in Files : f \notin Writes(m.objs[m.next]) => n.files[f] = m.files[f]
  PROVE  Gathered(n)
<1> SUFFICES ASSUME NEW f \in Files, n.files[f] # NoFile
             PROVE  \E i \in DOMAIN m.objs : LastBefore(m.objs, m.next + 1, i, f)
  BY DEF Gathered
<1>1. CASE f \in Writes(m.objs[m.next])
  BY <1>1, LastStep
<1>2. CASE f \notin Writes(m.objs[m.next])
  <2>1. PICK i \in DOMAIN m.objs : LastBefore(m.objs, m.next, i, f)
    BY <1>2 DEF Gathered
  <2> QED
    BY <1>2, <2>1, LastStep
<1> QED
  BY <1>1, <1>2

\* A handler that adds a value which serves the object it is at stays right.
LEMMA AddSecretRight ==
  ASSUME NEW m \in Handler, NEW d, NEW now,
         HandlerRight(m, d, now),
         m.objs \in Specs, m.next \in DOMAIN m.objs,
         NEW k \in Content, NEW v \in Versions \cup {None},
         Serves(m.objs[m.next], k, m.since, now), Labels(v, k)
  PROVE  HandlerRight(AddSecret(m, m.objs[m.next], k, v), d, now)
<1> DEFINE o == m.objs[m.next]
           n == AddSecret(m, o, k, v)
<1>1. o \in SecretObject /\ DOMAIN m.objs \subseteq Nat
  BY SpecsAssumption
<1>2. /\ n.objs = m.objs /\ n.since = m.since /\ n.next = m.next + 1 /\ m.next \in Nat
      /\ \A f \in Files :
           /\ n.cur[f] = IF f \in Writes(o) THEN v ELSE m.cur[f]
           /\ n.files[f] = IF f \in Writes(o) THEN Written(o, k, f) ELSE m.files[f]
  BY <1>1, AddSecretType DEF Handler
<1>3. \A f \in Writes(o) : f \in Files
  BY <1>1, ExtractionTypes
<1>s. Serves(o, k, m.since, now)
  OBVIOUS
<1> HIDE DEF n, o
<1>4. ASSUME NEW f \in Writes(o)
      PROVE  Acceptable(o, f, n.files[f], m.since, now) /\ Labels(n.cur[f], n.files[f])
  <2>1. n.cur[f] = v /\ n.files[f] = Written(o, k, f)
    BY <1>2, <1>3
  <2>2. Acceptable(o, f, n.files[f], m.since, now)
    BY <2>1, <1>1, <1>s, ServedFile
  <2> QED
    BY <2>1, <2>2, <1>1, WrittenFile
<1>5. ASSUME NEW i \in DOMAIN m.objs, NEW f \in Files, LastBefore(m.objs, n.next, i, f)
      PROVE  Acceptable(m.objs[i], f, n.files[f], m.since, now) /\ Labels(n.cur[f], n.files[f])
  <2>1. CASE f \in Writes(o)
    <3>1. i = m.next
      BY <1>1, <1>2, <1>5, <2>1, LastStep DEF o
    <3> QED
      BY <2>1, <3>1, <1>4 DEF o
  <2>2. CASE f \notin Writes(o)
    <3>1. LastBefore(m.objs, m.next, i, f)
      BY <1>1, <1>2, <1>5, <2>2, LastStep DEF o
    <3>2. n.files[f] = m.files[f] /\ n.cur[f] = m.cur[f]
      BY <1>2, <2>2
    <3> QED
      BY <3>1, <3>2 DEF HandlerRight
  <2> QED
    BY <2>1, <2>2
<1>6. Gathered(n)
  <2>1. Gathered(m)
    BY DEF HandlerRight
  <2> QED
    BY <1>1, <1>2, <2>1, GatheredStep DEF o
<1>7. ASSUME NEW f \in Files, n.files[f] = NoFile, d[f] # NoFile, n.cur[f] # None
      PROVE  Labels(n.cur[f], d[f])
  <2>1. f \notin Writes(o)
    BY <1>4, <1>7 DEF Acceptable
  <2> QED
    BY <2>1, <1>2, <1>7 DEF HandlerRight
<1>8. \A s \in Secrets : n.since[s] <= now[s]
  BY <1>2 DEF HandlerRight
<1> QED
  BY <1>2, <1>5, <1>6, <1>7, <1>8 DEF HandlerRight, n, o

-----------------------------------------------------------------------------
(* The records of the driver and what its handler gathers stay right.      *)

\* Steps that leave the volume and the stores alone need only look at the
\* handler the driver waits for.
LEMMA HandlerStep ==
  ASSUME RecordInv, UNCHANGED <<latest, volume>>,
         \A c \in Calls : awaiting' = c /\ mount'[c].pc = "loop" =>
           HandlerRight(mount'[c], disk, latest)
  PROVE  RecordInv'
  BY DEF RecordInv, volume, Labels, Proper, HandlerRight

\* Nor does one that leaves every handler the driver waits for as it was.
LEMMA OtherHandlerStep ==
  ASSUME RecordInv, UNCHANGED <<latest, volume>>,
         \A c \in Calls : awaiting' = c /\ mount'[c].pc = "loop" =>
           awaiting = c /\ mount'[c] = mount[c]
  PROVE  RecordInv'
<1>1. \A c \in Calls : awaiting' = c /\ mount'[c].pc = "loop" =>
        HandlerRight(mount'[c], disk, latest)
  BY DEF RecordInv
<1> QED
  BY <1>1, HandlerStep

\* A rotation leaves right what was right.
LEMMA RotationRight ==
  ASSUME TypeOK, NEW t \in Secrets, RotateSecret(t),
         NEW m \in Handler, m.objs \in Specs \cup {<<>>}, HandlerRight(m, disk, latest)
  PROVE  HandlerRight(m, disk, latest')
<1>1. \A s \in Secrets : latest[s] \in Nat /\ latest'[s] \in Nat /\ latest[s] <= latest'[s]
  <2>1. \A s \in Secrets : latest[s] \in Nat
    BY BoundsFacts DEF TypeOK, Cloud
  <2>2. \A s \in Secrets : latest'[s] = IF s = t THEN latest[t] + 1 ELSE latest[s]
    BY DEF RotateSecret, TypeOK, Cloud
  <2> QED
    BY <2>1, <2>2
<1>2. \A s \in Secrets : m.since[s] \in Nat
  BY BoundsFacts DEF Handler, Cloud
<1>3. ASSUME NEW i \in DOMAIN m.objs, NEW f \in Files, LastBefore(m.objs, m.next, i, f)
      PROVE  Acceptable(m.objs[i], f, m.files[f], m.since, latest')
  <2>1. m.objs[i] \in SecretObject
    BY SpecsAssumption
  <2>2. Acceptable(m.objs[i], f, m.files[f], m.since, latest)
    BY <1>3 DEF HandlerRight
  <2>3. m.files[f] \in Content /\ m.objs[i].secret \in Secrets
    BY <2>1, <2>2, ExtractionTypes DEF Acceptable, Handler, FileMap
  <2>4. m.files[f].ver \in Nat
    BY <2>3, BoundsFacts DEF Content
  <2> QED
    BY <1>1, <2>2, <2>3, <2>4 DEF Acceptable
<1>4. \A s \in Secrets : m.since[s] <= latest'[s]
  BY <1>1, <1>2 DEF HandlerRight
<1> QED
  BY <1>3, <1>4 DEF HandlerRight

\* The object that a current record lets the handler read back is served by
\* what is read: the record is of the file, and the file is of the object.
LEMMA ReloadServes ==
  ASSUME TypeOK, PinnedFilesStable, RecordInv, NEW c \in Calls, awaiting = c, NEW o,
         AtObject(c, o), IsCurrent(o, mount[c].cur), Reloadable(o)
  PROVE  /\ Serves(o, disk[o.file], mount[c].since, latest)
         /\ Labels(mount[c].cur[o.file], disk[o.file])
<1> DEFINE m == mount[c]
           k == disk[o.file]
<1>1. /\ m \in Handler /\ m.objs \in Specs /\ m.next \in DOMAIN m.objs
      /\ o \in SecretObject /\ o = m.objs[m.next] /\ HandlerRight(m, disk, latest)
  BY ObjectType DEF RecordInv, AtObject
<1>2. o.file \in Writes(o) /\ o.file \in Files /\ k # NoFile /\ k \in Content
  BY <1>1, ExtractionTypes, ReloadType DEF Writes, Reloadable
<1>3. m.files[o.file] = NoFile
  <2>1. SUFFICES ASSUME m.files[o.file] # NoFile PROVE FALSE
    OBVIOUS
  <2>2. PICK i \in DOMAIN m.objs : i < m.next /\ o.file \in Writes(m.objs[i])
    BY <1>1, <1>2, <2>1 DEF HandlerRight, Gathered, LastBefore
  <2>3. i = m.next
    BY <1>1, <2>2, OwnFile DEF IsCurrent
  <2> QED
    BY <1>1, <2>2, <2>3, SpecsAssumption
<1>4. Labels(m.cur[o.file], k)
  BY <1>1, <1>2, <1>3, BoundsFacts, ExtractionTypes DEF HandlerRight, IsCurrent
<1>5. k.secret = o.secret /\ k.part = PartOf(o, o.file)
  <2>1. PICK s \in Specs : \E i \in DOMAIN s : o.file \in Writes(s[i]) /\ Names(s[i], o.file, k)
    BY <1>2 DEF RecordInv, Proper
  <2>2. PICK i \in DOMAIN s : o.file \in Writes(s[i]) /\ Names(s[i], o.file, k)
    BY <2>1
  <2>3. s[i].secret = o.secret /\ PartOf(s[i], o.file) = PartOf(o, o.file)
    BY <1>1, <2>2 DEF PinnedFilesStable, IsCurrent
  <2> QED
    BY <2>2, <2>3 DEF Names
<1>6. k.ver <= latest[o.secret]
  BY <1>2, <1>5 DEF RecordInv, Proper
<1>7. o.pin # None /\ o.secret \in KmsSecrets => k.ver = o.pin
  BY <1>4, <1>5 DEF Labels, IsCurrent
<1>8. /\ o.file \notin DOMAIN o.jmes => k.part = Whole
      /\ DOMAIN o.jmes # {} => <<k.secret, k.ver>> \in Documents
  BY <1>5 DEF PartOf, Reloadable, Extractable
<1> QED
  BY <1>4, <1>5, <1>6, <1>7, <1>8 DEF Serves, IsCurrent

\* What a store answers serves the object it was asked for.
LEMMA FetchServes ==
  ASSUME TypeOK, NEW m \in Handler, NEW o \in SecretObject,
         \A s \in Secrets : m.since[s] <= latest[s],
         Obtainable(o), Extractable(o, FetchSecret(o))
  PROVE  /\ Serves(o, FetchSecret(o), m.since, latest)
         /\ Labels(ReportedVersion(o), FetchSecret(o))
<1>1. /\ FetchSecret(o).secret = o.secret /\ FetchSecret(o).ver = AnswerVersion(o)
      /\ FetchSecret(o).part = Whole
  BY DEF FetchSecret
<1>2. o.pin = None => AnswerVersion(o) = latest[o.secret]
  BY DEF AnswerVersion
<1>3. o.pin # None /\ o.secret \in KmsSecrets => AnswerVersion(o) = o.pin
  BY DEF AnswerVersion
<1>4. o.secret \in Secrets
  BY ExtractionTypes
<1> QED
  BY <1>1, <1>2, <1>3, <1>4 DEF Serves, Labels, ReportedVersion, Obtainable, Extractable

\* Nothing is mounted, recorded or gathered at first.
LEMMA RecordInit == Init => RecordInv
<1> SUFFICES ASSUME Init PROVE RecordInv
  OBVIOUS
<1>1. \A f \in Files : disk[f] = NoFile
  BY DEF Init, NoFiles
<1>2. published = FALSE
  BY DEF Init
<1>3. \A c \in Calls : awaiting # c
  BY CallsAssumption DEF Init
<1> QED
  BY <1>1, <1>2, <1>3 DEF RecordInv

\* Every step keeps the invariant: the names are stable and no record is lost.
LEMMA RecordStep ==
  ASSUME PinnedFilesStable, ~SaveCanFail
  PROVE  TypeOK /\ RecordInv /\ [Next]_vars => RecordInv'
<1> SUFFICES ASSUME TypeOK, RecordInv, [Next]_vars PROVE RecordInv'
  OBVIOUS
<1> USE CallsAssumption
<1>1. ASSUME NEW c \in Calls, Begin(c) PROVE RecordInv'
  <2>1. ASSUME NEW a \in Calls, awaiting' = a, mount'[a].pc = "loop"
        PROVE  HandlerRight(mount'[a], disk, latest)
    <3>1. a = c /\ ~saving
      BY <1>1, <2>1 DEF Begin
    <3>2. /\ mount'[c].since = latest /\ mount'[c].next = 1 /\ mount'[c].objs = spc
          /\ mount'[c].files = NoFiles
          /\ mount'[c].cur = IF published THEN status ELSE NoVersions
      BY <1>1 DEF Begin, TypeOK, Idle
    <3>3. \A s \in Secrets : latest[s] \in Nat
      BY BoundsFacts DEF TypeOK, Cloud
    <3>4. \A f \in Files : disk[f] # NoFile /\ mount'[c].cur[f] # None =>
            Labels(mount'[c].cur[f], disk[f])
      BY <3>1, <3>2 DEF RecordInv, NoVersions
    <3>5. \A i \in DOMAIN spc : i \in Nat /\ i >= 1
      BY SpecsAssumption DEF TypeOK
    <3>6. \A f \in Files : mount'[c].files[f] = NoFile
      BY <3>2 DEF NoFiles
    <3>7. \A i \in DOMAIN spc : ~(i < 1)
      BY <3>5
    <3> QED
      BY <3>1, <3>2, <3>3, <3>4, <3>6, <3>7 DEF HandlerRight, Gathered, LastBefore
  <2> QED
    BY <1>1, <2>1, HandlerStep DEF Begin, env
<1>2. ASSUME NEW c \in Calls, ReloadSecret(c) PROVE RecordInv'
  <2>1. PICK o : /\ AtObject(c, o) /\ IsCurrent(o, mount[c].cur) /\ Reloadable(o)
                 /\ mount' = [mount EXCEPT ![c] =
                       AddSecret(@, o, disk[o.file], mount[c].cur[o.file])]
                 /\ UNCHANGED <<env, volume, awaiting, faults>>
    BY <1>2 DEF ReloadSecret
  <2>2. /\ o \in SecretObject /\ mount[c] \in Handler /\ mount[c].objs \in Specs
        /\ mount[c].next \in DOMAIN mount[c].objs /\ mount[c].pc = "loop"
        /\ o = mount[c].objs[mount[c].next]
    BY <2>1, ObjectType DEF AtObject
  <2>3. disk[o.file] \in Content /\ mount[c].cur[o.file] \in Versions \cup {None}
    BY <2>1, <2>2, ReloadType, ExtractionTypes DEF Handler, VersionMap
  <2>4. ASSUME awaiting = c
        PROVE  HandlerRight(AddSecret(mount[c], o, disk[o.file], mount[c].cur[o.file]),
                            disk, latest)
    <3>1. HandlerRight(mount[c], disk, latest)
      BY <2>2, <2>4 DEF RecordInv
    <3>2. /\ Serves(o, disk[o.file], mount[c].since, latest)
          /\ Labels(mount[c].cur[o.file], disk[o.file])
      BY <2>1, <2>4, ReloadServes
    <3> QED
      BY <2>2, <2>3, <3>1, <3>2, AddSecretRight
  <2>5. ASSUME NEW a \in Calls, awaiting' = a, mount'[a].pc = "loop"
        PROVE  HandlerRight(mount'[a], disk, latest)
    BY <2>1, <2>4, <2>5 DEF RecordInv, TypeOK
  <2> QED
    BY <2>1, <2>5, HandlerStep DEF env
<1>3. ASSUME NEW c \in Calls, GetSecret(c) PROVE RecordInv'
  <2>1. PICK o : /\ AtObject(c, o) /\ Obtainable(o) /\ Extractable(o, FetchSecret(o))
                 /\ mount' = [mount EXCEPT ![c] =
                       AddSecret(@, o, FetchSecret(o), ReportedVersion(o))]
                 /\ UNCHANGED <<env, volume, awaiting, faults>>
    BY <1>3 DEF GetSecret
  <2>2. /\ o \in SecretObject /\ mount[c] \in Handler /\ mount[c].objs \in Specs
        /\ mount[c].next \in DOMAIN mount[c].objs /\ mount[c].pc = "loop"
        /\ o = mount[c].objs[mount[c].next]
    BY <2>1, ObjectType DEF AtObject
  <2>3. FetchSecret(o) \in Content /\ ReportedVersion(o) \in Versions \cup {None}
    BY <2>2, FetchType
  <2>4. ASSUME awaiting = c
        PROVE  HandlerRight(AddSecret(mount[c], o, FetchSecret(o), ReportedVersion(o)),
                            disk, latest)
    <3>1. HandlerRight(mount[c], disk, latest)
      BY <2>2, <2>4 DEF RecordInv
    <3>2. \A s \in Secrets : mount[c].since[s] <= latest[s]
      BY <3>1 DEF HandlerRight
    <3>3. /\ Serves(o, FetchSecret(o), mount[c].since, latest)
          /\ Labels(ReportedVersion(o), FetchSecret(o))
      BY <2>1, <2>2, <3>2, FetchServes
    <3> QED
      BY <2>2, <2>3, <3>1, <3>3, AddSecretRight
  <2>5. ASSUME NEW a \in Calls, awaiting' = a, mount'[a].pc = "loop"
        PROVE  HandlerRight(mount'[a], disk, latest)
    BY <2>1, <2>4, <2>5 DEF RecordInv, TypeOK
  <2> QED
    BY <2>1, <2>5, HandlerStep DEF env
<1>4. ASSUME NEW c \in Calls, ObjectFails(c) PROVE RecordInv'
  BY <1>4, OtherHandlerStep DEF ObjectFails, TypeOK, Idle, env
<1>5. ASSUME NEW c \in Calls, Stumble(c) PROVE RecordInv'
  BY <1>5, OtherHandlerStep DEF Stumble, TypeOK, Idle, env
<1>6. ASSUME NEW c \in Calls, Receive(c) PROVE RecordInv'
  <2> DEFINE m == mount[c]
  <2>1. /\ disk' = m.files /\ answer' = m.cur /\ saving' = TRUE /\ latest' = latest
        /\ awaiting' = NoCall /\ m \in Handler /\ HandlerRight(m, disk, latest)
    BY <1>6 DEF Receive, Answered, RecordInv, TypeOK, env
  <2>2. ASSUME NEW f \in Files, disk'[f] # NoFile
        PROVE  Proper(f, disk'[f], latest') /\ Labels(answer'[f], disk'[f])
    <3>1. PICK i \in DOMAIN m.objs : LastBefore(m.objs, m.next, i, f)
      BY <2>1, <2>2 DEF HandlerRight, Gathered
    <3>2. Acceptable(m.objs[i], f, m.files[f], m.since, latest) /\ Labels(m.cur[f], m.files[f])
      BY <2>1, <3>1 DEF HandlerRight
    <3>3. m.objs \in Specs
      BY <2>1, <3>1 DEF Handler
    <3> QED
      BY <2>1, <3>1, <3>2, <3>3 DEF Acceptable, Proper, Names, LastBefore
  <2> QED
    BY <2>1, <2>2 DEF RecordInv
<1>7. ASSUME NEW c \in Calls, ReceiveError(c) PROVE RecordInv'
  BY <1>7, OtherHandlerStep DEF ReceiveError, env
<1>8. ASSUME NEW c \in Calls, Drop(c) PROVE RecordInv'
  BY <1>8, OtherHandlerStep DEF Drop, TypeOK, env
<1>9. CASE Save
  BY <1>9 DEF Save, RecordInv, env
<1>10. CASE SaveLost
  BY <1>10 DEF SaveLost
<1>11. CASE GiveUp
  BY <1>11, OtherHandlerStep DEF GiveUp, env
<1>12. CASE ProviderRestart
  BY <1>12, OtherHandlerStep DEF ProviderRestart, env
<1>13. CASE PodReplaced
  <2>1. /\ \A f \in Files : disk'[f] = NoFile
        /\ published' = FALSE /\ awaiting' = NoCall
    BY <1>13 DEF PodReplaced, NoFiles
  <2> QED
    BY <2>1 DEF RecordInv
<1>14. ASSUME NEW t \in Secrets, RotateSecret(t) PROVE RecordInv'
  <2>1. UNCHANGED <<mount, volume, awaiting>>
    BY <1>14 DEF RotateSecret
  <2>2. ASSUME NEW c \in Calls, awaiting = c, mount[c].pc = "loop"
        PROVE  HandlerRight(mount[c], disk, latest')
    BY <1>14, <2>2, RotationRight DEF RecordInv, TypeOK, Handler
  <2>3. ASSUME NEW f \in Files, disk[f] # NoFile PROVE Proper(f, disk[f], latest')
    <3>1. Proper(f, disk[f], latest) /\ disk[f].secret \in Secrets /\ disk[f].ver \in Nat
      BY <2>3, BoundsFacts DEF RecordInv, TypeOK, FileMap, Content
    <3>2. latest[disk[f].secret] \in Nat
      BY <3>1, BoundsFacts DEF TypeOK, Cloud
    <3>3. latest'[disk[f].secret] \in {latest[disk[f].secret], latest[disk[f].secret] + 1}
      BY <1>14, <3>1 DEF RotateSecret, TypeOK, Cloud
    <3> QED
      BY <3>1, <3>2, <3>3 DEF Proper
  <2> QED
    BY <2>1, <2>2, <2>3 DEF RecordInv, volume
<1>15. CASE EditClass
  BY <1>15, OtherHandlerStep DEF EditClass
<1>16. CASE UNCHANGED vars
  BY <1>16, OtherHandlerStep DEF vars, env
<1> QED
  BY <1>1, <1>2, <1>3, <1>4, <1>5, <1>6, <1>7, <1>8, <1>9, <1>10, <1>11, <1>12,
     <1>13, <1>14, <1>15, <1>16 DEF Next

\* The driver's records, the files of the volume and what the handler it waits
\* for has gathered always fit together: RecordInv, the inductive invariant.
THEOREM RecordsRight ==
  ASSUME PinnedFilesStable, ~SaveCanFail
  PROVE  Spec => []RecordInv
<1> QED
  BY TypeCorrect, RecordInit, RecordStep, PTL DEF Spec

\* Whatever the pins, the rotations, the edits of the class and the calls given
\* up, the driver never mounts a file of a version or of a secret other than
\* the class asks for: if the files of pinned objects are stable and no record is lost.
THEOREM MountsWhatIsAsked ==
  ASSUME PinnedFilesStable, ~SaveCanFail
  PROVE  Spec => []AnswerAcceptable
<1>1. TypeOK /\ RecordInv => AnswerAcceptable
  <2> SUFFICES ASSUME TypeOK, RecordInv, NEW c \in Calls, awaiting = c, Answered(c)
               PROVE  /\ \A i \in DOMAIN mount[c].objs : \A f \in Files :
                           Last(mount[c].objs, i, f) =>
                             Acceptable(mount[c].objs[i], f, mount[c].files[f],
                                        mount[c].since, latest)
                      /\ \A f \in Files : mount[c].files[f] # NoFile =>
                           \E i \in DOMAIN mount[c].objs : Last(mount[c].objs, i, f)
    BY DEF AnswerAcceptable
  <2>1. mount[c] \in Handler /\ HandlerRight(mount[c], disk, latest)
    BY DEF TypeOK, RecordInv, Answered
  <2>2. \A i \in DOMAIN mount[c].objs : i < mount[c].next
    <3>1. mount[c].objs \in Seq(SecretObject)
      <4>1. mount[c].objs \in Specs \cup {<<>>}
        BY <2>1 DEF Handler
      <4>2. <<>> \in Seq(SecretObject)
        OBVIOUS
      <4> QED
        BY <4>1, <4>2, SpecsAssumption
    <3> QED
      BY <2>1, <3>1 DEF Answered, Handler
  <2>3. ASSUME NEW i \in DOMAIN mount[c].objs, NEW f
        PROVE  LastBefore(mount[c].objs, mount[c].next, i, f) <=> Last(mount[c].objs, i, f)
    BY <2>2, LastAtEnd
  <2> QED
    BY <2>1, <2>3 DEF HandlerRight, Gathered
<1> QED
  BY <1>1, TypeCorrect, RecordsRight, PTL

\* The version the provider reported for a file in the volume is the version of
\* what the file holds.
THEOREM ReportsAreHonest ==
  ASSUME PinnedFilesStable, ~SaveCanFail
  PROVE  Spec => []VersionsHonest
<1>1. RecordInv => VersionsHonest
  BY DEF RecordInv, VersionsHonest
<1> QED
  BY <1>1, RecordsRight, PTL

-----------------------------------------------------------------------------
(* The implementation of SecretVolume.                                     *)

\* The open question while the driver waits for a working handler, and else.
LEMMA AskedFacts ==
  ASSUME CallsAssumption
  PROVE  /\ \A c \in Calls : awaiting = c /\ mount[c].pc = "loop" =>
              Asked = {[objs |-> mount[c].objs, since |-> mount[c].since]}
         /\ (\A c \in Calls : awaiting = c => mount[c].pc # "loop") => Asked = {}
  BY DEF Asked

\* Steps that change neither the volume nor the stores: a handler that works on
\* is no step of the volume, one that is no longer waited for abandons the
\* question.
LEMMA SilentStep ==
  ASSUME UNCHANGED <<env, disk>>, Asked' = Asked \/ (Asked # {} /\ Asked' = {})
  PROVE  [Volume!Next]_(Volume!vars)
  BY DEF Volume!Next, Volume!vars, Volume!Abandon, env

\* So is one after which the driver waits for no working handler, or for the
\* one it waited for, with the list and the versions that one began with.
LEMMA AbandonedStep ==
  ASSUME UNCHANGED <<env, disk>>,
         \A c \in Calls : awaiting' = c /\ mount'[c].pc = "loop" =>
            awaiting = c /\ mount[c].pc = "loop" /\ mount'[c].objs = mount[c].objs
            /\ mount'[c].since = mount[c].since
  PROVE  [Volume!Next]_(Volume!vars)
<1>1. Asked' = Asked \/ Asked' = {}
  <2>1. CASE \A c \in Calls : awaiting' = c => mount'[c].pc # "loop"
    BY <2>1 DEF Asked
  <2>2. CASE \E c \in Calls : awaiting' = c /\ mount'[c].pc = "loop"
    BY <2>2 DEF Asked
  <2> QED
    BY <2>1, <2>2
<1> QED
  BY <1>1, SilentStep

\* The volume's data definitions are those of SecretData.
LEMMA SameData ==
  /\ Volume!NoFiles = NoFiles /\ Volume!FileMap = FileMap
  /\ Volume!FirstVersions = FirstVersions
  /\ \A o : Volume!Writes(o) = Writes(o)
  /\ \A o, f, k, since, now :
       Volume!Acceptable(o, f, k, since, now) <=> Acceptable(o, f, k, since, now)
  /\ \A s, i, f : Volume!Last(s, i, f) <=> Last(s, i, f)
<1>1. \A o : Volume!Writes(o) = Writes(o)
  BY DEF Writes, Volume!Writes
<1>2. \A o, f : Volume!PartOf(o, f) = PartOf(o, f)
  BY DEF PartOf, Volume!PartOf
<1>3. Volume!Versions = Versions /\ Volume!None = None
  BY DEF Versions, Volume!Versions, None, Volume!None
<1>4. Volume!Content = Content
  BY <1>3 DEF Content, Volume!Content
<1>5. Volume!FileMap = FileMap
  BY <1>4 DEF FileMap, Volume!FileMap
<1>6. Volume!NoFiles = NoFiles /\ Volume!FirstVersions = FirstVersions
  BY DEF NoFiles, Volume!NoFiles, FirstVersions, Volume!FirstVersions
<1>7. \A o, f, k, since, now :
        Volume!Acceptable(o, f, k, since, now) <=> Acceptable(o, f, k, since, now)
  BY <1>2, <1>3 DEF Acceptable, Volume!Acceptable, Names, Volume!Names
<1>8. \A s, i, f : Volume!Last(s, i, f) <=> Last(s, i, f)
  BY <1>1 DEF Last, Volume!Last
<1> QED
  BY <1>1, <1>5, <1>6, <1>7, <1>8

\* Mount starts with an empty volume and no question.
LEMMA VolumeInit == Init => Volume!Init
<1>1. Init => Asked = {}
  BY CallsAssumption DEF Init, Asked
<1> QED
  BY <1>1, SameData DEF Init, Volume!Init

\* Every step of Mount and its driver is a step of the volume, or changes
\* nothing that the volume knows of.
LEMMA VolumeStep ==
  ASSUME TypeOK, TypeOK', AnswerAcceptable, [Next]_vars
  PROVE  [Volume!Next]_(Volume!vars)
<1> USE CallsAssumption
<1>1. ASSUME NEW c \in Calls, Begin(c) PROVE [Volume!Next]_(Volume!vars)
  <2>1. Asked = {}
    BY <1>1 DEF Begin, Asked
  <2>2. /\ awaiting' = c /\ mount'[c].pc = "loop"
        /\ mount'[c].objs = spc /\ mount'[c].since = latest
    BY <1>1 DEF Begin, TypeOK, Idle
  <2>3. Asked' = {[objs |-> spc, since |-> latest]}
    BY <2>2 DEF Asked
  <2> QED
    BY <1>1, <2>1, <2>3 DEF Begin, env, volume, Volume!Next, Volume!Ask
<1>2. ASSUME NEW c \in Calls, ReloadSecret(c) PROVE [Volume!Next]_(Volume!vars)
  <2>1. PICK o : /\ AtObject(c, o) /\ Reloadable(o)
                 /\ mount' = [mount EXCEPT ![c] =
                       AddSecret(@, o, disk[o.file], mount[c].cur[o.file])]
                 /\ UNCHANGED <<env, volume, awaiting, faults>>
    BY <1>2 DEF ReloadSecret
  <2>2. /\ o \in SecretObject /\ mount[c] \in Handler /\ mount[c].pc = "loop"
        /\ disk[o.file] \in Content /\ mount[c].cur[o.file] \in Versions \cup {None}
    BY <2>1, ObjectType, ReloadType, ExtractionTypes DEF AtObject, Handler, VersionMap
  <2>3. mount'[c].objs = mount[c].objs /\ mount'[c].since = mount[c].since
    BY <2>1, <2>2, AddSecretType DEF TypeOK
  <2> QED
    BY <2>1, <2>2, <2>3, AbandonedStep DEF TypeOK, volume
<1>3. ASSUME NEW c \in Calls, GetSecret(c) PROVE [Volume!Next]_(Volume!vars)
  <2>1. PICK o : /\ AtObject(c, o)
                 /\ mount' = [mount EXCEPT ![c] =
                       AddSecret(@, o, FetchSecret(o), ReportedVersion(o))]
                 /\ UNCHANGED <<env, volume, awaiting, faults>>
    BY <1>3 DEF GetSecret
  <2>2. /\ o \in SecretObject /\ mount[c] \in Handler /\ mount[c].pc = "loop"
        /\ FetchSecret(o) \in Content /\ ReportedVersion(o) \in Versions \cup {None}
    BY <2>1, ObjectType, FetchType DEF AtObject
  <2>3. mount'[c].objs = mount[c].objs /\ mount'[c].since = mount[c].since
    BY <2>1, <2>2, AddSecretType DEF TypeOK
  <2> QED
    BY <2>1, <2>2, <2>3, AbandonedStep DEF TypeOK, volume
<1>4. ASSUME NEW c \in Calls, ObjectFails(c) PROVE [Volume!Next]_(Volume!vars)
  BY <1>4, AbandonedStep DEF ObjectFails, TypeOK, Idle, volume
<1>5. ASSUME NEW c \in Calls, Stumble(c) PROVE [Volume!Next]_(Volume!vars)
  BY <1>5, AbandonedStep DEF Stumble, TypeOK, Idle, volume
<1>6. ASSUME NEW c \in Calls, Receive(c) PROVE [Volume!Next]_(Volume!vars)
  <2> DEFINE q == [objs |-> mount[c].objs, since |-> mount[c].since]
  <2>1. /\ awaiting = c /\ mount[c].pc = "loop" /\ Answered(c)
        /\ disk' = mount[c].files /\ awaiting' = NoCall /\ UNCHANGED env
    BY <1>6 DEF Receive, Answered
  <2>2. Asked = {q} /\ Asked' = {}
    BY <2>1 DEF Asked
  <2>3. disk' \in FileMap
    BY DEF TypeOK
  <2>4. Volume!Satisfies(disk', q)
    BY <2>1, SameData DEF AnswerAcceptable, Volume!Satisfies
  <2>5. Volume!Answer
    BY <2>1, <2>2, <2>3, <2>4, SameData DEF Volume!Answer, env
  <2> QED
    BY <2>5 DEF Volume!Next
<1>7. ASSUME NEW c \in Calls, ReceiveError(c) PROVE [Volume!Next]_(Volume!vars)
  BY <1>7, AbandonedStep DEF ReceiveError, volume
<1>8. ASSUME NEW c \in Calls, Drop(c) PROVE [Volume!Next]_(Volume!vars)
  BY <1>8, AbandonedStep DEF Drop, TypeOK, volume
<1>9. CASE Save
  BY <1>9, AbandonedStep DEF Save
<1>10. CASE SaveLost
  BY <1>10, AbandonedStep DEF SaveLost
<1>11. CASE GiveUp
  BY <1>11, AbandonedStep DEF GiveUp, volume
<1>12. CASE ProviderRestart
  BY <1>12, AbandonedStep DEF ProviderRestart, volume
<1>13. CASE PodReplaced
  <2>1. Asked' = {}
    BY <1>13 DEF PodReplaced, Asked
  <2> QED
    BY <1>13, <2>1, SameData DEF PodReplaced, env, Volume!Next, Volume!Clear
<1>14. ASSUME NEW s \in Secrets, RotateSecret(s) PROVE [Volume!Next]_(Volume!vars)
  <2>1. Asked' = Asked
    BY <1>14 DEF RotateSecret, Asked
  <2> QED
    BY <1>14, <2>1 DEF RotateSecret, volume, Volume!Next, Volume!RotateSecret
<1>15. CASE EditClass
  <2>1. Asked' = Asked
    BY <1>15 DEF EditClass, Asked
  <2> QED
    BY <1>15, <2>1 DEF EditClass, volume, Volume!Next, Volume!EditClass
<1>16. CASE UNCHANGED vars
  BY <1>16, AbandonedStep DEF vars, volume
<1> QED
  BY <1>1, <1>2, <1>3, <1>4, <1>5, <1>6, <1>7, <1>8, <1>9, <1>10, <1>11, <1>12,
     <1>13, <1>14, <1>15, <1>16 DEF Next

\* Every run of Mount with its driver is a run of the volume the pod is promised.
THEOREM KeepsPromise ==
  ASSUME PinnedFilesStable, ~SaveCanFail
  PROVE  Spec => VolumePromise
<1> QED
  BY VolumeInit, VolumeStep, TypeCorrect, MountsWhatIsAsked, PTL
  DEF Spec, VolumePromise, Volume!Spec
=============================================================================
