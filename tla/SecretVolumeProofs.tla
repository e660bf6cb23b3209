------------------------- MODULE SecretVolumeProofs -------------------------
(***************************************************************************)
(* What holds of SecretVolume for every set of files, secrets and lists.   *)
(***************************************************************************)
EXTENDS SecretVolume, TLAPS

\* Versions are natural numbers, and there is a first one.
LEMMA VersionsAreNaturals == 1 \in Versions /\ Versions \subseteq Nat
  BY VersionAssumption DEF Versions

\* The types hold at first.
LEMMA VolumeTypeInit == Init => TypeOK
  BY VersionsAreNaturals
  DEF Init, TypeOK, Cloud, FirstVersions, NoFiles, FileMap

\* Every action keeps the types.
LEMMA VolumeTypeStep == TypeOK /\ [Next]_vars => TypeOK'
<1> SUFFICES ASSUME TypeOK, [Next]_vars PROVE TypeOK'
  OBVIOUS
<1>1. CASE Ask
  BY <1>1 DEF Ask, TypeOK, Question
<1>2. CASE Answer
  BY <1>2 DEF Answer, TypeOK
<1>3. CASE Abandon
  BY <1>3 DEF Abandon, TypeOK
<1>4. CASE Clear
  BY <1>4 DEF Clear, TypeOK, NoFiles, FileMap
<1>5. ASSUME NEW s \in Secrets, RotateSecret(s) PROVE TypeOK'
  BY <1>5, VersionAssumption DEF RotateSecret, TypeOK, Cloud, Versions
<1>6. CASE EditClass
  BY <1>6 DEF EditClass, TypeOK
<1>7. CASE UNCHANGED vars
  BY <1>7 DEF vars, TypeOK
<1> QED
  BY <1>1, <1>2, <1>3, <1>4, <1>5, <1>6, <1>7 DEF Next

\* Every variable of the volume keeps its type.
THEOREM VolumeTypeCorrect == Spec => []TypeOK
<1> QED
  BY VolumeTypeInit, VolumeTypeStep, PTL DEF Spec

-----------------------------------------------------------------------------

\* The objects of a list have a secret.
LEMMA SecretsOfLists ==
  ASSUME NEW s \in Specs, NEW i \in DOMAIN s
  PROVE  s[i].secret \in Secrets
<1>1. s[i] \in SecretObject
  BY SpecsAssumption
<1> QED
  BY <1>1 DEF SecretObject

\* An empty volume is not ahead of anything.
LEMMA NotAheadInit == Init => NotAhead
  BY DEF Init, NotAhead, NoFiles

\* Every action keeps the volume behind the stores and the open question.
LEMMA NotAheadStep == TypeOK /\ TypeOK' /\ NotAhead /\ [Next]_vars => NotAhead'
<1> SUFFICES ASSUME TypeOK, TypeOK', NotAhead, [Next]_vars,
                    NEW f \in Files, disk'[f] # NoFile
             PROVE  /\ disk'[f].ver <= latest'[disk'[f].secret]
                    /\ \A q \in asked' : disk'[f].ver <= q.since[disk'[f].secret]
  BY DEF NotAhead
<1>1. CASE Ask
  BY <1>1 DEF Ask, NotAhead
<1>2. CASE Answer
  <2>1. PICK q \in asked : Satisfies(disk', q)
    BY <1>2 DEF Answer
  <2>2. PICK i \in DOMAIN q.objs : Last(q.objs, i, f)
    BY <2>1 DEF Satisfies
  <2>3. Acceptable(q.objs[i], f, disk'[f], q.since, latest)
    BY <2>1, <2>2 DEF Satisfies
  <2> QED
    BY <1>2, <2>3 DEF Acceptable, Names, Answer
<1>3. CASE Abandon
  BY <1>3 DEF Abandon, NotAhead
<1>4. CASE Clear
  BY <1>4 DEF Clear, NoFiles
<1>5. ASSUME NEW s \in Secrets, RotateSecret(s)
      PROVE  /\ disk'[f].ver <= latest'[disk'[f].secret]
             /\ \A q \in asked' : disk'[f].ver <= q.since[disk'[f].secret]
  <2> DEFINE t == disk[f].secret
  <2>1. /\ disk' = disk /\ asked' = asked /\ disk[f].ver \in Nat /\ t \in Secrets
        /\ latest[t] \in Nat
    BY <1>5, VersionsAreNaturals DEF RotateSecret, TypeOK, FileMap, Content, Cloud
  <2>2. latest'[t] \in {latest[t], latest[t] + 1}
    BY <1>5, <2>1 DEF RotateSecret, TypeOK, Cloud
  <2> QED
    BY <2>1, <2>2 DEF NotAhead
<1>6. CASE EditClass
  BY <1>6 DEF EditClass, NotAhead
<1>7. CASE UNCHANGED vars
  BY <1>7 DEF vars, NotAhead
<1> QED
  BY <1>1, <1>2, <1>3, <1>4, <1>5, <1>6, <1>7 DEF Next

\* Republishing never takes a file of an object without a pin back to an older
\* version: not even when secrets rotate between a question and its answer.
THEOREM NeverRollsBack == Spec => NoRollback
<1> DEFINE Step == \A q \in asked : \A i \in DOMAIN q.objs : \A f \in Files :
       /\ Last(q.objs, i, f) /\ q.objs[i].pin = None
       /\ disk[f] # NoFile /\ disk'[f] # NoFile
       /\ disk[f].secret = q.objs[i].secret
       => disk'[f].ver >= disk[f].ver
<1>1. TypeOK /\ TypeOK' /\ NotAhead /\ [Next]_vars => [Step]_vars
  <2> SUFFICES ASSUME TypeOK, TypeOK', NotAhead, Next,
                      NEW q \in asked, NEW i \in DOMAIN q.objs, NEW f \in Files,
                      Last(q.objs, i, f), q.objs[i].pin = None, disk[f] # NoFile, disk'[f] # NoFile,
                      disk[f].secret = q.objs[i].secret
               PROVE  disk'[f].ver >= disk[f].ver
    OBVIOUS
  <2>1. f \in Files /\ q.objs[i].secret \in Secrets /\ q \in Question
    BY SecretsOfLists DEF TypeOK, Question
  <2>2. disk[f].ver \in Nat /\ disk'[f].ver \in Nat /\ q.since[q.objs[i].secret] \in Nat
    BY <2>1, VersionsAreNaturals DEF TypeOK, FileMap, Content, Question, Cloud
  <2>3. disk[f].ver <= q.since[q.objs[i].secret]
    BY <2>1 DEF NotAhead
  <2>4. CASE Answer
    <3>1. Satisfies(disk', q)
      BY <2>4 DEF Answer, TypeOK
    <3>2. Acceptable(q.objs[i], f, disk'[f], q.since, latest)
      BY <3>1 DEF Satisfies
    <3> QED
      BY <2>2, <2>3, <3>2 DEF Acceptable
  <2>5. CASE disk' = disk
    BY <2>2, <2>5
  <2>6. CASE Clear
    BY <2>1, <2>6 DEF Clear, NoFiles
  <2> QED
    BY <2>4, <2>5, <2>6 DEF Next, Ask, Abandon, RotateSecret, EditClass
<1> QED
  BY <1>1, VolumeTypeCorrect, NotAheadInit, NotAheadStep, PTL DEF Spec, NoRollback
=============================================================================
