---------------------------- MODULE SecretVolume ----------------------------
(***************************************************************************)
(* What a pod is promised about a volume of secrets, whatever handlers,    *)
(* caches and version records stand behind it.  The volume is asked for by *)
(* the object list that the SecretProviderClass held at that moment, and   *)
(* the answer replaces all of it at once by exactly the files of the list: *)
(* a pinned KMS secret at its pin, any other at a version that was current *)
(* since the question.  A question may go unanswered, and then nothing     *)
(* changes.                                                                *)
(***************************************************************************)
EXTENDS SecretData

VARIABLES
  spc,      \* the object list the SecretProviderClass holds
  latest,   \* the current version of each secret
  disk,     \* the files of the volume
  asked     \* the open question, if any: the list, and the versions then current

vars == <<spc, latest, disk, asked>>

Question == [objs: Specs, since: Cloud]

\* The types of the variables; at most one question is open.
TypeOK ==
  /\ spc \in Specs
  /\ latest \in Cloud
  /\ disk \in FileMap
  /\ asked \subseteq Question /\ \A p, q \in asked : p = q

Init ==
  /\ spc \in Specs
  /\ latest = FirstVersions
  /\ disk = NoFiles
  /\ asked = {}

Ask ==
  /\ asked = {}
  /\ asked' = {[objs |-> spc, since |-> latest]}
  /\ UNCHANGED <<spc, latest, disk>>

\* The files d are exactly what question q asks for; of objects that share a
\* file the last has it.
Satisfies(d, q) ==
  /\ \A i \in DOMAIN q.objs : \A f \in Files :
       Last(q.objs, i, f) => Acceptable(q.objs[i], f, d[f], q.since, latest)
  /\ \A f \in Files : d[f] # NoFile => \E i \in DOMAIN q.objs : Last(q.objs, i, f)

Answer ==
  /\ \E q \in asked : disk' \in FileMap /\ Satisfies(disk', q)
  /\ asked' = {}
  /\ UNCHANGED <<spc, latest>>

Abandon ==
  /\ asked # {}
  /\ asked' = {}
  /\ UNCHANGED <<spc, latest, disk>>

\* The pod is replaced, and with it its volume.
Clear ==
  /\ disk' = NoFiles
  /\ asked' = {}
  /\ UNCHANGED <<spc, latest>>

RotateSecret(s) ==
  /\ latest[s] < MaxVersion
  /\ latest' = [latest EXCEPT ![s] = @ + 1]
  /\ UNCHANGED <<spc, disk, asked>>

EditClass ==
  /\ spc' \in Specs \ {spc}
  /\ UNCHANGED <<latest, disk, asked>>

Next ==
  \/ Ask \/ Answer \/ Abandon \/ Clear \/ EditClass
  \/ \E s \in Secrets : RotateSecret(s)

Spec == Init /\ [][Next]_vars

-----------------------------------------------------------------------------

\* Nothing in the volume is newer than the stores, nor than an open question.
NotAhead ==
  \A f \in Files : disk[f] # NoFile =>
    /\ disk[f].ver <= latest[disk[f].secret]
    /\ \A q \in asked : disk[f].ver <= q.since[disk[f].secret]

\* An answer never takes a file back: what an object without a pin is mounted
\* as is at least as new as what the volume held of that secret at that file.
NoRollback ==
  [][\A q \in asked : \A i \in DOMAIN q.objs : \A f \in Files :
       /\ Last(q.objs, i, f) /\ q.objs[i].pin = None
       /\ disk[f] # NoFile /\ disk'[f] # NoFile
       /\ disk[f].secret = q.objs[i].secret
       => disk'[f].ver >= disk[f].ver]_vars
=============================================================================
