---------------------------- MODULE SecretMount ----------------------------
(***************************************************************************)
(* The Mount call of the provider (server/server.go, Mount, and            *)
(* provider/secret_manager_provider.go, GetSecretValues) for one published *)
(* volume, together with what it talks to: the secret stores of the cloud  *)
(* (KMS and OOS) and the CSI driver, which replaces the files of the       *)
(* volume with those of the answer, remembers the versions the answer      *)
(* reports and hands them back on the next call.                           *)
(*                                                                         *)
(* A handler works through the object list of the SecretProviderClass.     *)
(* A pinned object whose recorded version equals the pin is read back from *)
(* the volume; any other object is fetched.  Several handlers can run at   *)
(* once: when the driver gives a call up, its handler goes on, because the *)
(* fetches do not run under the context of the call.                       *)
(***************************************************************************)
EXTENDS SecretData

CONSTANTS
  Calls,        \* handler goroutines of the gRPC server
  NoCall,       \* the driver waits for no handler
  MaxFaults,    \* bound: failures that nothing in the object list causes
  SaveCanFail   \* whether the driver may fail to record an answer's versions

ASSUME CallsAssumption == NoCall \notin Calls
ASSUME FaultsAssumption == MaxFaults \in Nat
ASSUME SaveAssumption == SaveCanFail \in BOOLEAN

VARIABLES
  spc,        \* the object list the SecretProviderClass holds now
  latest,     \* the current version of each secret in its store
  mount,      \* the handlers
  disk,       \* the files of the volume
  answer,     \* the versions reported with the files of the volume
  saving,     \* the driver has written the files, not yet recorded answer
  status,     \* the versions the driver recorded last
  published,  \* the driver has a record of this volume
  awaiting,   \* the handler whose answer the driver waits for
  faults      \* failures so far

env == <<spc, latest>>
volume == <<disk, answer, saving, status, published>>
vars == <<env, mount, volume, awaiting, faults>>

Handler == [pc: {"idle", "loop", "failed"}, objs: Specs \cup {<<>>}, next: Nat \ {0},
            cur: VersionMap, files: FileMap, since: Cloud]

Idle == [pc |-> "idle", objs |-> <<>>, next |-> 1, cur |-> NoVersions,
         files |-> NoFiles, since |-> FirstVersions]

\* The types of the variables: a handler's answer is made of versions the
\* stores have, and of the objects of a list of the class.
TypeOK ==
  /\ spc \in Specs
  /\ latest \in Cloud
  /\ mount \in [Calls -> Handler]
  /\ disk \in FileMap
  /\ answer \in VersionMap
  /\ saving \in BOOLEAN
  /\ status \in VersionMap
  /\ published \in BOOLEAN
  /\ awaiting \in Calls \cup {NoCall}
  /\ faults \in 0 .. MaxFaults

Init ==
  /\ spc \in Specs
  /\ latest = FirstVersions
  /\ mount = [c \in Calls |-> Idle]
  /\ disk = NoFiles
  /\ answer = NoVersions
  /\ saving = FALSE
  /\ status = NoVersions
  /\ published = FALSE
  /\ awaiting = NoCall
  /\ faults = 0

-----------------------------------------------------------------------------
(* The handler.                                                            *)

\* Mutated IsCurrent: any recorded version will do for a pinned object.
IsCurrent_AnyPin(o, cur) == o.pin # None /\ cur[o.file] # None

\* Mutated IsCurrent: a recorded version will do for an object without a pin.
IsCurrent_NoPin(o, cur) == cur[o.file] # None /\ o.pin \in {None, cur[o.file]}

IsCurrent(o, cur) == o.pin # None /\ cur[o.file] = o.pin

\* Mutated AnswerVersion: an empty objectVersion is sent as a version.
AnswerVersion_EmptyPin(o) == IF o.secret \in KmsSecrets THEN o.pin ELSE latest[o.secret]

\* The version the store answers with: OOS is not asked for a version.
AnswerVersion(o) ==
  IF o.secret \in KmsSecrets /\ o.pin # None THEN o.pin ELSE latest[o.secret]

FetchSecret(o) ==
  [secret |-> o.secret, ver |-> AnswerVersion(o), part |-> Whole]

ReportedVersion(o) == IF o.secret \in KmsSecrets THEN AnswerVersion(o) ELSE OosVersion

Obtainable(o) == AnswerVersion(o) <= latest[o.secret]

\* Mutated AddSecret: no version is noted for the extracted files.
AddSecret_MainOnly(m, o, k, v) ==
  [m EXCEPT
     !.next = @ + 1,
     !.files = [f \in Files |-> IF f \in Writes(o) THEN [k EXCEPT !.part =
                                   IF f \in DOMAIN o.jmes THEN o.jmes[f] ELSE @]
                                ELSE @[f]],
     !.cur = [f \in Files |-> IF f = o.file THEN v ELSE @[f]]]

\* The value k of object o, at version v, joins the answer of handler m: its
\* file and then its extracted parts, a later file replacing an earlier one of
\* that name, and the version of each.
AddSecret(m, o, k, v) ==
  [m EXCEPT
     !.next = @ + 1,
     !.files = [f \in Files |-> IF f \in Writes(o) THEN [k EXCEPT !.part =
                                   IF f \in DOMAIN o.jmes THEN o.jmes[f] ELSE @]
                                ELSE @[f]],
     !.cur = [f \in Files |-> IF f \in Writes(o) THEN v ELSE @[f]]]

AtObject(c, o) ==
  /\ mount[c].pc = "loop"
  /\ mount[c].next <= Len(mount[c].objs)
  /\ o = mount[c].objs[mount[c].next]

Answered(c) == mount[c].pc = "loop" /\ mount[c].next > Len(mount[c].objs)

\* The file of the object can be read back.
Reloadable(o) == disk[o.file] # NoFile /\ Extractable(o, disk[o.file])

ReloadSecret(c) ==
  \E o \in {mount[c].objs[i] : i \in DOMAIN mount[c].objs} :
    /\ AtObject(c, o)
    /\ IsCurrent(o, mount[c].cur)
    /\ Reloadable(o)
    /\ mount' = [mount EXCEPT ![c] = AddSecret(@, o, disk[o.file], mount[c].cur[o.file])]
    /\ UNCHANGED <<env, volume, awaiting, faults>>

GetSecret(c) ==
  \E o \in {mount[c].objs[i] : i \in DOMAIN mount[c].objs} :
    /\ AtObject(c, o)
    /\ ~IsCurrent(o, mount[c].cur)
    /\ Obtainable(o)
    /\ Extractable(o, FetchSecret(o))
    /\ mount' = [mount EXCEPT ![c] = AddSecret(@, o, FetchSecret(o), ReportedVersion(o))]
    /\ UNCHANGED <<env, volume, awaiting, faults>>

\* The object itself is the reason: no file to read back, a version the store
\* does not have, a value the paths do not apply to.
Unservable(c, o) ==
  IF IsCurrent(o, mount[c].cur)
  THEN ~Reloadable(o)
  ELSE ~(Obtainable(o) /\ Extractable(o, FetchSecret(o)))

\* Mutated ObjectFails: the object that failed is left out of the answer.
ObjectFails_Skip(c) ==
  /\ \E o \in {mount[c].objs[i] : i \in DOMAIN mount[c].objs} :
       AtObject(c, o) /\ Unservable(c, o)
  /\ mount' = [mount EXCEPT ![c].next = @ + 1]
  /\ UNCHANGED <<env, volume, awaiting, faults>>

\* The first error ends the loop and drops everything gathered so far.
ObjectFails(c) ==
  /\ \E o \in {mount[c].objs[i] : i \in DOMAIN mount[c].objs} :
       AtObject(c, o) /\ Unservable(c, o)
  /\ mount' = [mount EXCEPT ![c] = [Idle EXCEPT !.pc = "failed"]]
  /\ UNCHANGED <<env, volume, awaiting, faults>>

\* A credential, client, limiter, store or file system error, at any point.
Stumble(c) ==
  /\ mount[c].pc = "loop" /\ ~Answered(c)
  /\ faults < MaxFaults
  /\ faults' = faults + 1
  /\ mount' = [mount EXCEPT ![c] = [Idle EXCEPT !.pc = "failed"]]
  /\ UNCHANGED <<env, volume, awaiting>>

Work(c) == ReloadSecret(c) \/ GetSecret(c) \/ ObjectFails(c)

-----------------------------------------------------------------------------
(* The CSI driver and the kubelet (external).                              *)

\* kubelet (re)publishes the volume: the driver sends the object list and, if
\* it has a record of the volume, the versions of that record.
Begin(c) ==
  /\ mount[c].pc = "idle"
  /\ awaiting = NoCall
  /\ ~saving
  /\ mount' = [mount EXCEPT ![c] =
                 [Idle EXCEPT !.pc = "loop", !.objs = spc, !.since = latest,
                              !.cur = IF published THEN status ELSE NoVersions]]
  /\ awaiting' = c
  /\ UNCHANGED <<env, volume, faults>>

\* Mutated Receive: the answer to a call that was given up is taken all the same.
Receive_Late(c) ==
  /\ Answered(c)
  /\ disk' = mount[c].files
  /\ answer' = mount[c].cur
  /\ saving' = TRUE
  /\ awaiting' = NoCall
  /\ mount' = [mount EXCEPT ![c] = Idle]
  /\ UNCHANGED <<env, status, published, faults>>

\* The files of an answer are the whole volume, so they replace what is there.
Receive(c) ==
  /\ awaiting = c
  /\ Answered(c)
  /\ disk' = mount[c].files
  /\ answer' = mount[c].cur
  /\ saving' = TRUE
  /\ awaiting' = NoCall
  /\ mount' = [mount EXCEPT ![c] = Idle]
  /\ UNCHANGED <<env, status, published, faults>>

ReceiveError(c) ==
  /\ awaiting = c
  /\ mount[c].pc = "failed"
  /\ awaiting' = NoCall
  /\ mount' = [mount EXCEPT ![c] = Idle]
  /\ UNCHANGED <<env, volume, faults>>

Save ==
  /\ saving
  /\ saving' = FALSE
  /\ status' = answer
  /\ published' = TRUE
  /\ UNCHANGED <<env, mount, disk, answer, awaiting, faults>>

SaveLost ==
  /\ SaveCanFail
  /\ saving
  /\ faults < MaxFaults
  /\ faults' = faults + 1
  /\ saving' = FALSE
  /\ UNCHANGED <<env, mount, disk, answer, status, published, awaiting>>

\* The deadline of the call passes; its handler is not told.
GiveUp ==
  /\ awaiting # NoCall
  /\ faults < MaxFaults
  /\ faults' = faults + 1
  /\ awaiting' = NoCall
  /\ UNCHANGED <<env, mount, volume>>

\* A handler whose call was given up ends; nobody reads its answer.
Drop(c) ==
  /\ awaiting # c
  /\ Answered(c) \/ mount[c].pc = "failed"
  /\ mount' = [mount EXCEPT ![c] = Idle]
  /\ UNCHANGED <<env, volume, awaiting, faults>>

\* The provider's process is replaced: its handlers are gone, nothing else is.
ProviderRestart ==
  /\ \E c \in Calls : mount[c].pc # "idle"
  /\ faults < MaxFaults
  /\ faults' = faults + 1
  /\ mount' = [c \in Calls |-> Idle]
  /\ awaiting' = NoCall
  /\ UNCHANGED <<env, volume>>

\* The pod is replaced: a new volume, of which the driver has no record.
PodReplaced ==
  /\ published \/ disk # NoFiles
  /\ faults < MaxFaults
  /\ faults' = faults + 1
  /\ disk' = NoFiles
  /\ answer' = NoVersions
  /\ status' = NoVersions
  /\ published' = FALSE
  /\ saving' = FALSE
  /\ awaiting' = NoCall
  /\ UNCHANGED <<env, mount>>

-----------------------------------------------------------------------------
(* The owners of the secrets and of the SecretProviderClass (external).    *)

RotateSecret(s) ==
  /\ latest[s] < MaxVersion
  /\ latest' = [latest EXCEPT ![s] = @ + 1]
  /\ UNCHANGED <<spc, mount, volume, awaiting, faults>>

EditClass ==
  /\ spc' \in Specs \ {spc}
  /\ UNCHANGED <<latest, mount, volume, awaiting, faults>>

Next ==
  \/ \E c \in Calls : \/ Begin(c) \/ ReloadSecret(c) \/ GetSecret(c)
                      \/ ObjectFails(c) \/ Stumble(c)
                      \/ Receive(c) \/ ReceiveError(c) \/ Drop(c)
  \/ Save \/ SaveLost \/ GiveUp \/ ProviderRestart \/ PodReplaced
  \/ \E s \in Secrets : RotateSecret(s)
  \/ EditClass

Spec == Init /\ [][Next]_vars

\* kubelet republishes periodically, goroutines are scheduled, the driver
\* handles what it is given.
FairSpec ==
  /\ Spec
  /\ WF_vars(\E c \in Calls : Begin(c))
  /\ \A c \in Calls : /\ WF_vars(Work(c))
                      /\ WF_vars(Receive(c) \/ ReceiveError(c))
                      /\ WF_vars(Drop(c))
  /\ WF_vars(Save)

-----------------------------------------------------------------------------
(* Properties.                                                             *)

\* What the driver is about to mount is right for the list it sent: every file
\* holds the right part of the right secret at an acceptable version for the last
\* object that is mounted as it, and there is no other file.
AnswerAcceptable ==
  \A c \in Calls : awaiting = c /\ Answered(c) =>
    LET m == mount[c] IN
    /\ \A i \in DOMAIN m.objs : \A f \in Files :
         Last(m.objs, i, f) => Acceptable(m.objs[i], f, m.files[f], m.since, latest)
    /\ \A f \in Files : m.files[f] # NoFile => \E i \in DOMAIN m.objs : Last(m.objs, i, f)

\* The version reported for a file in the volume is the version of its content,
\* so a later call that compares it with a pin decides rightly.
VersionsHonest ==
  \A f \in Files : disk[f] # NoFile => Labels(answer[f], disk[f])

\* The part of AnswerAcceptable that survives a driver that loses a record: every
\* file holds the part of the secret it stands for, and the file of an object
\* without a pin is at a version that was current during the call.
AnswerFresh ==
  \A c \in Calls : awaiting = c /\ Answered(c) =>
    LET m == mount[c] IN
    \A i \in DOMAIN m.objs : \A f \in Files : Last(m.objs, i, f) =>
      /\ m.files[f] # NoFile /\ Names(m.objs[i], f, m.files[f])
      /\ m.objs[i].pin = None => Acceptable(m.objs[i], f, m.files[f], m.since, latest)

\* The open question of SecretVolume: the list and the versions that the
\* handler the driver waits for began with.
Asked ==
  {[objs |-> mount[c].objs, since |-> mount[c].since] :
     c \in {d \in Calls : awaiting = d /\ mount[d].pc = "loop"}}

Volume == INSTANCE SecretVolume WITH asked <- Asked

\* Mount, with the driver around it, keeps the promise made to the pod.
VolumePromise == Volume!Spec

\* An answer never takes a file back, whatever rotates, fails or is given up
\* since the question, and though the driver may have lost its records: what an
\* object without a pin is mounted as is at least as new as what the volume held
\* of that secret at that file.
NoRollback ==
  [][\A q \in Asked : \A i \in DOMAIN q.objs : \A f \in Files :
       /\ Last(q.objs, i, f) /\ q.objs[i].pin = None
       /\ disk[f] # NoFile /\ disk'[f] # NoFile
       /\ disk[f].secret = q.objs[i].secret
       => disk'[f].ver >= disk[f].ver]_vars

Servable(s) ==
  \A i \in DOMAIN s : Obtainable(s[i]) /\ Extractable(s[i], FetchSecret(s[i]))

\* Rotation: if the class stays as it is and every object can be had, then in
\* the end the volume holds what the class asks for, at the latest versions.
Rotation ==
  \A s \in Specs : <>[](spc = s /\ Servable(s)) =>
    <>[](\A i \in DOMAIN s : \A f \in Files : Last(s, i, f) =>
           Acceptable(s[i], f, disk[f], latest, latest))
=============================================================================
