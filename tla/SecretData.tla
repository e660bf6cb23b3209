----------------------------- MODULE SecretData -----------------------------
(***************************************************************************)
(* The data that the provider's Mount call works on: the objects of a      *)
(* SecretProviderClass as NewSecretObjectList leaves them (provider/       *)
(* secret_object.go), the files they are mounted as, and the contents of   *)
(* those files.                                                            *)
(***************************************************************************)
EXTENDS Naturals, Sequences

CONSTANTS
  Files,        \* file names, as GetFileName returns them
  NoFile,       \* there is no such file in the volume
  Secrets,      \* the secrets of KMS and the parameters of OOS
  KmsSecrets,   \* those of Secrets that are in KMS: objectType "kms" or ""
  Paths,        \* JMESPath expressions
  Whole,        \* the part of a secret that is all of it
  Specs,        \* the object lists the SecretProviderClass may hold
  Documents,    \* <<secret, version>> whose value is a JSON object in which
                \* every path of Paths selects a string
  MaxVersion    \* bound: versions a secret goes through

Versions == 1 .. MaxVersion

\* No version: an absent entry of the version map, or an empty objectVersion.
None == 0

\* getOOSSecret reports the literal "v1" for every parameter.
OosVersion == 1

Extractions == UNION {[S -> Paths] : S \in SUBSET Files}

\* A SecretObject after NewSecretObjectList; jmes maps the file name of each
\* jmesPath entry to the path it extracts.
SecretObject == [file: Files, secret: Secrets,
                 pin: Versions \cup {None}, jmes: Extractions]

\* What a file holds: a version of a secret, all of it or the part at a path.
Content == [secret: Secrets, ver: Versions, part: Paths \cup {Whole}]

FileMap == [Files -> Content \cup {NoFile}]
VersionMap == [Files -> Versions \cup {None}]
Cloud == [Secrets -> Versions]

NoFiles == [f \in Files |-> NoFile]
NoVersions == [f \in Files |-> None]
FirstVersions == [s \in Secrets |-> 1]

ASSUME SecretsAssumption == KmsSecrets \subseteq Secrets
ASSUME VersionAssumption == MaxVersion \in Nat \ {0}
ASSUME ContentAssumption == NoFile \notin Content /\ Whole \notin Paths
ASSUME SpecsAssumption == Specs # {} /\ Specs \subseteq Seq(SecretObject)

\* The files a secret object is mounted as, and what each is a part of.
Writes(o) == {o.file} \cup DOMAIN o.jmes
PartOf(o, f) == IF f \in DOMAIN o.jmes THEN o.jmes[f] ELSE Whole

\* getJsonSecrets succeeds: there is nothing to extract, or the value is JSON.
Extractable(o, k) ==
  DOMAIN o.jmes # {} => k.part = Whole /\ <<k.secret, k.ver>> \in Documents

\* Content k is what object o asks for at file f, whatever its version.
Names(o, f, k) ==
  k.secret = o.secret /\ k.part = PartOf(o, f)

\* Object i is the last of list s that is mounted as file f.
Last(s, i, f) ==
  f \in Writes(s[i]) /\ \A j \in DOMAIN s : i < j => f \notin Writes(s[j])

\* The file of a pinned object is its own: no other object of its list is
\* mounted as it, and in every list the class goes through it stands for the same
\* part of the same secret.  Any other file may be shared, and stand for another
\* secret when the class is edited.
PinnedFilesStable ==
  \A s, t \in Specs : \A i \in DOMAIN s, j \in DOMAIN t :
    s[i].pin # None /\ s[i].file \in Writes(t[j]) =>
      /\ s = t => i = j
      /\ s[i].secret = t[j].secret
      /\ PartOf(s[i], s[i].file) = PartOf(t[j], s[i].file)

\* Version v is an honest label of content k.
Labels(v, k) == v = IF k.secret \in KmsSecrets THEN k.ver ELSE OosVersion

\* Content k is what a call that began at versions since may mount for object
\* o at file f while the versions are latest: a version that exists and has the
\* part; of a pinned KMS secret the pin, without a pin one no older than since.
Acceptable(o, f, k, since, latest) ==
  /\ k # NoFile
  /\ Names(o, f, k)
  /\ k.ver <= latest[o.secret]
  /\ k.part # Whole => <<k.secret, k.ver>> \in Documents
  /\ o.pin = None => since[o.secret] <= k.ver
  /\ o.pin # None /\ o.secret \in KmsSecrets => k.ver = o.pin
=============================================================================
