# A specification of the Secrets Store CSI driver provider for Alibaba Cloud

The provider runs on every node. The CSI driver calls its `Mount` over a Unix
socket when a pod's volume is published and, with rotation switched on, again
and again while the pod lives. `Mount` reads the object list of the
SecretProviderClass, gets credentials and clients, fetches each secret from KMS
or OOS or reads it back from the volume, and returns the files of the volume
with a version for each; the driver writes the files and remembers the versions
for the next call. These modules specify that path and the process it runs in,
and prove that it mounts what it should.

Paths without a directory below are the repository's: `server.go` is
`server/server.go`, `secret_manager_provider.go`, `secret_object.go` and
`secret_value.go` are in `provider/`, `auth.go` is in `auth/`.

## Inventory

| Component | State it keeps | Operations | Hard because |
|---|---|---|---|
| `Mount` (`server.go`), `GetSecretValues` (`secret_manager_provider.go`), `getJsonSecrets` (`secret_value.go`) | per call: the object list, the place in it, `curVerMap`, the files gathered | `isCurrent`, `reloadSecret`, `fetchSecret`, extraction, the answer | calls given up go on; secrets rotate and the class changes between objects; the decision to read back rests on records the driver keeps |
| Object list (`secret_object.go`, `utils/arn.go`) | per call: `translate`, `names`, the objects | `NewSecretObjectList`, `processSecretObject`, `validateSecretObject`, `GetFileName` | three kinds of keys in one map, paths, translation |
| Clients (`server.go`, `endpoint_validation.go`) | per call: base clients, clients and credentials by role | `newKmsClient`, `newOosClient`, `createCrossAccountCredential` | what is shared by which key |
| Identity (`auth.go`, `server.go`) | process: the Kubernetes client and its error; per call: the chain; on disk: token files | `getK8sClient`, `getRoleArnFromServiceAccount`, `GetKMSAuthCred` and six methods | a shared client, fall-back against failure |
| Pull limiters (`pull_limit.go`, `main.go`) | process: two token buckets | `Wait`, the fetch behind it | rate against concurrency, deadlines, waits that are refused |
| Process (`main.go`, `healthz.go`) | listener, socket file, signal channel, health server | start, serve, `Check`, shutdown | order of shutdown, failures of the goroutines, crashes, processes that overlap |
| `Version`, `List`, `Watch`, `LogInterceptor`, `private_ca.go` | none | constant answers, logging, a table | - |

The identity gives `Mount` its base credential, the object list its
descriptors, the clients a connection for each descriptor; `GetSecretValues`
then walks the descriptors. All of that is one goroutine per call. Calls share
only the Kubernetes client, the limiters, the volume on disk, which the
provider reads and the driver writes, and the driver's record of versions.

What makes each correct: of `Mount`, that the volume gets exactly what the
class asks for, at a pinned version or a current one, that versions are
reported truthfully and that a class at rest is mounted in the end; of the
object list, that it admits what it should and that paths stay in the volume;
of the clients, the right service and account for each object; of the identity,
the narrowest one that applies; of the limiters, the rate, and that nobody waits
for a token that is nobody's; of the process, that it comes back after a crash
and stops when it is told.

`PROJECT.json` lists what is hard to test in this code, each at its line, with
the properties that cover it.

## Modules

| Module | What it is |
|---|---|
| `SecretData` | objects, files, contents, versions; what object a content is acceptable for |
| `SecretVolume` | abstract: what a pod is promised about its volume |
| `SecretMount` | `Mount` and `GetSecretValues`, with the driver, the stores and the class around them; implements `SecretVolume` |
| `SecretObjects` | admission of an object list, and file names |
| `MountClients` | the clients of the objects of one call |
| `MountAuth` | the identity of a call |
| `PullLimiter` | the token buckets and the pulls of concurrent calls, in time |
| `ProviderProcess` | `main` and the health server, with the kubelet and the driver |
| `SecretMountProofs`, `SecretMountFreshProofs`, `SecretVolumeProofs`, `SecretObjectsProofs`, `MountClientsProofs`, `MountAuthProofs`, `PullLimiterProofs`, `ProviderProcessProofs` | theorems |
| `MCSecretMount`, `MCSecretObjects`, `MCMountClients`, `MCMountAuth`, `MCPullLimiter`, `MCProviderProcess` | instances for TLC |

### SecretMount

A handler is a record: `objs` is the admitted object list, `next` the loop
variable, `cur` is `curVerMap`, `files` the slice of files by name (a later file
of a name replaces an earlier one, as it does when the driver writes them).
`since`, the versions current when the call began, exists for the properties. Of objects that
are mounted as one file the last wins, as README.md:1220 has it: `Last`.

`ReloadSecret`, `GetSecret` and `ObjectFails` are the three ways one iteration
of the loop in `GetSecretValues` can go; the choice is `isCurrent`. One
iteration is one step: it has one effect outside the goroutine, the request to
the store or the read of the file, and everything else in it is local.
`Stumble` is every failure that the object is not the cause of. A version is a
number. `OosVersion` is the literal `"v1"` that `getOOSSecret` reports, which is
also what the first version of a KMS secret may be called. A secret that is
asked for by a stage label (`objectVersionLabel`) is one of `Secrets` of its
own, that follows its label. Fields are extracted from a JSON value by path,
and the value of some versions is no JSON (`Documents`).

The driver and the kubelet are external, and are modelled from what the
generated `service.proto` says of the request and the answer: one call at a time
for one volume; the files of an answer are all there is in the volume; the
versions of the answer come back in the next request once they are recorded. A
driver may give up on a call, whose handler goes on, since `fetchSecret` makes
its own context. `Save` is apart from `Receive`, since writing files and
recording versions are two writes in two places, and `SaveLost` may come between.

### SecretVolume

Four variables: the class, the versions in the stores, the files, and the open
question. `Answer` replaces all files by some that satisfy the question as it
was asked. Handlers, version records, failures and the process are not there.
The refinement maps `asked` to the list and versions of the handler that the
driver waits for.

### SecretObjects

One step per object, as `NewSecretObjectList` takes them. Texts are sequences of
tokens, since slashes, dots and the colons of the keys matter here and nowhere
else. `HasARN`, `ParsesAsARN` and `IsKmsARN` are what `validateSecretObject` and
`ParseARN` make of a name. `EmptyEntry` is an entry of the list that is nil:
`processSecretObject` writes through it, and no recovery is installed.

### MountClients

One step per descriptor. `cache` joins the base clients (key `Base`) and the two
maps by role. `assumed` counts calls of `createCrossAccountCredential`. The
`LoadOrStore` placeholder never outlives an iteration, since one goroutine
owns the maps.

### MountAuth

One step for `getK8sClient`, under its mutex, one for the request to the API
server, one for each method of the chain. Each of the methods is a set of
outcomes, from the settings of the process and the request; of the SDK the
model has what `credentials.NewCredential` refuses at once: no OIDC provider, a
session of less than 900 seconds, a metadata service that is switched off.

### PullLimiter

Time is a step of its own, `Tick`. A bucket (`rate.Limiter` with a burst of one)
is a number of ticks: `Period` is a token, and a negative number is what was
taken in advance. `Reserve` and `Refuse` are `Wait`, which decides at once
whether the token is due within the limit of the wait. Reading the clock and
drawing on the bucket are one step: both are short of a tick. The context of the
wait is made by `fetchSecret` from `context.Background()`, so nothing but its own
limit ends a wait; when a handler wakes up so late that the limit is over too,
`Expire` may be what it sees, and its token is not given back (`CancelAt`
restores none that is past due). `Late` and `Slow` bound how late a timer fires
and how long a pull lasts: they are bounds of the model, and `PullsBounded` says
what follows from them. An object that is read back takes no token, so `Lists`
are the objects of a call that are fetched.

### ProviderProcess

`pc` follows `main`: remove the path, listen, launch the goroutines, wait for a
signal, and then what is deferred, since `GracefulStop` panics. `socket` is the
process whose listener made the file at the path: a file stays when its process
is killed, closing a listener unlinks the path whoever made the file that is
there by then, and a server whose file is gone cannot be dialled, but goes on
serving its connections. The health server shares the port with the node
(`hostNetwork`), and asks at the path, not its own server: a health check may
well be answered through another process. The kubelet, the driver and another
program are external, from what the manifest and the code need of them: pods
that overlap after a deletion by force, `SIGTERM` and the grace period, the
liveness probe, one connection that the driver keeps.

## Runs

Passing:

| Run | Question | Bounds |
|---|---|---|
| `mount_pins` | Does the driver mount what the class asks for, are the versions true, is it a `SecretVolume`? | 2 handlers, 1 secret and 1 parameter of 2 versions, 4 lists between which a pin moves from 1 to 2 and goes, a file passes from a field to a parameter, or is both's, and the parameter has a pin for a time; a field of a value that is no JSON from version 2 on; 2 failures |
| `mount_lost_records` | What is left when the driver loses a record? Does a file go back? | 2 handlers, 2 secrets of 2 versions, 3 lists, in one of which a secret takes over the file of another's field, 3 failures |
| `mount_rotation` | Does the volume follow the class and the secrets in the end? | 2 handlers, 3 lists, 1 failure, fairness |
| `objects` | Which paths are admitted, and does admission depend on the order? | names up to 6 and aliases up to 4 characters over slash, dot, letter; ARNs up to 7 tokens; lists up to 3 of a pool, with nil and aliases with colons; 5 settings |
| `clients_all` | Does each object get its own client, and which endpoint? | lists up to 3 of 16 objects, 2 roles |
| `auth_calls` | Which identity is used when mounts share the Kubernetes client? | 2 handlers, all 128 environments, 8 requests |
| `pulls` | Is the rate kept, who waits and for whom, and does every call end? | 3 handlers, 2 buckets, lists up to 2 objects, period 2, limit 3, lateness 1, pulls of 2 ticks |
| `life` | Does the provider come back, stay, and stop? | 2 processes, 1 call, 2 failed checks, 3 faults, fairness |

Two handlers are enough for `SecretMount` because the driver waits for one at a
time, and the others, which it gave up, differ in nothing it can see; the proofs
have no bound on them. Two versions give a pin that is behind and one that is
current, a pin that the store does not have yet, and a rotation. Two failures
are a call given up and a second fault during the next; with `SaveLost` three
are needed for that. In `objects`, four characters are the longest alternative
of `badPathRE`, and six leave room on both sides; five tokens behind "acs:" hold
the colons of an ARN and a service. `clients_all` needs two objects for each way
of sharing and one between them. In `auth_calls` the requests have each token in
each of its places, keys, and secrets that are no JSON. In `pulls` a limit of
one and a half periods leaves room for one handler that waits for a token and
one behind it that is refused or just in time. In `life` two processes overlap,
and three faults are a crash, a replacement and a port that is taken, in any
order. `MaxVersion` and `MaxFaults` are guards of the actions they bound.

A volume can be republished for ever, so `SecretMount`, `MountAuth`,
`PullLimiter` and `ProviderProcess` are checked for deadlock; `SecretObjects`
and `MountClients` end, and their configurations say so.

Violations, each with a finding in `PROJECT.json` that quotes the repository:

| Run | What it shows |
|---|---|
| `mount_return` | a pinned object that leaves the class and comes back makes every later mount fail: its version id was never dropped |
| `auth_retry` | an error of `NewForConfig` is remembered, contrary to the comment |
| `pulls_flag` | the flags limit how many pulls start in a second, not how many there are at a time (pulls up to 5 ticks, a second of 4 ticks, a flag of 2: three at a time) |
| `process_stop` | a process that is told to stop does not wait for its calls |

`mount_return` is about mounts that never succeed; it is checked under
`FairSpec`, so what it shows is not a system that merely stops.

More disagreements are only hazards in `PROJECT.json`, without a run: the dots
of `badPathRE` are not escaped, so that `aa/a` is refused; a parameter and a
pinned secret of one file name are never mounted, instead of the last one
winning; another secret behind an alias, with the same version id, is never
fetched; a token file stays behind when the SDK refuses the credential at once.
A token map without the STS audience fails the mount though its message
(auth.go:146) says that the next method is tried. That the `kmsEndpoint` of an
object is not used when another object made the client is `FirstDecides`.

### Fairness

`FairSpec` assumes that goroutines are scheduled and stores answer (`Work`),
that the kubelet republishes (`Begin`, the RequiresRepublish mechanism of
README.md:1050), and that the driver takes answers and records them. Failures,
rotations and edits are not fair: they may happen or not. A handler that works
always either answers or fails, because every fetch has a time limit for the
limiter and the SDK has its own for requests. The conclusion of `Rotation` is
about classes that come to rest with objects that can be had.

`FairSpec` of `PullLimiter` assumes that time passes, goroutines are scheduled
and a pull has an end, as the SDK's time limits have it; calls need not begin.
`FairSpec` of `ProviderProcess` assumes that goroutines are scheduled and that
the kubelet starts its pod, probes and restarts it. That a container is killed
when its grace period is over is not assumed, so `StopsWhenAsked` is about the
process; nor are `ServeFails` and what the driver does. `Recovers` supposes that
another program leaves the port in the end: the code tries it once per process.

## Proofs

`SecretMount`, for all sets of files, secrets, handlers, lists and documents, and
any bound on versions and failures:

* `TypeCorrect`, `VolumeTypeCorrect`: types.
* `MountsWhatIsAsked` (`AnswerAcceptable`), `ReportsAreHonest` (`VersionsHonest`),
  `KeepsPromise` (`SecretMount` implements `SecretVolume`).
* `MountsFresh` (`AnswerFresh`), `FilesNeverGoBack` (`NoRollback`): without the
  assumption that records are kept.
* `NeverRollsBack`: the promise alone, `SecretVolume`, is strong enough for that.
  Its invariant is `NotAhead`: neither stores nor an open question are behind
  the volume.

`AnswerAcceptable` is not inductive: whether a file that is read back has the
pinned version depends on the record in `cur` and on the file in the volume,
which meet only in this step. `RecordInv` says what ties them together:

1. every file in the volume is one that some list of the class mounts, and
   `answer`, the version reported with it, is its version;
2. once recorded, `status` is `answer`;
3. in the handler the driver waits for, the objects before `next` have right
   files and versions, no other file is there, and what `cur` says of any other
   file is true of the volume (`HandlerRight`).

The volume changes only when the awaited handler is done, so the third part
holds to the end of a call. Only the awaited handler is in the invariant: of a
handler that was given up, nothing of the kind is true. `LastBefore` is `Last` of
the objects that were seen; the lemma both proofs turn on is `LastStep`: one more
object takes its files over, and leaves the others to who had them.

Two assumptions are needed for these three theorems, and both are false of some
runs of the program: the code checks neither.

* `PinnedFilesStable`: the file of a pinned object is shared with no other object
  of its list, and stands for the same part of the same secret in all lists of the
  class. `isCurrent` compares a recorded version with the pin and nothing else, so
  without this the record of one secret may vouch for another. It says nothing of
  objects without a pin, nor of the files of fields: they may share files, and
  take them over when the class is edited.
* `~SaveCanFail`: the driver records what it has written; without it the record
  may be older than the file, and a pin that goes back would be taken for mounted.

What survives without them is proved in `SecretMountFreshProofs`:

* `FilesNeverGoBack` (`NoRollback`) and `UnpinnedAreFresh` (an object without a pin
  is mounted from its secret, at a version current during the call) need no
  assumption at all. `FreshInv` does not say what the records are worth, but that
  nothing in the volume is newer than what was current when the awaited call
  began, and that what the call gathered for an object without a pin is no older
  (`FilesAge`): such an object is never read back.
* `MountsFresh` (`AnswerFresh`) needs `PinnedFilesStable` only. `NamesInv` is the
  part of `RecordInv` that is about which secret a file holds, without versions
  (`FilesRight`).

The invariants stand in the proof modules; TLC has checked each on the instances
of the runs before it was proved. `MCSecretMount` has `PinnedFilesStable` as an
assumption, so TLC evaluates it for the lists of its runs.

`SecretObjects`, for lists, names and settings of any length: `NeverUp`
(`NoWayUp`), `NeverAbsolute` (`Relative`) and `DistinctAdmitted`
(`AdmittedIffDistinct`). `LoopInv` says that every object before `next` was valid
and that a list is admitted only at its end; what is left of the first two is
about texts: `DotsInGoodPath`, that two dots between slashes are what `badPathRE`
finds, and `TrimmedIsRelative`, about the first character that is no slash.

`DistinctAdmitted` compares objects, the code compares keys that are joined from
texts. `ClaimInv` ties the two: the claimed names are the keys of the objects
before `next`, no two of which are the same, and a list was refused because the
object at `next` is not valid or a key of it is claimed. Then the keys give the
objects away (`KeysDiffer`): in `name:alias:type` the type is the last token and,
if the alias has no colon, the alias begins after the last colon but one
(`NameKeysDiffer`); keys of two kinds differ by where they have colons
(`KindsDiffer`). A name may have colons, as ARNs do. Equal keys from equal names
need none of that, so what is admitted is distinct whatever the texts.

`MountClients`, for any list: `EveryObjectServed` (`RightClient`),
`RolesAssumedOnce` (`AssumeOnce`), `SharedFromFirst` (`FirstDecides`). The
invariant ties the cache to the descriptors before `next`: an entry is the client
that the first descriptor of its service and role asks for, and a role is
counted exactly when its credential is there.

`MountAuth`, for any number of concurrent calls: `Narrowest`
(`NarrowestIdentity`), `OwnIdentityOnly` (`PodIdentity`), `OneClientCreated`
(`OneClient`), `ChainNeverEnds` (`TypeOK`). The invariant says of a call that is
in the chain that no method before `at` applied.

`PullLimiter`, for any number of handlers and buckets, any period and limits:
`RateKept` (`TokensApart`), `NoTokenWasted` (`NoGap`), `ConcurrencyBounded`
(`PullsBounded`), `ServedInTurn` (`InTurn`). `TokensFit` relates bucket and handlers: no token is due later
than the bucket has been drawn on, and the last token is held by someone as long
as the bucket is in debt. A new token is due a period after that debt, hence `InTurn`. That the number of pulls is bounded follows from
`TokensApart` alone: tokens a period apart fall into different periods, and a
pull is at most `Slow` behind its token.

`ProviderProcess`, for any number of processes and calls: its types, and
`ReadyForGood` (`StaysReady`), the part of `Recovers` that is about single steps.
A provider that is ready could be restarted for health checks that failed before:
`ReadyInv` says why not. `Start` forgets them, `Probe` waits for the health
server to have had its chance, and a process that has the socket and the port has
had both since, so `misses` is zero; and a signal means that the process was told
to stop. Its theorem is `HealthKept`.

Only model-checked: liveness (`Rotation`, `CallEnds`, `Recovers`,
`StopsWhenAsked`), which is beyond the prover: it needs ENABLED under the
fairness conditions. Every invariant and action property of a passing run is a
theorem.

## Not modelled

* Session names, the CA table, file modes, log lines: data that no property
  tells apart.
* YAML, JSON and JMESPath themselves: a value either has what a path selects or not.
* The retry in `getKMSSecret` and `getOOSSecret`: it is decided on an error type
  of another SDK than the one in use; one or two tries are one fetch.
* `Version`, `List`, `Watch`: constant answers. `LogInterceptor`: logging.
* A flag of zero, whose bucket is never filled again; a bucket and the clock in
  units below a tick.
* Files of pinned objects that are shared, or come to stand for another secret:
  outside `PinnedFilesStable` the hazards say what happens, and no run has it.
* One call from identity to answer in one module: within a call the parts run
  one after the other in one goroutine and share nothing but what they hand on,
  so a composition would say no more than the parts do.

## Plan

Left to do: what still holds of lists outside `PinnedFilesStable`, beyond
`NoRollback`; how long a call may last in `PullLimiter`, as a bound in ticks beside
`CallEnds`; the steps behind `Rotation` that can be stated without fairness.
