----------------------------- MODULE MountAuth -----------------------------
(***************************************************************************)
(* Under which identity a mount reads secrets: the role a pod's service    *)
(* account is annotated with (server/server.go), then the chain of six     *)
(* methods (auth/auth.go).  All mounts of the process share one Kubernetes *)
(* client.                                                                 *)
(***************************************************************************)
EXTENDS Naturals, Sequences

CONSTANTS
  Calls,    \* handlers of Mount
  Settings, \* environments the process may be started in
  Requests  \* what a mount may ask for

Methods == {"podSA", "oidc", "ramRole", "nodeSecret", "ak", "ecs"}

\* ALICLOUD_*, ACCESS_KEY_ID and SECRET_ACCESS_KEY, and whether the session
\* expiration is below the SDK's minimum and the metadata service disabled.
Setting == [explicitArn: BOOLEAN, account: BOOLEAN, cluster: BOOLEAN,
            roleArn: BOOLEAN, ak: BOOLEAN, short: BOOLEAN, noMetadata: BOOLEAN]

\* What is said of the pod's tokens: in good ones there is one for STS.
Token == {"none", "malformed", "noAudience", "good"}

\* secrets is the JSON text of the request; token and keys are entries of it.
\* The driver always names the pod, its namespace and its service account.
Request == [usePodSA: BOOLEAN, context: Token,
            secrets: {"absent", "malformed", "map"}, token: Token, keys: BOOLEAN]

ASSUME SettingsAssumption == Settings \subseteq Setting
ASSUME RequestsAssumption == Requests \subseteq Request

VARIABLES
  env,    \* the settings of the process
  client, \* the Kubernetes client: "none", "ready", or "broken" with its error
  opened, \* how often a client was created
  pc,     \* what each call does: "idle", "client", "annotation", "chain", "done"
  req,    \* the request of each call
  arn,    \* whether the call found the pod's role
  at,     \* the method that the call tries next
  result  \* "none", "error", or the method that gave the credential

vars == <<env, client, opened, pc, req, arn, at, result>>

-----------------------------------------------------------------------------
(* The role of the pod's service account.                                  *)

Begin(c, r) ==
  /\ pc[c] \in {"idle", "done"}
  /\ req' = [req EXCEPT ![c] = r]
  /\ pc' = [pc EXCEPT ![c] = IF r.usePodSA THEN "client" ELSE "chain"]
  /\ arn' = [arn EXCEPT ![c] = FALSE]
  /\ at' = [at EXCEPT ![c] = 1]
  /\ result' = [result EXCEPT ![c] = "none"]
  /\ UNCHANGED <<env, client, opened>>

\* Mutated Opened: a client that was created is not looked for.
Opened_Never == FALSE

Opened == client # "none"

\* getK8sClient, under its mutex.  A configuration that cannot be read is not
\* remembered; an error of NewForConfig is.  Without a client the mount goes on
\* without the role.
GetK8sClient(c) ==
  /\ pc[c] = "client"
  /\ \/ Opened /\ UNCHANGED <<client, opened>>
     \/ ~Opened /\ client' \in {"ready", "broken"} /\ opened' = opened + 1
     \/ ~Opened /\ UNCHANGED <<client, opened>>
  /\ pc' = [pc EXCEPT ![c] = IF client' = "ready" THEN "annotation" ELSE "chain"]
  /\ UNCHANGED <<env, req, arn, at, result>>

\* The API may not answer, and the account need not be annotated.
ReadAnnotation(c) ==
  /\ pc[c] = "annotation"
  /\ \E found \in BOOLEAN : arn' = [arn EXCEPT ![c] = found]
  /\ pc' = [pc EXCEPT ![c] = "chain"]
  /\ UNCHANGED <<env, client, opened, req, at, result>>

-----------------------------------------------------------------------------
(* The chain: a method that does not apply is skipped, an error ends it.   *)

OidcArn == env.explicitArn \/ (env.account /\ env.cluster)

\* Mutated PodToken: the driver's older way to pass the tokens only.
PodToken_Context(r) == r.context

\* Tokens in the secrets of the request win over those in the volume context.
PodToken(r) == IF r.secrets = "map" /\ r.token # "none" THEN r.token ELSE r.context

\* The token file may fail to be written, and the SDK needs an OIDC provider.
PodSA(c) ==
  IF ~req[c].usePodSA \/ ~arn[c] \/ PodToken(req[c]) = "none" THEN {"skip"}
  ELSE IF PodToken(req[c]) # "good" THEN {"error"}
  ELSE IF OidcArn THEN {"cred", "error"} ELSE {"error"}

NodeSecret(c) ==
  CASE req[c].secrets = "absent" -> {"skip"}
    [] req[c].secrets = "malformed" -> {"error"}
    [] OTHER -> IF req[c].keys THEN {"cred"} ELSE {"skip"}

\* Mutated Ecs: without the metadata service the last method is skipped.
Ecs_Skip == IF env.noMetadata THEN {"skip"} ELSE {"cred"}

Ecs == IF env.noMetadata THEN {"error"} ELSE {"cred"}

\* What NewCredential of a method may return.
Outcomes(c, m) ==
  CASE m = "podSA" -> PodSA(c)
    [] m = "oidc" -> IF OidcArn /\ env.roleArn THEN {"cred"} ELSE {"skip"}
    [] m = "ramRole" -> IF ~env.ak \/ ~env.roleArn THEN {"skip"}
                        ELSE IF env.short THEN {"error"} ELSE {"cred"}
    [] m = "nodeSecret" -> NodeSecret(c)
    [] m = "ak" -> IF env.ak THEN {"cred"} ELSE {"skip"}
    [] m = "ecs" -> Ecs

\* Mutated Chain: the keys of the process come before those of the request.
Chain_AkFirst == <<"podSA", "oidc", "ramRole", "ak", "nodeSecret", "ecs">>

Chain == <<"podSA", "oidc", "ramRole", "nodeSecret", "ak", "ecs">>

Skip(c) ==
  /\ at' = [at EXCEPT ![c] = @ + 1]
  /\ UNCHANGED <<pc, result>>

End(c, r) ==
  /\ result' = [result EXCEPT ![c] = r]
  /\ pc' = [pc EXCEPT ![c] = "done"]
  /\ UNCHANGED at

Try(c) ==
  /\ pc[c] = "chain"
  /\ LET m == Chain[at[c]] IN
     \E o \in Outcomes(c, m) :
       CASE o = "skip" -> Skip(c)
         [] o = "cred" -> End(c, m)
         [] o = "error" -> End(c, "error")
  /\ UNCHANGED <<env, client, opened, req, arn>>

NoRequest == [usePodSA |-> FALSE, context |-> "none",
              secrets |-> "absent", token |-> "none", keys |-> FALSE]

Init ==
  /\ env \in Settings
  /\ client = "none"
  /\ opened = 0
  /\ pc = [c \in Calls |-> "idle"]
  /\ req = [c \in Calls |-> NoRequest]
  /\ arn = [c \in Calls |-> FALSE]
  /\ at = [c \in Calls |-> 1]
  /\ result = [c \in Calls |-> "none"]

Next ==
  \E c \in Calls :
    \/ \E r \in Requests : Begin(c, r)
    \/ GetK8sClient(c)
    \/ ReadAnnotation(c)
    \/ Try(c)

Spec == Init /\ [][Next]_vars
-----------------------------------------------------------------------------
(* Properties.                                                             *)

\* The types of the variables.  A call never gets to the end of the chain, and
\* so never answers "empty credential": the last method gives a credential or
\* an error.
TypeOK ==
  /\ env \in Settings
  /\ client \in {"none", "ready", "broken"}
  /\ opened \in Nat
  /\ pc \in [Calls -> {"idle", "client", "annotation", "chain", "done"}]
  /\ req \in [Calls -> Requests \cup {NoRequest}]
  /\ arn \in [Calls -> BOOLEAN]
  /\ at \in [Calls -> 1 .. Len(Chain)]
  /\ result \in [Calls -> Methods \cup {"none", "error"}]

HasToken(r) == r.context # "none" \/ (r.secrets = "map" /\ r.token # "none")

OwnIdentity(c) == req[c].usePodSA /\ arn[c] /\ HasToken(req[c])

Applies(c, m) ==
  CASE m = "podSA" -> OwnIdentity(c)
    [] m = "oidc" -> env.roleArn /\ (env.explicitArn \/ (env.account /\ env.cluster))
    [] m = "ramRole" -> env.roleArn /\ env.ak
    [] m = "nodeSecret" -> req[c].secrets = "map" /\ req[c].keys
    [] m = "ak" -> env.ak
    [] m = "ecs" -> TRUE

Documented == <<"podSA", "oidc", "ramRole", "nodeSecret", "ak", "ecs">>

\* A mount uses the first method in the documented order that its settings and
\* its request allow: never a broader identity while a narrower one is there.
NarrowestIdentity ==
  \A c \in Calls : \A i \in DOMAIN Documented :
    result[c] = Documented[i] =>
      /\ Applies(c, result[c])
      /\ \A j \in 1 .. i - 1 : ~Applies(c, Documented[j])

\* A pod that has an identity of its own, and a token for it however the
\* driver passes it, reads secrets under no other.
PodIdentity ==
  \A c \in Calls :
    pc[c] = "done" /\ OwnIdentity(c) => result[c] \in {"podSA", "error"}

\* Mounts that start together create one Kubernetes client between them.
OneClient == opened <= 1

\* A mount that comes after a failure to create the Kubernetes client tries
\* again (server.go: "to allow retry on failure").
RetriedAfterFailure ==
  [][\A c \in Calls :
       client = "broken" /\ pc[c] = "client" /\ pc'[c] # "client" => opened' > opened]_vars
=============================================================================
