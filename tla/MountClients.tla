---------------------------- MODULE MountClients ----------------------------
(***************************************************************************)
(* How one Mount call gives every object a client of its store             *)
(* (server/server.go, the loop over the descriptors): clients are shared   *)
(* by the objects of one service and one credential, and so are the        *)
(* credentials of the roles that are assumed in other accounts.            *)
(***************************************************************************)
EXTENDS Naturals, Sequences

CONSTANTS
  Roles,        \* roles assumed in other accounts
  Base,         \* the credential of the mount itself; no crossAccountRoleArn
  Endpoints,    \* KMS endpoints of the three forms that are allowed
  BadEndpoints, \* other texts given as kmsEndpoint
  Default,      \* no kmsEndpoint; the endpoint built from the region
  NoClient,     \* a nil client
  Lists         \* the lists of objects that are mounted

Creds == Roles \cup {Base}
Services == {"kms", "oos"}

\* type is "" when it is not given.  NewSecretObjectList admits any type.
Descriptor == [type: {"", "kms", "oos", "other"}, role: Creds,
               endpoint: Endpoints \cup BadEndpoints \cup {Default}]

Client == [service: Services, cred: Creds, endpoint: Endpoints \cup {Default}]

ASSUME BaseAssumption == Base \notin Roles
ASSUME EndpointAssumption == (Endpoints \cup {Default}) \cap BadEndpoints = {}
ASSUME ClientAssumption == NoClient \notin Client
ASSUME ListsAssumption == Lists \subseteq Seq(Descriptor)

VARIABLES
  list,     \* the descriptors
  next,     \* the descriptor that is looked at next
  clients,  \* the clients of the descriptors before it
  cache,    \* the client of each service and credential
  creds,    \* the roles whose credential is cached
  assumed,  \* how often the credential of a role was created
  pc        \* "assign", "fetch" or "failed"

vars == <<list, next, clients, cache, creds, assumed, pc>>

\* The types of the variables: no client is made for an endpoint of another
\* form.
TypeOK ==
  /\ list \in Lists
  /\ next \in Nat \ {0}
  /\ clients \in Seq(Client)
  /\ cache \in [Services -> [Creds -> Client \cup {NoClient}]]
  /\ creds \subseteq Roles
  /\ assumed \in [Roles -> Nat]
  /\ pc \in {"assign", "fetch", "failed"}

Init ==
  /\ list \in Lists
  /\ next = 1
  /\ clients = <<>>
  /\ cache = [s \in Services |-> [c \in Creds |-> NoClient]]
  /\ creds = {}
  /\ assumed = [r \in Roles |-> 0]
  /\ pc = "assign"

Service(o) == IF o.type = "" THEN "kms" ELSE o.type

\* Mutated CacheKey: one client per service, whatever the role.
CacheKey_Service(o) == Base

\* What a client is cached by: the role, or that there is none.
CacheKey(o) == o.role

\* Mutated Valid: the endpoint is not checked.
Valid_Any(o) == TRUE

\* newKmsClient checks an endpoint that is given; OOS has only its default.
Valid(o) == Service(o) = "kms" => o.endpoint \notin BadEndpoints

NewClient(o) ==
  [service |-> Service(o), cred |-> o.role,
   endpoint |-> IF Service(o) = "kms" THEN o.endpoint ELSE Default]

Supported(o) == o.type # "other"

\* Mutated Cached: a client of another endpoint is not shared.
Cached_Endpoint(o) ==
  /\ cache[Service(o)][CacheKey(o)] # NoClient
  /\ cache[Service(o)][CacheKey(o)].endpoint = NewClient(o).endpoint

Cached(o) == cache[Service(o)][CacheKey(o)] # NoClient

\* Mutated NeedsCred: the credential is created whenever a client is.
NeedsCred_PerClient(o) == o.role # Base /\ ~Cached(o)

\* The credential of the role is created unless an earlier object needed it.
NeedsCred(o) == o.role # Base /\ o.role \notin creds

AtDescriptor(o) == pc = "assign" /\ next <= Len(list) /\ o = list[next]

\* The role is assumed first if no object before needed it.
AssumeRole(o) ==
  /\ creds' = creds \cup ({o.role} \ {Base})
  /\ assumed' = IF NeedsCred(o) THEN [assumed EXCEPT ![o.role] = @ + 1] ELSE assumed

Give(client) ==
  /\ clients' = Append(clients, client)
  /\ next' = next + 1
  /\ UNCHANGED <<list, pc>>

\* The client that an earlier object left is shared, unchecked.
ShareClient(o) ==
  /\ AtDescriptor(o) /\ Supported(o) /\ Cached(o)
  /\ AssumeRole(o)
  /\ Give(cache[Service(o)][CacheKey(o)])
  /\ UNCHANGED cache

CreateClient(o) ==
  /\ AtDescriptor(o) /\ Supported(o) /\ ~Cached(o) /\ Valid(o)
  /\ AssumeRole(o)
  /\ Give(NewClient(o))
  /\ cache' = [cache EXCEPT ![Service(o)][CacheKey(o)] = NewClient(o)]

\* The call ends without an answer, and what it cached goes with it.
End ==
  /\ pc' = "failed"
  /\ UNCHANGED <<list, next, clients, cache, creds, assumed>>

Unsupported(o) == AtDescriptor(o) /\ ~Supported(o) /\ End

\* The role cannot be assumed, or the client cannot be created.
CannotConnect(o) ==
  /\ AtDescriptor(o) /\ Supported(o)
  /\ NeedsCred(o) \/ ~Cached(o)
  /\ End

Assigned ==
  /\ pc = "assign"
  /\ next > Len(list)
  /\ pc' = "fetch"
  /\ UNCHANGED <<list, next, clients, cache, creds, assumed>>

Next ==
  \/ \E i \in DOMAIN list :
       LET o == list[i]
       IN ShareClient(o) \/ CreateClient(o) \/ Unsupported(o) \/ CannotConnect(o)
  \/ Assigned

Spec == Init /\ [][Next]_vars

-----------------------------------------------------------------------------
(* Properties.                                                             *)

\* fetchSecret takes the object's client, or the base client if it has none.
ClientUsed(i) ==
  IF clients[i] # NoClient THEN clients[i] ELSE cache[Service(list[i])][Base]

\* Every object is fetched from its own service under its own credential,
\* whatever shared its client before.
RightClient ==
  pc = "fetch" => \A i \in DOMAIN list :
    /\ ClientUsed(i) # NoClient
    /\ ClientUsed(i).service = Service(list[i])
    /\ ClientUsed(i).cred = list[i].role

\* A role is assumed at most once in a mount, though both services need it.
AssumeOnce == \A r \in Roles : assumed[r] <= 1

SameKey(i, j) == Service(list[i]) = Service(list[j]) /\ list[i].role = list[j].role

\* The first object of a service and a role decides where all of them are
\* fetched from: the kmsEndpoint of a later one is neither used nor checked.
FirstDecides ==
  pc = "fetch" => \A i, j \in DOMAIN list :
    SameKey(i, j) /\ (\A k \in 1 .. j - 1 : ~SameKey(k, j)) =>
      ClientUsed(i) = NewClient(list[j])
=============================================================================
