------------------------- MODULE MountClientsProofs -------------------------
(***************************************************************************)
(* What holds of MountClients for every list of objects, of any length,    *)
(* and any roles and endpoints.                                            *)
(***************************************************************************)
EXTENDS MountClients, TLAPS

\* A descriptor that is admitted to the caches gets a client of its own service
\* and role.
LEMMA NewClientType ==
  ASSUME NEW o \in Descriptor, Supported(o)
  PROVE  /\ Service(o) \in Services
         /\ o.role \in Creds
         /\ Valid(o) => NewClient(o) \in Client
         /\ NewClient(o).service = Service(o) /\ NewClient(o).cred = o.role
         /\ NewClient(o) # NoClient \/ ~Valid(o)
<1>1. Service(o) \in Services /\ o.role \in Creds
  BY DEF Descriptor, Supported, Service, Services
<1>2. Valid(o) => NewClient(o) \in Client
  BY <1>1, EndpointAssumption DEF Valid, NewClient, Client, Descriptor
<1> QED
  BY <1>1, <1>2, ClientAssumption DEF NewClient

\* What the loop has done when it comes to the descriptor next: every object
\* before it has the client that is cached for its service and role; such a
\* client was made for the first of them; and a role was assumed once if its
\* credential is cached.
LoopInv ==
  /\ next <= Len(list) + 1 /\ Len(clients) = next - 1
  /\ pc = "fetch" => next = Len(list) + 1
  /\ \A i \in 1 .. next - 1 :
       /\ i \in DOMAIN list /\ Supported(list[i])
       /\ clients[i] = cache[Service(list[i])][list[i].role]
       /\ clients[i] # NoClient
       /\ (\A k \in 1 .. i - 1 : ~SameKey(k, i)) => clients[i] = NewClient(list[i])
  /\ \A s \in Services, c \in Creds : cache[s][c] # NoClient =>
       /\ cache[s][c].service = s /\ cache[s][c].cred = c
       /\ \E i \in 1 .. next - 1 : Service(list[i]) = s /\ list[i].role = c
  /\ \A r \in Roles : assumed[r] = IF r \in creds THEN 1 ELSE 0

Inv == TypeOK /\ LoopInv

\* Nothing is cached at first.
LEMMA InvInit == Init => Inv
<1> SUFFICES ASSUME Init PROVE TypeOK /\ LoopInv
  BY DEF Inv
<1>1. list \in Seq(Descriptor)
  BY ListsAssumption DEF Init
<1>2. TypeOK
  BY DEF Init, TypeOK
<1>3. LoopInv
  BY <1>1 DEF Init, LoopInv
<1> QED
  BY <1>2, <1>3

\* What an iteration that gives the next descriptor a client comes to.
LEMMA GiveKeeps ==
  ASSUME Inv, NEW o \in Descriptor, AtDescriptor(o), Supported(o), AssumeRole(o),
         NEW client \in Client, Give(client),
         cache' = [cache EXCEPT ![Service(o)][o.role] = client],
         Cached(o) => client = cache[Service(o)][o.role],
         ~Cached(o) => client = NewClient(o),
         client.service = Service(o), client.cred = o.role
  PROVE  Inv'
<1> USE DEF Inv
<1>1. /\ list \in Seq(Descriptor) /\ next \in Nat \ {0} /\ next <= Len(list)
      /\ o = list[next] /\ next \in DOMAIN list
      /\ list' = list /\ next' = next + 1 /\ pc' = pc /\ pc = "assign"
      /\ clients' = Append(clients, client) /\ Len(clients) = next - 1
      /\ clients \in Seq(Client)
  BY ListsAssumption DEF TypeOK, AtDescriptor, Give, LoopInv
<1>2. Service(o) \in Services /\ o.role \in Creds
  BY NewClientType
<1>3. TypeOK'
  <2>1. cache' \in [Services -> [Creds -> Client \cup {NoClient}]]
    BY <1>2 DEF TypeOK
  <2>2. creds' \subseteq Roles
    BY <1>2 DEF AssumeRole, TypeOK, Creds
  <2>3. assumed' \in [Roles -> Nat]
    <3>1. assumed \in [Roles -> Nat]
      BY DEF TypeOK
    <3>2. CASE NeedsCred(o)
      <4>1. o.role \in Roles
        BY <1>2, <3>2 DEF NeedsCred, Creds
      <4>2. assumed' = [assumed EXCEPT ![o.role] = @ + 1] /\ assumed[o.role] \in Nat
        BY <3>1, <3>2, <4>1 DEF AssumeRole
      <4> QED
        BY <3>1, <4>1, <4>2
    <3>3. CASE ~NeedsCred(o)
      BY <3>1, <3>3 DEF AssumeRole
    <3> QED
      BY <3>2, <3>3
  <2> QED
    BY <1>1, <2>1, <2>2, <2>3 DEF TypeOK
<1>4. /\ \A i \in 1 .. next - 1 : clients'[i] = clients[i]
      /\ clients'[next] = client
      /\ Len(clients') = next
  BY <1>1
<1>5. cache'[Service(o)][o.role] = client /\ client # NoClient
  BY <1>2, ClientAssumption DEF TypeOK
<1>6. \A s \in Services, c \in Creds :
        ~(s = Service(o) /\ c = o.role) => cache'[s][c] = cache[s][c]
  BY <1>2 DEF TypeOK
<1>7. ASSUME NEW i \in 1 .. next
      PROVE  /\ i \in DOMAIN list /\ Supported(list[i])
             /\ clients'[i] = cache'[Service(list[i])][list[i].role]
             /\ clients'[i] # NoClient
             /\ (\A k \in 1 .. i - 1 : ~SameKey(k, i)) => clients'[i] = NewClient(list[i])
  <2>1. CASE i = next
    <3>1. ASSUME \A k \in 1 .. i - 1 : ~SameKey(k, i) PROVE clients'[i] = NewClient(list[i])
      <4>1. ~Cached(o)
        <5> SUFFICES ASSUME Cached(o) PROVE FALSE
          OBVIOUS
        <5>1. \E k \in 1 .. next - 1 : Service(list[k]) = Service(o) /\ list[k].role = o.role
          BY <1>2 DEF LoopInv, Cached, CacheKey
        <5> QED
          BY <1>1, <2>1, <3>1, <5>1 DEF SameKey
      <4> QED
        BY <1>1, <1>4, <2>1, <4>1
    <3> QED
      BY <1>1, <1>4, <1>5, <2>1, <3>1
  <2>2. CASE i # next
    <3>1. i \in 1 .. next - 1
      BY <1>1, <2>2
    <3>2. /\ i \in DOMAIN list /\ Supported(list[i])
          /\ clients[i] = cache[Service(list[i])][list[i].role]
          /\ clients[i] # NoClient
          /\ (\A k \in 1 .. i - 1 : ~SameKey(k, i)) => clients[i] = NewClient(list[i])
      BY <3>1 DEF LoopInv
    <3>3. list[i] \in Descriptor
      BY <1>1, <3>2
    <3>4. Service(list[i]) \in Services /\ list[i].role \in Creds
      BY <3>2, <3>3, NewClientType
    <3>5. cache'[Service(list[i])][list[i].role] = cache[Service(list[i])][list[i].role]
      <4>1. CASE Service(list[i]) = Service(o) /\ list[i].role = o.role
        BY <1>5, <3>2, <4>1 DEF Cached, CacheKey
      <4>2. CASE ~(Service(list[i]) = Service(o) /\ list[i].role = o.role)
        BY <1>6, <3>4, <4>2
      <4> QED
        BY <4>1, <4>2
    <3> QED
      BY <1>4, <3>1, <3>2, <3>5
  <2> QED
    BY <2>1, <2>2
<1>8. ASSUME NEW s \in Services, NEW c \in Creds, cache'[s][c] # NoClient
      PROVE  /\ cache'[s][c].service = s /\ cache'[s][c].cred = c
             /\ \E i \in 1 .. next : Service(list[i]) = s /\ list[i].role = c
  <2>1. CASE s = Service(o) /\ c = o.role
    BY <1>1, <1>5, <2>1
  <2>2. CASE ~(s = Service(o) /\ c = o.role)
    BY <1>1, <1>6, <1>8, <2>2 DEF LoopInv
  <2> QED
    BY <2>1, <2>2
<1>9. \A r \in Roles : assumed'[r] = IF r \in creds' THEN 1 ELSE 0
  BY <1>2, BaseAssumption DEF AssumeRole, NeedsCred, TypeOK, LoopInv, Creds
<1>10. LoopInv'
  <2>2. next' <= Len(list') + 1 /\ Len(clients') = next' - 1 /\ pc' # "fetch"
    BY <1>1, <1>4
  <2>3. \A k, i : SameKey(k, i)' <=> SameKey(k, i)
    BY <1>1 DEF SameKey
  <2>4. next' - 1 = next
    BY <1>1
  <2> QED
    BY <1>1, <1>7, <1>8, <1>9, <2>2, <2>3, <2>4 DEF LoopInv
<1> QED
  BY <1>3, <1>10

\* Every action keeps the invariant.
LEMMA InvStep == Inv /\ [Next]_vars => Inv'
<1> SUFFICES ASSUME Inv, [Next]_vars PROVE Inv'
  OBVIOUS
<1>1. ASSUME NEW i \in DOMAIN list, ShareClient(list[i]) PROVE Inv'
  <2> DEFINE o == list[i]
             client == cache[Service(o)][o.role]
  <2>1. o \in Descriptor
    BY ListsAssumption DEF Inv, TypeOK
  <2>2. AtDescriptor(o) /\ Supported(o) /\ Cached(o) /\ AssumeRole(o) /\ Give(client) /\ cache' = cache
    BY <1>1 DEF ShareClient, CacheKey
  <2>3. Service(o) \in Services /\ o.role \in Creds
    BY <2>1, <2>2, NewClientType
  <2>4. client # NoClient
    BY <2>2 DEF Cached, CacheKey
  <2>5. client \in Client
    BY <2>3, <2>4 DEF Inv, TypeOK
  <2>6. client.service = Service(o) /\ client.cred = o.role
    BY <2>3, <2>4 DEF Inv, LoopInv
  <2>7. cache' = [cache EXCEPT ![Service(o)][o.role] = client]
    BY <2>2, <2>3 DEF Inv, TypeOK
  <2> HIDE DEF o, client
  <2> QED
    BY <2>1, <2>2, <2>4, <2>5, <2>6, <2>7, GiveKeeps DEF client
<1>2. ASSUME NEW i \in DOMAIN list, CreateClient(list[i]) PROVE Inv'
  <2> DEFINE o == list[i]
  <2>1. o \in Descriptor
    BY ListsAssumption DEF Inv, TypeOK
  <2>2. /\ AtDescriptor(o) /\ Supported(o) /\ ~Cached(o) /\ Valid(o) /\ AssumeRole(o)
        /\ Give(NewClient(o))
        /\ cache' = [cache EXCEPT ![Service(o)][o.role] = NewClient(o)]
    BY <1>2 DEF CreateClient, CacheKey
  <2>3. /\ NewClient(o) \in Client
        /\ NewClient(o).service = Service(o) /\ NewClient(o).cred = o.role
    BY <2>1, <2>2, NewClientType
  <2> HIDE DEF o
  <2> QED
    BY <2>1, <2>2, <2>3, GiveKeeps
<1>3. CASE End
  BY <1>3 DEF End, Inv, TypeOK, LoopInv, SameKey
<1>4. CASE Assigned
  BY <1>4 DEF Assigned, Inv, TypeOK, LoopInv, SameKey
<1>5. CASE UNCHANGED vars
  BY <1>5 DEF vars, Inv, TypeOK, LoopInv, SameKey
<1> QED
  BY <1>1, <1>2, <1>3, <1>4, <1>5 DEF Next, Unsupported, CannotConnect

\* The invariant of the loop holds for every list.
THEOREM LoopRight == Spec => []Inv
<1> QED
  BY InvInit, InvStep, PTL DEF Spec

\* Types, in particular that no client has an endpoint of another form.
THEOREM TypeCorrect == Spec => []TypeOK
<1> QED
  BY LoopRight, PTL DEF Inv

\* Every object has a client of its own service and role.
THEOREM EveryObjectServed == Spec => []RightClient
<1>1. Inv => RightClient
  <2> SUFFICES ASSUME Inv, pc = "fetch", NEW i \in DOMAIN list
               PROVE  /\ ClientUsed(i) # NoClient
                      /\ ClientUsed(i).service = Service(list[i])
                      /\ ClientUsed(i).cred = list[i].role
    BY DEF RightClient
  <2>1. list \in Seq(Descriptor) /\ i \in 1 .. next - 1
    BY ListsAssumption DEF Inv, TypeOK, LoopInv
  <2>2. /\ Supported(list[i]) /\ clients[i] # NoClient
        /\ clients[i] = cache[Service(list[i])][list[i].role]
    BY <2>1 DEF Inv, LoopInv
  <2>3. Service(list[i]) \in Services /\ list[i].role \in Creds
    BY <2>1, <2>2, NewClientType
  <2> QED
    BY <2>2, <2>3 DEF Inv, LoopInv, ClientUsed
<1> QED
  BY <1>1, LoopRight, PTL

\* A role is assumed at most once in a call.
THEOREM RolesAssumedOnce == Spec => []AssumeOnce
<1>1. Inv => AssumeOnce
  <2> SUFFICES ASSUME Inv, NEW r \in Roles PROVE assumed[r] <= 1
    BY DEF AssumeOnce
  <2>1. assumed[r] = IF r \in creds THEN 1 ELSE 0
    BY DEF Inv, LoopInv
  <2> QED
    BY <2>1
<1> QED
  BY <1>1, LoopRight, PTL

\* The first object of a service and role decides the client of all of them.
THEOREM SharedFromFirst == Spec => []FirstDecides
<1>1. Inv => FirstDecides
  <2> SUFFICES ASSUME Inv, pc = "fetch", NEW i \in DOMAIN list, NEW j \in DOMAIN list,
                      SameKey(i, j), \A k \in 1 .. j - 1 : ~SameKey(k, j)
               PROVE  ClientUsed(i) = NewClient(list[j])
    BY DEF FirstDecides
  <2>1. i \in 1 .. next - 1 /\ j \in 1 .. next - 1
    BY ListsAssumption DEF Inv, TypeOK, LoopInv
  <2>2. clients[i] = cache[Service(list[i])][list[i].role] /\ clients[i] # NoClient
    BY <2>1 DEF Inv, LoopInv
  <2>3. clients[j] = cache[Service(list[j])][list[j].role] /\ clients[j] = NewClient(list[j])
    BY <2>1 DEF Inv, LoopInv
  <2> QED
    BY <2>2, <2>3 DEF SameKey, ClientUsed
<1> QED
  BY <1>1, LoopRight, PTL
=============================================================================
