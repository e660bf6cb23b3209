--------------------------- MODULE MountAuthProofs ---------------------------
(***************************************************************************)
(* What holds of MountAuth for any number of concurrent mounts, whatever   *)
(* they ask for and in whatever environment the process was started.       *)
(***************************************************************************)
EXTENDS MountAuth, TLAPS

\* Whether the method m has what it needs in the call c is what decides between
\* skipping it and ending the chain with it.
LEMMA SkippedIffNotApplicable ==
  ASSUME NEW c \in Calls, env \in Setting, req[c] \in Request, arn[c] \in BOOLEAN,
         NEW m \in Methods, NEW o \in Outcomes(c, m)
  PROVE  /\ o \in {"skip", "cred", "error"}
         /\ o = "skip" => ~Applies(c, m)
         /\ o = "cred" => Applies(c, m)
         /\ m = "ecs" => o # "skip"
<1>1. CASE m = "podSA"
  BY <1>1 DEF Outcomes, PodSA, PodToken, Applies, OwnIdentity, HasToken, Request, Token
<1>2. CASE m = "oidc"
  BY <1>2 DEF Outcomes, OidcArn, Applies, Setting
<1>3. CASE m = "ramRole"
  BY <1>3 DEF Outcomes, Applies, Setting
<1>4. CASE m = "nodeSecret"
  BY <1>4 DEF Outcomes, NodeSecret, Applies, Request
<1>5. CASE m = "ak"
  BY <1>5 DEF Outcomes, Applies, Setting
<1>6. CASE m = "ecs"
  BY <1>6 DEF Outcomes, Ecs, Applies, Setting
<1> QED
  BY <1>1, <1>2, <1>3, <1>4, <1>5, <1>6 DEF Methods

\* The requests of the calls are requests.
LEMMA RequestTypes == Requests \cup {NoRequest} \subseteq Request
<1>1. NoRequest \in Request
  BY DEF NoRequest, Request, Token
<1> QED
  BY <1>1, RequestsAssumption

\* The chain is the documented order.
LEMMA ChainOrder ==
  /\ Chain = Documented /\ Len(Chain) = 6 /\ DOMAIN Documented = 1 .. 6
  /\ Chain[6] = "ecs"
  /\ \A i \in 1 .. 6 : Chain[i] \in Methods /\ Chain[i] \notin {"none", "error"}
  /\ \A i \in 1 .. 6 : Chain[i] = "podSA" => i = 1
<1>1. \A i \in 1 .. 6 : i = 1 \/ i = 2 \/ i = 3 \/ i = 4 \/ i = 5 \/ i = 6
  OBVIOUS
<1> QED
  BY <1>1 DEF Chain, Documented, Methods

\* How far a call is: before the chain it has no result and stands at the first
\* method; in the chain none of the methods before its place applied; and what
\* it ended with is an error or the first method that applies.
Progress(c) ==
  /\ pc[c] \in {"client", "annotation"} => at[c] = 1
  /\ pc[c] # "done" => result[c] = "none"
  /\ pc[c] = "chain" => \A j \in 1 .. at[c] - 1 : ~Applies(c, Chain[j])
  /\ pc[c] = "done" =>
       \/ result[c] = "error"
       \/ \E i \in 1 .. 6 : /\ result[c] = Chain[i]
                            /\ Applies(c, Chain[i])
                            /\ \A j \in 1 .. i - 1 : ~Applies(c, Chain[j])

\* The client is there if and only if it was created, once.
ClientOnce == opened = IF client = "none" THEN 0 ELSE 1

Inv == TypeOK /\ ClientOnce /\ \A c \in Calls : Progress(c)

\* No call is under way at first.
LEMMA InvInit == Init => Inv
<1> SUFFICES ASSUME Init PROVE TypeOK /\ ClientOnce /\ \A c \in Calls : Progress(c)
  BY DEF Inv
<1>1. 1 \in 1 .. Len(Chain)
  BY ChainOrder
<1>2. TypeOK
  BY <1>1 DEF Init, TypeOK
<1> QED
  BY <1>2 DEF Init, ClientOnce, Progress

\* What the invariant says of one call.
LEMMA CallTypes ==
  ASSUME Inv, NEW c \in Calls
  PROVE  /\ env \in Setting /\ req[c] \in Request /\ arn[c] \in BOOLEAN
         /\ at[c] \in 1 .. 6 /\ Progress(c)
  BY RequestTypes, ChainOrder, SettingsAssumption DEF Inv, TypeOK

\* A call's place is kept by a step that changes nothing of it.
LEMMA Untouched ==
  ASSUME NEW c \in Calls, Progress(c), pc'[c] = pc[c], at'[c] = at[c],
         result'[c] = result[c], req'[c] = req[c], arn'[c] = arn[c], env' = env
  PROVE  Progress(c)'
<1>1. \A m : Applies(c, m)' <=> Applies(c, m)
  BY DEF Applies, OwnIdentity, HasToken
<1> QED
  BY <1>1 DEF Progress

\* A method is tried: it is skipped, or the chain ends with it.
LEMMA TryKeeps == ASSUME Inv, NEW c \in Calls, Try(c) PROVE Inv'
<1>1. /\ pc[c] = "chain"
      /\ env' = env /\ client' = client /\ opened' = opened /\ req' = req /\ arn' = arn
  BY DEF Try
<1>2. PICK o \in Outcomes(c, Chain[at[c]]) :
        CASE o = "skip" -> Skip(c)
          [] o = "cred" -> End(c, Chain[at[c]])
          [] o = "error" -> End(c, "error")
  BY DEF Try
<1> DEFINE m == Chain[at[c]]
<1>3. at[c] \in 1 .. 6 /\ m \in Methods /\ Progress(c)
  BY CallTypes, ChainOrder
<1>4. /\ o \in {"skip", "cred", "error"}
      /\ o = "skip" => ~Applies(c, m)
      /\ o = "cred" => Applies(c, m)
      /\ m = "ecs" => o # "skip"
  BY <1>3, CallTypes, SkippedIffNotApplicable
<1>5. \/ o = "skip" /\ Skip(c)
      \/ o = "cred" /\ End(c, m)
      \/ o = "error" /\ End(c, "error")
  BY <1>2, <1>4
<1>6. \A d \in Calls : \A n : Applies(d, n)' <=> Applies(d, n)
  BY <1>1 DEF Applies, OwnIdentity, HasToken
<1> HIDE DEF m
<1>7. TypeOK /\ ClientOnce /\ \A d \in Calls : Progress(d)
  BY DEF Inv
<1>8. ClientOnce'
  BY <1>1, <1>7 DEF ClientOnce
<1>9. ASSUME NEW d \in Calls, d # c PROVE Progress(d)'
  <2>1. pc'[d] = pc[d] /\ at'[d] = at[d] /\ result'[d] = result[d]
    BY <1>5, <1>7, <1>9 DEF TypeOK, Skip, End
  <2> QED
    BY <1>1, <1>7, <2>1, Untouched
<1>10. CASE o = "skip" /\ Skip(c)
  <2>1. at[c] # 6
    BY <1>3, <1>4, <1>10, ChainOrder DEF m
  <2>2. at' = [at EXCEPT ![c] = at[c] + 1] /\ pc' = pc /\ result' = result
    BY <1>10 DEF Skip
  <2>3. TypeOK'
    <3>1. at \in [Calls -> 1 .. Len(Chain)] /\ at[c] + 1 \in 1 .. Len(Chain)
      BY <1>3, <1>7, <2>1, ChainOrder DEF TypeOK
    <3>2. at' \in [Calls -> 1 .. Len(Chain)]
      BY <2>2, <3>1
    <3> QED
      BY <1>1, <1>7, <2>2, <3>2 DEF TypeOK
  <2>4. at'[c] = at[c] + 1
    BY <1>7, <2>2 DEF TypeOK
  <2>5. \A j \in 1 .. at'[c] - 1 : ~Applies(c, Chain[j])
    <3>1. \A j \in 1 .. at[c] - 1 : ~Applies(c, Chain[j])
      BY <1>1, <1>3 DEF Progress
    <3>2. ~Applies(c, Chain[at[c]])
      BY <1>4, <1>10 DEF m
    <3>3. \A j \in 1 .. at'[c] - 1 : j \in 1 .. at[c] - 1 \/ j = at[c]
      BY <1>3, <2>4
    <3> QED
      BY <3>1, <3>2, <3>3
  <2>6. Progress(c)'
    BY <1>1, <1>3, <1>6, <2>2, <2>5 DEF Progress
  <2> QED
    BY <1>8, <1>9, <2>3, <2>6 DEF Inv
<1>11. ASSUME NEW r, End(c, r), r # "error" => r = m /\ Applies(c, m) PROVE Inv'
  <2>1. at' = at /\ pc' = [pc EXCEPT ![c] = "done"] /\ result' = [result EXCEPT ![c] = r]
    BY <1>11 DEF End
  <2>2. TypeOK'
    BY <1>1, <1>3, <1>7, <1>11, <2>1 DEF TypeOK
  <2>3. pc'[c] = "done" /\ result'[c] = r
    BY <1>7, <2>1 DEF TypeOK
  <2>4. r = m => \E i \in 1 .. 6 : /\ r = Chain[i]
                                   /\ Applies(c, Chain[i])
                                   /\ \A j \in 1 .. i - 1 : ~Applies(c, Chain[j])
    BY <1>1, <1>3, <1>11, ChainOrder DEF Progress, m
  <2>5. Progress(c)'
    BY <1>6, <1>11, <2>3, <2>4 DEF Progress
  <2> QED
    BY <1>8, <1>9, <2>2, <2>5 DEF Inv
<1>12. CASE o = "cred" /\ End(c, m)
  <2>1. PICK r : r = m
    OBVIOUS
  <2>2. End(c, r)
    BY <1>12, <2>1 DEF End
  <2> QED
    BY <1>4, <1>11, <1>12, <2>1, <2>2
<1>13. CASE o = "error" /\ End(c, "error")
  BY <1>11, <1>13
<1> QED
  BY <1>5, <1>10, <1>12, <1>13

\* Every action keeps the invariant.
LEMMA InvStep == Inv /\ [Next]_vars => Inv'
<1> SUFFICES ASSUME Inv, [Next]_vars PROVE Inv'
  OBVIOUS
<1>1. TypeOK /\ ClientOnce /\ \A d \in Calls : Progress(d)
  BY DEF Inv
<1>2. ASSUME NEW c \in Calls, NEW r \in Requests, Begin(c, r) PROVE Inv'
  <2>1. TypeOK'
    <3>1. 1 \in 1 .. Len(Chain) /\ r \in Requests \cup {NoRequest}
      BY ChainOrder
    <3>2. (IF r.usePodSA THEN "client" ELSE "chain") \in {"client", "chain"}
      OBVIOUS
    <3> HIDE DEF NoRequest
    <3> QED
      BY <1>1, <1>2, <3>1, <3>2 DEF Begin, TypeOK
  <2>2. ClientOnce'
    BY <1>1, <1>2 DEF Begin, ClientOnce
  <2>3. ASSUME NEW d \in Calls PROVE Progress(d)'
    <3>1. CASE d = c
      <4>1. pc'[c] \in {"client", "chain"} /\ at'[c] = 1 /\ result'[c] = "none"
        BY <1>1, <1>2 DEF Begin, TypeOK
      <4> QED
        BY <3>1, <4>1 DEF Progress
    <3>2. CASE d # c
      BY <1>1, <1>2, <3>2, Untouched DEF Begin, TypeOK
    <3> QED
      BY <3>1, <3>2
  <2> QED
    BY <2>1, <2>2, <2>3 DEF Inv
<1>3. ASSUME NEW c \in Calls, GetK8sClient(c) PROVE Inv'
  <2>1. TypeOK'
    <3>1. client' \in {"none", "ready", "broken"} /\ opened' \in Nat
      BY <1>1, <1>3 DEF GetK8sClient, Opened, TypeOK
    <3>2. (IF client' = "ready" THEN "annotation" ELSE "chain") \in {"annotation", "chain"}
      OBVIOUS
    <3>3. pc' \in [Calls -> {"idle", "client", "annotation", "chain", "done"}]
      BY <1>1, <1>3, <3>2 DEF GetK8sClient, TypeOK
    <3> QED
      BY <1>1, <1>3, <3>1, <3>3 DEF GetK8sClient, TypeOK
  <2>2. ClientOnce'
    BY <1>1, <1>3 DEF GetK8sClient, ClientOnce, Opened
  <2>3. ASSUME NEW d \in Calls PROVE Progress(d)'
    <3>1. CASE d = c
      <4>1. /\ pc'[c] \in {"annotation", "chain"} /\ pc[c] = "client"
            /\ at' = at /\ result' = result
        BY <1>1, <1>3 DEF GetK8sClient, TypeOK
      <4>2. at[c] = 1 /\ result[c] = "none"
        BY <1>1, <4>1 DEF Progress
      <4> QED
        BY <3>1, <4>1, <4>2 DEF Progress
    <3>2. CASE d # c
      BY <1>1, <1>3, <3>2, Untouched DEF GetK8sClient, TypeOK
    <3> QED
      BY <3>1, <3>2
  <2> QED
    BY <2>1, <2>2, <2>3 DEF Inv
<1>4. ASSUME NEW c \in Calls, ReadAnnotation(c) PROVE Inv'
  <2>1. TypeOK'
    BY <1>1, <1>4 DEF ReadAnnotation, TypeOK
  <2>2. ClientOnce'
    BY <1>1, <1>4 DEF ReadAnnotation, ClientOnce
  <2>3. ASSUME NEW d \in Calls PROVE Progress(d)'
    <3>1. CASE d = c
      <4>1. /\ pc'[c] = "chain" /\ pc[c] = "annotation"
            /\ at' = at /\ result' = result
        BY <1>1, <1>4 DEF ReadAnnotation, TypeOK
      <4>2. at[c] = 1 /\ result[c] = "none"
        BY <1>1, <4>1 DEF Progress
      <4> QED
        BY <3>1, <4>1, <4>2 DEF Progress
    <3>2. CASE d # c
      BY <1>1, <1>4, <3>2, Untouched DEF ReadAnnotation, TypeOK
    <3> QED
      BY <3>1, <3>2
  <2> QED
    BY <2>1, <2>2, <2>3 DEF Inv
<1>5. CASE UNCHANGED vars
  <2>1. TypeOK' /\ ClientOnce'
    BY <1>1, <1>5 DEF vars, TypeOK, ClientOnce
  <2>2. \A d \in Calls : Progress(d)'
    BY <1>1, <1>5, Untouched DEF vars
  <2> QED
    BY <2>1, <2>2 DEF Inv
<1> QED
  BY <1>2, <1>3, <1>4, <1>5, TryKeeps DEF Next

\* The invariant of the calls and of the client they share.
THEOREM IdentityRight == Spec => []Inv
<1> QED
  BY InvInit, InvStep, PTL DEF Spec

\* No call gets to the end of the chain, so "empty credential" is never
\* answered.
THEOREM ChainNeverEnds == Spec => []TypeOK
<1> QED
  BY IdentityRight, PTL DEF Inv

\* A mount uses the first documented method that applies.
THEOREM Narrowest == Spec => []NarrowestIdentity
<1>1. Inv => NarrowestIdentity
  <2> SUFFICES ASSUME Inv, NEW c \in Calls, NEW i \in 1 .. 6, result[c] = Chain[i]
               PROVE  /\ Applies(c, Chain[i])
                      /\ \A j \in 1 .. i - 1 : ~Applies(c, Chain[j])
    BY ChainOrder DEF NarrowestIdentity
  <2>1. Progress(c)
    BY DEF Inv
  <2>2. result[c] # "none" /\ result[c] # "error"
    BY ChainOrder
  <2>3. PICK k \in 1 .. 6 : /\ result[c] = Chain[k]
                            /\ Applies(c, Chain[k])
                            /\ \A j \in 1 .. k - 1 : ~Applies(c, Chain[j])
    BY <2>1, <2>2 DEF Progress
  <2>4. k = i
    BY <2>3 DEF Chain
  <2> QED
    BY <2>3, <2>4
<1> QED
  BY <1>1, IdentityRight, PTL

\* A pod with an identity of its own reads secrets under no other.
THEOREM OwnIdentityOnly == Spec => []PodIdentity
<1>1. Inv => PodIdentity
  <2> SUFFICES ASSUME Inv, NEW c \in Calls, pc[c] = "done", OwnIdentity(c),
                      result[c] # "error"
               PROVE  result[c] = "podSA"
    BY DEF PodIdentity
  <2>1. Progress(c)
    BY DEF Inv
  <2>2. PICK k \in 1 .. 6 : /\ result[c] = Chain[k]
                            /\ \A j \in 1 .. k - 1 : ~Applies(c, Chain[j])
    BY <2>1 DEF Progress
  <2>3. Applies(c, "podSA") /\ Chain[1] = "podSA"
    BY DEF Applies, Chain
  <2>4. k = 1
    BY <2>2, <2>3
  <2> QED
    BY <2>2, <2>3, <2>4
<1> QED
  BY <1>1, IdentityRight, PTL

\* However many mounts start together, one Kubernetes client is created.
THEOREM OneClientCreated == Spec => []OneClient
<1>1. Inv => OneClient
  BY DEF Inv, ClientOnce, OneClient
<1> QED
  BY <1>1, IdentityRight, PTL
=============================================================================
