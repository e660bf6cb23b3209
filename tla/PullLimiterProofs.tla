------------------------- MODULE PullLimiterProofs -------------------------
(***************************************************************************)
(* What holds of PullLimiter for any number of handlers, objects and       *)
(* buckets, and any rate and time limits.                                  *)
(***************************************************************************)
EXTENDS PullLimiter, FiniteSetTheorems, TLAPS

\* A token is held for an object that is still to be fetched, and is due before
\* the limit of the wait.
HeldForObject ==
  \A c \in Calls : /\ Holds(c) => todo[c] # <<>> /\ Kind(c) \in Kinds
                   /\ pc[c] = "wait" => due[c] <= left[c]

\* The types, and that tokens are held for objects, at first.
LEMMA TypeInit == Init => TypeOK /\ HeldForObject
  BY PeriodAssumption, TimeAssumption DEF Init, TypeOK, HeldForObject, Holds

\* Every action keeps both.
LEMMA TypeStep == TypeOK /\ HeldForObject /\ [Next]_vars => TypeOK' /\ HeldForObject'
<1> SUFFICES ASSUME TypeOK, HeldForObject, [Next]_vars PROVE TypeOK' /\ HeldForObject'
  OBVIOUS
<1> USE PeriodAssumption, TimeAssumption DEF TypeOK, HeldForObject, Holds, Kind
<1>1. ASSUME NEW c \in Calls, Begin(c) PROVE TypeOK' /\ HeldForObject'
  BY <1>1, ListsAssumption DEF Begin
<1>2. ASSUME NEW c \in Calls, Reserve(c) PROVE TypeOK' /\ HeldForObject'
  BY <1>2 DEF Reserve, Waits, WaitFor, Asks, Sleep
<1>3. ASSUME NEW c \in Calls, End(c), UNCHANGED filling PROVE TypeOK' /\ HeldForObject'
  BY <1>3 DEF End
<1>4. ASSUME NEW c \in Calls, StartPull(c) PROVE TypeOK' /\ HeldForObject'
  BY <1>4 DEF StartPull
<1>5. ASSUME NEW c \in Calls, PullSucceeds(c) PROVE TypeOK' /\ HeldForObject'
  BY <1>5 DEF PullSucceeds
<1>6. CASE Tick
  <2>1. filling' \in [Kinds -> -Timeout .. Period]
    BY <1>6 DEF Tick, Advance
  <2>2. due' \in [Calls -> -Slow .. Timeout]
    BY <1>6 DEF Tick
  <2>3. left' \in [Calls -> -Late .. Timeout]
    BY <1>6 DEF Tick
  <2> QED
    BY <1>6, <2>1, <2>2, <2>3 DEF Tick
<1>7. CASE UNCHANGED vars
  BY <1>7 DEF vars
<1> QED
  BY <1>1, <1>2, <1>3, <1>4, <1>5, <1>6, <1>7
  DEF Next, Step, EndPull, Refuse, Unsupported, Finish, Expire, PullFails

\* Buckets, handlers and tokens stay in their ranges: in particular no bucket is
\* drawn on for longer than a wait may last.
THEOREM TypeCorrect == Spec => [](TypeOK /\ HeldForObject)
<1> QED
  BY TypeInit, TypeStep, PTL DEF Spec

-----------------------------------------------------------------------------
(* The tokens of a bucket.                                                 *)

\* How the tokens that are held fit the bucket: a pull has its token, no token
\* is due later than the bucket has been drawn on, and the last of them is held
\* until it is due.
TokensFit ==
  /\ \A c \in Calls : pc[c] = "pull" => due[c] <= 0
  /\ \A k \in Kinds : \A c \in Holders(k) : due[c] <= -filling[k]
  /\ \A k \in Kinds : filling[k] < 0 => \E c \in Holders(k) : due[c] = -filling[k]

TokensInv == TokensFit /\ TokensApart /\ NoGap

\* No token is held at first, and the buckets are full.
LEMMA TokensInit == Init => TokensInv
  BY PeriodAssumption
  DEF Init, TokensInv, TokensFit, TokensApart, NoGap, Holders, Holds

\* A step that changes no bucket and gives up only tokens that are due.
LEMMA GiveBack ==
  ASSUME TypeOK, TokensInv, UNCHANGED filling,
         \A c \in Calls : Holds(c)' =>
           Holds(c) /\ due'[c] = due[c] /\ Kind(c)' = Kind(c),
         \A c \in Calls : Holds(c) /\ ~Holds(c)' => due[c] <= 0,
         \A c \in Calls : Holds(c) /\ Holds(c)' => Kind(c)' = Kind(c) /\ due'[c] = due[c],
         \A c \in Calls : pc'[c] = "pull" => due'[c] <= 0
  PROVE  TokensInv'
<1> USE DEF Holders
<1>1. TokensFit'
  BY DEF TokensInv, TokensFit, TypeOK
<1>2. TokensApart'
  BY DEF TokensInv, TokensApart
<1>3. NoGap'
  <2> SUFFICES ASSUME NEW k \in Kinds, NEW c \in Holders(k)', due'[c] > Period
               PROVE  \E d \in Holders(k)' : due'[d] = due'[c] - Period
    BY DEF NoGap
  <2>1. c \in Holders(k) /\ due[c] > Period
    OBVIOUS
  <2>2. PICK d \in Holders(k) : due[d] = due[c] - Period
    BY <2>1 DEF TokensInv, NoGap
  <2>3. due[d] > 0
    BY <2>1, <2>2, PeriodAssumption DEF TypeOK
  <2>4. Holds(d)'
    BY <2>3 DEF TypeOK
  <2> QED
    BY <2>1, <2>2, <2>4
<1> QED
  BY <1>1, <1>2, <1>3 DEF TokensInv

\* What Reserve does: the token is due when the bucket will have been filled for it.
LEMMA TokenTaken ==
  ASSUME TypeOK, NEW c \in Calls, Reserve(c)
  PROVE  \E k \in Kinds :
           /\ pc[c] = "ask" /\ Kind(c) = k
           /\ due' = [due EXCEPT ![c] = Period - filling[k]]
           /\ filling' = [filling EXCEPT ![k] = @ - Period]
           /\ pc' = [pc EXCEPT ![c] = IF filling[k] = Period THEN "pull" ELSE "wait"]
           /\ todo' = todo
<1>1. \A k \in Kinds : /\ WaitFor(filling[k]) = Period - filling[k]
                       /\ WaitFor(filling[k]) = 0 <=> filling[k] = Period
  BY PeriodAssumption DEF WaitFor, TypeOK
<1> QED
  BY <1>1 DEF Reserve, Asks, Kind, Sleep

\* A token that is taken is due Period ticks after the last one, or at once.
LEMMA TakeToken ==
  ASSUME TypeOK, TokensInv, NEW c \in Calls, Reserve(c)
  PROVE  TokensInv'
<1> USE PeriodAssumption DEF TypeOK, Holders
<1>1. PICK k \in Kinds :
        /\ pc[c] = "ask" /\ Kind(c) = k
        /\ due' = [due EXCEPT ![c] = Period - filling[k]]
        /\ filling' = [filling EXCEPT ![k] = @ - Period]
        /\ pc' = [pc EXCEPT ![c] = IF filling[k] = Period THEN "pull" ELSE "wait"]
        /\ todo' = todo
  BY TokenTaken
<1>2. /\ Holds(c)' /\ ~Holds(c) /\ Kind(c)' = k
      /\ \A d \in Calls \ {c} : (Holds(d)' <=> Holds(d)) /\ Kind(d)' = Kind(d)
      /\ \A d \in Calls \ {c} : due'[d] = due[d]
  BY <1>1 DEF Holds, Kind
<1>3. TokensFit'
  <2>1. \A d \in Calls : pc'[d] = "pull" => due'[d] <= 0
    BY <1>1 DEF TokensInv, TokensFit
  <2>2. \A l \in Kinds : \A d \in Holders(l)' : due'[d] <= -filling'[l]
    BY <1>1, <1>2 DEF TokensInv, TokensFit
  <2>3. ASSUME NEW l \in Kinds, filling'[l] < 0
        PROVE  \E d \in Holders(l)' : due'[d] = -filling'[l]
    <3>1. CASE l = k
      <4>1. c \in Holders(k)' /\ due'[c] = -filling'[k]
        BY <1>1, <1>2
      <4> QED
        BY <3>1, <4>1
    <3>2. CASE l # k
      <4>1. PICK d \in Holders(l) : due[d] = -filling[l]
        BY <1>1, <2>3, <3>2 DEF TokensInv, TokensFit
      <4>2. d \in Calls \ {c}
        BY <1>2
      <4> QED
        BY <1>1, <1>2, <3>2, <4>1, <4>2
    <3> QED
      BY <3>1, <3>2
  <2> QED
    BY <2>1, <2>2, <2>3 DEF TokensFit
<1>4. TokensApart'
  <2>1. \A d \in Holders(k) : due'[c] - due[d] >= Period
    BY <1>1, <1>2 DEF TokensInv, TokensFit
  <2> QED
    BY <1>1, <1>2, <2>1 DEF TokensInv, TokensApart
<1>5. NoGap'
  <2>1. ASSUME due'[c] > Period PROVE \E d \in Holders(k)' : due'[d] = due'[c] - Period
    <3>1. due'[c] = Period - filling[k] /\ filling[k] < 0
      BY <1>1, <2>1
    <3>2. PICK d \in Holders(k) : due[d] = -filling[k]
      BY <3>1 DEF TokensInv, TokensFit
    <3>3. d \in Calls \ {c}
      BY <1>2
    <3>4. d \in Holders(k)' /\ due'[d] = due[d]
      BY <1>2, <3>3
    <3>5. due'[d] = due'[c] - Period
      <4>1. filling[k] \in Int
        OBVIOUS
      <4> QED
        BY <3>1, <3>2, <3>4, <4>1
    <3> QED
      BY <3>4, <3>5
  <2>2. ASSUME NEW l \in Kinds, NEW b \in Holders(l)', b # c, due'[b] > Period
        PROVE  \E d \in Holders(l)' : due'[d] = due'[b] - Period
    <3>1. b \in Holders(l) /\ due[b] = due'[b]
      BY <1>2, <2>2
    <3>2. PICK d \in Holders(l) : due[d] = due[b] - Period
      BY <2>2, <3>1 DEF TokensInv, NoGap
    <3>3. d \in Calls \ {c}
      BY <1>2
    <3> QED
      BY <1>2, <3>1, <3>2, <3>3
  <2> QED
    BY <1>2, <2>1, <2>2 DEF NoGap
<1> QED
  BY <1>3, <1>4, <1>5 DEF TokensInv

\* Time brings all tokens nearer by the same.
LEMMA TimePasses == TypeOK /\ TokensInv /\ Tick => TokensInv'
<1> SUFFICES ASSUME TypeOK, TokensInv, Tick PROVE TokensInv'
  OBVIOUS
<1> USE PeriodAssumption DEF TypeOK, Holders
<1>1. /\ \A c \in Calls : (Holds(c)' <=> Holds(c)) /\ Kind(c)' = Kind(c)
      /\ \A c \in Calls : Holds(c) => due'[c] = due[c] - 1
      /\ \A k \in Kinds : filling'[k] \in {filling[k] + 1, Period} /\ filling'[k] <= filling[k] + 1
      /\ \A k \in Kinds : filling[k] < 0 => filling'[k] = filling[k] + 1
  BY DEF Tick, Holds, Kind, Advance
<1>2. \A k \in Kinds : Holders(k)' = Holders(k)
  BY <1>1
<1>3. \A k \in Kinds : \A c \in Holders(k) : due'[c] = due[c] - 1 /\ due[c] \in Int
  BY <1>1
<1>4. TokensFit'
  <2>1. \A c \in Calls : pc'[c] = "pull" => due'[c] <= 0
    BY DEF TokensInv, TokensFit, Tick, Holds
  <2>2. ASSUME NEW k \in Kinds, NEW c \in Holders(k) PROVE due'[c] <= -filling'[k]
    <3>1. due[c] <= -filling[k] /\ due'[c] = due[c] - 1 /\ due[c] \in Int
      BY <1>3 DEF TokensInv, TokensFit
    <3>2. filling[k] \in Int /\ filling'[k] \in Int /\ filling'[k] <= filling[k] + 1
      BY <1>1
    <3> HIDE DEF TypeOK
    <3> QED
      BY <3>1, <3>2
  <2>3. ASSUME NEW k \in Kinds, filling'[k] < 0
        PROVE  \E c \in Holders(k)' : due'[c] = -filling'[k]
    <3>1. filling[k] < 0 /\ filling'[k] = filling[k] + 1
      <4>1. filling[k] \in Int /\ filling'[k] \in {filling[k] + 1, Period}
        BY <1>1
      <4>2. filling[k] < 0
        BY <2>3, <4>1
      <4> QED
        BY <1>1, <4>2
    <3>2. PICK c \in Holders(k) : due[c] = -filling[k]
      BY <3>1 DEF TokensInv, TokensFit
    <3> QED
      BY <1>2, <1>3, <3>1, <3>2
  <2> QED
    BY <1>2, <2>1, <2>2, <2>3 DEF TokensFit
<1>5. TokensApart'
  <2> SUFFICES ASSUME NEW k \in Kinds, NEW c \in Holders(k), NEW d \in Holders(k), c # d
               PROVE  due'[c] - due'[d] >= Period \/ due'[d] - due'[c] >= Period
    BY <1>2 DEF TokensApart
  <2>1. due[c] - due[d] >= Period \/ due[d] - due[c] >= Period
    BY DEF TokensInv, TokensApart
  <2> QED
    BY <1>3, <2>1
<1>6. NoGap'
  <2> SUFFICES ASSUME NEW k \in Kinds, NEW c \in Holders(k), due'[c] > Period
               PROVE  \E d \in Holders(k) : due'[d] = due'[c] - Period
    BY <1>2 DEF NoGap
  <2>1. due[c] > Period /\ due'[c] = due[c] - 1 /\ due[c] \in Int
    BY <1>3
  <2>2. PICK d \in Holders(k) : due[d] = due[c] - Period
    BY <2>1 DEF TokensInv, NoGap
  <2>3. due'[d] = due[d] - 1
    BY <1>3
  <2> QED
    BY <2>1, <2>2, <2>3
<1> QED
  BY <1>4, <1>5, <1>6 DEF TokensInv

\* Every action keeps the tokens apart and the bucket's debt covered.
LEMMA TokensStep ==
  TypeOK /\ HeldForObject /\ TokensInv /\ [Next]_vars => TokensInv'
<1> SUFFICES ASSUME TypeOK, HeldForObject, TokensInv, [Next]_vars PROVE TokensInv'
  OBVIOUS
<1> USE DEF TypeOK, Holds, Kind
<1>1. ASSUME NEW c \in Calls, Begin(c) PROVE TokensInv'
  BY <1>1, GiveBack DEF Begin, TokensInv, TokensFit
<1>2. ASSUME NEW c \in Calls, Reserve(c) PROVE TokensInv'
  BY <1>2, TakeToken
<1>3. ASSUME NEW c \in Calls, End(c),
             pc[c] \in {"ask", "pull"} \/ left[c] <= 0, UNCHANGED filling
      PROVE  TokensInv'
  <2>1. Holds(c) => due[c] <= 0
    BY <1>3, TimeAssumption DEF HeldForObject, TokensInv, TokensFit
  <2> QED
    BY <1>3, <2>1, GiveBack DEF End, TokensInv, TokensFit
<1>4. ASSUME NEW c \in Calls, StartPull(c) PROVE TokensInv'
  BY <1>4, GiveBack DEF StartPull, TokensInv, TokensFit
<1>5. ASSUME NEW c \in Calls, PullSucceeds(c) PROVE TokensInv'
  BY <1>5, GiveBack DEF PullSucceeds, TokensInv, TokensFit
<1>6. CASE Tick
  BY <1>6, TimePasses
<1>7. CASE UNCHANGED vars
  BY <1>7, GiveBack DEF vars, TokensInv, TokensFit
<1> QED
  BY <1>1, <1>2, <1>3, <1>4, <1>5, <1>6, <1>7
  DEF Next, Step, EndPull, Refuse, Unsupported, Finish, Expire, PullFails, Asks

\* Of the actions, only Reserve makes a handler hold a token, and only its own.
LEMMA OnlyReserveTakes ==
  ASSUME TypeOK, [Next]_vars, NEW c \in Calls, Holds(c)'
  PROVE  (Holds(c) /\ Kind(c)' = Kind(c)) \/ Reserve(c)
<1> USE DEF TypeOK, Holds, Kind
<1>1. ASSUME NEW d \in Calls, Begin(d) PROVE Holds(c) /\ Kind(c)' = Kind(c)
  BY <1>1 DEF Begin
<1>2. ASSUME NEW d \in Calls, Reserve(d), c # d PROVE Holds(c) /\ Kind(c)' = Kind(c)
  BY <1>2 DEF Reserve, Sleep
<1>3. ASSUME NEW d \in Calls, End(d) PROVE Holds(c) /\ Kind(c)' = Kind(c)
  BY <1>3 DEF End
<1>4. ASSUME NEW d \in Calls, StartPull(d) PROVE Holds(c) /\ Kind(c)' = Kind(c)
  BY <1>4 DEF StartPull
<1>5. ASSUME NEW d \in Calls, PullSucceeds(d) PROVE Holds(c) /\ Kind(c)' = Kind(c)
  BY <1>5 DEF PullSucceeds
<1>6. CASE Tick
  BY <1>6 DEF Tick
<1>7. CASE UNCHANGED vars
  BY <1>7 DEF vars
<1> QED
  BY <1>1, <1>2, <1>3, <1>4, <1>5, <1>6, <1>7
  DEF Next, Step, EndPull, Refuse, Unsupported, Finish, Expire, PullFails

\* However many handlers ask, and whenever: the tokens held fit the bucket.
THEOREM TokensRight == Spec => []TokensInv
<1> QED
  BY TypeInit, TypeStep, TokensInit, TokensStep, PTL DEF Spec

\* Tokens of one bucket are due at least Period ticks apart.
THEOREM RateKept == Spec => []TokensApart
<1> QED
  BY TokensRight, PTL DEF TokensInv

\* A handler waits no longer than the handlers before it make it.
THEOREM NoTokenWasted == Spec => []NoGap
<1> QED
  BY TokensRight, PTL DEF TokensInv

\* Handlers are served in the order in which they asked, for any number of them.
THEOREM ServedInTurn == Spec => InTurn
<1> DEFINE Turn ==
      \A k \in Kinds : \A c \in Holders(k)' \ Holders(k), d \in Holders(k) :
        due'[c] - due[d] >= Period
<1>1. TypeOK /\ TokensInv /\ [Next]_vars => [Turn]_vars
  <2> SUFFICES ASSUME TypeOK, TokensInv, [Next]_vars, NEW k \in Kinds,
                      NEW c \in Holders(k)' \ Holders(k), NEW d \in Holders(k)
               PROVE  due'[c] - due[d] >= Period
    OBVIOUS
  <2>1. Reserve(c)
    BY OnlyReserveTakes DEF Holders
  <2>2. Kind(c) = k /\ due'[c] = Period - filling[k]
    BY <2>1, TokenTaken DEF Holders, Kind, TypeOK
  <2>3. due[d] <= -filling[k]
    BY DEF TokensInv, TokensFit
  <2>4. due[d] \in Int /\ filling[k] \in Int
    BY DEF TypeOK, Holders
  <2> QED
    BY <2>2, <2>3, <2>4, PeriodAssumption
<1> QED
  BY <1>1, TypeCorrect, TokensRight, PTL DEF Spec, InTurn

-----------------------------------------------------------------------------
(* How many pulls there are at the same time.                              *)

\* Numbers that are Period apart fall into different intervals of that length.
LEMMA DifferentIntervals ==
  ASSUME NEW a \in Nat, NEW b \in Nat, a - b >= Period
  PROVE  a \div Period # b \div Period
  BY PeriodAssumption

\* No more numbers than intervals.
LEMMA AtMostSoMany ==
  ASSUME TypeOK, TokensInv, NEW k \in Kinds
  PROVE  Cardinality(Pulls(k)) <= (Slow \div Period) + 1
<1> DEFINE f == [c \in Pulls(k) |-> (-due[c]) \div Period]
           T == 0 .. (Slow \div Period)
<1> USE PeriodAssumption, TimeAssumption
<1>1. \A c \in Pulls(k) : -due[c] \in 0 .. Slow
  BY DEF Pulls, TypeOK, TokensInv, TokensFit
<1>2. Slow \div Period \in Nat
  OBVIOUS
<1>3. \A a \in 0 .. Slow : a \div Period \in T
  OBVIOUS
<1>4. \A c, d \in Pulls(k) : c # d => (-due[c]) \div Period # (-due[d]) \div Period
  <2> SUFFICES ASSUME NEW c \in Pulls(k), NEW d \in Pulls(k), c # d
               PROVE  (-due[c]) \div Period # (-due[d]) \div Period
    OBVIOUS
  <2>1. c \in Holders(k) /\ d \in Holders(k)
    BY DEF Pulls, Holders, Holds
  <2>2. due[c] - due[d] >= Period \/ due[d] - due[c] >= Period
    BY <2>1 DEF TokensInv, TokensApart
  <2>3. -due[c] \in Nat /\ -due[d] \in Nat /\ due[c] \in Int /\ due[d] \in Int
    BY <1>1 DEF Pulls, TypeOK
  <2>4. (-due[d]) - (-due[c]) >= Period \/ (-due[c]) - (-due[d]) >= Period
    BY <2>2, <2>3
  <2> QED
    BY <2>3, <2>4, DifferentIntervals
<1>5. f \in Injection(Pulls(k), T)
  <2>1. f \in [Pulls(k) -> T]
    BY <1>1, <1>3
  <2>2. \A c, d \in Pulls(k) : f[c] = f[d] => c = d
    BY <1>4
  <2> QED
    BY <2>1, <2>2 DEF Injection, IsInjective
<1>6. IsFiniteSet(T) /\ Cardinality(T) = (Slow \div Period) + 1
  <2> HIDE DEF f
  <2> DEFINE n == Slow \div Period
  <2>1. n \in Nat
    BY <1>2
  <2> HIDE DEF n
  <2>2. IsFiniteSet(0 .. n) /\ Cardinality(0 .. n) = IF 0 > n THEN 0 ELSE n - 0 + 1
    BY <2>1, FS_Interval
  <2>3. IsFiniteSet(0 .. n) /\ Cardinality(0 .. n) = n + 1
    BY <2>1, <2>2
  <2> QED
    BY <2>3 DEF n
<1> QED
  BY <1>5, <1>6, FS_Injection

\* The number of secrets pulled at the same time has a bound, which is not the
\* flag but the slowness of the service over the period.
THEOREM ConcurrencyBounded == Spec => []PullsBounded
<1>1. TypeOK /\ TokensInv => PullsBounded
  BY AtMostSoMany DEF PullsBounded
<1> QED
  BY <1>1, TypeCorrect, TokensRight, PTL
=============================================================================
