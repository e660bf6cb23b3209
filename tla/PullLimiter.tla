---------------------------- MODULE PullLimiter ----------------------------
(***************************************************************************)
(* The limits on how fast secrets are pulled.  The process has a token     *)
(* bucket for KMS and one for OOS (main.go, provider/pull_limit.go), which *)
(* all handlers of Mount share; a handler takes a token for each secret it *)
(* fetches, one after the other (secret_manager_provider.go).              *)
(*                                                                         *)
(* Time goes in ticks.  A bucket is filled by one token every Period ticks *)
(* and holds one; a handler that finds it empty takes the next token in    *)
(* advance and sleeps until that token is due.                             *)
(***************************************************************************)
EXTENDS Integers, Sequences, FiniteSets

CONSTANTS
  Calls,   \* handlers of Mount
  Kinds,   \* the services that have a bucket
  Other,   \* an objectType that is neither
  Lists,   \* the objects that one call fetches, by kind
  Period,  \* ticks for one token
  Timeout, \* the limit of one wait
  Late,    \* bound: ticks from a timer's end to the start of the pull
  Slow,    \* bound: ticks from a timer's end to the end of the pull
  MaxPulls \* the flag of main.go, a second being Period * MaxPulls ticks

ASSUME KindsAssumption == Other \notin Kinds
ASSUME ListsAssumption == Lists \subseteq Seq(Kinds \cup {Other})
ASSUME PeriodAssumption == Period \in Nat \ {0}
ASSUME TimeAssumption == Timeout \in Nat /\ Late \in Nat /\ Slow \in Nat /\ Late <= Slow

VARIABLES
  filling, \* how full each bucket is now, in ticks: Period for a token, and
           \* below zero when tokens were taken in advance
  pc,      \* what each handler does
  todo,    \* the objects that it has still to fetch
  due,     \* ticks until the token it took is due, below zero once it is
  left     \* ticks until the limit of its wait

vars == <<filling, pc, todo, due, left>>

\* The types of the variables: no bucket holds more than a token, none is
\* drawn on for longer than a wait may last, and no token is held for longer
\* than a pull takes.
TypeOK ==
  /\ filling \in [Kinds -> -Timeout .. Period]
  /\ pc \in [Calls -> {"idle", "ask", "wait", "pull"}]
  /\ todo \in [Calls -> Seq(Kinds \cup {Other})]
  /\ due \in [Calls -> -Slow .. Timeout]
  /\ left \in [Calls -> -Late .. Timeout]

\* A bucket is created with one token.
Init ==
  /\ filling = [k \in Kinds |-> Period]
  /\ pc = [c \in Calls |-> "idle"]
  /\ todo = [c \in Calls |-> <<>>]
  /\ due = [c \in Calls |-> 0]
  /\ left = [c \in Calls |-> 0]

-----------------------------------------------------------------------------
(* The bucket.                                                             *)

\* Mutated Advance: nothing limits how many tokens an idle bucket gathers.
Advance_NoBurst(f) == f + 1

\* The bucket one tick later: it holds no more than one token.
Advance(f) == IF f < Period THEN f + 1 ELSE Period

\* How long to wait for the token that is taken from a bucket filled to f.
WaitFor(f) == IF f < Period THEN Period - f ELSE 0

\* Mutated Waits: a wait is not held against the time that is left.
Waits_Any(k) == TRUE

\* The wait ends before the limit; otherwise the bucket is not drawn on.
Waits(k) == WaitFor(filling[k]) <= Timeout

-----------------------------------------------------------------------------
(* The handlers.                                                           *)

\* GetSecretValues begins to fetch.
Begin(c) ==
  /\ pc[c] = "idle"
  /\ todo' \in {[todo EXCEPT ![c] = l] : l \in Lists}
  /\ pc' = [pc EXCEPT ![c] = "ask"]
  /\ UNCHANGED <<filling, due, left>>

\* Everything was fetched, or the first error ends the call.
End(c) ==
  /\ pc' = [pc EXCEPT ![c] = "idle"]
  /\ todo' = [todo EXCEPT ![c] = <<>>]
  /\ due' = [due EXCEPT ![c] = 0]
  /\ left' = [left EXCEPT ![c] = 0]

Asks(c, k) == pc[c] = "ask" /\ todo[c] # <<>> /\ Head(todo[c]) = k

\* A token that is there is not waited for: the pull begins.
Sleep(c, ticks) ==
  /\ pc' = [pc EXCEPT ![c] = IF ticks = 0 THEN "pull" ELSE "wait"]
  /\ left' = [left EXCEPT ![c] = IF ticks = 0 THEN 0 ELSE Timeout]

\* Mutated Reserve: a token that is due later does not make the bucket emptier.
Reserve_NoDebt(c) ==
  \E k \in Kinds :
    /\ Asks(c, k)
    /\ Waits(k)
    /\ due' = [due EXCEPT ![c] = WaitFor(filling[k])]
    /\ filling' = [filling EXCEPT ![k] = IF @ < Period THEN @ ELSE 0]
    /\ Sleep(c, WaitFor(filling[k]))
    /\ UNCHANGED todo

\* The token is taken at once, under the mutex of the bucket.
Reserve(c) ==
  \E k \in Kinds :
    /\ Asks(c, k)
    /\ Waits(k)
    /\ due' = [due EXCEPT ![c] = WaitFor(filling[k])]
    /\ filling' = [filling EXCEPT ![k] = @ - Period]
    /\ Sleep(c, WaitFor(filling[k]))
    /\ UNCHANGED todo

\* Mutated Refuse: the token of a wait that is refused is gone all the same.
Refuse_Draw(c) ==
  \E k \in Kinds :
    /\ Asks(c, k)
    /\ ~Waits(k)
    /\ filling' = [filling EXCEPT ![k] = @ - Period]
    /\ End(c)

\* The token would be due after the limit: an error at once, and no token.
Refuse(c) ==
  \E k \in Kinds :
    /\ Asks(c, k)
    /\ ~Waits(k)
    /\ End(c)
    /\ UNCHANGED filling

\* fetchSecret knows no other type, and NewSecretObjectList admits any.
Unsupported(c) == Asks(c, Other) /\ End(c) /\ UNCHANGED filling

\* The loop is over.
Finish(c) == pc[c] = "ask" /\ todo[c] = <<>> /\ End(c) /\ UNCHANGED filling

\* The timer has fired: the request goes out.
StartPull(c) ==
  /\ pc[c] = "wait"
  /\ due[c] <= 0
  /\ pc' = [pc EXCEPT ![c] = "pull"]
  /\ left' = [left EXCEPT ![c] = 0]
  /\ UNCHANGED <<filling, todo, due>>

\* Mutated Expire: the token goes back to the bucket, also when others wait behind.
Expire_GiveBack(c) ==
  /\ pc[c] = "wait"
  /\ left[c] <= 0
  /\ filling' = [filling EXCEPT ![Head(todo[c])] = @ + Period]
  /\ End(c)

\* The limit is over as well when the handler wakes up, and it looks there first.
\* Its token is past due by then and is not given back.
Expire(c) ==
  /\ pc[c] = "wait"
  /\ left[c] <= 0
  /\ End(c)
  /\ UNCHANGED filling

PullSucceeds(c) ==
  /\ pc[c] = "pull"
  /\ pc' = [pc EXCEPT ![c] = "ask"]
  /\ todo' = [todo EXCEPT ![c] = Tail(@)]
  /\ due' = [due EXCEPT ![c] = 0]
  /\ UNCHANGED <<filling, left>>

\* Mutated PullFails: a request that failed is made again, with another token.
PullFails_Retry(c) ==
  /\ pc[c] = "pull"
  /\ pc' = [pc EXCEPT ![c] = "ask"]
  /\ due' = [due EXCEPT ![c] = 0]
  /\ UNCHANGED <<filling, todo, left>>

PullFails(c) == pc[c] = "pull" /\ End(c) /\ UNCHANGED filling

Step(c) ==
  Reserve(c) \/ Refuse(c) \/ Unsupported(c) \/ Finish(c) \/ StartPull(c) \/ Expire(c)

EndPull(c) == PullSucceeds(c) \/ PullFails(c)

Holds(c) == pc[c] \in {"wait", "pull"}

\* A timer does not fire later than Late, nor does a pull end later than Slow.
Tick ==
  /\ \A c \in Calls : pc[c] = "wait" => due[c] > -Late
  /\ \A c \in Calls : pc[c] = "pull" => due[c] > -Slow
  /\ filling' = [k \in Kinds |-> Advance(filling[k])]
  /\ due' = [c \in Calls |-> IF Holds(c) THEN due[c] - 1 ELSE due[c]]
  /\ left' = [c \in Calls |-> IF pc[c] = "wait" THEN left[c] - 1 ELSE left[c]]
  /\ UNCHANGED <<pc, todo>>

Next ==
  \/ \E c \in Calls : Begin(c) \/ Step(c) \/ EndPull(c)
  \/ Tick

Spec == Init /\ [][Next]_vars

\* Time passes, goroutines are scheduled, and a request to a store has an end.
FairSpec ==
  /\ Spec
  /\ WF_vars(Tick)
  /\ \A c \in Calls : WF_vars(Step(c)) /\ WF_vars(EndPull(c))

-----------------------------------------------------------------------------
(* Properties.                                                             *)

Kind(c) == Head(todo[c])

Holders(k) == {c \in Calls : Holds(c) /\ Kind(c) = k}

Pulls(k) == {c \in Calls : pc[c] = "pull" /\ Kind(c) = k}

\* Tokens of one bucket are due at least Period ticks apart, whoever holds
\* them and however many wait: no burst builds up behind an idle bucket, and
\* two handlers that ask at once are given different tokens.
TokensApart ==
  \A k \in Kinds : \A c, d \in Holders(k) :
    c # d => due[c] - due[d] >= Period \/ due[d] - due[c] >= Period

\* How many secrets of one kind are pulled at the same time: what the rate and
\* the slowness of the service allow.
PullsBounded ==
  \A k \in Kinds : Cardinality(Pulls(k)) <= (Slow \div Period) + 1

\* Nobody waits longer than those before it make it: the token before the one
\* waited for is waited for too, so refused calls leave no token unused.
NoGap ==
  \A k \in Kinds : \A c \in Holders(k) :
    due[c] > Period => \E d \in Holders(k) : due[d] = due[c] - Period

\* First come, first served: a token that is taken is due at least Period ticks
\* after every token of its bucket that is still held, so nobody who asks later
\* is served before one who waits, though calls expire and fail in between.
InTurn ==
  [][\A k \in Kinds : \A c \in Holders(k)' \ Holders(k), d \in Holders(k) :
       due'[c] - due[d] >= Period]_vars

\* Every call ends, whatever the others do.
CallEnds == \A c \in Calls : pc[c] # "idle" ~> pc[c] = "idle"

\* The flag is "used to control how many kms secrets are pulled at the same
\* time" (main.go).
AtTheSameTime == \A k \in Kinds : Cardinality(Pulls(k)) <= MaxPulls
=============================================================================
