------------------------- MODULE SecretObjectsProofs -------------------------
(***************************************************************************)
(* What holds of SecretObjects for names, aliases and lists of any length. *)
(***************************************************************************)
EXTENDS SecretObjects, WellFoundedInduction, TLAPS

-----------------------------------------------------------------------------
(* Texts.                                                                  *)

\* A text has its tokens at 1, 2, up to its length.
LEMMA TextFacts ==
  ASSUME NEW t, IsSequence(t)
  PROVE  Len(t) \in Nat /\ DOMAIN t = 1 .. Len(t)
<1> DEFINE S == {t[i] : i \in DOMAIN t}
<1>1. t \in Seq(S)
  BY DEF IsSequence
<1> HIDE DEF S
<1> QED
  BY <1>1

\* Short texts are texts.
LEMMA ShortTexts ==
  /\ IsSequence(Empty) /\ Len(Empty) = 0
  /\ \A x : IsSequence(<<x>>) /\ Len(<<x>>) = 1
<1>1. IsSequence(Empty) /\ Len(Empty) = 0
  BY DEF IsSequence, Empty
<1>2. ASSUME NEW x PROVE IsSequence(<<x>>) /\ Len(<<x>>) = 1
  BY DEF IsSequence
<1> QED
  BY <1>1, <1>2

\* Only the empty text has no length.
LEMMA EmptyText ==
  ASSUME NEW t, IsSequence(t), Len(t) = 0
  PROVE  t = Empty
<1> DEFINE S == {t[k] : k \in DOMAIN t}
<1>1. t \in Seq(S)
  BY DEF IsSequence
<1> HIDE DEF S
<1> QED
  BY <1>1 DEF Empty

\* Text u is s and then t.
Joins(u, s, t) ==
  /\ IsSequence(u)
  /\ Len(s) \in Nat /\ Len(t) \in Nat /\ Len(u) = Len(s) + Len(t)
  /\ \A i \in 1 .. Len(s) : u[i] = s[i]
  /\ \A i \in 1 .. Len(t) : u[Len(s) + i] = t[i]

\* Texts one after the other make a text.
LEMMA Joined ==
  ASSUME NEW s, NEW t, IsSequence(s), IsSequence(t)
  PROVE  Joins(s \o t, s, t)
<1> DEFINE S == {s[i] : i \in DOMAIN s} \cup {t[i] : i \in DOMAIN t}
<1>1. s \in Seq(S)
  <2> DEFINE R == {s[i] : i \in DOMAIN s}
  <2>1. s \in Seq(R) /\ R \subseteq S
    BY DEF IsSequence
  <2> HIDE DEF R, S
  <2> QED
    BY <2>1
<1>2. t \in Seq(S)
  <2> DEFINE R == {t[i] : i \in DOMAIN t}
  <2>1. t \in Seq(R) /\ R \subseteq S
    BY DEF IsSequence
  <2> HIDE DEF R, S
  <2> QED
    BY <2>1
<1> HIDE DEF S
<1>3. s \o t \in Seq(S) /\ Len(s \o t) = Len(s) + Len(t) /\ Len(s) \in Nat /\ Len(t) \in Nat
  BY <1>1, <1>2
<1>5. \A i \in 1 .. Len(s) : (s \o t)[i] = s[i]
  BY <1>1, <1>2, <1>3
<1>6. \A i \in 1 .. Len(t) : (s \o t)[Len(s) + i] = t[i]
  BY <1>1, <1>2, <1>3
<1>7. IsSequence(s \o t)
  <2> DEFINE c == s \o t
             R == {c[i] : i \in DOMAIN c}
  <2>1. c \in Seq(S) /\ \A i \in 1 .. Len(c) : c[i] \in R
    BY <1>3
  <2> HIDE DEF c
  <2>2. c \in Seq(R)
    <3> HIDE DEF R
    <3> QED
      BY <2>1
  <2> QED
    BY <2>2 DEF IsSequence, c
<1> QED
  BY <1>3, <1>5, <1>6, <1>7 DEF Joins

\* Texts that agree at every place are the same.
LEMMA SameText ==
  ASSUME NEW s, NEW t, IsSequence(s), IsSequence(t), Len(s) = Len(t),
         \A i \in 1 .. Len(s) : s[i] = t[i]
  PROVE  s = t
<1> DEFINE S == {s[i] : i \in DOMAIN s}
           T == {t[i] : i \in DOMAIN t}
<1>1. s \in Seq(S) /\ t \in Seq(T)
  BY DEF IsSequence
<1> HIDE DEF S, T
<1> QED
  BY <1>1

\* A set of places in a text has a first one.
LEMMA FirstPlace ==
  ASSUME NEW S \in SUBSET Nat, S # {}
  PROVE  \E m \in S : \A k \in S : m <= k
<1> DEFINE R == OpToRel(<, Nat)
<1>1. \A x, y \in Nat : <<x, y>> \in R <=> x < y
  BY DEF OpToRel
<1>2. IsWellFoundedOn(R, Nat)
  BY NatLessThanWellFounded
<1> HIDE DEF R
<1>3. PICK m \in S : \A k \in S : <<k, m>> \notin R
  BY <1>2, WFMin
<1>4. \A k \in S : ~(k < m)
  BY <1>1, <1>3, Zenon
<1>5. m \in Nat /\ \A k \in S : k \in Nat
  OBVIOUS
<1>6. \A k \in S : m <= k
  BY <1>4, <1>5, SMT
<1> QED
  BY <1>6

\* Without its leading slashes a text begins with none.
LEMMA TrimmedIsRelative ==
  ASSUME NEW t, IsSequence(t), TrimLeft(t) # Empty
  PROVE  TrimLeft(t)[1] # Slash
<1> DEFINE rest == {i \in DOMAIN t : t[i] # Slash}
           IsFirst(k) == k \in rest /\ \A j \in rest : k <= j
           S == {t[i] : i \in DOMAIN t}
<1>1. Len(t) \in Nat /\ DOMAIN t = 1 .. Len(t) /\ t \in Seq(S)
  BY TextFacts DEF IsSequence
<1>2. rest # {}
  BY DEF TrimLeft
<1>3. rest \in SUBSET Nat
  BY <1>1
<1> HIDE DEF S
<1>4. \E k : IsFirst(k)
  <2> HIDE DEF rest
  <2>1. \E k \in rest : \A j \in rest : k <= j
    BY <1>2, <1>3, FirstPlace
  <2> QED
    BY <2>1
<1> DEFINE first == CHOOSE k \in rest : \A j \in rest : k <= j
<1>5. first \in rest
  <2> HIDE DEF rest
  <2> QED
    BY <1>4
<1>6. first \in 1 .. Len(t) /\ t[first] # Slash
  BY <1>1, <1>5
<1>7. TrimLeft(t) = SubSeq(t, first, Len(t))
  BY <1>2 DEF TrimLeft
<1> HIDE DEF first, rest
<1>8. SubSeq(t, first, Len(t))[1] = t[first]
  BY <1>1, <1>6
<1> QED
  BY <1>6, <1>7, <1>8

\* What is left of a text is a text.
LEMMA TrimmedIsText ==
  ASSUME NEW t, IsSequence(t)
  PROVE  /\ Len(TrimLeft(t)) \in Nat
         /\ TrimLeft(t) = [k \in 1 .. Len(TrimLeft(t)) |-> TrimLeft(t)[k]]
<1> DEFINE rest == {i \in DOMAIN t : t[i] # Slash}
           first == CHOOSE k \in rest : \A j \in rest : k <= j
           S == {t[i] : i \in DOMAIN t}
<1>1. Len(t) \in Nat /\ DOMAIN t = 1 .. Len(t) /\ t \in Seq(S)
  BY TextFacts DEF IsSequence
<1>2. CASE rest = {}
  BY <1>2 DEF TrimLeft, Empty
<1>3. CASE rest # {}
  <2>1. rest \in SUBSET Nat
    BY <1>1
  <2>2. \E k \in rest : \A j \in rest : k <= j
    <3> HIDE DEF rest
    <3> QED
      BY <1>3, <2>1, FirstPlace
  <2>3. first \in rest
    <3> HIDE DEF rest
    <3> QED
      BY <2>2
  <2>4. first \in 1 .. Len(t)
    BY <1>1, <2>3
  <2>5. TrimLeft(t) = SubSeq(t, first, Len(t))
    BY <1>3 DEF TrimLeft
  <2> HIDE DEF first, rest, S
  <2>6. SubSeq(t, first, Len(t)) \in Seq(S)
    BY <1>1, <2>4
  <2> QED
    BY <2>5, <2>6
<1> QED
  BY <1>2, <1>3

\* Two dots between slashes, or between a slash and an end, make a bad path.
LEMMA DotsInGoodPath ==
  ASSUME NEW t, NEW n \in Nat, DOMAIN t = 1 .. n, Len(t) = n, ~BadPath(t),
         NEW i \in Nat, i >= 1, i + 1 <= n, t[i] = Dot, t[i + 1] = Dot,
         i = 1 \/ t[i - 1] = Slash, i + 1 = n \/ t[i + 2] = Slash
  PROVE  i = 1 /\ i + 1 = n
<1>1. i \in DOMAIN t /\ AnyTwo(t, i)
  BY WordsAssumption DEF AnyTwo
<1>2. i # 1 => SlashAt(t, i - 1)
  BY DEF SlashAt
<1>3. i + 1 # n => SlashAt(t, i + 2)
  BY DEF SlashAt
<1>4. /\ ~(SlashAt(t, i - 1) /\ SlashAt(t, i + 2))
      /\ ~(i = 1 /\ SlashAt(t, i + 2))
      /\ ~(SlashAt(t, i - 1) /\ i + 1 = n)
  BY <1>1 DEF BadPath
<1> QED
  BY <1>2, <1>3, <1>4

\* A text that is no bad path has no element ".." beside others.
LEMMA NoUpInGoodPath ==
  ASSUME NEW t, Len(t) \in Nat, DOMAIN t = 1 .. Len(t), ~BadPath(t), HasElement(t, Up)
  PROVE  Len(t) = 2 /\ t[1] = Dot /\ t[2] = Dot
<1>1. Len(Up) = 2 /\ Up[1] = Dot /\ Up[2] = Dot
  BY DEF Up
<1>2. PICK i \in 1 .. Len(t) + 1 :
        LET j == i + Len(Up) - 1 IN
        /\ j <= Len(t) /\ SubSeq(t, i, j) = Up
        /\ i = 1 \/ t[i - 1] = Slash
        /\ j = Len(t) \/ t[j + 1] = Slash
  BY DEF HasElement
<1> DEFINE j == i + Len(Up) - 1
<1>3. i \in Nat /\ i >= 1 /\ i + 1 <= Len(t) /\ j = i + 1
  <2>1. i \in Nat /\ i >= 1
    OBVIOUS
  <2>2. j = i + 1
    BY <1>1, <2>1
  <2> QED
    BY <1>2, <2>1, <2>2
<1>4. /\ SubSeq(t, i, i + 1) = Up
      /\ i = 1 \/ t[i - 1] = Slash
      /\ i + 1 = Len(t) \/ t[i + 2] = Slash
  <2>1. /\ SubSeq(t, i, j) = Up
        /\ i = 1 \/ t[i - 1] = Slash
        /\ j = Len(t) \/ t[j + 1] = Slash
    BY <1>2
  <2>2. j + 1 = i + 2
    BY <1>3
  <2> HIDE DEF j
  <2> QED
    BY <1>3, <2>1, <2>2
<1> HIDE DEF j
<1>5. t[i] = Dot /\ t[i + 1] = Dot
  <2>1. SubSeq(t, i, i + 1) = [k \in 1 .. 2 |-> t[i + k - 1]]
    BY <1>3
  <2>2. SubSeq(t, i, i + 1)[1] = t[i] /\ SubSeq(t, i, i + 1)[2] = t[i + 1]
    BY <1>3, <2>1
  <2> QED
    BY <1>1, <1>4, <2>2
<1>6. i = 1 /\ i + 1 = Len(t)
  <2>1. i = 1 \/ t[i - 1] = Slash
    BY <1>4
  <2>2. i + 1 = Len(t) \/ t[i + 2] = Slash
    BY <1>4
  <2>3. i \in Nat /\ i >= 1 /\ i + 1 <= Len(t)
    BY <1>3
  <2> HIDE DEF j
  <2> QED
    BY <1>5, <2>1, <2>2, <2>3, DotsInGoodPath, Zenon
<1>7. t[1] = Dot /\ t[1 + 1] = Dot /\ Len(t) = 1 + 1
  BY <1>5, <1>6, Zenon
<1> QED
  BY <1>7, 1 + 1 = 2, Zenon

-----------------------------------------------------------------------------
(* The keys an object claims.                                              *)

\* Where the parts of the key of a name stand.
LEMMA NameKeyParts ==
  ASSUME NEW o, IsSequence(o.name), IsSequence(o.alias), NEW K, K = NameKey(o)
  PROVE  /\ IsSequence(K) /\ Len(K) = Len(o.name) + Len(o.alias) + 3
         /\ \A i \in 1 .. Len(o.name) : K[i] = o.name[i]
         /\ K[Len(o.name) + 1] = Colon
         /\ \A i \in 1 .. Len(o.alias) : K[Len(o.name) + 1 + i] = o.alias[i]
         /\ K[Len(K) - 1] = Colon /\ K[Len(K)] = ObjectType(o)
<1> DEFINE n == o.name
           a == o.alias
           t == ObjectType(o)
           c == <<Colon>>
           b == <<Colon, t>>
           nc == n \o c
           nca == nc \o a
<1>1. IsSequence(c) /\ Len(c) = 1 /\ c[1] = Colon
  BY DEF IsSequence
<1>2. IsSequence(b) /\ Len(b) = 2 /\ b[1] = Colon /\ b[2] = t
  BY DEF IsSequence
<1>3. K = nca \o b
  BY DEF NameKey
<1>4. IsSequence(n) /\ IsSequence(a)
  OBVIOUS
<1> HIDE DEF b, c, n, a, t
<1>5. Joins(nc, n, c)
  BY <1>4, <1>1, Joined
<1> HIDE DEF nc
<1>6. Joins(nca, nc, a)
  <2>1. IsSequence(nc)
    BY <1>5 DEF Joins
  <2> QED
    BY <1>4, <2>1, Joined
<1> HIDE DEF nca
<1>7. Joins(K, nca, b)
  <2>1. IsSequence(nca)
    BY <1>6 DEF Joins
  <2> QED
    BY <1>2, <1>3, <2>1, Joined
<1>8. Len(n) \in Nat /\ Len(a) \in Nat
  BY <1>4, TextFacts
<1>9. /\ Len(nc) = Len(n) + 1 /\ Len(nca) = Len(n) + Len(a) + 1
      /\ Len(K) = Len(n) + Len(a) + 3
  BY <1>1, <1>2, <1>5, <1>6, <1>7, <1>8 DEF Joins
<1>10. \A i \in 1 .. Len(n) : i \in 1 .. Len(nc) /\ i \in 1 .. Len(nca)
  BY <1>8, <1>9
<1>11. \A i \in 1 .. Len(a) : Len(n) + 1 + i \in 1 .. Len(nca)
  BY <1>8, <1>9
<1>12. Len(n) + 1 \in 1 .. Len(nc) /\ Len(n) + 1 \in 1 .. Len(nca)
  BY <1>8, <1>9
<1>13. \A i \in 1 .. Len(n) : K[i] = n[i]
  BY <1>5, <1>6, <1>7, <1>10 DEF Joins
<1>14. \A i \in 1 .. Len(a) : K[Len(n) + 1 + i] = a[i]
  BY <1>6, <1>7, <1>9, <1>11 DEF Joins
<1>15. K[Len(n) + 1] = Colon
  BY <1>1, <1>5, <1>6, <1>7, <1>12, 1 \in 1 .. 1 DEF Joins
<1>16. K[Len(K) - 1] = Colon /\ K[Len(K)] = t
  <2>1. Len(K) - 1 = Len(nca) + 1 /\ Len(K) = Len(nca) + 2
    BY <1>8, <1>9
  <2> QED
    BY <1>2, <1>7, <2>1, 1 \in 1 .. 2, 2 \in 1 .. 2 DEF Joins
<1> QED
  BY <1>7, <1>9, <1>13, <1>14, <1>15, <1>16 DEF Joins, n, a, t

\* The key "name:alias:type" gives each of the three away, if the alias has no
\* colon: the type is the last token, and the alias begins after the last colon
\* but one.
LEMMA NameKeysDiffer ==
  ASSUME NEW o, IsSequence(o.name), IsSequence(o.alias), ~HasColon(o.alias),
         NEW p, IsSequence(p.name), IsSequence(p.alias), ~HasColon(p.alias),
         NameKey(o) = NameKey(p)
  PROVE  o.name = p.name /\ o.alias = p.alias /\ ObjectType(o) = ObjectType(p)
<1> DEFINE K == NameKey(o)
           n == Len(o.name)  a == Len(o.alias)  m == Len(p.name)  b == Len(p.alias)
<1>1. /\ Len(K) = n + a + 3
      /\ \A i \in 1 .. n : K[i] = o.name[i]
      /\ K[n + 1] = Colon
      /\ \A i \in 1 .. a : K[n + 1 + i] = o.alias[i]
      /\ K[Len(K)] = ObjectType(o)
  BY NameKeyParts
<1>2. /\ Len(K) = m + b + 3
      /\ \A i \in 1 .. m : K[i] = p.name[i]
      /\ K[m + 1] = Colon
      /\ \A i \in 1 .. b : K[m + 1 + i] = p.alias[i]
      /\ K[Len(K)] = ObjectType(p)
  <2>1. K = NameKey(p)
    OBVIOUS
  <2> HIDE DEF K
  <2> QED
    BY <2>1, NameKeyParts
<1>3. n \in Nat /\ a \in Nat /\ m \in Nat /\ b \in Nat
  BY TextFacts
<1>4. /\ \A i \in 1 .. a : o.alias[i] # Colon
      /\ \A i \in 1 .. b : p.alias[i] # Colon
  BY TextFacts DEF HasColon
<1> HIDE DEF K, n, a, m, b
<1>5. n = m
  <2>1. CASE n < m
    <3>1. m - n \in 1 .. a /\ n + 1 + (m - n) = m + 1
      BY <1>1, <1>2, <1>3, <2>1
    <3> QED
      BY <1>1, <1>2, <1>4, <3>1
  <2>2. CASE m < n
    <3>1. n - m \in 1 .. b /\ m + 1 + (n - m) = n + 1
      BY <1>1, <1>2, <1>3, <2>2
    <3> QED
      BY <1>1, <1>2, <1>4, <3>1
  <2> QED
    BY <1>3, <2>1, <2>2
<1>6. a = b
  BY <1>1, <1>2, <1>3, <1>5
<1>7. o.name = p.name
  BY <1>1, <1>2, <1>5, SameText DEF n, m
<1>8. o.alias = p.alias
  <2>1. \A i \in 1 .. a : o.alias[i] = p.alias[i]
    BY <1>1, <1>2, <1>5, <1>6
  <2> QED
    BY <1>6, <2>1, SameText DEF a, b
<1> QED
  BY <1>1, <1>2, <1>7, <1>8

\* The key "jmes:alias" gives the alias away, and is no key of another kind.
LEMMA EntryKeyParts ==
  ASSUME NEW e, IsSequence(e.alias), NEW K, K = EntryKey(e)
  PROVE  /\ IsSequence(K) /\ Len(K) = Len(e.alias) + 2
         /\ K[1] = "jmes" /\ K[2] = Colon
         /\ \A i \in 1 .. Len(e.alias) : K[2 + i] = e.alias[i]
<1> DEFINE c == <<"jmes", Colon>>
<1>1. IsSequence(c) /\ Len(c) = 2 /\ c[1] = "jmes" /\ c[2] = Colon
  BY DEF IsSequence
<1>2. K = c \o e.alias
  BY DEF EntryKey
<1> HIDE DEF c
<1>3. Joins(K, c, e.alias)
  BY <1>1, <1>2, Joined
<1> QED
  BY <1>1, <1>3, 1 \in 1 .. 2, 2 \in 1 .. 2 DEF Joins

\* Entries of different aliases have different keys.
LEMMA EntryKeysDiffer ==
  ASSUME NEW d, IsSequence(d.alias), NEW e, IsSequence(e.alias), EntryKey(d) = EntryKey(e)
  PROVE  d.alias = e.alias
<1> DEFINE K == EntryKey(d)
<1>1. /\ Len(K) = Len(d.alias) + 2
      /\ \A i \in 1 .. Len(d.alias) : K[2 + i] = d.alias[i]
  BY EntryKeyParts
<1>2. /\ Len(K) = Len(e.alias) + 2
      /\ \A i \in 1 .. Len(e.alias) : K[2 + i] = e.alias[i]
  <2>1. K = EntryKey(e)
    OBVIOUS
  <2> HIDE DEF K
  <2> QED
    BY <2>1, EntryKeyParts
<1> HIDE DEF K
<1>3. Len(d.alias) = Len(e.alias)
  BY <1>1, <1>2, TextFacts
<1> QED
  BY <1>1, <1>2, <1>3, SameText

\* Keys of two kinds differ, if names are not empty and aliases have no colon.
LEMMA KindsDiffer ==
  ASSUME NEW o, IsSequence(o.name), o.name # Empty, IsSequence(o.alias),
         NEW x, IsSequence(x), ~HasColon(x),
         NEW e, IsSequence(e.alias), ~HasColon(e.alias)
  PROVE  NameKey(o) # x /\ NameKey(o) # EntryKey(e) /\ EntryKey(e) # x
<1> DEFINE K == NameKey(o)
           E == EntryKey(e)
           n == Len(o.name)  a == Len(o.alias)  l == Len(e.alias)
<1>1. /\ IsSequence(K) /\ Len(K) = n + a + 3
      /\ K[Len(K) - 1] = Colon
  BY NameKeyParts
<1>2. /\ IsSequence(E) /\ Len(E) = l + 2
      /\ E[2] = Colon
      /\ \A i \in 1 .. l : E[2 + i] = e.alias[i]
  BY EntryKeyParts
<1>3. n \in Nat /\ a \in Nat /\ l \in Nat /\ n # 0
  BY TextFacts, EmptyText
<1>4. \A i \in 1 .. l : e.alias[i] # Colon
  BY TextFacts DEF HasColon
<1>5. \A i \in 1 .. Len(x) : x[i] # Colon
  BY TextFacts DEF HasColon
<1> HIDE DEF K, E, n, a, l
<1>6. Len(K) - 1 \in 1 .. Len(K) /\ 2 \in 1 .. Len(E)
  BY <1>1, <1>2, <1>3
<1>7. K # x
  BY <1>1, <1>5, <1>6
<1>8. E # x
  BY <1>2, <1>5, <1>6
<1>9. K # E
  <2> SUFFICES ASSUME K = E PROVE FALSE
    OBVIOUS
  <2>1. l = n + a + 1 /\ Len(K) - 1 = 2 + (l - 1)
    BY <1>1, <1>2, <1>3
  <2>2. l - 1 \in 1 .. l
    BY <1>3, <2>1
  <2>3. E[2 + (l - 1)] = e.alias[l - 1]
    BY <1>2, <2>2
  <2> QED
    BY <1>1, <1>4, <2>1, <2>2, <2>3
<1> QED
  BY <1>7, <1>8, <1>9 DEF K, E

\* The keys of an object are its name's, then its alias's if it has one, then
\* those of its entries.
AliasKeys(o) == IF o.alias # Empty THEN 1 ELSE 0

\* How many keys there are, and which is where.
LEMMA KeyPlaces ==
  ASSUME NEW o, IsSecretObject(o)
  PROVE  /\ DOMAIN Keys(o) = 1 .. 1 + AliasKeys(o) + Len(o.jmes)
         /\ AliasKeys(o) \in {0, 1} /\ Len(o.jmes) \in Nat /\ DOMAIN o.jmes = 1 .. Len(o.jmes)
         /\ Keys(o)[1] = NameKey(o)
         /\ o.alias # Empty => AliasKeys(o) = 1 /\ Keys(o)[2] = o.alias
         /\ \A k \in DOMAIN o.jmes : Keys(o)[1 + AliasKeys(o) + k] = EntryKey(o.jmes[k])
<1> DEFINE first == <<NameKey(o)>>
           second == IF o.alias # Empty THEN <<o.alias>> ELSE <<>>
           third == [k \in DOMAIN o.jmes |-> EntryKey(o.jmes[k])]
           begin == first \o second
<1>1. IsSequence(first) /\ Len(first) = 1 /\ first[1] = NameKey(o)
  BY DEF IsSequence
<1>2. IsSequence(second) /\ Len(second) = AliasKeys(o) /\ (o.alias # Empty => second[1] = o.alias)
  <2>1. CASE o.alias # Empty
    <3>1. second = <<o.alias>>
      BY <2>1
    <3> QED
      BY <2>1, <3>1, ShortTexts DEF AliasKeys
  <2>2. CASE o.alias = Empty
    <3>1. second = Empty
      BY <2>2 DEF Empty
    <3> QED
      BY <2>2, <3>1, ShortTexts DEF AliasKeys
  <2> QED
    BY <2>1, <2>2
<1>3. Len(o.jmes) \in Nat /\ DOMAIN o.jmes = 1 .. Len(o.jmes)
  BY TextFacts DEF IsSecretObject
<1>4. IsSequence(third) /\ Len(third) = Len(o.jmes)
  <2>1. DOMAIN third = 1 .. Len(o.jmes)
    BY <1>3
  <2> DEFINE S == {third[k] : k \in DOMAIN third}
  <2>2. third \in [1 .. Len(o.jmes) -> S]
    <3>1. third = [k \in 1 .. Len(o.jmes) |-> third[k]]
      BY <2>1
    <3> HIDE DEF third
    <3> QED
      BY <2>1, <3>1
  <2> HIDE DEF third, S
  <2>3. third \in Seq(S) /\ Len(third) = Len(o.jmes)
    BY <1>3, <2>2
  <2> QED
    BY <2>3 DEF IsSequence, S
<1>5. \A k \in DOMAIN o.jmes : third[k] = EntryKey(o.jmes[k])
  OBVIOUS
<1>6. Keys(o) = begin \o third
  BY DEF Keys
<1> HIDE DEF first, second, third
<1>7. Joins(begin, first, second)
  BY <1>1, <1>2, Joined
<1> HIDE DEF begin
<1>8. Joins(Keys(o), begin, third)
  <2>1. IsSequence(begin)
    BY <1>7 DEF Joins
  <2> QED
    BY <1>4, <1>6, <2>1, Joined
<1>9. AliasKeys(o) \in {0, 1} /\ (o.alias # Empty => AliasKeys(o) = 1)
  BY DEF AliasKeys
<1>10. /\ Len(begin) = 1 + AliasKeys(o) /\ begin[1] = NameKey(o)
       /\ o.alias # Empty => begin[2] = o.alias
  BY <1>1, <1>2, <1>7, <1>9, 1 \in 1 .. 1 DEF Joins
<1>11. DOMAIN Keys(o) = 1 .. 1 + AliasKeys(o) + Len(o.jmes)
  <2>1. IsSequence(Keys(o)) /\ Len(Keys(o)) = 1 + AliasKeys(o) + Len(o.jmes)
    BY <1>4, <1>8, <1>10 DEF Joins
  <2> QED
    BY <2>1, TextFacts
<1>12. /\ Keys(o)[1] = NameKey(o)
       /\ o.alias # Empty => Keys(o)[2] = o.alias
  BY <1>8, <1>9, <1>10 DEF Joins
<1>13. \A k \in DOMAIN o.jmes : Keys(o)[1 + AliasKeys(o) + k] = EntryKey(o.jmes[k])
  BY <1>3, <1>4, <1>5, <1>8, <1>10 DEF Joins
<1> QED
  BY <1>3, <1>9, <1>11, <1>12, <1>13

\* The key of an entry is at its place.
LEMMA EntryPlace ==
  ASSUME NEW o, IsSecretObject(o), NEW k \in DOMAIN o.jmes
  PROVE  LET i == 1 + AliasKeys(o) + k
         IN i \in DOMAIN Keys(o) /\ Keys(o)[i] = EntryKey(o.jmes[k])
<1>1. /\ DOMAIN Keys(o) = 1 .. 1 + AliasKeys(o) + Len(o.jmes)
      /\ AliasKeys(o) \in {0, 1} /\ Len(o.jmes) \in Nat /\ k \in 1 .. Len(o.jmes)
  BY KeyPlaces
<1>2. Keys(o)[1 + AliasKeys(o) + k] = EntryKey(o.jmes[k])
  BY KeyPlaces
<1> QED
  BY <1>1, <1>2

\* No other key is there.
LEMMA KeyKinds ==
  ASSUME NEW o, IsSecretObject(o), NEW i \in DOMAIN Keys(o)
  PROVE  \/ i = 1 /\ Keys(o)[i] = NameKey(o)
         \/ i = 2 /\ o.alias # Empty /\ Keys(o)[i] = o.alias
         \/ \E k \in DOMAIN o.jmes :
              i = 1 + AliasKeys(o) + k /\ Keys(o)[i] = EntryKey(o.jmes[k])
<1> DEFINE a == AliasKeys(o)
<1>1. i \in 1 .. 1 + a + Len(o.jmes) /\ a \in {0, 1} /\ Len(o.jmes) \in Nat
  BY KeyPlaces
<1>2. CASE i = 1
  BY <1>2, KeyPlaces
<1>3. CASE i = 2 /\ a = 1
  BY <1>3, KeyPlaces DEF AliasKeys
<1>4. CASE i > 1 + a
  <2> DEFINE k == i - (1 + a)
  <2>1. k \in 1 .. Len(o.jmes) /\ i = 1 + a + k
    BY <1>1, <1>4
  <2> HIDE DEF k, a
  <2>2. k \in DOMAIN o.jmes
    BY <2>1, KeyPlaces
  <2>3. Keys(o)[i] = EntryKey(o.jmes[k])
    BY <2>1, <2>2, KeyPlaces DEF a
  <2> QED
    BY <2>1, <2>2, <2>3 DEF a
<1> QED
  BY <1>1, <1>2, <1>3, <1>4

\* What the objects of the list are made of.
LEMMA ObjectFacts ==
  ASSUME list \in Lists, NEW i \in Objects
  PROVE  /\ IsSecretObject(list[i])
         /\ IsSequence(list[i].name) /\ IsSequence(list[i].alias)
         /\ \A k \in DOMAIN list[i].jmes : IsSequence(list[i].jmes[k].alias)
         /\ AllValid => list[i].name # Empty
         /\ Plain => /\ ~HasColon(list[i].alias)
                     /\ \A k \in DOMAIN list[i].jmes : ~HasColon(list[i].jmes[k].alias)
BY ListsAssumption DEF Objects, IsSecretObject, ValidateSecretObject, AllValid, Plain

\* In a plain list of valid, distinct objects no two keys are the same.
LEMMA KeysDiffer ==
  ASSUME list \in Lists, Plain, AllValid, AllDistinct,
         NEW i \in Objects, NEW a \in DOMAIN Keys(list[i]),
         NEW j \in Objects, NEW b \in DOMAIN Keys(list[j]),
         Keys(list[i])[a] = Keys(list[j])[b]
  PROVE  i = j /\ a = b
<1> DEFINE o == list[i]
           p == list[j]
           x == Keys(o)[a]
<1>1. /\ IsSecretObject(o) /\ IsSequence(o.name) /\ o.name # Empty
      /\ IsSequence(o.alias) /\ ~HasColon(o.alias)
      /\ \A k \in DOMAIN o.jmes : IsSequence(o.jmes[k].alias) /\ ~HasColon(o.jmes[k].alias)
  BY ObjectFacts
<1>2. /\ IsSecretObject(p) /\ IsSequence(p.name) /\ p.name # Empty
      /\ IsSequence(p.alias) /\ ~HasColon(p.alias)
      /\ \A k \in DOMAIN p.jmes : IsSequence(p.jmes[k].alias) /\ ~HasColon(p.jmes[k].alias)
  BY ObjectFacts
<1>3. \/ a = 1 /\ x = NameKey(o)
      \/ a = 2 /\ o.alias # Empty /\ x = o.alias
      \/ \E k \in DOMAIN o.jmes : a = 1 + AliasKeys(o) + k /\ x = EntryKey(o.jmes[k])
  BY <1>1, KeyKinds
<1>4. \/ b = 1 /\ x = NameKey(p)
      \/ b = 2 /\ p.alias # Empty /\ x = p.alias
      \/ \E k \in DOMAIN p.jmes : b = 1 + AliasKeys(p) + k /\ x = EntryKey(p.jmes[k])
  <2>1. x = Keys(p)[b]
    OBVIOUS
  <2> HIDE DEF x, o
  <2> QED
    BY <1>2, <2>1, KeyKinds
<1>5. i # j => /\ <<o.name, o.alias, ObjectType(o)>> # <<p.name, p.alias, ObjectType(p)>>
               /\ o.alias # Empty => o.alias # p.alias
  BY DEF AllDistinct, Distinct
<1>6. \A k \in DOMAIN o.jmes, l \in DOMAIN p.jmes :
        o.jmes[k].alias = p.jmes[l].alias => i = j /\ k = l
  BY DEF AllDistinct, EntriesDistinct
<1>7. i = j => o = p
  OBVIOUS
<1> HIDE DEF o, p, x
<1>8. CASE a = 1 /\ x = NameKey(o)
  <2>1. b = 1 /\ x = NameKey(p)
    BY <1>1, <1>2, <1>4, <1>8, KindsDiffer
  <2>2. o.name = p.name /\ o.alias = p.alias /\ ObjectType(o) = ObjectType(p)
    BY <1>1, <1>2, <1>8, <2>1, NameKeysDiffer
  <2> QED
    BY <1>5, <1>8, <2>1, <2>2
<1>9. CASE a = 2 /\ o.alias # Empty /\ x = o.alias
  <2>1. b = 2 /\ x = p.alias
    BY <1>1, <1>2, <1>4, <1>9, KindsDiffer
  <2> QED
    BY <1>5, <1>9, <2>1
<1>10. ASSUME NEW k \in DOMAIN o.jmes, a = 1 + AliasKeys(o) + k, x = EntryKey(o.jmes[k])
       PROVE  i = j /\ a = b
  <2>1. PICK l \in DOMAIN p.jmes : b = 1 + AliasKeys(p) + l /\ x = EntryKey(p.jmes[l])
    BY <1>1, <1>2, <1>4, <1>10, KindsDiffer
  <2>2. o.jmes[k].alias = p.jmes[l].alias
    BY <1>1, <1>2, <1>10, <2>1, EntryKeysDiffer
  <2>3. i = j /\ k = l
    BY <1>6, <2>2
  <2> QED
    BY <1>7, <1>10, <2>1, <2>3
<1> QED
  BY <1>3, <1>8, <1>9, <1>10

-----------------------------------------------------------------------------
(* What the loop has looked at.                                            *)

\* Every object before next was there and valid, and a list is admitted only
\* when all of it was looked at.
LoopInv ==
  /\ IsSequence(translate)
  /\ pc = "admitted" => next > Len(list)
  /\ pc = "start" => next = 1
  /\ \A i \in 1 .. next - 1 :
       list[i] # NoObject /\ ValidateSecretObject(list[i], translate)

Inv == TypeOK /\ LoopInv

\* Lists have their objects at 1, 2, up to their length.
LEMMA ListFacts ==
  ASSUME list \in Lists
  PROVE  /\ Len(list) \in Nat /\ DOMAIN list = 1 .. Len(list)
         /\ \A i \in DOMAIN list : list[i] # NoObject => IsSecretObject(list[i])
<1>1. IsSequence(list)
  BY ListsAssumption
<1> QED
  BY <1>1, TextFacts, ListsAssumption

\* Nothing is looked at before the translation is read.
LEMMA InvInit == Init => Inv
<1> SUFFICES ASSUME Init PROVE Inv
  OBVIOUS
<1>1. Len(list) \in Nat
  BY ListFacts DEF Init
<1> QED
  BY <1>1, ShortTexts DEF Init, Inv, TypeOK, LoopInv

\* Every step keeps that.
LEMMA InvStep == Inv /\ [Next]_vars => Inv'
<1> SUFFICES ASSUME Inv, [Next]_vars PROVE Inv'
  OBVIOUS
<1>1. TypeOK /\ LoopInv /\ Len(list) \in Nat
  BY ListFacts DEF Inv, TypeOK
<1>2. CASE ReadTranslation
  <2>1. IsSequence(translate') /\ Len(translate') <= 1
    <3>1. CASE ~Readable(setting)
      BY <1>1, <1>2, <3>1 DEF ReadTranslation, TypeOK, LoopInv
    <3>2. CASE setting = Empty
      <4>1. Readable(setting)
        BY <3>2 DEF Readable
      <4>2. translate' = CASE setting = Empty -> <<Underscore>>
                           [] setting = <<"False">> -> Empty
                           [] OTHER -> setting
        BY <1>2, <4>1 DEF ReadTranslation
      <4>3. setting # <<"False">>
        BY <3>2 DEF Empty
      <4>4. translate' = <<Underscore>>
        BY <3>2, <4>2, <4>3
      <4> QED
        BY <4>4, ShortTexts
    <3>3. CASE setting = <<"False">> /\ setting # Empty
      <4>1. translate' = Empty
        BY <1>2, <3>3 DEF ReadTranslation, Readable
      <4> QED
        BY <4>1, ShortTexts
    <3>4. CASE Readable(setting) /\ setting # <<"False">> /\ setting # Empty
      <4>1. translate' = setting /\ Len(setting) = 1
        BY <1>2, <3>4 DEF ReadTranslation, Readable, OneCharacter
      <4>2. setting \in Settings
        BY <1>1 DEF TypeOK
      <4> QED
        BY <4>1, <4>2, SettingsAssumption
    <3> QED
      BY <3>1, <3>2, <3>3, <3>4
  <2>2. /\ UNCHANGED <<setting, list, next>> /\ next = 1
        /\ pc' \in {"objects", "refused"}
    BY <1>1, <1>2 DEF ReadTranslation, LoopInv
  <2> QED
    BY <1>1, <2>1, <2>2 DEF Inv, TypeOK, LoopInv
<1>3. CASE ProcessSecretObject
  <2>1. /\ UNCHANGED <<setting, translate, list>> /\ next <= Len(list)
        /\ list[next] # NoObject /\ pc = "objects"
    BY <1>3 DEF ProcessSecretObject
  <2>2. CASE Admissible(list[next])
    <3>1. next' = next + 1 /\ pc' = pc /\ ValidateSecretObject(list[next], translate)
      BY <1>3, <2>2 DEF ProcessSecretObject, Admissible
    <3>2. TypeOK'
      BY <1>1, <2>1, <3>1 DEF TypeOK
    <3>3. \A i \in 1 .. next : i \in 1 .. next - 1 \/ i = next
      BY <1>1 DEF TypeOK
    <3>4. next' - 1 = next
      BY <1>1, <3>1 DEF TypeOK
    <3>5. \A i \in 1 .. next :
            list[i] # NoObject /\ ValidateSecretObject(list[i], translate)
      BY <1>1, <2>1, <3>1, <3>3 DEF LoopInv
    <3>6. LoopInv'
      <4>1. \A o : ValidateSecretObject(o, translate)' <=> ValidateSecretObject(o, translate)
        BY <2>1 DEF ValidateSecretObject
      <4> QED
        BY <1>1, <2>1, <3>1, <3>4, <3>5, <4>1 DEF LoopInv, TypeOK
    <3> QED
      BY <3>2, <3>6 DEF Inv
  <2>3. CASE ~Admissible(list[next])
    BY <1>1, <1>3, <2>1, <2>3 DEF ProcessSecretObject, Inv, TypeOK, LoopInv
  <2> QED
    BY <2>2, <2>3
<1>4. CASE EmptyEntry
  BY <1>1, <1>4 DEF EmptyEntry, Inv, TypeOK, LoopInv
<1>5. CASE Finish
  BY <1>1, <1>5 DEF Finish, Inv, TypeOK, LoopInv
<1>6. CASE UNCHANGED vars
  BY <1>1, <1>6 DEF vars, Inv, TypeOK, LoopInv
<1> QED
  BY <1>2, <1>3, <1>4, <1>5, <1>6 DEF Next

\* The invariant of the loop over the list.
THEOREM LoopRight == Spec => []Inv
<1> QED
  BY InvInit, InvStep, PTL DEF Spec

\* The types: in particular, slashes are translated to one character or stay.
THEOREM TypeCorrect == Spec => []TypeOK
<1> QED
  BY LoopRight, PTL DEF Inv

\* All objects of an admitted list were valid.
LEMMA AdmittedAreValid ==
  ASSUME Inv, pc = "admitted", NEW i \in DOMAIN list
  PROVE  /\ IsSecretObject(list[i]) /\ ValidateSecretObject(list[i], translate)
<1>1. i \in 1 .. next - 1
  BY ListFacts DEF Inv, TypeOK, LoopInv
<1> QED
  BY <1>1, ListFacts DEF Inv, TypeOK, LoopInv

\* A file name is a text.
LEMMA FileNameIsText ==
  ASSUME NEW o, IsSecretObject(o), NEW tr
  PROVE  LET f == GetFileName(o, tr)
         IN Len(f) \in Nat /\ f = [k \in 1 .. Len(f) |-> f[k]]
<1> DEFINE base == IF o.alias # Empty THEN o.alias ELSE o.name
           changed == [i \in DOMAIN base |-> IF base[i] = Slash THEN tr[1] ELSE base[i]]
<1>1. IsSequence(base)
  BY DEF IsSecretObject
<1> HIDE DEF base
<1>2. Len(base) \in Nat /\ DOMAIN base = 1 .. Len(base)
  BY <1>1, TextFacts
<1>3. CASE tr # Empty
  <2>1. GetFileName(o, tr) = changed
    BY <1>3 DEF GetFileName, base
  <2>2. changed = [i \in 1 .. Len(base) |-> changed[i]]
    BY <1>2
  <2> HIDE DEF changed
  <2>3. Len(changed) = Len(base)
    BY <1>2, <2>2
  <2>4. changed = [i \in 1 .. Len(changed) |-> changed[i]]
    BY <2>2, <2>3
  <2> QED
    BY <1>2, <2>1, <2>3, <2>4
<1>4. CASE tr = Empty
  <2>1. GetFileName(o, tr) = TrimLeft(base)
    BY <1>4 DEF GetFileName, base
  <2> QED
    BY <1>1, <2>1, TrimmedIsText
<1> QED
  BY <1>3, <1>4

\* The path of an admitted object has no element ".." beside others.
THEOREM NeverUp == Spec => []NoWayUp
<1>1. Inv => NoWayUp
  <2> SUFFICES ASSUME Inv, pc = "admitted", NEW i \in DOMAIN list,
                      HasElement(GetFileName(list[i], translate), Up)
               PROVE  GetFileName(list[i], translate) = Up
    BY DEF NoWayUp
  <2> DEFINE f == GetFileName(list[i], translate)
  <2>1. Len(f) \in Nat /\ f = [k \in 1 .. Len(f) |-> f[k]] /\ ~BadPath(f)
    BY AdmittedAreValid, FileNameIsText DEF ValidateSecretObject
  <2>2. Len(f) = 2 /\ f[1] = Dot /\ f[2] = Dot
    <3>1. HasElement(f, Up)
      OBVIOUS
    <3> HIDE DEF f
    <3>2. DOMAIN f = 1 .. Len(f)
      BY <2>1
    <3> QED
      BY <2>1, <3>1, <3>2, NoUpInGoodPath
  <2>3. f = Up
    <3> HIDE DEF f
    <3>1. Up = [k \in 1 .. 2 |-> Up[k]] /\ Up[1] = Dot /\ Up[2] = Dot
      BY DEF Up
    <3>2. f = [k \in 1 .. 2 |-> f[k]]
      BY <2>1, <2>2
    <3>3. \A k \in 1 .. 2 : k = 1 \/ k = 2
      OBVIOUS
    <3>4. \A k \in 1 .. 2 : f[k] = Up[k]
      BY <2>2, <3>1, <3>3
    <3> QED
      BY <3>1, <3>2, <3>4
  <2> QED
    BY <2>3
<1> QED
  BY <1>1, LoopRight, PTL

\* The path of an admitted object is relative to the mount point.
THEOREM NeverAbsolute == Spec => []Relative
<1>1. Inv => Relative
  <2> SUFFICES ASSUME Inv, pc = "admitted", translate # <<Slash>>, NEW i \in DOMAIN list,
                      GetFileName(list[i], translate) # Empty
               PROVE  GetFileName(list[i], translate)[1] # Slash
    BY DEF Relative
  <2> DEFINE o == list[i]
             base == IF o.alias # Empty THEN o.alias ELSE o.name
  <2>1. IsSequence(base)
    BY AdmittedAreValid DEF IsSecretObject
  <2> HIDE DEF base
  <2>2. Len(base) \in Nat /\ DOMAIN base = 1 .. Len(base)
    BY <2>1, TextFacts
  <2>3. CASE translate = Empty
    <3>1. GetFileName(o, translate) = TrimLeft(base)
      BY <2>3 DEF GetFileName, base
    <3> QED
      BY <2>1, <3>1, TrimmedIsRelative
  <2>4. CASE translate # Empty
    <3>1. GetFileName(o, translate) =
            [k \in DOMAIN base |-> IF base[k] = Slash THEN translate[1] ELSE base[k]]
      BY <2>4 DEF GetFileName, base
    <3>2. translate[1] # Slash
      <4> DEFINE S == {translate[k] : k \in DOMAIN translate}
      <4>1. translate \in Seq(S) /\ Len(translate) <= 1
        BY DEF Inv, TypeOK, LoopInv, IsSequence
      <4> HIDE DEF S
      <4>2. translate = <<translate[1]>>
        BY <2>4, <4>1 DEF Empty
      <4> QED
        BY <4>2
    <3>3. Len(base) # 0
      <4> SUFFICES ASSUME Len(base) = 0 PROVE FALSE
        OBVIOUS
      <4>1. base = Empty
        <5> DEFINE S == {base[k] : k \in DOMAIN base}
        <5>1. base \in Seq(S)
          BY <2>1 DEF IsSequence
        <5> HIDE DEF S
        <5> QED
          BY <5>1 DEF Empty
      <4>2. GetFileName(o, translate) = Empty
        BY <2>2, <3>1 DEF Empty
      <4> QED
        BY <4>2
    <3>4. 1 \in DOMAIN base
      BY <2>2, <3>3
    <3> QED
      BY <3>1, <3>2, <3>4
  <2> QED
    BY <2>3, <2>4
<1> QED
  BY <1>1, LoopRight, PTL

-----------------------------------------------------------------------------
(* Which lists are admitted.                                               *)

\* The keys that the objects before place n claim.
KeysOf(o) == {Keys(o)[k] : k \in DOMAIN Keys(o)}
ClaimedBefore(n) == UNION {KeysOf(list[i]) : i \in 1 .. n - 1}

\* The names claimed are the keys of the objects before next, none of which met
\* an earlier one; a list is refused for the object at next, and the process
\* ends for its absence.
ClaimInv ==
  /\ names = ClaimedBefore(next)
  /\ \A i \in 1 .. next - 1 : Claimable(Keys(list[i]), ClaimedBefore(i))
  /\ pc = "refused" /\ Readable(setting) =>
       next <= Len(list) /\ list[next] # NoObject /\ ~Admissible(list[next])
  /\ pc = "crashed" => next <= Len(list) /\ list[next] = NoObject

\* Nothing is claimed at first.
LEMMA ClaimInit == Init => ClaimInv
<1> SUFFICES ASSUME Init PROVE ClaimInv
  OBVIOUS
<1>1. next = 1 /\ names = {} /\ pc = "start"
  BY DEF Init
<1>2. \A i \in 1 .. next - 1 : FALSE
  BY <1>1
<1> QED
  BY <1>1, <1>2 DEF ClaimInv, ClaimedBefore

\* An object that is admitted adds its keys, and they were not claimed before.
LEMMA ClaimStep == Inv /\ ClaimInv /\ [Next]_vars => ClaimInv'
<1> SUFFICES ASSUME Inv, ClaimInv, [Next]_vars PROVE ClaimInv'
  OBVIOUS
<1>1. Len(list) \in Nat /\ next \in Nat /\ next >= 1
  BY ListFacts DEF Inv, TypeOK
<1>2. list' = list /\ setting' = setting
  BY DEF Next, ReadTranslation, ProcessSecretObject, EmptyEntry, Finish, vars
<1>3. \A n : ClaimedBefore(n)' = ClaimedBefore(n)
  BY <1>2 DEF ClaimedBefore
<1>4. CASE ReadTranslation
  <2>1. UNCHANGED <<next, names>> /\ pc' \in {"objects", "refused"}
        /\ (pc' = "refused" => ~Readable(setting))
    BY <1>4 DEF ReadTranslation
  <2> QED
    BY <1>2, <1>3, <2>1 DEF ClaimInv
<1>5. CASE ProcessSecretObject /\ Admissible(list[next])
  <2> DEFINE o == list[next]
  <2>1. names' = names \cup KeysOf(o) /\ next' = next + 1 /\ pc' = "objects"
    BY <1>5 DEF ProcessSecretObject, KeysOf
  <2>2. 1 .. next' - 1 = (1 .. next - 1) \cup {next}
    BY <1>1, <2>1
  <2>3. ClaimedBefore(next') = ClaimedBefore(next) \cup KeysOf(o)
    BY <2>2 DEF ClaimedBefore
  <2>4. Claimable(Keys(o), ClaimedBefore(next))
    BY <1>5 DEF Admissible, ClaimInv
  <2>5. names' = ClaimedBefore(next')
    BY <2>1, <2>3 DEF ClaimInv
  <2>6. \A i \in 1 .. next' - 1 : Claimable(Keys(list[i]), ClaimedBefore(i))
    BY <2>2, <2>4 DEF ClaimInv
  <2> QED
    BY <1>2, <1>3, <2>1, <2>5, <2>6 DEF ClaimInv
<1>6. CASE ProcessSecretObject /\ ~Admissible(list[next])
  <2>1. /\ UNCHANGED <<translate, list, names, next>> /\ pc' = "refused"
        /\ next <= Len(list) /\ list[next] # NoObject
    BY <1>6 DEF ProcessSecretObject
  <2>2. ~Admissible(list[next])'
    BY <1>6, <2>1 DEF Admissible
  <2> QED
    BY <1>2, <1>3, <2>1, <2>2 DEF ClaimInv
<1>7. CASE EmptyEntry
  BY <1>2, <1>3, <1>7 DEF EmptyEntry, ClaimInv
<1>8. CASE Finish
  BY <1>2, <1>3, <1>8 DEF Finish, ClaimInv
<1>9. CASE UNCHANGED vars
  <2>1. UNCHANGED <<translate, list, names, next, pc>>
    BY <1>9 DEF vars
  <2>2. \A o : Admissible(o)' <=> Admissible(o)
    BY <2>1 DEF Admissible, ValidateSecretObject
  <2> QED
    BY <1>2, <1>3, <2>1, <2>2 DEF ClaimInv
<1> QED
  BY <1>4, <1>5, <1>6, <1>7, <1>8, <1>9 DEF Next

\* Objects whose keys were claimable in turn are distinct, whatever the keys.
LEMMA ClaimedAreDistinct ==
  ASSUME Inv, ClaimInv, pc = "admitted"
  PROVE  AllDistinct
<1>1. \A i \in Objects : i \in 1 .. next - 1 /\ IsSecretObject(list[i])
  <2>1. Len(list) \in Nat /\ DOMAIN list = 1 .. Len(list) /\ next > Len(list) /\ next \in Nat
    BY ListFacts DEF Inv, TypeOK, LoopInv
  <2> QED
    BY <2>1, ListFacts DEF Objects, Inv, TypeOK
<1>2. ASSUME NEW i \in Objects, NEW j \in Objects, i < j,
             NEW a \in DOMAIN Keys(list[i]), NEW b \in DOMAIN Keys(list[j])
      PROVE  Keys(list[i])[a] # Keys(list[j])[b]
  <2>1. i \in 1 .. j - 1 /\ j \in 1 .. next - 1
    BY <1>1, <1>2
  <2>2. Keys(list[i])[a] \in ClaimedBefore(j)
    BY <2>1 DEF ClaimedBefore, KeysOf
  <2>3. Claimable(Keys(list[j]), ClaimedBefore(j))
    BY <2>1 DEF ClaimInv
  <2> QED
    BY <2>2, <2>3 DEF Claimable
<1>3. ASSUME NEW i \in Objects, NEW j \in Objects, i # j,
             NEW a \in DOMAIN Keys(list[i]), NEW b \in DOMAIN Keys(list[j])
      PROVE  Keys(list[i])[a] # Keys(list[j])[b]
  <2>1. i \in Nat /\ j \in Nat
    BY <1>1
  <2>2. i < j \/ j < i
    BY <1>3, <2>1
  <2> QED
    BY <1>2, <2>2
<1>4. ASSUME NEW i \in Objects, NEW j \in Objects, i # j
      PROVE  Distinct(i, j)
  <2> DEFINE o == list[i]
             p == list[j]
  <2>1. IsSecretObject(o) /\ IsSecretObject(p)
    BY <1>1
  <2>2. /\ 1 \in DOMAIN Keys(o) /\ Keys(o)[1] = NameKey(o)
        /\ 1 \in DOMAIN Keys(p) /\ Keys(p)[1] = NameKey(p)
    BY <2>1, KeyPlaces
  <2>3. NameKey(o) # NameKey(p)
    BY <1>3, <1>4, <2>2
  <2>4. o.alias # Empty => o.alias # p.alias
    <3> SUFFICES ASSUME o.alias # Empty, o.alias = p.alias PROVE FALSE
      OBVIOUS
    <3>1. 2 \in DOMAIN Keys(o) /\ Keys(o)[2] = o.alias
      BY <2>1, KeyPlaces
    <3>2. 2 \in DOMAIN Keys(p) /\ Keys(p)[2] = p.alias
      BY <2>1, KeyPlaces
    <3> QED
      BY <1>3, <1>4, <3>1, <3>2
  <2>5. <<o.name, o.alias, ObjectType(o)>> # <<p.name, p.alias, ObjectType(p)>>
    BY <2>3 DEF NameKey
  <2> QED
    BY <2>4, <2>5 DEF Distinct
<1>5. ASSUME NEW i \in Objects, NEW j \in Objects,
             NEW k \in DOMAIN list[i].jmes, NEW l \in DOMAIN list[j].jmes,
             list[i].jmes[k].alias = list[j].jmes[l].alias
      PROVE  i = j /\ k = l
  <2> DEFINE o == list[i]
             p == list[j]
             a == 1 + AliasKeys(o) + k
             b == 1 + AliasKeys(p) + l
  <2>1. IsSecretObject(o) /\ IsSecretObject(p)
    BY <1>1
  <2>2. EntryKey(o.jmes[k]) = EntryKey(p.jmes[l])
    BY <1>5 DEF EntryKey
  <2>3. a \in DOMAIN Keys(o) /\ Keys(o)[a] = EntryKey(o.jmes[k])
    BY <2>1, EntryPlace
  <2>4. b \in DOMAIN Keys(p) /\ Keys(p)[b] = EntryKey(p.jmes[l])
    BY <2>1, EntryPlace
  <2>5. i = j
    BY <1>3, <2>2, <2>3, <2>4
  <2>6. Claimable(Keys(o), ClaimedBefore(i))
    BY <1>1 DEF ClaimInv
  <2>7. a = b
    BY <2>2, <2>3, <2>4, <2>5, <2>6 DEF Claimable
  <2>8. AliasKeys(o) = AliasKeys(p) /\ AliasKeys(o) \in {0, 1}
    BY <2>1, <2>5, KeyPlaces
  <2>9. k \in Nat /\ l \in Nat
    BY <2>1, KeyPlaces
  <2> HIDE DEF o, p
  <2> QED
    BY <2>5, <2>7, <2>8, <2>9
<1> QED
  BY <1>4, <1>5 DEF AllDistinct, EntriesDistinct

\* No object of a plain list of valid, distinct objects is refused.
LEMMA DistinctAreClaimed ==
  ASSUME Inv, ClaimInv, Plain, AllValid, AllDistinct, next \in Objects
  PROVE  Admissible(list[next])
<1> DEFINE o == list[next]
<1>1. list \in Lists /\ ValidateSecretObject(o, translate)
  BY DEF Inv, TypeOK, AllValid
<1>2. ASSUME NEW a \in DOMAIN Keys(o) PROVE Keys(o)[a] \notin names
  <2> SUFFICES ASSUME Keys(o)[a] \in names PROVE FALSE
    OBVIOUS
  <2>1. PICK j \in 1 .. next - 1 : Keys(o)[a] \in KeysOf(list[j])
    BY DEF ClaimInv, ClaimedBefore
  <2>2. j \in Objects /\ j # next
    <3>1. Len(list) \in Nat /\ DOMAIN list = 1 .. Len(list) /\ next \in 1 .. Len(list) + 1
      BY ListFacts DEF Inv, TypeOK
    <3>2. j \in DOMAIN list /\ j # next
      BY <3>1
    <3> QED
      BY <3>2 DEF Objects, Inv, LoopInv
  <2>3. PICK b \in DOMAIN Keys(list[j]) : Keys(o)[a] = Keys(list[j])[b]
    BY <2>1 DEF KeysOf
  <2> QED
    BY <1>1, <2>2, <2>3, KeysDiffer
<1>3. \A a, b \in DOMAIN Keys(o) : Keys(o)[a] = Keys(o)[b] => a = b
  BY <1>1, KeysDiffer
<1> QED
  BY <1>1, <1>2, <1>3 DEF Admissible, Claimable

\* A list is admitted exactly if its objects are there, valid and distinct.
THEOREM DistinctAdmitted == Spec => []AdmittedIffDistinct
<1>1. Inv /\ ClaimInv => AdmittedIffDistinct
  <2> SUFFICES ASSUME Inv, ClaimInv PROVE AdmittedIffDistinct
    OBVIOUS
  <2>1. Len(list) \in Nat /\ DOMAIN list = 1 .. Len(list) /\ next \in 1 .. Len(list) + 1
    BY ListFacts DEF Inv, TypeOK
  <2>2. ASSUME pc = "admitted" PROVE AllDistinct /\ AllValid /\ Objects = DOMAIN list
    <3>1. \A i \in DOMAIN list : i \in 1 .. next - 1
      BY <2>1, <2>2 DEF Inv, LoopInv
    <3>2. AllValid /\ Objects = DOMAIN list
      BY <3>1 DEF Inv, LoopInv, AllValid, Objects
    <3> QED
      BY <2>2, <3>2, ClaimedAreDistinct
  <2>3. ASSUME pc = "refused", Readable(setting), Plain PROVE ~AllDistinct \/ ~AllValid
    <3>1. next \in Objects /\ ~Admissible(list[next])
      BY <2>1, <2>3 DEF ClaimInv, Objects
    <3> QED
      BY <2>3, <3>1, DistinctAreClaimed
  <2>4. ASSUME pc = "crashed" PROVE Objects # DOMAIN list
    <3>1. next \in DOMAIN list /\ list[next] = NoObject
      BY <2>1, <2>4 DEF ClaimInv
    <3> QED
      BY <3>1 DEF Objects
  <2> QED
    BY <2>2, <2>3, <2>4 DEF AdmittedIffDistinct
<1>2. Spec => []ClaimInv
  BY ClaimInit, ClaimStep, LoopRight, PTL DEF Spec
<1> QED
  BY <1>1, <1>2, LoopRight, PTL
=============================================================================
