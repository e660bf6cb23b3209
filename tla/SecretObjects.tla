---------------------------- MODULE SecretObjects ----------------------------
(***************************************************************************)
(* How the object list of a SecretProviderClass is admitted: provider/     *)
(* secret_object.go, NewSecretObjectList, which takes the objects one by   *)
(* one, checks each by itself and against the names that the earlier ones  *)
(* have claimed, and gives up at the first fault.                          *)
(*                                                                         *)
(* Names, aliases and claimed keys are texts: sequences of tokens, each of *)
(* which stands for one character or, if in LongWords, for three or more.  *)
(***************************************************************************)
EXTENDS Naturals, Sequences, FiniteSets

CONSTANTS
  Lists,       \* the object lists a class may hold
  Settings,    \* the texts of the parameter pathTranslation
  LongWords,   \* tokens that stand for three characters or more
  NoObject     \* an empty entry of the YAML list: a nil pointer

VARIABLES
  setting,    \* the parameter pathTranslation
  translate,  \* the text slashes are translated to, none if they stay
  list,       \* the object list
  next,       \* the object that is looked at next
  names,      \* the keys claimed so far
  pc          \* "start", "objects", "admitted", "refused" or "crashed"

vars == <<setting, translate, list, next, names, pc>>

Slash == "/"
Dot == "."
Colon == ":"
Underscore == "_"
Empty == <<>>

\* The text s, or list s.
IsSequence(s) == s \in Seq({s[i] : i \in DOMAIN s})

\* A SecretObject as the YAML gives it: type is "" when it is not given; jmes
\* lists the jmesPath entries.
IsSecretObject(o) ==
  /\ DOMAIN o = {"name", "alias", "type", "jmes"}
  /\ IsSequence(o.name) /\ IsSequence(o.alias) /\ IsSequence(o.jmes)
  /\ \A i \in DOMAIN o.jmes :
       DOMAIN o.jmes[i] = {"hasPath", "alias"} /\ IsSequence(o.jmes[i].alias)

ASSUME WordsAssumption ==
  /\ {"False", "jmes", "kms", "oos", "acs"} \subseteq LongWords
  /\ {Slash, Dot, Colon} \cap LongWords = {}
ASSUME ListsAssumption ==
  \A l \in Lists : /\ IsSequence(l)
                   /\ \A i \in DOMAIN l : l[i] = NoObject \/ IsSecretObject(l[i])
ASSUME SettingsAssumption == \A s \in Settings : IsSequence(s)

-----------------------------------------------------------------------------
(* One object by itself.                                                   *)

\* Mutated TrimLeft: one leading slash is dropped, not all of them.
TrimLeft_One(text) ==
  IF text # Empty /\ text[1] = Slash THEN Tail(text) ELSE text

\* The text without its leading slashes.
TrimLeft(text) ==
  LET rest == {i \in DOMAIN text : text[i] # Slash}
      first == CHOOSE i \in rest : \A j \in rest : i <= j
  IN IF rest = {} THEN Empty ELSE SubSeq(text, first, Len(text))

\* The name of the file: the alias if there is one.
GetFileName(o, tr) ==
  LET base == IF o.alias # Empty THEN o.alias ELSE o.name IN
  IF tr # Empty
  THEN [i \in DOMAIN base |-> IF base[i] = Slash THEN tr[1] ELSE base[i]]
  ELSE TrimLeft(base)

\* Any two characters at i and i + 1: the dots of badPathRE are not escaped.
AnyTwo(text, i) ==
  {i, i + 1} \subseteq DOMAIN text /\ {text[i], text[i + 1]} \cap LongWords = {}

SlashAt(text, i) == i \in DOMAIN text /\ text[i] = Slash

\* Mutated BadPath: the last alternative of the expression is missing.
BadPath_NoEnd(text) ==
  \E i \in DOMAIN text : /\ AnyTwo(text, i)
                         /\ i = 1 \/ SlashAt(text, i - 1)
                         /\ SlashAt(text, i + 2)

\* badPathRE, "(/../)|(^../)|(/..$)".
BadPath(text) ==
  \E i \in DOMAIN text :
    /\ AnyTwo(text, i)
    /\ \/ SlashAt(text, i - 1) /\ SlashAt(text, i + 2)
       \/ i = 1 /\ SlashAt(text, i + 2)
       \/ SlashAt(text, i - 1) /\ i + 1 = Len(text)

\* A name is taken for an ARN if it begins with "acs:".
HasARN(name) == Len(name) >= 2 /\ name[1] = "acs" /\ name[2] = Colon

\* ParseARN cuts a name at its first four colons.
ParsesAsARN(name) ==
  HasARN(name) /\ Cardinality({i \in DOMAIN name : name[i] = Colon}) >= 4

\* What lies between the first two colons of an ARN.
IsKmsARN(name) == ParsesAsARN(name) /\ name[3] = "kms" /\ name[4] = Colon

ValidateSecretObject(o, tr) ==
  /\ o.name # Empty
  /\ HasARN(o.name) => IsKmsARN(o.name)
  /\ ~BadPath(GetFileName(o, tr))
  /\ \A i \in DOMAIN o.jmes : o.jmes[i].hasPath /\ o.jmes[i].alias # Empty

-----------------------------------------------------------------------------
(* The keys that an object claims in the map names.                        *)

ObjectType(o) == IF o.type = "" THEN "kms" ELSE o.type

NameKey(o) == o.name \o <<Colon>> \o o.alias \o <<Colon, ObjectType(o)>>
EntryKey(e) == <<"jmes", Colon>> \o e.alias

\* Mutated Keys: objects without an alias claim nothing beside their entries.
Keys_NoName(o) ==
  (IF o.alias # Empty THEN <<o.alias>> ELSE <<>>)
    \o [i \in DOMAIN o.jmes |-> EntryKey(o.jmes[i])]

\* "name:alias:type", the alias if there is one, and "jmes:alias" for each
\* entry, in the order in which processSecretObject claims them.
Keys(o) ==
  <<NameKey(o)>>
    \o (IF o.alias # Empty THEN <<o.alias>> ELSE <<>>)
    \o [i \in DOMAIN o.jmes |-> EntryKey(o.jmes[i])]

\* No key is claimed already, by another object or by this one.
Claimable(keys, claimed) ==
  \A i \in DOMAIN keys : keys[i] \notin claimed /\ \A j \in DOMAIN keys : keys[i] = keys[j] => i = j

Admissible(o) == ValidateSecretObject(o, translate) /\ Claimable(Keys(o), names)

-----------------------------------------------------------------------------

Init ==
  /\ setting \in Settings
  /\ translate = Empty
  /\ list \in Lists
  /\ next = 1
  /\ names = {}
  /\ pc = "start"

\* Mutated OneCharacter: a text of any length.
OneCharacter_Any(text) == text # Empty

OneCharacter(text) == Len(text) = 1 /\ text[1] \notin LongWords

Readable(text) == text \in {Empty, <<"False">>} \/ OneCharacter(text)

\* An underscore is the default, "False" turns translation off, and anything
\* else must be one character.
ReadTranslation ==
  /\ pc = "start"
  /\ IF Readable(setting)
     THEN /\ pc' = "objects"
          /\ translate' = CASE setting = Empty -> <<Underscore>>
                            [] setting = <<"False">> -> Empty
                            [] OTHER -> setting
     ELSE pc' = "refused" /\ UNCHANGED translate
  /\ UNCHANGED <<setting, list, next, names>>

ProcessSecretObject ==
  /\ pc = "objects"
  /\ next <= Len(list) /\ list[next] # NoObject
  /\ IF Admissible(list[next])
     THEN /\ names' = names \cup {Keys(list[next])[i] : i \in DOMAIN Keys(list[next])}
          /\ next' = next + 1
          /\ UNCHANGED pc
     ELSE pc' = "refused" /\ UNCHANGED <<names, next>>
  /\ UNCHANGED <<setting, translate, list>>

\* processSecretObject writes through the nil pointer, and nothing recovers from
\* the panic: the process ends.
EmptyEntry ==
  /\ pc = "objects"
  /\ next <= Len(list) /\ list[next] = NoObject
  /\ pc' = "crashed"
  /\ UNCHANGED <<setting, translate, list, next, names>>

Finish ==
  /\ pc = "objects"
  /\ next > Len(list)
  /\ pc' = "admitted"
  /\ UNCHANGED <<setting, translate, list, next, names>>

Next == ReadTranslation \/ ProcessSecretObject \/ EmptyEntry \/ Finish

Spec == Init /\ [][Next]_vars

-----------------------------------------------------------------------------
(* Properties.                                                             *)

\* The types of the variables: a slash is never translated to more than one
\* character.
TypeOK ==
  /\ setting \in Settings /\ list \in Lists
  /\ Len(translate) <= 1
  /\ next \in 1 .. Len(list) + 1
  /\ pc \in {"start", "objects", "admitted", "refused", "crashed"}

\* e is one of the elements that the slashes divide the path into.
HasElement(text, e) ==
  \E i \in 1 .. Len(text) + 1 :
    LET j == i + Len(e) - 1 IN
    /\ j <= Len(text) /\ SubSeq(text, i, j) = e
    /\ i = 1 \/ text[i - 1] = Slash
    /\ j = Len(text) \/ text[j + 1] = Slash

Up == <<Dot, Dot>>

\* The path of an admitted object does not lead out of a directory: ".." is no
\* element of a path of several.
NoWayUp ==
  pc = "admitted" => \A i \in DOMAIN list :
    LET f == GetFileName(list[i], translate) IN HasElement(f, Up) => f = Up

\* The path of an admitted object is relative to the mount point, unless
\* slashes are translated to slashes.
Relative ==
  pc = "admitted" /\ translate # <<Slash>> => \A i \in DOMAIN list :
    LET f == GetFileName(list[i], translate) IN f # Empty => f[1] # Slash

\* The objects of the list that are there.
Objects == {i \in DOMAIN list : list[i] # NoObject}

\* Objects i and j of the list are told apart by what the class says of them.
Distinct(i, j) ==
  LET o == list[i]  p == list[j] IN
  /\ <<o.name, o.alias, ObjectType(o)>> # <<p.name, p.alias, ObjectType(p)>>
  /\ o.alias # Empty => o.alias # p.alias

EntriesDistinct ==
  \A i, j \in Objects : \A k \in DOMAIN list[i].jmes, l \in DOMAIN list[j].jmes :
    list[i].jmes[k].alias = list[j].jmes[l].alias => i = j /\ k = l

AllDistinct == EntriesDistinct /\ \A i, j \in Objects : i # j => Distinct(i, j)
AllValid == \A i \in Objects : ValidateSecretObject(list[i], translate)

HasColon(text) == \E k \in DOMAIN text : text[k] = Colon

\* No alias and no type has a colon.
Plain ==
  \A i \in Objects : /\ ~HasColon(list[i].alias) /\ ObjectType(list[i]) # Colon
                     /\ \A k \in DOMAIN list[i].jmes : ~HasColon(list[i].jmes[k].alias)

\* Once the translation is read, a list is admitted exactly if every object is
\* there and valid, no two have the name, alias and type or the alias in common,
\* and no two entries an alias: whatever the order.  Only an entry that is empty
\* ends the process.  Where aliases have colons a list may be refused that has
\* none of these faults, as keys of two kinds can meet, but none is admitted.
AdmittedIffDistinct ==
  /\ pc = "admitted" => AllDistinct /\ AllValid /\ Objects = DOMAIN list
  /\ pc = "refused" /\ Readable(setting) /\ Plain => ~AllDistinct \/ ~AllValid
  /\ pc = "crashed" => Objects # DOMAIN list
=============================================================================
