--------------------------- MODULE MCSecretObjects ---------------------------
(***************************************************************************)
(* Instances of SecretObjects for TLC.                                     *)
(***************************************************************************)
EXTENDS SecretObjects

Object(name, alias) ==
  [name |-> name, alias |-> alias, type |-> "", jmes |-> <<>>]

Texts(chars, n) == UNION {[1 .. k -> chars] : k \in 0 .. n}

\* One object of any name or alias over these characters.
PathLists ==
  {<<Object(t, Empty)>> : t \in Texts({"/", ".", "a"}, 6)}
    \cup {<<Object(<<"a">>, t)>> : t \in Texts({"/", ".", "a"}, 4)}

\* One object whose name is taken for an ARN.
ArnLists ==
  {<<Object(<<"acs", ":">> \o t, Empty)>> : t \in Texts({":", "kms", "a"}, 5)}

\* The default, off, and texts that are one character and more.
PathSettings == {Empty, <<"False">>, <<"_">>, <<"/">>, <<"a", "a">>}

Entry(alias) == [hasPath |-> TRUE, alias |-> <<alias>>]
Entries == {<<>>, <<Entry("u")>>, <<Entry("u"), Entry("v")>>, <<Entry("u"), Entry("u")>>}

\* Lists of up to three objects that differ in name, alias, type and entries.
PoolObjects ==
  {[Object(<<n>>, a) EXCEPT !.type = t] :
     n \in {"a", "b"}, a \in {Empty, <<"a">>}, t \in {"", "kms", "oos"}}
  \cup {[Object(<<n>>, <<"u">>) EXCEPT !.jmes = e] : n \in {"a", "b"}, e \in Entries}
  \cup {Object(<<"jmes", ":", "u">>, Empty), Object(<<"a", ":", "a">>, Empty)}
  \cup {Object(<<"b">>, <<"jmes", ":", "u">>), Object(<<"b">>, <<"a", ":">>)}
  \cup {[Object(<<"a">>, Empty) EXCEPT !.jmes = <<[hasPath |-> FALSE, alias |-> <<"u">>]>>]}

NameLists == UNION {[1 .. k -> PoolObjects \cup {NoObject}] : k \in 0 .. 3}

AllLists == PathLists \cup ArnLists \cup NameLists
=============================================================================
