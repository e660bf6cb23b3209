--------------------------- MODULE MCSecretMount ---------------------------
(***************************************************************************)
(* Instances of SecretMount for TLC.                                       *)
(***************************************************************************)
EXTENDS SecretMount, TLC, FiniteSets

CONSTANTS app, db, param, user, h1, h2

NoJmes == [f \in {} |-> Whole]

Object(file, secret, pin) == [file |-> file, secret |-> secret, pin |-> pin, jmes |-> NoJmes]

\* One field of the JSON secret app is mounted as the file user.
WithUser(pin) == [Object("app", app, pin) EXCEPT !.jmes = "user" :> user]

\* A pin moves forth and back and goes, beside a parameter that has one for a
\* time; a file that stood for a field of app stands for the parameter, or is
\* both's.  Later versions of app are not JSON, so the last list can be had for a
\* time only, and the second not at first.
PinSpecs == {<<WithUser(1), Object("param", param, None)>>,
             <<Object("param", param, 1), Object("app", app, 2)>>,
             <<Object("app", app, None), Object("user", param, None)>>,
             <<Object("user", param, None), WithUser(None)>>}

\* A pin that moves forth and back and goes, beside an object without one that
\* takes a file over from a field.
RecordSpecs == {<<WithUser(1), Object("db", db, None)>>,
                <<WithUser(2), Object("db", db, None)>>,
                <<WithUser(None), Object("user", db, None)>>}

\* The pin moves, an object without a pin leaves and comes back, and the class
\* may ask for nothing beside the pinned secret.
RotationSpecs == {<<WithUser(1), Object("db", db, None)>>, <<WithUser(2)>>,
                  <<WithUser(None)>>}

\* A pinned object leaves the class and comes back.
ReturnSpecs == {<<Object("app", app, 1), Object("db", db, None)>>,
                <<Object("db", db, None)>>}

AllDocuments == Secrets \X (1 .. MaxVersion)
FirstDocuments == Secrets \X {1}

HandlerSymmetry == Permutations(Calls)

ASSUME MCNames == PinnedFilesStable
=============================================================================
