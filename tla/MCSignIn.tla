------------------------------ MODULE MCSignIn -------------------------------
(* Instances of SignIn for TLC.                                             *)
EXTENDS SignIn, TLC

CONSTANTS s1, s2, web, admin, k1, k2, alice, bob, old, new

AllInWeb == [s \in SignIns |-> web]
AllInAdmin == [s \in SignIns |-> admin]

User(sub, username) == [sub |-> sub, username |-> username]

\* An identity, the same after a rename, the identity a re-imported realm gives
\* the same username, and a user whose token carries no name.
MCTokenClaims == {User(k1, alice), User(k1, bob), User(k2, alice), User(k2, EmptyName)}

\* The tokens of two identities that race for one username.
RaceClaims == {User(k1, alice), User(k1, bob), User(k2, alice)}

\* One account, the only one there is.
OneAccount == {User(k1, alice)}

\* Before, during and after a rotation.
MCDocuments == {{old}, {old, new}, {new}}

\* Keys that never change.
OneDocument == {{old}}

SignInSymmetry == Permutations(SignIns)
=============================================================================
