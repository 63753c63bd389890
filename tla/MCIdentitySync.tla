--------------------------- MODULE MCIdentitySync ---------------------------
(* Instances of IdentitySync for TLC.                                       *)
EXTENDS IdentitySync, TLC

CONSTANTS r1, r2, r3, k1, k2, alice, bob, pic, plain, edited

Token(s, u) == [sub |-> s, username |-> u, picture |-> pic]

\* alice's identity; the identity a re-imported realm gives the same username;
\* the first identity after a rename; and the three unusable claims.
MCTokenClaims ==
    {Token(k1, alice), Token(k2, alice), Token(k1, bob),
     Token(k2, EmptyName), Token(NilUUID, bob), Token(NotAUUID, bob)}

\* The tokens of two identities that race for one username.
RaceClaims == {Token(k1, alice), Token(k2, alice), Token(k1, bob)}

RequestSymmetry == Permutations(Requests)
=============================================================================
