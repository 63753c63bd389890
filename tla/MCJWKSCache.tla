---------------------------- MODULE MCJWKSCache -----------------------------
(* An instance of JWKSCache for TLC.                                        *)
EXTENDS JWKSCache

CONSTANTS old, new, sig, first, second

Rsa(kid)    == [kid |-> kid, kty |-> "RSA", wellFormed |-> TRUE]
Broken(kid) == [kid |-> kid, kty |-> "RSA", wellFormed |-> FALSE]
Other(kid)  == [kid |-> kid, kty |-> "other", wellFormed |-> TRUE]

\* Before, during and after a rotation; a document with an entry that does not
\* decode; one with no RSA key at all.
MCDocuments == {{Rsa(old)}, {Rsa(old), Rsa(new), Other(sig)}, {Rsa(new)},
                {Rsa(new), Broken(sig)}, {Other(sig)}}
=============================================================================
