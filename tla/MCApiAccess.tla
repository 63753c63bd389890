----------------------------- MODULE MCApiAccess -----------------------------
(* Instances of ApiAccess for TLC.                                          *)
EXTENDS ApiAccess

CONSTANTS ana, web, admin, other, old, new

\* Before, during and after a rotation.
MCDocuments == {{old}, {old, new}, {new}}

Named(client) == Env!Piece(client, FALSE)
Padded(client) == Env!Piece(client, TRUE)
Nothing == Env!Piece(Blank, TRUE)

\* The trusted clients one after the other, plain, with spaces, and with a
\* trailing comma; lists with nothing in them; no list; no issuer.
Started(required, trusted, complete) ==
    [required : {required}, trusted : {trusted}, issuer : {Realm},
     azp : {complete, complete \o <<Nothing>>, <<Nothing, Nothing>>, Env!EmptyList}]
    \cup [required : {required}, trusted : {trusted}, issuer : {Blank}, azp : {complete}]

\* public-api and admin-api.
MCApis == Started({}, {web, admin}, <<Named(web), Padded(admin)>>)
            \cup Started({"admin"}, {admin}, <<Padded(admin)>>)

\* A token of the realm that no login of it would carry: one field is off.
Proper == [alg |-> "RS256", kid |-> old, signer |-> old, iss |-> Realm, exp |-> MaxTime + 1,
           azp |-> admin, user |-> ana, roles |-> Roles]

\* The requests of middleware_test.go, and of the paths it leaves out.
MCStrays ==
    {NoToken,
     [Proper EXCEPT !.iss = "internal"],
     [Proper EXCEPT !.exp = 0],
     [Proper EXCEPT !.azp = Blank],
     [Proper EXCEPT !.alg = "RS512"],
     [Proper EXCEPT !.alg = "HS256"],
     [Proper EXCEPT !.signer = other],
     [Proper EXCEPT !.kid = Blank, !.signer = other]}

=============================================================================
