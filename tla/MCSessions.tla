----------------------------- MODULE MCSessions ------------------------------
(* Instances of Sessions for TLC.                                           *)
EXTENDS Sessions, TLC

Distinct == [a \in Apps |-> IF a = "web" THEN "questlog-web" ELSE "questlog-admin"]

Shared == [a \in Apps |-> "questlog"]

Deployment(prefix, secret) == [prefix |-> prefix, secret |-> secret]

\* As deployed, and with either of the two settings left out.
MCDeployments == {Deployment(Distinct, Distinct), Deployment(Distinct, Shared),
                  Deployment(Shared, Distinct)}

SessionSymmetry == Permutations(Users) \cup Permutations(Flows)
=============================================================================
