-------------------------- MODULE ProfileRegistry ---------------------------
(***************************************************************************)
(* What profile sync promises, without its statements and its races: each  *)
(* call is decided at one moment between its arrival and its answer, by an *)
(* atomic "return my profile, or create it". A call may only create, or be *)
(* refused a name in use, after a moment at which its identity had no      *)
(* profile. The promise is read off the contract of ProfileRepository and  *)
(* SyncService (create only, idempotent per identity), but for what the    *)
(* contract says of conflicts: the profile that holds the name may be one  *)
(* the caller's identity has been given since that moment.                 *)
(***************************************************************************)
CONSTANTS
    Requests, Claims,
    Refused(_),        \* the error for claims refused outright, or "none"
    Invalid(_),        \* the error for claims no profile can be made of, or "none"
    Fresh(_, _),       \* the profile a request creates from its claims
    Edits(_),          \* what a profile may be edited to outside of sync
    NoProfile, NoClaims

VARIABLES profiles, phase, claims, result

vars == <<profiles, phase, claims, result>>

Ok(p)  == [err |-> "none", profile |-> p]
Err(e) == [err |-> e, profile |-> NoProfile]

Init == /\ profiles = {}
        /\ phase = [r \in Requests |-> "new"]
        /\ claims = [r \in Requests |-> NoClaims]
        /\ result = [r \in Requests |-> Err("none")]

Enter(r, ph) == phase' = [phase EXCEPT ![r] = ph]

Decide(r, res) == Enter(r, "decided") /\ result' = [result EXCEPT ![r] = res]

\* A call arrives; one whose token names nobody is refused on the spot.
Call(r, c) ==
    /\ phase[r] = "new"
    /\ claims' = [claims EXCEPT ![r] = c]
    /\ IF Refused(c) # "none" THEN Decide(r, Err(Refused(c)))
                              ELSE Enter(r, "open") /\ UNCHANGED result
    /\ UNCHANGED profiles

Mine(r) == {p \in profiles : p.keycloakId = claims[r].sub}

Taken(r) == \E p \in profiles : p.username = claims[r].username

CanCreate(r) == phase[r] = "creating" /\ Mine(r) = {} /\ ~Taken(r)

Return(r) == /\ \E p \in Mine(r) : Decide(r, Ok(p))
             /\ UNCHANGED profiles

Create(r) == /\ CanCreate(r)
             /\ profiles' = profiles \cup {Fresh(r, claims[r])}
             /\ Decide(r, Ok(Fresh(r, claims[r])))

\* The caller has no profile, and its claims would make one: the call is to
\* create it.
Miss(r) == /\ phase[r] = "open"
           /\ Mine(r) = {}
           /\ Invalid(claims[r]) = "none"
           /\ Enter(r, "creating")
           /\ UNCHANGED <<profiles, result>>

\* The only refusals: claims that are unusable, for a caller without a profile,
\* and a name in use when the profile is to be created.
Reject(r) == /\ UNCHANGED profiles
             /\ \/ /\ phase[r] = "open" /\ Mine(r) = {}
                   /\ Invalid(claims[r]) # "none"
                   /\ Decide(r, Err(Invalid(claims[r])))
                \/ /\ phase[r] = "creating" /\ Taken(r)
                   /\ Decide(r, Err("ErrUsernameTaken"))

\* An internal error says nothing: the profile may have been created.
Fail(r) == /\ Decide(r, Err("internal"))
           /\ \/ UNCHANGED profiles
              \/ CanCreate(r) /\ profiles' = profiles \cup {Fresh(r, claims[r])}

EnsureProfile(r) ==
    /\ phase[r] \in {"open", "creating"}
    /\ Return(r) \/ Miss(r) \/ Create(r) \/ Reject(r) \/ Fail(r)
    /\ UNCHANGED claims

Answer(r) == /\ phase[r] = "decided"
             /\ Enter(r, "answered")
             /\ UNCHANGED <<profiles, claims, result>>

\* Calls not answered yet are lost, together.
Outage == /\ phase' = [r \in Requests |->
                          IF phase[r] \in {"open", "creating", "decided"}
                            THEN "lost" ELSE phase[r]]
          /\ UNCHANGED <<profiles, claims, result>>

\* A profile is removed or edited outside of sync.
Elsewhere == /\ \E p \in profiles : \/ profiles' = profiles \ {p}
                                    \/ \E q \in Edits(p) :
                                          profiles' = (profiles \ {p}) \cup {q}
             /\ UNCHANGED <<phase, claims, result>>

Next == \/ \E r \in Requests : \/ \E c \in Claims : Call(r, c)
                               \/ EnsureProfile(r)
                               \/ Answer(r)
        \/ Outage
        \/ Elsewhere

Spec == Init /\ [][Next]_vars
=============================================================================
