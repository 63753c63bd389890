------------------------------ MODULE KeyCache -------------------------------
(***************************************************************************)
(* What the key cache of an API process promises, without requests to      *)
(* Keycloak, parsing and locks: the process starts with all the keys of a   *)
(* published document, then moves only to documents published later, each  *)
(* move in one step, and loses everything when it stops.                    *)
(***************************************************************************)
EXTENDS Naturals, Sequences

CONSTANTS
    Documents,
    KeysOf(_),     \* the keys an API can use of a document
    Usable(_)      \* whether Refresh accepts a document

VARIABLES
    published,     \* the documents Keycloak has published, in order
    keys,          \* the keys the process holds
    asOf           \* the document they come from; 0 when no process serves

vars == <<published, keys, asOf>>

Init == /\ published \in {<<d>> : d \in Documents}
        /\ keys = {}
        /\ asOf = 0

Serving == asOf # 0

Publish(doc) == /\ published' = Append(published, doc)
                /\ UNCHANGED <<keys, asOf>>

Hold(v) == /\ v \in 1 .. Len(published)
           /\ Usable(published[v])
           /\ keys' = KeysOf(published[v])
           /\ asOf' = v
           /\ UNCHANGED published

\* The first fetch of main succeeds, possibly with a reply overtaken by a
\* rotation.
Start == ~Serving /\ \E v \in 1 .. Len(published) : Hold(v)

Refresh == Serving /\ \E v \in 1 .. Len(published) : v > asOf /\ Hold(v)

Stop == /\ Serving
        /\ keys' = {}
        /\ asOf' = 0
        /\ UNCHANGED published

Next == (\E d \in Documents : Publish(d)) \/ Start \/ Refresh \/ Stop

Spec == Init /\ [][Next]_vars
=============================================================================
