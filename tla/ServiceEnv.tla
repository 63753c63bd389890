----------------------------- MODULE ServiceEnv ------------------------------
(***************************************************************************)
(* Required environment variables (backend/internal/shared/env.go). A value *)
(* is Blank when it is unset or empty; a list is the sequence of the pieces *)
(* between its commas, each a name, or Blank, with or without spaces around.*)
(***************************************************************************)
EXTENDS Sequences

CONSTANT Blank

Piece(name, padded) == [name |-> name, padded |-> padded]

\* An unset or empty list splits into one empty piece.
EmptyList == <<Piece(Blank, FALSE)>>

\* MustEnv hands the value back, or exits.
MustEnv(value) == value # Blank

TrimSpace(piece) == piece.name

\* Mutant: empty pieces stay in the list.
Elements_KeepBlanks(raw) == {TrimSpace(raw[i]) : i \in DOMAIN raw}

\* Mutant: the pieces are not trimmed.
Elements_NoTrim(raw) ==
    {IF raw[i].padded THEN raw[i] ELSE raw[i].name : i \in DOMAIN raw} \ {Blank}

\* What MustEnvList hands back, as a set: it is only asked what it contains.
Elements(raw) == {TrimSpace(raw[i]) : i \in DOMAIN raw} \ {Blank}

\* MustEnvList does not exit: the value is there, and something is left of it.
MustEnvList(raw) == raw # EmptyList /\ Elements(raw) # {}
=============================================================================
