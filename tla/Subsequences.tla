---------------------------- MODULE Subsequences -----------------------------
(***************************************************************************)
(* The elements of a sequence that are in a set, in order: what SelectSeq  *)
(* gives for the test "in S", as a recursive function over the prefixes,   *)
(* so that it can be reasoned about (Subsequences_proofs).                 *)
(***************************************************************************)
EXTENDS Integers, Sequences

\* OnlyTo(s, S)[n] is what the first n elements contribute.
OnlyTo(s, S) ==
    LET f[n \in 0..Len(s)] ==
            IF n = 0 THEN <<>>
            ELSE IF s[n] \in S THEN Append(f[n - 1], s[n]) ELSE f[n - 1]
    IN f

Only(s, S) == OnlyTo(s, S)[Len(s)]

\* The elements of a sequence.
Elements(s) == {s[i] : i \in DOMAIN s}
=============================================================================
