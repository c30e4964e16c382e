------------------------------- MODULE SeqFilter -------------------------------
(***************************************************************************)
(* The loop that leaves some elements of a list out and keeps the others   *)
(* in their order, as setup filters the keys and aliases of a document.    *)
(* It is a recursive function, not SelectSeq, so that UserFilesProofs can  *)
(* reason about it.                                                        *)
(***************************************************************************)
EXTENDS Naturals, Sequences

Without(seq, dropped) ==
    LET f[i \in 0 .. Len(seq)] ==
            IF i = 0 THEN <<>>
            ELSE IF seq[i] \in dropped THEN f[i - 1] ELSE Append(f[i - 1], seq[i])
    IN  f[Len(seq)]
=============================================================================
