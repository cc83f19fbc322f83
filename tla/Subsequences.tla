----------------------------- MODULE Subsequences -----------------------------
(* A loop over a sequence that keeps some of its elements: over the events of a *)
(* log, the replies of a comment, the bytes of a tag or the tags of a document. *)
EXTENDS Naturals, Sequences

\* The elements of s at the positions in S, in their order.
Subsequence(s, S) ==
    LET upto[i \in 0 .. Len(s)] ==
            IF i = 0 THEN <<>> ELSE IF i \in S THEN Append(upto[i - 1], s[i]) ELSE upto[i - 1]
    IN  upto[Len(s)]
===============================================================================
