----------------------------- MODULE Filtering -----------------------------
(***************************************************************************)
(* The loop that goes through a list and appends what it keeps to another. *)
(***************************************************************************)
EXTENDS Naturals, Sequences

\* The elements of s that are in K, in their order.
Only(s, K) ==
  LET kept[n \in 0 .. Len(s)] ==
        IF n = 0 THEN <<>>
        ELSE IF s[n] \in K THEN Append(kept[n-1], s[n]) ELSE kept[n-1]
  IN  kept[Len(s)]
=============================================================================
