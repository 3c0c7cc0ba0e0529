-------------------------------- MODULE Lists --------------------------------
(***************************************************************************)
(* What the models say of the lists of the code, as sequences: an oasys    *)
(* BundleList or std::list that is searched, filtered and never reordered. *)
(***************************************************************************)
EXTENDS Integers, Sequences

In(x, s) == \E i \in 1 .. Len(s) : s[i] = x

NoDuplicates(s) == \A i, j \in 1 .. Len(s) : s[i] = s[j] => i = j

\* The elements of s that are in S, in their order.  (SelectSeq cannot be unfolded
\* in a proof.)
Only(S, s) ==
  LET kept[i \in 0 .. Len(s)] ==
        IF i = 0 THEN <<>>
        ELSE IF s[i] \in S THEN Append(kept[i - 1], s[i]) ELSE kept[i - 1]
  IN kept[Len(s)]
=============================================================================
