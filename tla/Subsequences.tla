---------------------------- MODULE Subsequences ----------------------------
(***************************************************************************)
(* The elements of a sequence that are in a set, in their order.  This is  *)
(* SelectSeq with a set in the place of the test: a set can be a parameter *)
(* of a lemma, and the recursion is there to be unfolded.                  *)
(***************************************************************************)
LOCAL INSTANCE Naturals
LOCAL INSTANCE Sequences

Joined(kept, x, S) == IF x \in S THEN Append(kept, x) ELSE kept

\* What the first n elements leave.
WithinFirst(seq, S) ==
    LET kept[n \in Nat] ==
            IF n = 0 THEN <<>> ELSE Joined(kept[n - 1], seq[n], S)
    IN  kept

Within(seq, S) == WithinFirst(seq, S)[Len(seq)]
=============================================================================
