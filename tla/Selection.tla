------------------------------ MODULE Selection ------------------------------
(***************************************************************************)
(* The loop that copies some elements of a list to a new one, in order:    *)
(*     for _, x := range list { if !wanted(x) { continue }; append }       *)
(* written as a recursive function over the elements visited.              *)
(***************************************************************************)
EXTENDS Naturals, Sequences

Selected(list, wanted) ==
    LET kept[n \in 0..Len(list)] ==
            IF n = 0 THEN <<>>
            ELSE IF list[n] \in wanted THEN Append(kept[n - 1], list[n])
            ELSE kept[n - 1]
    IN  kept[Len(list)]
=============================================================================
