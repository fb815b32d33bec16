----------------------------- MODULE LossyTable -----------------------------
(***************************************************************************)
(* What one leaf of btree.c really promises its callers, as a table that   *)
(* maps row ids to contents.  It is weaker than a table ought to be: a put *)
(* may be refused without a word, and removing a row may take the row with *)
(* the greatest id away too.                                               *)
(***************************************************************************)
EXTENDS Integers

CONSTANTS RowIds, Values, NoRow

VARIABLE rows

Stored == {k \in RowIds : rows[k] # NoRow}

IsGreatest(k) == k \in Stored /\ \A j \in Stored : j <= k

Init == rows = [k \in RowIds |-> NoRow]

Put(k, v) == rows' = [rows EXCEPT ![k] = v]

Remove(k) == rows' = [rows EXCEPT ![k] = NoRow]

RemoveWithGreatest(k) ==
    \E j \in RowIds : /\ IsGreatest(j)
                      /\ rows' = [rows EXCEPT ![k] = NoRow, ![j] = NoRow]

Next ==
    \/ \E k \in RowIds, v \in Values : Put(k, v)
    \/ \E k \in RowIds : Remove(k) \/ RemoveWithGreatest(k)

Spec == Init /\ [][Next]_rows

=============================================================================
