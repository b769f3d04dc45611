---------------------------- MODULE MCSimpleList ----------------------------
(* Three cells are enough for an element before, at and after the cursor.  *)
EXTENDS SimpleList, TLC

CONSTANTS c1, c2, c3, a, b

ThreeCells == {c1, c2, c3}
TwoValues  == {a, b}

AllUses == {"Add", "AddHead", "Insert", "InsertBefore", "cursor", "RemoveCurrent",
            "Remove", "ExtractFirst", "Empty", "Assign", "AssignSelf"}

=============================================================================
