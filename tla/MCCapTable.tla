----------------------------- MODULE MCCapTable -----------------------------
(* CapTable on a small instance, and its cascade compared with the code's  *)
(* depth-first recursion.                                                  *)
EXTENDS CapTable

MCResources == {Network("*", 0), Network("h", 80)}

TaskSymmetry == Permutations(Tasks)

\* revoke_recursive as written: mark c, collect its live children, recurse into
\* them in slot order; the count is what revoke returns.
RECURSIVE RevokeRecursive(_, _)
RevokeRecursive(table, c) ==
    IF c \notin DOMAIN table \/ table[c].revoked
    THEN [table |-> table, count |-> 0]
    ELSE LET marked   == [table EXCEPT ![c].revoked = TRUE]
             children == SelectSeq([i \in DOMAIN table |-> i],
                            LAMBDA i : marked[i].parent = c /\ ~marked[i].revoked)
             Visit(acc, child) ==
                LET r == RevokeRecursive(acc.table, child)
                IN  [table |-> r.table, count |-> acc.count + r.count]
         IN  FoldLeft(Visit, [table |-> marked, count |-> 1], children)

\* The recursion of revoke_recursive, with the children it collected before it
\* recursed, revokes exactly the cascade of the model, each capability once:
\* its count is the number of capabilities that were live before and are not
\* afterwards.
CascadeIsRecursive ==
    \A c \in DOMAIN caps : Get(c) =>
        LET r == RevokeRecursive(caps, c)
        IN  /\ r.count = Cardinality(Cascade(c))
            /\ {d \in DOMAIN caps : r.table[d].revoked}
                  = Cascade(c) \cup {d \in DOMAIN caps : caps[d].revoked}
=============================================================================
