--------------------------- MODULE MCRequestStore ---------------------------
(* Small instances of RequestStore: one tenant, whose calls all go to one  *)
(* service.                                                                *)
EXTENDS RequestStore, TLC

CONSTANT t1

\* One service, whose handlers are interchangeable.
OneService == [h \in Handlers |-> t1]

\* Counts a report may carry that the schema refuses.
Negative == {-1}

HandlerSymmetry == Permutations(Handlers)
=============================================================================
