--------------------------- MODULE RetryContract ----------------------------
(***************************************************************************)
(* What the schema owes the clients that were built against it: a way of   *)
(* repeating a call that once did no harm never comes to do harm, as long  *)
(* as the method exists.  The code says so of each pair of successive      *)
(* schemas; that it adds up is what SchemaGate has to show.                *)
(***************************************************************************)
CONSTANTS Methods,
          Ways,       \* how a call can be repeated: with a key in a field, or without
          Removable,  \* may a method be removed (and a new one take its name)?
          None

VARIABLE harmless     \* harmless[m]: the ways that do no harm, None without a method

Promises == [Methods -> (SUBSET Ways) \cup {None}]

Init == harmless \in Promises

\* Methods may be added, and promises extended.
Next == /\ harmless' \in Promises
        /\ \A m \in Methods :
             harmless[m] # None =>
               IF harmless'[m] = None THEN Removable
                                      ELSE harmless[m] \subseteq harmless'[m]

Spec == Init /\ [][Next]_harmless
=============================================================================
