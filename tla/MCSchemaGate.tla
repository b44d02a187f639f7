---------------------------- MODULE MCSchemaGate ----------------------------
(***************************************************************************)
(* Two methods, two fields that can carry a key and two that cannot, every *)
(* declaration the rules accept and one that breaks each rule.             *)
(***************************************************************************)
EXTENDS SchemaGate, TLC

CONSTANTS key, token, choice, list

String(o) == [repeated |-> FALSE, type |-> "string", oneof |-> o]

RequestShape == key :> String("none") @@ token :> String("synthetic")
                @@ choice :> String("real")
                @@ list :> [repeated |-> TRUE, type |-> "bytes", oneof |-> "none"]

Declare(s, i, f, l) == [safe |-> s, idempotency |-> i, field |-> f, level |-> l]

Accepted ==
  {Declare(TRUE, i, None, "no_side_effects") : i \in {"unspecified", "natural"}}
  \cup {Declare(TRUE, "keyed", key, "no_side_effects")}
  \cup {Declare(FALSE, "natural", None, l) : l \in {"unset", "idempotent"}}
  \cup {Declare(FALSE, "keyed", f, "idempotent") : f \in {key, token}}
  \cup {Declare(FALSE, "keyed", key, "unset"), Declare(FALSE, "unsafe", None, "unset")}

Refused ==
  {Declare(FALSE, "unknown", None, "unset"),
   Declare(FALSE, "unspecified", None, "unset"),
   Declare(TRUE, "unsafe", None, "no_side_effects"),
   Declare(TRUE, "natural", None, "idempotent"),
   Declare(FALSE, "natural", None, "no_side_effects"),
   Declare(FALSE, "unsafe", None, "idempotent"),
   Declare(FALSE, "keyed", None, "unset"),
   Declare(FALSE, "keyed", choice, "idempotent"),
   Declare(FALSE, "keyed", list, "unset"),
   Declare(FALSE, "natural", key, "unset")}

Written == Accepted \cup Refused

MethodSymmetry == Permutations(Methods)
=============================================================================
