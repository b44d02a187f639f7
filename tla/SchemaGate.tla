----------------------------- MODULE SchemaGate -----------------------------
(***************************************************************************)
(* The API description and the checks a change to it passes before it is   *)
(* merged: `make lint` (every .proto covered, every method annotated) and  *)
(* `make breaking` (buf, then every declaration compared with the base     *)
(* branch).  A client compiles in the declaration of the schema it was     *)
(* built against and keeps repeating calls by it, however many schemas     *)
(* later, while each comparison sees two successive schemas only.          *)
(***************************************************************************)
CONSTANTS Methods,
          Fields,       \* names an idempotency_field may give
          Shape,        \* Shape[f]: that field of the request message, None if it has none
          Carried,      \* the fields whose value reaches the server with every retry
          Declared,     \* the declarations people write, right and wrong
          BufBreaking,  \* does `buf breaking` run first, or schemacheck alone?
          None

VARIABLES schema,   \* schema[m]: the declaration on the base branch, None without a method
          client    \* some client: the method it calls, the declaration compiled in,
                    \* and whether that method has been removed since

vars == <<schema, client>>

\* The values of Idempotency this build knows; "unknown" stands for another.
Known == {"unspecified", "natural", "keyed", "unsafe"}

Levels == {"unset", "idempotent", "no_side_effects"}

Declarations == [safe : BOOLEAN, idempotency : Known \cup {"unknown"},
                 field : Fields \cup {None}, level : Levels]

Shapes == [repeated : BOOLEAN, type : {"string", "bytes", "other"},
           oneof : {"none", "synthetic", "real"}]

Present(s) == {m \in Methods : s[m] # None}

-----------------------------------------------------------------------------
(* make lint.                                                              *)

\* The request message has the field, and it is one that can carry a key.
CanCarry(f) ==
  /\ Shape[f] # None
  /\ ~Shape[f].repeated
  /\ Shape[f].type \in {"string", "bytes"}
  /\ Shape[f].oneof # "real"

\* The standard option, which generated clients act on, says no more than the
\* declaration does.
LevelAgrees(d) ==
  /\ d.level = "no_side_effects" <=> d.safe
  /\ d.level = "idempotent" => d.idempotency # "unsafe"

\* The rules for one method.
Annotated(d) ==
  /\ d.idempotency \in Known
  /\ d.safe \/ d.idempotency # "unspecified"
  /\ ~(d.safe /\ d.idempotency = "unsafe")
  /\ LevelAgrees(d)
  /\ IF d.idempotency = "keyed" THEN d.field \in Fields /\ CanCarry(d.field)
                                ELSE d.field = None

\* The schema as buf builds it: methods of files it leaves out are not there.
Owned(s, excluded) == [m \in Methods |-> IF m \in excluded THEN None ELSE s[m]]

\* Mutation: what buf leaves out is not asked after.
CoveredUnasked(excluded) == excluded \subseteq Methods

\* Every .proto under the root is in the set buf builds.
Covered(excluded) == excluded = {}

\* Every method annotated, and at least one looked at.
CheckAnnotations(s) ==
  /\ Present(s) # {}
  /\ \A m \in Present(s) : Annotated(s[m])

-----------------------------------------------------------------------------
(* make breaking.                                                          *)

\* The category FILE of buf's rules refuses to remove a method (RPC_NO_DELETE).
BufAccepts(before, after) == Present(before) \subseteq Present(after)

Weakened(was, now) ==
  \/ was = "natural" /\ now \in {"keyed", "unsafe"}
  \/ was = "keyed" /\ now = "unsafe"

\* Mutation: a value neither case knows is weakened by nothing.
CompatibleUnknown(was, now) ==
  /\ was.safe => now.safe
  /\ ~Weakened(was.idempotency, now.idempotency)
  /\ was.idempotency = "keyed" /\ now.idempotency = "keyed" => was.field = now.field

\* Mutation: the field a key travels in may move.
CompatibleMovedKey(was, now) ==
  /\ was.idempotency \in Known /\ now.idempotency \in Known
  /\ was.safe => now.safe
  /\ ~Weakened(was.idempotency, now.idempotency)

\* A client built against `was` can go on by it under `now`.
Compatible(was, now) ==
  /\ was.idempotency \in Known /\ now.idempotency \in Known
  /\ was.safe => now.safe
  /\ ~Weakened(was.idempotency, now.idempotency)
  /\ was.idempotency = "keyed" /\ now.idempotency = "keyed" => was.field = now.field

\* Methods are matched by name; a comparison that matches none is refused.
CheckCompatibility(before, after) ==
  LET compared == Present(before) \cap Present(after)
  IN  /\ Present(before) # {} => compared # {}
      /\ \A m \in compared : Compatible(before[m], after[m])

-----------------------------------------------------------------------------
(* The base branch, whose schema an earlier build of these checks accepted *)
(* (its enum may have had values that this build's no longer has).         *)
Init == /\ schema \in [Methods -> {d \in Declared : Annotated(d) \/ d.idempotency = "unknown"}
                                    \cup {None}]
        /\ Present(schema) # {}
        /\ client = None

\* A client is built against the schema of the day.
Build(m) ==
  /\ schema[m] # None
  /\ client' = [method |-> m, declared |-> schema[m], orphaned |-> FALSE]
  /\ UNCHANGED schema

\* A change to the description, leaving the files of some methods out of buf's
\* module, passes both targets and is merged.
Merge(s, excluded) ==
  LET owned == Owned(s, excluded) IN
  /\ Covered(excluded)
  /\ CheckAnnotations(owned)
  /\ BufBreaking => BufAccepts(schema, owned)
  /\ CheckCompatibility(schema, owned)
  /\ schema' = s
  /\ client' = IF client # None /\ s[client.method] = None
               THEN [client EXCEPT !.orphaned = TRUE] ELSE client

Next == \/ \E m \in Methods : Build(m)
        \/ \E s \in [Methods -> Declared \cup {None}], excluded \in SUBSET Methods :
             Merge(s, excluded)

Spec == Init /\ [][Next]_vars

-----------------------------------------------------------------------------
(* What a declaration means to the two ends of a call.                     *)

\* A call is repeated with a key that arrives, in a field, or without one.
Ways == Fields \cup {None}

KeyedWay(d) == IF d.idempotency = "keyed" /\ d.field \in Carried THEN d.field ELSE None

\* How a client built against d repeats a call by itself: by the declaration,
\* and, being generated, by the standard option.
Repeats(d) ==
  IF d.idempotency = "unknown" THEN Ways
  ELSE {w \in Ways :
          \/ w = None /\ (d.safe \/ d.idempotency = "natural" \/ d.level = "no_side_effects")
          \/ w = KeyedWay(d) /\ (d.idempotency = "keyed" \/ d.level = "idempotent")}

\* The repeats a server that declares d can stand.
Harmless(d) ==
  IF d.safe \/ d.idempotency \in {"natural", "unknown"} THEN Ways
  ELSE IF d.idempotency = "keyed" THEN {d.field} ELSE {}

-----------------------------------------------------------------------------
(* Properties.                                                             *)

\* Every variable has its type; the base branch is never without a method, and
\* each on it passed the rules, or an earlier build's: none gets there unseen.
TypeOK ==
  /\ schema \in [Methods -> Declared \cup {None}]
  /\ Present(schema) # {}
  /\ \A m \in Present(schema) : Annotated(schema[m]) \/ schema[m].idempotency = "unknown"
  /\ client \in [method : Methods, declared : Declared, orphaned : BOOLEAN] \cup {None}

\* A client built against ANY earlier schema does no harm by repeating calls
\* the way it was built to, however many changes have been merged since, each
\* compared with the one before it only.  A method that schemacheck alone let
\* go, and let come back weaker under its old name, is excepted; with buf in
\* front of it no method goes.
PromisesKept ==
  client # None =>
    /\ BufBreaking => ~client.orphaned
    /\ ~client.orphaned => Repeats(client.declared) \subseteq Harmless(schema[client.method])

Contract == INSTANCE RetryContract WITH
  Removable <- ~BufBreaking,
  harmless <- [m \in Methods |-> IF schema[m] = None THEN None ELSE Harmless(schema[m])]

\* The checks implement the contract: what the server can stand of the clients
\* only grows, schema after schema.
ImplementsContract == Contract!Spec

-----------------------------------------------------------------------------
ASSUME SchemaAssumption ==
  /\ None \notin Fields \cup Declarations \cup Shapes
  /\ \A ways \in SUBSET Ways : ways # None
  /\ Shape \in [Fields -> Shapes \cup {None}]
  /\ Declared \subseteq Declarations
  /\ BufBreaking \in BOOLEAN
  /\ \A f \in Fields : /\ Shape[f] # None /\ ~Shape[f].repeated
                       /\ Shape[f].type # "other" /\ Shape[f].oneof # "real"
                       => f \in Carried
=============================================================================
