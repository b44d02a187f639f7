------------------------- MODULE SchemaGate_proofs --------------------------
(***************************************************************************)
(* For any methods, fields, declarations and shapes: the checks of         *)
(* SchemaGate, each of which sees two successive schemas, implement        *)
(* RetryContract, and a client built against any earlier schema can go on  *)
(* repeating calls as it was built to.                                     *)
(***************************************************************************)
EXTENDS SchemaGate, TLAPS

\* What a server can stand is a set of ways to repeat a call.
LEMMA HarmlessType ==
  ASSUME NEW d \in Declared
  PROVE  Harmless(d) \in SUBSET Ways
BY SchemaAssumption DEF Harmless, Ways, Declarations

\* A declaration that passed the rules of `make lint` agrees with itself: all
\* that clients built against it do is what its server can stand.
LEMMA AnnotatedAgrees ==
  ASSUME NEW d \in Declared, Annotated(d) \/ d.idempotency = "unknown"
  PROVE  Repeats(d) \subseteq Harmless(d)
<1>1. CASE d.idempotency = "unknown"
  BY <1>1 DEF Repeats, Harmless
<1>2. CASE d.idempotency # "unknown" /\ d.safe
  BY <1>2 DEF Repeats, Harmless
<1>3. CASE d.idempotency # "unknown" /\ ~d.safe
  <2>1. Annotated(d)
    BY <1>3
  <2>2. d.level # "no_side_effects"
    BY <2>1, <1>3 DEF Annotated, LevelAgrees
  <2>3. CASE d.idempotency = "natural"
    BY <2>3 DEF Repeats, Harmless
  <2>4. CASE d.idempotency = "keyed"
    <3>1. d.field \in Fields /\ CanCarry(d.field)
      BY <2>1, <2>4 DEF Annotated
    <3>2. d.field \in Carried
      BY <3>1, SchemaAssumption DEF CanCarry, Shapes
    <3>3. KeyedWay(d) = d.field
      BY <2>4, <3>2 DEF KeyedWay
    <3> QED
      BY <1>3, <2>2, <2>4, <3>3 DEF Repeats, Harmless
  <2>5. CASE d.idempotency = "unsafe"
    <3>1. d.level # "idempotent"
      BY <2>1, <2>5 DEF Annotated, LevelAgrees
    <3> QED
      BY <1>3, <2>2, <2>5, <3>1 DEF Repeats
  <2>6. d.idempotency \in {"natural", "keyed", "unsafe"}
    BY <2>1, <1>3 DEF Annotated, Known
  <2> QED
    BY <2>3, <2>4, <2>5, <2>6
<1> QED
  BY <1>1, <1>2, <1>3

\* One accepted change takes away nothing that a server could stand.
LEMMA CompatibleExtends ==
  ASSUME NEW was \in Declared, NEW now \in Declared,
         Compatible(was, now), Annotated(now)
  PROVE  Harmless(was) \subseteq Harmless(now)
<1>1. CASE now.safe \/ now.idempotency = "natural"
  BY <1>1, HarmlessType DEF Harmless
<1>2. CASE ~now.safe /\ now.idempotency # "natural"
  <2>1. ~was.safe /\ was.idempotency \in Known /\ was.idempotency # "natural"
    BY <1>2 DEF Compatible, Weakened, Annotated, Known
  <2>2. CASE was.idempotency = "keyed"
    <3>1. now.idempotency = "keyed" /\ was.field = now.field
      BY <1>2, <2>2 DEF Compatible, Weakened, Annotated, Known
    <3> QED
      BY <1>2, <2>1, <2>2, <3>1 DEF Harmless
  <2>3. CASE was.idempotency # "keyed"
    BY <2>1, <2>3 DEF Harmless, Known
  <2> QED
    BY <2>2, <2>3
<1> QED
  BY <1>1, <1>2

-----------------------------------------------------------------------------
\* What the base branch holds at any time, and what the client is owed.
IInv ==
  /\ TypeOK
  /\ client # None /\ ~client.orphaned => schema[client.method] # None
  /\ PromisesKept

LEMMA SpecIInv == Spec => []IInv
<1>1. Init => IInv
  <2> SUFFICES ASSUME Init PROVE IInv
    OBVIOUS
  <2>1. \A m \in Present(schema) :
          Annotated(schema[m]) \/ schema[m].idempotency = "unknown"
    BY DEF Init, Present
  <2> QED
    BY <2>1 DEF Init, IInv, TypeOK, PromisesKept
<1>2. IInv /\ [Next]_vars => IInv'
  <2> SUFFICES ASSUME IInv, [Next]_vars PROVE IInv'
    OBVIOUS
  <2> USE DEF IInv
  <2>1. CASE UNCHANGED vars
    BY <2>1 DEF vars, TypeOK, PromisesKept, Present
  <2>2. ASSUME NEW m \in Methods, Build(m) PROVE IInv'
    <3>1. schema' = schema /\ m \in Present(schema) /\ schema[m] \in Declared
      BY <2>2 DEF Build, Present, TypeOK
    <3>2. client' = [method |-> m, declared |-> schema[m], orphaned |-> FALSE]
      BY <2>2 DEF Build
    <3>3. Repeats(schema[m]) \subseteq Harmless(schema[m])
      BY <3>1, AnnotatedAgrees DEF TypeOK
    <3>4. TypeOK'
      BY <3>1, <3>2 DEF TypeOK, Present
    <3>5. PromisesKept'
      BY <3>1, <3>2, <3>3 DEF PromisesKept
    <3> QED
      BY <3>1, <3>2, <3>4, <3>5 DEF Present
  <2>3. ASSUME NEW s \in [Methods -> Declared \cup {None}], NEW excluded \in SUBSET Methods,
               Merge(s, excluded)
        PROVE  IInv'
    <3>1. Owned(s, excluded) = s
      BY <2>3 DEF Merge, Covered, Owned
    <3>2. /\ CheckAnnotations(s) /\ CheckCompatibility(schema, s)
          /\ BufBreaking => BufAccepts(schema, s)
          /\ schema' = s
      BY <2>3, <3>1 DEF Merge
    <3>3. client' = IF client # None /\ s[client.method] = None
                    THEN [client EXCEPT !.orphaned = TRUE] ELSE client
      BY <2>3 DEF Merge
    <3>4. \A m \in Present(s) : Annotated(s[m]) /\ s[m] \in Declared
      BY <3>2 DEF CheckAnnotations, Present
    <3>5. TypeOK'
      BY <3>2, <3>3, <3>4 DEF TypeOK, CheckAnnotations, Present
    <3>6. ASSUME client' # None PROVE client # None /\ client.method \in Methods
                                      /\ client'.method = client.method
                                      /\ client'.declared = client.declared
      BY <3>3, <3>6 DEF TypeOK
    <3>7. ASSUME client' # None, ~client'.orphaned
          PROVE  /\ ~client.orphaned /\ client' = client
                 /\ s[client.method] # None
                 /\ Repeats(client'.declared) \subseteq Harmless(schema'[client'.method])
      <4>1. client # None /\ ~client.orphaned /\ s[client.method] # None /\ client' = client
        BY <3>3, <3>6, <3>7 DEF TypeOK
      <4> DEFINE m == client.method
      <4>2. m \in Methods /\ schema[m] # None /\ schema[m] \in Declared /\ s[m] \in Declared
        BY <4>1 DEF TypeOK
      <4>3. Compatible(schema[m], s[m]) /\ Annotated(s[m])
        BY <3>2, <3>4, <4>1, <4>2 DEF CheckCompatibility, Present
      <4>4. Harmless(schema[m]) \subseteq Harmless(s[m])
        BY <4>2, <4>3, CompatibleExtends
      <4>5. Repeats(client.declared) \subseteq Harmless(schema[m])
        BY <4>1 DEF PromisesKept
      <4> QED
        BY <3>2, <4>1, <4>4, <4>5
    <3>8. ASSUME client' # None, BufBreaking PROVE ~client'.orphaned
      <4>1. client # None /\ ~client.orphaned /\ schema[client.method] # None
        BY <3>6, <3>8 DEF PromisesKept
      <4>2. s[client.method] # None
        BY <3>2, <3>6, <3>8, <4>1 DEF BufAccepts, Present
      <4> QED
        BY <3>3, <4>1, <4>2
    <3>9. PromisesKept'
      BY <3>7, <3>8 DEF PromisesKept
    <3> QED
      BY <3>2, <3>5, <3>7, <3>9
  <2> QED
    BY <2>1, <2>2, <2>3 DEF Next
<1> QED
  BY <1>1, <1>2, PTL DEF Spec

\* Every variable has its type, the base branch is never without a method, and
\* no declaration gets there that did not pass the rules.
THEOREM TypeCorrect == Spec => []TypeOK
BY SpecIInv, PTL DEF IInv

\* A client built against any earlier schema does no harm by repeating calls
\* the way it was built to, though no comparison ever saw that schema next to
\* the present one.
THEOREM PromisesAreKept == Spec => []PromisesKept
BY SpecIInv, PTL DEF IInv

\* The two make targets implement the contract: every merged change is one
\* that only adds to what the server can stand.
THEOREM GateImplementsContract == Spec => ImplementsContract
<1> DEFINE harmless == [m \in Methods |-> IF schema[m] = None THEN None
                                          ELSE Harmless(schema[m])]
<1>1. IInv => harmless \in Contract!Promises
  BY HarmlessType DEF IInv, TypeOK, Contract!Promises
<1>2. Init => Contract!Init
  <2> SUFFICES ASSUME Init PROVE harmless \in Contract!Promises
    BY DEF Contract!Init
  <2>1. schema \in [Methods -> Declared \cup {None}]
    BY DEF Init
  <2> QED
    BY <2>1, HarmlessType DEF Contract!Promises
<1>3. IInv /\ IInv' /\ [Next]_vars => [Contract!Next]_harmless
  <2> SUFFICES ASSUME IInv, IInv', [Next]_vars PROVE [Contract!Next]_harmless
    OBVIOUS
  <2>1. CASE schema' = schema
    BY <2>1
  <2>2. ASSUME NEW s \in [Methods -> Declared \cup {None}], NEW excluded \in SUBSET Methods,
               Merge(s, excluded)
        PROVE  Contract!Next
    <3>1. Owned(s, excluded) = s
      BY <2>2 DEF Merge, Covered, Owned
    <3>2. /\ CheckAnnotations(s) /\ CheckCompatibility(schema, s)
          /\ BufBreaking => BufAccepts(schema, s)
          /\ schema' = s
      BY <2>2, <3>1 DEF Merge
    <3>3. harmless' \in Contract!Promises
      BY <1>1, HarmlessType DEF IInv, TypeOK, Contract!Promises
    <3>4. ASSUME NEW m \in Methods, harmless[m] # None
          PROVE  IF harmless'[m] = None THEN ~BufBreaking
                                        ELSE harmless[m] \subseteq harmless'[m]
      <4>1. schema[m] # None /\ schema[m] \in Declared /\ harmless[m] = Harmless(schema[m])
        BY <3>4 DEF IInv, TypeOK
      <4>2. CASE s[m] = None
        <5>1. ~BufBreaking
          BY <3>2, <4>1, <4>2 DEF BufAccepts, Present
        <5>2. harmless'[m] = None
          BY <3>2, <4>2
        <5> QED
          BY <5>1, <5>2
      <4>3. CASE s[m] # None
        <5>1. s[m] \in Declared /\ harmless'[m] = Harmless(s[m])
          BY <3>2, <4>3
        <5>2. Compatible(schema[m], s[m]) /\ Annotated(s[m])
          BY <3>2, <4>1, <4>3 DEF CheckCompatibility, CheckAnnotations, Present
        <5>3. Harmless(schema[m]) \subseteq Harmless(s[m])
          BY <4>1, <5>1, <5>2, CompatibleExtends
        <5>4. harmless'[m] # None
          BY <5>1, HarmlessType, SchemaAssumption
        <5> QED
          BY <4>1, <5>1, <5>3, <5>4
      <4> QED
        BY <4>2, <4>3
    <3> QED
      BY <3>3, <3>4 DEF Contract!Next
  <2>3. ASSUME NEW m \in Methods, Build(m) PROVE schema' = schema
    BY <2>3 DEF Build
  <2> QED
    BY <2>1, <2>2, <2>3 DEF Next, vars
<1> QED
  BY <1>2, <1>3, SpecIInv, PTL DEF Spec, Contract!Spec, ImplementsContract
=============================================================================
