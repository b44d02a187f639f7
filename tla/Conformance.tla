----------------------------- MODULE Conformance -----------------------------
(***************************************************************************)
(* The corpus of conformance vectors: a JSON file that programs in several *)
(* languages read, so that its bytes must mean one thing.  People edit the *)
(* file, Load accepts or refuses it, and a corpus that was loaded may be   *)
(* written back.                                                           *)
(*                                                                         *)
(* JSON values are records told apart by their field.  A string is the     *)
(* sequence of symbols between its quotes as the file spells it, where HI  *)
(* and LO stand for the four digits of a leading and of a trailing         *)
(* surrogate, BMP for those of any other character, and BAD for bytes that *)
(* are not UTF-8.                                                          *)
(***************************************************************************)
EXTENDS Integers, Sequences, FiniteSets, SequencesExt

CONSTANTS Symbols,    \* what strings are spelled with
          Keys,       \* what the members of objects are called
          Nesting,    \* how deep arrays and objects may be nested
          Templates,  \* the files that editing starts from
          Texts,      \* the strings an edit may write
          Versions,   \* the numbers an edit may write
          NewKeys,    \* the keys an edit may write
          FoldsTo,    \* FoldsTo[k]: the field that k is another spelling of
          MaxEdits,
          MaxExact,   \* the largest integer every JSON reader carries exactly
          None

Str(s) == [str |-> s]
Num(n) == [num |-> n]
Object(members) == [object |-> members]
Array(values) == [array |-> values]
Null == [null |-> None]
Member(k, v) == [key |-> k, value |-> v]

Is(v, kind) == kind \in DOMAIN v

VARIABLES file,     \* the JSON values in the file, one if all is well
          edits,    \* how often it was edited
          verdict,  \* of Load: None before it has run
          corpus,   \* the corpus it returned
          saved     \* the file was written from that corpus

vars == <<file, edits, verdict, corpus, saved>>

Verdicts == {"in_subset", "out_of_grammar", "unsupported"}
Operations == {"select", "insert", "update", "delete"}
AssignsColumns(operation) == operation \in {"update", "insert"}
HasPredicate(operation) == operation # "insert"

CorpusFields == {"subset_version", "vectors"}
VectorFields == {"name", "statement", "verdict", "scope", "because"}
ScopeFields == {"operation", "schema", "relation", "columns_written", "predicate"}

\* Every key of the format, wherever it belongs.
Fields == CorpusFields \cup VectorFields \cup ScopeFields

-----------------------------------------------------------------------------
(* JSON.                                                                   *)

\* An even number of backslashes is right before i.
Unescaped(s, i) ==
  \E k \in 0..(i - 1) : /\ k % 2 = 0
                        /\ \A j \in (i - k)..(i - 1) : s[j] = "\\"
                        /\ i - k = 1 \/ s[i - k - 1] # "\\"

\* A backslash starts an escape unless it is itself escaped.
StartsEscape(s, i) == s[i] = "\\" /\ Unescaped(s, i)

\* No escape is cut short.
Complete(s) ==
  \A i \in DOMAIN s : StartsEscape(s, i) =>
    /\ i < Len(s)
    /\ s[i + 1] = "u" => i + 2 <= Len(s) /\ s[i + 2] \in {"HI", "LO", "BMP"}

\* What JSON allows between two quotes.
Spellings == {s \in Seq(Symbols) : Complete(s)}

Scalars == [str : Spellings] \cup [num : Int] \cup [null : {None}]

\* The values that are nested at most n deep.
ValuesUpTo[n \in 0..Nesting] ==
  IF n = 0 THEN Scalars
  ELSE Scalars \cup [array : Seq(ValuesUpTo[n - 1])]
               \cup [object : Seq([key : Keys, value : ValuesUpTo[n - 1]])]

Values == ValuesUpTo[Nesting]

Delim(d) == [delim |-> d]

\* The decoder's token stream.
Tokens(v) ==
  LET tokens[w \in Values] ==
        CASE Is(w, "object") ->
               <<Delim("{")>>
               \o FlattenSeq([i \in DOMAIN w.object |->
                               <<Str(<<w.object[i].key>>)>> \o tokens[w.object[i].value]])
               \o <<Delim("}")>>
          [] Is(w, "array") ->
               <<Delim("[")>> \o FlattenSeq([i \in DOMAIN w.array |-> tokens[w.array[i]]])
               \o <<Delim("]")>>
          [] OTHER -> <<w>>
  IN tokens[v]

-----------------------------------------------------------------------------
(* checkEscapes: the bytes, before they are JSON.                          *)

\* What the escapes of the file are looked for in.
Spelled(token) == IF Is(token, "str") THEN <<"quote">> \o token.str \o <<"quote">> ELSE <<",">>

\* \u and four digits are at i.
Unicode(s, i, digits) ==
  i + 2 <= Len(s) /\ s[i] = "\\" /\ s[i + 1] = "u" /\ s[i + 2] = digits

\* One turn, at i with nothing wrong so far: an escape is consumed whole, and a
\* surrogate must come as a pair.
EscapeTurn(text, b) ==
  LET i == b.i
      goOn(j) == [i |-> j, ok |-> TRUE]
      fail == [i |-> i, ok |-> FALSE]
  IN IF ~b.ok \/ i > Len(text) THEN b
     ELSE CASE text[i] # "\\" -> goOn(i + 1)
            [] Unicode(text, i, "LO") -> fail
            [] Unicode(text, i, "HI") -> IF Unicode(text, i + 3, "LO") THEN goOn(i + 6) ELSE fail
            [] Unicode(text, i, "BMP") -> goOn(i + 3)
            [] OTHER -> goOn(i + 2)

EscapeTurns(text) ==
  LET next == [b \in [i : Nat, ok : BOOLEAN] |-> EscapeTurn(text, b)]
      turn[k \in 0..Len(text)] ==
        IF k = 0 THEN [i |-> 1, ok |-> TRUE] ELSE next[turn[k - 1]]
  IN turn

CheckEscapes(text) == EscapeTurns(text)[Len(text)].ok

ValidUTF8(text) == "BAD" \notin Range(text)

-----------------------------------------------------------------------------
(* checkKeys: the token stream, with a stack of what is open.              *)

ObjectFrame == [object |-> TRUE, expectKey |-> TRUE, seen |-> {}]
ArrayFrame == [object |-> FALSE, expectKey |-> FALSE, seen |-> {}]

Top(scan) == Last(scan.stack)

\* Mutation: only a scalar counts as the value of a member.
ClosedNothingConsumed(scan) == [scan EXCEPT !.stack = Front(@)]

\* A value is complete: in an object, a key is next.
Consumed(scan) ==
  IF scan.stack = <<>> \/ ~Top(scan).object THEN scan
  ELSE [scan EXCEPT !.stack[Len(scan.stack)].expectKey = TRUE]

\* The innermost object or array ends, and is a value of the one around it.
Closed(scan) == Consumed([scan EXCEPT !.stack = Front(@)])

Nested(scan, delim) ==
  CASE delim = "{" -> [scan EXCEPT !.stack = Append(@, ObjectFrame)]
    [] delim = "[" -> [scan EXCEPT !.stack = Append(@, ArrayFrame)]
    [] delim \in {"}", "]"} -> Closed(scan)

\* The field a token may name: what is no string is none.
KeyOf(token) == IF Is(token, "str") /\ Len(token.str) = 1 THEN token.str[1] ELSE ""

\* Its value is next.
Keyed(frame, key) == [frame EXCEPT !.expectKey = FALSE, !.seen = @ \cup {key}]

\* A key must be a documented one, and new in its object.
Key(scan, key) ==
  IF key \in Fields \ Top(scan).seen
  THEN [scan EXCEPT !.stack[Len(scan.stack)] = Keyed(@, key)]
  ELSE [scan EXCEPT !.ok = FALSE]

\* One turn, for one token.
KeysTurn(scan, token) ==
  CASE ~scan.ok -> scan
    [] scan.ok /\ Is(token, "delim") -> Nested(scan, token.delim)
    [] scan.ok /\ ~Is(token, "delim") ->
         IF scan.stack # <<>> /\ Top(scan).object /\ Top(scan).expectKey
         THEN Key(scan, KeyOf(token)) ELSE Consumed(scan)

KeysTurns(scan, tokens) ==
  LET turn[k \in 0..Len(tokens)] ==
        IF k = 0 THEN scan ELSE KeysTurn(turn[k - 1], tokens[k])
  IN turn

CheckKeys(tokens) == KeysTurns([ok |-> TRUE, stack |-> <<>>], tokens)[Len(tokens)].ok

-----------------------------------------------------------------------------
(* Decoding and validation.                                                *)

\* The keys an author wrote, and the value of one: the last, if there are two.
Present(v) == {v.object[i].key : i \in DOMAIN v.object}

At(v, key) ==
  IF key \notin Present(v) THEN Null
  ELSE v.object[CHOOSE i \in DOMAIN v.object :
                  /\ v.object[i].key = key
                  /\ \A j \in DOMAIN v.object : v.object[j].key = key => j <= i].value

\* A string field; null leaves it empty.
Decoded(v) == IF Is(v, "str") THEN v.str ELSE <<>>

IsText(v) == Is(v, "str") \/ Is(v, "null")

\* DisallowUnknownFields, and values of the types of the struct.
DecodesScope(v) ==
  /\ Is(v, "object")
  /\ Present(v) \subseteq ScopeFields
  /\ \A key \in ScopeFields \ {"columns_written"} : IsText(At(v, key))
  /\ LET columns == At(v, "columns_written") IN
     \/ Is(columns, "null")
     \/ Is(columns, "array") /\ \A i \in DOMAIN columns.array : IsText(columns.array[i])

DecodesVector(v) ==
  /\ Is(v, "object")
  /\ Present(v) \subseteq VectorFields
  /\ \A key \in VectorFields \ {"scope"} : IsText(At(v, key))
  /\ Is(At(v, "scope"), "null") \/ DecodesScope(At(v, "scope"))

Columns(v) == IF Is(v, "array") THEN [i \in DOMAIN v.array |-> Decoded(v.array[i])] ELSE <<>>

\* strings.TrimSpace leaves nothing.
Blank(s) == Range(s) \subseteq {" "}

\* The one symbol of a keyword, or what is none.
Keyword(v) == IF Len(Decoded(v)) = 1 THEN Decoded(v)[1] ELSE ""

\* Mutation: a forbidden field is refused for its value, not for being there.
ValidScopeByValue(v) ==
  LET operation == Keyword(At(v, "operation"))
      columns == Columns(At(v, "columns_written"))
      predicate == Decoded(At(v, "predicate"))
  IN /\ operation \in Operations
     /\ ~Blank(Decoded(At(v, "schema"))) /\ ~Blank(Decoded(At(v, "relation")))
     /\ AssignsColumns(operation) <=> columns # <<>>
     /\ \A i \in DOMAIN columns : ~Blank(columns[i])
     /\ HasPredicate(operation) <=> ~Blank(predicate)

\* Scope.validate.
ValidScope(v) ==
  LET operation == Keyword(At(v, "operation"))
      columns == Columns(At(v, "columns_written"))
  IN /\ operation \in Operations
     /\ ~Blank(Decoded(At(v, "schema")))
     /\ ~Blank(Decoded(At(v, "relation")))
     /\ IF AssignsColumns(operation) THEN columns # <<>>
        ELSE "columns_written" \notin Present(v)
     /\ \A i \in DOMAIN columns : ~Blank(columns[i])
     /\ IF HasPredicate(operation) THEN ~Blank(Decoded(At(v, "predicate")))
        ELSE "predicate" \notin Present(v)

\* Mutation: a verdict nobody defined is one that explains itself.
ValidVectorAnyVerdict(v) ==
  /\ ~Blank(Decoded(At(v, "name")))
  /\ ~Blank(Decoded(At(v, "statement")))
  /\ IF Keyword(At(v, "verdict")) = "in_subset"
     THEN /\ Is(At(v, "scope"), "object") /\ ValidScope(At(v, "scope"))
          /\ "because" \notin Present(v)
     ELSE ~Blank(Decoded(At(v, "because"))) /\ "scope" \notin Present(v)

\* Vector.validate: an admitted vector has a scope and no reason, another one a
\* reason and no scope.
ValidVector(v) ==
  /\ ~Blank(Decoded(At(v, "name")))
  /\ ~Blank(Decoded(At(v, "statement")))
  /\ Keyword(At(v, "verdict")) \in Verdicts
  /\ IF Keyword(At(v, "verdict")) = "in_subset"
     THEN /\ Is(At(v, "scope"), "object") /\ ValidScope(At(v, "scope"))
          /\ "because" \notin Present(v)
     ELSE ~Blank(Decoded(At(v, "because"))) /\ "scope" \notin Present(v)

ScopeOf(v) ==
  IF Is(v, "null") THEN None
  ELSE [operation |-> Keyword(At(v, "operation")), schema |-> Decoded(At(v, "schema")),
        relation |-> Decoded(At(v, "relation")),
        columns_written |-> Columns(At(v, "columns_written")),
        predicate |-> Decoded(At(v, "predicate"))]

VectorOf(v) ==
  [name |-> Decoded(At(v, "name")), statement |-> Decoded(At(v, "statement")),
   verdict |-> Keyword(At(v, "verdict")), scope |-> ScopeOf(At(v, "scope")),
   because |-> Decoded(At(v, "because"))]

\* The envelope: both fields there, and one document in the file.
DecodesCorpus(values) ==
  /\ Len(values) = 1
  /\ Is(values[1], "object")
  /\ Present(values[1]) \subseteq CorpusFields
  /\ Is(At(values[1], "subset_version"), "num")
  /\ Is(At(values[1], "vectors"), "array")

ExactVersion(n) == n \in 0..MaxExact

ValidVectors(vectors) ==
  /\ \A i \in DOMAIN vectors : DecodesVector(vectors[i]) /\ ValidVector(vectors[i])
  /\ \A i, j \in DOMAIN vectors :
       i # j => Decoded(At(vectors[i], "name")) # Decoded(At(vectors[j], "name"))

\* All that Load refuses a file for.
Loads(values) ==
  LET tokens == FlattenSeq([i \in DOMAIN values |-> Tokens(values[i])])
      text == FlattenSeq([i \in DOMAIN tokens |-> Spelled(tokens[i])])
  IN /\ ValidUTF8(text)
     /\ CheckEscapes(text)
     /\ CheckKeys(tokens)
     /\ DecodesCorpus(values)
     /\ ExactVersion(At(values[1], "subset_version").num)
     /\ ValidVectors(At(values[1], "vectors").array)

\* Mutation: a corpus without vectors holds nil for them.
CorpusOfNil(v) ==
  [subset_version |-> At(v, "subset_version").num,
   vectors |-> LET vectors == At(v, "vectors").array IN
               IF vectors = <<>> THEN None ELSE [i \in DOMAIN vectors |-> VectorOf(vectors[i])]]

\* The corpus that is returned, its vectors never nil.
CorpusOf(v) ==
  [subset_version |-> At(v, "subset_version").num,
   vectors |-> LET vectors == At(v, "vectors").array IN
               [i \in DOMAIN vectors |-> VectorOf(vectors[i])]]

-----------------------------------------------------------------------------
(* json.Marshal of a corpus: omitempty leaves out what is empty.           *)

Unless(empty, key, v) == IF empty THEN <<>> ELSE <<Member(key, v)>>

MarshalScope(s) ==
  Object(<<Member("operation", Str(<<s.operation>>)), Member("schema", Str(s.schema)),
           Member("relation", Str(s.relation))>>
         \o Unless(s.columns_written = <<>>, "columns_written",
                   Array([i \in DOMAIN s.columns_written |-> Str(s.columns_written[i])]))
         \o Unless(s.predicate = <<>>, "predicate", Str(s.predicate)))

MarshalVector(v) ==
  Object(<<Member("name", Str(v.name)), Member("statement", Str(v.statement)),
           Member("verdict", Str(<<v.verdict>>))>>
         \o (IF v.scope = None THEN <<>> ELSE <<Member("scope", MarshalScope(v.scope))>>)
         \o Unless(v.because = <<>>, "because", Str(v.because)))

Marshal(c) ==
  Object(<<Member("subset_version", Num(c.subset_version)),
           Member("vectors", IF c.vectors = None THEN Null
                             ELSE Array([i \in DOMAIN c.vectors |-> MarshalVector(c.vectors[i])]))>>)

-----------------------------------------------------------------------------
(* Steps.                                                                  *)

\* What one edit makes of a value: something in it dropped, added, respelled,
\* repeated or overwritten.
Edited(v) ==
  LET edited[w \in Values] ==
        CASE Is(w, "object") ->
               {Object(RemoveAt(w.object, i)) : i \in DOMAIN w.object}
               \cup {Object([w.object EXCEPT ![i].key = k]) : i \in DOMAIN w.object, k \in NewKeys}
               \cup {Object(Append(w.object, Member(k, Str(s)))) : k \in NewKeys, s \in Texts}
               \cup UNION {{Object([w.object EXCEPT ![i].value = x])
                              : x \in edited[w.object[i].value]} : i \in DOMAIN w.object}
          [] Is(w, "array") ->
               {Array(RemoveAt(w.array, i)) : i \in DOMAIN w.array}
               \cup {Array(Append(w.array, w.array[i])) : i \in DOMAIN w.array}
               \cup UNION {{Array([w.array EXCEPT ![i] = x]) : x \in edited[w.array[i]]}
                           : i \in DOMAIN w.array}
          [] Is(w, "str") -> {Str(s) : s \in Texts} \cup {Null}
          [] Is(w, "num") -> {Num(n) : n \in Versions} \cup {Null}
          [] OTHER -> {Array(<<>>)}
  IN {w \in edited[v] : w \in Values}

Init == /\ file \in Templates
        /\ edits = 0
        /\ verdict = None
        /\ corpus = None
        /\ saved = FALSE

Edit ==
  /\ verdict = None /\ ~saved
  /\ edits < MaxEdits
  /\ edits' = edits + 1
  /\ \/ \E v \in Edited(file[1]) : file' = <<v>> \o Tail(file)
     \/ file' = Append(file, Null)
  /\ UNCHANGED <<verdict, corpus, saved>>

Load ==
  /\ verdict = None
  /\ IF Loads(file) THEN verdict' = "accepted" /\ corpus' = CorpusOf(file[1])
                    ELSE verdict' = "refused" /\ UNCHANGED corpus
  /\ UNCHANGED <<file, edits, saved>>

\* The loaded corpus is marshalled.
Save ==
  /\ verdict = "accepted" /\ ~saved
  /\ file' = <<Marshal(corpus)>>
  /\ saved' = TRUE
  /\ verdict' = None
  /\ UNCHANGED <<edits, corpus>>

Next == Edit \/ Load \/ Save

Spec == Init /\ [][Next]_vars

-----------------------------------------------------------------------------
(* The readers of the file.                                                *)

\* Which of two equal keys, or of two documents, one reads; whether keys are
\* matched in any case; whether what is no character is kept; whether numbers
\* are doubles.
Readers == [pick : {"first", "last"}, folds : BOOLEAN, replaces : BOOLEAN, doubles : BOOLEAN]

PickOf(r, places) ==
  CHOOSE i \in places :
    \A j \in places : IF r.pick = "first" THEN i <= j ELSE j <= i

FieldOf(r, key) == IF r.folds /\ key \in DOMAIN FoldsTo THEN FoldsTo[key] ELSE key

EscapeAt(s, i, digits) == i \in DOMAIN s /\ StartsEscape(s, i) /\ Unicode(s, i, digits)

\* The digits of an escape, at i, that has no partner.
Lone(s, i) ==
  \/ s[i] = "BAD"
  \/ i > 2 /\ EscapeAt(s, i - 2, "HI") /\ ~EscapeAt(s, i + 1, "LO")
  \/ i > 2 /\ EscapeAt(s, i - 2, "LO") /\ (i <= 5 \/ ~EscapeAt(s, i - 5, "HI"))

\* The members that r takes for field f.
Places(r, v, f) == {i \in DOMAIN v.object : FieldOf(r, v.object[i].key) = f}

\* What reader r makes of a value.
Read(r, v) ==
  LET read[w \in Values] ==
        CASE Is(w, "object") ->
               Object([f \in {FieldOf(r, key) : key \in Present(w)} |->
                         read[w.object[PickOf(r, Places(r, w, f))].value]])
          [] Is(w, "array") -> Array([i \in DOMAIN w.array |-> read[w.array[i]]])
          [] Is(w, "str") ->
               Str([i \in DOMAIN w.str |->
                      IF r.replaces /\ Lone(w.str, i) THEN "replaced" ELSE w.str[i]])
          [] Is(w, "num") ->
               Num(IF r.doubles /\ w.num > MaxExact + 1 THEN 2 * (w.num \div 2) ELSE w.num)
          [] OTHER -> w
  IN read[v]

ReadFile(r, values) == Read(r, values[PickOf(r, DOMAIN values)])

-----------------------------------------------------------------------------
(* Properties.                                                             *)

Accepted == verdict = "accepted"

Scopes == [operation : Operations, schema : Spellings, relation : Spellings,
           columns_written : Seq(Spellings), predicate : Spellings]

Vectors == [name : Spellings, statement : Spellings, verdict : Verdicts,
            scope : Scopes \cup {None}, because : Spellings]

Corpora == [subset_version : 0..MaxExact, vectors : Seq(Vectors)]

\* Every variable has its type; in particular a loaded corpus holds no verdict
\* and no operation that nobody defined, and what is written back is JSON.
TypeOK ==
  /\ file \in Seq(Values) \ {<<>>}
  /\ edits \in 0..MaxEdits
  /\ verdict \in {None, "accepted", "refused"}
  /\ saved \in BOOLEAN
  /\ corpus \in Corpora \cup {None}
  /\ Accepted => corpus # None

\* The file is normative and language-neutral: one that loads says the same to
\* every reader, whichever of two keys it takes, however it matches a key's
\* case, whatever it does with half a surrogate and whatever its numbers are.
ReadersAgree ==
  Accepted => \A r, q \in Readers : ReadFile(r, file) = ReadFile(q, file)

Strict == [pick |-> "first", folds |-> FALSE, replaces |-> FALSE, doubles |-> FALSE]

\* A loaded corpus says what its file says: nothing that an author wrote, not
\* even an empty field or a null, was dropped without a word.
NothingIsDropped ==
  Accepted => ReadFile(Strict, file) = Read(Strict, Marshal(corpus))

\* A corpus that was loaded and written back loads again, as the same corpus.
RoundTrips ==
  [][saved /\ verdict = None /\ verdict' # None =>
       verdict' = "accepted" /\ corpus' = CorpusOf(file[1])
         /\ corpus' = corpus]_vars

-----------------------------------------------------------------------------
ASSUME ConformanceAssumption ==
  /\ MaxEdits \in Nat
  /\ MaxExact \in Nat
  /\ Nesting \in Nat /\ Nesting >= 5
  /\ Fields \cup NewKeys \subseteq Keys
  /\ "\\" \notin Keys  \* a key without escapes is one symbol
  /\ Operations \cup Verdicts \subseteq Symbols
  /\ Templates \subseteq Seq(Values) \ {<<>>}
  /\ DOMAIN FoldsTo \cap Fields = {}
  /\ None \notin {"accepted", "refused"} \cup Scopes \cup Seq(Vectors) \cup Corpora
=============================================================================
