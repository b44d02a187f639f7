--------------------------- MODULE MigrationLoader ---------------------------
(***************************************************************************)
(* How the migrations a binary embeds are read: their order is taken from  *)
(* the names of the files, and a file with a statement that PostgreSQL     *)
(* would refuse inside a transaction is refused here, when the program is  *)
(* built and tested, and not half-way through a production migration.  The *)
(* developers write files fragment by fragment; what PostgreSQL would read *)
(* in a file is the reference the hand-written lexer is compared with.     *)
(*                                                                         *)
(* A body is a sequence of symbols: a character that means something to a  *)
(* lexer, or a word.  `a` stands for any other identifier.                 *)
(***************************************************************************)
EXTENDS Integers, Sequences, FiniteSets, Functions

CONSTANTS Fragments,  \* what a developer may write next: sequences of symbols
          Names,      \* the file names
          MaxFiles,   \* how many files the directory has
          Room,       \* Room[name]: how many fragments that file has, alone there
          None

Blanks == {"sp", "nl", "cr"}
Words == {"CREATE", "DATABASE", "REINDEX", "a"}
Quotes == {"'", "\""}

\* What may follow a letter inside an identifier.
Identifier == Words \cup {"$"}

VARIABLES bodies,   \* bodies[name]: the body of the file, None if there is none
          newest,   \* the file being written
          written,  \* fragments written so far
          verdict,  \* of loadMigrations: None before it has run
          loaded    \* the migrations it returned

vars == <<bodies, newest, written, verdict, loaded>>

Files == {name \in Names : bodies[name] # None}

Init == /\ bodies = [name \in Names |-> None]
        /\ newest = None
        /\ written = 0
        /\ verdict = None
        /\ loaded = <<>>

\* strings.HasPrefix of what is left of s at i.
OccursAt(s, part, i) ==
  /\ 1 <= i /\ i + Len(part) - 1 <= Len(s)
  /\ \A k \in 1..Len(part) : s[i + k - 1] = part[k]

\* strings.Index: where `part` first occurs in s at or after i, or 0.
IndexFrom(s, part, i) ==
  LET places == {j \in i..Len(s) : OccursAt(s, part, j)}
  IN IF places = {} THEN 0 ELSE CHOOSE j \in places : \A k \in places : j <= k

-----------------------------------------------------------------------------
(* stripSQLComments.  A loop over s is the function that gives its state   *)
(* after every turn; Len(s) turns are enough, as each reads a symbol.      *)

\* The $tag$ that opens at i, or <<>>.
DollarTag(s, i) ==
  LET close == IndexFrom(s, <<"$">>, i + 1) IN
  IF s[i] = "$" /\ close # 0 /\ \A j \in (i + 1)..(close - 1) : s[j] \in Words
  THEN SubSeq(s, i, close) ELSE <<>>

\* Inside a block comment at i, the given number of comments deep.
BlockTurn(s, b) ==
  CASE b.depth = 0 \/ b.i > Len(s) -> b
    [] b.depth > 0 /\ OccursAt(s, <<"/", "*">>, b.i) -> [i |-> b.i + 2, depth |-> b.depth + 1]
    [] b.depth > 0 /\ OccursAt(s, <<"*", "/">>, b.i) -> [i |-> b.i + 2, depth |-> b.depth - 1]
    [] OTHER -> [i |-> b.i + 1, depth |-> b.depth]

BlockTurns(s, i) ==
  LET turn[k \in 0..Len(s)] ==
        IF k = 0 THEN [i |-> i, depth |-> 1] ELSE BlockTurn(s, turn[k - 1])
  IN turn

\* Where a block comment has ended whose inside begins at i.
AfterBlock(s, i) == BlockTurns(s, i)[Len(s)].i

\* Inside a literal or quoted identifier, which is over at depth 0; a doubled
\* quote does not end it.
QuotedTurn(s, q, b) ==
  CASE b.depth = 0 \/ b.i > Len(s) -> b
    [] b.depth > 0 /\ OccursAt(s, <<q, q>>, b.i) -> [i |-> b.i + 2, depth |-> 1]
    [] OTHER -> [i |-> b.i + 1, depth |-> IF s[b.i] = q THEN 0 ELSE 1]

QuotedTurns(s, q, i) ==
  LET turn[k \in 0..Len(s)] ==
        IF k = 0 THEN [i |-> i, depth |-> 1] ELSE QuotedTurn(s, q, turn[k - 1])
  IN turn

\* Where the literal or quoted identifier has ended whose inside begins at i.
AfterQuoted(s, q, i) == QuotedTurns(s, q, i)[Len(s)].i

\* One turn, at i with `out` written: comments and dollar-quoted text become a
\* blank, literals and quoted identifiers are copied as they are.
StripTurn(s, b) ==
  LET i == b.i
      newline == IndexFrom(s, <<"nl">>, i)
      tag == DollarTag(s, i)
      close == IndexFrom(s, tag, i + Len(tag))
      quoted == AfterQuoted(s, s[i], i + 1)
      end == Len(s) + 1
      upTo(j, piece) == [i |-> j, out |-> b.out \o piece]
  IN CASE i > Len(s) -> b
       [] OccursAt(s, <<"-", "-">>, i) ->
            IF newline = 0 THEN upTo(end, <<>>) ELSE upTo(newline + 1, <<"nl">>)
       [] OccursAt(s, <<"/", "*">>, i) -> upTo(AfterBlock(s, i + 2), <<"sp">>)
       [] i <= Len(s) /\ s[i] \in Quotes -> upTo(quoted, SubSeq(s, i, quoted - 1))
       [] i <= Len(s) /\ tag # <<>> ->
            IF close = 0 THEN upTo(end, <<"sp">>) ELSE upTo(close + Len(tag), <<"sp">>)
       [] OTHER -> upTo(i + 1, <<s[i]>>)

StripTurns(s) ==
  LET turn[k \in 0..Len(s)] ==
        IF k = 0 THEN [i |-> 1, out |-> <<>>] ELSE StripTurn(s, turn[k - 1])
  IN turn

StripSQLComments(s) == StripTurns(s)[Len(s)].out

-----------------------------------------------------------------------------
(* rejectNonTransactional.                                                 *)

\* What the fields among the first k symbols of s are, joined by one blank.
CollapseTurn(s, k, out) ==
  CASE s[k] \in Blanks -> out
    [] s[k] \notin Blanks /\ out # <<>> /\ s[k - 1] \in Blanks -> out \o <<"sp", s[k]>>
    [] OTHER -> Append(out, s[k])

CollapseTurns(s) ==
  LET turn[k \in 0..Len(s)] == IF k = 0 THEN <<>> ELSE CollapseTurn(s, k, turn[k - 1])
  IN turn

\* Runs of blanks become one; those at the ends go.
CollapseSpace(s) == CollapseTurns(s)[Len(s)]

Phrases == {<<"CREATE", "sp", "DATABASE">>}

\* The phrase, with no identifier character right before or after it.
ContainsPhrase(s, phrase) ==
  \E i \in 1..Len(s) :
    /\ OccursAt(s, phrase, i)
    /\ i > 1 => s[i - 1] \notin Identifier
    /\ i + Len(phrase) <= Len(s) => s[i + Len(phrase)] \notin Identifier

\* \bREINDEX\s*(\([^)]*\)\s*)?(DATABASE)\b, where $ is no word character.
ReindexNonTransactional(s) ==
  LET skip(j) == IF j <= Len(s) /\ s[j] = "sp" THEN j + 1 ELSE j
      target(j) == /\ j <= Len(s) /\ s[j] = "DATABASE"
                   /\ j < Len(s) => s[j + 1] \notin Words
  IN \E i \in 1..Len(s) :
       /\ s[i] = "REINDEX"
       /\ i > 1 => s[i - 1] \notin Words
       /\ LET open == skip(i + 1)
              close == IndexFrom(s, <<")">>, open)
          IN \/ target(open)
             \/ open <= Len(s) /\ s[open] = "(" /\ close # 0 /\ target(skip(close + 1))

\* Mutation: the stripped form alone is searched for REINDEX ... written in one
\* piece, without an option list.
RejectNoOptions(body) ==
  \E s \in {CollapseSpace(StripSQLComments(body)), CollapseSpace(body)} :
    \/ ContainsPhrase(s, <<"REINDEX", "sp", "DATABASE">>)
    \/ \E phrase \in Phrases : ContainsPhrase(s, phrase)

\* Both the stripped and the raw form are searched.
RejectNonTransactional(body) ==
  \E s \in {CollapseSpace(StripSQLComments(body)), CollapseSpace(body)} :
    \/ ReindexNonTransactional(s)
    \/ \E phrase \in Phrases : ContainsPhrase(s, phrase)

-----------------------------------------------------------------------------
(* loadMigrationsFrom.                                                     *)

\* NNNN_slug.sql: a suffix, an underscore, and what Atoi makes of the prefix.
WellNamed(name) == name.sql /\ name.slug /\ name.atoi \in Nat \ {0}

Loadable == \A name \in Files : WellNamed(name) /\ ~RejectNonTransactional(bodies[name])

Migration(name) == [number |-> name.atoi, name |-> name]

\* The files sorted by number; sort.Slice may order equal ones either way.
Sortings ==
  {[i \in 1..Cardinality(Files) |-> Migration(order[i])] :
     order \in {f \in Bijection(1..Cardinality(Files), Files) :
                  \A i, j \in 1..Cardinality(Files) : i < j => f[i].atoi <= f[j].atoi}}

\* Mutation: the numbers may repeat.
ContiguousOrRepeated(out) ==
  \A i \in DOMAIN out : out[i].number \in {i, i - 1} \ {0}

\* A number used twice is refused, and so is a gap: 1, 2, 3, ...
Contiguous(out) == \A i \in DOMAIN out : out[i].number = i

\* Mutation: a gap is refused, but what was read so far is returned.
LoadMigrationsPartly ==
  /\ verdict = None
  /\ \/ /\ Loadable
        /\ \E out \in Sortings :
             /\ verdict' = IF Contiguous(out) THEN "accepted" ELSE "refused"
             /\ loaded' = out
     \/ /\ ~Loadable
        /\ verdict' = "refused" /\ UNCHANGED loaded
  /\ UNCHANGED <<bodies, newest, written>>

\* Any bad file refuses the whole set.
LoadMigrations ==
  /\ verdict = None
  /\ \/ /\ Loadable
        /\ \E out \in Sortings : Contiguous(out) /\ loaded' = out
        /\ verdict' = "accepted"
     \/ /\ Loadable => \E out \in Sortings : ~Contiguous(out)
        /\ verdict' = "refused" /\ UNCHANGED loaded
  /\ UNCHANGED <<bodies, newest, written>>

-----------------------------------------------------------------------------
(* The developers.                                                         *)

AddFile(name) ==
  /\ verdict = None
  /\ bodies[name] = None
  /\ Cardinality(Files) < MaxFiles
  /\ written <= 1
  /\ bodies' = [bodies EXCEPT ![name] = <<>>]
  /\ newest' = name
  /\ UNCHANGED <<written, verdict, loaded>>

Write(fragment) ==
  /\ verdict = None
  /\ newest # None
  /\ written < IF Cardinality(Files) = 1 THEN Room[newest] ELSE 1
  /\ bodies' = [bodies EXCEPT ![newest] = @ \o fragment]
  /\ written' = written + 1
  /\ UNCHANGED <<newest, verdict, loaded>>

Next == \/ \E name \in Names : AddFile(name)
        \/ \E fragment \in Fragments : Write(fragment)
        \/ LoadMigrations

Spec == Init /\ [][Next]_vars

-----------------------------------------------------------------------------
(* What PostgreSQL reads in a body: one symbol at a time, with a state.    *)

\* text, a line or block comment, a quoted piece, a dollar quote or its tag, or
\* the rest of a line whose comment a carriage return has ended; the symbols held
\* back; the tokens seen; whether the body is plain: without a $ that continues
\* an identifier, a $ that opens no dollar quote, and anything but blanks between
\* the carriage return that ended a line comment and the end of that line.
LexerStart == [mode |-> "text", depth |-> 0, quote |-> None, held |-> <<>>,
               tokens |-> <<>>, plain |-> TRUE]

\* Whatever was held back in text is a token: a word or a symbol.
Flushed(l) == [l EXCEPT !.held = <<>>,
                        !.tokens = IF l.held = <<>> THEN @ ELSE Append(@, l.held)]

\* An identifier is held back, whose end is not yet seen.
InIdentifier(l) == l.held # <<>> /\ l.held[Len(l.held)] \in Identifier

InText(l, c) ==
  CASE l.held = <<"-">> /\ c = "-" -> [l EXCEPT !.mode = "line", !.held = <<>>]
    [] l.held = <<"/">> /\ c = "*" ->
         [l EXCEPT !.mode = "block", !.depth = 1, !.held = <<>>]
    [] InIdentifier(l) /\ c \in Identifier ->
         [l EXCEPT !.held = Append(@, c), !.plain = @ /\ c # "$"]
    [] c \in Blanks -> Flushed(l)
    [] c \in Quotes -> [Flushed(l) EXCEPT !.mode = "quoted", !.quote = c, !.held = <<c>>]
    [] c = "$" /\ ~InIdentifier(l) -> [Flushed(l) EXCEPT !.mode = "tag", !.held = <<"$">>]
    [] OTHER -> [Flushed(l) EXCEPT !.held = <<c>>]

\* A carriage return ends a line comment as a newline does.
InLine(l, c) ==
  CASE c = "nl" -> [l EXCEPT !.mode = "text"]
    [] c = "cr" -> [l EXCEPT !.mode = "return"]
    [] OTHER -> l

\* On the line of a comment that is over.
InReturn(l, c) ==
  CASE c = "nl" -> [l EXCEPT !.mode = "text"]
    [] c \in Blanks \ {"nl"} -> l
    [] OTHER -> InText([l EXCEPT !.mode = "text", !.plain = FALSE], c)

InBlock(l, c) ==
  CASE l.held = <<"/">> /\ c = "*" -> [l EXCEPT !.depth = @ + 1, !.held = <<>>]
    [] l.held = <<"*">> /\ c = "/" ->
         [l EXCEPT !.depth = @ - 1, !.held = <<>>,
                   !.mode = IF l.depth = 1 THEN "text" ELSE "block"]
    [] OTHER -> [l EXCEPT !.held = <<c>>]

\* A doubled quote closes the piece and opens the next one.
InQuoted(l, c) ==
  IF c # l.quote THEN [l EXCEPT !.held = Append(@, c)]
  ELSE [l EXCEPT !.mode = "text", !.held = <<>>, !.tokens = Append(@, Append(l.held, c))]

InTag(l, c) ==
  CASE c = "$"  -> [l EXCEPT !.mode = "dollar", !.quote = Append(l.held, c), !.held = <<>>]
    [] c \in Words -> [l EXCEPT !.held = Append(@, c)]
    [] OTHER -> [l EXCEPT !.mode = "text", !.held = <<>>, !.plain = FALSE]

\* What is inside a dollar quote is let go: its token is the tag.
InDollar(l, c) ==
  LET inside == Append(l.held, c) IN
  IF OccursAt(inside, l.quote, Len(inside) - Len(l.quote) + 1)
  THEN [l EXCEPT !.mode = "text", !.held = <<>>, !.tokens = Append(@, l.quote)]
  ELSE [l EXCEPT !.held = inside]

LexTurn(l, c) ==
  CASE l.mode = "text"   -> InText(l, c)
    [] l.mode = "line"   -> InLine(l, c)
    [] l.mode = "return" -> InReturn(l, c)
    [] l.mode = "block"  -> InBlock(l, c)
    [] l.mode = "quoted" -> InQuoted(l, c)
    [] l.mode = "tag"    -> InTag(l, c)
    [] l.mode = "dollar" -> InDollar(l, c)

LexTurns(s) ==
  LET turn[k \in 0..Len(s)] == IF k = 0 THEN LexerStart ELSE LexTurn(turn[k - 1], s[k])
  IN turn

Lexed(body) ==
  LET end == LexTurns(body)[Len(body)]
  IN IF end.mode = "text" THEN Flushed(end) ELSE end

\* CREATE DATABASE, or REINDEX DATABASE with or without an option list.  The
\* list may hold anything but a closing parenthesis, quoted ones included.
NonTransactional(tokens) ==
  LET is(i, word) == i <= Len(tokens) /\ tokens[i] = <<word>> IN
  \E i \in 1..Len(tokens) :
    \/ is(i, "CREATE") /\ is(i + 1, "DATABASE")
    \/ is(i, "REINDEX") /\ is(i + 1, "DATABASE")
    \/ /\ is(i, "REINDEX") /\ is(i + 1, "(")
       /\ \E j \in (i + 2)..Len(tokens) :
            /\ is(j, ")") /\ is(j + 1, "DATABASE")
            /\ \A k \in (i + 2)..(j - 1) : ")" \notin Range(tokens[k])

-----------------------------------------------------------------------------
(* Properties.                                                             *)

\* The symbols that bodies are made of.
Symbols == UNION {Range(f) : f \in Fragments}

\* Every variable has its type, a file that is being written is there, and a
\* set that was refused has no migrations.
TypeOK ==
  /\ bodies \in [Names -> Seq(Symbols) \cup {None}]
  /\ newest \in Files \cup {None}
  /\ written \in Nat
  /\ verdict \in {None, "accepted", "refused"}
  /\ loaded \in Seq([number : Nat \ {0}, name : Names])
  /\ verdict # "accepted" => loaded = <<>>

\* No migration that loads holds a statement PostgreSQL refuses in a
\* transaction, however comments, literals and dollar quotes are arranged
\* around it: no plain one.  Of the others, a $ that continues an identifier is a
\* limit of the source (as are escape strings, which are not modelled, and a quoted
\* parenthesis in the option list of a REINDEX); with a $ that opens no dollar
\* quote PostgreSQL's parser refuses the whole body, so that none of it runs; and
\* text after a carriage return that ended a comment does load and run.
LoadedRunsInTransaction ==
  verdict = "accepted" => \A name \in Files :
    LET lexed == Lexed(bodies[name])
    IN lexed.plain => ~NonTransactional(lexed.tokens)


\* The list that loads holds every file of the directory in the place of its
\* number and nothing else, in whatever order the directory was listed and
\* equal numbers were sorted: what Compare, which matches a binary with the
\* rows of schema_migrations place by place, relies on.
LoadedByNumber ==
  verdict = "accepted" =>
    /\ DOMAIN loaded = 1..Cardinality(Files)
    /\ \A name \in Files : /\ name.atoi \in DOMAIN loaded
                           /\ loaded[name.atoi].name = name

-----------------------------------------------------------------------------
ASSUME LoaderAssumption ==
  /\ MaxFiles \in Nat
  /\ Room \in [Names -> Nat]
  /\ IsFiniteSet(Names)
  /\ \A f \in Fragments : f \in Seq(Symbols)
  /\ None \notin Names
  /\ None \notin Seq(Symbols)
  /\ None \notin {"accepted", "refused"}
=============================================================================
