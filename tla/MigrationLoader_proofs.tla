------------------------ MODULE MigrationLoader_proofs ------------------------
(***************************************************************************)
(* What is proved of the loader, for all fragments and names: every        *)
(* variable has its type, the list that loads is the directory by number,  *)
(* and no plain body that loads holds a statement PostgreSQL would refuse  *)
(* in a transaction.                                                       *)
(***************************************************************************)
EXTENDS MigrationLoader, Induction, SequenceTheorems

-----------------------------------------------------------------------------
(* Loops: a recursive function over the number of turns is what it says.   *)

\* N turns from x: turn k takes a state in S to F[k] of it.
Runs(N, S, x, F) ==
  \E f \in [0..N -> S] : f[0] = x /\ \A k \in 1..N : f[k] = F[k][f[k - 1]]

\* Turns that stay in S can be taken one after the other.
LEMMA Loop ==
  ASSUME NEW N \in Nat, NEW S, NEW x \in S, NEW F \in [1..N -> [S -> S]]
  PROVE  Runs(N, S, x, F)
<1> DEFINE T == {n \in 0..N : \E f \in [0..n -> S] :
                                f[0] = x /\ \A k \in 1..n : f[k] = F[k][f[k - 1]]}
<1>1. 0 \in T
  <2>1. [k \in 0..0 |-> x] \in [0..0 -> S] /\ [k \in 0..0 |-> x][0] = x
    OBVIOUS
  <2>2. ~ \E k \in 1..0 : TRUE
    OBVIOUS
  <2>3. \E f \in [0..0 -> S] : f[0] = x /\ \A k \in 1..0 : f[k] = F[k][f[k - 1]]
    BY <2>1, <2>2, Zenon
  <2> QED
    BY <2>3
<1>2. ASSUME NEW n \in 1..N, n - 1 \in T
      PROVE  n \in T
  <2>1. PICK f \in [0..(n - 1) -> S] :
                f[0] = x /\ \A k \in 1..(n - 1) : f[k] = F[k][f[k - 1]]
    BY <1>2
  <2> DEFINE g == [k \in 0..n |-> IF k = n THEN F[n][f[n - 1]] ELSE f[k]]
  <2>2. g \in [0..n -> S] /\ g[0] = x
    BY <2>1
  <2>3. ASSUME NEW k \in 1..n
        PROVE  g[k] = F[k][g[k - 1]]
    BY <2>1, SMTT(60)
  <2> HIDE DEF g
  <2>4. \E h \in [0..n -> S] : h[0] = x /\ \A k \in 1..n : h[k] = F[k][h[k - 1]]
    BY <2>2, <2>3
  <2> QED
    BY <2>4, SMTT(60)
<1>3. T = 0..N
  <2> HIDE DEF T
  <2>1. T \in SUBSET (0..N)
    BY DEF T
  <2> QED
    BY <1>1, <1>2, <2>1, InductUpTo
<1>4. N \in T
  BY <1>3, SMTT(60)
<1> QED
  BY <1>4 DEF Runs

\* What holds at first and is kept by every turn holds after every turn.
LEMMA LoopKeeps ==
  ASSUME NEW N \in Nat, NEW S, NEW g, g[0] \in S,
         \A k \in 1..N : g[k - 1] \in S => g[k] \in S
  PROVE  \A k \in 0..N : g[k] \in S
<1> DEFINE T == {k \in 0..N : g[k] \in S}
<1>1. T \in SUBSET (0..N) /\ 0 \in T /\ \A k \in 1..N : k - 1 \in T => k \in T
  OBVIOUS
<1>2. T = 0..N
  <2> HIDE DEF T
  <2> QED
    BY <1>1, InductUpTo
<1> QED
  BY <1>2

\* The states of the reference lexer.
Modes == {"text", "line", "return", "block", "quoted", "tag", "dollar"}

Lexers(V) ==
  {l \in [mode : Modes, depth : Int, quote : V \cup Seq(V) \cup {None}, held : Seq(V),
          tokens : Seq(Seq(V)), plain : BOOLEAN] : l.mode = "dollar" => l.quote \in Seq(V)}

\* What is held back becomes a token.
LEMMA FlushedFields ==
  ASSUME NEW V, NEW l \in Lexers(V)
  PROVE  /\ Flushed(l) \in Lexers(V)
         /\ Flushed(l).mode = l.mode
         /\ Flushed(l).depth = l.depth
         /\ Flushed(l).quote = l.quote
         /\ Flushed(l).held = <<>>
         /\ l.held = <<>> => Flushed(l).tokens = l.tokens
         /\ l.held # <<>> => Flushed(l).tokens = Append(l.tokens, l.held)
         /\ Flushed(l).plain = l.plain
<1>1. <<>> \in Seq(V) /\ Append(l.tokens, l.held) \in Seq(Seq(V)) /\ l.tokens \in Seq(Seq(V))
  BY DEF Lexers
<1>2. /\ Flushed(l).mode = l.mode
      /\ Flushed(l).depth = l.depth
      /\ Flushed(l).quote = l.quote
      /\ Flushed(l).held = <<>>
      /\ Flushed(l).tokens = IF l.held = <<>> THEN l.tokens ELSE Append(l.tokens, l.held)
      /\ Flushed(l).plain = l.plain
  BY DEF Flushed, Lexers
<1>3. Flushed(l) \in Lexers(V)
  BY <1>1, <1>2 DEF Flushed, Lexers
<1> QED
  BY <1>2, <1>3

\* One turn in text, case by case.
LEMMA TextTurn ==
  ASSUME NEW V, NEW l \in Lexers(V), NEW c \in V, l.mode = "text"
  PROVE  LET n == LexTurn(l, c)
             marker == (l.held = <<"-">> /\ c = "-") \/ (l.held = <<"/">> /\ c = "*")
             flushed == Flushed(l).tokens
         IN /\ l.held = <<"-">> /\ c = "-" =>
                 n.mode = "line" /\ n.held = <<>> /\ n.tokens = l.tokens
            /\ l.held = <<"/">> /\ c = "*" =>
                 n.mode = "block" /\ n.depth = 1 /\ n.held = <<>> /\ n.tokens = l.tokens
            /\ ~marker /\ InIdentifier(l) /\ c \in Identifier =>
                 /\ n.mode = "text" /\ n.held = Append(l.held, c) /\ n.tokens = l.tokens
                 /\ c = "$" => ~n.plain
            /\ c \in Blanks => n.mode = "text" /\ n.held = <<>> /\ n.tokens = flushed
            /\ c \in Quotes => /\ n.mode = "quoted" /\ n.quote = c /\ n.held = <<c>>
                                /\ n.tokens = flushed
            /\ c = "$" /\ ~InIdentifier(l) => /\ n.mode = "tag" /\ n.held = <<"$">>
                                              /\ n.tokens = flushed
            /\ ~marker /\ ~(InIdentifier(l) /\ c \in Identifier)
               /\ c \notin Blanks \cup Quotes \cup {"$"} =>
                 n.mode = "text" /\ n.held = <<c>> /\ n.tokens = flushed
            /\ n.plain => l.plain
            /\ n \in Lexers(V)
<1> DEFINE n == LexTurn(l, c)
           f == Flushed(l)
<1>1. n = InText(l, c)
  BY DEF LexTurn
<1>2. f \in Lexers(V) /\ f.mode = l.mode /\ f.held = <<>> /\ f.plain = l.plain
  BY FlushedFields
<1>3. <<>> \in Seq(V) /\ <<c>> \in Seq(V) /\ Append(l.held, c) \in Seq(V)
  BY DEF Lexers
<1>4. CASE l.held = <<"-">> /\ c = "-"
  <2>1. n = [l EXCEPT !.mode = "line", !.held = <<>>]
    BY <1>1, <1>4 DEF InText, Identifier, Words, Blanks, Quotes
  <2> QED
    BY <1>3, <1>4, <2>1 DEF Lexers, Modes, Blanks, Quotes, Identifier, Words
<1>5. CASE l.held = <<"/">> /\ c = "*"
  <2>1. n = [l EXCEPT !.mode = "block", !.depth = 1, !.held = <<>>]
    BY <1>1, <1>5 DEF InText, Identifier, Words, Blanks, Quotes
  <2> QED
    <3> HIDE DEF n
    <3>1. n.mode = "block" /\ n.depth = 1 /\ n.held = <<>> /\ n.tokens = l.tokens /\ n.plain = l.plain
      BY <2>1 DEF Lexers
    <3>2. n \in Lexers(V)
      <4>1. 1 \in Int
        OBVIOUS
      <4> QED
        BY <1>3, <2>1, <3>1, <4>1 DEF Lexers, Modes
    <3>3. /\ c = "*" /\ l.held # <<"-">>
          /\ c \notin Blanks /\ c \notin Quotes /\ c \notin Identifier /\ c # "$"
      BY <1>5 DEF Blanks, Quotes, Identifier, Words
    <3> QED
      BY <1>5, <3>1, <3>2, <3>3 DEF n
<1> DEFINE marker == (l.held = <<"-">> /\ c = "-") \/ (l.held = <<"/">> /\ c = "*")
<1>6. CASE ~marker /\ InIdentifier(l) /\ c \in Identifier
  <2>1. n = [l EXCEPT !.held = Append(@, c), !.plain = @ /\ c # "$"]
    BY <1>1, <1>6 DEF InText, Identifier, Words, Blanks, Quotes
  <2>2. c \notin Blanks /\ c \notin Quotes
    BY <1>6 DEF Identifier, Words, Blanks, Quotes
  <2>3. n.plain \in BOOLEAN /\ (n.plain => l.plain /\ c # "$")
    BY <2>1 DEF Lexers
  <2>4. n \in Lexers(V) /\ n.mode = "text" /\ n.held = Append(l.held, c) /\ n.tokens = l.tokens
    BY <1>3, <2>1, <2>3 DEF Lexers
  <2> QED
    BY <1>4, <1>5, <1>6, <2>2, <2>3, <2>4
<1>7. CASE c \in Blanks
  <2>1. n = f /\ c \notin Quotes /\ c # "$" /\ c # "-" /\ c # "*" /\ c \notin Identifier
    BY <1>1, <1>7 DEF InText, Blanks, Quotes, Identifier, Words
  <2> QED
    BY <1>2, <1>7, <2>1
<1>8. CASE c \in Quotes
  <2>1. /\ n = [f EXCEPT !.mode = "quoted", !.quote = c, !.held = <<c>>]
        /\ c \notin Blanks /\ c # "$" /\ c # "-" /\ c # "*" /\ c \notin Identifier
    BY <1>1, <1>8 DEF InText, Blanks, Quotes, Identifier, Words
  <2> HIDE DEF f
  <2>2. /\ n.mode = "quoted" /\ n.quote = c /\ n.held = <<c>> /\ n.tokens = f.tokens
        /\ n.plain = f.plain /\ n \in Lexers(V)
    BY <1>2, <1>3, <2>1, ZenonT(60) DEF Lexers, Modes
  <2> QED
    BY <1>2, <1>8, <2>1, <2>2 DEF f
<1>9. CASE c = "$" /\ ~InIdentifier(l)
  <2>1. /\ n = [f EXCEPT !.mode = "tag", !.held = <<"$">>]
        /\ c \notin Blanks /\ c \notin Quotes /\ c # "-" /\ c # "*"
    BY <1>1, <1>9 DEF InText, Blanks, Quotes
  <2> HIDE DEF f
  <2>2. /\ n.mode = "tag" /\ n.held = <<"$">> /\ n.tokens = f.tokens
        /\ n.plain = f.plain /\ n \in Lexers(V)
    BY <1>2, <1>3, <1>9, <2>1 DEF Lexers, Modes
  <2> QED
    BY <1>2, <1>9, <2>1, <2>2 DEF f
<1>10. CASE /\ ~marker /\ ~(InIdentifier(l) /\ c \in Identifier)
            /\ c \notin Blanks \cup Quotes \cup {"$"}
  <2>1. n = [f EXCEPT !.held = <<c>>]
    BY <1>1, <1>10 DEF InText
  <2> HIDE DEF f
  <2>2. /\ n.mode = f.mode /\ n.held = <<c>> /\ n.tokens = f.tokens
        /\ n.plain = f.plain /\ n \in Lexers(V)
    BY <1>2, <1>3, <2>1 DEF Lexers, Modes
  <2> QED
    BY <1>2, <1>10, <2>2 DEF f
<1> QED
  BY <1>4, <1>5, <1>6, <1>7, <1>8, <1>9, <1>10 DEF Identifier

\* In a line comment, or behind one on its line: nothing is read of a plain body,
\* and the end of the line ends it.
Commented == {"line", "return"}

LEMMA LineTurn ==
  ASSUME NEW V, NEW l \in Lexers(V), NEW c \in V, l.mode \in Commented
  PROVE  LET n == LexTurn(l, c)
         IN /\ c # "nl" /\ n.plain =>
                 n.mode \in Commented /\ n.held = l.held /\ n.tokens = l.tokens
            /\ c = "nl" => n.mode = "text" /\ n.held = l.held /\ n.tokens = l.tokens
            /\ n.plain => l.plain
            /\ n \in Lexers(V)
<1> DEFINE n == LexTurn(l, c)
           text == [l EXCEPT !.mode = "text"]
           behind == [l EXCEPT !.mode = "return"]
           broken == [l EXCEPT !.mode = "text", !.plain = FALSE]
<1>1. /\ text \in Lexers(V) /\ text.mode = "text"
      /\ text.held = l.held /\ text.tokens = l.tokens /\ text.plain = l.plain
  BY DEF Lexers, Modes
<1>2. /\ behind \in Lexers(V) /\ behind.mode = "return"
      /\ behind.held = l.held /\ behind.tokens = l.tokens /\ behind.plain = l.plain
  BY DEF Lexers, Modes
<1>3. broken \in Lexers(V) /\ broken.mode = "text" /\ ~broken.plain
  BY DEF Lexers, Modes
<1>4. l.mode \in {"line", "return"}
  BY DEF Commented
<1> HIDE DEF text, behind, broken
<1>5. CASE l.mode = "line"
  <2>1. n = CASE c = "nl" -> text [] c = "cr" -> behind [] OTHER -> l
    BY <1>5 DEF LexTurn, InLine, text, behind
  <2>2. (n = text /\ c = "nl") \/ (n = behind /\ c # "nl") \/ (n = l /\ c # "nl")
    BY <2>1
  <2> HIDE DEF n
  <2> QED
    BY <1>1, <1>2, <1>4, <2>2 DEF Commented, n
<1>6. CASE l.mode = "return"
  <2>1. n = CASE c = "nl" -> text [] c \in Blanks \ {"nl"} -> l [] OTHER -> InText(broken, c)
    BY <1>6 DEF LexTurn, InReturn, text, broken
  <2>2. \/ n = text /\ c = "nl"
        \/ n = l /\ c # "nl"
        \/ n = InText(broken, c) /\ c # "nl"
    BY <2>1
  <2>3. LexTurn(broken, c) = InText(broken, c)
    BY <1>3 DEF LexTurn
  <2>4. InText(broken, c) \in Lexers(V) /\ ~InText(broken, c).plain
    <3> DEFINE t == LexTurn(broken, c)
    <3>1. t \in Lexers(V) /\ (t.plain => broken.plain)
      BY <1>3, TextTurn
    <3> QED
      BY <1>3, <2>3, <3>1
  <2> HIDE DEF n
  <2> QED
    BY <1>1, <1>4, <2>2, <2>4 DEF Commented, n
<1> QED
  BY <1>4, <1>5, <1>6

\* In a block comment: it may nest, end or go on, and no token is read.
LEMMA BlockTurnFields ==
  ASSUME NEW V, NEW l \in Lexers(V), NEW c \in V, l.mode = "block"
  PROVE  LET n == LexTurn(l, c)
         IN /\ l.held = <<"/">> /\ c = "*" =>
                 n.mode = "block" /\ n.depth = l.depth + 1 /\ n.held = <<>>
            /\ l.held = <<"*">> /\ c = "/" =>
                 /\ n.mode = IF l.depth = 1 THEN "text" ELSE "block"
                 /\ n.depth = l.depth - 1 /\ n.held = <<>>
            /\ ~(l.held = <<"/">> /\ c = "*") /\ ~(l.held = <<"*">> /\ c = "/") =>
                 n.mode = "block" /\ n.depth = l.depth /\ n.held = <<c>>
            /\ n.tokens = l.tokens /\ n.plain = l.plain
            /\ n \in Lexers(V)
<1> DEFINE n == LexTurn(l, c)
<1>1. n = InBlock(l, c)
  BY DEF LexTurn
<1>2. <<>> \in Seq(V) /\ <<c>> \in Seq(V) /\ l.depth \in Int
  BY DEF Lexers
<1>3. CASE l.held = <<"/">> /\ c = "*"
  <2>1. n = [l EXCEPT !.depth = @ + 1, !.held = <<>>]
    BY <1>1, <1>3 DEF InBlock
  <2> HIDE DEF n
  <2>2. /\ n.mode = "block" /\ n.depth = l.depth + 1 /\ n.held = <<>>
        /\ n.tokens = l.tokens /\ n.plain = l.plain
    BY <1>3, <2>1 DEF Lexers
  <2>3. l.depth + 1 \in Int
    BY <1>2
  <2>4. n \in Lexers(V)
    BY <1>2, <2>1, <2>2, <2>3 DEF Lexers, Modes
  <2>5. l.held # <<"*">>
    BY <1>3
  <2> QED
    BY <1>3, <2>2, <2>4, <2>5 DEF n
<1>4. CASE l.held = <<"*">> /\ c = "/"
  <2>1. n = [l EXCEPT !.depth = @ - 1, !.held = <<>>,
                      !.mode = IF l.depth = 1 THEN "text" ELSE "block"]
    BY <1>1, <1>4 DEF InBlock
  <2> HIDE DEF n
  <2>2. /\ n.mode = IF l.depth = 1 THEN "text" ELSE "block"
        /\ n.depth = l.depth - 1 /\ n.held = <<>>
        /\ n.tokens = l.tokens /\ n.plain = l.plain
    BY <1>4, <2>1 DEF Lexers
  <2>3. l.depth - 1 \in Int
    BY <1>2
  <2>4. n \in Lexers(V)
    BY <1>2, <2>1, <2>2, <2>3 DEF Lexers, Modes
  <2>5. l.held # <<"/">>
    BY <1>4
  <2> QED
    BY <1>4, <2>2, <2>4, <2>5 DEF n
<1>5. CASE ~(l.held = <<"/">> /\ c = "*") /\ ~(l.held = <<"*">> /\ c = "/")
  BY <1>1, <1>2, <1>5 DEF InBlock, Lexers, Modes
<1> QED
  BY <1>3, <1>4, <1>5

\* In a quoted piece: all of it is one token.
LEMMA QuotedTurnFields ==
  ASSUME NEW V, NEW l \in Lexers(V), NEW c \in V, l.mode = "quoted"
  PROVE  LET n == LexTurn(l, c)
         IN /\ c # l.quote => /\ n.mode = "quoted" /\ n.quote = l.quote
                              /\ n.held = Append(l.held, c) /\ n.tokens = l.tokens
            /\ c = l.quote => /\ n.mode = "text" /\ n.held = <<>>
                              /\ n.tokens = Append(l.tokens, Append(l.held, c))
            /\ n.plain = l.plain
            /\ n \in Lexers(V)
<1> DEFINE n == LexTurn(l, c)
<1>1. n = InQuoted(l, c)
  BY DEF LexTurn
<1>2. /\ <<>> \in Seq(V) /\ Append(l.held, c) \in Seq(V)
      /\ Append(l.tokens, Append(l.held, c)) \in Seq(Seq(V))
  BY DEF Lexers
<1>3. CASE c # l.quote
  BY <1>1, <1>2, <1>3 DEF InQuoted, Lexers, Modes
<1>4. CASE c = l.quote
  BY <1>1, <1>2, <1>4, ZenonT(60) DEF InQuoted, Lexers, Modes
<1> QED
  BY <1>3, <1>4

\* In what may be the tag of a dollar quote: words, up to a $ that closes it.
LEMMA TagTurn ==
  ASSUME NEW V, NEW l \in Lexers(V), NEW c \in V, l.mode = "tag"
  PROVE  LET n == LexTurn(l, c)
         IN /\ c = "$" => /\ n.mode = "dollar" /\ n.quote = Append(l.held, c)
                          /\ n.held = <<>> /\ n.plain = l.plain
            /\ c \in Words => /\ n.mode = "tag" /\ n.held = Append(l.held, c)
                              /\ n.plain = l.plain
            /\ c # "$" /\ c \notin Words => n.plain = FALSE
            /\ n.tokens = l.tokens
            /\ n.plain => l.plain
            /\ n \in Lexers(V)
<1> DEFINE n == LexTurn(l, c)
<1>1. n = InTag(l, c)
  BY DEF LexTurn
<1>2. <<>> \in Seq(V) /\ Append(l.held, c) \in Seq(V)
  BY DEF Lexers
<1>3. CASE c = "$"
  BY <1>1, <1>2, <1>3, ZenonT(60) DEF InTag, Lexers, Modes, Words
<1>4. CASE c \in Words
  BY <1>1, <1>2, <1>4 DEF InTag, Lexers, Modes, Words
<1>5. CASE c # "$" /\ c \notin Words
  BY <1>1, <1>2, <1>5, ZenonT(60) DEF InTag, Lexers, Modes
<1> QED
  BY <1>3, <1>4, <1>5

\* In a dollar quote: it ends where the tag comes again.
LEMMA DollarTurn ==
  ASSUME NEW V, NEW l \in Lexers(V), NEW c \in V, l.mode = "dollar"
  PROVE  LET n == LexTurn(l, c)
             inside == Append(l.held, c)
             ends == OccursAt(inside, l.quote, Len(inside) - Len(l.quote) + 1)
         IN /\ ends => /\ n.mode = "text" /\ n.held = <<>>
                       /\ n.tokens = Append(l.tokens, l.quote)
            /\ ~ends => /\ n.mode = "dollar" /\ n.quote = l.quote
                        /\ n.held = inside /\ n.tokens = l.tokens
            /\ n.plain = l.plain
            /\ n \in Lexers(V)
<1> DEFINE n == LexTurn(l, c)
           inside == Append(l.held, c)
           ends == OccursAt(inside, l.quote, Len(inside) - Len(l.quote) + 1)
<1>1. n = IF ends THEN [l EXCEPT !.mode = "text", !.held = <<>>,
                                 !.tokens = Append(@, l.quote)]
          ELSE [l EXCEPT !.held = inside]
  BY DEF LexTurn, InDollar
<1>2. /\ <<>> \in Seq(V) /\ inside \in Seq(V) /\ l.quote \in Seq(V)
      /\ Append(l.tokens, l.quote) \in Seq(Seq(V))
  BY DEF Lexers
<1> HIDE DEF ends, inside
<1>3. CASE ends
  <2>1. n = [l EXCEPT !.mode = "text", !.held = <<>>, !.tokens = Append(@, l.quote)]
    BY <1>1, <1>3
  <2> HIDE DEF n
  <2>2. /\ n.mode = "text" /\ n.held = <<>> /\ n.tokens = Append(l.tokens, l.quote)
        /\ n.plain = l.plain
    BY <2>1 DEF Lexers
  <2>3. n \in Lexers(V)
    BY <1>2, <2>1 DEF Lexers, Modes
  <2> QED
    BY <1>3, <2>2, <2>3 DEF n, inside, ends
<1>4. CASE ~ends
  <2>1. n = [l EXCEPT !.held = inside]
    BY <1>1, <1>4
  <2> HIDE DEF n
  <2>2. /\ n.mode = "dollar" /\ n.quote = l.quote /\ n.held = inside
        /\ n.tokens = l.tokens /\ n.plain = l.plain
    BY <2>1 DEF Lexers
  <2>3. n \in Lexers(V)
    BY <1>2, <2>1 DEF Lexers, Modes
  <2> QED
    BY <1>4, <2>2, <2>3 DEF n, inside, ends
<1> QED
  BY <1>3, <1>4 DEF inside, ends

\* A turn of the lexer has the lexer's type, and a body that is not plain so far
\* never is.
LEMMA LexTurnTyped ==
  ASSUME NEW V, NEW l \in Lexers(V), NEW c \in V
  PROVE  LexTurn(l, c) \in Lexers(V) /\ (LexTurn(l, c).plain => l.plain)
<1>1. CASE l.mode = "text"
  BY <1>1, TextTurn
<1>2. CASE l.mode \in Commented
  BY <1>2, LineTurn
<1>3. CASE l.mode = "block"
  BY <1>3, BlockTurnFields
<1>4. CASE l.mode = "quoted"
  BY <1>4, QuotedTurnFields
<1>5. CASE l.mode = "tag"
  BY <1>5, TagTurn
<1>6. CASE l.mode = "dollar"
  <2>1. LexTurn(l, c) \in Lexers(V) /\ LexTurn(l, c).plain = l.plain
    BY <1>6, DollarTurn, Zenon
  <2> QED
    BY <2>1
<1>7. l.mode \in Modes
  BY DEF Lexers
<1> QED
  BY <1>1, <1>2, <1>3, <1>4, <1>5, <1>6, <1>7 DEF Modes, Commented

\* The reference lexer takes the symbols one by one.
LEMMA Lexing ==
  ASSUME NEW V, NEW s \in Seq(V)
  PROVE  /\ LexTurns(s)[0] = LexerStart
         /\ \A k \in 1..Len(s) : LexTurns(s)[k] = LexTurn(LexTurns(s)[k - 1], s[k])
         /\ \A k \in 0..Len(s) : LexTurns(s)[k] \in Lexers(V)
<1> DEFINE N == Len(s)
           F == [k \in 1..N |-> [l \in Lexers(V) |-> LexTurn(l, s[k])]]
           Is(f) == f = [k \in 0..N |-> IF k = 0 THEN LexerStart ELSE LexTurn(f[k - 1], s[k])]
<1>1. N \in Nat /\ \A k \in 1..N : s[k] \in V
  OBVIOUS
<1>2. LexerStart \in Lexers(V)
  BY DEF LexerStart, Lexers, Modes
<1>3. F \in [1..N -> [Lexers(V) -> Lexers(V)]]
  BY <1>1, LexTurnTyped
<1>4. PICK f \in [0..N -> Lexers(V)] :
             f[0] = LexerStart /\ \A k \in 1..N : f[k] = F[k][f[k - 1]]
  <2> DEFINE S == Lexers(V)
             x == LexerStart
  <2>1. N \in Nat /\ x \in S /\ F \in [1..N -> [S -> S]]
    BY <1>1, <1>2, <1>3
  <2> HIDE DEF F, N, S, x
  <2>2. Runs(N, S, x, F)
    BY <2>1, Loop
  <2> QED
    BY <2>2 DEF S, x, Runs
<1>5. Is(f)
  <2>1. ASSUME NEW k \in 1..N
        PROVE  f[k] = LexTurn(f[k - 1], s[k])
    <3>1. k - 1 \in 0..N
      BY <1>1
    <3>2. f[k - 1] \in Lexers(V)
      BY <1>4, <3>1
    <3>3. F[k] = [l \in Lexers(V) |-> LexTurn(l, s[k])]
      OBVIOUS
    <3>4. f[k] = F[k][f[k - 1]]
      BY <1>4
    <3> HIDE DEF F
    <3> QED
      BY <3>2, <3>3, <3>4
  <2> QED
    BY <1>1, <1>4, <2>1
<1>6. Is(LexTurns(s))
  BY <1>5, Zenon DEF LexTurns
<1>7. /\ LexTurns(s)[0] = LexerStart
      /\ \A k \in 1..N : LexTurns(s)[k] = LexTurn(LexTurns(s)[k - 1], s[k])
  BY <1>1, <1>6
<1>8. \A k \in 0..N : LexTurns(s)[k] \in Lexers(V)
  <2> DEFINE S == Lexers(V)
             g == LexTurns(s)
  <2>1. N \in Nat /\ g[0] \in S
    BY <1>1, <1>2, <1>7
  <2>2. \A k \in 1..N : g[k - 1] \in S => g[k] \in S
    BY <1>1, <1>7, LexTurnTyped
  <2> HIDE DEF N, S, g
  <2>3. \A k \in 0..N : g[k] \in S
    BY <2>1, <2>2, LoopKeeps
  <2> QED
    BY <2>3 DEF g, S
<1> QED
  BY <1>7, <1>8
\* The beginnings of a plain body are plain.
LEMMA PlainBefore ==
  ASSUME NEW V, NEW s \in Seq(V), LexTurns(s)[Len(s)].plain
  PROVE  \A k \in 0..Len(s) : LexTurns(s)[k].plain
<1> DEFINE L == LexTurns(s)
           N == Len(s)
           T == {m \in 0..N : L[N - m].plain}
<1>1. N \in Nat /\ T \in SUBSET (0..N) /\ 0 \in T
  OBVIOUS
<1>2. ASSUME NEW m \in 1..N, m - 1 \in T
      PROVE  m \in T
  <2>1. N - m \in 0..N /\ N - m + 1 \in 1..N /\ (N - m + 1) - 1 = N - m /\ N - (m - 1) = N - m + 1
    BY <1>1
  <2>2. L[N - m] \in Lexers(V) /\ L[N - m + 1] = LexTurn(L[N - m], s[N - m + 1])
    BY <1>1, <2>1, Lexing
  <2>3. s[N - m + 1] \in V
    BY <2>1
  <2>4. L[N - m + 1].plain
    BY <1>2, <2>1
  <2> HIDE DEF L, N
  <2>5. L[N - m].plain
    BY <2>2, <2>3, <2>4, LexTurnTyped
  <2> QED
    BY <2>5
<1>3. T = 0..N
  <2> HIDE DEF T, N
  <2> QED
    BY <1>1, <1>2, InductUpTo
<1>4. ASSUME NEW k \in 0..N
      PROVE  L[k].plain
  <2>1. N - k \in 0..N /\ N - (N - k) = k
    BY <1>1
  <2>2. N - k \in T
    BY <1>3, <2>1
  <2> QED
    BY <2>1, <2>2
<1> QED
  BY <1>4

-----------------------------------------------------------------------------
(* The loops of stripSQLComments, turn by turn.                            *)

\* What OccursAt says of one symbol and of two.
LEMMA OccursOne ==
  ASSUME NEW V, NEW s \in Seq(V), NEW i \in Int, NEW c
  PROVE  OccursAt(s, <<c>>, i) <=> i \in 1..Len(s) /\ s[i] = c
<1>1. Len(<<c>>) = 1 /\ <<c>>[1] = c /\ i + 1 - 1 = i
  OBVIOUS
<1> HIDE DEF OccursAt
<1>2. OccursAt(s, <<c>>, i) <=> 1 <= i /\ i <= Len(s) /\ \A k \in 1..1 : s[i + k - 1] = <<c>>[k]
  BY <1>1 DEF OccursAt
<1>3. (\A k \in 1..1 : s[i + k - 1] = <<c>>[k]) <=> s[i] = c
  BY <1>1
<1> QED
  BY <1>2, <1>3

\* The same of two symbols.
LEMMA OccursTwo ==
  ASSUME NEW V, NEW s \in Seq(V), NEW i \in Int, NEW c, NEW d
  PROVE  OccursAt(s, <<c, d>>, i) <=> i \in 1..Len(s) /\ i < Len(s) /\ s[i] = c /\ s[i + 1] = d
<1>1. Len(<<c, d>>) = 2 /\ <<c, d>>[1] = c /\ <<c, d>>[2] = d
      /\ i + 1 - 1 = i /\ i + 2 - 1 = i + 1
  OBVIOUS
<1>2. OccursAt(s, <<c, d>>, i) <=> 1 <= i /\ i + 1 <= Len(s) /\ \A k \in 1..2 : s[i + k - 1] = <<c, d>>[k]
  BY <1>1 DEF OccursAt
<1>3. (\A k \in 1..2 : s[i + k - 1] = <<c, d>>[k]) <=> s[i] = c /\ s[i + 1] = d
  BY <1>1
<1> QED
  BY <1>2, <1>3

\* The first occurrence, or none.
LEMMA FirstOccurrence ==
  ASSUME NEW s, NEW part, NEW i \in Nat, Len(s) \in Nat
  PROVE  \/ IndexFrom(s, part, i) = 0 /\ \A j \in i..Len(s) : ~OccursAt(s, part, j)
         \/ /\ IndexFrom(s, part, i) \in i..Len(s)
            /\ OccursAt(s, part, IndexFrom(s, part, i))
            /\ \A j \in i..(IndexFrom(s, part, i) - 1) : ~OccursAt(s, part, j)
<1> DEFINE places == {j \in i..Len(s) : OccursAt(s, part, j)}
           first == CHOOSE j \in places : \A k \in places : j <= k
<1>1. CASE places = {}
  BY <1>1 DEF IndexFrom
<1>2. CASE places # {}
  <2>1. places \in SUBSET Nat
    OBVIOUS
  <2>2. \E j \in places : \A k \in places : j <= k
    <3> HIDE DEF places
    <3> QED
      BY <1>2, <2>1, Least
  <2>3. first \in places /\ \A k \in places : first <= k
    <3> HIDE DEF places
    <3> QED
      BY <2>2
  <2>4. IndexFrom(s, part, i) = first
    BY <1>2 DEF IndexFrom
  <2> HIDE DEF first
  <2>5. first \in i..Len(s) /\ OccursAt(s, part, first)
    BY <2>3
  <2>6. ASSUME NEW j \in i..(first - 1)
        PROVE  ~OccursAt(s, part, j)
    <3>1. j \in i..Len(s) /\ ~ first <= j
      BY <2>5
    <3> QED
      BY <2>3, <3>1
  <2> QED
    BY <2>4, <2>5, <2>6
<1> QED
  BY <1>1, <1>2

\* The places and depths inside a block comment.
Blocks == [i : Nat, depth : Nat]

\* One turn inside a block comment, case by case.
LEMMA BlockTurnCases ==
  ASSUME NEW V, NEW s \in Seq(V), NEW b \in Blocks, b.i > 0
  PROVE  LET n == BlockTurn(s, b)
             opens == b.i < Len(s) /\ s[b.i] = "/" /\ s[b.i + 1] = "*"
             closes == b.i < Len(s) /\ s[b.i] = "*" /\ s[b.i + 1] = "/"
         IN /\ n \in Blocks /\ n.i >= b.i /\ (b.i <= Len(s) + 1 => n.i <= Len(s) + 1)
            /\ b.depth = 0 \/ b.i > Len(s) => n = b
            /\ b.depth > 0 /\ b.i <= Len(s) /\ opens => n.i = b.i + 2 /\ n.depth = b.depth + 1
            /\ b.depth > 0 /\ b.i <= Len(s) /\ closes => n.i = b.i + 2 /\ n.depth = b.depth - 1
            /\ b.depth > 0 /\ b.i <= Len(s) /\ ~opens /\ ~closes =>
                 n.i = b.i + 1 /\ n.depth = b.depth
<1> DEFINE n == BlockTurn(s, b)
           opens == b.i < Len(s) /\ s[b.i] = "/" /\ s[b.i + 1] = "*"
           closes == b.i < Len(s) /\ s[b.i] = "*" /\ s[b.i + 1] = "/"
<1>1. b.i \in Nat /\ b.depth \in Nat /\ Len(s) \in Nat
  BY DEF Blocks
<1>2. /\ OccursAt(s, <<"/", "*">>, b.i) <=> opens
      /\ OccursAt(s, <<"*", "/">>, b.i) <=> closes
      /\ ~(opens /\ closes)
  BY <1>1, OccursTwo
<1> HIDE DEF opens, closes
<1>3. CASE b.depth = 0 \/ b.i > Len(s)
  <2>1. ~(b.depth > 0 /\ OccursAt(s, <<"/", "*">>, b.i))
        /\ ~(b.depth > 0 /\ OccursAt(s, <<"*", "/">>, b.i))
    BY <1>1, <1>2, <1>3 DEF opens, closes
  <2>2. n = b
    BY <1>3, <2>1 DEF BlockTurn
  <2> QED
    BY <1>1, <1>3, <2>2
<1>4. CASE b.depth > 0 /\ b.i <= Len(s) /\ opens
  <2>1. n = [i |-> b.i + 2, depth |-> b.depth + 1]
    BY <1>1, <1>2, <1>4 DEF BlockTurn
  <2>2. b.i + 2 \in Nat /\ b.depth + 1 \in Nat
    BY <1>1, <1>4
  <2>3. n \in Blocks /\ n.i = b.i + 2 /\ n.depth = b.depth + 1
    BY <2>1, <2>2 DEF Blocks
  <2> QED
    BY <1>1, <1>2, <1>4, <2>3 DEF opens, closes
<1>5. CASE b.depth > 0 /\ b.i <= Len(s) /\ closes
  <2>1. n = [i |-> b.i + 2, depth |-> b.depth - 1]
    BY <1>1, <1>2, <1>5 DEF BlockTurn
  <2>2. b.i + 2 \in Nat /\ b.depth - 1 \in Nat
    BY <1>1, <1>5
  <2>3. n \in Blocks /\ n.i = b.i + 2 /\ n.depth = b.depth - 1
    BY <2>1, <2>2 DEF Blocks
  <2> QED
    BY <1>1, <1>2, <1>5, <2>3 DEF opens, closes
<1>6. CASE b.depth > 0 /\ b.i <= Len(s) /\ ~opens /\ ~closes
  <2>1. n = [i |-> b.i + 1, depth |-> b.depth]
    BY <1>1, <1>2, <1>6 DEF BlockTurn
  <2>2. b.i + 1 \in Nat
    BY <1>1
  <2>3. n \in Blocks /\ n.i = b.i + 1 /\ n.depth = b.depth
    BY <1>1, <2>1, <2>2 DEF Blocks
  <2> QED
    BY <1>1, <1>2, <1>6, <2>3 DEF opens, closes
<1> QED
  BY <1>1, <1>3, <1>4, <1>5, <1>6 DEF opens, closes

\* The loop through a block comment takes its turns one after the other.
LEMMA BlockLoop ==
  ASSUME NEW V, NEW s \in Seq(V), NEW p \in 1..(Len(s) + 1)
  PROVE  LET turns == BlockTurns(s, p)
         IN /\ turns[0] = [i |-> p, depth |-> 1]
            /\ \A k \in 1..Len(s) : turns[k] = BlockTurn(s, turns[k - 1])
            /\ \A k \in 0..Len(s) : turns[k] \in Blocks /\ turns[k].i \in p..(Len(s) + 1)
<1> DEFINE N == Len(s)
           S == {b \in Blocks : b.i \in p..(N + 1)}
           x == [i |-> p, depth |-> 1]
           F == [k \in 1..N |-> [b \in S |-> BlockTurn(s, b)]]
           Is(f) == f = [k \in 0..N |-> IF k = 0 THEN x ELSE BlockTurn(s, f[k - 1])]
<1>1. N \in Nat /\ x \in S
  BY DEF Blocks
<1>2. \A b \in S : BlockTurn(s, b) \in S
  <2> SUFFICES ASSUME NEW b \in Blocks, b.i \in p..(N + 1)
               PROVE  BlockTurn(s, b) \in Blocks /\ BlockTurn(s, b).i \in p..(N + 1)
    OBVIOUS
  <2>1. /\ BlockTurn(s, b) \in Blocks /\ BlockTurn(s, b).i >= b.i
        /\ BlockTurn(s, b).i <= N + 1
    BY BlockTurnCases
  <2>2. BlockTurn(s, b).i \in Nat /\ b.i \in Nat
    BY <2>1 DEF Blocks
  <2> QED
    BY <2>1, <2>2
<1>3. F \in [1..N -> [S -> S]]
  BY <1>2
<1>4. PICK f \in [0..N -> S] : f[0] = x /\ \A k \in 1..N : f[k] = F[k][f[k - 1]]
  <2> HIDE DEF F, N, S, x
  <2>1. Runs(N, S, x, F)
    BY <1>1, <1>3, Loop
  <2> QED
    BY <2>1 DEF Runs
<1>5. ASSUME NEW k \in 1..N
      PROVE  f[k] = BlockTurn(s, f[k - 1])
  <2>1. k - 1 \in 0..N
    BY <1>1
  <2>2. f[k - 1] \in S
    BY <1>4, <2>1
  <2>3. F[k] = [b \in S |-> BlockTurn(s, b)] /\ f[k] = F[k][f[k - 1]]
    BY <1>4
  <2> HIDE DEF F, S
  <2> QED
    BY <2>2, <2>3
<1>6. Is(f)
  BY <1>1, <1>4, <1>5
<1>7. Is(BlockTurns(s, p))
  BY <1>6, Zenon DEF BlockTurns
<1> DEFINE g == BlockTurns(s, p)
<1>8. g[0] = x /\ \A k \in 1..N : g[k] = BlockTurn(s, g[k - 1])
  <2> HIDE DEF x
  <2> QED
    BY <1>1, <1>7
<1>9. \A k \in 0..N : g[k] \in S
  <2>1. \A k \in 1..N : g[k - 1] \in S => g[k] \in S
    BY <1>2, <1>8
  <2> HIDE DEF N, S, g
  <2> QED
    BY <1>1, <1>8, <2>1, LoopKeeps
<1> QED
  BY <1>8, <1>9

\* One turn inside a quoted piece, case by case.
LEMMA QuotedTurnCases ==
  ASSUME NEW V, NEW s \in Seq(V), NEW q, NEW b \in Blocks, b.i > 0
  PROVE  LET n == QuotedTurn(s, q, b)
             doubled == b.i < Len(s) /\ s[b.i] = q /\ s[b.i + 1] = q
         IN /\ n \in Blocks /\ n.i >= b.i /\ (b.i <= Len(s) + 1 => n.i <= Len(s) + 1)
            /\ b.depth = 0 \/ b.i > Len(s) => n = b
            /\ b.depth > 0 /\ b.i <= Len(s) /\ doubled => n.i = b.i + 2 /\ n.depth = 1
            /\ b.depth > 0 /\ b.i <= Len(s) /\ ~doubled =>
                 n.i = b.i + 1 /\ n.depth = IF s[b.i] = q THEN 0 ELSE 1
<1> DEFINE n == QuotedTurn(s, q, b)
           doubled == b.i < Len(s) /\ s[b.i] = q /\ s[b.i + 1] = q
<1>1. b.i \in Nat /\ b.depth \in Nat /\ Len(s) \in Nat
  BY DEF Blocks
<1>2. OccursAt(s, <<q, q>>, b.i) <=> doubled
  BY <1>1, OccursTwo
<1> HIDE DEF doubled
<1>3. CASE b.depth = 0 \/ b.i > Len(s)
  <2>1. ~(b.depth > 0 /\ OccursAt(s, <<q, q>>, b.i))
    BY <1>1, <1>2, <1>3 DEF doubled
  <2>2. n = b
    BY <1>3, <2>1 DEF QuotedTurn
  <2> QED
    BY <1>1, <1>3, <2>2
<1>4. CASE b.depth > 0 /\ b.i <= Len(s) /\ doubled
  <2>1. n = [i |-> b.i + 2, depth |-> 1]
    BY <1>1, <1>2, <1>4 DEF QuotedTurn
  <2>2. b.i + 2 \in Nat /\ 1 \in Nat
    BY <1>1
  <2>3. n \in Blocks /\ n.i = b.i + 2 /\ n.depth = 1
    BY <2>1, <2>2 DEF Blocks
  <2> QED
    BY <1>1, <1>4, <2>3 DEF doubled
<1>5. CASE b.depth > 0 /\ b.i <= Len(s) /\ ~doubled
  <2>1. n = [i |-> b.i + 1, depth |-> IF s[b.i] = q THEN 0 ELSE 1]
    BY <1>1, <1>2, <1>5 DEF QuotedTurn
  <2>2. b.i + 1 \in Nat /\ (IF s[b.i] = q THEN 0 ELSE 1) \in Nat
    BY <1>1
  <2>3. n \in Blocks /\ n.i = b.i + 1 /\ n.depth = IF s[b.i] = q THEN 0 ELSE 1
    BY <2>1, <2>2 DEF Blocks
  <2> QED
    BY <1>1, <1>5, <2>3 DEF doubled
<1> QED
  BY <1>1, <1>3, <1>4, <1>5 DEF doubled

\* The loop through a quoted piece takes its turns one after the other.
LEMMA QuotedLoop ==
  ASSUME NEW V, NEW s \in Seq(V), NEW q, NEW p \in 1..(Len(s) + 1)
  PROVE  LET turns == QuotedTurns(s, q, p)
         IN /\ turns[0] = [i |-> p, depth |-> 1]
            /\ \A k \in 1..Len(s) : turns[k] = QuotedTurn(s, q, turns[k - 1])
            /\ \A k \in 0..Len(s) : turns[k] \in Blocks /\ turns[k].i \in p..(Len(s) + 1)
<1> DEFINE N == Len(s)
           S == {b \in Blocks : b.i \in p..(N + 1)}
           x == [i |-> p, depth |-> 1]
           F == [k \in 1..N |-> [b \in S |-> QuotedTurn(s, q, b)]]
           Is(f) == f = [k \in 0..N |-> IF k = 0 THEN x ELSE QuotedTurn(s, q, f[k - 1])]
<1>1. N \in Nat /\ x \in S
  BY DEF Blocks
<1>2. \A b \in S : QuotedTurn(s, q, b) \in S
  <2> SUFFICES ASSUME NEW b \in Blocks, b.i \in p..(N + 1)
               PROVE  QuotedTurn(s, q, b) \in Blocks /\ QuotedTurn(s, q, b).i \in p..(N + 1)
    OBVIOUS
  <2>1. /\ QuotedTurn(s, q, b) \in Blocks /\ QuotedTurn(s, q, b).i >= b.i
        /\ QuotedTurn(s, q, b).i <= N + 1
    BY QuotedTurnCases
  <2>2. QuotedTurn(s, q, b).i \in Nat /\ b.i \in Nat
    BY <2>1 DEF Blocks
  <2> QED
    BY <2>1, <2>2
<1>3. F \in [1..N -> [S -> S]]
  BY <1>2
<1>4. PICK f \in [0..N -> S] : f[0] = x /\ \A k \in 1..N : f[k] = F[k][f[k - 1]]
  <2> HIDE DEF F, N, S, x
  <2>1. Runs(N, S, x, F)
    BY <1>1, <1>3, Loop
  <2> QED
    BY <2>1 DEF Runs
<1>5. ASSUME NEW k \in 1..N
      PROVE  f[k] = QuotedTurn(s, q, f[k - 1])
  <2>1. k - 1 \in 0..N
    BY <1>1
  <2>2. f[k - 1] \in S
    BY <1>4, <2>1
  <2>3. F[k] = [b \in S |-> QuotedTurn(s, q, b)] /\ f[k] = F[k][f[k - 1]]
    BY <1>4
  <2> HIDE DEF F, S
  <2> QED
    BY <2>2, <2>3
<1>6. Is(f)
  BY <1>1, <1>4, <1>5
<1>7. Is(QuotedTurns(s, q, p))
  BY <1>6, Zenon DEF QuotedTurns
<1> DEFINE g == QuotedTurns(s, q, p)
<1>8. g[0] = x /\ \A k \in 1..N : g[k] = QuotedTurn(s, q, g[k - 1])
  <2> HIDE DEF x
  <2> QED
    BY <1>1, <1>7
<1>9. \A k \in 0..N : g[k] \in S
  <2>1. \A k \in 1..N : g[k - 1] \in S => g[k] \in S
    BY <1>2, <1>8
  <2> HIDE DEF N, S, g
  <2> QED
    BY <1>1, <1>8, <2>1, LoopKeeps
<1> QED
  BY <1>8, <1>9

-----------------------------------------------------------------------------
(* Where the tokens of the reference lexer are in what stripSQLComments    *)
(* writes: every symbol that is not a blank belongs to a token, or to what *)
(* is held back, in their order; a token of one symbol has one place; and  *)
(* the identifiers of two tokens do not touch.                             *)

Placed(T, h, out, own) ==
  /\ own \in [1..Len(out) -> 0..(Len(T) + 1)]
  /\ Len(h) <= Len(out)
  /\ \A r \in 1..Len(out) : own[r] = 0 => out[r] \in Blanks
  /\ \A r \in 1..Len(out) : own[r] = Len(T) + 1 <=> r > Len(out) - Len(h)
  /\ \A r \in 1..Len(out) : r > Len(out) - Len(h) => out[r] = h[r - (Len(out) - Len(h))]
  /\ \A r \in 1..Len(out) :
       own[r] \in 1..Len(T) /\ out[r] = ")" => ")" \in Range(T[own[r]])
  /\ \A p, r \in 1..Len(out) : p < r /\ own[p] # 0 /\ own[r] # 0 => own[p] <= own[r]
  /\ \A r \in 1..(Len(out) - 1) :
       out[r] \in Identifier /\ out[r + 1] \in Identifier => own[r] = own[r + 1]
  /\ \A m \in 1..Len(T) : Len(T[m]) = 1 =>
       \E r \in 1..Len(out) : /\ out[r] = T[m][1]
                              /\ \A p \in 1..Len(out) : own[p] = m <=> p = r

PlacedIn(T, h, out) == \E own : Placed(T, h, out, own)

\* A symbol that is read joins what is held back, unless it is part of an
\* identifier that what is held back is not.
LEMMA Grow ==
  ASSUME NEW V, NEW T \in Seq(Seq(V)), NEW h \in Seq(V), NEW out \in Seq(V), NEW c \in V,
         PlacedIn(T, h, out),
         \/ h # <<>>
         \/ out = <<>>
         \/ out[Len(out)] \notin Identifier
         \/ c \notin Identifier
  PROVE  PlacedIn(T, Append(h, c), Append(out, c))
<1>1. PICK own : Placed(T, h, out, own)
  BY DEF PlacedIn
<1> DEFINE N == Len(T)
           n == Len(out)
           k == Len(h)
           out2 == Append(out, c)
           h2 == Append(h, c)
           own2 == [r \in 1..(n + 1) |-> IF r = n + 1 THEN N + 1 ELSE own[r]]
<1>2. /\ N \in Nat /\ n \in Nat /\ k \in Nat /\ k <= n
      /\ Len(out2) = n + 1 /\ out2[n + 1] = c /\ \A r \in 1..n : out2[r] = out[r]
      /\ Len(h2) = k + 1 /\ h2[k + 1] = c /\ \A r \in 1..k : h2[r] = h[r]
  BY <1>1 DEF Placed
<1>3. \A r \in 1..n : own[r] \in 0..(N + 1)
  BY <1>1 DEF Placed
<1>4. /\ own2 \in [1..(n + 1) -> 0..(N + 1)]
      /\ own2[n + 1] = N + 1 /\ \A r \in 1..n : own2[r] = own[r]
  BY <1>2, <1>3
<1>5. \A r \in 1..(n + 1) : r = n + 1 \/ r \in 1..n
  BY <1>2
<1>6. N + 1 # 0 /\ (n + 1) - (k + 1) = n - k
  BY <1>2
<1> HIDE DEF own2, out2, h2
<1>7. /\ \A r \in 1..n : own[r] = 0 => out[r] \in Blanks
      /\ \A r \in 1..n : own[r] = N + 1 <=> r > n - k
      /\ \A r \in 1..n : r > n - k => out[r] = h[r - (n - k)]
      /\ \A r \in 1..n : own[r] \in 1..N /\ out[r] = ")" => ")" \in Range(T[own[r]])
      /\ \A p, r \in 1..n : p < r /\ own[p] # 0 /\ own[r] # 0 => own[p] <= own[r]
      /\ \A r \in 1..(n - 1) :
           out[r] \in Identifier /\ out[r + 1] \in Identifier => own[r] = own[r + 1]
      /\ \A m \in 1..N : Len(T[m]) = 1 =>
           \E r \in 1..n : /\ out[r] = T[m][1] /\ \A p \in 1..n : own[p] = m <=> p = r
  BY <1>1 DEF Placed
<1> HIDE DEF N, n, k
<1>8. \A r \in 1..(n + 1) : own2[r] = 0 => out2[r] \in Blanks
  BY <1>2, <1>4, <1>5, <1>6, <1>7
<1>9. \A r \in 1..(n + 1) : own2[r] = N + 1 <=> r > n - k
  BY <1>2, <1>4, <1>5, <1>6, <1>7
<1>10. \A r \in 1..(n + 1) : r > n - k => out2[r] = h2[r - (n - k)]
  <2> SUFFICES ASSUME NEW r \in 1..(n + 1), r > n - k
               PROVE  out2[r] = h2[r - (n - k)]
    OBVIOUS
  <2>1. CASE r = n + 1
    <3>1. r - (n - k) = k + 1
      BY <1>2, <2>1
    <3> QED
      BY <1>2, <2>1, <3>1
  <2>2. CASE r \in 1..n
    <3>1. r - (n - k) \in 1..k
      BY <1>2, <2>2
    <3> QED
      BY <1>2, <1>7, <2>2, <3>1
  <2> QED
    BY <1>5, <2>1, <2>2
<1>11. \A r \in 1..(n + 1) : own2[r] \in 1..N /\ out2[r] = ")" => ")" \in Range(T[own2[r]])
  <2> SUFFICES ASSUME NEW r \in 1..(n + 1), own2[r] \in 1..N, out2[r] = ")"
               PROVE  ")" \in Range(T[own2[r]])
    OBVIOUS
  <2>1. r \in 1..n
    BY <1>2, <1>4, <1>5
  <2> QED
    BY <1>2, <1>4, <1>7, <2>1
<1>12. \A p, r \in 1..(n + 1) : p < r /\ own2[p] # 0 /\ own2[r] # 0 => own2[p] <= own2[r]
  <2> SUFFICES ASSUME NEW p \in 1..(n + 1), NEW r \in 1..(n + 1),
                      p < r, own2[p] # 0, own2[r] # 0
               PROVE  own2[p] <= own2[r]
    OBVIOUS
  <2>1. p \in 1..n
    BY <1>2
  <2>2. CASE r = n + 1
    <3>1. own[p] \in 0..(N + 1)
      BY <1>3, <2>1
    <3> QED
      BY <1>2, <1>4, <2>1, <2>2, <3>1
  <2>3. CASE r \in 1..n
    BY <1>4, <1>7, <2>1, <2>3
  <2> QED
    BY <1>5, <2>2, <2>3
<1>13. \A r \in 1..n :
         out2[r] \in Identifier /\ out2[r + 1] \in Identifier => own2[r] = own2[r + 1]
  <2> SUFFICES ASSUME NEW r \in 1..n, out2[r] \in Identifier, out2[r + 1] \in Identifier
               PROVE  own2[r] = own2[r + 1]
    OBVIOUS
  <2>1. CASE r < n
    <3>1. r \in 1..(n - 1) /\ r + 1 \in 1..n
      BY <1>2, <2>1
    <3> QED
      BY <1>2, <1>4, <1>7, <3>1
  <2>2. CASE r = n
    <3>1. c \in Identifier /\ out[n] \in Identifier /\ n \in 1..n /\ out # <<>>
      BY <1>2, <2>2 DEF n
    <3>2. h # <<>>
      BY <3>1 DEF n
    <3>3. k > 0
      BY <1>2, <3>2 DEF k
    <3>4. own[n] = N + 1
      BY <1>2, <1>7, <3>1, <3>3
    <3> QED
      BY <1>4, <2>2, <3>1, <3>4
  <2> QED
    BY <1>2, <2>1, <2>2
<1>14. ASSUME NEW m \in 1..N, Len(T[m]) = 1
       PROVE  \E r \in 1..(n + 1) : /\ out2[r] = T[m][1]
                                    /\ \A p \in 1..(n + 1) : own2[p] = m <=> p = r
  <2>1. PICK r \in 1..n : out[r] = T[m][1] /\ \A p \in 1..n : own[p] = m <=> p = r
    BY <1>7, <1>14
  <2>2. r \in 1..(n + 1) /\ out2[r] = T[m][1] /\ r # n + 1 /\ m # N + 1
    BY <1>2, <2>1, SMTT(60)
  <2>3. ASSUME NEW p \in 1..(n + 1)
        PROVE  own2[p] = m <=> p = r
    BY <1>4, <1>5, <2>1, <2>2
  <2> QED
    BY <2>2, <2>3
<1>15. Placed(T, h2, out2, own2)
  <2>1. k + 1 <= n + 1 /\ (n + 1) - 1 = n
    BY <1>2
  <2> QED
    BY <1>2, <1>4, <1>6, <1>8, <1>9, <1>10, <1>11, <1>12, <1>13, <1>14, <2>1 DEF Placed, N
<1> QED
  BY <1>15 DEF PlacedIn, h2, out2

\* A blank belongs to no token.
LEMMA Skip ==
  ASSUME NEW V, NEW T \in Seq(Seq(V)), NEW out \in Seq(V), NEW c \in V,
         PlacedIn(T, <<>>, out), c \in Blanks
  PROVE  PlacedIn(T, <<>>, Append(out, c))
<1>1. PICK own : Placed(T, <<>>, out, own)
  BY DEF PlacedIn
<1> DEFINE N == Len(T)
           n == Len(out)
           out2 == Append(out, c)
           own2 == [r \in 1..(n + 1) |-> IF r = n + 1 THEN 0 ELSE own[r]]
<1>2. /\ N \in Nat /\ n \in Nat
      /\ Len(out2) = n + 1 /\ out2[n + 1] = c /\ \A r \in 1..n : out2[r] = out[r]
      /\ Len(<<>>) = 0 /\ n - 0 = n /\ (n + 1) - 0 = n + 1
  OBVIOUS
<1>3. \A r \in 1..n : own[r] \in 0..(N + 1)
  BY <1>1 DEF Placed
<1>4. /\ own2 \in [1..(n + 1) -> 0..(N + 1)]
      /\ own2[n + 1] = 0 /\ \A r \in 1..n : own2[r] = own[r]
  BY <1>2, <1>3
<1>5. \A r \in 1..(n + 1) : r = n + 1 \/ r \in 1..n
  BY <1>2
<1> HIDE DEF own2, out2
<1>7. /\ \A r \in 1..n : own[r] = 0 => out[r] \in Blanks
      /\ \A r \in 1..n : own[r] # N + 1
      /\ \A r \in 1..n : own[r] \in 1..N /\ out[r] = ")" => ")" \in Range(T[own[r]])
      /\ \A p, r \in 1..n : p < r /\ own[p] # 0 /\ own[r] # 0 => own[p] <= own[r]
      /\ \A r \in 1..(n - 1) :
           out[r] \in Identifier /\ out[r + 1] \in Identifier => own[r] = own[r + 1]
      /\ \A m \in 1..N : Len(T[m]) = 1 =>
           \E r \in 1..n : /\ out[r] = T[m][1] /\ \A p \in 1..n : own[p] = m <=> p = r
  BY <1>1, <1>2 DEF Placed
<1> HIDE DEF N, n
<1>8. \A r \in 1..(n + 1) : own2[r] = 0 => out2[r] \in Blanks
  BY <1>2, <1>4, <1>5, <1>7
<1>9. \A r \in 1..(n + 1) : own2[r] = N + 1 <=> r > n + 1
  BY <1>2, <1>4, <1>5, <1>7, SMTT(60)
<1>11. \A r \in 1..(n + 1) : own2[r] \in 1..N /\ out2[r] = ")" => ")" \in Range(T[own2[r]])
  <2> SUFFICES ASSUME NEW r \in 1..(n + 1), own2[r] \in 1..N, out2[r] = ")"
               PROVE  ")" \in Range(T[own2[r]])
    OBVIOUS
  <2>1. own2[r] # 0
    BY <1>2
  <2>2. r \in 1..n
    BY <1>4, <1>5, <2>1
  <2> QED
    BY <1>2, <1>4, <1>7, <2>2
<1>12. \A p, r \in 1..(n + 1) : p < r /\ own2[p] # 0 /\ own2[r] # 0 => own2[p] <= own2[r]
  <2> SUFFICES ASSUME NEW p \in 1..(n + 1), NEW r \in 1..(n + 1),
                      p < r, own2[p] # 0, own2[r] # 0
               PROVE  own2[p] <= own2[r]
    OBVIOUS
  <2>1. p \in 1..n /\ r \in 1..n
    BY <1>2, <1>4, <1>5
  <2> QED
    BY <1>4, <1>7, <2>1
<1>13. \A r \in 1..n :
         out2[r] \in Identifier /\ out2[r + 1] \in Identifier => own2[r] = own2[r + 1]
  <2> SUFFICES ASSUME NEW r \in 1..n, out2[r] \in Identifier, out2[r + 1] \in Identifier
               PROVE  own2[r] = own2[r + 1]
    OBVIOUS
  <2>1. CASE r < n
    <3>1. r \in 1..(n - 1) /\ r + 1 \in 1..n
      BY <1>2, <2>1
    <3> QED
      BY <1>2, <1>4, <1>7, <3>1, ZenonT(60)
  <2>2. CASE r = n
    <3>1. c \in Identifier
      BY <1>2, <2>2
    <3> QED
      BY <3>1 DEF Identifier, Words, Blanks
  <2> QED
    BY <1>2, <2>1, <2>2
<1>14. ASSUME NEW m \in 1..N, Len(T[m]) = 1
       PROVE  \E r \in 1..(n + 1) : /\ out2[r] = T[m][1]
                                    /\ \A p \in 1..(n + 1) : own2[p] = m <=> p = r
  <2>1. PICK r \in 1..n : out[r] = T[m][1] /\ \A p \in 1..n : own[p] = m <=> p = r
    BY <1>7, <1>14
  <2>2. r \in 1..(n + 1) /\ out2[r] = T[m][1] /\ r # n + 1 /\ m # 0
    BY <1>2, <2>1
  <2>3. ASSUME NEW p \in 1..(n + 1)
        PROVE  own2[p] = m <=> p = r
    BY <1>4, <1>5, <2>1, <2>2
  <2> QED
    BY <2>2, <2>3
<1>15. Placed(T, <<>>, out2, own2)
  <2>1. /\ Len(<<>>) <= Len(out2) /\ Len(out2) - 1 = n /\ Len(out2) - Len(<<>>) = n + 1
        /\ \A r \in 1..(n + 1) : ~ r > n + 1
    BY <1>2
  <2>2. Len(out2) = n + 1 /\ Len(T) = N
    BY <1>2 DEF N
  <2> QED
    BY <1>4, <1>8, <1>9, <1>11, <1>12, <1>13, <1>14, <2>1, <2>2 DEF Placed
<1> QED
  BY <1>15 DEF PlacedIn, out2

\* What is held back becomes a token.
LEMMA Take ==
  ASSUME NEW V, NEW T \in Seq(Seq(V)), NEW h \in Seq(V), NEW out \in Seq(V),
         PlacedIn(T, h, out)
  PROVE  PlacedIn(Append(T, h), <<>>, out)
<1>1. PICK own : Placed(T, h, out, own)
  BY DEF PlacedIn
<1> DEFINE N == Len(T)
           n == Len(out)
           k == Len(h)
           T2 == Append(T, h)
<1>2. /\ N \in Nat /\ n \in Nat /\ k \in Nat /\ k <= n
      /\ Len(T2) = N + 1 /\ T2[N + 1] = h /\ \A m \in 1..N : T2[m] = T[m]
      /\ Len(<<>>) = 0 /\ n - 0 = n
  BY <1>1 DEF Placed
<1>3. \A r \in 1..n : own[r] \in 0..(N + 1)
  BY <1>1 DEF Placed
<1>4. own \in [1..n -> 0..((N + 1) + 1)]
  BY <1>1, <1>2, <1>3 DEF Placed
<1> HIDE DEF T2
<1>7. /\ \A r \in 1..n : own[r] = 0 => out[r] \in Blanks
      /\ \A r \in 1..n : own[r] = N + 1 <=> r > n - k
      /\ \A r \in 1..n : r > n - k => out[r] = h[r - (n - k)]
      /\ \A r \in 1..n : own[r] \in 1..N /\ out[r] = ")" => ")" \in Range(T[own[r]])
      /\ \A p, r \in 1..n : p < r /\ own[p] # 0 /\ own[r] # 0 => own[p] <= own[r]
      /\ \A r \in 1..(n - 1) :
           out[r] \in Identifier /\ out[r + 1] \in Identifier => own[r] = own[r + 1]
      /\ \A m \in 1..N : Len(T[m]) = 1 =>
           \E r \in 1..n : /\ out[r] = T[m][1] /\ \A p \in 1..n : own[p] = m <=> p = r
  BY <1>1 DEF Placed
<1>8. \A j \in 1..k : h[j] \in Range(h)
  BY DEF Range
<1> HIDE DEF N, n, k
<1>9. \A r \in 1..n : own[r] = (N + 1) + 1 <=> r > n
  BY <1>2, <1>3
<1>11. \A r \in 1..n : own[r] \in 1..(N + 1) /\ out[r] = ")" => ")" \in Range(T2[own[r]])
  <2> SUFFICES ASSUME NEW r \in 1..n, own[r] \in 1..(N + 1), out[r] = ")"
               PROVE  ")" \in Range(T2[own[r]])
    OBVIOUS
  <2>1. CASE own[r] \in 1..N
    BY <1>2, <1>7, <2>1
  <2>2. CASE own[r] = N + 1
    <3>1. r - (n - k) \in 1..k /\ out[r] = h[r - (n - k)]
      BY <1>2, <1>7, <2>2
    <3> QED
      BY <1>2, <1>8, <2>2, <3>1
  <2> QED
    BY <1>2, <2>1, <2>2
<1>14. ASSUME NEW m \in 1..(N + 1), Len(T2[m]) = 1
       PROVE  \E r \in 1..n : /\ out[r] = T2[m][1]
                              /\ \A p \in 1..n : own[p] = m <=> p = r
  <2>1. CASE m \in 1..N
    BY <1>2, <1>7, <1>14, <2>1
  <2>2. CASE m = N + 1
    <3>1. k = 1
      BY <1>2, <1>14, <2>2 DEF k
    <3>2. n \in 1..n /\ n > n - k /\ n - (n - k) = 1
      BY <1>2, <3>1
    <3>3. out[n] = T2[m][1]
      BY <1>2, <1>7, <2>2, <3>2
    <3>4. ASSUME NEW p \in 1..n
          PROVE  own[p] = m <=> p = n
      <4>1. p > n - k <=> p = n
        BY <1>2, <3>1
      <4> QED
        BY <1>7, <2>2, <4>1
    <3> QED
      BY <3>2, <3>3, <3>4
  <2> QED
    BY <1>2, <2>1, <2>2
<1>15. Placed(T2, <<>>, out, own)
  <2>1. 0 <= n /\ \A r \in 1..n : ~ r > n
    BY <1>2
  <2> QED
    BY <1>2, <1>4, <1>7, <1>9, <1>11, <1>14, <2>1 DEF Placed, n
<1> QED
  BY <1>15 DEF PlacedIn, T2

\* A dollar quote is a token of which nothing is written.
LEMMA TakeUnwritten ==
  ASSUME NEW V, NEW T \in Seq(Seq(V)), NEW w \in Seq(V), NEW out \in Seq(V),
         PlacedIn(T, <<>>, out), Len(w) # 1
  PROVE  PlacedIn(Append(T, w), <<>>, out)
<1>1. PICK own : Placed(T, <<>>, out, own)
  BY DEF PlacedIn
<1> DEFINE N == Len(T)
           n == Len(out)
           T2 == Append(T, w)
<1>2. /\ N \in Nat /\ n \in Nat
      /\ Len(T2) = N + 1 /\ T2[N + 1] = w /\ \A m \in 1..N : T2[m] = T[m]
      /\ Len(<<>>) = 0 /\ n - 0 = n
  OBVIOUS
<1>3. \A r \in 1..n : own[r] \in 0..(N + 1)
  BY <1>1 DEF Placed
<1>4. own \in [1..n -> 0..((N + 1) + 1)]
  BY <1>1, <1>2, <1>3 DEF Placed
<1> HIDE DEF T2
<1>7. /\ \A r \in 1..n : own[r] = 0 => out[r] \in Blanks
      /\ \A r \in 1..n : own[r] = N + 1 <=> r > n
      /\ \A r \in 1..n : own[r] \in 1..N /\ out[r] = ")" => ")" \in Range(T[own[r]])
      /\ \A p, r \in 1..n : p < r /\ own[p] # 0 /\ own[r] # 0 => own[p] <= own[r]
      /\ \A r \in 1..(n - 1) :
           out[r] \in Identifier /\ out[r + 1] \in Identifier => own[r] = own[r + 1]
      /\ \A m \in 1..N : Len(T[m]) = 1 =>
           \E r \in 1..n : /\ out[r] = T[m][1] /\ \A p \in 1..n : own[p] = m <=> p = r
  BY <1>1, <1>2 DEF Placed
<1> HIDE DEF N, n
<1>8. \A r \in 1..n : own[r] # N + 1 /\ ~ r > n
  BY <1>2, <1>7
<1>9. \A r \in 1..n : own[r] = (N + 1) + 1 <=> r > n
  BY <1>2, <1>3
<1>11. \A r \in 1..n : own[r] \in 1..(N + 1) /\ out[r] = ")" => ")" \in Range(T2[own[r]])
  <2> SUFFICES ASSUME NEW r \in 1..n, own[r] \in 1..(N + 1), out[r] = ")"
               PROVE  ")" \in Range(T2[own[r]])
    OBVIOUS
  <2>1. own[r] \in 1..N
    BY <1>2, <1>8
  <2> QED
    BY <1>2, <1>7, <2>1
<1>14. ASSUME NEW m \in 1..(N + 1), Len(T2[m]) = 1
       PROVE  \E r \in 1..n : /\ out[r] = T2[m][1]
                              /\ \A p \in 1..n : own[p] = m <=> p = r
  <2>1. m \in 1..N
    BY <1>2, <1>14
  <2> QED
    BY <1>2, <1>7, <1>14, <2>1, SMTT(60)
<1>15. Placed(T2, <<>>, out, own)
  <2>1. 0 <= n
    BY <1>2
  <2> QED
    BY <1>2, <1>4, <1>7, <1>8, <1>9, <1>11, <1>14, <2>1 DEF Placed, n
<1> QED
  BY <1>15 DEF PlacedIn, T2

-----------------------------------------------------------------------------
(* stripSQLComments, turn by turn.                                         *)

\* Where the scan is and what it has written.
Scans(s, V) == {b \in [i : Nat, out : Seq(V)] : b.i \in 1..(Len(s) + 1)}

\* What has symbols is not empty.
LEMMA NotEmpty ==
  ASSUME NEW V, NEW x \in Seq(V)
  PROVE  x # <<>> <=> Len(x) > 0
  OBVIOUS

\* A dollar quote's tag: a $, words, a $.
LEMMA TagShape ==
  ASSUME NEW V, NEW s \in Seq(V), NEW i \in 1..Len(s)
  PROVE  LET tag == DollarTag(s, i)
             close == IndexFrom(s, <<"$">>, i + 1)
         IN \/ tag = <<>> /\ (\/ s[i] # "$" \/ close = 0
                              \/ \E j \in (i + 1)..(close - 1) : s[j] \notin Words)
            \/ /\ tag = SubSeq(s, i, close) /\ tag # <<>> /\ tag \in Seq(V)
               /\ close \in (i + 1)..Len(s) /\ Len(tag) = close - i + 1
               /\ s[i] = "$" /\ s[close] = "$"
               /\ \A j \in (i + 1)..(close - 1) : s[j] \in Words
<1> DEFINE tag == DollarTag(s, i)
           close == IndexFrom(s, <<"$">>, i + 1)
           opens == s[i] = "$" /\ close # 0 /\ \A j \in (i + 1)..(close - 1) : s[j] \in Words
<1>1. i \in Nat /\ i + 1 \in Nat /\ Len(s) \in Nat
  OBVIOUS
<1>2. close = 0 \/ (close \in (i + 1)..Len(s) /\ OccursAt(s, <<"$">>, close))
  BY <1>1, FirstOccurrence
<1>3. close # 0 => close \in (i + 1)..Len(s) /\ s[close] = "$"
  BY <1>1, <1>2, OccursOne
<1>4. tag = IF opens THEN SubSeq(s, i, close) ELSE <<>>
  BY DEF DollarTag
<1>5. CASE opens
  <2>1. close \in (i + 1)..Len(s) /\ s[close] = "$"
    BY <1>3, <1>5
  <2>2. SubSeq(s, i, close) \in Seq(V) /\ Len(SubSeq(s, i, close)) = close - i + 1
    BY <1>1, <2>1
  <2>3. close - i + 1 > 0
    BY <1>1, <2>1
  <2>4. SubSeq(s, i, close) # <<>>
    <3> DEFINE x == SubSeq(s, i, close)
    <3>1. x \in Seq(V) /\ Len(x) > 0
      BY <2>2, <2>3
    <3> HIDE DEF x
    <3>2. x # <<>>
      BY <3>1, NotEmpty
    <3> QED
      BY <3>2 DEF x
  <2> QED
    BY <1>4, <1>5, <2>1, <2>2, <2>4
<1>6. CASE ~opens
  BY <1>4, <1>6
<1> QED
  BY <1>5, <1>6

\* One turn of the scan, case by case.
LEMMA StripTurnCases ==
  ASSUME NEW V, Blanks \subseteq V, NEW s \in Seq(V), NEW b \in Scans(s, V)
  PROVE  LET n == StripTurn(s, b)
             i == b.i
             newline == IndexFrom(s, <<"nl">>, i)
             tag == DollarTag(s, i)
             close == IndexFrom(s, tag, i + Len(tag))
             quoted == AfterQuoted(s, s[i], i + 1)
             end == Len(s) + 1
             is(c, d) == i < Len(s) /\ s[i] = c /\ s[i + 1] = d
             here == i <= Len(s) /\ ~is("-", "-") /\ ~is("/", "*")
         IN /\ n \in Scans(s, V)
            /\ i > Len(s) => n = b
            /\ i <= Len(s) /\ is("-", "-") /\ newline = 0 => n.i = end /\ n.out = b.out
            /\ i <= Len(s) /\ is("-", "-") /\ newline # 0 =>
                 /\ newline \in i..Len(s)
                 /\ n.i = newline + 1 /\ n.out = Append(b.out, "nl")
            /\ i <= Len(s) /\ is("/", "*") =>
                 n.i = AfterBlock(s, i + 2) /\ n.out = Append(b.out, "sp")
            /\ here /\ s[i] \in Quotes =>
                 n.i = quoted /\ n.out = b.out \o SubSeq(s, i, quoted - 1)
            /\ here /\ s[i] \notin Quotes /\ tag # <<>> /\ close = 0 =>
                 n.i = end /\ n.out = Append(b.out, "sp")
            /\ here /\ s[i] \notin Quotes /\ tag # <<>> /\ close # 0 =>
                 n.i = close + Len(tag) /\ n.out = Append(b.out, "sp")
            /\ here /\ s[i] \notin Quotes /\ tag = <<>> =>
                 n.i = i + 1 /\ n.out = Append(b.out, s[i])
<1> DEFINE n == StripTurn(s, b)
           i == b.i
           newline == IndexFrom(s, <<"nl">>, i)
           tag == DollarTag(s, i)
           close == IndexFrom(s, tag, i + Len(tag))
           quoted == AfterQuoted(s, s[i], i + 1)
           end == Len(s) + 1
           is(c, d) == i < Len(s) /\ s[i] = c /\ s[i + 1] = d
           here == i <= Len(s) /\ ~is("-", "-") /\ ~is("/", "*")
<1>1. i \in Nat /\ i \in 1..end /\ b.out \in Seq(V) /\ Len(s) \in Nat /\ i \in Int
  BY DEF Scans
<1>2. OccursAt(s, <<"-", "-">>, i) <=> is("-", "-")
  BY <1>1, OccursTwo
<1>3. OccursAt(s, <<"/", "*">>, i) <=> is("/", "*")
  BY <1>1, OccursTwo
<1>4. "sp" \in V /\ "nl" \in V
  BY DEF Blanks
<1>5. /\ b.out \o <<>> = b.out
      /\ b.out \o <<"nl">> = Append(b.out, "nl") /\ Append(b.out, "nl") \in Seq(V)
      /\ b.out \o <<"sp">> = Append(b.out, "sp") /\ Append(b.out, "sp") \in Seq(V)
  BY <1>1, <1>4
<1>6. n = CASE i > Len(s) -> b
          [] OccursAt(s, <<"-", "-">>, i) ->
               IF newline = 0 THEN [i |-> end, out |-> b.out \o <<>>]
               ELSE [i |-> newline + 1, out |-> b.out \o <<"nl">>]
          [] OccursAt(s, <<"/", "*">>, i) ->
               [i |-> AfterBlock(s, i + 2), out |-> b.out \o <<"sp">>]
          [] i <= Len(s) /\ s[i] \in Quotes ->
               [i |-> quoted, out |-> b.out \o SubSeq(s, i, quoted - 1)]
          [] i <= Len(s) /\ tag # <<>> ->
               IF close = 0 THEN [i |-> end, out |-> b.out \o <<"sp">>]
               ELSE [i |-> close + Len(tag), out |-> b.out \o <<"sp">>]
          [] OTHER -> [i |-> i + 1, out |-> b.out \o <<s[i]>>]
  BY Zenon DEF StripTurn
<1>7. end \in 1..end
  BY <1>1
<1>8. CASE i > Len(s)
  <2>1. ~OccursAt(s, <<"-", "-">>, i) /\ ~OccursAt(s, <<"/", "*">>, i) /\ ~(i <= Len(s))
    BY <1>1, <1>2, <1>3, <1>8
  <2>2. n = b
    <3> HIDE DEF n, newline, tag, close, quoted, end
    <3> QED
      BY <1>6, <1>8, <2>1
  <2> QED
    BY <1>1, <1>8, <2>2
<1>9. CASE i <= Len(s) /\ is("-", "-")
  <2>1. ~(i > Len(s)) /\ OccursAt(s, <<"-", "-">>, i) /\ ~OccursAt(s, <<"/", "*">>, i)
        /\ ~(i <= Len(s) /\ s[i] \in Quotes) /\ tag = <<>>
    <3>1. s[i] = "-"
      BY <1>9
    <3>2. DollarTag(s, i) = <<>>
      BY <3>1 DEF DollarTag
    <3> QED
      BY <1>1, <1>2, <1>3, <1>9, <3>1, <3>2 DEF Quotes
  <2>2. n = IF newline = 0 THEN [i |-> end, out |-> b.out] ELSE [i |-> newline + 1, out |-> Append(b.out, "nl")]
    <3> HIDE DEF n, newline, tag, close, quoted, end
    <3> QED
      BY <1>5, <1>6, <2>1
  <2>3. CASE newline = 0
    <3>1. n \in Scans(s, V) /\ n.i = end /\ n.out = b.out
      <4> HIDE DEF n
      <4> QED
        BY <1>1, <1>7, <2>2, <2>3 DEF Scans
    <3> QED
      BY <1>1, <1>9, <2>3, <3>1
  <2>4. CASE newline # 0
    <3>1. newline \in i..Len(s)
      BY <1>1, <2>4, FirstOccurrence
    <3>2. newline + 1 \in 1..end
      BY <1>1, <3>1
    <3>3. n \in Scans(s, V) /\ n.i = newline + 1 /\ n.out = Append(b.out, "nl")
      <4> HIDE DEF n, newline
      <4> QED
        BY <1>1, <1>5, <2>2, <2>4, <3>2 DEF Scans
    <3> QED
      BY <1>1, <1>9, <2>4, <3>1, <3>3
  <2> QED
    BY <2>3, <2>4
<1>10. CASE i <= Len(s) /\ is("/", "*")
  <2>1. ~(i > Len(s)) /\ OccursAt(s, <<"/", "*">>, i) /\ ~OccursAt(s, <<"-", "-">>, i)
        /\ ~(i <= Len(s) /\ s[i] \in Quotes) /\ tag = <<>>
    <3>1. s[i] = "/"
      BY <1>10
    <3>2. DollarTag(s, i) = <<>>
      BY <3>1 DEF DollarTag
    <3> QED
      BY <1>1, <1>2, <1>3, <1>10, <3>1, <3>2 DEF Quotes
  <2>2. n = [i |-> AfterBlock(s, i + 2), out |-> Append(b.out, "sp")]
    <3> HIDE DEF n, newline, tag, close, quoted, end
    <3> QED
      BY <1>5, <1>6, <2>1
  <2>3. i + 2 \in 1..(Len(s) + 1) /\ Len(s) \in 0..Len(s)
    BY <1>1, <1>10
  <2>4. AfterBlock(s, i + 2) \in (i + 2)..(Len(s) + 1)
    <3> DEFINE p == i + 2
    <3>1. p \in 1..(Len(s) + 1)
      BY <2>3
    <3> HIDE DEF p
    <3>2. BlockTurns(s, p)[Len(s)].i \in p..(Len(s) + 1)
      BY <2>3, <3>1, BlockLoop
    <3>3. AfterBlock(s, p) \in p..(Len(s) + 1)
      BY <3>2 DEF AfterBlock
    <3> QED
      BY <3>3 DEF p
  <2>5. AfterBlock(s, i + 2) \in 1..(Len(s) + 1)
    BY <1>1, <2>4
  <2>6. n \in Scans(s, V) /\ n.i = AfterBlock(s, i + 2) /\ n.out = Append(b.out, "sp")
    <3> HIDE DEF n
    <3> QED
      BY <1>1, <1>5, <2>2, <2>5 DEF Scans
  <2> QED
    BY <1>1, <1>10, <2>6
<1>11. CASE here /\ s[i] \in Quotes
  <2>1. ~(i > Len(s)) /\ ~OccursAt(s, <<"/", "*">>, i) /\ ~OccursAt(s, <<"-", "-">>, i)
        /\ i <= Len(s) /\ s[i] \in Quotes /\ tag = <<>>
    <3>1. s[i] # "$"
      BY <1>11 DEF Quotes
    <3>2. DollarTag(s, i) = <<>>
      BY <3>1 DEF DollarTag
    <3> QED
      BY <1>1, <1>2, <1>3, <1>11, <3>2
  <2>2. n = [i |-> quoted, out |-> b.out \o SubSeq(s, i, quoted - 1)]
    <3> HIDE DEF n, newline, tag, close, quoted, end
    <3> QED
      BY <1>6, <2>1
  <2>3. i + 1 \in 1..(Len(s) + 1) /\ Len(s) \in 0..Len(s)
    BY <1>1, <1>11
  <2>4. quoted \in (i + 1)..(Len(s) + 1)
    <3> DEFINE p == i + 1
               q == s[i]
    <3>1. p \in 1..(Len(s) + 1)
      BY <2>3
    <3> HIDE DEF p, q
    <3>2. QuotedTurns(s, q, p)[Len(s)].i \in p..(Len(s) + 1)
      BY <2>3, <3>1, QuotedLoop
    <3>3. AfterQuoted(s, q, p) \in p..(Len(s) + 1)
      BY <3>2 DEF AfterQuoted
    <3> QED
      BY <3>3 DEF p, q
  <2> HIDE DEF quoted
  <2>5. quoted \in 1..(Len(s) + 1) /\ quoted - 1 \in 1..Len(s) /\ i \in 1..Len(s)
    BY <1>1, <1>11, <2>4
  <2>6. SubSeq(s, i, quoted - 1) \in Seq(V)
    BY <1>1, <2>5
  <2>7. b.out \o SubSeq(s, i, quoted - 1) \in Seq(V)
    BY <1>1, <2>6
  <2>8. n \in Scans(s, V) /\ n.i = quoted /\ n.out = b.out \o SubSeq(s, i, quoted - 1)
    <3> HIDE DEF n
    <3> QED
      BY <1>1, <2>2, <2>5, <2>7, SMTT(60) DEF Scans
  <2> QED
    BY <1>1, <1>11, <2>8 DEF quoted
<1>12. CASE here /\ s[i] \notin Quotes /\ tag # <<>>
  <2>1. ~(i > Len(s)) /\ ~OccursAt(s, <<"/", "*">>, i) /\ ~OccursAt(s, <<"-", "-">>, i)
        /\ i <= Len(s) /\ s[i] \notin Quotes /\ i \in 1..Len(s)
    BY <1>1, <1>2, <1>3, <1>12
  <2>2. n = IF close = 0 THEN [i |-> end, out |-> Append(b.out, "sp")]
            ELSE [i |-> close + Len(tag), out |-> Append(b.out, "sp")]
    <3> HIDE DEF n, newline, tag, close, quoted, end
    <3> QED
      BY <1>5, <1>6, <1>12, <2>1
  <2>3. Len(tag) \in Nat /\ Len(tag) > 0 /\ i + Len(tag) \in Nat
    <3>1. tag \in Seq(V)
      BY <1>12, <2>1, TagShape
    <3> HIDE DEF tag
    <3> QED
      BY <1>1, <1>12, <3>1
  <2>4. CASE close = 0
    <3>1. n \in Scans(s, V) /\ n.i = end /\ n.out = Append(b.out, "sp")
      <4> HIDE DEF n, close
      <4> QED
        BY <1>1, <1>5, <1>7, <2>2, <2>4 DEF Scans
    <3> QED
      BY <1>1, <1>12, <2>4, <3>1
  <2>5. CASE close # 0
    <3>1. close \in (i + Len(tag))..Len(s) /\ OccursAt(s, tag, close)
      <4> HIDE DEF tag
      <4> QED
        BY <1>1, <2>3, <2>5, FirstOccurrence
    <3>2. close + Len(tag) - 1 <= Len(s)
      BY <3>1 DEF OccursAt
    <3>3. close + Len(tag) \in 1..(Len(s) + 1)
      <4> HIDE DEF close, tag
      <4> QED
        BY <1>1, <2>3, <3>1, <3>2
    <3>4. n \in Scans(s, V) /\ n.i = close + Len(tag) /\ n.out = Append(b.out, "sp")
      <4> HIDE DEF n, close, tag
      <4> QED
        BY <1>1, <1>5, <2>2, <2>5, <3>3 DEF Scans
    <3> QED
      BY <1>1, <1>12, <2>5, <3>4
  <2> QED
    BY <2>4, <2>5
<1>13. CASE here /\ s[i] \notin Quotes /\ tag = <<>>
  <2>1. ~(i > Len(s)) /\ ~OccursAt(s, <<"/", "*">>, i) /\ ~OccursAt(s, <<"-", "-">>, i)
        /\ i <= Len(s) /\ s[i] \notin Quotes /\ i \in 1..Len(s)
    BY <1>1, <1>2, <1>3, <1>13
  <2>2. n = [i |-> i + 1, out |-> b.out \o <<s[i]>>]
    <3> HIDE DEF n, newline, tag, close, quoted, end
    <3> QED
      BY <1>6, <1>13, <2>1
  <2>3. i + 1 \in 1..(Len(s) + 1) /\ s[i] \in V
    BY <1>1, <2>1
  <2>4. b.out \o <<s[i]>> = Append(b.out, s[i]) /\ Append(b.out, s[i]) \in Seq(V)
    BY <1>1, <2>3
  <2>5. n \in Scans(s, V) /\ n.i = i + 1 /\ n.out = Append(b.out, s[i])
    <3> HIDE DEF n
    <3> QED
      BY <1>1, <2>2, <2>3, <2>4 DEF Scans
  <2> QED
    BY <1>1, <1>13, <2>5
<1>14. i > Len(s) \/ i <= Len(s)
  BY <1>1
<1>15. n \in Scans(s, V)
  BY <1>8, <1>9, <1>10, <1>11, <1>12, <1>13, <1>14
<1> QED
  BY <1>8, <1>9, <1>10, <1>11, <1>12, <1>13, <1>15

\* The scan takes its turns one after the other.
LEMMA StripLoop ==
  ASSUME NEW V, Blanks \subseteq V, NEW s \in Seq(V)
  PROVE  LET turns == StripTurns(s)
         IN /\ turns[0] = [i |-> 1, out |-> <<>>]
            /\ \A k \in 1..Len(s) : turns[k] = StripTurn(s, turns[k - 1])
            /\ \A k \in 0..Len(s) : turns[k] \in Scans(s, V)
<1> DEFINE N == Len(s)
           S == Scans(s, V)
           x == [i |-> 1, out |-> <<>>]
           F == [k \in 1..N |-> [b \in S |-> StripTurn(s, b)]]
           Is(f) == f = [k \in 0..N |-> IF k = 0 THEN x ELSE StripTurn(s, f[k - 1])]
<1>1. N \in Nat /\ x \in S
  BY DEF Scans
<1>2. \A b \in S : StripTurn(s, b) \in S
  BY StripTurnCases
<1>3. F \in [1..N -> [S -> S]]
  <2> HIDE DEF S
  <2> QED
    BY <1>2
<1>4. PICK f \in [0..N -> S] : f[0] = x /\ \A k \in 1..N : f[k] = F[k][f[k - 1]]
  <2> HIDE DEF F, N, S, x
  <2>1. Runs(N, S, x, F)
    BY <1>1, <1>3, Loop
  <2> QED
    BY <2>1 DEF Runs
<1>5. ASSUME NEW k \in 1..N
      PROVE  f[k] = StripTurn(s, f[k - 1])
  <2>1. k - 1 \in 0..N
    BY <1>1
  <2>2. f[k - 1] \in S
    BY <1>4, <2>1
  <2>3. F[k] = [b \in S |-> StripTurn(s, b)] /\ f[k] = F[k][f[k - 1]]
    BY <1>4
  <2> HIDE DEF F, S
  <2> QED
    BY <2>2, <2>3
<1>6. Is(f)
  BY <1>1, <1>4, <1>5
<1>7. Is(StripTurns(s))
  BY <1>6, Zenon DEF StripTurns
<1> DEFINE g == StripTurns(s)
<1>8. g[0] = x /\ \A k \in 1..N : g[k] = StripTurn(s, g[k - 1])
  <2> HIDE DEF x
  <2> QED
    BY <1>1, <1>7
<1>9. \A k \in 0..N : g[k] \in S
  <2>1. \A k \in 1..N : g[k - 1] \in S => g[k] \in S
    BY <1>2, <1>8
  <2> HIDE DEF N, S, g
  <2> QED
    BY <1>1, <1>8, <2>1, LoopKeeps
<1> QED
  BY <1>8, <1>9

-----------------------------------------------------------------------------
(* The scan and the reference lexer side by side.                          *)

\* Outside every quote and comment the scan has written the tokens, and what
\* is held back; an identifier that follows will not touch the last one.
InTextAt(l, out) ==
  /\ l.mode = "text"
  /\ PlacedIn(l.tokens, l.held, out)
  /\ l.held = <<>> => out = <<>> \/ out[Len(out)] \notin Identifier

\* The first half of a comment's opening is held back, and c is the second.
Half(l, c) == (l.held = <<"-">> /\ c = "-") \/ (l.held = <<"/">> /\ c = "*")

\* What is held back is what was written last.
LEMMA LastHeld ==
  ASSUME NEW V, NEW T \in Seq(Seq(V)), NEW h \in Seq(V), NEW out \in Seq(V),
         PlacedIn(T, h, out), h # <<>>
  PROVE  out # <<>> /\ out[Len(out)] = h[Len(h)]
<1>1. PICK own : Placed(T, h, out, own)
  BY DEF PlacedIn
<1> DEFINE n == Len(out)
           k == Len(h)
<1>2. n \in Nat /\ k \in Nat /\ k > 0 /\ k <= n
  BY <1>1, NotEmpty DEF Placed
<1>3. \A r \in 1..n : r > n - k => out[r] = h[r - (n - k)]
  BY <1>1 DEF Placed
<1> HIDE DEF n, k
<1>4. n \in 1..n /\ n > n - k /\ n - (n - k) = k
  BY <1>2
<1>5. out[n] = h[k]
  BY <1>3, <1>4
<1> QED
  BY <1>2, <1>5, NotEmpty DEF n, k

\* When what is held back becomes a token, nothing is written.
LEMMA FlushPlaced ==
  ASSUME NEW V, NEW l \in Lexers(V), NEW out \in Seq(V), InTextAt(l, out)
  PROVE  /\ PlacedIn(Flushed(l).tokens, <<>>, out)
         /\ ~InIdentifier(l) => out = <<>> \/ out[Len(out)] \notin Identifier
<1>1. l.tokens \in Seq(Seq(V)) /\ l.held \in Seq(V)
  BY DEF Lexers
<1>2. CASE l.held = <<>>
  <2>1. Flushed(l).tokens = l.tokens
    BY <1>2, FlushedFields
  <2> QED
    BY <1>2, <2>1 DEF InTextAt
<1>3. CASE l.held # <<>>
  <2>1. Flushed(l).tokens = Append(l.tokens, l.held)
    BY <1>3, FlushedFields
  <2>2. PlacedIn(Append(l.tokens, l.held), <<>>, out)
    BY <1>1, Take DEF InTextAt
  <2>3. out[Len(out)] = l.held[Len(l.held)]
    BY <1>1, <1>3, LastHeld DEF InTextAt
  <2> QED
    BY <1>3, <2>1, <2>2, <2>3 DEF InIdentifier
<1> QED
  BY <1>2, <1>3

\* One symbol, read in text by the lexer and copied by the scan.
LEMMA TextReads ==
  ASSUME NEW V, NEW l \in Lexers(V), NEW out \in Seq(V), NEW c \in V,
         InTextAt(l, out), ~Half(l, c), LexTurn(l, c).plain
  PROVE  LET n == LexTurn(l, c)
         IN /\ c \notin Quotes /\ c # "$" => InTextAt(n, Append(out, c))
            /\ c = "-" \/ c = "/" =>
                 n.mode = "text" /\ n.held = <<c>> /\ PlacedIn(n.tokens, <<>>, out)
            /\ c = "$" => /\ n.mode = "tag" /\ n.held = <<c>>
                          /\ PlacedIn(n.tokens, <<>>, out)
                          /\ PlacedIn(n.tokens, n.held, Append(out, c))
            /\ c \in Quotes => /\ n.mode = "quoted" /\ n.quote = c /\ n.held = <<c>>
                               /\ PlacedIn(n.tokens, n.held, Append(out, c))
<1> DEFINE n == LexTurn(l, c)
           flushed == Flushed(l).tokens
<1>1. /\ l.mode = "text" /\ n \in Lexers(V)
      /\ l.tokens \in Seq(Seq(V)) /\ l.held \in Seq(V) /\ flushed \in Seq(Seq(V))
      /\ <<>> \in Seq(V) /\ Append(<<>>, c) = <<c>>
  <2>1. l.mode = "text"
    BY DEF InTextAt
  <2>2. n \in Lexers(V)
    BY LexTurnTyped
  <2>3. Flushed(l) \in Lexers(V)
    BY FlushedFields
  <2> QED
    BY <2>1, <2>2, <2>3 DEF Lexers
<1>2. /\ PlacedIn(flushed, <<>>, out)
      /\ ~InIdentifier(l) => out = <<>> \/ out[Len(out)] \notin Identifier
  BY FlushPlaced
<1>3. ~((l.held = <<"-">> /\ c = "-") \/ (l.held = <<"/">> /\ c = "*"))
  BY DEF Half
<1>4. /\ InIdentifier(l) /\ c \in Identifier =>
           /\ n.mode = "text" /\ n.held = Append(l.held, c) /\ n.tokens = l.tokens
           /\ c = "$" => ~n.plain
      /\ c \in Blanks => n.mode = "text" /\ n.held = <<>> /\ n.tokens = flushed
      /\ c \in Quotes => n.mode = "quoted" /\ n.quote = c /\ n.held = <<c>> /\ n.tokens = flushed
      /\ c = "$" /\ ~InIdentifier(l) =>
           n.mode = "tag" /\ n.held = <<"$">> /\ n.tokens = flushed
      /\ ~(InIdentifier(l) /\ c \in Identifier) /\ c \notin Blanks \cup Quotes \cup {"$"} =>
           n.mode = "text" /\ n.held = <<c>> /\ n.tokens = flushed
  BY <1>1, <1>3, TextTurn
<1> HIDE DEF flushed
<1>5. ASSUME ~(InIdentifier(l) /\ c \in Identifier)
      PROVE  PlacedIn(flushed, <<c>>, Append(out, c))
  <2>1. out = <<>> \/ out[Len(out)] \notin Identifier \/ c \notin Identifier
    BY <1>2, <1>5
  <2>2. PlacedIn(flushed, Append(<<>>, c), Append(out, c))
    BY <1>1, <1>2, <2>1, Grow
  <2> QED
    BY <1>1, <2>2
<1>6. Append(out, c) # <<>> /\ Append(out, c)[Len(Append(out, c))] = c /\ <<c>> # <<>>
  OBVIOUS
<1>7. CASE InIdentifier(l) /\ c \in Identifier
  <2>1. c # "$"
    BY <1>4, <1>7
  <2>2. l.held # <<>>
    BY <1>7 DEF InIdentifier
  <2>3. PlacedIn(l.tokens, Append(l.held, c), Append(out, c))
    BY <1>1, <2>2, Grow DEF InTextAt
  <2>4. Append(l.held, c) # <<>>
    <3>1. Append(l.held, c) \in Seq(V) /\ Len(Append(l.held, c)) > 0
      BY <1>1
    <3> QED
      BY <3>1, NotEmpty
  <2>5. InTextAt(n, Append(out, c))
    BY <1>4, <1>7, <2>3, <2>4 DEF InTextAt
  <2>6. c \notin Quotes /\ c # "-" /\ c # "/"
    BY <1>7 DEF Quotes, Identifier, Words
  <2> QED
    BY <2>1, <2>5, <2>6
<1>8. CASE c \in Blanks
  <2>1. c \notin Quotes /\ c # "-" /\ c # "/" /\ c # "$" /\ c \notin Identifier
    BY <1>8 DEF Quotes, Identifier, Words, Blanks
  <2>2. PlacedIn(flushed, <<>>, Append(out, c))
    BY <1>1, <1>2, <1>8, Skip
  <2>3. InTextAt(n, Append(out, c))
    BY <1>4, <1>6, <1>8, <2>1, <2>2 DEF InTextAt
  <2> QED
    BY <2>1, <2>3
<1>9. CASE c \in Quotes
  <2>1. c # "-" /\ c # "/" /\ c # "$" /\ c \notin Identifier
    BY <1>9 DEF Quotes, Identifier, Words
  <2> QED
    BY <1>4, <1>5, <1>9, <2>1
<1>10. CASE c = "$" /\ ~InIdentifier(l)
  <2>1. c # "-" /\ c # "/" /\ c \notin Quotes
    BY <1>10 DEF Quotes
  <2> QED
    BY <1>2, <1>4, <1>5, <1>10, <2>1
<1>11. CASE ~(InIdentifier(l) /\ c \in Identifier) /\ c \notin Blanks \cup Quotes \cup {"$"}
  <2>1. InTextAt(n, Append(out, c))
    BY <1>4, <1>5, <1>6, <1>11 DEF InTextAt
  <2> QED
    BY <1>2, <1>4, <1>11, <2>1
<1>12. "$" \in Identifier
  BY DEF Identifier
<1> QED
  BY <1>7, <1>8, <1>9, <1>10, <1>11, <1>12

\* A line comment: nothing is read until the line ends.
LEMMA LineRun ==
  ASSUME NEW V, NEW s \in Seq(V), NEW p \in 1..Len(s), NEW m \in p..Len(s),
         \A k \in 0..Len(s) : LexTurns(s)[k].plain,
         LexTurns(s)[p].mode \in Commented, \A j \in (p + 1)..m : s[j] # "nl"
  PROVE  /\ LexTurns(s)[m].mode \in Commented
         /\ LexTurns(s)[m].held = LexTurns(s)[p].held
         /\ LexTurns(s)[m].tokens = LexTurns(s)[p].tokens
<1> DEFINE L == LexTurns(s)
           S == {k \in p..m : /\ L[k].mode \in Commented
                              /\ L[k].held = L[p].held /\ L[k].tokens = L[p].tokens}
<1>1. p \in Int /\ m \in Int /\ p \in S
  OBVIOUS
<1>2. ASSUME NEW k \in (p + 1)..m, k - 1 \in S
      PROVE  k \in S
  <2>1. /\ k \in p..m /\ k \in 1..Len(s) /\ k - 1 \in 0..Len(s) /\ k \in 0..Len(s)
        /\ s[k] \in V /\ s[k] # "nl"
    OBVIOUS
  <2>2. L[k] = LexTurn(L[k - 1], s[k]) /\ L[k - 1] \in Lexers(V) /\ L[k].plain
    BY <2>1, Lexing
  <2>3. /\ L[k - 1].mode \in Commented
        /\ L[k - 1].held = L[p].held /\ L[k - 1].tokens = L[p].tokens
    BY <1>2
  <2> HIDE DEF L
  <2>4. /\ L[k].mode \in Commented
        /\ L[k].held = L[k - 1].held /\ L[k].tokens = L[k - 1].tokens
    <3> DEFINE l == L[k - 1]
               c == s[k]
               n == LexTurn(l, c)
    <3>1. l \in Lexers(V) /\ c \in V /\ l.mode \in Commented /\ c # "nl" /\ n.plain
      BY <2>1, <2>2, <2>3
    <3> HIDE DEF l, c
    <3>2. n.mode \in Commented /\ n.held = l.held /\ n.tokens = l.tokens
      BY <3>1, LineTurn
    <3> QED
      BY <2>2, <3>2 DEF l, c
  <2> QED
    BY <2>1, <2>3, <2>4
<1>3. \A k \in p..m : k \in S
  <2> HIDE DEF S
  <2> QED
    BY <1>1, <1>2, InductFrom
<1> QED
  BY <1>3

\* A block comment: when the scan is past it so is the lexer, unless it is
\* never closed, and no token has been read.
LEMMA BlockEnds ==
  ASSUME NEW V, NEW s \in Seq(V), NEW p \in 2..(Len(s) + 1),
         LexTurns(s)[p - 1].mode = "block", LexTurns(s)[p - 1].depth = 1,
         LexTurns(s)[p - 1].held = <<>>
  PROVE  LET e == AfterBlock(s, p)
             l == LexTurns(s)[e - 1]
         IN /\ e \in p..(Len(s) + 1)
            /\ l.tokens = LexTurns(s)[p - 1].tokens
            /\ \/ l.mode = "text" /\ l.held = <<>>
               \/ l.mode = "block" /\ e = Len(s) + 1
<1> DEFINE N == Len(s)
           L == LexTurns(s)
           B == BlockTurns(s, p)
           t == L[p - 1].tokens
           Inv(b, l, k) ==
             /\ b.depth = 0 \/ b.i > N \/ b.i >= p + k
             /\ l.tokens = t
             /\ b.depth = 0 => l.mode = "text" /\ l.held = <<>>
             /\ b.depth > 0 => /\ l.mode = "block" /\ l.depth = b.depth
                               /\ b.i <= N => /\ ~(l.held = <<"/">> /\ s[b.i] = "*")
                                              /\ ~(l.held = <<"*">> /\ s[b.i] = "/")
           T == {k \in 0..N : Inv(B[k], L[B[k].i - 1], k)}
<1>1. N \in Nat /\ p \in Nat /\ p \in 1..(N + 1)
  OBVIOUS
<1>2. /\ B[0] = [i |-> p, depth |-> 1]
      /\ \A k \in 1..N : B[k] = BlockTurn(s, B[k - 1])
      /\ \A k \in 0..N : B[k] \in Blocks /\ B[k].i \in p..(N + 1)
  BY <1>1, BlockLoop
<1>3. /\ \A k \in 1..N : L[k] = LexTurn(L[k - 1], s[k])
      /\ \A k \in 0..N : L[k] \in Lexers(V)
      /\ \A k \in 1..N : s[k] \in V
  BY Lexing
<1>4. 0 \in T
  <2>1. B[0].i = p /\ B[0].depth = 1 /\ 0 \in 0..N
    BY <1>1, <1>2
  <2>2. ~(<<>> = <<"/">>) /\ ~(<<>> = <<"*">>)
    OBVIOUS
  <2> HIDE DEF L, B
  <2>3. L[p - 1].mode = "block" /\ L[p - 1].depth = 1 /\ L[p - 1].held = <<>>
    BY DEF L
  <2> DEFINE b == B[0]
             l == L[p - 1]
  <2> HIDE DEF b, l, t
  <2>4. b.i = p /\ b.depth = 1 /\ l.mode = "block" /\ l.depth = 1 /\ l.held = <<>> /\ l.tokens = t
    BY <2>1, <2>3 DEF b, l, t
  <2>5. b.i >= p + 0 /\ ~(b.depth = 0)
    BY <1>1, <2>4
  <2>6. Inv(b, l, 0)
    BY <2>2, <2>4, <2>5
  <2> QED
    BY <2>1, <2>6 DEF b, l
<1>5. ASSUME NEW k \in 1..N, k - 1 \in T
      PROVE  k \in T
  <2> DEFINE b == B[k - 1]
             n == B[k]
             i == b.i
             l == L[i - 1]
  <2>1. /\ b \in Blocks /\ i \in p..(N + 1) /\ n \in Blocks /\ n.i \in p..(N + 1)
        /\ n = BlockTurn(s, b)
    BY <1>1, <1>2
  <2>2. Inv(b, l, k - 1)
    BY <1>5
  <2>3. /\ i \in Nat /\ b.depth \in Nat /\ i > 0 /\ i - 1 \in 0..N /\ l \in Lexers(V)
        /\ i = b.i /\ l = L[i - 1] /\ k \in Nat
    BY <1>1, <1>3, <2>1 DEF Blocks
  <2> HIDE DEF b, n, i, l, L, B, t
  <2> DEFINE opens == i < N /\ s[i] = "/" /\ s[i + 1] = "*"
             closes == i < N /\ s[i] = "*" /\ s[i + 1] = "/"
  <2>4. /\ b.depth = 0 \/ i > N => n = b
        /\ b.depth > 0 /\ i <= N /\ opens => n.i = i + 2 /\ n.depth = b.depth + 1
        /\ b.depth > 0 /\ i <= N /\ closes => n.i = i + 2 /\ n.depth = b.depth - 1
        /\ b.depth > 0 /\ i <= N /\ ~opens /\ ~closes => n.i = i + 1 /\ n.depth = b.depth
    BY <2>1, <2>3, BlockTurnCases
  <2>5. Inv(n, L[n.i - 1], k)
    <3>1. CASE b.depth = 0 \/ i > N
      BY <2>2, <2>3, <2>4, <3>1
    <3>2. ASSUME b.depth > 0, i <= N
          PROVE  /\ L[i] = LexTurn(l, s[i]) /\ L[i] \in Lexers(V) /\ L[i].tokens = t
                 /\ L[i].mode = "block" /\ L[i].depth = b.depth /\ L[i].held = <<s[i]>>
                 /\ s[i] \in V /\ i \in 1..N
      <4>1. i \in 1..N
        BY <1>1, <2>3, <3>2
      <4>2. L[i] = LexTurn(l, s[i]) /\ L[i] \in Lexers(V) /\ s[i] \in V
        BY <1>3, <2>3, <4>1
      <4>3. /\ l.mode = "block" /\ l.depth = b.depth /\ l.tokens = t
            /\ ~(l.held = <<"/">> /\ s[i] = "*") /\ ~(l.held = <<"*">> /\ s[i] = "/")
        BY <2>2, <2>3, <3>2
      <4> DEFINE c == s[i]
                 m == LexTurn(l, c)
      <4>4. /\ ~(l.held = <<"/">> /\ c = "*") /\ ~(l.held = <<"*">> /\ c = "/")
            /\ c \in V /\ l \in Lexers(V) /\ l.mode = "block"
        BY <2>3, <4>2, <4>3
      <4> HIDE DEF c
      <4>5. m.mode = "block" /\ m.depth = l.depth /\ m.held = <<c>> /\ m.tokens = l.tokens
        BY <4>4, BlockTurnFields
      <4> QED
        BY <4>1, <4>2, <4>3, <4>5 DEF c
    <3>3. ASSUME b.depth > 0, i <= N, opens \/ closes
          PROVE  /\ n.i - 1 = i + 1
                 /\ L[i + 1].tokens = t /\ L[i + 1].held = <<>>
                 /\ opens => L[i + 1].mode = "block" /\ L[i + 1].depth = b.depth + 1
                 /\ closes => /\ L[i + 1].mode = IF b.depth = 1 THEN "text" ELSE "block"
                              /\ L[i + 1].depth = b.depth - 1
      <4>1. i + 1 \in 1..N /\ (i + 1) - 1 = i
        BY <1>1, <2>3, <3>3, SMTT(60)
      <4>2. L[i + 1] = LexTurn(L[i], s[i + 1]) /\ s[i + 1] \in V
        BY <1>3, <4>1
      <4>3. n.i - 1 = i + 1
        BY <2>3, <2>4, <3>3
      <4>4. /\ L[i].tokens = t /\ L[i].mode = "block" /\ L[i].depth = b.depth
            /\ L[i].held = <<s[i]>> /\ L[i] \in Lexers(V)
        BY <3>2, <3>3
      <4> DEFINE m == L[i]
                 c == s[i + 1]
      <4>5. CASE opens
        <5>1. m.held = <<"/">> /\ c = "*" /\ ~closes
          BY <4>4, <4>5
        <5>3. m \in Lexers(V) /\ c \in V /\ m.mode = "block"
          BY <4>2, <4>4
        <5> HIDE DEF m, c
        <5>2. /\ LexTurn(m, c).mode = "block" /\ LexTurn(m, c).depth = m.depth + 1
              /\ LexTurn(m, c).held = <<>> /\ LexTurn(m, c).tokens = m.tokens
          BY <4>2, <4>4, <5>1, <5>3, BlockTurnFields
        <5> QED
          BY <4>2, <4>3, <4>4, <5>1, <5>2 DEF m, c
      <4>6. CASE closes
        <5>1. m.held = <<"*">> /\ c = "/" /\ ~opens
          BY <4>4, <4>6
        <5>3. m \in Lexers(V) /\ c \in V /\ m.mode = "block"
          BY <4>2, <4>4
        <5> HIDE DEF m, c
        <5>2. /\ LexTurn(m, c).mode = IF m.depth = 1 THEN "text" ELSE "block"
              /\ LexTurn(m, c).depth = m.depth - 1
              /\ LexTurn(m, c).held = <<>> /\ LexTurn(m, c).tokens = m.tokens
          BY <4>2, <4>4, <5>1, <5>3, BlockTurnFields
        <5> QED
          BY <4>2, <4>3, <4>4, <5>1, <5>2 DEF m, c
      <4> QED
        BY <3>3, <4>5, <4>6
    <3>4. CASE b.depth > 0 /\ i <= N /\ opens
      <4>1. n.i = i + 2 /\ n.depth = b.depth + 1 /\ n.depth > 0
        BY <2>3, <2>4, <3>4, SMTT(60)
      <4>2. n.i >= p + k
        BY <1>1, <2>2, <2>3, <3>4, <4>1, SMTT(60)
      <4>3. /\ L[n.i - 1].tokens = t /\ L[n.i - 1].held = <<>> /\ L[n.i - 1].mode = "block"
            /\ L[n.i - 1].depth = n.depth
        BY <3>3, <3>4, <4>1
      <4>4. ~(<<>> = <<"/">>) /\ ~(<<>> = <<"*">>)
        OBVIOUS
      <4> QED
        BY <4>1, <4>2, <4>3, <4>4
    <3>5. CASE b.depth > 0 /\ i <= N /\ closes
      <4>1. n.i = i + 2 /\ n.depth = b.depth - 1
        BY <2>3, <2>4, <3>5
      <4>2. n.i >= p + k
        BY <1>1, <2>2, <2>3, <3>5, <4>1, SMTT(60)
      <4>3. /\ L[n.i - 1].tokens = t /\ L[n.i - 1].held = <<>>
            /\ L[n.i - 1].mode = IF b.depth = 1 THEN "text" ELSE "block"
            /\ L[n.i - 1].depth = n.depth
        BY <3>3, <3>5, <4>1
      <4>4. n.depth = 0 <=> b.depth = 1
        BY <2>3, <4>1
      <4>5. ~(<<>> = <<"/">>) /\ ~(<<>> = <<"*">>) /\ ~(n.depth = 0 /\ n.depth > 0)
        OBVIOUS
      <4> QED
        BY <4>1, <4>2, <4>3, <4>4, <4>5
    <3>6. CASE b.depth > 0 /\ i <= N /\ ~opens /\ ~closes
      <4>1. n.i = i + 1 /\ n.depth = b.depth /\ n.i - 1 = i
        BY <2>3, <2>4, <3>6
      <4>2. n.i >= p + k
        BY <1>1, <2>2, <2>3, <3>6, <4>1
      <4>3. /\ L[n.i - 1].tokens = t /\ L[n.i - 1].held = <<s[i]>> /\ L[n.i - 1].mode = "block"
            /\ L[n.i - 1].depth = n.depth
        BY <3>2, <3>6, <4>1
      <4>4. n.i <= N => /\ ~(<<s[i]>> = <<"/">> /\ s[n.i] = "*")
                        /\ ~(<<s[i]>> = <<"*">> /\ s[n.i] = "/")
        BY <2>3, <3>6, <4>1
      <4>5. ~(n.depth = 0)
        BY <3>6, <4>1
      <4> QED
        BY <4>2, <4>3, <4>4, <4>5
    <3>7. b.depth > 0 \/ b.depth = 0
      BY <2>3
    <3>8. i > N \/ i <= N
      BY <1>1, <2>3
    <3> QED
      BY <3>1, <3>4, <3>5, <3>6, <3>7, <3>8
  <2> HIDE DEF Inv
  <2> QED
    BY <1>1, <2>5 DEF n
<1>6. T = 0..N
  <2> HIDE DEF T, N
  <2>1. T \in SUBSET (0..N)
    BY DEF T
  <2> QED
    BY <1>1, <1>4, <1>5, <2>1, InductUpTo
<1>7. N \in 0..N /\ N \in T
  BY <1>1, <1>6
<1> DEFINE e == B[N].i
<1>8. AfterBlock(s, p) = e
  BY DEF AfterBlock
<1>9. B[N].depth \in Nat /\ e \in p..(N + 1) /\ e \in Nat
  BY <1>1, <1>2, <1>7 DEF Blocks
<1>10. Inv(B[N], L[e - 1], N)
  BY <1>7
<1>11. CASE B[N].depth = 0
  BY <1>8, <1>9, <1>10, <1>11
<1>12. CASE B[N].depth > 0
  <2>1. e = N + 1
    BY <1>1, <1>9, <1>10, <1>12
  <2> QED
    BY <1>8, <1>9, <1>10, <1>12, <2>1
<1> QED
  BY <1>9, <1>11, <1>12

\* Copying one symbol more.
LEMMA Copied ==
  ASSUME NEW V, NEW s \in Seq(V), NEW out \in Seq(V), NEW i \in 1..Len(s), NEW j \in i..Len(s)
  PROVE  /\ out \o SubSeq(s, i, j) \in Seq(V)
         /\ out \o SubSeq(s, i, i) = Append(out, s[i])
         /\ j < Len(s) => out \o SubSeq(s, i, j + 1) = Append(out \o SubSeq(s, i, j), s[j + 1])
<1>1. i \in Nat /\ j \in Nat /\ Len(s) \in Nat /\ 1 <= i /\ i <= j /\ j <= Len(s) /\ s[i] \in V
  OBVIOUS
<1>2. SubSeq(s, i, j) \in Seq(V)
  BY <1>1
<1>3. SubSeq(s, i, i) = <<s[i]>>
  <2>1. SubSeq(s, i, i) = SubSeq(s, i, i - 1) \o <<s[i]>> /\ SubSeq(s, i, i - 1) = <<>>
    BY <1>1, SubSeqRecursiveSecond, SubSeqEmpty
  <2>2. <<>> \o <<s[i]>> = <<s[i]>>
    BY <1>1
  <2> QED
    BY <2>1, <2>2
<1>4. ASSUME j < Len(s)
      PROVE  out \o SubSeq(s, i, j + 1) = Append(out \o SubSeq(s, i, j), s[j + 1])
  <2> DEFINE b == SubSeq(s, i, j)
             x == s[j + 1]
  <2>1. j + 1 \in i..Len(s) /\ (j + 1) - 1 = j /\ x \in V
    BY <1>1, <1>4
  <2>2. SubSeq(s, i, j + 1) = b \o <<x>>
    BY <2>1, SubSeqRecursiveSecond
  <2> HIDE DEF b, x
  <2>3. b \in Seq(V)
    BY <1>2 DEF b
  <2>4. out \o (b \o <<x>>) = Append(out \o b, x)
    BY <2>1, <2>3, ConcatAssociative, AppendIsConcat
  <2> QED
    BY <2>2, <2>4 DEF b, x
<1>5. out \o SubSeq(s, i, j) \in Seq(V)
  BY <1>2
<1>6. out \o <<s[i]>> = Append(out, s[i])
  BY <1>1, AppendIsConcat
<1> QED
  BY <1>3, <1>4, <1>5, <1>6

\* A quoted piece: it is copied as it is read, as the tokens it is.
LEMMA QuotedEnds ==
  ASSUME NEW V, NEW s \in Seq(V), NEW out \in Seq(V), NEW i \in 1..Len(s), s[i] \in Quotes,
         LexTurns(s)[Len(s)].plain,
         LexTurns(s)[i].mode = "quoted", LexTurns(s)[i].quote = s[i],
         LexTurns(s)[i].held = <<s[i]>>,
         PlacedIn(LexTurns(s)[i].tokens, LexTurns(s)[i].held, Append(out, s[i]))
  PROVE  LET e == AfterQuoted(s, s[i], i + 1)
             l == LexTurns(s)[e - 1]
             copied == out \o SubSeq(s, i, e - 1)
         IN /\ e \in (i + 1)..(Len(s) + 1)
            /\ copied \in Seq(V)
            /\ \/ InTextAt(l, copied) /\ l.held = <<>>
               \/ l.mode = "quoted" /\ e = Len(s) + 1 /\ PlacedIn(l.tokens, l.held, copied)
<1> DEFINE N == Len(s)
           L == LexTurns(s)
           q == s[i]
           B == QuotedTurns(s, q, i + 1)
           C(j) == out \o SubSeq(s, i, j)
           Inv(b, l, o, k) ==
             /\ b.depth = 0 \/ b.i > N \/ b.i >= i + 1 + k
             /\ b.depth = 0 => InTextAt(l, o) /\ l.held = <<>>
             /\ b.depth > 0 => /\ l.mode = "quoted" /\ l.quote = q /\ l.held # <<>>
                               /\ PlacedIn(l.tokens, l.held, o)
           T == {k \in 0..N : Inv(B[k], L[B[k].i - 1], C(B[k].i - 1), k)}
<1>1. /\ N \in Nat /\ i \in Nat /\ i \in 1..N /\ i + 1 \in 1..(N + 1) /\ (i + 1) - 1 = i
      /\ q \in V /\ q \in Quotes
  OBVIOUS
<1>2. /\ B[0] = [i |-> i + 1, depth |-> 1]
      /\ \A k \in 1..N : B[k] = QuotedTurn(s, q, B[k - 1])
      /\ \A k \in 0..N : B[k] \in Blocks /\ B[k].i \in (i + 1)..(N + 1)
  <2> DEFINE p == i + 1
  <2>1. p \in 1..(Len(s) + 1)
    BY <1>1
  <2> HIDE DEF p, q, N
  <2>2. LET turns == QuotedTurns(s, q, p)
        IN /\ turns[0] = [i |-> p, depth |-> 1]
           /\ \A k \in 1..Len(s) : turns[k] = QuotedTurn(s, q, turns[k - 1])
           /\ \A k \in 0..Len(s) : turns[k] \in Blocks /\ turns[k].i \in p..(Len(s) + 1)
    BY <2>1, QuotedLoop
  <2> QED
    BY <2>2 DEF p, N
<1>3. /\ \A k \in 1..N : L[k] = LexTurn(L[k - 1], s[k])
      /\ \A k \in 0..N : L[k] \in Lexers(V) /\ L[k].plain
      /\ \A k \in 1..N : s[k] \in V
  BY Lexing, PlainBefore
<1>4. /\ C(i) = Append(out, q)
      /\ \A j \in i..N : C(j) \in Seq(V) /\ (j < N => C(j + 1) = Append(C(j), s[j + 1]))
  <2>1. i \in i..Len(s)
    BY <1>1
  <2>2. out \o SubSeq(s, i, i) = Append(out, s[i])
    BY <2>1, Copied
  <2>3. ASSUME NEW j \in i..Len(s)
        PROVE  /\ out \o SubSeq(s, i, j) \in Seq(V)
               /\ j < Len(s) =>
                    out \o SubSeq(s, i, j + 1) = Append(out \o SubSeq(s, i, j), s[j + 1])
    <3>1. out \o SubSeq(s, i, j) \in Seq(V)
      BY Copied
    <3>2. j < Len(s) => out \o SubSeq(s, i, j + 1) = Append(out \o SubSeq(s, i, j), s[j + 1])
      BY Copied, SMTT(60)
    <3> QED
      BY <3>1, <3>2
  <2> QED
    BY <2>2, <2>3
<1>5. q \notin Identifier /\ q # "-" /\ q # "*"
  BY <1>1 DEF Quotes, Identifier, Words
<1>6. /\ L[i].mode = "quoted" /\ L[i].quote = q /\ L[i].held = <<q>>
      /\ PlacedIn(L[i].tokens, L[i].held, C(i))
  BY <1>4
<1> HIDE DEF L, B, C, q
<1>7. 0 \in T
  <2>1. B[0].i = i + 1 /\ B[0].depth = 1 /\ 0 \in 0..N /\ B[0].i - 1 = i
    BY <1>1, <1>2
  <2> DEFINE b == B[0]
             l == L[i]
             o == C(i)
  <2> HIDE DEF b, l, o
  <2>2. /\ b.i = i + 1 /\ b.depth = 1 /\ l.mode = "quoted" /\ l.quote = q /\ l.held = <<q>>
        /\ PlacedIn(l.tokens, l.held, o)
    BY <1>6, <2>1 DEF b, l, o
  <2>3. b.i >= i + 1 + 0 /\ ~(b.depth = 0) /\ <<q>> # <<>>
    BY <1>1, <2>2
  <2>4. Inv(b, l, o, 0)
    BY <2>2, <2>3
  <2> QED
    BY <2>1, <2>4 DEF b, l, o
<1>8. ASSUME NEW k \in 1..N, k - 1 \in T
      PROVE  k \in T
  <2> DEFINE b == B[k - 1]
             n == B[k]
             j == b.i
             l == L[j - 1]
             o == C(j - 1)
  <2>1. /\ b \in Blocks /\ j \in (i + 1)..(N + 1) /\ n \in Blocks /\ n.i \in (i + 1)..(N + 1)
        /\ n = QuotedTurn(s, q, b)
    BY <1>1, <1>2
  <2>2. Inv(b, l, o, k - 1)
    BY <1>8
  <2>3. /\ j \in Nat /\ b.depth \in Nat /\ j > 0 /\ j - 1 \in i..N /\ j - 1 \in 0..N
        /\ l \in Lexers(V) /\ o \in Seq(V)
        /\ j = b.i /\ l = L[j - 1] /\ o = C(j - 1) /\ k \in Nat /\ b.i > 0
    <3>1. j \in Nat /\ b.depth \in Nat
      BY <2>1 DEF Blocks
    <3> HIDE DEF b
    <3>2. j > 0 /\ j - 1 \in i..N /\ j - 1 \in 0..N /\ k \in Nat
      BY <1>1, <2>1, <3>1
    <3> QED
      BY <1>3, <1>4, <3>1, <3>2
  <2> HIDE DEF b, n, j, l, o
  <2> DEFINE doubled == j < N /\ s[j] = q /\ s[j + 1] = q
  <2>4. /\ b.depth = 0 \/ j > N => n = b
        /\ b.depth > 0 /\ j <= N /\ doubled => n.i = j + 2 /\ n.depth = 1
        /\ b.depth > 0 /\ j <= N /\ ~doubled =>
             n.i = j + 1 /\ n.depth = IF s[j] = q THEN 0 ELSE 1
    BY <2>1, <2>3, QuotedTurnCases, SMTT(60)
  <2>5. ASSUME b.depth > 0, j <= N
        PROVE  /\ j \in 1..N /\ s[j] \in V /\ L[j] \in Lexers(V)
               /\ C(j) \in Seq(V)
               /\ s[j] = q => InTextAt(L[j], C(j)) /\ L[j].held = <<>>
               /\ s[j] # q => /\ L[j].mode = "quoted" /\ L[j].quote = q /\ L[j].held # <<>>
                              /\ PlacedIn(L[j].tokens, L[j].held, C(j))
    <3> DEFINE c == s[j]
               m == L[j]
               o2 == C(j)
    <3>1. j \in 1..N /\ c \in V /\ m \in Lexers(V) /\ m = LexTurn(l, c)
      BY <1>1, <1>3, <2>3, <2>5, SMTT(60)
    <3>2. o2 = Append(o, c) /\ o2 \in Seq(V)
      <4>1. j - 1 < N /\ (j - 1) + 1 = j /\ j \in i..N
        BY <1>1, <2>3, <2>5
      <4> QED
        BY <1>4, <2>3, <4>1
    <3>3. /\ l.mode = "quoted" /\ l.quote = q /\ l.held # <<>> /\ PlacedIn(l.tokens, l.held, o)
          /\ l.tokens \in Seq(Seq(V)) /\ l.held \in Seq(V)
      BY <2>2, <2>3, <2>5 DEF Lexers
    <3> HIDE DEF c, m, o2
    <3>4. PlacedIn(l.tokens, Append(l.held, c), o2)
      BY <2>3, <3>1, <3>2, <3>3, Grow
    <3>5. Append(l.held, c) \in Seq(V) /\ Append(l.held, c) # <<>>
      <4>1. Append(l.held, c) \in Seq(V) /\ Len(Append(l.held, c)) > 0
        BY <3>1, <3>3
      <4> QED
        BY <4>1, NotEmpty
    <3>6. c = q => InTextAt(m, o2) /\ m.held = <<>>
      <4> SUFFICES ASSUME c = q
                   PROVE  InTextAt(m, o2) /\ m.held = <<>>
        OBVIOUS
      <4>1. /\ m.mode = "text" /\ m.held = <<>>
            /\ m.tokens = Append(l.tokens, Append(l.held, c))
        <5> DEFINE x == LexTurn(l, c)
        <5>1. c = l.quote /\ l.mode = "quoted" /\ l \in Lexers(V) /\ c \in V
          BY <2>3, <3>1, <3>3
        <5>2. /\ x.mode = "text" /\ x.held = <<>>
              /\ x.tokens = Append(l.tokens, Append(l.held, c))
          BY <5>1, QuotedTurnFields
        <5> QED
          BY <3>1, <5>2
      <4>2. PlacedIn(m.tokens, <<>>, o2)
        BY <3>2, <3>3, <3>4, <3>5, <4>1, Take
      <4>3. o2[Len(o2)] = c
        BY <2>3, <3>1, <3>2
      <4> QED
        BY <1>5, <4>1, <4>2, <4>3 DEF InTextAt
    <3>7. c # q => /\ m.mode = "quoted" /\ m.quote = q /\ m.held # <<>>
                   /\ PlacedIn(m.tokens, m.held, o2)
      <4> SUFFICES ASSUME c # q
                   PROVE  /\ m.mode = "quoted" /\ m.quote = q /\ m.held # <<>>
                          /\ PlacedIn(m.tokens, m.held, o2)
        OBVIOUS
      <4>1. /\ m.mode = "quoted" /\ m.quote = q /\ m.held = Append(l.held, c)
            /\ m.tokens = l.tokens
        <5> DEFINE x == LexTurn(l, c)
        <5>1. /\ x.mode = "quoted" /\ x.quote = l.quote /\ x.held = Append(l.held, c)
              /\ x.tokens = l.tokens
          <6>1. c # l.quote /\ l.mode = "quoted" /\ l \in Lexers(V) /\ c \in V
            BY <2>3, <3>1, <3>3
          <6> QED
            BY <6>1, QuotedTurnFields
        <5> QED
          BY <3>1, <3>3, <5>1
      <4> QED
        BY <3>4, <3>5, <4>1
    <3> QED
      BY <3>1, <3>2, <3>6, <3>7 DEF c, m, o2
  <2>6. b.depth > 0 /\ j <= N => j >= i + k
    <3>1. b.depth = 0 \/ b.i > N \/ b.i >= i + 1 + (k - 1)
      BY <2>2
    <3> QED
      BY <1>1, <2>3, <3>1, SMTT(60)
  <2>7. Inv(n, L[n.i - 1], C(n.i - 1), k)
    <3>1. CASE b.depth = 0 \/ j > N
      BY <2>2, <2>3, <2>4, <3>1
    <3>2. CASE b.depth > 0 /\ j <= N /\ doubled
      <4>1. n.i = j + 2 /\ n.depth = 1 /\ n.i - 1 = j + 1 /\ ~(n.depth = 0)
        <5> HIDE DEF doubled
        <5>1. n.i = j + 2 /\ n.depth = 1
          BY <2>4, <3>2
        <5> QED
          BY <2>3, <5>1
      <4>2. n.i >= i + 1 + k
        BY <1>1, <2>3, <2>6, <3>2, <4>1
      <4>3. j + 1 \in 1..N /\ (j + 1) - 1 = j /\ j < N /\ j \in i..N
        <5>1. j < N
          BY <3>2
        <5> HIDE DEF doubled
        <5> QED
          BY <1>1, <2>3, <5>1, SMTT(60)
      <4> DEFINE c == s[j + 1]
                 m == L[j]
                 o2 == C(j)
      <4>4. /\ L[j + 1] = LexTurn(m, c) /\ L[j + 1].plain /\ c \in V /\ c = q
            /\ C(j + 1) = Append(o2, c)
            /\ InTextAt(m, o2) /\ m.held = <<>> /\ m \in Lexers(V) /\ o2 \in Seq(V)
        BY <1>3, <1>4, <2>5, <3>2, <4>3, SMTT(60)
      <4> HIDE DEF c, m, o2
      <4>5. ~Half(m, c)
        BY <1>5, <4>4 DEF Half
      <4>6. c \in Quotes
        BY <1>1, <4>4
      <4> DEFINE x == LexTurn(m, c)
      <4>7. /\ x.mode = "quoted" /\ x.quote = c /\ x.held = <<c>>
            /\ PlacedIn(x.tokens, x.held, Append(o2, c))
        BY <4>4, <4>5, <4>6, TextReads
      <4>8. /\ L[n.i - 1].mode = "quoted" /\ L[n.i - 1].quote = q /\ L[n.i - 1].held # <<>>
            /\ PlacedIn(L[n.i - 1].tokens, L[n.i - 1].held, C(n.i - 1))
        <5>1. <<c>> # <<>>
          OBVIOUS
        <5> QED
          BY <4>1, <4>4, <4>7, <5>1
      <4> QED
        BY <4>1, <4>2, <4>8
    <3>3. CASE b.depth > 0 /\ j <= N /\ ~doubled
      <4>1. n.i = j + 1 /\ n.i - 1 = j /\ n.depth = IF s[j] = q THEN 0 ELSE 1
        BY <2>3, <2>4, <3>3
      <4>2. n.i >= i + 1 + k
        BY <1>1, <2>3, <2>6, <3>3, <4>1
      <4>3. /\ s[j] = q => InTextAt(L[j], C(j)) /\ L[j].held = <<>>
            /\ s[j] # q => /\ L[j].mode = "quoted" /\ L[j].quote = q /\ L[j].held # <<>>
                           /\ PlacedIn(L[j].tokens, L[j].held, C(j))
        BY <2>5, <3>3
      <4> HIDE DEF N
      <4> QED
        BY <4>1, <4>2, <4>3
    <3>4. b.depth > 0 \/ b.depth = 0
      BY <2>3
    <3>5. j > N \/ j <= N
      BY <1>1, <2>3
    <3> QED
      BY <3>1, <3>2, <3>3, <3>4, <3>5
  <2> HIDE DEF Inv
  <2> QED
    BY <1>1, <2>7 DEF n
<1>9. T = 0..N
  <2> HIDE DEF T, N
  <2>1. T \in SUBSET (0..N)
    BY DEF T
  <2> QED
    BY <1>1, <1>7, <1>8, <2>1, InductUpTo
<1>10. N \in 0..N /\ N \in T
  BY <1>1, <1>9
<1> DEFINE e == B[N].i
<1>11. AfterQuoted(s, q, i + 1) = e
  BY DEF AfterQuoted, B
<1>12. B[N].depth \in Nat /\ e \in (i + 1)..(N + 1) /\ e \in Nat /\ e - 1 \in i..N
  BY <1>1, <1>2, <1>10, SMTT(60) DEF Blocks
<1>13. Inv(B[N], L[e - 1], C(e - 1), N)
  BY <1>10
<1>14. C(e - 1) \in Seq(V)
  BY <1>4, <1>12
<1>15. \/ InTextAt(L[e - 1], C(e - 1)) /\ L[e - 1].held = <<>>
       \/ L[e - 1].mode = "quoted" /\ e = N + 1 /\ PlacedIn(L[e - 1].tokens, L[e - 1].held, C(e - 1))
  <2>1. CASE B[N].depth = 0
    BY <1>13, <2>1
  <2>2. CASE B[N].depth > 0
    <3>1. e > N \/ e >= i + 1 + N
      BY <1>12, <1>13, <2>2
    <3>2. e = N + 1
      <4> HIDE DEF e
      <4> QED
        BY <1>1, <1>12, <3>1
    <3> QED
      BY <1>13, <2>2, <3>2
  <2> QED
    BY <1>12, <2>1, <2>2
<1> HIDE DEF e
<1> QED
  BY <1>11, <1>12, <1>14, <1>15 DEF L, C, q

\* A piece of a text, one symbol longer.
LEMMA SubSeqGrows ==
  ASSUME NEW V, NEW s \in Seq(V), NEW i \in 1..(Len(s) + 1), NEW j \in (i - 1)..Len(s)
  PROVE  /\ SubSeq(s, i, j) \in Seq(V)
         /\ Len(SubSeq(s, i, j)) = j - i + 1
         /\ \A r \in 1..(j - i + 1) : SubSeq(s, i, j)[r] = s[i + r - 1]
         /\ j < Len(s) => SubSeq(s, i, j + 1) = Append(SubSeq(s, i, j), s[j + 1])
<1>1. i \in Nat /\ j \in Int /\ Len(s) \in Nat /\ 1 <= i /\ i - 1 <= j /\ j <= Len(s)
  OBVIOUS
<1>2. \A r \in i..j : s[r] \in V
  BY <1>1
<1>3. /\ SubSeq(s, i, j) \in Seq(V)
      /\ Len(SubSeq(s, i, j)) = IF i <= j THEN j - i + 1 ELSE 0
      /\ \A r \in 1..(j - i + 1) : SubSeq(s, i, j)[r] = s[i + r - 1]
  BY <1>1, <1>2, SubSeqProperties
<1>4. Len(SubSeq(s, i, j)) = j - i + 1
  BY <1>1, <1>3
<1>5. ASSUME j < Len(s)
      PROVE  SubSeq(s, i, j + 1) = Append(SubSeq(s, i, j), s[j + 1])
  <2>1. i \in 1..Len(s) /\ j + 1 \in i..Len(s) /\ (j + 1) - 1 = j /\ s[j + 1] \in V
    BY <1>1, <1>5
  <2>2. SubSeq(s, i, j + 1) = SubSeq(s, i, j) \o <<s[j + 1]>>
    BY <2>1, SubSeqRecursiveSecond
  <2> QED
    BY <1>3, <2>1, <2>2, AppendIsConcat
<1> QED
  BY <1>3, <1>4, <1>5

\* A word in a tag is held back.
LEMMA TagWord ==
  ASSUME NEW V, NEW l \in Lexers(V), NEW c \in Words, l.mode = "tag"
  PROVE  LET n == LexTurn(l, c)
         IN n.mode = "tag" /\ n.held = Append(l.held, c) /\ n.tokens = l.tokens
<1> DEFINE n == LexTurn(l, c)
<1>1. n = [l EXCEPT !.held = Append(@, c)]
  BY DEF LexTurn, InTag, Words
<1> QED
  BY <1>1 DEF Lexers

\* A tag that may open a dollar quote: words are held back.
LEMMA TagRun ==
  ASSUME NEW V, NEW s \in Seq(V), NEW i \in 1..Len(s), NEW m \in i..Len(s),
         LexTurns(s)[i].mode = "tag", LexTurns(s)[i].held = <<s[i]>>,
         \A j \in (i + 1)..m : s[j] \in Words
  PROVE  /\ LexTurns(s)[m].mode = "tag" /\ LexTurns(s)[m].held = SubSeq(s, i, m)
         /\ LexTurns(s)[m].tokens = LexTurns(s)[i].tokens
<1> DEFINE L == LexTurns(s)
           t == L[i].tokens
           Inv(k) == L[k].mode = "tag" /\ L[k].held = SubSeq(s, i, k) /\ L[k].tokens = t
           S == {k \in i..m : Inv(k)}
<1>1. i \in Int /\ m \in Int
  OBVIOUS
<1>2. i \in S
  <2>1. SubSeq(s, i, i) = <<s[i]>>
    <3>1. SubSeq(s, i, i) = SubSeq(s, i, i - 1) \o <<s[i]>> /\ SubSeq(s, i, i - 1) = <<>>
      BY <1>1, SubSeqRecursiveSecond, SubSeqEmpty
    <3>2. <<>> \o <<s[i]>> = <<s[i]>>
      OBVIOUS
    <3> QED
      BY <3>1, <3>2
  <2> QED
    BY <2>1
<1>3. ASSUME NEW k \in (i + 1)..m, k - 1 \in S
      PROVE  k \in S
  <2>1. /\ k \in i..m /\ k \in 1..Len(s) /\ k - 1 \in 0..Len(s) /\ s[k] \in V
        /\ s[k] \in Words /\ k - 1 \in (i - 1)..Len(s) /\ k - 1 < Len(s) /\ (k - 1) + 1 = k
        /\ i \in 1..(Len(s) + 1)
    OBVIOUS
  <2> DEFINE l == L[k - 1]
             c == s[k]
             x == LexTurn(l, c)
  <2>2. L[k] = x /\ l \in Lexers(V)
    BY <2>1, Lexing
  <2>3. l.mode = "tag" /\ l.held = SubSeq(s, i, k - 1) /\ l.tokens = t
    BY <1>3
  <2>4. SubSeq(s, i, k) = Append(SubSeq(s, i, k - 1), c)
    BY <2>1, SubSeqGrows
  <2> HIDE DEF l, c, L
  <2>5. c \in V /\ c \in Words
    BY <2>1 DEF c
  <2>6. x.mode = "tag" /\ x.held = Append(l.held, c) /\ x.tokens = l.tokens
    BY <2>2, <2>3, <2>5, TagWord
  <2> QED
    BY <2>1, <2>2, <2>3, <2>4, <2>6
<1>4. \A k \in i..m : k \in S
  <2> HIDE DEF S
  <2> QED
    BY <1>1, <1>2, <1>3, InductFrom
<1>5. m \in S
  BY <1>4
<1> QED
  BY <1>5

\* A $ that opens nothing is followed by nothing but words.
LEMMA TailWords ==
  ASSUME NEW V, NEW s \in Seq(V), NEW i \in 1..Len(s), s[i] = "$",
         LexTurns(s)[i].mode = "tag", LexTurns(s)[i].held = <<s[i]>>,
         DollarTag(s, i) = <<>>, LexTurns(s)[Len(s)].plain
  PROVE  \A j \in (i + 1)..Len(s) : s[j] \in Words
<1> DEFINE T == {j \in (i + 1)..Len(s) : s[j] \notin Words}
<1> SUFFICES ASSUME T # {}
             PROVE  FALSE
  OBVIOUS
<1>1. T \in SUBSET Nat
  OBVIOUS
<1>2. PICK j \in T : \A r \in T : j <= r
  <2> HIDE DEF T
  <2> QED
    BY <1>1, Least
<1>3. /\ j \in (i + 1)..Len(s) /\ s[j] \notin Words /\ j \in 1..Len(s) /\ j - 1 \in i..Len(s)
      /\ s[j] \in V /\ j - 1 \in 0..Len(s) /\ j \in Nat /\ i \in Nat /\ Len(s) \in Nat
  OBVIOUS
<1>4. \A r \in (i + 1)..(j - 1) : s[r] \in Words
  <2> SUFFICES ASSUME NEW r \in (i + 1)..(j - 1), s[r] \notin Words
               PROVE  FALSE
    OBVIOUS
  <2>1. r \in T /\ ~(j <= r)
    BY <1>3
  <2> QED
    BY <1>2, <2>1
<1>5. LexTurns(s)[j - 1].mode = "tag"
  BY <1>3, <1>4, TagRun
<1>6. LexTurns(s)[j] = LexTurn(LexTurns(s)[j - 1], s[j]) /\ LexTurns(s)[j - 1] \in Lexers(V)
  BY <1>3, Lexing
<1>7. LexTurns(s)[j].plain
  BY <1>3, PlainBefore
<1>8. s[j] = "$"
  <2> DEFINE l == LexTurns(s)[j - 1]
             c == s[j]
  <2> HIDE DEF l, c
  <2>1. l.mode = "tag" /\ l \in Lexers(V) /\ c \in V /\ LexTurn(l, c).plain /\ c \notin Words
    BY <1>3, <1>5, <1>6, <1>7 DEF l, c
  <2>2. c # "$" => ~LexTurn(l, c).plain
    BY <2>1, TagTurn
  <2> QED
    BY <2>1, <2>2 DEF c
<1> DEFINE close == IndexFrom(s, <<"$">>, i + 1)
<1>9. close = j
  <2>1. OccursAt(s, <<"$">>, j)
    BY <1>3, <1>8, OccursOne
  <2>2. i + 1 \in Nat
    BY <1>3
  <2>3. \/ close = 0 /\ \A r \in (i + 1)..Len(s) : ~OccursAt(s, <<"$">>, r)
        \/ /\ close \in (i + 1)..Len(s) /\ OccursAt(s, <<"$">>, close)
           /\ \A r \in (i + 1)..(close - 1) : ~OccursAt(s, <<"$">>, r)
    BY <1>3, <2>2, FirstOccurrence
  <2> HIDE DEF close
  <2>4. close \in (i + 1)..Len(s) /\ OccursAt(s, <<"$">>, close) /\ close <= j
    BY <1>3, <2>1, <2>3
  <2>5. s[close] = "$"
    BY <1>3, <2>4, OccursOne
  <2>6. s[close] \notin Words
    BY <2>5 DEF Words
  <2>7. ~(close \in (i + 1)..(j - 1))
    BY <1>4, <2>6
  <2> QED
    BY <1>3, <2>4, <2>7
<1>10. s[i] # "$" \/ close = 0 \/ \E r \in (i + 1)..(close - 1) : s[r] \notin Words
  <2>1. s[close] # "$" \/ DollarTag(s, i) = <<>>
    OBVIOUS
  <2> QED
    BY TagShape
<1> HIDE DEF close
<1> QED
  BY <1>3, <1>4, <1>9, <1>10

\* A tag at the end of what has been read is a tag in the text.
LEMMA OccursAtEnd ==
  ASSUME NEW V, NEW s \in Seq(V), NEW tag \in Seq(V),
         NEW i \in 1..(Len(s) + 1), NEW j \in (i - 1)..Len(s)
  PROVE  LET x == SubSeq(s, i, j)
             p == j - Len(tag) + 1
         IN OccursAt(x, tag, Len(x) - Len(tag) + 1) <=> i <= p /\ OccursAt(s, tag, p)
<1> DEFINE x == SubSeq(s, i, j)
           p == j - Len(tag) + 1
           k == Len(tag)
           d == Len(x) - k + 1
<1>1. i \in Nat /\ j \in Int /\ Len(s) \in Nat /\ 1 <= i /\ i - 1 <= j /\ j <= Len(s) /\ k \in Nat
  OBVIOUS
<1>2. Len(x) = j - i + 1 /\ \A r \in 1..(j - i + 1) : x[r] = s[i + r - 1]
  BY SubSeqGrows
<1> HIDE DEF x, k
<1>3. d = p - i + 1 /\ p = j - k + 1
  BY <1>1, <1>2 DEF k
<1>4. OccursAt(x, tag, d) <=> 1 <= d /\ d + k - 1 <= Len(x) /\ \A r \in 1..k : x[d + r - 1] = tag[r]
  BY DEF OccursAt, k
<1>5. OccursAt(s, tag, p) <=> 1 <= p /\ p + k - 1 <= Len(s) /\ \A r \in 1..k : s[p + r - 1] = tag[r]
  BY DEF OccursAt, k
<1>6. ASSUME i <= p, NEW r \in 1..k
      PROVE  x[d + r - 1] = s[p + r - 1]
  <2>1. d + r - 1 \in 1..(j - i + 1) /\ i + (d + r - 1) - 1 = p + r - 1
    BY <1>1, <1>3, <1>6
  <2> QED
    BY <1>2, <2>1
<1> HIDE DEF d, p
<1>7. (1 <= d <=> i <= p) /\ d + k - 1 <= Len(x) /\ p + k - 1 <= Len(s) /\ (i <= p => 1 <= p)
  BY <1>1, <1>2, <1>3
<1>8. OccursAt(x, tag, d) <=> i <= p /\ OccursAt(s, tag, p)
  BY <1>4, <1>5, <1>6, <1>7
<1> QED
  BY <1>8 DEF x, p, d, k

\* Inside a dollar quote: everything is held back until the tag comes again.
LEMMA DollarRun ==
  ASSUME NEW V, NEW s \in Seq(V), NEW p \in 1..Len(s), NEW m \in p..Len(s), NEW tag \in Seq(V),
         LexTurns(s)[p].mode = "dollar", LexTurns(s)[p].quote = tag, LexTurns(s)[p].held = <<>>,
         \A j \in (p + 1)..Len(s) : j + Len(tag) - 1 <= m => ~OccursAt(s, tag, j)
  PROVE  /\ LexTurns(s)[m].mode = "dollar" /\ LexTurns(s)[m].quote = tag
         /\ LexTurns(s)[m].held = SubSeq(s, p + 1, m)
         /\ LexTurns(s)[m].tokens = LexTurns(s)[p].tokens
<1> DEFINE L == LexTurns(s)
           t == L[p].tokens
           Inv(k) == /\ L[k].mode = "dollar" /\ L[k].quote = tag
                     /\ L[k].held = SubSeq(s, p + 1, k) /\ L[k].tokens = t
           S == {k \in p..m : Inv(k)}
<1>1. p \in Int /\ m \in Int /\ Len(tag) \in Nat /\ Len(s) \in Nat
  OBVIOUS
<1>2. p \in S
  <2>1. SubSeq(s, p + 1, p) = <<>>
    BY <1>1, SubSeqEmpty
  <2>2. p \in p..m
    OBVIOUS
  <2>3. Inv(p)
    BY <2>1
  <2> HIDE DEF Inv
  <2> QED
    BY <2>2, <2>3
<1>3. ASSUME NEW k \in (p + 1)..m, k - 1 \in S
      PROVE  k \in S
  <2>1. /\ k \in p..m /\ k \in 1..Len(s) /\ k - 1 \in 0..Len(s) /\ s[k] \in V
        /\ p + 1 \in 1..(Len(s) + 1) /\ k - 1 \in ((p + 1) - 1)..Len(s) /\ k \in ((p + 1) - 1)..Len(s)
        /\ k - 1 < Len(s) /\ (k - 1) + 1 = k /\ k \in Nat
    OBVIOUS
  <2> DEFINE l == L[k - 1]
             c == s[k]
             x == LexTurn(l, c)
             inside == SubSeq(s, p + 1, k)
             ends == OccursAt(inside, tag, Len(inside) - Len(tag) + 1)
  <2>2. L[k] = x /\ l \in Lexers(V)
    BY <2>1, Lexing
  <2>3. l.mode = "dollar" /\ l.quote = tag /\ l.held = SubSeq(s, p + 1, k - 1) /\ l.tokens = t
    BY <1>3
  <2>4. inside = Append(SubSeq(s, p + 1, k - 1), c)
    BY <2>1, SubSeqGrows
  <2>5. ~ends
    <3> DEFINE q == k - Len(tag) + 1
    <3>1. ends <=> p + 1 <= q /\ OccursAt(s, tag, q)
      BY <2>1, OccursAtEnd
    <3>2. p + 1 <= q /\ OccursAt(s, tag, q) => q \in (p + 1)..Len(s) /\ q + Len(tag) - 1 <= m
      <4>1. OccursAt(s, tag, q) => q + Len(tag) - 1 <= Len(s)
        BY DEF OccursAt
      <4>2. q <= Len(s) \/ Len(tag) = 0
        BY <1>1, <2>1
      <4>3. CASE Len(tag) = 0
        <5>1. tag = <<>> /\ l.held \in Seq(V)
          BY <2>2, <4>3 DEF Lexers
        <5>2. \A j \in (p + 1)..Len(s) : OccursAt(s, tag, j)
          BY <1>1, <4>3 DEF OccursAt
        <5>3. k \in (p + 1)..Len(s) /\ k + Len(tag) - 1 <= m
          BY <1>1, <2>1, <4>3
        <5> QED
          BY <5>2, <5>3
      <4> QED
        BY <1>1, <2>1, <4>2, <4>3
    <3> QED
      BY <3>1, <3>2
  <2> HIDE DEF l, c, L, ends
  <2>6. c \in V
    BY <2>1 DEF c
  <2>7. Append(l.held, c) = inside
    BY <2>3, <2>4
  <2>8. ~OccursAt(Append(l.held, c), l.quote, Len(Append(l.held, c)) - Len(l.quote) + 1)
    BY <2>3, <2>5, <2>7 DEF ends
  <2> HIDE DEF inside
  <2>9. x.mode = "dollar" /\ x.quote = l.quote /\ x.held = Append(l.held, c) /\ x.tokens = l.tokens
    BY <2>2, <2>3, <2>6, <2>8, DollarTurn
  <2>10. Inv(k)
    BY <2>2, <2>3, <2>7, <2>9 DEF inside
  <2> QED
    BY <2>1, <2>10
<1>4. \A k \in p..m : k \in S
  <2> HIDE DEF S
  <2> QED
    BY <1>1, <1>2, <1>3, InductFrom
<1>5. m \in S
  BY <1>4
<1> QED
  BY <1>5

\* A $ closes the tag of a dollar quote.
LEMMA TagCloses ==
  ASSUME NEW V, NEW l \in Lexers(V), NEW c, c = "$", l.mode = "tag"
  PROVE  LET n == LexTurn(l, c)
         IN /\ n.mode = "dollar" /\ n.quote = Append(l.held, c)
            /\ n.held = <<>> /\ n.tokens = l.tokens
<1> DEFINE n == LexTurn(l, c)
<1>1. n = InTag(l, c)
  BY DEF LexTurn
<1>2. n = [l EXCEPT !.mode = "dollar", !.quote = Append(l.held, c), !.held = <<>>]
  BY <1>1 DEF InTag, Words
<1> QED
  BY <1>2 DEF Lexers

\* A dollar quote: when the scan is past it so is the lexer, unless it is never
\* closed, and its token is the tag.
LEMMA DollarEnds ==
  ASSUME NEW V, NEW s \in Seq(V), NEW i \in 1..Len(s),
         LexTurns(s)[i].mode = "tag", LexTurns(s)[i].held = <<s[i]>>, DollarTag(s, i) # <<>>
  PROVE  LET tag == DollarTag(s, i)
             close == IndexFrom(s, tag, i + Len(tag))
             e == close + Len(tag)
             L == LexTurns(s)
         IN /\ tag \in Seq(V) /\ Len(tag) >= 2
            /\ close = 0 => L[Len(s)].mode = "dollar" /\ L[Len(s)].tokens = L[i].tokens
            /\ close # 0 => /\ e \in (i + 1)..(Len(s) + 1)
                            /\ L[e - 1].mode = "text" /\ L[e - 1].held = <<>>
                            /\ L[e - 1].tokens = Append(L[i].tokens, tag)
<1> DEFINE tag == DollarTag(s, i)
           p == IndexFrom(s, <<"$">>, i + 1)
           L == LexTurns(s)
           t == L[i].tokens
           N == Len(s)
<1>1. /\ tag = SubSeq(s, i, p) /\ tag \in Seq(V) /\ p \in (i + 1)..N /\ Len(tag) = p - i + 1
      /\ s[p] = "$" /\ \A j \in (i + 1)..(p - 1) : s[j] \in Words
  BY TagShape
<1> HIDE DEF p, tag
<1>2. /\ p \in Nat /\ i \in Nat /\ N \in Nat /\ i < p /\ p <= N /\ p \in 1..N /\ p - 1 \in 0..N
      /\ p - 1 \in i..N /\ i + Len(tag) = p + 1 /\ Len(tag) >= 2 /\ Len(tag) \in Nat
  BY <1>1, SMTT(60)
<1>3. L[p - 1].mode = "tag" /\ L[p - 1].held = SubSeq(s, i, p - 1) /\ L[p - 1].tokens = t
  BY <1>1, <1>2, TagRun
<1>4. L[p] = LexTurn(L[p - 1], s[p]) /\ L[p - 1] \in Lexers(V)
  BY <1>1, <1>2, Lexing
<1>5. tag = Append(SubSeq(s, i, p - 1), "$")
  <2>1. i \in 1..(Len(s) + 1) /\ p - 1 \in (i - 1)..Len(s) /\ p - 1 < Len(s) /\ (p - 1) + 1 = p
    BY <1>2
  <2> QED
    BY <1>1, <2>1, SubSeqGrows
<1> DEFINE l == L[p - 1]
           u == s[p]
           x == LexTurn(l, u)
<1>6. L[p].mode = "dollar" /\ L[p].quote = tag /\ L[p].held = <<>> /\ L[p].tokens = t
  <2> HIDE DEF l, u
  <2>1. /\ l.mode = "tag" /\ l \in Lexers(V) /\ l.held = SubSeq(s, i, p - 1) /\ l.tokens = t /\ L[p] = x
        /\ u = "$"
    BY <1>1, <1>3, <1>4 DEF l, u
  <2>2. x.mode = "dollar" /\ x.quote = Append(l.held, u) /\ x.held = <<>> /\ x.tokens = l.tokens
    BY <2>1, TagCloses
  <2> QED
    BY <1>5, <2>1, <2>2
<1> DEFINE close == IndexFrom(s, tag, p + 1)
           e == close + Len(tag)
<1>7. \/ close = 0 /\ \A j \in (p + 1)..N : ~OccursAt(s, tag, j)
      \/ /\ close \in (p + 1)..N /\ OccursAt(s, tag, close)
         /\ \A j \in (p + 1)..(close - 1) : ~OccursAt(s, tag, j)
  <2>1. p + 1 \in Nat
    BY <1>2
  <2> QED
    BY <1>2, <2>1, FirstOccurrence
<1> HIDE DEF close
<1>8. ASSUME close = 0
      PROVE  L[N].mode = "dollar" /\ L[N].tokens = t
  <2>1. \A j \in (p + 1)..N : ~OccursAt(s, tag, j)
    BY <1>2, <1>7, <1>8
  <2>2. N \in p..N
    BY <1>2
  <2> QED
    BY <1>1, <1>2, <1>6, <2>1, <2>2, DollarRun
<1>9. ASSUME close # 0
      PROVE  /\ e \in (i + 1)..(N + 1) /\ L[e - 1].mode = "text" /\ L[e - 1].held = <<>>
             /\ L[e - 1].tokens = Append(t, tag)
  <2>1. close \in (p + 1)..N /\ OccursAt(s, tag, close) /\ close \in Nat
        /\ \A j \in (p + 1)..(close - 1) : ~OccursAt(s, tag, j)
    BY <1>2, <1>7, <1>9
  <2>2. e - 1 <= N
    BY <1>2, <2>1 DEF OccursAt
  <2> DEFINE d == e - 1
             m == d - 1
  <2>3. /\ d \in 1..N /\ m \in p..N /\ m \in 0..N /\ d = m + 1 /\ d \in Nat /\ d = close + Len(tag) - 1
        /\ e \in (i + 1)..(N + 1)
    BY <1>2, <2>1, <2>2
  <2> HIDE DEF d, e
  <2>4. /\ L[m].mode = "dollar" /\ L[m].quote = tag /\ L[m].held = SubSeq(s, p + 1, m)
        /\ L[m].tokens = t
    <3>1. ASSUME NEW j \in (p + 1)..N, j + Len(tag) - 1 <= m
          PROVE  ~OccursAt(s, tag, j)
      <4>1. j \in (p + 1)..(close - 1)
        BY <1>2, <2>1, <2>3, <3>1
      <4> QED
        BY <2>1, <4>1
    <3> HIDE DEF m
    <3>2. \A j \in (p + 1)..Len(s) : j + Len(tag) - 1 <= m => ~OccursAt(s, tag, j)
      BY <3>1
    <3>3. /\ p \in 1..Len(s) /\ m \in p..Len(s) /\ tag \in Seq(V)
          /\ LexTurns(s)[p].mode = "dollar" /\ LexTurns(s)[p].quote = tag
          /\ LexTurns(s)[p].held = <<>>
      BY <1>1, <1>2, <1>6, <2>3
    <3> HIDE DEF L, N, t
    <3>4. /\ LexTurns(s)[m].mode = "dollar" /\ LexTurns(s)[m].quote = tag
          /\ LexTurns(s)[m].held = SubSeq(s, p + 1, m)
          /\ LexTurns(s)[m].tokens = LexTurns(s)[p].tokens
      BY <3>2, <3>3, DollarRun
    <3> QED
      BY <1>6, <3>4 DEF L
  <2>5. L[d] = LexTurn(L[m], s[d]) /\ L[m] \in Lexers(V) /\ s[d] \in V
    BY <2>3, Lexing
  <2> DEFINE inside == SubSeq(s, p + 1, d)
             k == L[m]
             c == s[d]
             y == LexTurn(k, c)
  <2>6. p + 1 \in 1..(Len(s) + 1) /\ m \in ((p + 1) - 1)..Len(s) /\ d \in ((p + 1) - 1)..Len(s) /\ m < Len(s)
    BY <1>2, <2>3
  <2>7. inside = Append(SubSeq(s, p + 1, m), c)
    <3> HIDE DEF m
    <3> QED
      BY <2>3, <2>6, SubSeqGrows
  <2>8. OccursAt(inside, tag, Len(inside) - Len(tag) + 1)
    <3>1. d - Len(tag) + 1 = close /\ p + 1 <= close
      BY <1>2, <2>1, <2>3
    <3> QED
      BY <1>1, <2>1, <2>6, <3>1, OccursAtEnd
  <2> HIDE DEF k, c, inside, m
  <2>9. /\ k \in Lexers(V) /\ c \in V /\ k.mode = "dollar" /\ k.quote = tag
        /\ Append(k.held, c) = inside /\ k.tokens = t /\ L[d] = y
    BY <2>4, <2>5, <2>7 DEF k, c
  <2>10. OccursAt(Append(k.held, c), k.quote, Len(Append(k.held, c)) - Len(k.quote) + 1)
    BY <2>8, <2>9
  <2>11. y.mode = "text" /\ y.held = <<>> /\ y.tokens = Append(k.tokens, k.quote)
    BY <2>9, <2>10, DollarTurn
  <2> QED
    BY <2>3, <2>9, <2>11 DEF d
<1>10. IndexFrom(s, tag, i + Len(tag)) = close
  BY <1>2 DEF close
<1> QED
  BY <1>1, <1>2, <1>8, <1>9, <1>10 DEF tag

\* A line comment that is met in text: the lexer is back in text when the scan
\* has written the end of the line, unless there is none.
LEMMA LineMet ==
  ASSUME NEW V, Blanks \subseteq V, NEW s \in Seq(V), LexTurns(s)[Len(s)].plain,
         NEW i \in 1..Len(s), NEW out \in Seq(V),
         InTextAt(LexTurns(s)[i - 1], out), ~Half(LexTurns(s)[i - 1], s[i]),
         i < Len(s), s[i] = "-", s[i + 1] = "-"
  PROVE  LET newline == IndexFrom(s, <<"nl">>, i)
             L == LexTurns(s)
         IN /\ newline = 0 => /\ L[Len(s)].mode \in Commented
                              /\ PlacedIn(L[Len(s)].tokens, <<>>, out)
            /\ newline # 0 => /\ newline \in i..Len(s)
                              /\ InTextAt(L[newline], Append(out, "nl"))
                              /\ L[newline].held = <<>>
<1> DEFINE newline == IndexFrom(s, <<"nl">>, i)
           L == LexTurns(s)
           N == Len(s)
           a == L[i - 1]
           b == L[i]
           c == L[i + 1]
           d == s[i]
           e == s[i + 1]
<1>1. /\ i \in Nat /\ N \in Nat /\ i - 1 \in 0..N /\ i \in 1..N /\ i \in 0..N /\ i + 1 \in 1..N
      /\ (i + 1) - 1 = i /\ i + 1 \in 0..N
  OBVIOUS
<1>2. /\ \A k \in 0..N : L[k] \in Lexers(V) /\ L[k].plain
      /\ \A k \in 1..N : L[k] = LexTurn(L[k - 1], s[k]) /\ s[k] \in V
  <2>1. \A k \in 0..N : L[k].plain
    BY PlainBefore
  <2> QED
    BY <2>1, Lexing
<1>3. /\ a \in Lexers(V) /\ b \in Lexers(V) /\ c \in Lexers(V) /\ b.plain /\ c.plain
      /\ b = LexTurn(a, d) /\ c = LexTurn(b, e) /\ d \in V /\ e \in V /\ d = "-" /\ e = "-"
      /\ InTextAt(a, out) /\ ~Half(a, d)
  BY <1>1, <1>2
<1> HIDE DEF a, b, c, d, e
<1>4. b.mode = "text" /\ b.held = <<"-">> /\ PlacedIn(b.tokens, <<>>, out)
  <2> DEFINE n == LexTurn(a, d)
  <2>1. n.plain
    BY <1>3
  <2>2. d = "-" => n.mode = "text" /\ n.held = <<d>> /\ PlacedIn(n.tokens, <<>>, out)
    BY <1>3, <2>1, TextReads
  <2> QED
    BY <1>3, <2>2
<1>5. c.mode \in Commented /\ c.held = <<>> /\ c.tokens = b.tokens
  <2> DEFINE n == LexTurn(b, e)
  <2>1. b.held = <<"-">> /\ e = "-" => n.mode = "line" /\ n.held = <<>> /\ n.tokens = b.tokens
    BY <1>3, <1>4, TextTurn
  <2> QED
    BY <1>3, <1>4, <2>1 DEF Commented
<1>6. \A j \in i..N : OccursAt(s, <<"nl">>, j) <=> s[j] = "nl"
  BY <1>1, OccursOne
<1>7. \/ newline = 0 /\ \A j \in i..N : ~OccursAt(s, <<"nl">>, j)
      \/ /\ newline \in i..N /\ OccursAt(s, <<"nl">>, newline)
         /\ \A j \in i..(newline - 1) : ~OccursAt(s, <<"nl">>, j)
  BY <1>1, FirstOccurrence
<1> HIDE DEF newline
<1>8. ASSUME newline = 0
      PROVE  L[N].mode \in Commented /\ PlacedIn(L[N].tokens, <<>>, out)
  <2>1. \A j \in ((i + 1) + 1)..N : s[j] # "nl"
    BY <1>1, <1>6, <1>7, <1>8
  <2>2. N \in (i + 1)..Len(s) /\ i + 1 \in 1..Len(s)
    BY <1>1
  <2>3. /\ LexTurns(s)[N].mode \in Commented
        /\ LexTurns(s)[N].tokens = LexTurns(s)[i + 1].tokens
    BY <1>2, <1>5, <2>1, <2>2, LineRun DEF c
  <2> QED
    BY <1>4, <1>5, <2>3 DEF c
<1>9. ASSUME newline # 0
      PROVE  /\ newline \in i..N /\ InTextAt(L[newline], Append(out, "nl"))
             /\ L[newline].held = <<>>
  <2> DEFINE m == newline - 1
  <2>1. newline \in i..N /\ s[newline] = "nl" /\ \A j \in i..m : s[j] # "nl"
    BY <1>1, <1>6, <1>7, <1>9
  <2>2. newline # i /\ newline # i + 1
    BY <1>1, <1>3, <2>1 DEF d, e
  <2>3. m \in (i + 1)..N /\ m \in 0..N /\ newline \in 1..N /\ \A j \in ((i + 1) + 1)..m : s[j] # "nl"
    BY <1>1, <2>1, <2>2
  <2>4. L[newline] = LexTurn(L[m], s[newline])
    BY <1>2, <2>3
  <2> HIDE DEF m
  <2>5. /\ LexTurns(s)[m].mode \in Commented
        /\ LexTurns(s)[m].held = LexTurns(s)[i + 1].held
        /\ LexTurns(s)[m].tokens = LexTurns(s)[i + 1].tokens
    BY <1>1, <1>2, <1>5, <2>3, LineRun DEF c
  <2> DEFINE x == s[newline]
             y == L[m]
             n == LexTurn(y, x)
  <2> HIDE DEF x
  <2>6. /\ L[newline] = n /\ x = "nl" /\ x \in V
        /\ y \in Lexers(V) /\ y.mode \in Commented /\ y.held = c.held /\ y.tokens = c.tokens
    BY <1>2, <2>1, <2>3, <2>4, <2>5 DEF c, x
  <2> HIDE DEF y
  <2>7. /\ n.mode = "text" /\ n.held = c.held /\ n.tokens = c.tokens /\ n \in Lexers(V)
    BY <1>3, <1>5, <2>6, LineTurn
  <2> HIDE DEF n
  <2>8. n.tokens \in Seq(Seq(V))
    BY <1>3, <1>5, <2>7 DEF Lexers
  <2>9. PlacedIn(n.tokens, <<>>, Append(out, x))
    BY <1>4, <1>5, <2>6, <2>7, <2>8, Skip DEF Blanks
  <2>10. Append(out, x)[Len(Append(out, x))] = x /\ x \notin Identifier
    BY <2>6 DEF Identifier, Words
  <2> QED
    BY <1>5, <2>1, <2>6, <2>7, <2>9, <2>10 DEF InTextAt
<1> QED
  BY <1>8, <1>9 DEF newline

\* A block comment that is met in text: the lexer is back in text when the scan
\* is past it, unless it is never closed.
LEMMA BlockMet ==
  ASSUME NEW V, Blanks \subseteq V, NEW s \in Seq(V), LexTurns(s)[Len(s)].plain,
         NEW i \in 1..Len(s), NEW out \in Seq(V),
         InTextAt(LexTurns(s)[i - 1], out), ~Half(LexTurns(s)[i - 1], s[i]),
         i < Len(s), s[i] = "/", s[i + 1] = "*"
  PROVE  LET e == AfterBlock(s, i + 2)
             l == LexTurns(s)[e - 1]
         IN /\ e \in (i + 1)..(Len(s) + 1)
            /\ \/ InTextAt(l, Append(out, "sp")) /\ l.held = <<>>
               \/ e = Len(s) + 1 /\ l.mode = "block" /\ PlacedIn(l.tokens, <<>>, Append(out, "sp"))
<1> DEFINE L == LexTurns(s)
           N == Len(s)
           a == L[i - 1]
           b == L[i]
           c == L[i + 1]
           d == s[i]
           f == s[i + 1]
<1>1. /\ i \in Nat /\ N \in Nat /\ i - 1 \in 0..N /\ i \in 1..N /\ i \in 0..N /\ i + 1 \in 1..N
      /\ (i + 1) - 1 = i /\ i + 1 \in 0..N /\ i + 2 \in 2..(N + 1) /\ (i + 2) - 1 = i + 1
  OBVIOUS
<1>2. /\ \A k \in 0..N : L[k] \in Lexers(V) /\ L[k].plain
      /\ \A k \in 1..N : L[k] = LexTurn(L[k - 1], s[k]) /\ s[k] \in V
  <2>1. \A k \in 0..N : L[k].plain
    BY PlainBefore
  <2> QED
    BY <2>1, Lexing
<1>3. /\ a \in Lexers(V) /\ b \in Lexers(V) /\ c \in Lexers(V) /\ b.plain /\ c.plain
      /\ b = LexTurn(a, d) /\ c = LexTurn(b, f) /\ d \in V /\ f \in V /\ d = "/" /\ f = "*"
      /\ InTextAt(a, out) /\ ~Half(a, d)
  BY <1>1, <1>2
<1> HIDE DEF a, b, c, d, f
<1>4. b.mode = "text" /\ b.held = <<"/">> /\ PlacedIn(b.tokens, <<>>, out)
  <2> DEFINE n == LexTurn(a, d)
  <2>1. n.plain
    BY <1>3
  <2>2. d = "/" => n.mode = "text" /\ n.held = <<d>> /\ PlacedIn(n.tokens, <<>>, out)
    BY <1>3, <2>1, TextReads
  <2> QED
    BY <1>3, <2>2
<1>5. c.mode = "block" /\ c.depth = 1 /\ c.held = <<>> /\ c.tokens = b.tokens
  <2> DEFINE n == LexTurn(b, f)
  <2>1. b.held = <<"/">> /\ f = "*" =>
          n.mode = "block" /\ n.depth = 1 /\ n.held = <<>> /\ n.tokens = b.tokens
    BY <1>3, <1>4, TextTurn
  <2> QED
    BY <1>3, <1>4, <2>1
<1> DEFINE p == i + 2
           e == AfterBlock(s, p)
           l == L[e - 1]
<1>6. /\ e \in p..(N + 1) /\ l.tokens = c.tokens
      /\ (l.mode = "text" /\ l.held = <<>>) \/ (l.mode = "block" /\ e = N + 1)
  <2> HIDE DEF p
  <2>1. /\ p \in 2..(Len(s) + 1) /\ L[p - 1].mode = "block" /\ L[p - 1].depth = 1
        /\ L[p - 1].held = <<>> /\ L[p - 1] = c
    BY <1>1, <1>5 DEF c, p
  <2> QED
    BY <2>1, BlockEnds
<1> HIDE DEF e, l
<1>7. l.tokens \in Seq(Seq(V)) /\ PlacedIn(l.tokens, <<>>, out)
  BY <1>3, <1>4, <1>5, <1>6 DEF Lexers
<1>8. "sp" \in V /\ "sp" \in Blanks /\ "sp" \notin Identifier
  BY DEF Blanks, Identifier, Words
<1>9. PlacedIn(l.tokens, <<>>, Append(out, "sp"))
  BY <1>7, <1>8, Skip
<1>10. Append(out, "sp")[Len(Append(out, "sp"))] = "sp"
  OBVIOUS
<1>11. e \in (i + 1)..(N + 1)
  BY <1>1, <1>6
<1>12. \/ InTextAt(l, Append(out, "sp")) /\ l.held = <<>>
       \/ e = N + 1 /\ l.mode = "block" /\ PlacedIn(l.tokens, <<>>, Append(out, "sp"))
  BY <1>6, <1>8, <1>9, <1>10 DEF InTextAt
<1> QED
  BY <1>11, <1>12 DEF e, l

\* A literal or quoted identifier that is met in text is copied.
LEMMA QuoteMet ==
  ASSUME NEW V, NEW s \in Seq(V), LexTurns(s)[Len(s)].plain,
         NEW i \in 1..Len(s), NEW out \in Seq(V),
         InTextAt(LexTurns(s)[i - 1], out), ~Half(LexTurns(s)[i - 1], s[i]),
         s[i] \in Quotes
  PROVE  LET e == AfterQuoted(s, s[i], i + 1)
             l == LexTurns(s)[e - 1]
             copied == out \o SubSeq(s, i, e - 1)
         IN /\ e \in (i + 1)..(Len(s) + 1)
            /\ \/ InTextAt(l, copied) /\ l.held = <<>>
               \/ l.mode = "quoted" /\ e = Len(s) + 1 /\ PlacedIn(l.tokens, l.held, copied)
<1> DEFINE L == LexTurns(s)
           N == Len(s)
           a == L[i - 1]
           b == L[i]
           d == s[i]
<1>1. i \in Nat /\ N \in Nat /\ i - 1 \in 0..N /\ i \in 1..N /\ i \in 0..N
  OBVIOUS
<1>2. L[i].plain
  BY <1>1, PlainBefore
<1>3. /\ a \in Lexers(V) /\ b = LexTurn(a, d) /\ b.plain /\ d \in V /\ d \in Quotes
      /\ InTextAt(a, out) /\ ~Half(a, d)
  BY <1>1, <1>2, Lexing
<1> HIDE DEF a, b, d
<1>4. /\ b.mode = "quoted" /\ b.quote = d /\ b.held = <<d>>
      /\ PlacedIn(b.tokens, b.held, Append(out, d))
  <2> DEFINE n == LexTurn(a, d)
  <2>1. n.plain
    BY <1>3
  <2>2. d \in Quotes => /\ n.mode = "quoted" /\ n.quote = d /\ n.held = <<d>>
                        /\ PlacedIn(n.tokens, n.held, Append(out, d))
    BY <1>3, <2>1, TextReads
  <2> QED
    BY <1>3, <2>2
<1>5. /\ LexTurns(s)[i].mode = "quoted" /\ LexTurns(s)[i].quote = s[i]
      /\ LexTurns(s)[i].held = <<s[i]>>
      /\ PlacedIn(LexTurns(s)[i].tokens, LexTurns(s)[i].held, Append(out, s[i]))
  BY <1>4 DEF b, d
<1> QED
  BY <1>5, QuotedEnds

\* A dollar quote that is met in text: the lexer is back in text when the scan
\* is past it, unless it is never closed.
LEMMA DollarMet ==
  ASSUME NEW V, Blanks \subseteq V, NEW s \in Seq(V), LexTurns(s)[Len(s)].plain,
         NEW i \in 1..Len(s), NEW out \in Seq(V),
         InTextAt(LexTurns(s)[i - 1], out), ~Half(LexTurns(s)[i - 1], s[i]),
         DollarTag(s, i) # <<>>
  PROVE  LET tag == DollarTag(s, i)
             close == IndexFrom(s, tag, i + Len(tag))
             e == close + Len(tag)
             L == LexTurns(s)
         IN /\ close = 0 => /\ L[Len(s)].mode = "dollar"
                            /\ PlacedIn(L[Len(s)].tokens, <<>>, Append(out, "sp"))
            /\ close # 0 => /\ e \in (i + 1)..(Len(s) + 1)
                            /\ InTextAt(L[e - 1], Append(out, "sp"))
                            /\ L[e - 1].held = <<>>
<1> DEFINE L == LexTurns(s)
           N == Len(s)
           a == L[i - 1]
           b == L[i]
           d == s[i]
           tag == DollarTag(s, i)
           close == IndexFrom(s, tag, i + Len(tag))
           e == close + Len(tag)
<1>1. i \in Nat /\ N \in Nat /\ i - 1 \in 0..N /\ i \in 1..N /\ i \in 0..N
  OBVIOUS
<1>2. L[i].plain
  BY <1>1, PlainBefore
<1>3. d = "$"
  BY TagShape
<1>4. /\ a \in Lexers(V) /\ b \in Lexers(V) /\ b = LexTurn(a, d) /\ b.plain /\ d \in V
      /\ InTextAt(a, out) /\ ~Half(a, d)
  BY <1>1, <1>2, Lexing
<1> HIDE DEF a, b, d
<1>5. /\ b.mode = "tag" /\ b.held = <<d>> /\ PlacedIn(b.tokens, <<>>, out)
  <2> DEFINE n == LexTurn(a, d)
  <2>1. n.plain
    BY <1>4
  <2>2. d = "$" => n.mode = "tag" /\ n.held = <<d>> /\ PlacedIn(n.tokens, <<>>, out)
    BY <1>4, <2>1, TextReads
  <2> QED
    BY <1>3, <1>4, <2>2
<1>6. LexTurns(s)[i].mode = "tag" /\ LexTurns(s)[i].held = <<s[i]>>
  BY <1>5 DEF b, d
<1> HIDE DEF L
<1>7. /\ tag \in Seq(V) /\ Len(tag) >= 2
      /\ close = 0 => L[N].mode = "dollar" /\ L[N].tokens = b.tokens
      /\ close # 0 => /\ e \in (i + 1)..(N + 1)
                      /\ L[e - 1].mode = "text" /\ L[e - 1].held = <<>>
                      /\ L[e - 1].tokens = Append(b.tokens, tag)
  BY <1>6, DollarEnds DEF L, b
<1> HIDE DEF e, close, tag
<1>8. /\ "sp" \in V /\ "sp" \in Blanks /\ "sp" \notin Identifier /\ b.tokens \in Seq(Seq(V))
      /\ Append(out, "sp")[Len(Append(out, "sp"))] = "sp"
  BY <1>4 DEF Blanks, Identifier, Words, Lexers
<1>9. ASSUME close = 0
      PROVE  L[N].mode = "dollar" /\ PlacedIn(L[N].tokens, <<>>, Append(out, "sp"))
  BY <1>5, <1>7, <1>8, <1>9, Skip
<1>10. ASSUME close # 0
       PROVE  /\ e \in (i + 1)..(N + 1) /\ L[e - 1].held = <<>>
              /\ InTextAt(L[e - 1], Append(out, "sp"))
  <2>1. Len(tag) # 1
    <3>1. \A x \in Nat : x >= 2 => x # 1
      OBVIOUS
    <3>2. Len(tag) \in Nat /\ Len(tag) >= 2
      BY <1>7
    <3> QED
      BY <3>1, <3>2, Zenon
  <2>2. PlacedIn(Append(b.tokens, tag), <<>>, out) /\ Append(b.tokens, tag) \in Seq(Seq(V))
    BY <1>5, <1>7, <1>8, <2>1, TakeUnwritten
  <2>3. PlacedIn(Append(b.tokens, tag), <<>>, Append(out, "sp"))
    BY <1>8, <2>2, Skip
  <2> QED
    BY <1>7, <1>8, <1>10, <2>3 DEF InTextAt
<1> QED
  BY <1>9, <1>10 DEF L, e, close, tag

\* Any other symbol is read by the lexer and copied by the scan.
LEMMA SymbolMet ==
  ASSUME NEW V, NEW s \in Seq(V), LexTurns(s)[Len(s)].plain,
         NEW i \in 1..Len(s), NEW out \in Seq(V),
         InTextAt(LexTurns(s)[i - 1], out), ~Half(LexTurns(s)[i - 1], s[i]),
         ~(i < Len(s) /\ s[i] = "-" /\ s[i + 1] = "-"),
         ~(i < Len(s) /\ s[i] = "/" /\ s[i + 1] = "*"),
         s[i] \notin Quotes, DollarTag(s, i) = <<>>
  PROVE  LET l == LexTurns(s)[i]
         IN \/ InTextAt(l, Append(out, s[i])) /\ (i < Len(s) => ~Half(l, s[i + 1]))
            \/ /\ l.mode = "tag" /\ l.held # <<>>
               /\ PlacedIn(l.tokens, l.held, Append(out, s[i]))
               /\ \A j \in (i + 1)..Len(s) : s[j] \in Words
<1> DEFINE L == LexTurns(s)
           N == Len(s)
           a == L[i - 1]
           b == L[i]
           d == s[i]
           n == LexTurn(a, d)
<1>1. i \in Nat /\ N \in Nat /\ i - 1 \in 0..N /\ i \in 1..N /\ i \in 0..N
  OBVIOUS
<1>2. L[i].plain
  BY <1>1, PlainBefore
<1>3. /\ a \in Lexers(V) /\ b \in Lexers(V) /\ b = n /\ b.plain /\ d \in V /\ d \notin Quotes
      /\ InTextAt(a, out) /\ ~Half(a, d)
  BY <1>1, <1>2, Lexing
<1> HIDE DEF a, b, d
<1>4. CASE d = "$"
  <2>1. n.plain
    BY <1>3
  <2>2. d = "$" => n.mode = "tag" /\ n.held = <<d>> /\ PlacedIn(n.tokens, n.held, Append(out, d))
    BY <1>3, <2>1, TextReads
  <2>3. b.mode = "tag" /\ b.held = <<d>> /\ PlacedIn(b.tokens, b.held, Append(out, d))
    BY <1>3, <1>4, <2>2
  <2>4. LexTurns(s)[i].mode = "tag" /\ LexTurns(s)[i].held = <<s[i]>> /\ s[i] = "$"
    BY <1>4, <2>3 DEF b, d
  <2>5. \A j \in (i + 1)..Len(s) : s[j] \in Words
    BY <2>4, TailWords
  <2>6. b.held # <<>>
    BY <2>3
  <2> QED
    BY <2>3, <2>5, <2>6 DEF b, d
<1>5. CASE d # "$"
  <2>1. n.plain
    BY <1>3
  <2>2. InTextAt(n, Append(out, d))
    BY <1>3, <1>5, <2>1, TextReads
  <2>3. InTextAt(b, Append(out, d))
    BY <1>3, <2>2
  <2>4. ASSUME i < N
        PROVE  ~Half(b, s[i + 1])
    <3>1. ASSUME b.held # <<>>
          PROVE  b.held[Len(b.held)] = d
      <4> DEFINE o == Append(out, d)
      <4>1. b.tokens \in Seq(Seq(V)) /\ b.held \in Seq(V) /\ o \in Seq(V)
        BY <1>3 DEF Lexers
      <4>2. PlacedIn(b.tokens, b.held, o)
        BY <2>3 DEF InTextAt
      <4>3. o[Len(o)] = d
        BY <1>3
      <4> HIDE DEF o
      <4>4. o[Len(o)] = b.held[Len(b.held)]
        BY <3>1, <4>1, <4>2, LastHeld
      <4> QED
        BY <4>3, <4>4
    <3>2. b.held = <<"-">> => d = "-"
      BY <3>1
    <3>3. b.held = <<"/">> => d = "/"
      BY <3>1
    <3> QED
      BY <2>4, <3>2, <3>3 DEF Half, d
  <2> QED
    BY <2>3, <2>4 DEF b, d
<1> QED
  BY <1>4, <1>5

\* The tail of words behind a $ that opens nothing is held back and copied.
LEMMA TailGoesOn ==
  ASSUME NEW V, NEW s \in Seq(V), NEW i \in 1..Len(s), NEW out \in Seq(V),
         LexTurns(s)[i - 1].mode = "tag", LexTurns(s)[i - 1].held # <<>>,
         PlacedIn(LexTurns(s)[i - 1].tokens, LexTurns(s)[i - 1].held, out),
         s[i] \in Words
  PROVE  LET l == LexTurns(s)[i]
         IN /\ l.mode = "tag" /\ l.held # <<>>
            /\ PlacedIn(l.tokens, l.held, Append(out, s[i]))
<1> DEFINE L == LexTurns(s)
           a == L[i - 1]
           b == L[i]
           d == s[i]
           n == LexTurn(a, d)
<1>1. i - 1 \in 0..Len(s) /\ i \in 1..Len(s)
  OBVIOUS
<1>2. /\ a \in Lexers(V) /\ b = n /\ d \in V /\ d \in Words
      /\ a.mode = "tag" /\ a.held # <<>> /\ PlacedIn(a.tokens, a.held, out)
  BY <1>1, Lexing
<1> HIDE DEF a, b, d
<1>3. n.mode = "tag" /\ n.held = Append(a.held, d) /\ n.tokens = a.tokens
  BY <1>2, TagWord
<1>4. a.tokens \in Seq(Seq(V)) /\ a.held \in Seq(V)
  BY <1>2 DEF Lexers
<1>5. PlacedIn(a.tokens, Append(a.held, d), Append(out, d))
  BY <1>2, <1>4, Grow
<1>6. Append(a.held, d) # <<>>
  <2>1. Append(a.held, d) \in Seq(V) /\ Len(Append(a.held, d)) > 0
    BY <1>2, <1>4
  <2> QED
    BY <2>1, NotEmpty
<1>7. b.mode = "tag" /\ b.held # <<>> /\ PlacedIn(b.tokens, b.held, Append(out, d))
  BY <1>2, <1>3, <1>5, <1>6
<1> QED
  BY <1>7 DEF b, d

\* The lexer and the scan are at the same place: in text; behind a $ that opens
\* nothing; or at the end, inside what is never closed.
Together(s, V, b) ==
  LET l == LexTurns(s)[b.i - 1] IN
  \/ InTextAt(l, b.out) /\ (b.i <= Len(s) => ~Half(l, s[b.i]))
  \/ /\ l.mode = "tag" /\ l.held # <<>> /\ PlacedIn(l.tokens, l.held, b.out)
     /\ \A j \in b.i..Len(s) : s[j] \in Words
  \/ b.i = Len(s) + 1 /\ l.mode # "text" /\ \E h \in Seq(V) : PlacedIn(l.tokens, h, b.out)

\* One turn of the scan in text.
LEMMA TextStep ==
  ASSUME NEW V, Blanks \subseteq V, NEW s \in Seq(V), LexTurns(s)[Len(s)].plain,
         NEW b \in Scans(s, V), b.i <= Len(s),
         InTextAt(LexTurns(s)[b.i - 1], b.out), ~Half(LexTurns(s)[b.i - 1], s[b.i])
  PROVE  Together(s, V, StripTurn(s, b)) /\ StripTurn(s, b).i > b.i
<1> DEFINE n == StripTurn(s, b)
           i == b.i
           o == b.out
           newline == IndexFrom(s, <<"nl">>, i)
           tag == DollarTag(s, i)
           close == IndexFrom(s, tag, i + Len(tag))
           quoted == AfterQuoted(s, s[i], i + 1)
           is(c, d) == i < Len(s) /\ s[i] = c /\ s[i + 1] = d
           here == i <= Len(s) /\ ~is("-", "-") /\ ~is("/", "*")
           L == LexTurns(s)
           N == Len(s)
<1>1. i \in 1..Len(s) /\ i \in Nat /\ N \in Nat /\ o \in Seq(V) /\ <<>> \in Seq(V)
  BY DEF Scans
<1>2. /\ n \in Scans(s, V)
      /\ is("-", "-") /\ newline = 0 => n.i = N + 1 /\ n.out = o
      /\ is("-", "-") /\ newline # 0 => n.i = newline + 1 /\ n.out = Append(o, "nl")
      /\ is("/", "*") => n.i = AfterBlock(s, i + 2) /\ n.out = Append(o, "sp")
      /\ here /\ s[i] \in Quotes => n.i = quoted /\ n.out = o \o SubSeq(s, i, quoted - 1)
      /\ here /\ s[i] \notin Quotes /\ tag # <<>> /\ close = 0 =>
           n.i = N + 1 /\ n.out = Append(o, "sp")
      /\ here /\ s[i] \notin Quotes /\ tag # <<>> /\ close # 0 =>
           n.i = close + Len(tag) /\ n.out = Append(o, "sp")
      /\ here /\ s[i] \notin Quotes /\ tag = <<>> => n.i = i + 1 /\ n.out = Append(o, s[i])
  <2> DEFINE end == N + 1
  <2>1. /\ n \in Scans(s, V)
        /\ i > Len(s) => n = b
        /\ i <= Len(s) /\ is("-", "-") /\ newline = 0 => n.i = end /\ n.out = b.out
        /\ i <= Len(s) /\ is("-", "-") /\ newline # 0 =>
             /\ newline \in i..Len(s)
             /\ n.i = newline + 1 /\ n.out = Append(b.out, "nl")
        /\ i <= Len(s) /\ is("/", "*") =>
             n.i = AfterBlock(s, i + 2) /\ n.out = Append(b.out, "sp")
        /\ here /\ s[i] \in Quotes =>
             n.i = quoted /\ n.out = b.out \o SubSeq(s, i, quoted - 1)
        /\ here /\ s[i] \notin Quotes /\ tag # <<>> /\ close = 0 =>
             n.i = end /\ n.out = Append(b.out, "sp")
        /\ here /\ s[i] \notin Quotes /\ tag # <<>> /\ close # 0 =>
             n.i = close + Len(tag) /\ n.out = Append(b.out, "sp")
        /\ here /\ s[i] \notin Quotes /\ tag = <<>> =>
             n.i = i + 1 /\ n.out = Append(b.out, s[i])
    BY StripTurnCases, ZenonT(60)
  <2> HIDE DEF n, newline, tag, close, quoted, is, here
  <2> QED
    BY <1>1, <2>1
<1>3. InTextAt(L[i - 1], o) /\ ~Half(L[i - 1], s[i])
  OBVIOUS
<1>4. \A l : l.held = <<>> => \A c : ~Half(l, c)
  BY DEF Half
<1> HIDE DEF n, i, o, L, N
<1>5. CASE is("-", "-")
  <2>1. /\ newline = 0 => L[N].mode \in Commented /\ PlacedIn(L[N].tokens, <<>>, o)
        /\ newline # 0 => /\ newline \in i..N /\ InTextAt(L[newline], Append(o, "nl"))
                          /\ L[newline].held = <<>>
    BY <1>1, <1>3, <1>5, LineMet DEF L, N
  <2> HIDE DEF newline
  <2>2. CASE newline = 0
    <3>1. n.i = N + 1 /\ n.out = o /\ (N + 1) - 1 = N /\ N + 1 > i
      BY <1>1, <1>2, <1>5, <2>2 DEF N
    <3>2. L[N].mode # "text" /\ \E h \in Seq(V) : PlacedIn(L[N].tokens, h, o)
      BY <1>1, <2>1, <2>2 DEF Commented
    <3> QED
      BY <3>1, <3>2 DEF Together, L, N, n, i
  <2>3. CASE newline # 0
    <3>1. n.i = newline + 1 /\ n.out = Append(o, "nl") /\ (newline + 1) - 1 = newline
          /\ newline + 1 > i
      BY <1>1, <1>2, <1>5, <2>1, <2>3
    <3> QED
      BY <1>4, <2>1, <2>3, <3>1 DEF Together, L, N, n, i
  <2> QED
    BY <2>2, <2>3
<1>6. CASE is("/", "*")
  <2> DEFINE e == AfterBlock(s, i + 2)
             l == L[e - 1]
  <2>1. /\ e \in (i + 1)..(N + 1)
        /\ \/ InTextAt(l, Append(o, "sp")) /\ l.held = <<>>
           \/ e = N + 1 /\ l.mode = "block" /\ PlacedIn(l.tokens, <<>>, Append(o, "sp"))
    BY <1>1, <1>3, <1>6, BlockMet DEF L, N
  <2>2. n.i = e /\ n.out = Append(o, "sp")
    BY <1>2, <1>6
  <2> HIDE DEF e
  <2>3. e > i
    BY <1>1, <2>1
  <2>4. CASE InTextAt(l, Append(o, "sp")) /\ l.held = <<>>
    BY <1>4, <2>2, <2>3, <2>4 DEF Together, L, N, n, i
  <2>5. CASE e = N + 1 /\ l.mode = "block" /\ PlacedIn(l.tokens, <<>>, Append(o, "sp"))
    BY <1>1, <2>2, <2>3, <2>5 DEF Together, L, N, n, i
  <2> QED
    BY <2>1, <2>4, <2>5
<1>7. CASE here /\ s[i] \in Quotes
  <2> DEFINE l == L[quoted - 1]
             copied == o \o SubSeq(s, i, quoted - 1)
  <2>1. /\ quoted \in (i + 1)..(N + 1)
        /\ \/ InTextAt(l, copied) /\ l.held = <<>>
           \/ l.mode = "quoted" /\ quoted = N + 1 /\ PlacedIn(l.tokens, l.held, copied)
    BY <1>1, <1>3, <1>7, QuoteMet DEF L, N
  <2>2. n.i = quoted /\ n.out = copied
    BY <1>2, <1>7
  <2>3. quoted \in 1..(N + 1) /\ quoted - 1 \in 0..N
    BY <1>1, <2>1
  <2>4. l.held \in Seq(V)
    BY <2>3, Lexing DEF L, N, Lexers
  <2> HIDE DEF quoted, copied
  <2>5. quoted > i
    BY <1>1, <2>1
  <2>6. CASE InTextAt(l, copied) /\ l.held = <<>>
    BY <1>4, <2>2, <2>5, <2>6 DEF Together, L, N, n, i
  <2>7. CASE l.mode = "quoted" /\ quoted = N + 1 /\ PlacedIn(l.tokens, l.held, copied)
    BY <2>2, <2>4, <2>5, <2>7 DEF Together, L, N, n, i
  <2> QED
    BY <2>1, <2>6, <2>7
<1>8. CASE here /\ s[i] \notin Quotes /\ tag # <<>>
  <2> DEFINE e == close + Len(tag)
  <2>1. /\ close = 0 => L[N].mode = "dollar" /\ PlacedIn(L[N].tokens, <<>>, Append(o, "sp"))
        /\ close # 0 => /\ e \in (i + 1)..(N + 1) /\ InTextAt(L[e - 1], Append(o, "sp"))
                        /\ L[e - 1].held = <<>>
    BY <1>1, <1>3, <1>8, DollarMet DEF L, N
  <2>2. CASE close = 0
    <3>1. n.i = N + 1 /\ n.out = Append(o, "sp")
      BY <1>2, <1>8, <2>2
    <3>2. (N + 1) - 1 = N /\ N + 1 > i
      BY <1>1 DEF N
    <3>3. L[N].mode # "text" /\ \E h \in Seq(V) : PlacedIn(L[N].tokens, h, Append(o, "sp"))
      BY <1>1, <2>1, <2>2
    <3> HIDE DEF close, tag
    <3> QED
      BY <3>1, <3>2, <3>3 DEF Together, L, N, n, i
  <2>3. CASE close # 0
    <3>1. n.i = e /\ n.out = Append(o, "sp")
      BY <1>2, <1>8, <2>3
    <3> HIDE DEF e
    <3>2. e > i
      BY <1>1, <2>1, <2>3
    <3> QED
      BY <1>4, <2>1, <2>3, <3>1, <3>2 DEF Together, L, N, n, i
  <2> QED
    BY <2>2, <2>3
<1>9. CASE here /\ s[i] \notin Quotes /\ tag = <<>>
  <2> DEFINE c == s[i]
  <2>1. \/ InTextAt(L[i], Append(o, c)) /\ (i < N => ~Half(L[i], s[i + 1]))
        \/ /\ L[i].mode = "tag" /\ L[i].held # <<>> /\ PlacedIn(L[i].tokens, L[i].held, Append(o, c))
           /\ \A j \in (i + 1)..N : s[j] \in Words
    BY <1>1, <1>3, <1>9, SymbolMet DEF L, N
  <2>2. n.i = i + 1 /\ n.out = Append(o, c) /\ (i + 1) - 1 = i /\ i + 1 > i
    BY <1>1, <1>2, <1>9
  <2>3. i + 1 <= N => i < N
    BY <1>1
  <2> HIDE DEF c
  <2> QED
    BY <2>1, <2>2, <2>3 DEF Together, L, N, n, i
<1>10. i <= N
  BY <1>1 DEF N
<1> QED
  BY <1>5, <1>6, <1>7, <1>8, <1>9, <1>10 DEF N

\* One turn of the scan, wherever it is.
LEMMA ScanStep ==
  ASSUME NEW V, Blanks \subseteq V, NEW s \in Seq(V), LexTurns(s)[Len(s)].plain,
         NEW b \in Scans(s, V), Together(s, V, b)
  PROVE  /\ Together(s, V, StripTurn(s, b))
         /\ b.i > Len(s) => StripTurn(s, b) = b
         /\ b.i <= Len(s) => StripTurn(s, b).i > b.i
<1> DEFINE l == LexTurns(s)[b.i - 1]
<1>1. b.i \in Nat /\ Len(s) \in Nat /\ b.i > 0 /\ b.out \in Seq(V) /\ b.i <= Len(s) + 1
  BY DEF Scans
<1>2. CASE b.i > Len(s)
  <2>1. StripTurn(s, b) = b
    BY <1>2, StripTurnCases
  <2> QED
    BY <1>1, <1>2, <2>1
<1>3. CASE b.i <= Len(s) /\ InTextAt(l, b.out)
  <2>1. ~Half(l, s[b.i]) \/ l.mode = "tag"
    BY <1>1, <1>3 DEF Together
  <2>2. ~Half(l, s[b.i])
    BY <1>3, <2>1 DEF InTextAt
  <2> QED
    BY <1>1, <1>3, <2>2, TextStep
<1>4. CASE b.i <= Len(s) /\ ~InTextAt(l, b.out)
  <2> DEFINE i == b.i
             o == b.out
             d == s[i]
             n == StripTurn(s, b)
             tag == DollarTag(s, i)
             is(x, y) == i < Len(s) /\ s[i] = x /\ s[i + 1] = y
             here == i <= Len(s) /\ ~is("-", "-") /\ ~is("/", "*")
  <2>1. /\ l.mode = "tag" /\ l.held # <<>> /\ PlacedIn(l.tokens, l.held, o)
        /\ \A j \in i..Len(s) : s[j] \in Words
    BY <1>1, <1>4 DEF Together
  <2>2. i \in 1..Len(s) /\ i \in i..Len(s)
    BY <1>1, <1>4
  <2>3. d \in Words /\ \A j \in (i + 1)..Len(s) : s[j] \in Words
    BY <1>1, <2>1, <2>2
  <2>4. d \notin Quotes /\ d # "-" /\ d # "/" /\ d # "$"
    BY <2>3 DEF Words, Quotes
  <2>5. tag = <<>>
    BY <2>2, <2>4, TagShape
  <2>6. here /\ d \notin Quotes /\ tag = <<>> => n.i = i + 1 /\ n.out = Append(o, d)
    BY <1>1, StripTurnCases
  <2>7. n.i = i + 1 /\ n.out = Append(o, d)
    BY <1>4, <2>4, <2>5, <2>6
  <2>8. /\ LexTurns(s)[i].mode = "tag" /\ LexTurns(s)[i].held # <<>>
        /\ PlacedIn(LexTurns(s)[i].tokens, LexTurns(s)[i].held, Append(o, d))
    BY <1>1, <2>1, <2>2, <2>3, TailGoesOn
  <2>9. n.i - 1 = i /\ n.i > i
    BY <2>2, <2>7
  <2> HIDE DEF n, i, o, d
  <2>10. Together(s, V, n)
    BY <2>3, <2>7, <2>8, <2>9 DEF Together
  <2> QED
    BY <1>4, <2>9, <2>10, <1>1 DEF n, i
<1> QED
  BY <1>1, <1>2, <1>3, <1>4

\* What stripSQLComments writes has the tokens of the reference lexer, in their
\* order, and nothing else but blanks and what is never closed.
LEMMA StrippedPlaced ==
  ASSUME NEW V, Blanks \subseteq V, NEW s \in Seq(V), Lexed(s).plain
  PROVE  /\ StripSQLComments(s) \in Seq(V)
         /\ Lexed(s).tokens \in Seq(Seq(V))
         /\ \E h \in Seq(V) : PlacedIn(Lexed(s).tokens, h, StripSQLComments(s))
<1> DEFINE N == Len(s)
           L == LexTurns(s)
           B == StripTurns(s)
           end == L[N]
<1>1. N \in Nat /\ N \in 0..N /\ 0 \in 0..N /\ <<>> \in Seq(V)
  OBVIOUS
<1>2. end \in Lexers(V) /\ L[0] = LexerStart
  BY <1>1, Lexing
<1>3. Lexed(s) = IF end.mode = "text" THEN Flushed(end) ELSE end
  BY DEF Lexed
<1>4. end.plain
  <2> HIDE DEF end
  <2>1. Flushed(end).plain = end.plain
    BY <1>2, FlushedFields
  <2> QED
    BY <1>3, <2>1
<1>5. /\ B[0] = [i |-> 1, out |-> <<>>]
      /\ \A k \in 1..N : B[k] = StripTurn(s, B[k - 1])
      /\ \A k \in 0..N : B[k] \in Scans(s, V)
  BY StripLoop
<1> DEFINE T == {k \in 0..N : Together(s, V, B[k]) /\ (B[k].i > N \/ B[k].i >= k + 1)}
<1>6. 0 \in T
  <2>1. /\ LexerStart.mode = "text" /\ LexerStart.held = <<>> /\ LexerStart.tokens = <<>>
    BY DEF LexerStart
  <2>2. PlacedIn(<<>>, <<>>, <<>>)
    <3> DEFINE own == [r \in 1..0 |-> 0]
    <3>1. Len(<<>>) = 0 /\ ~ \E r \in 1..0 : TRUE /\ 0 - 0 = 0
      OBVIOUS
    <3>2. own \in [1..0 -> 0..(0 + 1)]
      OBVIOUS
    <3> HIDE DEF own
    <3>3. \A r \in 1..0 : FALSE
      OBVIOUS
    <3>4. \A r \in 1..(0 - 1) : FALSE
      OBVIOUS
    <3>5. Placed(<<>>, <<>>, <<>>, own)
      BY <3>1, <3>2, <3>3, <3>4 DEF Placed
    <3> QED
      BY <3>5 DEF PlacedIn
  <2>3. InTextAt(LexerStart, <<>>)
    BY <2>1, <2>2 DEF InTextAt
  <2>4. \A c : ~Half(LexerStart, c)
    BY <2>1 DEF Half
  <2>5. B[0].i = 1 /\ B[0].out = <<>> /\ B[0].i - 1 = 0
    BY <1>5
  <2> HIDE DEF B
  <2>6. Together(s, V, B[0])
    BY <1>2, <2>3, <2>4, <2>5 DEF Together
  <2> QED
    BY <1>1, <2>5, <2>6
<1>7. ASSUME NEW k \in 1..N, k - 1 \in T
      PROVE  k \in T
  <2> DEFINE b == B[k - 1]
             n == StripTurn(s, b)
  <2>1. k - 1 \in 0..N /\ k \in 0..N /\ k \in Nat /\ (k - 1) + 1 = k
    BY <1>1
  <2>2. b \in Scans(s, V) /\ B[k] = n /\ n \in Scans(s, V)
    BY <1>5, <2>1
  <2>3. Together(s, V, b) /\ (b.i > N \/ b.i >= k)
    BY <1>7, <2>1
  <2> HIDE DEF b, n, B
  <2>4. /\ Together(s, V, n)
        /\ b.i > N => n = b
        /\ b.i <= N => n.i > b.i
    BY <1>4, <2>2, <2>3, ScanStep DEF n
  <2>5. b.i \in Nat /\ n.i \in Nat
    BY <2>2 DEF Scans
  <2>6. n.i > N \/ n.i >= k + 1
    BY <1>1, <2>1, <2>3, <2>4, <2>5
  <2> QED
    BY <2>1, <2>2, <2>4, <2>6
<1>8. N \in T
  <2>1. T \in SUBSET (0..N)
    OBVIOUS
  <2> HIDE DEF T
  <2>2. T = 0..N
    BY <1>1, <1>6, <1>7, <2>1, InductUpTo
  <2> QED
    BY <1>1, <2>2
<1> DEFINE b == B[N]
<1>9. /\ b \in Scans(s, V) /\ Together(s, V, b) /\ b.i = N + 1 /\ b.i - 1 = N
      /\ b.out = StripSQLComments(s) /\ b.out \in Seq(V)
  <2>1. b \in Scans(s, V) /\ Together(s, V, b) /\ (b.i > N \/ b.i >= N + 1)
    BY <1>1, <1>5, <1>8
  <2>2. b.i \in 1..(N + 1) /\ b.out \in Seq(V)
    BY <2>1 DEF Scans
  <2>3. b.i = N + 1
    BY <1>1, <2>1, <2>2
  <2> QED
    BY <1>1, <2>1, <2>2, <2>3 DEF StripSQLComments
<1> HIDE DEF b
<1>10. CASE end.mode = "text"
  <2>1. InTextAt(end, b.out)
    BY <1>9, <1>10 DEF Together
  <2> HIDE DEF end
  <2>2. PlacedIn(Flushed(end).tokens, <<>>, b.out)
    BY <1>2, <1>9, <2>1, FlushPlaced
  <2>3. Flushed(end).tokens \in Seq(Seq(V))
    BY <1>2, FlushedFields DEF Lexers
  <2> QED
    BY <1>1, <1>3, <1>9, <1>10, <2>2, <2>3
<1>11. CASE end.mode # "text"
  <2>1. end.tokens \in Seq(Seq(V)) /\ end.held \in Seq(V)
    BY <1>2 DEF Lexers
  <2>2. \E h \in Seq(V) : PlacedIn(end.tokens, h, b.out)
    BY <1>9, <1>11, <2>1 DEF Together, InTextAt
  <2> QED
    BY <1>3, <1>9, <1>11, <2>1, <2>2
<1> QED
  BY <1>10, <1>11

-----------------------------------------------------------------------------
(* collapseSpace.                                                          *)

\* One turn of the loop, case by case.
LEMMA CollapseTurnCases ==
  ASSUME NEW V, NEW s \in Seq(V), NEW k \in 1..Len(s), NEW out \in Seq(V \cup {"sp"})
  PROVE  LET n == CollapseTurn(s, k, out)
         IN /\ n \in Seq(V \cup {"sp"})
            /\ s[k] \in Blanks => n = out
            /\ s[k] \notin Blanks /\ out # <<>> /\ s[k - 1] \in Blanks =>
                 n = out \o <<"sp", s[k]>>
            /\ s[k] \notin Blanks /\ ~(out # <<>> /\ s[k - 1] \in Blanks) =>
                 n = Append(out, s[k])
<1> DEFINE n == CollapseTurn(s, k, out)
           c == s[k]
           blank == s[k - 1] \in Blanks
<1>1. n = CASE c \in Blanks -> out
            [] c \notin Blanks /\ out # <<>> /\ blank -> out \o <<"sp", c>>
            [] OTHER -> Append(out, c)
  BY Zenon DEF CollapseTurn
<1>2. /\ c \in V \cup {"sp"} /\ Append(out, c) \in Seq(V \cup {"sp"})
      /\ out \o <<"sp", c>> \in Seq(V \cup {"sp"})
  <2>1. c \in V
    OBVIOUS
  <2> HIDE DEF c
  <2>2. <<"sp", c>> \in Seq(V \cup {"sp"})
    BY <2>1
  <2> QED
    BY <2>1, <2>2
<1> HIDE DEF n, c, blank
<1>3. CASE c \in Blanks
  <2>1. n = out
    BY <1>1, <1>3
  <2> QED
    BY <1>3, <2>1 DEF n, c
<1>4. CASE c \notin Blanks /\ out # <<>> /\ blank
  <2>1. n = out \o <<"sp", c>>
    BY <1>1, <1>4
  <2> QED
    BY <1>2, <1>4, <2>1 DEF n, c, blank
<1>5. CASE c \notin Blanks /\ ~(out # <<>> /\ blank)
  <2>1. n = Append(out, c)
    BY <1>1, <1>5
  <2> QED
    BY <1>2, <1>5, <2>1 DEF n, c, blank
<1> QED
  BY <1>3, <1>4, <1>5

\* The loop takes its turns one after the other.
LEMMA CollapseLoop ==
  ASSUME NEW V, NEW s \in Seq(V)
  PROVE  LET turns == CollapseTurns(s)
         IN /\ turns[0] = <<>>
            /\ \A k \in 1..Len(s) : turns[k] = CollapseTurn(s, k, turns[k - 1])
            /\ \A k \in 0..Len(s) : turns[k] \in Seq(V \cup {"sp"})
<1> DEFINE N == Len(s)
           S == Seq(V \cup {"sp"})
           F == [k \in 1..N |-> [out \in S |-> CollapseTurn(s, k, out)]]
           Is(f) == f = [k \in 0..N |-> IF k = 0 THEN <<>> ELSE CollapseTurn(s, k, f[k - 1])]
<1>1. N \in Nat /\ <<>> \in S
  OBVIOUS
<1>2. F \in [1..N -> [S -> S]]
  <2>1. ASSUME NEW k \in 1..N, NEW out \in S
        PROVE  CollapseTurn(s, k, out) \in S
    BY CollapseTurnCases
  <2> HIDE DEF S
  <2> QED
    BY <2>1
<1>3. PICK f \in [0..N -> S] : f[0] = <<>> /\ \A k \in 1..N : f[k] = F[k][f[k - 1]]
  <2> HIDE DEF F, S
  <2>1. Runs(N, S, <<>>, F)
    BY <1>1, <1>2, Loop
  <2> QED
    BY <2>1 DEF Runs
<1>4. ASSUME NEW k \in 1..N
      PROVE  f[k] = CollapseTurn(s, k, f[k - 1])
  <2>1. k - 1 \in 0..N /\ f[k - 1] \in S
    BY <1>1, <1>3
  <2> HIDE DEF S
  <2> QED
    BY <1>3, <2>1
<1> HIDE DEF F, S
<1>5. Is(f)
  <2>1. ASSUME NEW k \in 0..N
        PROVE  f[k] = IF k = 0 THEN <<>> ELSE CollapseTurn(s, k, f[k - 1])
    BY <1>1, <1>3, <1>4
  <2> QED
    BY <1>3, <2>1
<1> DEFINE g == CHOOSE f2 : Is(f2)
<1>6. Is(g)
  <2> HIDE DEF Is
  <2> QED
    BY <1>5
<1>7. CollapseTurns(s) = g
  BY Zenon DEF CollapseTurns
<1>8. \A k \in 0..N : g[k] \in S
  <2> HIDE DEF g
  <2>1. g[0] \in S
    BY <1>1, <1>6
  <2>2. ASSUME NEW k \in 1..N, g[k - 1] \in S
        PROVE  g[k] \in S
    <3> DEFINE out == g[k - 1]
    <3>1. g[k] = CollapseTurn(s, k, out)
      BY <1>1, <1>6
    <3> HIDE DEF out
    <3>2. out \in Seq(V \cup {"sp"})
      BY <2>2 DEF S, out
    <3>3. CollapseTurn(s, k, out) \in Seq(V \cup {"sp"})
      BY <3>2, CollapseTurnCases
    <3> QED
      BY <3>1, <3>3 DEF S
  <2> QED
    BY <1>1, <2>1, <2>2, LoopKeeps
<1> HIDE DEF g
<1>9. g[0] = <<>> /\ \A k \in 1..N : g[k] = CollapseTurn(s, k, g[k - 1])
  BY <1>1, <1>6
<1> QED
  BY <1>7, <1>8, <1>9 DEF S

\* How each turn extends what is written.
Extends(s, out, F) ==
  /\ \A k \in 0..Len(s) : F[k] \in 0..Len(out)
  /\ \A p, q \in 0..Len(s) : p <= q => F[p] <= F[q]
  /\ F[0] = 0 /\ F[Len(s)] = Len(out)
  /\ \A k \in 1..Len(s) :
       \/ s[k] \in Blanks /\ F[k] = F[k - 1]
       \/ /\ s[k] \notin Blanks /\ out[F[k]] = s[k]
          /\ \/ /\ F[k - 1] > 0 /\ s[k - 1] \in Blanks
                /\ F[k] = F[k - 1] + 2 /\ out[F[k - 1] + 1] = "sp"
             \/ F[k] = F[k - 1] + 1 /\ (F[k - 1] = 0 \/ s[k - 1] \notin Blanks)

\* What collapseSpace writes is written turn by turn and never changed.
LEMMA Collapsing ==
  ASSUME NEW V, NEW s \in Seq(V)
  PROVE  /\ CollapseSpace(s) \in Seq(V \cup {"sp"})
         /\ \E F : Extends(s, CollapseSpace(s), F)
<1> DEFINE N == Len(s)
           S == Seq(V \cup {"sp"})
           C == CollapseTurns(s)
           F == [k \in 0..N |-> Len(C[k])]
           out == C[N]
<1>1. N \in Nat /\ N \in 0..N /\ 0 \in 0..N /\ \A k \in 1..N : k \in 0..N /\ k - 1 \in 0..N
  OBVIOUS
<1>2. /\ C[0] = <<>>
      /\ \A k \in 1..N : C[k] = CollapseTurn(s, k, C[k - 1])
      /\ \A k \in 0..N : C[k] \in S
  BY CollapseLoop
<1>3. \A k \in 0..N : F[k] = Len(C[k]) /\ F[k] \in Nat
  BY <1>2
<1>4. out = CollapseSpace(s) /\ out \in S /\ F[N] = Len(out) /\ F[0] = 0
  BY <1>1, <1>2, <1>3 DEF CollapseSpace
<1> HIDE DEF C, F, N, out
<1>5. ASSUME NEW k \in 1..N
      PROVE  /\ F[k - 1] <= F[k] /\ \A r \in 1..F[k - 1] : C[k][r] = C[k - 1][r]
             /\ \/ s[k] \in Blanks /\ F[k] = F[k - 1]
                \/ /\ s[k] \notin Blanks /\ C[k][F[k]] = s[k]
                   /\ \/ /\ F[k - 1] > 0 /\ s[k - 1] \in Blanks
                         /\ F[k] = F[k - 1] + 2 /\ C[k][F[k - 1] + 1] = "sp"
                      \/ F[k] = F[k - 1] + 1 /\ (F[k - 1] = 0 \/ s[k - 1] \notin Blanks)
  <2> DEFINE b == C[k - 1]
             c == s[k]
             n == CollapseTurn(s, k, b)
             blank == s[k - 1] \in Blanks
             m == Len(b)
  <2>1. /\ b \in S /\ C[k] = n /\ n \in S /\ F[k - 1] = m /\ F[k] = Len(n) /\ m \in Nat
        /\ k \in 1..Len(s)
    BY <1>1, <1>2, <1>3 DEF N
  <2>2. c \in V
    BY <2>1 DEF N
  <2> HIDE DEF b
  <2>3. /\ c \in Blanks => n = b
        /\ c \notin Blanks /\ b # <<>> /\ blank => n = b \o <<"sp", c>>
        /\ c \notin Blanks /\ ~(b # <<>> /\ blank) => n = Append(b, c)
    BY <2>1, CollapseTurnCases, SMTT(60)
  <2>4. b # <<>> <=> m > 0
    BY <2>1, NotEmpty
  <2> HIDE DEF n, c, blank, S
  <2>5. CASE c \in Blanks
    <3>1. n = b
      BY <2>3, <2>5
    <3>2. F[k - 1] <= F[k] /\ \A r \in 1..F[k - 1] : C[k][r] = b[r]
      BY <2>1, <3>1
    <3> QED
      BY <2>1, <2>5, <3>1, <3>2 DEF b, c
  <2>6. CASE c \notin Blanks /\ b # <<>> /\ blank
    <3>1. n = b \o <<"sp", c>>
      BY <2>3, <2>6
    <3>2. Len(n) = m + 2 /\ n[m + 1] = "sp" /\ n[m + 2] = c /\ \A r \in 1..m : n[r] = b[r]
      BY <2>1, <2>2, <3>1 DEF S
    <3> QED
      BY <2>1, <2>4, <2>6, <3>2 DEF b, c, blank
  <2>7. CASE c \notin Blanks /\ ~(b # <<>> /\ blank)
    <3>1. n = Append(b, c)
      BY <2>3, <2>7
    <3>2. Len(n) = m + 1 /\ n[m + 1] = c /\ \A r \in 1..m : n[r] = b[r]
      BY <2>1, <2>2, <3>1 DEF S
    <3> QED
      BY <2>1, <2>4, <2>7, <3>2 DEF b, c, blank
  <2> QED
    BY <2>5, <2>6, <2>7
<1>6. ASSUME NEW k \in 0..N, NEW m \in k..N
      PROVE  F[k] <= F[m] /\ \A r \in 1..F[k] : C[m][r] = C[k][r]
  <2> DEFINE T == {x \in k..N : F[k] <= F[x] /\ \A r \in 1..F[k] : C[x][r] = C[k][r]}
  <2>1. k \in Int /\ N \in Int /\ k \in T
    BY <1>1, <1>3
  <2>2. ASSUME NEW x \in (k + 1)..N, x - 1 \in T
        PROVE  x \in T
    <3>1. x \in 1..N /\ x \in k..N /\ x - 1 \in 0..N /\ x \in 0..N
      BY <1>1
    <3>2. F[x - 1] <= F[x] /\ \A r \in 1..F[x - 1] : C[x][r] = C[x - 1][r]
      BY <1>5, <3>1
    <3>3. F[k] \in Nat /\ F[x - 1] \in Nat /\ F[x] \in Nat
      BY <1>3, <3>1
    <3>4. F[k] <= F[x - 1] /\ \A r \in 1..F[k] : C[x - 1][r] = C[k][r]
      BY <2>2
    <3>5. F[k] <= F[x] /\ \A r \in 1..F[k] : r \in 1..F[x - 1]
      BY <3>2, <3>3, <3>4
    <3> QED
      BY <3>1, <3>2, <3>4, <3>5
  <2>3. \A x \in k..N : x \in T
    <3> HIDE DEF T
    <3> QED
      BY <2>1, <2>2, InductFrom
  <2> QED
    BY <2>3
<1>7. \A k \in 0..N : F[k] \in 0..Len(out) /\ \A r \in 1..F[k] : out[r] = C[k][r]
  <2> SUFFICES ASSUME NEW k \in 0..N
               PROVE  F[k] \in 0..Len(out) /\ \A r \in 1..F[k] : out[r] = C[k][r]
    OBVIOUS
  <2>1. N \in k..N
    BY <1>1
  <2>2. F[k] <= F[N] /\ \A r \in 1..F[k] : C[N][r] = C[k][r]
    BY <1>6, <2>1
  <2> QED
    BY <1>1, <1>3, <1>4, <2>2 DEF out
<1>8. \A p, q \in 0..N : p <= q => F[p] <= F[q]
  <2> SUFFICES ASSUME NEW p \in 0..N, NEW q \in 0..N, p <= q
               PROVE  F[p] <= F[q]
    OBVIOUS
  <2>1. q \in p..N
    BY <1>1
  <2> QED
    BY <1>6, <2>1
<1>9. ASSUME NEW k \in 1..N
      PROVE  \/ s[k] \in Blanks /\ F[k] = F[k - 1]
             \/ /\ s[k] \notin Blanks /\ out[F[k]] = s[k]
                /\ \/ /\ F[k - 1] > 0 /\ s[k - 1] \in Blanks
                      /\ F[k] = F[k - 1] + 2 /\ out[F[k - 1] + 1] = "sp"
                   \/ F[k] = F[k - 1] + 1 /\ (F[k - 1] = 0 \/ s[k - 1] \notin Blanks)
  <2>1. F[k] \in Nat /\ F[k - 1] \in Nat /\ \A r \in 1..F[k] : out[r] = C[k][r]
    BY <1>1, <1>3, <1>7
  <2>2. \/ s[k] \in Blanks /\ F[k] = F[k - 1]
        \/ /\ s[k] \notin Blanks /\ C[k][F[k]] = s[k]
           /\ \/ /\ F[k - 1] > 0 /\ s[k - 1] \in Blanks
                 /\ F[k] = F[k - 1] + 2 /\ C[k][F[k - 1] + 1] = "sp"
              \/ F[k] = F[k - 1] + 1 /\ (F[k - 1] = 0 \/ s[k - 1] \notin Blanks)
    BY <1>5
  <2>3. s[k] \notin Blanks => F[k] \in 1..F[k]
    BY <2>1, <2>2
  <2>4. F[k] = F[k - 1] + 2 => F[k - 1] + 1 \in 1..F[k]
    BY <2>1
  <2> QED
    BY <2>1, <2>2, <2>3, <2>4
<1>10. Extends(s, out, F)
  BY <1>4, <1>7, <1>8, <1>9 DEF Extends, N
<1> QED
  BY <1>4, <1>10

\* Of what collapseSpace writes: each symbol that is not a blank has its place,
\* in their order; two that follow each other, with or without blanks between,
\* still do, with one blank or none; and nothing else is written.
Collapses(s, out, F) ==
  /\ \A p \in 1..Len(s) : s[p] \notin Blanks => F[p] \in 1..Len(out) /\ out[F[p]] = s[p]
  /\ \A p, q \in 1..Len(s) : p < q /\ s[q] \notin Blanks => F[p] < F[q]
  /\ \A p, q \in 1..Len(s) :
       /\ p < q /\ s[p] \notin Blanks /\ s[q] \notin Blanks
       /\ \A k \in (p + 1)..(q - 1) : s[k] \in Blanks
       => \/ q = p + 1 /\ F[q] = F[p] + 1
          \/ q > p + 1 /\ F[q] = F[p] + 2 /\ out[F[p] + 1] = "sp"
  /\ \A r \in 1..Len(out) :
       out[r] = "sp" \/ \E p \in 1..Len(s) : s[p] \notin Blanks /\ F[p] = r

\* It follows from how each turn extends what is written.
LEMMA Collapsed ==
  ASSUME NEW V, NEW s \in Seq(V), NEW out \in Seq(V \cup {"sp"}), NEW F, Extends(s, out, F)
  PROVE  Collapses(s, out, F)
<1> DEFINE N == Len(s)
           M == Len(out)
<1>1. N \in Nat /\ M \in Nat /\ N \in 0..N /\ \A k \in 1..N : k \in 0..N /\ k - 1 \in 0..N
  OBVIOUS
<1>2. /\ \A k \in 0..N : F[k] \in 0..M
      /\ \A p, q \in 0..N : p <= q => F[p] <= F[q]
      /\ F[0] = 0 /\ F[N] = M
      /\ \A k \in 1..N :
           \/ s[k] \in Blanks /\ F[k] = F[k - 1]
           \/ /\ s[k] \notin Blanks /\ out[F[k]] = s[k]
              /\ \/ /\ F[k - 1] > 0 /\ s[k - 1] \in Blanks
                    /\ F[k] = F[k - 1] + 2 /\ out[F[k - 1] + 1] = "sp"
                 \/ F[k] = F[k - 1] + 1 /\ (F[k - 1] = 0 \/ s[k - 1] \notin Blanks)
  BY DEF Extends
<1> HIDE DEF N, M
<1>3. ASSUME NEW p \in 1..N, s[p] \notin Blanks
      PROVE  F[p] \in 1..M /\ out[F[p]] = s[p] /\ F[p - 1] < F[p]
  <2>1. F[p] \in 0..M /\ F[p - 1] \in 0..M
    BY <1>1, <1>2
  <2>2. /\ out[F[p]] = s[p]
        /\ F[p] = F[p - 1] + 2 \/ F[p] = F[p - 1] + 1
    BY <1>2, <1>3, Zenon
  <2> QED
    BY <1>1, <2>1, <2>2
<1>4. ASSUME NEW p \in 1..N, NEW q \in 1..N, p < q, s[q] \notin Blanks
      PROVE  F[p] < F[q]
  <2>1. p <= q - 1 /\ q - 1 \in 0..N /\ p \in 0..N /\ q \in 0..N
    BY <1>1, <1>4
  <2>2. F[p] <= F[q - 1] /\ F[q - 1] < F[q]
    BY <1>2, <1>3, <1>4, <2>1
  <2>3. F[p] \in Nat /\ F[q - 1] \in Nat /\ F[q] \in Nat
    BY <1>1, <1>2, <2>1
  <2> QED
    BY <2>2, <2>3
<1>5. ASSUME NEW p \in 1..N, NEW q \in 1..N, p < q, s[p] \notin Blanks, s[q] \notin Blanks,
             \A k \in (p + 1)..(q - 1) : s[k] \in Blanks
      PROVE  \/ q = p + 1 /\ F[q] = F[p] + 1
             \/ q > p + 1 /\ F[q] = F[p] + 2 /\ out[F[p] + 1] = "sp"
  <2> DEFINE T == {k \in p..(q - 1) : F[k] = F[p]}
  <2>1. p \in Int /\ q - 1 \in Int /\ p \in T
    BY <1>1, <1>5
  <2>2. ASSUME NEW k \in (p + 1)..(q - 1), k - 1 \in T
        PROVE  k \in T
    <3>1. k \in p..(q - 1) /\ k \in 1..N /\ s[k] \in Blanks /\ k - 1 \in p..(q - 1)
      BY <1>1, <1>5
    <3>2. F[k] = F[k - 1]
      BY <1>2, <3>1
    <3> QED
      BY <2>2, <3>1, <3>2
  <2>3. \A k \in p..(q - 1) : k \in T
    <3> HIDE DEF T
    <3> QED
      BY <2>1, <2>2, InductFrom
  <2>4. q - 1 \in p..(q - 1)
    BY <1>1, <1>5
  <2>5. F[q - 1] = F[p]
    BY <2>3, <2>4
  <2>6. F[p] \in 1..M
    BY <1>3, <1>5
  <2>7. CASE q = p + 1
    <3>1. q - 1 = p
      BY <1>1, <2>7
    <3> QED
      BY <1>1, <1>2, <1>5, <2>5, <2>6, <2>7, <3>1
  <2>8. CASE q > p + 1
    <3>1. q - 1 \in (p + 1)..(q - 1)
      BY <1>1, <2>8
    <3>2. s[q - 1] \in Blanks
      BY <1>5, <3>1
    <3>3. \/ F[q - 1] > 0 /\ F[q] = F[q - 1] + 2 /\ out[F[q - 1] + 1] = "sp"
          \/ F[q] = F[q - 1] + 1 /\ F[q - 1] = 0
      BY <1>2, <1>5, <3>2, Zenon
    <3> QED
      BY <1>1, <2>5, <2>6, <2>8, <3>3
  <2> QED
    BY <1>1, <1>5, <2>7, <2>8
<1>6. ASSUME NEW r \in 1..M
      PROVE  out[r] = "sp" \/ \E p \in 1..N : s[p] \notin Blanks /\ F[p] = r
  <2> DEFINE T == {k \in 0..N : r <= F[k]}
  <2>1. T \in SUBSET Nat /\ N \in T
    BY <1>1, <1>2
  <2>2. PICK k \in T : \A x \in T : k <= x
    <3> HIDE DEF T
    <3>1. T # {}
      BY <2>1
    <3> QED
      BY <2>1, <3>1, Least
  <2>3. k \in 0..N /\ r <= F[k] /\ k # 0
    BY <1>1, <1>2
  <2>4. k \in 1..N /\ k - 1 \in 0..N /\ ~(k <= k - 1)
    BY <1>1, <2>3
  <2>5. ~(r <= F[k - 1])
    BY <2>2, <2>4
  <2>6. F[k] \in Nat /\ F[k - 1] \in Nat
    BY <1>1, <1>2, <2>4
  <2>7. /\ s[k] \notin Blanks
        /\ F[k] = r \/ (F[k - 1] + 1 = r /\ out[F[k - 1] + 1] = "sp")
    BY <1>1, <1>2, <2>3, <2>4, <2>5, <2>6
  <2> QED
    BY <2>4, <2>7
<1> QED
  BY <1>3, <1>4, <1>5, <1>6 DEF Collapses, N, M

-----------------------------------------------------------------------------
(* What the reference lexer reads is found.                                *)

\* Token m is the one symbol w, which is at p and nowhere else.
SymbolAt(T, out, own, m, w, p) ==
  /\ m \in 1..Len(T) /\ p \in 1..Len(out) /\ out[p] = w
  /\ \A x \in 1..Len(out) : own[x] = m <=> x = p

\* A token of one symbol has a place.
LEMMA SymbolPlaced ==
  ASSUME NEW T, NEW h, NEW out, NEW own, Placed(T, h, out, own),
         NEW w, NEW m \in 1..Len(T), T[m] = <<w>>
  PROVE  \E p : SymbolAt(T, out, own, m, w, p)
<1>1. Len(T[m]) = 1 /\ T[m][1] = w
  OBVIOUS
<1>2. PICK r \in 1..Len(out) : out[r] = T[m][1] /\ \A p \in 1..Len(out) : own[p] = m <=> p = r
  BY <1>1 DEF Placed
<1> QED
  BY <1>1, <1>2 DEF SymbolAt

\* Two symbols that are tokens, one after the other, are so in the collapsed
\* text, where a blank at most is between them and two words have one.
LEMMA NextPlace ==
  ASSUME NEW V, NEW T \in Seq(Seq(V)), NEW h \in Seq(V), NEW out \in Seq(V), NEW own,
         Placed(T, h, out, own), NEW c \in Seq(V \cup {"sp"}), NEW F, Collapses(out, c, F),
         NEW m, NEW m2, m2 = m + 1, NEW w, NEW p, NEW x, NEW q, w \notin Blanks, x \notin Blanks,
         SymbolAt(T, out, own, m, w, p), SymbolAt(T, out, own, m2, x, q)
  PROVE  /\ F[p] \in 1..Len(c) /\ F[q] \in 1..Len(c) /\ c[F[p]] = w /\ c[F[q]] = x /\ p < q
         /\ \/ F[q] = F[p] + 2 /\ c[F[p] + 1] = "sp"
            \/ F[q] = F[p] + 1 /\ (w \notin Identifier \/ x \notin Identifier)
<1> DEFINE N == Len(out)
           M == Len(T)
<1>1. N \in Nat /\ M \in Nat
  OBVIOUS
<1>2. /\ m \in 1..M /\ p \in 1..N /\ out[p] = w /\ \A y \in 1..N : own[y] = m <=> y = p
      /\ m + 1 \in 1..M /\ q \in 1..N /\ out[q] = x /\ \A y \in 1..N : own[y] = m + 1 <=> y = q
  BY DEF SymbolAt
<1>3. /\ \A r \in 1..N : own[r] \in 0..(M + 1)
      /\ \A r \in 1..N : own[r] = 0 => out[r] \in Blanks
      /\ \A y, r \in 1..N : y < r /\ own[y] # 0 /\ own[r] # 0 => own[y] <= own[r]
      /\ \A r \in 1..(N - 1) :
           out[r] \in Identifier /\ out[r + 1] \in Identifier => own[r] = own[r + 1]
  BY DEF Placed
<1>4. /\ \A r \in 1..N : out[r] \notin Blanks => F[r] \in 1..Len(c) /\ c[F[r]] = out[r]
      /\ \A y, r \in 1..N :
           /\ y < r /\ out[y] \notin Blanks /\ out[r] \notin Blanks
           /\ \A k \in (y + 1)..(r - 1) : out[k] \in Blanks
           => \/ r = y + 1 /\ F[r] = F[y] + 1
              \/ r > y + 1 /\ F[r] = F[y] + 2 /\ c[F[y] + 1] = "sp"
  BY DEF Collapses
<1> HIDE DEF N, M
<1>5. own[p] = m /\ own[q] = m + 1 /\ m \in Nat /\ p # q /\ p < q
  <2>1. own[p] = m /\ own[q] = m + 1 /\ m \in Nat /\ m > 0
    BY <1>1, <1>2
  <2>2. ~(q < p)
    BY <1>2, <1>3, <2>1
  <2> QED
    BY <1>1, <1>2, <2>1, <2>2
<1>6. ASSUME NEW k \in (p + 1)..(q - 1)
      PROVE  out[k] \in Blanks
  <2>1. k \in 1..N /\ p < k /\ k < q /\ k # p /\ k # q
    BY <1>1, <1>2
  <2>2. own[k] # m /\ own[k] # m + 1 /\ own[k] \in 0..(M + 1)
    BY <1>2, <1>3, <2>1
  <2>3. own[k] # 0 => m <= own[k] /\ own[k] <= m + 1
    BY <1>2, <1>3, <1>5, <2>1
  <2>4. own[k] = 0
    <3> DEFINE z == own[k]
    <3>1. z \in Nat /\ z # m /\ z # m + 1 /\ (z # 0 => m <= z /\ z <= m + 1)
      BY <1>1, <2>2, <2>3
    <3> HIDE DEF z
    <3>2. z = 0
      BY <1>5, <3>1
    <3> QED
      BY <3>2 DEF z
  <2> QED
    BY <1>3, <2>1, <2>4
<1>7. q = p + 1 => w \notin Identifier \/ x \notin Identifier
  <2> SUFFICES ASSUME q = p + 1, w \in Identifier, x \in Identifier
               PROVE  FALSE
    OBVIOUS
  <2>1. p \in 1..(N - 1)
    BY <1>1, <1>2
  <2>2. own[p] = own[p + 1]
    BY <1>2, <1>3, <2>1
  <2> QED
    BY <1>5, <2>2
<1>8. out[p] \notin Blanks /\ out[q] \notin Blanks
  BY <1>2
<1>9. \/ q = p + 1 /\ F[q] = F[p] + 1
      \/ q > p + 1 /\ F[q] = F[p] + 2 /\ c[F[p] + 1] = "sp"
  BY <1>2, <1>4, <1>5, <1>6, <1>8, Zenon
<1>10. F[p] \in 1..Len(c) /\ F[q] \in 1..Len(c) /\ c[F[p]] = w /\ c[F[q]] = x
  BY <1>2, <1>4, <1>8
<1> QED
  BY <1>5, <1>7, <1>9, <1>10

\* A word that is a token is a word of its own in the collapsed text.
LEMMA WordAlone ==
  ASSUME NEW V, NEW T \in Seq(Seq(V)), NEW h \in Seq(V), NEW out \in Seq(V), NEW own,
         Placed(T, h, out, own), NEW c \in Seq(V \cup {"sp"}), NEW F, Collapses(out, c, F),
         NEW m, NEW w \in Identifier, NEW p, SymbolAt(T, out, own, m, w, p)
  PROVE  /\ F[p] \in 1..Len(c) /\ c[F[p]] = w
         /\ F[p] > 1 => c[F[p] - 1] \notin Identifier
         /\ F[p] < Len(c) => c[F[p] + 1] \notin Identifier
<1> DEFINE N == Len(out)
           M == Len(c)
<1>1. N \in Nat /\ M \in Nat /\ w \notin Blanks /\ "sp" \notin Identifier
  BY DEF Blanks, Identifier, Words
<1>2. /\ p \in 1..N /\ out[p] = w /\ \A y \in 1..N : own[y] = m <=> y = p
  BY DEF SymbolAt
<1>3. \A r \in 1..(N - 1) :
        out[r] \in Identifier /\ out[r + 1] \in Identifier => own[r] = own[r + 1]
  BY DEF Placed
<1>4. /\ \A r \in 1..N : out[r] \notin Blanks => F[r] \in 1..M /\ c[F[r]] = out[r]
      /\ \A y, r \in 1..N : y < r /\ out[r] \notin Blanks => F[y] < F[r]
      /\ \A y, r \in 1..N :
           /\ y < r /\ out[y] \notin Blanks /\ out[r] \notin Blanks
           /\ \A k \in (y + 1)..(r - 1) : out[k] \in Blanks
           => \/ r = y + 1 /\ F[r] = F[y] + 1
              \/ r > y + 1 /\ F[r] = F[y] + 2 /\ c[F[y] + 1] = "sp"
      /\ \A r \in 1..M : c[r] = "sp" \/ \E y \in 1..N : out[y] \notin Blanks /\ F[y] = r
  BY DEF Collapses
<1> HIDE DEF N, M
<1>5. F[p] \in 1..M /\ c[F[p]] = w /\ out[p] \notin Blanks
  BY <1>1, <1>2, <1>4
<1>6. \* Two places that are next to each other were next to each other.
      ASSUME NEW y \in 1..N, NEW r \in 1..N, out[y] \notin Blanks, out[r] \notin Blanks,
             F[r] = F[y] + 1
      PROVE  r = y + 1
  <2>1. F[y] \in 1..M /\ F[r] \in 1..M
    BY <1>4, <1>6
  <2>2. y < r
    <3>1. r < y => F[r] < F[y]
      BY <1>4, <1>6
    <3>2. r # y /\ ~(F[r] < F[y])
      BY <1>1, <1>6, <2>1
    <3> QED
      BY <1>1, <3>1, <3>2
  <2>3. \A k \in (y + 1)..(r - 1) : out[k] \in Blanks
    <3> SUFFICES ASSUME NEW k \in (y + 1)..(r - 1), out[k] \notin Blanks
                 PROVE  FALSE
      OBVIOUS
    <3>1. k \in 1..N /\ y < k /\ k < r
      BY <1>1
    <3>2. F[k] \in 1..M /\ F[y] < F[k] /\ F[k] < F[r]
      BY <1>4, <1>6, <3>1
    <3> QED
      BY <1>1, <1>6, <2>1, <3>2
  <2>4. r = y + 1 \/ F[r] = F[y] + 2
    BY <1>4, <1>6, <2>2, <2>3, Zenon
  <2> QED
    BY <1>1, <1>6, <2>1, <2>4
<1>7. ASSUME F[p] > 1, c[F[p] - 1] \in Identifier
      PROVE  FALSE
  <2>1. F[p] - 1 \in 1..M /\ F[p] \in Nat
    BY <1>1, <1>5, <1>7
  <2>2. PICK y \in 1..N : out[y] \notin Blanks /\ F[y] = F[p] - 1
    BY <1>1, <1>4, <1>7, <2>1
  <2>3. out[y] \in Identifier /\ F[p] = F[y] + 1
    <3>1. c[F[y]] = out[y]
      BY <1>4, <2>2
    <3>2. out[y] \in Identifier
      BY <1>7, <2>2, <3>1
    <3> QED
      BY <2>1, <2>2, <3>2
  <2>4. p = y + 1
    BY <1>2, <1>5, <1>6, <2>2, <2>3
  <2>5. y \in 1..(N - 1)
    BY <1>1, <1>2, <2>2, <2>4
  <2>6. own[y] = own[p]
    BY <1>2, <1>3, <2>3, <2>4, <2>5
  <2> QED
    BY <1>1, <1>2, <2>2, <2>4, <2>6
<1>8. ASSUME F[p] < M, c[F[p] + 1] \in Identifier
      PROVE  FALSE
  <2>1. F[p] + 1 \in 1..M /\ F[p] \in Nat
    BY <1>1, <1>5, <1>8
  <2>2. PICK y \in 1..N : out[y] \notin Blanks /\ F[y] = F[p] + 1
    BY <1>1, <1>4, <1>8, <2>1
  <2>3. out[y] \in Identifier
    BY <1>4, <1>8, <2>2
  <2>4. y = p + 1
    BY <1>2, <1>5, <1>6, <2>2
  <2>5. p \in 1..(N - 1)
    BY <1>1, <1>2, <2>2, <2>4
  <2>6. own[y] = own[p]
    BY <1>2, <1>3, <2>3, <2>4, <2>5
  <2> QED
    BY <1>1, <1>2, <2>2, <2>4, <2>6
<1> QED
  BY <1>5, <1>7, <1>8 DEF M

\* CREATE DATABASE is found.
LEMMA CreateFound ==
  ASSUME NEW V, NEW T \in Seq(Seq(V)), NEW h \in Seq(V), NEW out \in Seq(V), NEW own,
         Placed(T, h, out, own), NEW c \in Seq(V \cup {"sp"}), NEW F, Collapses(out, c, F),
         NEW m, NEW p, NEW q,
         SymbolAt(T, out, own, m, "CREATE", p), SymbolAt(T, out, own, m + 1, "DATABASE", q)
  PROVE  \E phrase \in Phrases : ContainsPhrase(c, phrase)
<1> DEFINE i == F[p]
           phrase == <<"CREATE", "sp", "DATABASE">>
<1>1. /\ "CREATE" \in Identifier /\ "DATABASE" \in Identifier
      /\ "CREATE" \notin Blanks /\ "DATABASE" \notin Blanks
  BY DEF Identifier, Words, Blanks
<1>2. /\ i \in 1..Len(c) /\ F[q] \in 1..Len(c) /\ c[i] = "CREATE" /\ c[F[q]] = "DATABASE"
      /\ F[q] = i + 2 /\ c[i + 1] = "sp"
  BY <1>1, NextPlace, SMTT(60)
<1>3. i > 1 => c[i - 1] \notin Identifier
  BY <1>1, WordAlone
<1>4. F[q] < Len(c) => c[F[q] + 1] \notin Identifier
  BY <1>1, WordAlone
<1> HIDE DEF i
<1>5. Len(c) \in Nat /\ i \in Nat /\ i + 2 <= Len(c)
  BY <1>2
<1>6. Len(phrase) = 3 /\ phrase[1] = "CREATE" /\ phrase[2] = "sp" /\ phrase[3] = "DATABASE"
  OBVIOUS
<1>7. OccursAt(c, phrase, i)
  <2>1. \A k \in 1..3 : k = 1 \/ k = 2 \/ k = 3
    OBVIOUS
  <2>2. i + 1 - 1 = i /\ i + 2 - 1 = i + 1 /\ i + 3 - 1 = i + 2
    BY <1>5
  <2> HIDE DEF phrase
  <2>3. \A k \in 1..Len(phrase) : c[i + k - 1] = phrase[k]
    BY <1>2, <1>6, <2>1, <2>2
  <2> QED
    BY <1>2, <1>5, <1>6, <2>3 DEF OccursAt
<1> HIDE DEF phrase
<1>8. i + Len(phrase) <= Len(c) => c[i + Len(phrase)] \notin Identifier
  <2>1. i + Len(phrase) = F[q] + 1
    BY <1>2, <1>5, <1>6
  <2> QED
    BY <1>2, <1>4, <1>5, <1>6, <2>1
<1>9. ContainsPhrase(c, phrase)
  BY <1>2, <1>3, <1>7, <1>8 DEF ContainsPhrase
<1> QED
  BY <1>9 DEF Phrases, phrase

\* What follows a word of REINDEX is where the blank has been skipped.
LEMMA SkipsTo ==
  ASSUME NEW c, NEW i \in Nat, NEW j, Len(c) \in Nat, j \in 1..Len(c), c[j] # "sp",
         \/ j = i + 2 /\ c[i + 1] = "sp"
         \/ j = i + 1
  PROVE  (IF i + 1 <= Len(c) /\ c[i + 1] = "sp" THEN (i + 1) + 1 ELSE i + 1) = j
<1>1. CASE j = i + 2 /\ c[i + 1] = "sp"
  BY <1>1
<1>2. CASE j = i + 1
  BY <1>2
<1> QED
  BY <1>1, <1>2

\* REINDEX DATABASE is found.
LEMMA ReindexFound ==
  ASSUME NEW V, NEW T \in Seq(Seq(V)), NEW h \in Seq(V), NEW out \in Seq(V), NEW own,
         Placed(T, h, out, own), NEW c \in Seq(V \cup {"sp"}), NEW F, Collapses(out, c, F),
         NEW m, NEW p, NEW q,
         SymbolAt(T, out, own, m, "REINDEX", p), SymbolAt(T, out, own, m + 1, "DATABASE", q)
  PROVE  ReindexNonTransactional(c)
<1> DEFINE i == F[p]
           j == F[q]
           skip(x) == IF x <= Len(c) /\ c[x] = "sp" THEN x + 1 ELSE x
           target(x) == /\ x <= Len(c) /\ c[x] = "DATABASE"
                        /\ x < Len(c) => c[x + 1] \notin Words
<1>1. /\ "REINDEX" \in Identifier /\ "DATABASE" \in Identifier
      /\ "REINDEX" \notin Blanks /\ "DATABASE" \notin Blanks
      /\ \A x : x \notin Identifier => x \notin Words
  BY DEF Identifier, Words, Blanks
<1>2. /\ i \in 1..Len(c) /\ j \in 1..Len(c) /\ c[i] = "REINDEX" /\ c[j] = "DATABASE"
      /\ (j = i + 2 /\ c[i + 1] = "sp") \/ j = i + 1
  BY <1>1, NextPlace, SMTT(60)
<1>3. i > 1 => c[i - 1] \notin Words
  <2>1. i > 1 => c[i - 1] \notin Identifier
    BY <1>1, WordAlone
  <2> QED
    BY <1>1, <2>1
<1>4. j < Len(c) => c[j + 1] \notin Words
  <2>1. j < Len(c) => c[j + 1] \notin Identifier
    BY <1>1, WordAlone
  <2> QED
    BY <1>1, <2>1
<1> HIDE DEF i, j
<1>5. skip(i + 1) = j
  <2>1. i \in Nat /\ Len(c) \in Nat /\ c[j] # "sp"
    BY <1>2
  <2> QED
    BY <1>2, <2>1, SkipsTo
<1>6. target(skip(i + 1))
  <2>1. target(j)
    BY <1>2, <1>4
  <2> HIDE DEF target, skip
  <2> QED
    BY <1>5, <2>1
<1> QED
  BY <1>2, <1>3, <1>6 DEF ReindexNonTransactional

\* REINDEX (...) DATABASE is found: the first closing parenthesis is the token.
LEMMA ReindexOptionsFound ==
  ASSUME NEW V, NEW T \in Seq(Seq(V)), NEW h \in Seq(V), NEW out \in Seq(V), NEW own,
         Placed(T, h, out, own), NEW c \in Seq(V \cup {"sp"}), NEW F, Collapses(out, c, F),
         NEW m \in Nat, NEW j \in Nat, m + 2 <= j, NEW p0, NEW p1, NEW p2, NEW p3,
         SymbolAt(T, out, own, m, "REINDEX", p0), SymbolAt(T, out, own, m + 1, "(", p1),
         SymbolAt(T, out, own, j, ")", p2), SymbolAt(T, out, own, j + 1, "DATABASE", p3),
         \A k \in (m + 2)..(j - 1) : ")" \notin Range(T[k])
  PROVE  ReindexNonTransactional(c)
<1> DEFINE i == F[p0]
           open == F[p1]
           close == F[p2]
           last == F[p3]
           N == Len(out)
           skip(x) == IF x <= Len(c) /\ c[x] = "sp" THEN x + 1 ELSE x
           target(x) == /\ x <= Len(c) /\ c[x] = "DATABASE"
                        /\ x < Len(c) => c[x + 1] \notin Words
<1>1. /\ "REINDEX" \in Identifier /\ "DATABASE" \in Identifier
      /\ "REINDEX" \notin Blanks /\ "DATABASE" \notin Blanks
      /\ "(" \notin Blanks /\ ")" \notin Blanks
      /\ \A x : x \notin Identifier => x \notin Words
  BY DEF Identifier, Words, Blanks
<1>2. ASSUME NEW a, NEW w, NEW p, SymbolAt(T, out, own, a, w, p), NEW x, NEW q,
              SymbolAt(T, out, own, a + 1, x, q), w \notin Blanks, x \notin Blanks
       PROVE  /\ F[p] \in 1..Len(c) /\ F[q] \in 1..Len(c) /\ c[F[p]] = w /\ c[F[q]] = x
              /\ (F[q] = F[p] + 2 /\ c[F[p] + 1] = "sp") \/ F[q] = F[p] + 1
  BY <1>2, NextPlace
<1>3. /\ i \in 1..Len(c) /\ open \in 1..Len(c) /\ c[i] = "REINDEX" /\ c[open] = "("
      /\ (open = i + 2 /\ c[i + 1] = "sp") \/ open = i + 1
  <2>1. "REINDEX" \notin Blanks /\ "(" \notin Blanks
    BY <1>1
  <2>2. /\ F[p0] \in 1..Len(c) /\ F[p1] \in 1..Len(c) /\ c[F[p0]] = "REINDEX" /\ c[F[p1]] = "("
        /\ (F[p1] = F[p0] + 2 /\ c[F[p0] + 1] = "sp") \/ F[p1] = F[p0] + 1
    BY <1>2, <2>1, ZenonT(60)
  <2> QED
    BY <2>2
<1>4. /\ close \in 1..Len(c) /\ last \in 1..Len(c) /\ c[close] = ")" /\ c[last] = "DATABASE"
      /\ (last = close + 2 /\ c[close + 1] = "sp") \/ last = close + 1
  <2>1. ")" \notin Blanks /\ "DATABASE" \notin Blanks
    BY <1>1
  <2>2. /\ F[p2] \in 1..Len(c) /\ F[p3] \in 1..Len(c) /\ c[F[p2]] = ")" /\ c[F[p3]] = "DATABASE"
        /\ (F[p3] = F[p2] + 2 /\ c[F[p2] + 1] = "sp") \/ F[p3] = F[p2] + 1
    BY <1>2, <2>1, ZenonT(60)
  <2> QED
    BY <2>2
<1>5. i > 1 => c[i - 1] \notin Words
  <2>1. i > 1 => c[i - 1] \notin Identifier
    BY <1>1, WordAlone
  <2> QED
    BY <1>1, <2>1
<1>6. last < Len(c) => c[last + 1] \notin Words
  <2>1. last < Len(c) => c[last + 1] \notin Identifier
    BY <1>1, WordAlone
  <2> QED
    BY <1>1, <2>1
<1>7. /\ p1 \in 1..N /\ out[p1] = "(" /\ \A y \in 1..N : own[y] = m + 1 <=> y = p1
      /\ p2 \in 1..N /\ out[p2] = ")" /\ \A y \in 1..N : own[y] = j <=> y = p2
      /\ j \in 1..Len(T)
  BY DEF SymbolAt
<1>8. /\ \A r \in 1..N : own[r] \in 0..(Len(T) + 1)
      /\ \A r \in 1..N : own[r] = 0 => out[r] \in Blanks
      /\ \A r \in 1..N : own[r] \in 1..Len(T) /\ out[r] = ")" => ")" \in Range(T[own[r]])
      /\ \A y, r \in 1..N : y < r /\ own[y] # 0 /\ own[r] # 0 => own[y] <= own[r]
  BY DEF Placed
<1>9. /\ \A r \in 1..N : out[r] \notin Blanks => F[r] \in 1..Len(c) /\ c[F[r]] = out[r]
      /\ \A y, r \in 1..N : y < r /\ out[r] \notin Blanks => F[y] < F[r]
      /\ \A r \in 1..Len(c) : c[r] = "sp" \/ \E y \in 1..N : out[y] \notin Blanks /\ F[y] = r
  BY DEF Collapses
<1> HIDE DEF i, last
<1>10. N \in Nat /\ Len(c) \in Nat /\ Len(T) \in Nat
  OBVIOUS
<1> HIDE DEF N
<1>11. own[p1] = m + 1 /\ own[p2] = j /\ p1 < p2
  <2>1. own[p1] = m + 1 /\ own[p2] = j /\ p1 # p2
    BY <1>7
  <2>2. p2 < p1 => j <= m + 1
    <3>1. m + 1 # 0 /\ j # 0
      BY <1>7
    <3>2. p2 < p1 /\ own[p2] # 0 /\ own[p1] # 0 => own[p2] <= own[p1]
      BY <1>7, <1>8, Zenon
    <3> QED
      BY <2>1, <3>1, <3>2
  <2> QED
    BY <1>7, <1>10, <2>1, <2>2
<1>12. open < close
  BY <1>1, <1>7, <1>9, <1>11
<1>13. ASSUME NEW x \in open..(close - 1), c[x] = ")"
       PROVE  FALSE
  <2>1. x \in 1..Len(c) /\ open <= x /\ x < close
    BY <1>3, <1>4, SMTT(60)
  <2>2. PICK y \in 1..N : out[y] \notin Blanks /\ F[y] = x
    BY <1>9, <1>13, <2>1
  <2>3. out[y] = ")"
    BY <1>9, <1>13, <2>2
  <2>4. y # p1
    BY <1>7, <2>3
  <2>5. y # p2 /\ ~(p2 < y)
    <3>1. p2 < y => close < x
      BY <1>7, <1>9, <2>2
    <3> HIDE DEF close
    <3>2. ~(close < x) /\ x # close
      BY <1>4, <1>10, <2>1
    <3> QED
      BY <2>2, <3>1, <3>2 DEF close
  <2>6. ~(y < p1)
    <3>1. y < p1 => x < open
      BY <1>1, <1>7, <1>9, <2>2
    <3> HIDE DEF open
    <3>2. ~(x < open)
      BY <1>3, <1>10, <2>1
    <3> QED
      BY <3>1, <3>2
  <2>7. p1 < y /\ y < p2
    BY <1>7, <1>10, <2>4, <2>5, <2>6
  <2>8. own[y] # 0 /\ own[y] # m + 1 /\ own[y] # j /\ own[y] \in 0..(Len(T) + 1)
    BY <1>7, <1>8, <2>2, <2>4, <2>5
  <2>9. m + 1 <= own[y] /\ own[y] <= j
    <3>1. m + 1 # 0 /\ j # 0
      BY <1>7, SMTT(60)
    <3> QED
      BY <1>7, <1>8, <1>11, <2>7, <2>8, <3>1
  <2> DEFINE k == own[y]
  <2>10. k \in (m + 2)..(j - 1) /\ k \in 1..Len(T)
    <3>1. k \in Nat /\ k # m + 1 /\ k # j /\ m + 1 <= k /\ k <= j
      BY <1>10, <2>8, <2>9
    <3> HIDE DEF k
    <3> QED
      BY <1>7, <1>10, <3>1
  <2>11. ")" \in Range(T[k])
    BY <1>8, <2>3, <2>10
  <2> QED
    BY <2>10, <2>11
<1> HIDE DEF open, close
<1>14. IndexFrom(c, <<")">>, open) = close
  <2> DEFINE x == IndexFrom(c, <<")">>, open)
  <2>1. \A y \in open..Len(c) : OccursAt(c, <<")">>, y) <=> c[y] = ")"
    <3> SUFFICES ASSUME NEW y \in open..Len(c)
                 PROVE  OccursAt(c, <<")">>, y) <=> c[y] = ")"
      OBVIOUS
    <3>1. y \in Int /\ y \in 1..Len(c)
      BY <1>3
    <3> QED
      BY <3>1, OccursOne
  <2>2. \/ x = 0 /\ \A y \in open..Len(c) : ~OccursAt(c, <<")">>, y)
        \/ x \in open..Len(c) /\ OccursAt(c, <<")">>, x)
           /\ \A y \in open..(x - 1) : ~OccursAt(c, <<")">>, y)
    BY <1>3, <1>10, FirstOccurrence
  <2> HIDE DEF x
  <2>3. close \in open..Len(c) /\ OccursAt(c, <<")">>, close)
    BY <1>3, <1>4, <1>12, <2>1
  <2>4. x \in open..Len(c) /\ c[x] = ")" /\ ~(close \in open..(x - 1))
    BY <2>1, <2>2, <2>3
  <2>5. ~(x \in open..(close - 1))
    BY <1>13, <2>4
  <2>6. x = close
    BY <1>3, <1>4, <1>10, <1>12, <2>4, <2>5
  <2> QED
    BY <2>6 DEF x
<1>15. skip(i + 1) = open
  <2>1. i \in Nat /\ c[open] # "sp"
    BY <1>3
  <2> QED
    BY <1>3, <1>10, <2>1, SkipsTo
<1>16. skip(close + 1) = last
  <2>1. close \in Nat /\ c[last] # "sp"
    BY <1>4
  <2> QED
    BY <1>4, <1>10, <2>1, SkipsTo
<1>17. target(last)
  BY <1>4, <1>6, <1>10
<1>18. open <= Len(c) /\ close # 0
  BY <1>3, <1>4
<1> HIDE DEF target, skip
<1>19. LET o == skip(i + 1)
           e == IndexFrom(c, <<")">>, o)
       IN o <= Len(c) /\ c[o] = "(" /\ e # 0 /\ target(skip(e + 1))
  BY <1>3, <1>14, <1>15, <1>16, <1>17, <1>18
<1> QED
  BY <1>3, <1>5, <1>19 DEF ReindexNonTransactional, target, skip

\* A text of which the reference lexer reads a statement that PostgreSQL would
\* refuse in a transaction is rejected: the stripped text has the statement.
LEMMA Rejected ==
  ASSUME NEW V, Blanks \subseteq V, NEW s \in Seq(V), Lexed(s).plain,
         NonTransactional(Lexed(s).tokens)
  PROVE  RejectNonTransactional(s)
<1> DEFINE T == Lexed(s).tokens
           out == StripSQLComments(s)
           c == CollapseSpace(out)
           is(i, word) == i <= Len(T) /\ T[i] = <<word>>
<1>1. out \in Seq(V) /\ T \in Seq(Seq(V)) /\ Len(T) \in Nat
  BY StrippedPlaced
<1>2. PICK h \in Seq(V) : PlacedIn(T, h, out)
  BY StrippedPlaced
<1>3. PICK own : Placed(T, h, out, own)
  BY <1>2 DEF PlacedIn
<1>4. c \in Seq(V \cup {"sp"}) /\ \E F : Extends(out, c, F)
  BY <1>1, Collapsing
<1>5. PICK F : Collapses(out, c, F)
  BY <1>1, <1>4, Collapsed
<1>6. \E i \in 1..Len(T) :
        \/ is(i, "CREATE") /\ is(i + 1, "DATABASE")
        \/ is(i, "REINDEX") /\ is(i + 1, "DATABASE")
        \/ /\ is(i, "REINDEX") /\ is(i + 1, "(")
           /\ \E j \in (i + 2)..Len(T) :
                /\ is(j, ")") /\ is(j + 1, "DATABASE")
                /\ \A k \in (i + 2)..(j - 1) : ")" \notin Range(T[k])
  BY DEF NonTransactional
<1> HIDE DEF T, out, c
<1>7. PICK i \in 1..Len(T) :
        \/ is(i, "CREATE") /\ is(i + 1, "DATABASE")
        \/ is(i, "REINDEX") /\ is(i + 1, "DATABASE")
        \/ /\ is(i, "REINDEX") /\ is(i + 1, "(")
           /\ \E j \in (i + 2)..Len(T) :
                /\ is(j, ")") /\ is(j + 1, "DATABASE")
                /\ \A k \in (i + 2)..(j - 1) : ")" \notin Range(T[k])
  BY <1>6
<1>8. ASSUME NEW m \in Nat \ {0}, NEW w, is(m, w)
      PROVE  \E p : SymbolAt(T, out, own, m, w, p)
  <2>1. m \in 1..Len(T) /\ T[m] = <<w>>
    BY <1>1, <1>8
  <2> QED
    BY <1>3, <2>1, SymbolPlaced
<1> HIDE DEF is
<1>9. i \in Nat /\ i \in Nat \ {0} /\ i + 1 \in Nat \ {0}
  OBVIOUS
<1>10. CASE is(i, "CREATE") /\ is(i + 1, "DATABASE")
  <2>1. PICK p : SymbolAt(T, out, own, i, "CREATE", p)
    BY <1>8, <1>9, <1>10
  <2>2. PICK q : SymbolAt(T, out, own, i + 1, "DATABASE", q)
    BY <1>8, <1>9, <1>10
  <2>3. \E phrase \in Phrases : ContainsPhrase(c, phrase)
    BY <1>1, <1>3, <1>4, <1>5, <2>1, <2>2, CreateFound
  <2> QED
    BY <2>3 DEF RejectNonTransactional, c, out
<1>11. CASE is(i, "REINDEX") /\ is(i + 1, "DATABASE")
  <2>1. PICK p : SymbolAt(T, out, own, i, "REINDEX", p)
    BY <1>8, <1>9, <1>11
  <2>2. PICK q : SymbolAt(T, out, own, i + 1, "DATABASE", q)
    BY <1>8, <1>9, <1>11
  <2>3. ReindexNonTransactional(c)
    BY <1>1, <1>3, <1>4, <1>5, <2>1, <2>2, ReindexFound
  <2> QED
    BY <2>3 DEF RejectNonTransactional, c, out
<1>12. CASE /\ is(i, "REINDEX") /\ is(i + 1, "(")
            /\ \E j \in (i + 2)..Len(T) :
                 /\ is(j, ")") /\ is(j + 1, "DATABASE")
                 /\ \A k \in (i + 2)..(j - 1) : ")" \notin Range(T[k])
  <2>1. PICK j \in (i + 2)..Len(T) :
               /\ is(j, ")") /\ is(j + 1, "DATABASE")
               /\ \A k \in (i + 2)..(j - 1) : ")" \notin Range(T[k])
    BY <1>12
  <2>2. j \in Nat /\ j \in Nat \ {0} /\ j + 1 \in Nat \ {0} /\ i + 2 <= j
    BY <1>1, <1>9
  <2>3. PICK p0 : SymbolAt(T, out, own, i, "REINDEX", p0)
    BY <1>8, <1>9, <1>12
  <2>4. PICK p1 : SymbolAt(T, out, own, i + 1, "(", p1)
    BY <1>8, <1>9, <1>12
  <2>5. PICK p2 : SymbolAt(T, out, own, j, ")", p2)
    BY <1>8, <2>1, <2>2
  <2>6. PICK p3 : SymbolAt(T, out, own, j + 1, "DATABASE", p3)
    BY <1>8, <2>1, <2>2
  <2>7. ReindexNonTransactional(c)
    BY <1>1, <1>3, <1>4, <1>5, <1>9, <2>1, <2>2, <2>3, <2>4, <2>5, <2>6, ReindexOptionsFound
  <2> QED
    BY <2>7 DEF RejectNonTransactional, c, out
<1> QED
  BY <1>7, <1>10, <1>11, <1>12

-----------------------------------------------------------------------------
(* Types, and the order of the list.                                       *)

\* A sorting of the files is a list of migrations.
LEMMA SortingsTyped ==
  ASSUME Loadable, NEW out \in Sortings
  PROVE  /\ out \in Seq([number : Nat \ {0}, name : Names])
         /\ DOMAIN out = 1..Cardinality(Files)
         /\ \A name \in Files : \E i \in DOMAIN out : out[i] = Migration(name)
<1> DEFINE N == Cardinality(Files)
           M == [number : Nat \ {0}, name : Names]
<1>1. N \in Nat
  <2>1. IsFiniteSet(Files)
    BY FS_Subset, LoaderAssumption DEF LoaderAssumption, Files
  <2> QED
    BY <2>1, FS_CardinalityType
<1>2. PICK order \in Bijection(1..N, Files) : out = [i \in 1..N |-> Migration(order[i])]
  BY DEF Sortings
<1> HIDE DEF N
<1>3. order \in [1..N -> Files] /\ \A name \in Files : \E i \in 1..N : order[i] = name
  BY <1>2 DEF Bijection, Injection, Surjection
<1>4. \A name \in Files : Migration(name) \in M
  BY DEF Loadable, WellNamed, Migration, Files
<1> HIDE DEF M
<1>5. out \in [1..N -> M]
  BY <1>2, <1>3, <1>4
<1>6. out \in Seq(M)
  BY <1>1, <1>5, SeqDef
<1>7. DOMAIN out = 1..N /\ \A i \in 1..N : out[i] = Migration(order[i])
  BY <1>2
<1>8. \A name \in Files : \E i \in DOMAIN out : out[i] = Migration(name)
  BY <1>3, <1>7
<1> QED
  BY <1>6, <1>7, <1>8 DEF N, M

\* Every variable has its type, and a set that was refused has no migrations.
THEOREM TypeCorrect == Spec => []TypeOK
<1>1. Init => TypeOK
  BY LoaderAssumption DEF Init, TypeOK, Files
<1>2. TypeOK /\ [Next]_vars => TypeOK'
  <2> SUFFICES ASSUME TypeOK, [Next]_vars
               PROVE  TypeOK'
    OBVIOUS
  <2>1. ASSUME NEW name \in Names, AddFile(name)
        PROVE  TypeOK'
    <3>1. <<>> \in Seq(Symbols) /\ <<>> # None
      BY EmptySeq, LoaderAssumption DEF LoaderAssumption
    <3>2. bodies' \in [Names -> Seq(Symbols) \cup {None}] /\ bodies'[name] # None
      BY <2>1, <3>1 DEF AddFile, TypeOK
    <3>3. newest' \in Files' \cup {None}
      BY <2>1, <3>2 DEF AddFile, Files
    <3> QED
      BY <2>1, <3>2, <3>3 DEF AddFile, TypeOK
  <2>2. ASSUME NEW fragment \in Fragments, Write(fragment)
        PROVE  TypeOK'
    <3>1. newest \in Files /\ newest \in Names /\ bodies[newest] \in Seq(Symbols)
      BY <2>2 DEF Write, TypeOK, Files
    <3>2. bodies[newest] \o fragment \in Seq(Symbols)
      BY <3>1, LoaderAssumption DEF LoaderAssumption
    <3>3. bodies' \in [Names -> Seq(Symbols) \cup {None}] /\ bodies'[newest] # None
      BY <2>2, <3>1, <3>2, LoaderAssumption DEF Write, TypeOK, LoaderAssumption
    <3>4. newest' \in Files' \cup {None}
      BY <2>2, <3>1, <3>3 DEF Write, Files
    <3> QED
      BY <2>2, <3>3, <3>4 DEF Write, TypeOK
  <2>3. CASE LoadMigrations
    <3>1. newest' \in Files' \cup {None}
      BY <2>3 DEF LoadMigrations, TypeOK, Files
    <3>2. /\ loaded' \in Seq([number : Nat \ {0}, name : Names])
          /\ verdict' \in {"accepted", "refused"}
          /\ verdict' # "accepted" => loaded' = <<>>
      <4>1. CASE Loadable /\ (\E out \in Sortings : loaded' = out) /\ verdict' = "accepted"
        BY <4>1, SortingsTyped
      <4>2. CASE verdict' = "refused" /\ loaded' = loaded
        <5>1. verdict # "accepted"
          BY <2>3, LoaderAssumption DEF LoadMigrations, LoaderAssumption
        <5> QED
          BY <4>2, <5>1 DEF TypeOK
      <4> QED
        BY <2>3, <4>1, <4>2 DEF LoadMigrations
    <3> QED
      BY <2>3, <3>1, <3>2 DEF LoadMigrations, TypeOK
  <2>4. CASE UNCHANGED vars
    BY <2>4 DEF vars, TypeOK, Files
  <2> QED
    BY <2>1, <2>2, <2>3, <2>4 DEF Next
<1> QED
  BY <1>1, <1>2, PTL DEF Spec

\* The list that loads holds every file in the place of its number.
THEOREM ByNumber == Spec => []LoadedByNumber
<1>1. Init => LoadedByNumber
  BY LoaderAssumption DEF Init, LoadedByNumber, LoaderAssumption
<1>2. LoadedByNumber /\ [Next]_vars => LoadedByNumber'
  <2> SUFFICES ASSUME LoadedByNumber, [Next]_vars
               PROVE  LoadedByNumber'
    OBVIOUS
  <2>1. ASSUME verdict = None, verdict' = None
        PROVE  LoadedByNumber'
    BY <2>1, LoaderAssumption DEF LoadedByNumber, LoaderAssumption
  <2>2. CASE LoadMigrations
    <3>1. CASE verdict' = "refused"
      BY <3>1 DEF LoadedByNumber
    <3>2. CASE Loadable /\ \E out \in Sortings : Contiguous(out) /\ loaded' = out
      <4>1. Contiguous(loaded') /\ loaded' \in Sortings
        BY <3>2
      <4>2. /\ DOMAIN loaded' = 1..Cardinality(Files)
            /\ \A name \in Files : \E i \in DOMAIN loaded' : loaded'[i] = Migration(name)
        BY <3>2, <4>1, SortingsTyped
      <4>3. ASSUME NEW name \in Files
            PROVE  name.atoi \in DOMAIN loaded' /\ loaded'[name.atoi].name = name
        <5>1. PICK i \in DOMAIN loaded' : loaded'[i] = Migration(name)
          BY <4>2
        <5>2. loaded'[i].number = i
          BY <4>1 DEF Contiguous
        <5> QED
          BY <5>1, <5>2 DEF Migration
      <4>4. Files' = Files
        BY <2>2 DEF LoadMigrations, Files
      <4> QED
        BY <4>2, <4>3, <4>4 DEF LoadedByNumber
    <3> QED
      BY <2>2, <3>1, <3>2 DEF LoadMigrations
  <2>3. CASE UNCHANGED vars
    BY <2>3 DEF vars, LoadedByNumber, Files
  <2> QED
    BY <2>1, <2>2, <2>3 DEF Next, AddFile, Write
<1> QED
  BY <1>1, <1>2, PTL DEF Spec

\* No plain migration that loads holds a statement PostgreSQL refuses in a
\* transaction: one with no $ in an identifier or that opens no dollar quote, and
\* nothing on the line of a comment behind the carriage return that ended it.
THEOREM RunsInTransaction == Spec => []LoadedRunsInTransaction
<1>1. Init => LoadedRunsInTransaction
  BY LoaderAssumption DEF Init, LoadedRunsInTransaction, LoaderAssumption
<1>2. TypeOK /\ LoadedRunsInTransaction /\ [Next]_vars => LoadedRunsInTransaction'
  <2> SUFFICES ASSUME TypeOK, LoadedRunsInTransaction, [Next]_vars
               PROVE  LoadedRunsInTransaction'
    OBVIOUS
  <2>1. ASSUME verdict = None, verdict' = None
        PROVE  LoadedRunsInTransaction'
    BY <2>1, LoaderAssumption DEF LoadedRunsInTransaction, LoaderAssumption
  <2>2. CASE LoadMigrations
    <3>1. CASE verdict' = "refused"
      BY <3>1 DEF LoadedRunsInTransaction
    <3>2. CASE Loadable
      <4> DEFINE V == Symbols \cup Blanks
      <4>1. bodies' = bodies /\ Files' = Files
        BY <2>2 DEF LoadMigrations, Files
      <4>2. ASSUME NEW name \in Files
            PROVE  Lexed(bodies[name]).plain => ~NonTransactional(Lexed(bodies[name]).tokens)
        <5> DEFINE s == bodies[name]
        <5>1. s \in Seq(Symbols) /\ ~RejectNonTransactional(s)
          BY <3>2 DEF Loadable, TypeOK, Files
        <5> HIDE DEF s
        <5>2. s \in Seq(V) /\ Blanks \subseteq V
          BY <5>1
        <5> HIDE DEF V
        <5>3. Lexed(s).plain => ~NonTransactional(Lexed(s).tokens)
          BY <5>1, <5>2, Rejected
        <5> QED
          BY <5>3 DEF s
      <4> QED
        BY <4>1, <4>2 DEF LoadedRunsInTransaction
    <3> QED
      BY <2>2, <3>1, <3>2 DEF LoadMigrations
  <2>3. CASE UNCHANGED vars
    BY <2>3 DEF vars, LoadedRunsInTransaction, Files
  <2> QED
    BY <2>1, <2>2, <2>3 DEF Next, AddFile, Write
<1> QED
  BY <1>1, <1>2, TypeCorrect, PTL DEF Spec
=============================================================================
