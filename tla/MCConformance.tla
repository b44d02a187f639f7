---------------------------- MODULE MCConformance ----------------------------
(***************************************************************************)
(* Files to start from, one for each shape of a vector and one without     *)
(* any, and what an edit may write into them.                              *)
(***************************************************************************)
EXTENDS Conformance, TLC

Text(s) == Str(<<s>>)

Vector(v, rest) ==
  Object(<<Member("name", Text("n")), Member("statement", Text("s")),
           Member("verdict", Text(v))>> \o rest)

ScopeWith(operation, rest) ==
  Member("scope", Object(<<Member("operation", Text(operation)), Member("schema", Text("p")),
                           Member("relation", Text("a"))>> \o rest))

Written == <<Member("columns_written", Array(<<Text("c")>>))>>
Where == <<Member("predicate", Text("TRUE"))>>

File(vectors) ==
  <<Object(<<Member("subset_version", Num(0)), Member("vectors", Array(vectors))>>)>>

Shapes == {File(<<>>),
           File(<<Vector("in_subset", <<ScopeWith("insert", Written)>>)>>),
           File(<<Vector("in_subset", <<ScopeWith("update", Written \o Where)>>)>>),
           File(<<Vector("in_subset", <<ScopeWith("delete", Where)>>)>>),
           File(<<Vector("unsupported", <<Member("because", Text("b"))>>)>>)}

\* Empty, blank, a keyword, the name of a field, half a surrogate pair, a whole
\* one, a backslash in front of what would be half a pair, and invalid bytes.
Strings == {<<>>, <<" ">>, <<"select">>, <<"because">>, <<"\\", "u", "HI">>,
            <<"\\", "u", "HI", "\\", "u", "LO">>, <<"\\", "\\", "u", "HI">>, <<"BAD">>}

Numbers == {-1, 3, 4, 5}

Respelled == {"verdict", "Verdict", "because", "predicate", "name"}

\* What these are spelled with.
Characters == UNION {Range(s) : s \in Strings}
              \cup Verdicts \cup Operations \cup {"n", "s", "p", "a", "c", "b", "TRUE"}

MemberKeys == Fields \cup Respelled

Folded == "Verdict" :> "verdict"
=============================================================================
