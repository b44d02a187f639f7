-------------------------- MODULE MCMigrationLoader --------------------------
(***************************************************************************)
(* Fragments of SQL that lexers get wrong, two of them whole statements    *)
(* with a comment inside; and file names whose lexical order is not their  *)
(* numeric order, that claim one number twice, or that are no migrations.  *)
(***************************************************************************)
EXTENDS MigrationLoader

SQL == {<<"'">>, <<"'", "'">>, <<"\"">>, <<"-", "-">>, <<"nl">>, <<"cr">>, <<"/", "*">>,
        <<"*", "/">>, <<"$", "$">>, <<"$", "a", "$">>, <<"a">>, <<"CREATE">>, <<"DATABASE">>,
        <<"CREATE", "/", "*", "*", "/", "DATABASE">>,
        <<"REINDEX", "(", "a", "/", "*", ")", "*", "/", ")", "DATABASE">>,
        <<"REINDEX", "(", "\"", ")", "\"", ")", "DATABASE">>}

File(stem, atoi) == [stem |-> stem, atoi |-> atoi, slug |-> TRUE, sql |-> TRUE]

\* 0002_b.sql, 0003_d.sql, 01_a.sql, 1_a.sql, README.md, x_a.sql.
Directory == {File("0002_b", 2), File("0003_d", 3), File("01_a", 1), File("1_a", 1),
              [stem |-> "README", atoi |-> None, slug |-> FALSE, sql |-> FALSE],
              File("x_a", None)}

\* 1_a.sql is written at length, the others hardly.
LongestFile == [name \in Directory |-> IF name.stem = "1_a" THEN 5 ELSE 1]
=============================================================================
