----------------------------- MODULE MCMigrator -----------------------------
(***************************************************************************)
(* Releases of the program and the processes that run them.  Release two   *)
(* adds a migration to release one; in `edited` somebody changed the first *)
(* migration after release one; `other` was built from another branch.     *)
(***************************************************************************)
EXTENDS Migrator, TLC

CONSTANTS m1, m2, m3, m4, s1, s2, s3, first, second, third, original, changed

Migration(n, d) == [name |-> n, digest |-> d]

One    == <<Migration(first, original)>>
Two    == <<Migration(first, original), Migration(second, original)>>
Edited == <<Migration(first, changed), Migration(second, original)>>
Other  == <<Migration(first, original), Migration(second, changed),
            Migration(third, original)>>

\* Migrators of release two, of a diverging branch and of an edited release, and
\* one of release two that is started as the runtime role; servers likewise.
Releases == m1 :> Two @@ m2 :> Other @@ m3 :> Edited @@ m4 :> Two
            @@ s1 :> One @@ s2 :> Two @@ s3 :> Edited

\* The migration release two adds has a COMMIT in its body.
Committing == {Migration(second, original)}
=============================================================================
