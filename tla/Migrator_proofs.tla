-------------------------- MODULE Migrator_proofs ---------------------------
(***************************************************************************)
(* For any number of migrators and servers, of any releases: what is       *)
(* recorded is always a beginning of one release and, if no migration      *)
(* commits itself, just what is in effect; what migrators and servers have *)
(* concluded about it stays so, and the runtime role never comes to own    *)
(* it.                                                                     *)
(***************************************************************************)
EXTENDS Migrator, TLAPS

\* The migrator's session holds the advisory lock: it is past taking it, or it
\* is dead and its last COMMIT may still take effect.
Within(m) ==
  \/ at[m] \in {"role", "create", "read", "apply", "record", "commit",
                "unlock", "giveup"}
  \/ at[m] = "killed" /\ tx[m] # {}

\* The migrator has a migration to record, or its COMMIT is on the way: what it
\* has read is still all there is.
UpToDate(m) == at[m] \in {"apply", "record"} \/ tx[m] # {}

\* What is recorded is a beginning of what b carries, and b carries more.
Behind(b) == IsPrefix(history, b) /\ Len(history) < Len(b)

\* The row of m's migration, whose body ended the transaction, is recorded.
RecordedAlone(m) ==
  /\ Len(read[m]) < Len(Embedded[m])
  /\ history = Append(read[m], Pending(m))
  /\ IsPrefix(history, Embedded[m])
  /\ Len(history) = Len(Embedded[m]) => IsPrefix(Embedded[m], history)

MigratorInv(m) ==
  /\ Within(m) => advisory = m
  /\ tx[m] # {} => at[m] \in {"record", "commit", "killed"}
  /\ at[m] = "record" => tx[m] \in {{}, {"ddl"}}
  /\ at[m] \in {"commit", "killed"} => tx[m] \in {{}, {"ddl", "row"}}
  /\ UpToDate(m) => read[m] = history /\ Behind(Embedded[m])
  /\ at[m] = "commit" /\ tx[m] = {} => RecordedAlone(m)
  /\ at[m] \in {"create", "read", "apply", "record", "commit"} => m \notin RuntimeRole
  /\ at[m] \in {"unlock", "done"} => IsPrefix(Embedded[m], history)

ServerInv(s) ==
  at[s] \in {"listen", "serving"} => IsPrefix(Embedded[s], history)

\* What is recorded is a beginning of one release.
HistoryIsOneRelease == \E m \in Migrators : IsPrefix(history, Embedded[m])

IInv == /\ TypeOK
        /\ HistoryIsOneRelease
        /\ RuntimeRoleOwnsNothing
        /\ \A m \in Migrators : MigratorInv(m)
        /\ \A s \in Servers : ServerInv(s)

-----------------------------------------------------------------------------
(* Prefixes.                                                               *)

\* A prefix, element by element.
LEMMA PrefixElements ==
  ASSUME NEW S, NEW s \in Seq(S), NEW t \in Seq(S)
  PROVE  IsPrefix(s, t) <=> Len(s) <= Len(t) /\ \A i \in 1..Len(s) : s[i] = t[i]
<1>1. ASSUME Len(s) <= Len(t)
      PROVE  SubSeq(s, 1, Len(s)) = SubSeq(t, 1, Len(s))
             <=> \A i \in 1..Len(s) : s[i] = t[i]
  BY <1>1
<1> QED
  BY <1>1 DEF IsPrefix

\* Every sequence is a prefix of itself, and of what is appended to it.
LEMMA PrefixAppend ==
  ASSUME NEW S, NEW s \in Seq(S), NEW e \in S
  PROVE  IsPrefix(s, s) /\ IsPrefix(s, Append(s, e)) /\ IsPrefix(<<>>, s)
<1> DEFINE a == Append(s, e)
           o == <<>>
<1>1. a \in Seq(S) /\ o \in Seq(S) /\ Len(o) = 0
  OBVIOUS
<1>2. Len(a) = Len(s) + 1 /\ \A i \in 1..Len(s) : a[i] = s[i]
  OBVIOUS
<1> HIDE DEF a, o
<1>3. IsPrefix(s, a)
  BY <1>1, <1>2, PrefixElements
<1>4. IsPrefix(s, s)
  BY DEF IsPrefix
<1>5. IsPrefix(o, s)
  <2>1. 1..Len(o) = {}
    BY <1>1
  <2>2. Len(o) <= Len(s)
    BY <1>1
  <2> QED
    BY <1>1, <2>1, <2>2, PrefixElements
<1> QED
  BY <1>3, <1>4, <1>5 DEF a, o

\* Prefixes are transitive.
LEMMA PrefixTransitive ==
  ASSUME NEW S, NEW s \in Seq(S), NEW t \in Seq(S), NEW u \in Seq(S),
         IsPrefix(s, t), IsPrefix(t, u)
  PROVE  IsPrefix(s, u)
BY PrefixElements

\* A proper prefix and the next element are a prefix too, of the same length
\* plus one; if that is all there is, the two are equal.
LEMMA PrefixNext ==
  ASSUME NEW S, NEW s \in Seq(S), NEW t \in Seq(S),
         IsPrefix(s, t), Len(s) < Len(t)
  PROVE  /\ t[Len(s) + 1] \in S
         /\ IsPrefix(Append(s, t[Len(s) + 1]), t)
         /\ Len(s) + 1 = Len(t) => IsPrefix(t, Append(s, t[Len(s) + 1]))
<1> DEFINE a == Append(s, t[Len(s) + 1])
<1>1. t[Len(s) + 1] \in S /\ a \in Seq(S)
  OBVIOUS
<1>2. /\ Len(a) = Len(s) + 1
      /\ \A i \in 1..Len(s) : a[i] = s[i]
      /\ a[Len(s) + 1] = t[Len(s) + 1]
  BY <1>1
<1> HIDE DEF a
<1>3. \A i \in 1..Len(s) : s[i] = t[i]
  BY PrefixElements
<1>4. \A i \in 1..Len(a) : a[i] = t[i]
  BY <1>2, <1>3
<1>5. IsPrefix(a, t)
  BY <1>1, <1>2, <1>4, PrefixElements
<1>6. ASSUME Len(s) + 1 = Len(t) PROVE IsPrefix(t, a)
  BY <1>1, <1>2, <1>4, <1>6, PrefixElements
<1> QED
  BY <1>1, <1>5, <1>6 DEF a

\* What Compare answers.
LEMMA Compared ==
  ASSUME NEW embedded \in Seq(Migrations), NEW applied \in Seq(Migrations)
  PROVE  /\ Compare(embedded, applied) \in {"mismatch", "same", "pending"}
         /\ Compare(embedded, applied) = "same" => embedded = applied
         /\ Compare(embedded, applied) = "pending" =>
              IsPrefix(applied, embedded) /\ Len(applied) < Len(embedded)
<1>1. CASE Len(applied) > Len(embedded)
  BY <1>1 DEF Compare
<1>2. CASE Len(applied) <= Len(embedded)
  BY <1>2, PrefixElements DEF Compare
<1> QED
  BY <1>1, <1>2

-----------------------------------------------------------------------------
(* What a step may change.                                                 *)

\* What migrator m does, and what becomes of its session when it is dead.
MigratorActs(m) == Step(m) \/ Kill(m) \/ LateCommit(m) \/ EndSession(m)

ServerActs(s) == Verify(s) \/ Listen(s) \/ Stop(s)

Keeps(m) == at'[m] = at[m] /\ tx'[m] = tx[m] /\ read'[m] = read[m]

\* The next migration of a migrator that is up to date: recording it leaves a
\* longer beginning of the same release.
LEMMA NextIsCarried ==
  ASSUME IInv, NEW m \in Migrators, UpToDate(m)
  PROVE  /\ Pending(m) \in Migrations /\ Pending(m) = Embedded[m][Len(history) + 1]
         /\ Append(history, Pending(m)) \in Seq(Migrations)
         /\ IsPrefix(history, Append(history, Pending(m)))
         /\ IsPrefix(Append(history, Pending(m)), Embedded[m])
         /\ Len(Append(history, Pending(m))) = Len(history) + 1
         /\ Len(Append(history, Pending(m))) = Len(Embedded[m]) =>
              IsPrefix(Embedded[m], Append(history, Pending(m)))
<1>1. history \in Seq(Migrations) /\ Embedded[m] \in Seq(Migrations)
  BY MigratorAssumption DEF IInv, TypeOK, Processes
<1>2. read[m] = history /\ IsPrefix(history, Embedded[m]) /\ Len(history) < Len(Embedded[m])
  BY DEF IInv, MigratorInv, Behind
<1>3. Pending(m) = Embedded[m][Len(history) + 1]
  BY <1>2 DEF Pending
<1>4. /\ Pending(m) \in Migrations
      /\ IsPrefix(Append(history, Pending(m)), Embedded[m])
      /\ Len(history) + 1 = Len(Embedded[m]) =>
           IsPrefix(Embedded[m], Append(history, Pending(m)))
  BY <1>1, <1>2, <1>3, PrefixNext
<1>5. /\ Append(history, Pending(m)) \in Seq(Migrations)
      /\ Len(Append(history, Pending(m))) = Len(history) + 1
  BY <1>1, <1>4
<1>6. IsPrefix(history, Append(history, Pending(m)))
  BY <1>1, <1>4, PrefixAppend
<1> QED
  BY <1>3, <1>4, <1>5, <1>6

\* A migrator records the next migration it carries, or nothing; it lets go of
\* the advisory lock only if it holds it.
LEMMA LockProtects ==
  ASSUME IInv, NEW m \in Migrators, MigratorActs(m)
  PROVE  /\ history' # history =>
              Within(m) /\ UpToDate(m) /\ history' = Append(history, Pending(m))
         /\ schema' # schema =>
              UpToDate(m) /\ schema' = Append(schema, Pending(m))
         /\ advisory' # advisory => advisory \in {None, m}
<1>1. CASE Commit(m) \/ LateCommit(m)
  <2>1. /\ tx[m] \in {{}, {"ddl", "row"}} /\ advisory' = advisory
        /\ TakesEffect(m, tx[m])
        /\ tx[m] # {} => Within(m)
    BY <1>1 DEF Commit, LateCommit, Within, IInv, MigratorInv
  <2> QED
    BY <2>1 DEF TakesEffect, UpToDate
<1>2. CASE Apply(m) \/ Record(m)
  BY <1>2 DEF Apply, Record, TakesEffect, Within, UpToDate
<1>3. CASE \/ Connect(m) \/ TakeLock(m) \/ LockTimeout(m) \/ CheckRole(m)
           \/ CreateTable(m) \/ ReadHistory(m)
           \/ Fail(m) \/ Unlock(m) \/ Kill(m) \/ EndSession(m)
  BY <1>3 DEF Connect, TakeLock, LockTimeout, CheckRole, CreateTable, ReadHistory,
              Fail, Unlock, Kill, EndSession, database
<1> QED
  BY <1>1, <1>2, <1>3 DEF MigratorActs, Step

\* What is recorded only grows, whatever the step.
LEMMA HistoryGrows ==
  ASSUME IInv, [Next]_vars
  PROVE  /\ history' \in Seq(Migrations) /\ IsPrefix(history, history')
         /\ HistoryIsOneRelease'
<1>1. history \in Seq(Migrations)
  BY DEF IInv, TypeOK
<1>2. CASE history' = history
  BY <1>1, <1>2 DEF IInv, HistoryIsOneRelease, IsPrefix
<1>3. ASSUME NEW m \in Migrators, UpToDate(m), history' = Append(history, Pending(m))
      PROVE  /\ history' \in Seq(Migrations) /\ IsPrefix(history, history')
             /\ HistoryIsOneRelease'
  BY <1>3, NextIsCarried DEF HistoryIsOneRelease
<1>4. \/ history' = history
      \/ \E m \in Migrators : UpToDate(m) /\ history' = Append(history, Pending(m))
  <2>1. CASE UNCHANGED vars
    BY <2>1 DEF vars, database
  <2>2. ASSUME NEW m \in Migrators, MigratorActs(m)
        PROVE  \/ history' = history
               \/ UpToDate(m) /\ history' = Append(history, Pending(m))
    BY <2>2, LockProtects
  <2>3. ASSUME NEW s \in Servers, ServerActs(s) PROVE history' = history
    BY <2>3 DEF ServerActs, Verify, Listen, Stop, database
  <2> QED
    BY <2>1, <2>2, <2>3 DEF Next, MigratorActs, ServerActs
<1> QED
  BY <1>2, <1>3, <1>4

\* A migrator changes its own place, and no server's.
LEMMA OthersKeepTheirs ==
  ASSUME TypeOK, NEW m \in Migrators, MigratorActs(m)
  PROVE  /\ \A q \in Migrators \ {m} : Keeps(q)
         /\ \A s \in Servers : at'[s] = at[s]
<1> USE MigratorAssumption DEF TypeOK, Goto, Held, Keeps, Processes
<1>1. CASE Connect(m) \/ TakeLock(m) \/ LockTimeout(m) \/ CheckRole(m) \/ CreateTable(m)
  BY <1>1 DEF Connect, TakeLock, LockTimeout, CheckRole, CreateTable
<1>2. CASE ReadHistory(m) \/ Apply(m) \/ Record(m) \/ Commit(m)
  BY <1>2 DEF ReadHistory, Apply, Record, Commit
<1>3. CASE Fail(m) \/ Unlock(m) \/ Kill(m) \/ LateCommit(m) \/ EndSession(m)
  BY <1>3 DEF Fail, Unlock, Kill, LateCommit, EndSession
<1> QED
  BY <1>1, <1>2, <1>3 DEF MigratorActs, Step

-----------------------------------------------------------------------------
(* Types.                                                                  *)

\* A step keeps every type.
LEMMA StepTyped == IInv /\ [Next]_vars => TypeOK'
<1> SUFFICES ASSUME IInv, [Next]_vars PROVE TypeOK'
  OBVIOUS
<1> USE DEF TypeOK, Goto, Held, Exited, Processes
<1>0. TypeOK
  BY DEF IInv
<1>1. CASE UNCHANGED vars
  BY <1>0, <1>1 DEF vars, database
<1>2. ASSUME NEW m \in Migrators,
             \/ Connect(m) \/ TakeLock(m) \/ LockTimeout(m) \/ CheckRole(m)
             \/ CreateTable(m) \/ Fail(m) \/ Unlock(m) \/ Kill(m) \/ EndSession(m)
      PROVE  TypeOK'
  BY <1>0, <1>2
  DEF Connect, TakeLock, LockTimeout, CheckRole, CreateTable, Fail,
      Unlock, Kill, EndSession, database
<1>3. ASSUME NEW m \in Migrators, ReadHistory(m) PROVE TypeOK'
  <2>1. Embedded[m] \in Seq(Migrations)
    BY MigratorAssumption
  <2>2. Compare(Embedded[m], history) \in {"mismatch", "same", "pending"}
    BY <1>0, <2>1, Compared
  <2> QED
    BY <1>0, <1>3, <2>2 DEF ReadHistory, database
<1>4. ASSUME NEW m \in Migrators, MigratorActs(m) PROVE schema' \in Seq(Migrations)
  <2>1. CASE schema' = schema
    BY <1>0, <2>1
  <2>2. CASE schema' # schema
    <3>1. UpToDate(m) /\ schema' = Append(schema, Pending(m))
      BY <1>4, <2>2, LockProtects
    <3>2. Pending(m) \in Migrations
      BY <3>1, NextIsCarried
    <3> QED
      BY <1>0, <3>1, <3>2
  <2> QED
    BY <2>1, <2>2
<1>5. ASSUME NEW m \in Migrators, Apply(m) \/ Record(m) PROVE TypeOK'
  <2>1. history' \in Seq(Migrations) /\ schema' \in Seq(Migrations)
    BY <1>4, <1>5, HistoryGrows DEF MigratorActs, Step
  <2>2. UNCHANGED <<owner, advisory, read>>
    BY <1>5 DEF Apply, Record
  <2>3. at' = [at EXCEPT ![m] = "record"] \/ at' = [at EXCEPT ![m] = "commit"]
    BY <1>5 DEF Apply, Record
  <2>4. tx' = tx \/ \E t \in {{"ddl"}, {"ddl", "row"}} : tx' = [tx EXCEPT ![m] = t]
    <3>1. CASE Apply(m)
      BY <3>1 DEF Apply
    <3>2. CASE Record(m)
      <4>1. tx[m] \in {{}, {"ddl"}} /\ {"ddl"} \cup {"row"} = {"ddl", "row"}
        BY <3>2 DEF Record, IInv, MigratorInv
      <4> QED
        BY <3>2, <4>1 DEF Record
    <3> QED
      BY <1>5, <3>1, <3>2
  <2> QED
    BY <1>0, <2>1, <2>2, <2>3, <2>4
<1>6. ASSUME NEW m \in Migrators, Commit(m) \/ LateCommit(m) PROVE TypeOK'
  <2>1. history' \in Seq(Migrations) /\ schema' \in Seq(Migrations)
    BY <1>4, <1>6, HistoryGrows DEF MigratorActs, Step
  <2>2. read' \in [Migrators -> Seq(Migrations)]
    <3>1. CASE Commit(m)
      <4>1. Pending(m) \in Migrations
        <5>1. CASE tx[m] # {}
          BY <5>1, NextIsCarried DEF UpToDate
        <5>2. CASE tx[m] = {}
          <6>1. Len(read[m]) < Len(Embedded[m])
            BY <3>1, <5>2 DEF Commit, IInv, MigratorInv, RecordedAlone
          <6>2. Embedded[m] \in Seq(Migrations) /\ read[m] \in Seq(Migrations)
            BY <1>0, MigratorAssumption
          <6> QED
            BY <6>1, <6>2 DEF Pending
        <5> QED
          BY <5>1, <5>2
      <4>2. Append(read[m], Pending(m)) \in Seq(Migrations)
        BY <1>0, <4>1
      <4>3. read' = [read EXCEPT ![m] = Append(read[m], Pending(m))]
        BY <3>1 DEF Commit
      <4> QED
        BY <1>0, <4>2, <4>3
    <3>2. CASE LateCommit(m)
      BY <1>0, <3>2 DEF LateCommit
    <3> QED
      BY <1>6, <3>1, <3>2
  <2>3. UNCHANGED owner /\ advisory' = advisory /\ tx' = [tx EXCEPT ![m] = {}]
    BY <1>6 DEF Commit, LateCommit
  <2>4. at' = at \/ at' = [at EXCEPT ![m] = "unlock"] \/ at' = [at EXCEPT ![m] = "apply"]
    BY <1>6 DEF Commit, LateCommit
  <2> QED
    BY <1>0, <2>1, <2>2, <2>3, <2>4
<1>7. ASSUME NEW s \in Servers, ServerActs(s) PROVE TypeOK'
  BY <1>0, <1>7 DEF ServerActs, Verify, Listen, Stop, database
<1> QED
  BY <1>1, <1>2, <1>3, <1>5, <1>6, <1>7 DEF Next, Step, ServerActs

-----------------------------------------------------------------------------
(* The invariant, process by process.                                      *)

\* Another migrator's step: the lock keeps it away from what m relies on, and
\* the conclusion of one that has finished outlasts it.
LEMMA UntouchedMigrator ==
  ASSUME IInv, NEW m \in Migrators, Keeps(m),
         history' \in Seq(Migrations), IsPrefix(history, history'),
         Within(m) => history' = history /\ advisory' = advisory
  PROVE  MigratorInv(m)'
<1>0. MigratorInv(m)
  BY DEF IInv
<1>1. /\ history \in Seq(Migrations) /\ Embedded[m] \in Seq(Migrations)
  BY MigratorAssumption DEF IInv, TypeOK, Processes
<1>2. at[m] \in {"unlock", "done"} => IsPrefix(Embedded[m], history')
  BY <1>0, <1>1, PrefixTransitive DEF MigratorInv
<1>3. UpToDate(m) => Within(m)
  BY <1>0 DEF MigratorInv, UpToDate, Within
<1>4. CASE Within(m)
  BY <1>0, <1>2, <1>4
  DEF MigratorInv, Within, UpToDate, Behind, RecordedAlone, Pending, Keeps
<1>5. CASE ~Within(m)
  BY <1>0, <1>2, <1>3, <1>5
  DEF MigratorInv, Within, UpToDate, Behind, Keeps
<1> QED
  BY <1>4, <1>5

\* A server that listens or serves has verified a beginning of what is applied.
LEMMA UntouchedServer ==
  ASSUME IInv, NEW s \in Servers, at'[s] = at[s],
         history' \in Seq(Migrations), IsPrefix(history, history')
  PROVE  ServerInv(s)'
<1>1. history \in Seq(Migrations) /\ Embedded[s] \in Seq(Migrations)
  BY MigratorAssumption DEF IInv, TypeOK, Processes
<1> QED
  BY <1>1, PrefixTransitive DEF IInv, ServerInv

\* A migrator keeps its own part at every step, dead or alive.
LEMMA ActorKeepsInv ==
  ASSUME IInv, NEW m \in Migrators, MigratorActs(m)
  PROVE  MigratorInv(m)'
<1> USE DEF Goto, Held
<1>0. TypeOK /\ MigratorInv(m)
  BY DEF IInv
<1>1. /\ history \in Seq(Migrations) /\ Embedded[m] \in Seq(Migrations)
      /\ m \in Processes
  BY MigratorAssumption DEF IInv, TypeOK, Processes
<1>2. CASE Connect(m) \/ TakeLock(m) \/ LockTimeout(m)
  BY <1>0, <1>1, <1>2
  DEF Connect, TakeLock, LockTimeout, database, TypeOK, MigratorInv, Within,
      UpToDate, Behind
<1>3. CASE CheckRole(m) \/ CreateTable(m)
  BY <1>0, <1>1, <1>3
  DEF CheckRole, CreateTable, database, TypeOK, MigratorInv, Within, UpToDate, Behind
<1>4. CASE ReadHistory(m)
  <2>1. /\ Compare(Embedded[m], history) \in {"mismatch", "same", "pending"}
        /\ Compare(Embedded[m], history) = "same" => IsPrefix(Embedded[m], history)
        /\ Compare(Embedded[m], history) = "pending" => Behind(Embedded[m])
    BY <1>1, Compared DEF Behind, IsPrefix
  <2> QED
    BY <1>0, <1>1, <1>4, <2>1
    DEF ReadHistory, database, TypeOK, MigratorInv, Within, UpToDate, Behind
<1>5. CASE Apply(m)
  <2>1. /\ history' = history /\ advisory' = advisory /\ read' = read
        /\ at'[m] = "record" /\ tx'[m] \in {{}, {"ddl"}}
    BY <1>0, <1>1, <1>5 DEF Apply, TakesEffect, TypeOK, MigratorInv
  <2> QED
    BY <1>0, <1>5, <2>1 DEF Apply, MigratorInv, Within, UpToDate, Behind
<1>6. CASE Record(m)
  <2>1. /\ read[m] = history /\ Behind(Embedded[m]) /\ advisory = m
        /\ m \notin RuntimeRole /\ tx[m] \in {{}, {"ddl"}}
    BY <1>0, <1>6 DEF Record, MigratorInv, UpToDate, Within
  <2>2. advisory' = advisory /\ read' = read /\ at'[m] = "commit"
    BY <1>0, <1>1, <1>6 DEF Record, TypeOK
  <2>3. CASE tx[m] = {}
    <3>1. tx'[m] = {} /\ history' = Append(history, Pending(m))
      BY <1>6, <2>3 DEF Record, TakesEffect
    <3>2. RecordedAlone(m)'
      BY <1>0, <1>1, <1>6, <2>1, <2>2, <3>1, NextIsCarried
      DEF Record, RecordedAlone, UpToDate, Pending, Behind
    <3> QED
      BY <2>1, <2>2, <3>1, <3>2 DEF MigratorInv, Within, UpToDate
  <2>4. CASE tx[m] # {}
    <3>1. tx'[m] = {"ddl", "row"} /\ history' = history
      <4>1. {"ddl"} \cup {"row"} = {"ddl", "row"}
        OBVIOUS
      <4> QED
        BY <1>0, <1>6, <2>1, <2>4, <4>1 DEF Record, TypeOK
    <3> QED
      BY <2>1, <2>2, <3>1 DEF MigratorInv, Within, UpToDate, Behind
  <2> QED
    BY <2>3, <2>4
<1>7. CASE Commit(m)
  <2>1. m \notin RuntimeRole /\ advisory = m /\ advisory' = m
    BY <1>0, <1>7 DEF Commit, MigratorInv, Within
  <2>2. /\ history' \in Seq(Migrations) /\ history' = Append(read[m], Pending(m))
        /\ IsPrefix(history', Embedded[m])
        /\ Len(history') = Len(Embedded[m]) => IsPrefix(Embedded[m], history')
    <3>1. CASE tx[m] = {}
      BY <1>0, <1>1, <1>7, <3>1 DEF Commit, TakesEffect, MigratorInv, RecordedAlone
    <3>2. CASE tx[m] # {}
      <4>1. tx[m] = {"ddl", "row"} /\ read[m] = history
        BY <1>0, <1>7, <3>2 DEF Commit, MigratorInv, UpToDate
      <4>2. history' = Append(history, Pending(m))
        BY <1>7, <4>1 DEF Commit, TakesEffect
      <4> QED
        BY <3>2, <4>1, <4>2, NextIsCarried DEF UpToDate
    <3> QED
      BY <3>1, <3>2
  <2>3. Len(history') = Len(read[m]) + 1
    <3>1. read[m] \in Seq(Migrations)
      BY <1>0 DEF TypeOK
    <3>2. Pending(m) \in Migrations
      <4>1. Len(read[m]) < Len(Embedded[m])
        BY <1>0, <1>7 DEF Commit, MigratorInv, RecordedAlone, UpToDate, Behind
      <4> QED
        BY <1>1, <3>1, <4>1 DEF Pending
    <3> QED
      BY <2>2, <3>1, <3>2
  <2>4. /\ tx'[m] = {} /\ read'[m] = history'
        /\ at'[m] = IF Len(history') = Len(Embedded[m]) THEN "unlock" ELSE "apply"
    BY <1>0, <1>1, <1>7, <2>2, <2>3 DEF Commit, TypeOK
  <2>5. Len(history') <= Len(Embedded[m])
    BY <2>2 DEF IsPrefix
  <2>6. CASE Len(history') = Len(Embedded[m])
    BY <2>1, <2>2, <2>4, <2>6 DEF MigratorInv, Within, UpToDate
  <2>7. CASE Len(history') # Len(Embedded[m])
    <3>1. Len(history') < Len(Embedded[m])
      BY <1>1, <2>2, <2>5, <2>7
    <3> QED
      BY <2>1, <2>2, <2>4, <2>7, <3>1 DEF MigratorInv, Within, UpToDate, Behind
  <2> QED
    BY <2>6, <2>7
<1>8. CASE Fail(m) \/ Unlock(m) \/ EndSession(m)
  BY <1>0, <1>1, <1>8
  DEF Fail, Unlock, EndSession, database, Exited, TypeOK, MigratorInv,
      Within, UpToDate, Behind
<1>9. CASE Kill(m)
  BY <1>0, <1>1, <1>9
  DEF Kill, database, Exited, TypeOK, MigratorInv, Within, UpToDate, Behind
<1>10. CASE LateCommit(m)
  BY <1>0, <1>1, <1>10 DEF LateCommit, TypeOK, MigratorInv, Within, UpToDate
<1> QED
  BY <1>2, <1>3, <1>4, <1>5, <1>6, <1>7, <1>8, <1>9, <1>10 DEF MigratorActs, Step

\* The runtime role does not get as far as creating the table.
LEMMA OwnerStays == IInv /\ [Next]_vars => RuntimeRoleOwnsNothing'
<1> SUFFICES ASSUME IInv, [Next]_vars PROVE owner' # "runtime"
  BY DEF RuntimeRoleOwnsNothing
<1>1. CASE owner' = owner
  BY <1>1 DEF IInv, RuntimeRoleOwnsNothing
<1>2. ASSUME NEW m \in Migrators, CreateTable(m) PROVE owner' # "runtime"
  BY <1>2 DEF CreateTable, IInv, MigratorInv, RuntimeRoleOwnsNothing
<1>3. owner' = owner \/ \E m \in Migrators : CreateTable(m)
  BY DEF Next, vars, database, Step, Connect, TakeLock, LockTimeout, CheckRole,
         ReadHistory, Apply, Record, Commit, Fail, Unlock, Kill, LateCommit,
         EndSession, TakesEffect, Verify, Listen, Stop
<1> QED
  BY <1>1, <1>2, <1>3

-----------------------------------------------------------------------------
(* The inductive invariant.                                                *)

\* Nothing is applied, and nothing is a beginning of every release.
LEMMA InitIInv == Init => IInv
<1> SUFFICES ASSUME Init PROVE IInv
  OBVIOUS
<1>1. TypeOK
  BY DEF Init, TypeOK, Exited
<1>2. HistoryIsOneRelease
  <2>1. PICK m \in Migrators : TRUE
    BY MigratorAssumption
  <2>2. Embedded[m] \in Seq(Migrations)
    BY MigratorAssumption DEF Processes
  <2>3. IsPrefix(<<>>, Embedded[m])
    BY <2>2 DEF IsPrefix
  <2> QED
    BY <2>3 DEF Init, HistoryIsOneRelease
<1>3. RuntimeRoleOwnsNothing
  BY MigratorAssumption DEF Init, RuntimeRoleOwnsNothing
<1>4. \A m \in Migrators : MigratorInv(m)
  BY DEF Init, MigratorInv, Within, UpToDate, Processes
<1>5. \A s \in Servers : ServerInv(s)
  BY DEF Init, ServerInv, Processes
<1> QED
  BY <1>1, <1>2, <1>3, <1>4, <1>5 DEF IInv

\* Every step keeps it: the process that acts, and all others.
LEMMA StepIInv == IInv /\ [Next]_vars => IInv'
<1> SUFFICES ASSUME IInv, [Next]_vars PROVE IInv'
  OBVIOUS
<1>1. /\ TypeOK /\ TypeOK' /\ HistoryIsOneRelease' /\ RuntimeRoleOwnsNothing'
      /\ history' \in Seq(Migrations) /\ IsPrefix(history, history')
  BY StepTyped, HistoryGrows, OwnerStays DEF IInv
<1>2. ASSUME NEW m \in Migrators, MigratorActs(m) PROVE IInv'
  <2>1. MigratorInv(m)'
    BY <1>2, ActorKeepsInv
  <2>2. ASSUME NEW q \in Migrators \ {m} PROVE MigratorInv(q)'
    <3>1. Keeps(q)
      BY <1>1, <1>2, OthersKeepTheirs
    <3>2. Within(q) => ~Within(m) /\ advisory \notin {None, m}
      BY MigratorAssumption DEF IInv, MigratorInv
    <3>3. Within(q) => history' = history /\ advisory' = advisory
      BY <1>2, <3>2, LockProtects
    <3> QED
      BY <1>1, <3>1, <3>3, UntouchedMigrator
  <2>3. \A s \in Servers : ServerInv(s)'
    BY <1>1, <1>2, OthersKeepTheirs, UntouchedServer
  <2> QED
    BY <1>1, <2>1, <2>2, <2>3 DEF IInv
<1>3. ASSUME NEW s \in Servers, ServerActs(s) PROVE IInv'
  <2>1. /\ history' = history /\ advisory' = advisory /\ tx' = tx /\ read' = read
        /\ \A p \in Processes \ {s} : at'[p] = at[p]
    BY <1>1, <1>3 DEF ServerActs, Verify, Listen, Stop, database, Goto, TypeOK
  <2>2. \A m \in Migrators : MigratorInv(m)'
    BY <1>1, <2>1, UntouchedMigrator, MigratorAssumption DEF Keeps, Processes
  <2>3. \A r \in Servers \ {s} : ServerInv(r)'
    BY <1>1, <2>1, UntouchedServer DEF Processes
  <2>4. ServerInv(s)'
    <3>1. /\ Embedded[s] \in Seq(Migrations) /\ history \in Seq(Migrations)
          /\ s \in Processes
      BY <1>1, MigratorAssumption DEF TypeOK, Processes
    <3>2. Compare(Embedded[s], history) = "same" => IsPrefix(Embedded[s], history)
      BY <3>1, Compared DEF IsPrefix
    <3> QED
      BY <1>1, <1>3, <3>1, <3>2
      DEF ServerActs, Verify, Listen, Stop, database, Goto, TypeOK, IInv, ServerInv
  <2> QED
    BY <1>1, <2>2, <2>3, <2>4 DEF IInv
<1>4. CASE UNCHANGED vars
  <2>1. \A m \in Migrators : MigratorInv(m)'
    BY <1>1, <1>4, UntouchedMigrator DEF vars, database, Keeps
  <2>2. \A s \in Servers : ServerInv(s)'
    BY <1>1, <1>4, UntouchedServer DEF vars
  <2> QED
    BY <1>1, <2>1, <2>2 DEF IInv
<1> QED
  BY <1>2, <1>3, <1>4 DEF Next, MigratorActs, ServerActs

\* It holds in every state of every behaviour.
LEMMA SpecIInv == Spec => []IInv
BY InitIInv, StepIInv, PTL DEF Spec

-----------------------------------------------------------------------------
(* What follows from it.                                                   *)

\* No variable leaves its type.
THEOREM TypeCorrect == Spec => []TypeOK
<1>1. IInv => TypeOK
  BY DEF IInv
<1> QED
  BY <1>1, SpecIInv, PTL

\* Until a migration that commits itself is in effect, what is in effect is what is
\* recorded, and who inserts a row or commits is in the migration's transaction.
Together == NoneSelfCommitted =>
  /\ schema = history
  /\ \A m \in Migrators : at[m] \in {"record", "commit"} => tx[m] # {}

\* No step takes a migration out of effect.
LEMMA SchemaGrows ==
  ASSUME NEW m \in Migrators, TypeOK, MigratorActs(m), NoneSelfCommitted'
  PROVE  NoneSelfCommitted
<1>1. schema' = schema \/ schema' = Append(schema, Pending(m))
  BY DEF MigratorActs, Step, Connect, TakeLock, LockTimeout, CheckRole, CreateTable,
         ReadHistory, Apply, Record, Commit, Fail, Unlock, Kill, LateCommit, EndSession,
         TakesEffect, database
<1> DEFINE T == Migrations \cup {Pending(m)}
<1>2. schema \in Seq(T) /\ Pending(m) \in T
  BY DEF TypeOK
<1> HIDE DEF T
<1>3. \A i \in DOMAIN schema : /\ i \in DOMAIN Append(schema, Pending(m))
                              /\ Append(schema, Pending(m))[i] = schema[i]
  BY <1>2
<1> QED
  BY <1>1, <1>3 DEF NoneSelfCommitted

LEMMA TogetherStep ==
  IInv /\ Together /\ [Next]_vars => Together'
<1> SUFFICES ASSUME IInv, Together, [Next]_vars, NoneSelfCommitted' PROVE Together'
  BY DEF Together
<1> USE DEF Together, Goto, Held
<1>0. TypeOK
  BY DEF IInv
<1>1. CASE UNCHANGED vars
  BY <1>1 DEF vars, database, NoneSelfCommitted
<1>2. ASSUME NEW s \in Servers, ServerActs(s) PROVE Together'
  <2>1. NoneSelfCommitted
    BY <1>2 DEF ServerActs, Verify, Listen, Stop, database, NoneSelfCommitted
  <2> QED
    BY <1>0, <1>2, <2>1, MigratorAssumption
    DEF ServerActs, Verify, Listen, Stop, database, TypeOK, Processes
<1>3. ASSUME NEW m \in Migrators, MigratorActs(m) PROVE Together'
  <2>0. NoneSelfCommitted /\ schema = history
    <3>1. NoneSelfCommitted
      BY <1>0, <1>3, SchemaGrows
    <3> QED
      BY <3>1
  <2>1. \A q \in Migrators \ {m} : Keeps(q)
    BY <1>0, <1>3, OthersKeepTheirs
  <2>2. at[m] \in {"record", "commit"} => tx[m] # {}
    BY <2>0
  <2>3. m \in Processes
    BY DEF Processes
  <2>4. schema' = history' /\ (at'[m] \in {"record", "commit"} => tx'[m] # {})
    <3>1. CASE Apply(m)
      <4>1. Pending(m) \notin SelfCommitting
        BY <1>0, <3>1 DEF Apply, TakesEffect, NoneSelfCommitted, TypeOK
      <4> QED
        BY <1>0, <2>0, <2>3, <3>1, <4>1 DEF Apply, TypeOK
    <3>2. CASE Record(m)
      BY <1>0, <2>0, <2>2, <2>3, <3>2 DEF Record, TypeOK
    <3>3. CASE Commit(m) \/ LateCommit(m)
      <4>1. tx[m] = {"ddl", "row"}
        BY <2>2, <3>3 DEF Commit, LateCommit, IInv, MigratorInv
      <4>2. TakesEffect(m, tx[m]) /\ at'[m] \in {"unlock", "apply", "killed"}
        BY <1>0, <2>3, <3>3 DEF Commit, LateCommit, TypeOK
      <4> QED
        BY <2>0, <4>1, <4>2 DEF TakesEffect
    <3>4. CASE \/ Connect(m) \/ TakeLock(m) \/ LockTimeout(m) \/ CheckRole(m)
               \/ CreateTable(m) \/ ReadHistory(m)
      <4>1. at'[m] \notin {"record", "commit"}
        <5>1. CASE ReadHistory(m)
          <6>1. Compare(Embedded[m], history) \in {"mismatch", "same", "pending"}
            BY <1>0, <2>3, MigratorAssumption, Compared DEF TypeOK
          <6> QED
            BY <1>0, <2>3, <5>1, <6>1 DEF ReadHistory, TypeOK
        <5> QED
          BY <1>0, <2>3, <3>4, <5>1
          DEF Connect, TakeLock, LockTimeout, CheckRole, CreateTable, TypeOK
      <4> QED
        BY <2>0, <3>4, <4>1
        DEF Connect, TakeLock, LockTimeout, CheckRole, CreateTable, ReadHistory, database
    <3>5. CASE Fail(m) \/ Unlock(m) \/ Kill(m) \/ EndSession(m)
      BY <1>0, <2>0, <2>3, <3>5 DEF Fail, Unlock, Kill, EndSession, database, TypeOK
    <3> QED
      BY <1>3, <3>1, <3>2, <3>3, <3>4, <3>5 DEF MigratorActs, Step
  <2> QED
    BY <2>0, <2>1, <2>4 DEF Keeps
<1> QED
  BY <1>1, <1>2, <1>3 DEF Next, MigratorActs, ServerActs

\* There is no mixture of two releases and, as long as no migration that commits
\* itself is in effect, no half-applied migration.
THEOREM OneRelease == Spec => []SchemaIsOneRelease
<1>1. Init => Together
  BY DEF Init, Together, Processes
<1>2. IInv /\ Together /\ [Next]_vars => Together'
  BY TogetherStep
<1>3. IInv /\ Together => SchemaIsOneRelease
  BY DEF IInv, HistoryIsOneRelease, Together, SchemaIsOneRelease
<1> QED
  BY <1>1, <1>2, <1>3, SpecIInv, PTL DEF Spec

\* The number a migrator is about to record is still free: the advisory lock,
\* held over many transactions, keeps every other migrator away.
THEOREM NumberStaysFree == Spec => []NumberIsFree
<1>1. IInv => NumberIsFree
  BY DEF IInv, MigratorInv, UpToDate, NumberIsFree
<1> QED
  BY <1>1, SpecIInv, PTL

\* A migrator that has reported success was right, and goes on being right.
THEOREM DoneIsApplied == Spec => []DoneMeansApplied
<1>1. IInv => DoneMeansApplied
  BY DEF IInv, MigratorInv, DoneMeansApplied
<1> QED
  BY <1>1, SpecIInv, PTL

\* A server's one look at the schema holds for as long as it serves.
THEOREM ServedIsApplied == Spec => []ServedSchemaIsApplied
<1>1. IInv => ServedSchemaIsApplied
  BY DEF IInv, ServerInv, ServedSchemaIsApplied
<1> QED
  BY <1>1, SpecIInv, PTL

\* The runtime role never comes to own the migration table.
THEOREM RuntimeOwnsNothing == Spec => []RuntimeRoleOwnsNothing
<1>1. IInv => RuntimeRoleOwnsNothing
  BY DEF IInv
<1> QED
  BY <1>1, SpecIInv, PTL

\* Migrations are forward-only: no step of any process rewrites or removes one.
THEOREM ForwardOnly == Spec => HistoryOnlyGrows
<1>1. IInv /\ [Next]_vars => [IsPrefix(history, history')]_vars
  BY HistoryGrows
<1> QED
  BY <1>1, SpecIInv, PTL DEF Spec, HistoryOnlyGrows
=============================================================================
