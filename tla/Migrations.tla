----------------------------- MODULE Migrations -----------------------------
(***************************************************************************)
(* Applying and rolling back migrations (packages/db/src/migrate.ts), by   *)
(* deployers that take no lock. A migration and its journal row are one    *)
(* READ COMMITTED transaction of two statements: the file, which sees only *)
(* objects that are committed, and then the row. PostgreSQL makes a        *)
(* statement wait where another transaction has locked what it needs, or   *)
(* refuses it; a refusal is a failure of the run.                          *)
(***************************************************************************)
EXTENDS Naturals, FiniteSets, SequencesExt

CONSTANTS
  Files,       \* the migrations, in the order of their numbers
  Needs,       \* <<f, g>>: a table of f refers to one of g
  Deployers,
  MaxDeploys   \* bound: runs of migrateUp and migrateDown

VARIABLES
  journal,   \* drizzle.__drizzle_migrations, by id
  schema,    \* the files whose objects exist
  deploy,    \* what each deployer is doing, and how far its transaction is
  deploys

vars == <<journal, schema, deploy, deploys>>

\* tx: "ran" once the file has changed the schema, for the transaction only as
\* yet; "missed" when a down file found nothing there to drop.
Run(op, plan) == [op |-> op, plan |-> plan, tx |-> "none"]
Idle == Run("idle", <<>>)

TypeOK ==
  /\ journal \in Seq(ToSet(Files))
  /\ schema \subseteq ToSet(Files)
  /\ \A d \in Deployers :
       /\ deploy[d].op \in {"idle", "up", "down"}
       /\ deploy[d].plan \in Seq(ToSet(Files))
       /\ deploy[d].tx \in {"none", "ran", "missed"}
  /\ deploys \in 0 .. MaxDeploys

Init ==
  /\ journal = <<>>
  /\ schema = {}
  /\ deploy = [d \in Deployers |-> Idle]
  /\ deploys = 0

Goes(d, op, plan) == deploy' = [deploy EXCEPT ![d] = Run(op, plan)]
Gets(d, tx) == deploy' = [deploy EXCEPT ![d].tx = tx]

\* migrateUp reads the journal once and goes through the files it lacks.
Up(d) ==
  /\ deploy[d] = Idle
  /\ deploys < MaxDeploys
  /\ deploys' = deploys + 1
  /\ Goes(d, "up", SelectSeq(Files, LAMBDA f : f \notin ToSet(journal)))
  /\ UNCHANGED <<journal, schema>>

\* migrateDown reads the newest rows.
Down(d) ==
  /\ deploy[d] = Idle
  /\ deploys < MaxDeploys
  /\ deploys' = deploys + 1
  /\ \E steps \in 1 .. Len(journal) :
       Goes(d, "down", SubSeq(Reverse(journal), 1, steps))
  /\ UNCHANGED <<journal, schema>>

\* Deployer d is at file f of a run of this kind, its transaction this far.
At(d, op, f, tx) ==
  deploy[d].op = op /\ deploy[d].plan # <<>> /\ Head(deploy[d].plan) = f /\ deploy[d].tx = tx

\* Somebody has created, or dropped, the objects of f and not committed yet.
Making(f) == \E d \in Deployers : At(d, "up", f, "ran")
Dropping(f) == \E d \in Deployers : At(d, "down", f, "ran")

\* BEGIN; the file: its names are not taken, and what it refers to is there. It
\* locks what it refers to.
UpCreates(d) ==
  \E f \in ToSet(Files) :
    /\ At(d, "up", f, "none")
    /\ f \notin schema /\ ~Making(f)
    /\ \A g \in ToSet(Files) : <<f, g>> \in Needs => g \in schema /\ ~Dropping(g)
    /\ Gets(d, "ran")
    /\ UNCHANGED <<journal, schema, deploys>>

\* The row is committed without the file.
UpCommits_RowFirst(d) ==
  \E f \in ToSet(Files) :
    /\ \E tx \in {"none", "ran"} :
         /\ At(d, "up", f, tx)
         /\ schema' = IF tx = "ran" THEN schema \cup {f} ELSE schema
    /\ f \notin ToSet(journal)
    /\ journal' = Append(journal, f)
    /\ Goes(d, "up", Tail(deploy[d].plan))
    /\ UNCHANGED deploys

\* Its row, unique; COMMIT.
UpCommits(d) ==
  \E f \in ToSet(Files) :
    /\ At(d, "up", f, "ran")
    /\ f \notin ToSet(journal)
    /\ schema' = schema \cup {f}
    /\ journal' = Append(journal, f)
    /\ Goes(d, "up", Tail(deploy[d].plan))
    /\ UNCHANGED deploys

\* DROP TABLE ... CASCADE, which asks for nothing to be gone first.
DownDrops_Cascade(d) ==
  \E f \in ToSet(Files) :
    /\ At(d, "down", f, "none")
    /\ IF f \in schema THEN ~Dropping(f) /\ Gets(d, "ran") ELSE Gets(d, "missed")
    /\ UNCHANGED <<journal, schema, deploys>>

\* BEGIN; the down file, DROP TABLE IF EXISTS. A table that another refers to
\* cannot be dropped, one that is not committed is not seen, nor waited for.
DownDrops(d) ==
  \E f \in ToSet(Files) :
    /\ At(d, "down", f, "none")
    /\ IF f \in schema
       THEN /\ ~Dropping(f)
            /\ \A g \in ToSet(Files) : <<g, f>> \in Needs => g \notin schema /\ ~Making(g)
            /\ Gets(d, "ran")
       ELSE Gets(d, "missed")
    /\ UNCHANGED <<journal, schema, deploys>>

\* Its row, if one is committed by now; COMMIT.
DownCommits(d) ==
  \E f \in ToSet(Files), tx \in {"ran", "missed"} :
    LET row == {i \in DOMAIN journal : journal[i] = f}
    IN /\ At(d, "down", f, tx)
       /\ schema' = IF tx = "ran" THEN schema \ {f} ELSE schema
       /\ journal' = IF row = {} THEN journal ELSE RemoveAt(journal, CHOOSE i \in row : TRUE)
       /\ Goes(d, "down", Tail(deploy[d].plan))
       /\ UNCHANGED deploys

\* A statement is refused, or the connection is lost before or after its COMMIT:
\* the transaction is undone and the run ends with an error.
Fails(d) ==
  /\ deploy[d].plan # <<>>
  /\ deploy' = [deploy EXCEPT ![d] = Idle]
  /\ UNCHANGED <<journal, schema, deploys>>

Returns(d) ==
  /\ deploy[d].op # "idle" /\ deploy[d].plan = <<>>
  /\ deploy' = [deploy EXCEPT ![d] = Idle]
  /\ UNCHANGED <<journal, schema, deploys>>

Next ==
  \E d \in Deployers :
    \/ Up(d) \/ UpCreates(d) \/ UpCommits(d)
    \/ Down(d) \/ DownDrops(d) \/ DownCommits(d)
    \/ Fails(d) \/ Returns(d)

Spec == Init /\ [][Next]_vars

\* migrate.ts, "a migration that fails halfway and leaves the journal saying it
\* succeeded is unrecoverable": whoever deploys and rolls back at the same time
\* and whatever fails, each file the journal names has its objects, and is named
\* once.
JournalIsTrue ==
  /\ ToSet(journal) \subseteq schema
  /\ IsInjective(journal)

\* migrateDown goes "newest first", so that what refers to a table goes before it:
\* of two files in the journal, the one that refers to the other has the later
\* row, in whatever order deployers applied, rolled back and applied again.
ReferrersLater ==
  \A i, k \in DOMAIN journal : <<journal[k], journal[i]>> \in Needs => i < k
=============================================================================
