----------------------------- MODULE Migrations -----------------------------
(***************************************************************************)
(* Processes that start against one database: API instances, from          *)
(* bootstrap (src/apps/api/src/main.ts) through the migrations of           *)
(* MigrationService to serving and exiting, and the script                  *)
(* src/infra/scripts/migrate.ts, which runs the same migrations.            *)
(*                                                                          *)
(* One action is one statement.  What a file's transaction has done is not  *)
(* seen before its COMMIT, and the INSERT of a name that another            *)
(* transaction has inserted waits for that transaction.                     *)
(*                                                                          *)
(* Covered: any number of processes starting together, statements that fail,*)
(* lost commit answers, processes killed anywhere and started again,        *)
(* signals, the timer that forces an exit.                                  *)
(* Not covered: what the SQL of a file does: when two processes run one     *)
(* file, its statements wait, succeed or fail, and either way the second    *)
(* transaction cannot commit; the length of the timer.                      *)
(***************************************************************************)
EXTENDS Integers, Sequences

CONSTANTS
    Instances,  \* API processes
    Scripts,    \* runs of migrate.ts
    NFiles,     \* number of migration files, sorted by name
    MaxFaults   \* bound on failures that are not a duplicate name

ASSUME MigrationsAssumption ==
    Instances \cap Scripts = {} /\ NFiles \in Nat /\ MaxFaults \in Nat

VARIABLES
    table,      \* the table migrations exists
    log,        \* its rows in the order of their ids: the files recorded
    phase,      \* where each process is
    listed,     \* the names a process read before its loop
    file,       \* the file it is at
    signalled,  \* it has received SIGTERM or SIGINT
    faults      \* failures so far, to bound the model

processVars == <<table, log, phase, listed, file, signalled, faults>>

Processes == Instances \cup Scripts
Files     == 1..NFiles
Recorded  == {log[i] : i \in DOMAIN log}

Starting == {"connect", "table", "list", "sql", "insert", "commit"}
Serving  == {"serve", "drain"}
Stopped  == {"down", "forced"}

\* Type invariant: the table migrations and the locals of the processes.
MigrationsTypeOK ==
    /\ table \in BOOLEAN
    /\ log \in Seq(Files)
    /\ phase \in [Processes -> Starting \cup Serving \cup Stopped]
    /\ listed \in [Processes -> SUBSET Files]
    /\ file \in [Processes -> Files \cup {0}]
    /\ signalled \in [Processes -> BOOLEAN]
    /\ faults \in 0..MaxFaults

MigrationsInit ==
    /\ table = FALSE
    /\ log = <<>>
    /\ phase = [p \in Processes |-> "down"]
    /\ listed = [p \in Processes |-> {}]
    /\ file = [p \in Processes |-> 0]
    /\ signalled = [p \in Processes |-> FALSE]
    /\ faults = 0

PhaseGoto(p, ph) == phase' = [phase EXCEPT ![p] = ph]

\* The process is gone, and with it its connections and their transactions.
Gone(p, how) ==
    /\ PhaseGoto(p, how)
    /\ file' = [file EXCEPT ![p] = 0]
    /\ listed' = [listed EXCEPT ![p] = {}]

CountFault == faults < MaxFaults /\ faults' = faults + 1

-----------------------------------------------------------------------------
(* Starting. *)

\* bootstrap or migrate.ts; the script does not check its connection first.
Start(p) ==
    /\ phase[p] \in Stopped
    /\ PhaseGoto(p, IF p \in Instances THEN "connect" ELSE "table")
    /\ signalled' = [signalled EXCEPT ![p] = FALSE]
    /\ UNCHANGED <<table, log, listed, file, faults>>

\* SELECT 1 of DatabaseService.onModuleInit.
Connect(p) ==
    /\ phase[p] = "connect"
    /\ PhaseGoto(p, "table")
    /\ UNCHANGED <<table, log, listed, file, signalled, faults>>

\* CREATE TABLE IF NOT EXISTS migrations.
CreateTable(p) ==
    /\ phase[p] = "table"
    /\ table' = TRUE
    /\ PhaseGoto(p, "list")
    /\ UNCHANGED <<log, listed, file, signalled, faults>>

\* Bug: the names read are not looked at.
Pending_All(f, names) == f..NFiles

\* The files from f on that were not in the list.
Pending(f, names) == {g \in f..NFiles : g \notin names}

\* The next file of the loop, or its end: the instance listens, the script ends.
GotoFile(p, f, names) ==
    IF Pending(f, names) = {}
    THEN /\ PhaseGoto(p, IF p \in Instances THEN "serve" ELSE "down")
         /\ file' = [file EXCEPT ![p] = 0]
         /\ listed' = [listed EXCEPT ![p] = {}]
    ELSE \E g \in Pending(f, names) :
             /\ \A h \in Pending(f, names) : g <= h
             /\ PhaseGoto(p, "sql")
             /\ file' = [file EXCEPT ![p] = g]
             /\ listed' = [listed EXCEPT ![p] = names]

\* getAppliedMigrations, once, before the loop.
ListApplied(p) ==
    /\ phase[p] = "list"
    /\ GotoFile(p, 1, Recorded)
    /\ UNCHANGED <<table, log, signalled, faults>>

\* BEGIN and the statements of the file.
RunSql(p) ==
    /\ phase[p] = "sql"
    /\ PhaseGoto(p, "insert")
    /\ UNCHANGED <<table, log, listed, file, signalled, faults>>

Inserting(f) == {p \in Processes : phase[p] = "commit" /\ file[p] = f}

\* Bug: ON CONFLICT DO NOTHING.
NameFree_Lenient(p) == TRUE

\* The UNIQUE constraint of migrations.name.
NameFree(p) == file[p] \notin Recorded

InsertName(p) ==
    /\ phase[p] = "insert"
    /\ Inserting(file[p]) = {}
    /\ NameFree(p)
    /\ PhaseGoto(p, "commit")
    /\ UNCHANGED <<table, log, listed, file, signalled, faults>>

\* Another process has applied the file since the list was read: ROLLBACK, and
\* the start fails.
InsertNameFails(p) ==
    /\ phase[p] = "insert"
    /\ ~NameFree(p)
    /\ Gone(p, "down")
    /\ UNCHANGED <<table, log, signalled, faults>>

CommitFile(p) ==
    /\ phase[p] = "commit"
    /\ log' = Append(log, file[p])
    /\ GotoFile(p, file[p] + 1, listed[p])
    /\ UNCHANGED <<table, signalled, faults>>

\* The file is applied, its process does not learn of it and fails.
CommitUnanswered(p) ==
    /\ phase[p] = "commit"
    /\ CountFault
    /\ log' = Append(log, file[p])
    /\ Gone(p, "down")
    /\ UNCHANGED <<table, signalled>>

\* Bug: the error of a file is logged and the loop goes on.
FileFails_Continues(p) ==
    /\ phase[p] \in {"sql", "insert", "commit"}
    /\ CountFault
    /\ GotoFile(p, file[p] + 1, listed[p])
    /\ UNCHANGED <<table, log, signalled>>

\* A statement of a file fails: ROLLBACK, and the error ends the start.
FileFails(p) ==
    /\ phase[p] \in {"sql", "insert", "commit"}
    /\ CountFault
    /\ Gone(p, "down")
    /\ UNCHANGED <<table, log, signalled>>

\* A statement before the loop fails.
StartFails(p) ==
    /\ phase[p] \in {"connect", "table", "list"}
    /\ CountFault
    /\ Gone(p, "down")
    /\ UNCHANGED <<table, log, signalled>>

-----------------------------------------------------------------------------
(* Stopping. *)

\* SIGTERM or SIGINT to an instance that serves: app.close().
Signal(p) ==
    /\ phase[p] = "serve"
    /\ signalled' = [signalled EXCEPT ![p] = TRUE]
    /\ PhaseGoto(p, "drain")
    /\ UNCHANGED <<table, log, listed, file, faults>>

\* close has settled, process.exit(0).
Exit(p) ==
    /\ phase[p] = "drain"
    /\ Gone(p, "down")
    /\ UNCHANGED <<table, log, signalled, faults>>

\* The timer that bootstrap sets before it listens: process.exit(1).
ForceExit(p) ==
    /\ p \in Instances
    /\ phase[p] \in Starting \cup Serving
    /\ CountFault
    /\ Gone(p, "forced")
    /\ UNCHANGED <<table, log, signalled>>

\* The process is killed or its machine fails.
Kill(p) ==
    /\ phase[p] \notin Stopped
    /\ CountFault
    /\ Gone(p, "down")
    /\ UNCHANGED <<table, log, signalled>>

-----------------------------------------------------------------------------
StartProgress(p) ==
    \/ Connect(p) \/ CreateTable(p) \/ ListApplied(p)
    \/ RunSql(p) \/ InsertName(p) \/ InsertNameFails(p) \/ CommitFile(p)

MigrationsNext ==
    \E p \in Processes :
        \/ Start(p) \/ StartProgress(p)
        \/ CommitUnanswered(p) \/ FileFails(p) \/ StartFails(p)
        \/ Signal(p) \/ Exit(p) \/ ForceExit(p) \/ Kill(p)

MigrationsSpec == MigrationsInit /\ [][MigrationsNext]_processVars

\* The database executes statements, and an instance that has exited is started
\* again; nobody need run the script.
MigrationsFairSpec ==
    /\ MigrationsSpec
    /\ \A p \in Processes : WF_processVars(StartProgress(p))
    /\ \A p \in Instances : WF_processVars(Start(p))

-----------------------------------------------------------------------------
(* Properties. *)

\* However many processes migrate at once and wherever they die, every file is
\* committed once, after all files before it.
MigrationsInOrder == \A i \in DOMAIN log : log[i] = i

\* An instance that listens has every file applied, also those it did not apply
\* itself and those that were recorded after it read the list.
ServesMigrated == \A p \in Processes : phase[p] \in Serving => Recorded = Files

\* All files are applied in the end: processes that make each other fail over a
\* duplicate name have each time applied a file more.
MigratesEventually == <>(Recorded = Files)

\* "After Nest flushes the app, force-exit ... bounds how long we wait" (main.ts):
\* the exit is only forced in a shutdown.
ForcedOnlyInShutdown == \A p \in Processes : phase[p] = "forced" => signalled[p]

=============================================================================
