------------------------------ MODULE ApiKeys ------------------------------
(***************************************************************************)
(* Projects and their API keys: ProjectsService                            *)
(* (src/apps/api/src/projects/projects.service.ts) called by the requests  *)
(* of ProjectsController against the tables projects and api_keys under    *)
(* READ COMMITTED.                                                          *)
(*                                                                          *)
(* One action is one SQL statement.  The UPDATE of a rotation is several:  *)
(* it fixes the rows it is going to change when it starts, then takes them *)
(* one at a time, waiting for the transaction that holds a row and looking *)
(* at the row again.                                                        *)
(*                                                                          *)
(* Covered: creation in two statements that are not one transaction,        *)
(* rotation with its row locks, deletion with its cascade, what the foreign *)
(* key locks, deadlocks, failed statements, lost commit answers.            *)
(* Not covered: a request for somebody else's project, which finds no row   *)
(* and changes nothing; the name of a project; last_used_at, which the code *)
(* never writes.                                                            *)
(***************************************************************************)
EXTENDS Integers, FiniteSets

CONSTANTS
    Callers,    \* connections on which requests are served at the same time
    Projects,   \* project ids
    Keys,       \* API keys; randomBytes never draws one twice
    NoProject,  \* no project
    NoKey       \* no key

ASSUME ApiKeysAssumption ==
    NoProject \notin Projects /\ NoKey \notin Keys

VARIABLES
    projects,   \* table projects: "bare" is a row that never had a key
    keys,       \* table api_keys; found is history, for the properties
    keyStep,    \* the statement each caller executes next
    project,    \* the project of its request
    newKey,     \* the key it has generated
    todo,       \* rows its UPDATE has still to look at
    held,       \* rows its UPDATE has changed and locked
    exposed,    \* history: the project's active keys when the request came in
    keyAnswer   \* how its last request ended

keyLocals == <<project, newKey, todo, held, exposed>>
keyVars   == <<projects, keys, keyStep, project, newKey, todo, held, exposed,
               keyAnswer>>

KeyStates == {"none", "active", "revoked", "deleted"}
KeyRows   == [of : Projects \cup {NoProject}, found : SUBSET Keys, state : KeyStates]
NoKeyRow  == [of |-> NoProject, found |-> {}, state |-> "none"]

KeySteps  == {"idle", "insertKey", "select", "update", "revoke", "commit",
              "delete", "cascade"}
KeyAnswers == {"none", "created", "rotated", "deleted", "not found", "error"}

\* Type invariant: the tables and the locals of the requests to ProjectsService.
KeysTypeOK ==
    /\ projects \in [Projects -> {"none", "bare", "listed", "gone"}]
    /\ keys \in [Keys -> KeyRows]
    /\ keyStep \in [Callers -> KeySteps]
    /\ project \in [Callers -> Projects \cup {NoProject}]
    /\ newKey \in [Callers -> Keys \cup {NoKey}]
    /\ todo \in [Callers -> SUBSET Keys]
    /\ held \in [Callers -> SUBSET Keys]
    /\ exposed \in [Callers -> SUBSET Keys]
    /\ keyAnswer \in [Callers -> KeyAnswers]

KeysInit ==
    /\ projects = [p \in Projects |-> "none"]
    /\ keys = [k \in Keys |-> NoKeyRow]
    /\ keyStep = [c \in Callers |-> "idle"]
    /\ project = [c \in Callers |-> NoProject]
    /\ newKey = [c \in Callers |-> NoKey]
    /\ todo = [c \in Callers |-> {}]
    /\ held = [c \in Callers |-> {}]
    /\ exposed = [c \in Callers |-> {}]
    /\ keyAnswer = [c \in Callers |-> "none"]

-----------------------------------------------------------------------------
(* Rows and locks. *)

\* The committed active keys of a project: what validateApiKey accepts and
\* getUserProjects lists.
ActiveKeys(p) == {k \in Keys : keys[k].of = p /\ keys[k].state = "active"}

Ungenerated(k) == keys[k].state = "none" /\ \A c \in Callers : newKey[c] # k

HeldByOther(c, k) == \E d \in Callers \ {c} : k \in held[d]

\* The callers that keep the row of project p locked: a DELETE exclusively, the
\* INSERT of a key by the FOR KEY SHARE of its foreign key.
Deleting(p) == {c \in Callers : keyStep[c] = "cascade" /\ project[c] = p}
Sharing(p)  == {c \in Callers : keyStep[c] = "commit" /\ project[c] = p}

\* The callers whose locks the next statement of c waits for.
KeyWaitsFor(c) ==
    CASE keyStep[c] = "revoke" /\ todo[c] # {} ->
             {d \in Callers \ {c} : held[d] \cap todo[c] # {}}
      [] keyStep[c] = "revoke" /\ todo[c] = {} -> Deleting(project[c]) \ {c}
      [] keyStep[c] = "delete" ->
             (Deleting(project[c]) \cup Sharing(project[c])) \ {c}
      [] keyStep[c] = "cascade" ->
             {d \in Callers \ {c} : \E k \in held[d] : keys[k].of = project[c]}
      [] OTHER -> {}

\* The request is answered, its connection goes back to the pool.
KeyAnswer(c, answer) ==
    /\ keyStep' = [keyStep EXCEPT ![c] = "idle"]
    /\ keyAnswer' = [keyAnswer EXCEPT ![c] = answer]
    /\ newKey' = [newKey EXCEPT ![c] = NoKey]
    /\ todo' = [todo EXCEPT ![c] = {}]
    /\ held' = [held EXCEPT ![c] = {}]
    /\ UNCHANGED <<project, exposed>>

\* Bug: the catch block throws without ROLLBACK; the locks stay with the
\* connection.
KeyRollback_Missing(c) ==
    /\ keyStep' = [keyStep EXCEPT ![c] = "idle"]
    /\ keyAnswer' = [keyAnswer EXCEPT ![c] = "error"]
    /\ newKey' = [newKey EXCEPT ![c] = NoKey]
    /\ todo' = [todo EXCEPT ![c] = {}]
    /\ UNCHANGED <<held, project, exposed>>

\* The catch block of a rotation, or PostgreSQL undoing a failed statement.
KeyRollback(c) == KeyAnswer(c, "error")

KeyGoto(c, step) == keyStep' = [keyStep EXCEPT ![c] = step]

\* A request comes in; what it is about is known from the start.
KeyRequest(c, p, step) ==
    /\ keyStep[c] = "idle"
    /\ KeyGoto(c, step)
    /\ project' = [project EXCEPT ![c] = p]
    /\ exposed' = [exposed EXCEPT ![c] = ActiveKeys(p)]
    /\ keyAnswer' = [keyAnswer EXCEPT ![c] = "none"]

-----------------------------------------------------------------------------
(* createProject: two statements, each committed on its own. *)

CreateProject(c, p, k) ==
    /\ projects[p] = "none"
    /\ Ungenerated(k)
    /\ KeyRequest(c, p, "insertKey")
    /\ projects' = [projects EXCEPT ![p] = "bare"]
    /\ newKey' = [newKey EXCEPT ![c] = k]
    /\ UNCHANGED <<keys, todo, held>>

CreateKey(c) ==
    /\ keyStep[c] = "insertKey"
    /\ keys' = [keys EXCEPT ![newKey[c]] =
                  [of |-> project[c], found |-> exposed[c], state |-> "active"]]
    /\ projects' = [projects EXCEPT ![project[c]] = "listed"]
    /\ KeyAnswer(c, "created")

\* The second statement fails: the first one stays.
CreateKeyFails(c) ==
    /\ keyStep[c] = "insertKey"
    /\ KeyAnswer(c, "error")
    /\ UNCHANGED <<projects, keys>>

-----------------------------------------------------------------------------
(* rotateApiKey. *)

\* A client learns of projects from its own creation or from GET /projects,
\* which joins the active keys: it never has the id of a bare one.
\* The key is generated after the SELECT, where nobody can tell.
Rotate(c, p, k) ==
    /\ projects[p] \in {"listed", "gone"}
    /\ Ungenerated(k)
    /\ KeyRequest(c, p, "select")
    /\ newKey' = [newKey EXCEPT ![c] = k]
    /\ UNCHANGED <<projects, keys, todo, held>>

RotateNotFound(c) ==
    /\ keyStep[c] = "select"
    /\ projects[project[c]] = "gone"
    /\ KeyAnswer(c, "not found")
    /\ UNCHANGED <<projects, keys>>

RotateFound(c) ==
    /\ keyStep[c] = "select"
    /\ projects[project[c]] = "listed"
    /\ KeyGoto(c, "update")
    /\ UNCHANGED <<projects, keys, keyLocals, keyAnswer>>

\* Bug: the condition on active is the wrong way round.
Revocable_Inverted(c) ==
    {k \in Keys : keys[k].of = project[c] /\ keys[k].state = "revoked"}

\* WHERE project_id = $1 AND active = TRUE, in the snapshot of the statement.
Revocable(c) == ActiveKeys(project[c])

\* BEGIN, and the UPDATE takes its snapshot.
RevokeStart(c) ==
    /\ keyStep[c] = "update"
    /\ todo' = [todo EXCEPT ![c] = Revocable(c)]
    /\ KeyGoto(c, "revoke")
    /\ UNCHANGED <<projects, keys, project, newKey, held, exposed, keyAnswer>>

\* The UPDATE changes one row, or passes over it when it is no longer active.
RevokeRow(c, k) ==
    /\ keyStep[c] = "revoke"
    /\ k \in todo[c]
    /\ ~HeldByOther(c, k)
    /\ todo' = [todo EXCEPT ![c] = @ \ {k}]
    /\ held' = [held EXCEPT ![c] = IF keys[k].state = "active" THEN @ \cup {k} ELSE @]
    /\ UNCHANGED <<projects, keys, keyStep, project, newKey, exposed, keyAnswer>>

\* The INSERT has locked the row of the project, which is still there.
InsertKey(c) ==
    /\ keyStep[c] = "revoke" /\ todo[c] = {}
    /\ Deleting(project[c]) = {}
    /\ projects[project[c]] = "listed"
    /\ KeyGoto(c, "commit")
    /\ UNCHANGED <<projects, keys, keyLocals, keyAnswer>>

\* The project was deleted meanwhile: the foreign key fails.
InsertKeyFails(c) ==
    /\ keyStep[c] = "revoke" /\ todo[c] = {}
    /\ projects[project[c]] = "gone"
    /\ KeyRollback(c)
    /\ UNCHANGED <<projects, keys>>

\* Bug: the new key is inserted inactive, to be activated by its first use.
Rotated_Dormant(c) ==
    [k \in Keys |->
        IF k \in held[c] THEN [keys[k] EXCEPT !.state = "revoked"]
        ELSE IF k = newKey[c]
             THEN [of |-> project[c], found |-> exposed[c], state |-> "revoked"]
             ELSE keys[k]]

\* Bug: revoked_at is set and active is not.
Rotated_StillActive(c) ==
    [k \in Keys |->
        IF k = newKey[c]
        THEN [of |-> project[c], found |-> exposed[c], state |-> "active"]
        ELSE keys[k]]

\* What the transaction of a rotation leaves in api_keys.
Rotated(c) ==
    [k \in Keys |->
        IF k \in held[c] THEN [keys[k] EXCEPT !.state = "revoked"]
        ELSE IF k = newKey[c]
             THEN [of |-> project[c], found |-> exposed[c], state |-> "active"]
             ELSE keys[k]]

\* COMMIT; its answer may be lost, and then the request fails although the
\* keys have changed.
RotateCommit(c) ==
    /\ keyStep[c] = "commit"
    /\ keys' = Rotated(c)
    /\ \E answer \in {"rotated", "error"} : KeyAnswer(c, answer)
    /\ UNCHANGED projects

\* getClient or a statement fails, or the connection is lost.
RotateFails(c) ==
    /\ keyStep[c] \in {"select", "update", "revoke", "commit"}
    /\ KeyRollback(c)
    /\ UNCHANGED <<projects, keys>>

-----------------------------------------------------------------------------
(* deleteProject: one statement, which locks the project, then its keys. *)

DeleteProject(c, p) ==
    /\ projects[p] \in {"listed", "gone"}
    /\ KeyRequest(c, p, "delete")
    /\ UNCHANGED <<projects, keys, newKey, todo, held>>

DeleteLock(c) ==
    /\ keyStep[c] = "delete"
    /\ projects[project[c]] = "listed"
    /\ Deleting(project[c]) \cup Sharing(project[c]) = {}
    /\ KeyGoto(c, "cascade")
    /\ UNCHANGED <<projects, keys, keyLocals, keyAnswer>>

DeleteNothing(c) ==
    /\ keyStep[c] = "delete"
    /\ projects[project[c]] = "gone"
    /\ KeyAnswer(c, "deleted")
    /\ UNCHANGED <<projects, keys>>

\* ON DELETE CASCADE of api_keys.project_id, and the statement commits.
DeleteCascadeKeys(c) ==
    /\ keyStep[c] = "cascade"
    /\ KeyWaitsFor(c) = {}
    /\ projects' = [projects EXCEPT ![project[c]] = "gone"]
    /\ keys' = [k \in Keys |-> IF keys[k].of = project[c]
                               THEN [keys[k] EXCEPT !.state = "deleted"] ELSE keys[k]]
    /\ KeyAnswer(c, "deleted")

-----------------------------------------------------------------------------
\* c waits in a circle, and PostgreSQL makes its statement fail.
KeyDeadlockAbort(c) ==
    /\ \E ring \in SUBSET Callers :
          /\ c \in ring
          /\ \A d \in ring : KeyWaitsFor(d) \cap ring # {}
    /\ KeyRollback(c)
    /\ UNCHANGED <<projects, keys>>

\* What the database does of itself, once a request has been received.
KeyProgress(c) ==
    \/ CreateKey(c)
    \/ RotateNotFound(c) \/ RotateFound(c)
    \/ RevokeStart(c) \/ \E k \in Keys : RevokeRow(c, k)
    \/ InsertKey(c) \/ InsertKeyFails(c) \/ RotateCommit(c)
    \/ DeleteLock(c) \/ DeleteNothing(c) \/ DeleteCascadeKeys(c)
    \/ KeyDeadlockAbort(c)

KeysNext ==
    \E c \in Callers :
        \/ \E p \in Projects, k \in Keys : CreateProject(c, p, k) \/ Rotate(c, p, k)
        \/ \E p \in Projects : DeleteProject(c, p)
        \/ KeyProgress(c)
        \/ CreateKeyFails(c) \/ RotateFails(c)

KeysSpec     == KeysInit /\ [][KeysNext]_keyVars

\* A lock goes to those who wait for it in the order they came, so a statement
\* that is possible again and again is executed.
KeysFairSpec == KeysSpec /\ \A c \in Callers : SF_keyVars(KeyProgress(c))

-----------------------------------------------------------------------------
(* Properties. *)

\* Of two active keys of a project neither was there when the request that
\* issued the other came in: only rotations that overlap add up, all those of
\* the active keys at one instant, and rotations that follow each other leave
\* one key, whatever the failures, deadlocks and lost answers in between.
OnlyOverlapsAddUp ==
    \A k, l \in Keys :
        keys[k].state = "active" /\ keys[l].state = "active" /\ keys[k].of = keys[l].of
        => k \notin keys[l].found

\* "There is no window where a project has zero active keys": once a project
\* had its key, it has one until it is deleted, at every step of a rotation.
NeverWithoutKey ==
    \A p \in Projects : projects[p] = "listed" => ActiveKeys(p) # {}

\* A leaked key stops authenticating as soon as its rotation is answered: none
\* of the keys that were active when the request came in is active.
RotationRevokes ==
    \A c \in Callers :
        keyAnswer[c] = "rotated" => \A k \in exposed[c] : keys[k].state # "active"

\* "There is no window where a project has zero or two active keys"
\* (projects.service.ts:59-60), "at most one active key at a time" (migration
\* 00013): after any rotations, those that overlap included.
AtMostOneActive == \A p \in Projects : \A k, l \in ActiveKeys(p) : k = l

\* Every request ends, though rotations and deletions of one project take the
\* rows of the project and of its keys in opposite orders.
KeyCallsEnd == \A c \in Callers : keyStep[c] # "idle" ~> keyStep[c] = "idle"

=============================================================================
