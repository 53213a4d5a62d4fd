--------------------------- MODULE ApiKeys_proofs ---------------------------
(***************************************************************************)
(* Proofs about ApiKeys, for any number of connections, projects and keys.  *)
(*                                                                          *)
(* A rotation revokes every active key that was there when it came in: its   *)
(* UPDATE starts later, and looks at each of them.                          *)
(***************************************************************************)
EXTENDS ApiKeys, TLAPS

Creating == {"insertKey", "select", "update", "revoke", "commit"}

\* The key a request has generated is not in the table, and is its own.
NewKeysUnused ==
    /\ \A c \in Callers : keyStep[c] \in Creating => newKey[c] # NoKey
    /\ \A c \in Callers : newKey[c] # NoKey => keys[newKey[c]].state = "none"
    /\ \A c, d \in Callers : newKey[c] # NoKey /\ newKey[c] = newKey[d] => c = d

\* Rows that an UPDATE has changed are locked: still active for everybody else.
HeldAreActive ==
    /\ \A c \in Callers : \A k \in held[c] :
          /\ keyStep[c] \in {"revoke", "commit"}
          /\ keys[k].of = project[c] /\ keys[k].state = "active"
    /\ \A c, d \in Callers : \A k \in held[c] \cap held[d] : c = d

\* Keys belong to projects that have, or had, one; a request that inserts the
\* first key is the only one for its project.
ProjectOf(c) == projects[project[c]]
KeysHaveProjects ==
    /\ \A k \in Keys : keys[k].state # "none" =>
          keys[k].of \in Projects /\ projects[keys[k].of] \in {"listed", "gone"}
    /\ \A k \in Keys : keys[k].state = "none" => keys[k].of \notin Projects
    /\ \A c \in Callers : keyStep[c] # "idle" => project[c] \in Projects
    /\ \A c \in Callers : keyStep[c] = "insertKey" => ProjectOf(c) = "bare"
    /\ \A c \in Callers : keyStep[c] \notin {"idle", "insertKey"} =>
          ProjectOf(c) \in {"listed", "gone"}
    /\ \A c, d \in Callers :
          keyStep[c] = "insertKey" /\ keyStep[d] = "insertKey" /\ project[c] = project[d] => c = d

\* What was active when a request came in is in the table for good.
ExposedExist ==
    \A c \in Callers : \A k \in exposed[c] : keys[k].state # "none" /\ keys[k].of = project[c]

\* So is what was active when the request that issued a key came in.
FoundExist == \A k \in Keys : \A l \in keys[k].found : keys[l].state # "none"

\* From its snapshot on, a rotation has to look at, or holds, each active key of
\* the project that was there when it came in.
UpdateCovers ==
    /\ \A c \in Callers : keyStep[c] \in {"revoke", "commit"} =>
          \A k \in ActiveKeys(project[c]) :
              k \in exposed[c] => k \in todo[c] \cup held[c]
    /\ \A c \in Callers : \A k \in todo[c] : keyStep[c] = "revoke" /\ keys[k].of = project[c]

IInv ==
    /\ KeysTypeOK
    /\ NewKeysUnused
    /\ HeldAreActive
    /\ KeysHaveProjects
    /\ ExposedExist
    /\ FoundExist
    /\ UpdateCovers
    /\ OnlyOverlapsAddUp
    /\ NeverWithoutKey
    /\ RotationRevokes

-----------------------------------------------------------------------------
LEMMA InitEstablishes == KeysInit => IInv
<1> SUFFICES ASSUME KeysInit PROVE IInv
  OBVIOUS
<1>1. NoKeyRow \in KeyRows
  BY DEF NoKeyRow, KeyRows, KeyStates
<1>2. /\ projects \in [Projects -> {"none", "bare", "listed", "gone"}]
      /\ keys \in [Keys -> KeyRows]
      /\ keyStep \in [Callers -> KeySteps]
      /\ keyAnswer \in [Callers -> KeyAnswers]
  BY <1>1 DEF KeysInit, KeySteps, KeyAnswers
<1>3. /\ project \in [Callers -> Projects \cup {NoProject}]
      /\ newKey \in [Callers -> Keys \cup {NoKey}]
      /\ todo \in [Callers -> SUBSET Keys]
      /\ held \in [Callers -> SUBSET Keys]
      /\ exposed \in [Callers -> SUBSET Keys]
  BY DEF KeysInit
<1>4. KeysTypeOK
  BY <1>2, <1>3 DEF KeysTypeOK
<1>5. \A k \in Keys : keys[k].state = "none" /\ keys[k].of \notin Projects /\ keys[k].found = {}
  BY ApiKeysAssumption DEF KeysInit, NoKeyRow
<1>6. \A c \in Callers : /\ keyStep[c] = "idle" /\ newKey[c] = NoKey /\ keyAnswer[c] = "none"
                         /\ held[c] = {} /\ exposed[c] = {} /\ todo[c] = {}
  BY DEF KeysInit
<1>7. \A p \in Projects : projects[p] = "none"
  BY DEF KeysInit
<1>8. NewKeysUnused /\ HeldAreActive
  BY <1>6 DEF NewKeysUnused, HeldAreActive, Creating
<1>9. KeysHaveProjects /\ ExposedExist /\ FoundExist /\ UpdateCovers
  BY <1>5, <1>6 DEF KeysHaveProjects, ExposedExist, FoundExist, UpdateCovers, ActiveKeys
<1>10. OnlyOverlapsAddUp /\ NeverWithoutKey /\ RotationRevokes
  BY <1>5, <1>6, <1>7 DEF OnlyOverlapsAddUp, NeverWithoutKey, RotationRevokes
<1>11. QED
  BY <1>4, <1>8, <1>9, <1>10 DEF IInv

-----------------------------------------------------------------------------
(* Steps that leave the tables alone. *)

\* A request comes in.
LEMMA RequestKeeps ==
    ASSUME IInv, NEW c \in Callers, NEW p \in Projects, NEW step \in {"insertKey", "select", "delete"},
           KeyRequest(c, p, step), UNCHANGED <<keys, todo, held>>,
           \/ /\ projects' = projects /\ projects[p] \in {"listed", "gone"} /\ step # "insertKey"
           \/ /\ projects' = [projects EXCEPT ![p] = "bare"] /\ projects[p] = "none"
              /\ step = "insertKey",
           \/ newKey' = newKey /\ step = "delete"
           \/ \E k \in Keys : Ungenerated(k) /\ newKey' = [newKey EXCEPT ![c] = k]
    PROVE  IInv'
<1>1. KeysTypeOK
  BY DEF IInv
<1>2. /\ keyStep[c] = "idle"
      /\ keyStep' = [keyStep EXCEPT ![c] = step]
      /\ project' = [project EXCEPT ![c] = p]
      /\ exposed' = [exposed EXCEPT ![c] = ActiveKeys(p)]
      /\ keyAnswer' = [keyAnswer EXCEPT ![c] = "none"]
  BY DEF KeyRequest, KeyGoto
<1>3. \A d \in Callers :
          /\ keyStep'[d] = IF d = c THEN step ELSE keyStep[d]
          /\ project'[d] = IF d = c THEN p ELSE project[d]
          /\ exposed'[d] = IF d = c THEN ActiveKeys(p) ELSE exposed[d]
          /\ keyAnswer'[d] = IF d = c THEN "none" ELSE keyAnswer[d]
          /\ d # c => newKey'[d] = newKey[d]
  BY <1>1, <1>2 DEF KeysTypeOK
<1>4. keys' = keys /\ todo' = todo /\ held' = held
  OBVIOUS
<1>5. KeysTypeOK'
  <2>1. projects' \in [Projects -> {"none", "bare", "listed", "gone"}]
    BY <1>1 DEF KeysTypeOK
  <2>2. newKey' \in [Callers -> Keys \cup {NoKey}]
    BY <1>1 DEF KeysTypeOK
  <2>3. ActiveKeys(p) \in SUBSET Keys
    BY DEF ActiveKeys
  <2>4. step \in KeySteps /\ "none" \in KeyAnswers
    BY DEF KeySteps, KeyAnswers
  <2>5. QED
    BY <1>1, <1>2, <1>4, <2>1, <2>2, <2>3, <2>4 DEF KeysTypeOK
<1>6. NewKeysUnused'
  <2>1. CASE newKey' = newKey /\ step = "delete"
    BY <1>3, <1>4, <2>1 DEF IInv, NewKeysUnused, Creating
  <2>2. ASSUME NEW k \in Keys, Ungenerated(k), newKey' = [newKey EXCEPT ![c] = k]
        PROVE  NewKeysUnused'
    <3>1. newKey'[c] = k /\ k # NoKey /\ keys[k].state = "none" /\ \A d \in Callers : newKey[d] # k
      BY <1>1, <2>2, ApiKeysAssumption DEF Ungenerated, KeysTypeOK
    <3>2. QED
      BY <1>3, <1>4, <3>1 DEF IInv, NewKeysUnused
  <2>3. QED
    BY <2>1, <2>2
<1>7. held[c] = {}
  BY <1>1, <1>2 DEF IInv, HeldAreActive, KeysTypeOK
<1>8. HeldAreActive'
  BY <1>3, <1>4, <1>7 DEF IInv, HeldAreActive
<1>9. \A q \in Projects : /\ projects[q] # "none" => projects'[q] = projects[q]
                          /\ projects'[q] \in {"listed"} => projects[q] = "listed"
  BY <1>1 DEF KeysTypeOK
<1>10. KeysHaveProjects'
  <2>1. \A k \in Keys : keys[k].state # "none" =>
            keys[k].of \in Projects /\ projects'[keys[k].of] \in {"listed", "gone"}
    BY <1>9 DEF IInv, KeysHaveProjects
  <2>2. \A d \in Callers : keyStep'[d] # "idle" => project'[d] \in Projects
    BY <1>3 DEF IInv, KeysHaveProjects
  <2>3. ASSUME NEW d \in Callers, d # c, keyStep[d] # "idle"
        PROVE  projects'[project[d]] = projects[project[d]] /\ projects[project[d]] # "none"
    BY <1>9, <2>3 DEF IInv, KeysHaveProjects, ProjectOf
  <2>4. CASE step = "insertKey"
    <3>1. projects[p] = "none" /\ projects'[p] = "bare"
      BY <1>1, <2>4 DEF KeysTypeOK
    <3>2. \A d \in Callers : d # c /\ keyStep[d] # "idle" => project[d] # p
      BY <2>3, <3>1
    <3>3. QED
      BY <1>3, <1>4, <2>1, <2>2, <2>3, <2>4, <3>1, <3>2 DEF IInv, KeysHaveProjects, ProjectOf
  <2>5. CASE step # "insertKey"
    <3>1. projects' = projects /\ projects[p] \in {"listed", "gone"}
      BY <2>5
    <3>2. QED
      BY <1>3, <1>4, <2>1, <2>2, <2>5, <3>1 DEF IInv, KeysHaveProjects, ProjectOf
  <2>6. QED
    BY <2>4, <2>5
<1>11. ExposedExist'
  <2>1. \A k \in ActiveKeys(p) : keys[k].state # "none" /\ keys[k].of = p
    BY DEF ActiveKeys
  <2>2. QED
    BY <1>3, <1>4, <2>1 DEF IInv, ExposedExist
<1>12. UpdateCovers'
  <2>1. \A d \in Callers : keyStep'[d] \in {"revoke", "commit"} =>
            /\ d # c /\ keyStep[d] = keyStep'[d]
            /\ project'[d] = project[d] /\ exposed'[d] = exposed[d]
    BY <1>3
  <2>2. todo[c] = {}
    BY <1>1, <1>2 DEF IInv, UpdateCovers, KeysTypeOK
  <2>3. \A d \in Callers : \A k \in todo'[d] : keyStep'[d] = "revoke" /\ keys'[k].of = project'[d]
    BY <1>3, <1>4, <2>2 DEF IInv, UpdateCovers
  <2>4. QED
    BY <1>4, <2>1, <2>3 DEF IInv, UpdateCovers, ActiveKeys
<1>13. OnlyOverlapsAddUp' /\ FoundExist'
  BY <1>4 DEF IInv, OnlyOverlapsAddUp, FoundExist
<1>14. NeverWithoutKey'
  BY <1>4, <1>9 DEF IInv, NeverWithoutKey, ActiveKeys
<1>15. RotationRevokes'
  BY <1>3, <1>4 DEF IInv, RotationRevokes
<1>16. QED
  BY <1>5, <1>6, <1>8, <1>10, <1>11, <1>12, <1>13, <1>14, <1>15 DEF IInv

\* What KeyAnswer sets, connection by connection.
LEMMA AnswerFacts ==
    ASSUME KeysTypeOK, NEW c \in Callers, NEW answer \in KeyAnswers, KeyAnswer(c, answer)
    PROVE  /\ \A d \in Callers :
                 /\ keyStep'[d] = IF d = c THEN "idle" ELSE keyStep[d]
                 /\ keyAnswer'[d] = IF d = c THEN answer ELSE keyAnswer[d]
                 /\ newKey'[d] = IF d = c THEN NoKey ELSE newKey[d]
                 /\ todo'[d] = IF d = c THEN {} ELSE todo[d]
                 /\ held'[d] = IF d = c THEN {} ELSE held[d]
           /\ project' = project /\ exposed' = exposed
           /\ keyStep' \in [Callers -> KeySteps] /\ keyAnswer' \in [Callers -> KeyAnswers]
           /\ newKey' \in [Callers -> Keys \cup {NoKey}]
           /\ todo' \in [Callers -> SUBSET Keys] /\ held' \in [Callers -> SUBSET Keys]
BY DEF KeyAnswer, KeysTypeOK, KeySteps

\* A request is answered without having changed a row.
LEMMA AnswerKeeps ==
    ASSUME IInv, NEW c \in Callers, NEW answer \in KeyAnswers \ {"rotated"},
           KeyAnswer(c, answer), UNCHANGED <<projects, keys>>
    PROVE  IInv'
<1>1. KeysTypeOK
  BY DEF IInv
<1>2. \A d \in Callers :
          /\ keyStep'[d] = IF d = c THEN "idle" ELSE keyStep[d]
          /\ keyAnswer'[d] = IF d = c THEN answer ELSE keyAnswer[d]
          /\ newKey'[d] = IF d = c THEN NoKey ELSE newKey[d]
          /\ todo'[d] = IF d = c THEN {} ELSE todo[d]
          /\ held'[d] = IF d = c THEN {} ELSE held[d]
  BY <1>1, AnswerFacts
<1>3. projects' = projects /\ keys' = keys /\ project' = project /\ exposed' = exposed
  BY <1>1, AnswerFacts
<1>4. KeysTypeOK'
  BY <1>1, <1>3, AnswerFacts DEF KeysTypeOK
<1>5. NewKeysUnused'
  BY <1>2, <1>3 DEF IInv, NewKeysUnused, Creating
<1>6. HeldAreActive'
  BY <1>2, <1>3 DEF IInv, HeldAreActive
<1>7. KeysHaveProjects'
  BY <1>2, <1>3 DEF IInv, KeysHaveProjects, ProjectOf
<1>8. ExposedExist'
  BY <1>3 DEF IInv, ExposedExist
<1>9. UpdateCovers'
  BY <1>2, <1>3 DEF IInv, UpdateCovers, ActiveKeys
<1>10. OnlyOverlapsAddUp' /\ NeverWithoutKey' /\ FoundExist'
  BY <1>3 DEF IInv, OnlyOverlapsAddUp, NeverWithoutKey, FoundExist, ActiveKeys
<1>11. RotationRevokes'
  BY <1>2, <1>3 DEF IInv, RotationRevokes
<1>12. QED
  BY <1>4, <1>5, <1>6, <1>7, <1>8, <1>9, <1>10, <1>11 DEF IInv

\* A request goes on to its next statement; only its own rows are looked at.
LEMMA GotoKeeps ==
    ASSUME IInv, NEW c \in Callers, NEW step \in KeySteps \ {"idle", "insertKey"},
           keyStep[c] \notin {"idle", "insertKey"},
           KeyGoto(c, step), UNCHANGED <<projects, keys, project, newKey, exposed, keyAnswer>>,
           todo' \in [Callers -> SUBSET Keys], held' \in [Callers -> SUBSET Keys],
           \A d \in Callers \ {c} : todo'[d] = todo[d] /\ held'[d] = held[d],
           step \in Creating => keyStep[c] \in Creating,
           \A k \in held'[c] : /\ step \in {"revoke", "commit"}
                               /\ keys[k].of = project[c] /\ keys[k].state = "active"
                               /\ ~HeldByOther(c, k),
           \A k \in todo'[c] : step = "revoke" /\ keys[k].of = project[c],
           step \in {"revoke", "commit"} =>
               \A k \in ActiveKeys(project[c]) :
                   k \in exposed[c] => k \in todo'[c] \cup held'[c]
    PROVE  IInv'
<1>1. KeysTypeOK
  BY DEF IInv
<1>2. keyStep' = [keyStep EXCEPT ![c] = step]
  BY DEF KeyGoto
<1>3. \A d \in Callers :
          /\ keyStep'[d] = IF d = c THEN step ELSE keyStep[d]
          /\ d # c => todo'[d] = todo[d] /\ held'[d] = held[d]
  BY <1>1, <1>2 DEF KeysTypeOK
<1>4. /\ projects' = projects /\ keys' = keys /\ project' = project
      /\ newKey' = newKey /\ exposed' = exposed /\ keyAnswer' = keyAnswer
  OBVIOUS
<1>5. KeysTypeOK'
  BY <1>1, <1>2, <1>4 DEF KeysTypeOK
<1>6. NewKeysUnused'
  BY <1>3, <1>4 DEF IInv, NewKeysUnused
<1>7. HeldAreActive'
  <2>1. \A d \in Callers : \A k \in held'[d] :
            /\ keyStep'[d] \in {"revoke", "commit"}
            /\ keys[k].of = project[d] /\ keys[k].state = "active"
    BY <1>3 DEF IInv, HeldAreActive
  <2>2. \A d, e \in Callers : \A k \in held'[d] \cap held'[e] : d = e
    BY <1>3 DEF IInv, HeldAreActive, HeldByOther
  <2>3. QED
    BY <1>4, <2>1, <2>2 DEF HeldAreActive
<1>8. KeysHaveProjects'
  BY <1>3, <1>4 DEF IInv, KeysHaveProjects, ProjectOf
<1>9. ExposedExist'
  BY <1>4 DEF IInv, ExposedExist
<1>10. UpdateCovers'
  BY <1>3, <1>4 DEF IInv, UpdateCovers, ActiveKeys
<1>11. OnlyOverlapsAddUp' /\ NeverWithoutKey' /\ FoundExist'
  BY <1>4 DEF IInv, OnlyOverlapsAddUp, NeverWithoutKey, FoundExist, ActiveKeys
<1>12. RotationRevokes'
  BY <1>4 DEF IInv, RotationRevokes
<1>13. QED
  BY <1>5, <1>6, <1>7, <1>8, <1>9, <1>10, <1>11, <1>12 DEF IInv

-----------------------------------------------------------------------------
(* Steps that change keys. *)

\* A request ends and adds its new key, and perhaps revokes the keys it holds.
LEMMA IssueKeeps ==
    ASSUME IInv, NEW c \in Callers, NEW answer \in KeyAnswers, KeyAnswer(c, answer),
           keyStep[c] \in Creating,
           keys' \in [Keys -> KeyRows],
           projects' \in [Projects -> {"none", "bare", "listed", "gone"}],
           \A q \in Projects : q # project[c] => projects'[q] = projects[q],
           projects'[project[c]] \in {"listed", "gone"},
           projects[project[c]] = "bare" => keyStep[c] = "insertKey",
           projects[project[c]] # "bare" => projects' = projects,
           /\ keys'[newKey[c]].of = project[c]
           /\ keys'[newKey[c]].found = exposed[c]
           /\ keys'[newKey[c]].state = "active",
           \A k \in Keys \ {newKey[c]} :
               \/ keys'[k] = keys[k] /\ (k \in exposed[c] => keys[k].state # "active")
               \/ /\ k \in held[c] /\ keys'[k].state = "revoked"
                  /\ keys'[k].of = keys[k].of /\ keys'[k].found = keys[k].found
    PROVE  IInv'
<1> DEFINE n == newKey[c]
           p == project[c]
<1>1. KeysTypeOK
  BY DEF IInv
<1>2. \A d \in Callers :
          /\ keyStep'[d] = IF d = c THEN "idle" ELSE keyStep[d]
          /\ keyAnswer'[d] = IF d = c THEN answer ELSE keyAnswer[d]
          /\ newKey'[d] = IF d = c THEN NoKey ELSE newKey[d]
          /\ todo'[d] = IF d = c THEN {} ELSE todo[d]
          /\ held'[d] = IF d = c THEN {} ELSE held[d]
  BY <1>1, AnswerFacts
<1>3. project' = project /\ exposed' = exposed
  BY <1>1, AnswerFacts
<1>4. KeysTypeOK'
  BY <1>1, <1>3, AnswerFacts DEF KeysTypeOK
<1>5. n \in Keys /\ keys[n].state = "none" /\ p \in Projects /\ n # NoKey
  <2>1. n # NoKey /\ keys[n].state = "none"
    BY DEF IInv, NewKeysUnused
  <2>2. p \in Projects
    BY DEF IInv, KeysHaveProjects, Creating
  <2>3. QED
    BY <1>1, <2>1, <2>2 DEF KeysTypeOK
<1>6. \A k \in held[c] : keys[k].of = p /\ keys[k].state = "active"
  BY DEF IInv, HeldAreActive
<1>7. /\ keys'[n].of = p /\ keys'[n].found = exposed[c] /\ keys'[n].state = "active"
      /\ \A k \in Keys : k # n =>
             /\ keys'[k].of = keys[k].of /\ keys'[k].found = keys[k].found
             /\ keys'[k].state = "active" => keys[k].state = "active"
             /\ keys'[k].state = "none" => keys[k].state = "none"
             /\ keys[k].state = "none" => keys'[k].state = "none"
             /\ k \notin held[c] => keys'[k] = keys[k]
  BY <1>6
<1>8. \A k \in Keys : k # n /\ k \in exposed[c] => keys'[k].state # "active"
  OBVIOUS
<1>9. \A k \in Keys : n \notin keys[k].found
  BY <1>5 DEF IInv, FoundExist
<1>10. \A q \in Projects : /\ projects[q] \in {"listed", "gone"} => projects'[q] = projects[q]
                           /\ q # p => projects'[q] = projects[q]
  OBVIOUS
<1>11. projects'[p] \in {"listed", "gone"}
  OBVIOUS
<1>12. \A d \in Callers : \A k \in exposed[d] : k # n
  BY <1>5 DEF IInv, ExposedExist
<1>13. \A d \in Callers : d # c => newKey[d] # n
  BY <1>5 DEF IInv, NewKeysUnused
<1>14. projects[p] = "bare" => keyStep[c] = "insertKey"
  OBVIOUS
<1>15. \A d \in Callers : newKey[d] \in Keys \cup {NoKey} /\ held[d] \subseteq Keys
                          /\ exposed[d] \subseteq Keys
  BY <1>1 DEF KeysTypeOK
<1> HIDE DEF n, p
<1>16. NewKeysUnused'
  <2>1. \A d \in Callers : keyStep'[d] \in Creating => newKey'[d] # NoKey
    BY <1>2 DEF IInv, NewKeysUnused, Creating
  <2>2. \A d \in Callers : newKey'[d] # NoKey => keys'[newKey'[d]].state = "none"
    BY <1>2, <1>7, <1>13, <1>15 DEF IInv, NewKeysUnused
  <2>3. \A d, e \in Callers : newKey'[d] # NoKey /\ newKey'[d] = newKey'[e] => d = e
    BY <1>2 DEF IInv, NewKeysUnused
  <2>4. QED
    BY <2>1, <2>2, <2>3 DEF NewKeysUnused
<1>17. HeldAreActive'
  <2>1. ASSUME NEW d \in Callers, NEW k \in held'[d]
        PROVE  /\ keyStep'[d] \in {"revoke", "commit"}
               /\ keys'[k].of = project'[d] /\ keys'[k].state = "active"
    <3>1. d # c /\ k \in held[d] /\ k \in Keys
      BY <1>2, <1>15, <2>1
    <3>2. k \notin held[c] /\ keys[k].state = "active"
      BY <3>1 DEF IInv, HeldAreActive
    <3>3. keys'[k] = keys[k]
      BY <1>5, <1>7, <3>1, <3>2
    <3>4. QED
      BY <1>2, <1>3, <3>1, <3>3 DEF IInv, HeldAreActive
  <2>2. \A d, e \in Callers : \A k \in held'[d] \cap held'[e] : d = e
    BY <1>2 DEF IInv, HeldAreActive
  <2>3. QED
    BY <2>1, <2>2 DEF HeldAreActive
<1>18. KeysHaveProjects'
  <2>1. ASSUME NEW k \in Keys, keys'[k].state # "none"
        PROVE  keys'[k].of \in Projects /\ projects'[keys'[k].of] \in {"listed", "gone"}
    <3>1. CASE k = n
      BY <1>5, <1>7, <1>11, <3>1
    <3>2. CASE k # n
      BY <1>7, <1>10, <2>1, <3>2 DEF IInv, KeysHaveProjects
    <3>3. QED
      BY <3>1, <3>2
  <2>2. ASSUME NEW d \in Callers, keyStep'[d] = "insertKey"
        PROVE  projects'[project[d]] = "bare"
    <3>1. d # c /\ keyStep[d] = "insertKey" /\ projects[project[d]] = "bare" /\ project[d] \in Projects
      BY <1>2, <2>2 DEF IInv, KeysHaveProjects, ProjectOf
    <3>2. project[d] # p
      BY <1>14, <3>1 DEF IInv, KeysHaveProjects, p
    <3>3. QED
      BY <1>10, <3>1, <3>2
  <2>3. ASSUME NEW d \in Callers, keyStep'[d] \notin {"idle", "insertKey"}
        PROVE  projects'[project[d]] \in {"listed", "gone"}
    BY <1>2, <1>10, <2>3 DEF IInv, KeysHaveProjects, ProjectOf
  <2>4. \A d \in Callers : keyStep'[d] # "idle" => project'[d] \in Projects
    BY <1>2, <1>3 DEF IInv, KeysHaveProjects
  <2>5. \A d, e \in Callers :
            keyStep'[d] = "insertKey" /\ keyStep'[e] = "insertKey" /\ project'[d] = project'[e] => d = e
    BY <1>2, <1>3 DEF IInv, KeysHaveProjects
  <2>6. \A k \in Keys : keys'[k].state = "none" => keys'[k].of \notin Projects
    BY <1>7 DEF IInv, KeysHaveProjects
  <2>7. QED
    BY <1>3, <2>1, <2>2, <2>3, <2>4, <2>5, <2>6 DEF KeysHaveProjects, ProjectOf
<1>19. ExposedExist'
  BY <1>3, <1>7, <1>12, <1>15 DEF IInv, ExposedExist
<1>20. UpdateCovers'
  <2>1. ASSUME NEW d \in Callers, keyStep'[d] \in {"revoke", "commit"},
               NEW k \in Keys, keys'[k].of = project[d], keys'[k].state = "active",
               k \in exposed[d]
        PROVE  k \in todo'[d] \cup held'[d]
    <3>1. d # c /\ keyStep[d] \in {"revoke", "commit"}
      BY <1>2, <2>1
    <3>2. k # n
      BY <1>7, <1>12, <2>1, <3>1
    <3>3. k \in ActiveKeys(project[d]) /\ k \in exposed[d]
      BY <1>7, <2>1, <3>2 DEF ActiveKeys
    <3>4. k \in todo[d] \cup held[d]
      BY <3>1, <3>3 DEF IInv, UpdateCovers
    <3>5. QED
      BY <1>2, <3>1, <3>4
  <2>2. ASSUME NEW d \in Callers, NEW k \in todo'[d]
        PROVE  keyStep'[d] = "revoke" /\ keys'[k].of = project[d]
    <3>1. d # c /\ k \in todo[d] /\ k \in Keys
      BY <1>1, <1>2, <2>2 DEF KeysTypeOK
    <3>2. keyStep[d] = "revoke" /\ keys[k].of = project[d]
      BY <3>1 DEF IInv, UpdateCovers
    <3>3. k # n
      BY <1>5, <3>1, <3>2 DEF IInv, KeysHaveProjects
    <3>4. QED
      BY <1>2, <1>7, <3>1, <3>2, <3>3
  <2>3. QED
    BY <1>3, <2>1, <2>2 DEF UpdateCovers, ActiveKeys
<1>21. OnlyOverlapsAddUp' /\ FoundExist'
  <2>1. ASSUME NEW k \in Keys, NEW l \in Keys, k \in keys'[l].found,
               keys'[k].state = "active", keys'[l].state = "active", keys'[k].of = keys'[l].of
        PROVE  FALSE
    <3>1. CASE l = n
      BY <1>7, <1>8, <1>12, <2>1, <3>1
    <3>2. CASE l # n
      <4>1. k \in keys[l].found /\ k # n
        BY <1>7, <1>9, <2>1, <3>2
      <4>2. QED
        BY <1>7, <2>1, <3>2, <4>1 DEF IInv, OnlyOverlapsAddUp
    <3>3. QED
      BY <3>1, <3>2
  <2>2. ASSUME NEW k \in Keys, NEW l \in keys'[k].found
        PROVE  keys'[l].state # "none"
    <3>1. l \in Keys /\ keys[l].state # "none"
      <4>1. CASE k = n
        BY <1>7, <1>15, <2>2, <4>1 DEF IInv, ExposedExist
      <4>2. CASE k # n
        <5>1. l \in keys[k].found /\ keys[k] \in KeyRows
          BY <1>1, <1>7, <2>2, <4>2 DEF KeysTypeOK
        <5>2. QED
          BY <5>1 DEF IInv, FoundExist, KeyRows
      <4>3. QED
        BY <4>1, <4>2
    <3>2. QED
      BY <1>7, <3>1
  <2>3. QED
    BY <2>1, <2>2 DEF OnlyOverlapsAddUp, FoundExist
<1>22. NeverWithoutKey'
  <2>1. ASSUME NEW q \in Projects, projects'[q] = "listed"
        PROVE  \E k \in Keys : keys'[k].of = q /\ keys'[k].state = "active"
    <3>1. CASE q = p
      BY <1>5, <1>7, <3>1
    <3>2. CASE q # p
      <4>1. PICK k \in Keys : keys[k].of = q /\ keys[k].state = "active"
        BY <1>10, <2>1, <3>2 DEF IInv, NeverWithoutKey, ActiveKeys
      <4>2. k # n /\ k \notin held[c]
        BY <1>5, <1>6, <3>2, <4>1
      <4>3. QED
        BY <1>7, <4>1, <4>2
    <3>3. QED
      BY <3>1, <3>2
  <2>2. QED
    BY <2>1 DEF NeverWithoutKey, ActiveKeys
<1>23. RotationRevokes'
  <2>1. ASSUME NEW d \in Callers, keyAnswer'[d] = "rotated", NEW k \in exposed[d]
        PROVE  keys'[k].state # "active"
    <3>1. k \in Keys /\ k # n
      BY <1>12, <1>15
    <3>2. CASE d = c
      BY <1>2, <1>8, <2>1, <3>1, <3>2
    <3>3. CASE d # c
      BY <1>2, <1>7, <2>1, <3>1, <3>3 DEF IInv, RotationRevokes
    <3>4. QED
      BY <3>2, <3>3
  <2>2. QED
    BY <1>3, <2>1 DEF RotationRevokes
<1>24. QED
  BY <1>4, <1>16, <1>17, <1>18, <1>19, <1>20, <1>21, <1>22, <1>23 DEF IInv

\* The first key of a project: nobody else's key can belong to it yet.
LEMMA CreateKeyKeeps ==
    ASSUME IInv, NEW c \in Callers, CreateKey(c)
    PROVE  IInv'
<1> DEFINE row == [of |-> project[c], found |-> exposed[c], state |-> "active"]
<1>1. KeysTypeOK /\ keyStep[c] = "insertKey"
  BY DEF IInv, CreateKey
<1>2. /\ keys' = [keys EXCEPT ![newKey[c]] = row]
      /\ projects' = [projects EXCEPT ![project[c]] = "listed"]
      /\ KeyAnswer(c, "created")
  BY DEF CreateKey
<1>3. newKey[c] \in Keys /\ project[c] \in Projects /\ projects[project[c]] = "bare"
  <2>1. newKey[c] # NoKey /\ project[c] \in Projects /\ projects[project[c]] = "bare"
    BY <1>1 DEF IInv, NewKeysUnused, KeysHaveProjects, ProjectOf, Creating
  <2>2. QED
    BY <1>1, <2>1 DEF KeysTypeOK
<1>4. row \in KeyRows
  BY <1>1, <1>3 DEF KeyRows, KeyStates, KeysTypeOK
<1>5. keys' \in [Keys -> KeyRows]
  BY <1>1, <1>2, <1>3, <1>4 DEF KeysTypeOK
<1>6. projects' \in [Projects -> {"none", "bare", "listed", "gone"}]
  BY <1>1, <1>2, <1>3 DEF KeysTypeOK
<1>7. /\ \A q \in Projects : q # project[c] => projects'[q] = projects[q]
      /\ projects'[project[c]] = "listed"
  BY <1>1, <1>2, <1>3 DEF KeysTypeOK
<1>8. keys'[newKey[c]] = row /\ \A k \in Keys \ {newKey[c]} : keys'[k] = keys[k]
  BY <1>1, <1>2, <1>3 DEF KeysTypeOK
<1>9. \A k \in Keys : keys[k].state # "none" => keys[k].of # project[c]
  BY <1>3 DEF IInv, KeysHaveProjects
<1>10. "created" \in KeyAnswers /\ "created" # "rotated" /\ keyStep[c] \in Creating
  BY <1>1 DEF KeyAnswers, Creating
<1>11. /\ keys'[newKey[c]].of = project[c]
       /\ keys'[newKey[c]].found = exposed[c]
       /\ keys'[newKey[c]].state = "active"
  BY <1>8
<1>12. \A k \in Keys \ {newKey[c]} :
           keys'[k] = keys[k] /\ (k \in exposed[c] => keys[k].state # "active")
  BY <1>8, <1>9 DEF IInv, ExposedExist
<1> HIDE DEF row
<1>13. QED
  BY <1>1, <1>2, <1>3, <1>5, <1>6, <1>7, <1>10, <1>11, <1>12, IssueKeeps

\* The COMMIT of a rotation: all active keys that the UPDATE covers are held.
LEMMA RotateCommitKeeps ==
    ASSUME IInv, NEW c \in Callers, RotateCommit(c)
    PROVE  IInv'
<1> DEFINE row == [of |-> project[c], found |-> exposed[c], state |-> "active"]
<1>1. KeysTypeOK /\ keyStep[c] = "commit" /\ projects' = projects /\ keys' = Rotated(c)
  BY DEF IInv, RotateCommit
<1>2. PICK answer \in {"rotated", "error"} : KeyAnswer(c, answer)
  BY DEF RotateCommit
<1>3. newKey[c] \in Keys /\ keys[newKey[c]].state = "none"
      /\ project[c] \in Projects /\ projects[project[c]] \in {"listed", "gone"}
  <2>1. newKey[c] # NoKey /\ keys[newKey[c]].state = "none"
        /\ project[c] \in Projects /\ projects[project[c]] \in {"listed", "gone"}
    BY <1>1 DEF IInv, NewKeysUnused, KeysHaveProjects, ProjectOf, Creating
  <2>2. QED
    BY <1>1, <2>1 DEF KeysTypeOK
<1>4. newKey[c] \notin held[c]
  BY <1>3 DEF IInv, HeldAreActive
<1>5. row \in KeyRows
  BY <1>1, <1>3 DEF KeyRows, KeyStates, KeysTypeOK
<1>6. ASSUME NEW k \in Keys
      PROVE  /\ [keys[k] EXCEPT !.state = "revoked"] \in KeyRows
             /\ [keys[k] EXCEPT !.state = "revoked"].state = "revoked"
             /\ [keys[k] EXCEPT !.state = "revoked"].of = keys[k].of
             /\ [keys[k] EXCEPT !.state = "revoked"].found = keys[k].found
  <2>1. PICK r \in KeyRows : r = keys[k]
    BY <1>1 DEF KeysTypeOK
  <2>2. QED
    BY <2>1 DEF KeyRows, KeyStates
<1>7. \A k \in Keys : keys'[k] = IF k \in held[c] THEN [keys[k] EXCEPT !.state = "revoked"]
                                ELSE IF k = newKey[c] THEN row ELSE keys[k]
  BY <1>1 DEF Rotated
<1>8. keys' \in [Keys -> KeyRows]
  <2>1. keys' = [k \in Keys |-> IF k \in held[c] THEN [keys[k] EXCEPT !.state = "revoked"]
                                ELSE IF k = newKey[c] THEN row ELSE keys[k]]
    BY <1>1 DEF Rotated
  <2>2. \A k \in Keys : keys[k] \in KeyRows
    BY <1>1 DEF KeysTypeOK
  <2> HIDE DEF row
  <2>3. QED
    BY <1>5, <1>6, <2>1, <2>2
<1>9. keys'[newKey[c]] = row
  BY <1>3, <1>4, <1>7
<1>10. /\ keys'[newKey[c]].of = project[c]
       /\ keys'[newKey[c]].found = exposed[c]
       /\ keys'[newKey[c]].state = "active"
  BY <1>9
<1> HIDE DEF row
<1>11. \A k \in ActiveKeys(project[c]) : k \in exposed[c] => k \in held[c]
  BY <1>1 DEF IInv, UpdateCovers
<1>12. \A k \in exposed[c] : keys[k].of = project[c]
  BY DEF IInv, ExposedExist
<1>13. \A k \in Keys \ {newKey[c]} :
           \/ keys'[k] = keys[k] /\ (k \in exposed[c] => keys[k].state # "active")
           \/ /\ k \in held[c] /\ keys'[k].state = "revoked"
              /\ keys'[k].of = keys[k].of /\ keys'[k].found = keys[k].found
  <2>1. ASSUME NEW k \in Keys \ {newKey[c]}, k \in held[c]
        PROVE  /\ keys'[k].state = "revoked"
               /\ keys'[k].of = keys[k].of /\ keys'[k].found = keys[k].found
    BY <1>6, <1>7, <2>1
  <2>2. ASSUME NEW k \in Keys \ {newKey[c]}, k \notin held[c]
        PROVE  /\ keys'[k] = keys[k]
               /\ k \in exposed[c] => keys[k].state # "active"
    <3>1. keys'[k] = keys[k]
      BY <1>7, <2>2
    <3>2. QED
      BY <1>11, <1>12, <2>2, <3>1 DEF ActiveKeys
  <2>3. QED
    BY <2>1, <2>2
<1>14. answer \in KeyAnswers /\ keyStep[c] \in Creating
  BY <1>1 DEF KeyAnswers, Creating
<1>15. projects' \in [Projects -> {"none", "bare", "listed", "gone"}]
  BY <1>1 DEF KeysTypeOK
<1>16. /\ projects'[project[c]] \in {"listed", "gone"}
       /\ projects[project[c]] = "bare" => keyStep[c] = "insertKey"
  BY <1>1, <1>3
<1>17. QED
  BY <1>1, <1>2, <1>8, <1>10, <1>13, <1>14, <1>15, <1>16, IssueKeeps

\* The cascade takes the keys of a project that nobody has locked.
LEMMA DeleteCascadeKeeps ==
    ASSUME IInv, NEW c \in Callers, DeleteCascadeKeys(c)
    PROVE  IInv'
<1> DEFINE p == project[c]
<1>1. KeysTypeOK /\ keyStep[c] = "cascade"
  BY DEF IInv, DeleteCascadeKeys
<1>2. /\ projects' = [projects EXCEPT ![p] = "gone"]
      /\ keys' = [k \in Keys |-> IF keys[k].of = p
                                 THEN [keys[k] EXCEPT !.state = "deleted"] ELSE keys[k]]
      /\ KeyAnswer(c, "deleted")
  BY DEF DeleteCascadeKeys
<1>3. \A d \in Callers : \A k \in held[d] : keys[k].of # p
  <2>1. \A d \in Callers \ {c} : \A k \in held[d] : keys[k].of # p
    BY <1>1 DEF DeleteCascadeKeys, KeyWaitsFor
  <2>2. held[c] = {}
    BY <1>1 DEF IInv, HeldAreActive, KeysTypeOK
  <2>3. QED
    BY <2>1, <2>2
<1>4. p \in Projects /\ projects[p] \in {"listed", "gone"}
  BY <1>1 DEF IInv, KeysHaveProjects, ProjectOf
<1>5. "deleted" \in KeyAnswers /\ "deleted" # "rotated"
  BY DEF KeyAnswers
<1>6. \A d \in Callers :
          /\ keyStep'[d] = IF d = c THEN "idle" ELSE keyStep[d]
          /\ keyAnswer'[d] = IF d = c THEN "deleted" ELSE keyAnswer[d]
          /\ newKey'[d] = IF d = c THEN NoKey ELSE newKey[d]
          /\ todo'[d] = IF d = c THEN {} ELSE todo[d]
          /\ held'[d] = IF d = c THEN {} ELSE held[d]
  BY <1>1, <1>2, <1>5, AnswerFacts
<1>7. project' = project /\ exposed' = exposed
  BY <1>1, <1>2, <1>5, AnswerFacts
<1>8. ASSUME NEW k \in Keys
      PROVE  /\ [keys[k] EXCEPT !.state = "deleted"] \in KeyRows
             /\ [keys[k] EXCEPT !.state = "deleted"].state = "deleted"
             /\ [keys[k] EXCEPT !.state = "deleted"].of = keys[k].of
             /\ [keys[k] EXCEPT !.state = "deleted"].found = keys[k].found
             /\ keys[k] \in KeyRows
  <2>1. PICK r \in KeyRows : r = keys[k]
    BY <1>1 DEF KeysTypeOK
  <2>2. QED
    BY <2>1 DEF KeyRows, KeyStates
<1>9. keys' \in [Keys -> KeyRows]
  BY <1>2, <1>8
<1>10. KeysTypeOK'
  <2>1. projects' \in [Projects -> {"none", "bare", "listed", "gone"}]
    BY <1>1, <1>2 DEF KeysTypeOK
  <2>2. QED
    BY <1>1, <1>2, <1>5, <1>7, <1>9, <2>1, AnswerFacts DEF KeysTypeOK
<1>11. \A k \in Keys :
           /\ keys[k].of = p => keys'[k].state = "deleted"
           /\ keys[k].of # p => keys'[k] = keys[k]
           /\ keys'[k].of = keys[k].of /\ keys'[k].found = keys[k].found
           /\ keys'[k].state = "active" => keys[k].state = "active" /\ keys[k].of # p
           /\ keys[k].state # "none" => keys'[k].state # "none"
  BY <1>2, <1>8
<1>12. \A k \in Keys : keys[k].state = "none" => keys'[k] = keys[k]
  <2>1. \A k \in Keys : keys[k].state = "none" => keys[k].of # p
    BY <1>4 DEF IInv, KeysHaveProjects
  <2>2. QED
    BY <1>11, <2>1
<1>13. \A q \in Projects : projects'[q] = IF q = p THEN "gone" ELSE projects[q]
  BY <1>1, <1>2 DEF KeysTypeOK
<1>14. \A d \in Callers : newKey[d] \in Keys \cup {NoKey} /\ held[d] \subseteq Keys
                          /\ exposed[d] \subseteq Keys
  BY <1>1 DEF KeysTypeOK
<1> HIDE DEF p
<1>15. NewKeysUnused'
  <2>1. \A d \in Callers : keyStep'[d] \in Creating => newKey'[d] # NoKey
    BY <1>6 DEF IInv, NewKeysUnused, Creating
  <2>2. \A d \in Callers : newKey'[d] # NoKey => keys'[newKey'[d]].state = "none"
    BY <1>6, <1>12, <1>14 DEF IInv, NewKeysUnused
  <2>3. \A d, e \in Callers : newKey'[d] # NoKey /\ newKey'[d] = newKey'[e] => d = e
    BY <1>6 DEF IInv, NewKeysUnused
  <2>4. QED
    BY <2>1, <2>2, <2>3 DEF NewKeysUnused
<1>16. HeldAreActive'
  <2>1. ASSUME NEW d \in Callers, NEW k \in held'[d]
        PROVE  /\ keyStep'[d] \in {"revoke", "commit"}
               /\ keys'[k].of = project'[d] /\ keys'[k].state = "active"
    <3>1. d # c /\ k \in held[d] /\ k \in Keys
      BY <1>6, <1>14, <2>1
    <3>2. keys'[k] = keys[k]
      BY <1>3, <1>11, <3>1
    <3>3. QED
      BY <1>6, <1>7, <3>1, <3>2 DEF IInv, HeldAreActive
  <2>2. \A d, e \in Callers : \A k \in held'[d] \cap held'[e] : d = e
    BY <1>6 DEF IInv, HeldAreActive
  <2>3. QED
    BY <2>1, <2>2 DEF HeldAreActive
<1>17. KeysHaveProjects'
  <2>1. \A k \in Keys : keys'[k].state # "none" =>
            keys'[k].of \in Projects /\ projects'[keys'[k].of] \in {"listed", "gone"}
    BY <1>11, <1>12, <1>13 DEF IInv, KeysHaveProjects
  <2>2. \A k \in Keys : keys'[k].state = "none" => keys'[k].of \notin Projects
    BY <1>11 DEF IInv, KeysHaveProjects
  <2>3. \A d \in Callers : keyStep'[d] # "idle" => project'[d] \in Projects
    BY <1>6, <1>7 DEF IInv, KeysHaveProjects
  <2>4. ASSUME NEW d \in Callers, keyStep'[d] = "insertKey"
        PROVE  projects'[project[d]] = "bare"
    <3>1. keyStep[d] = "insertKey" /\ projects[project[d]] = "bare" /\ project[d] \in Projects
      BY <1>6, <2>4 DEF IInv, KeysHaveProjects, ProjectOf
    <3>2. QED
      BY <1>4, <1>13, <3>1
  <2>5. ASSUME NEW d \in Callers, keyStep'[d] \notin {"idle", "insertKey"}
        PROVE  projects'[project[d]] \in {"listed", "gone"}
    BY <1>6, <1>13, <2>5 DEF IInv, KeysHaveProjects, ProjectOf
  <2>6. \A d, e \in Callers :
            keyStep'[d] = "insertKey" /\ keyStep'[e] = "insertKey" /\ project'[d] = project'[e] => d = e
    BY <1>6, <1>7 DEF IInv, KeysHaveProjects
  <2>7. QED
    BY <1>7, <2>1, <2>2, <2>3, <2>4, <2>5, <2>6 DEF KeysHaveProjects, ProjectOf
<1>18. ExposedExist'
  BY <1>7, <1>11, <1>14 DEF IInv, ExposedExist
<1>19. UpdateCovers'
  <2>1. ASSUME NEW d \in Callers, keyStep'[d] \in {"revoke", "commit"},
               NEW k \in Keys, keys'[k].of = project[d], keys'[k].state = "active",
               k \in exposed[d]
        PROVE  k \in todo'[d] \cup held'[d]
    <3>1. d # c /\ keyStep[d] \in {"revoke", "commit"}
      BY <1>6, <2>1
    <3>2. k \in ActiveKeys(project[d]) /\ k \in exposed[d]
      BY <1>11, <2>1 DEF ActiveKeys
    <3>3. k \in todo[d] \cup held[d]
      BY <3>1, <3>2 DEF IInv, UpdateCovers
    <3>4. QED
      BY <1>6, <3>1, <3>3
  <2>2. ASSUME NEW d \in Callers, NEW k \in todo'[d]
        PROVE  keyStep'[d] = "revoke" /\ keys'[k].of = project[d]
    <3>1. d # c /\ k \in todo[d] /\ k \in Keys
      BY <1>1, <1>6, <2>2 DEF KeysTypeOK
    <3>2. QED
      BY <1>6, <1>11, <3>1 DEF IInv, UpdateCovers
  <2>3. QED
    BY <1>7, <2>1, <2>2 DEF UpdateCovers, ActiveKeys
<1>20. OnlyOverlapsAddUp' /\ FoundExist'
  <2>1. OnlyOverlapsAddUp'
    BY <1>11 DEF IInv, OnlyOverlapsAddUp
  <2>2. \A k \in Keys : \A l \in keys[k].found : l \in Keys
    BY <1>8 DEF KeyRows
  <2>3. QED
    BY <1>11, <2>1, <2>2 DEF IInv, FoundExist
<1>21. NeverWithoutKey'
  <2>1. ASSUME NEW q \in Projects, projects'[q] = "listed"
        PROVE  \E k \in Keys : keys'[k].of = q /\ keys'[k].state = "active"
    <3>1. q # p /\ projects[q] = "listed"
      BY <1>13, <2>1
    <3>2. PICK k \in Keys : keys[k].of = q /\ keys[k].state = "active"
      BY <3>1 DEF IInv, NeverWithoutKey, ActiveKeys
    <3>3. QED
      BY <1>11, <3>1, <3>2
  <2>2. QED
    BY <2>1 DEF NeverWithoutKey, ActiveKeys
<1>22. RotationRevokes'
  BY <1>6, <1>7, <1>11, <1>14 DEF IInv, RotationRevokes
<1>23. QED
  BY <1>10, <1>15, <1>16, <1>17, <1>18, <1>19, <1>20, <1>21, <1>22 DEF IInv

-----------------------------------------------------------------------------
LEMMA StepKeeps ==
    ASSUME IInv, [KeysNext]_keyVars
    PROVE  IInv'
<1>1. /\ todo \in [Callers -> SUBSET Keys] /\ held \in [Callers -> SUBSET Keys]
      /\ keyStep \in [Callers -> KeySteps]
  BY DEF IInv, KeysTypeOK
<1>2. ASSUME NEW c \in Callers
      PROVE  \A k \in held[c] : /\ keys[k].of = project[c] /\ keys[k].state = "active"
                                /\ ~HeldByOther(c, k)
  <2>1. \A k \in held[c] : ~HeldByOther(c, k)
    BY DEF IInv, HeldAreActive, HeldByOther
  <2>2. QED
    BY <2>1 DEF IInv, HeldAreActive
<1>3. {"error", "not found", "deleted"} \subseteq KeyAnswers \ {"rotated"}
  BY DEF KeyAnswers
<1>4. {"select", "update", "revoke", "commit", "cascade"} \subseteq KeySteps \ {"idle", "insertKey"}
  BY DEF KeySteps
<1>5. ASSUME NEW c \in Callers, NEW p \in Projects, NEW k \in Keys,
             CreateProject(c, p, k) \/ Rotate(c, p, k)
      PROVE  IInv'
  <2>1. CASE CreateProject(c, p, k)
    BY <2>1, RequestKeeps DEF CreateProject
  <2>2. CASE Rotate(c, p, k)
    BY <2>2, RequestKeeps DEF Rotate
  <2>3. QED
    BY <1>5, <2>1, <2>2
<1>6. ASSUME NEW c \in Callers,
             RotateNotFound(c) \/ InsertKeyFails(c) \/ DeleteNothing(c)
                 \/ KeyDeadlockAbort(c) \/ CreateKeyFails(c) \/ RotateFails(c)
      PROVE  IInv'
  <2>1. PICK answer \in {"error", "not found", "deleted"} :
             KeyAnswer(c, answer) /\ UNCHANGED <<projects, keys>>
    BY <1>6 DEF RotateNotFound, InsertKeyFails, DeleteNothing, KeyDeadlockAbort,
       CreateKeyFails, RotateFails, KeyRollback
  <2>2. QED
    BY <1>3, <2>1, AnswerKeeps
<1>7. ASSUME NEW c \in Callers, RotateFound(c) \/ DeleteLock(c)
      PROVE  IInv'
  <2>1. /\ UNCHANGED <<projects, keys, project, newKey, todo, held, exposed, keyAnswer>>
        /\ keyStep[c] \in {"select", "delete"}
    BY <1>7 DEF RotateFound, DeleteLock, keyLocals
  <2>2. PICK step \in {"update", "cascade"} :
             KeyGoto(c, step) /\ (step = "update" => keyStep[c] = "select")
    BY <1>7 DEF RotateFound, DeleteLock
  <2>3. \A k \in held'[c] \cup todo'[c] : FALSE
    BY <2>1 DEF IInv, HeldAreActive, UpdateCovers
  <2>4. /\ step \in KeySteps \ {"idle", "insertKey"} /\ step \notin {"revoke", "commit"}
        /\ step \in Creating => keyStep[c] \in Creating
        /\ keyStep[c] \notin {"idle", "insertKey"}
    BY <1>4, <2>1, <2>2 DEF Creating
  <2>5. QED
    BY <1>1, <2>1, <2>2, <2>3, <2>4, GotoKeeps
<1>8. ASSUME NEW c \in Callers, RevokeStart(c)
      PROVE  IInv'
  <2>1. /\ keyStep[c] = "update" /\ KeyGoto(c, "revoke")
        /\ todo' = [todo EXCEPT ![c] = ActiveKeys(project[c])]
        /\ UNCHANGED <<projects, keys, project, newKey, held, exposed, keyAnswer>>
    BY <1>8 DEF RevokeStart, Revocable
  <2>2. /\ todo' \in [Callers -> SUBSET Keys] /\ held' \in [Callers -> SUBSET Keys]
        /\ \A d \in Callers \ {c} : todo'[d] = todo[d] /\ held'[d] = held[d]
        /\ todo'[c] = ActiveKeys(project[c])
    BY <1>1, <2>1 DEF ActiveKeys
  <2>3. \A k \in held'[c] : FALSE
    BY <2>1 DEF IInv, HeldAreActive
  <2>4. \A k \in todo'[c] : keys[k].of = project[c]
    BY <2>2 DEF ActiveKeys
  <2>5. /\ "revoke" \in KeySteps \ {"idle", "insertKey"}
        /\ keyStep[c] \in Creating /\ keyStep[c] \notin {"idle", "insertKey"}
    BY <1>4, <2>1 DEF Creating
  <2>6. QED
    BY <2>1, <2>2, <2>3, <2>4, <2>5, GotoKeeps
<1>9. ASSUME NEW c \in Callers, NEW k \in Keys, RevokeRow(c, k)
      PROVE  IInv'
  <2>1. /\ keyStep[c] = "revoke" /\ KeyGoto(c, "revoke")
        /\ k \in todo[c] /\ ~HeldByOther(c, k)
        /\ todo' = [todo EXCEPT ![c] = todo[c] \ {k}]
        /\ held' = [held EXCEPT ![c] = IF keys[k].state = "active" THEN held[c] \cup {k} ELSE held[c]]
        /\ UNCHANGED <<projects, keys, project, newKey, exposed, keyAnswer>>
    BY <1>1, <1>9 DEF RevokeRow, KeyGoto
  <2>2. /\ todo' \in [Callers -> SUBSET Keys] /\ held' \in [Callers -> SUBSET Keys]
        /\ \A d \in Callers \ {c} : todo'[d] = todo[d] /\ held'[d] = held[d]
        /\ todo'[c] = todo[c] \ {k}
        /\ held'[c] = IF keys[k].state = "active" THEN held[c] \cup {k} ELSE held[c]
    BY <1>1, <2>1
  <2>3. \A l \in ActiveKeys(project[c]) :
            l \in exposed[c] => l \in todo[c] \cup held[c]
    BY <2>1 DEF IInv, UpdateCovers
  <2>4. \A l \in ActiveKeys(project[c]) :
            l \in exposed[c] => l \in todo'[c] \cup held'[c]
    BY <2>2, <2>3 DEF ActiveKeys
  <2>5. \A l \in todo[c] : keys[l].of = project[c]
    BY DEF IInv, UpdateCovers
  <2>6. \A l \in held'[c] : /\ keys[l].of = project[c] /\ keys[l].state = "active"
                            /\ ~HeldByOther(c, l)
    BY <1>2, <2>1, <2>2, <2>5
  <2>7. \A l \in todo'[c] : keys[l].of = project[c]
    BY <2>2, <2>5
  <2>8. /\ "revoke" \in KeySteps \ {"idle", "insertKey"}
        /\ keyStep[c] \in Creating /\ keyStep[c] \notin {"idle", "insertKey"}
    BY <1>4, <2>1 DEF Creating
  <2>9. QED
    BY <2>1, <2>2, <2>4, <2>6, <2>7, <2>8, GotoKeeps
<1>10. ASSUME NEW c \in Callers, InsertKey(c)
       PROVE  IInv'
  <2>1. /\ keyStep[c] = "revoke" /\ todo[c] = {} /\ KeyGoto(c, "commit")
        /\ UNCHANGED <<projects, keys, project, newKey, todo, held, exposed, keyAnswer>>
    BY <1>10 DEF InsertKey, keyLocals
  <2>2. \A k \in ActiveKeys(project[c]) :
            k \in exposed[c] => k \in todo'[c] \cup held'[c]
    BY <2>1 DEF IInv, UpdateCovers
  <2>3. /\ "commit" \in KeySteps \ {"idle", "insertKey"}
        /\ keyStep[c] \in Creating /\ keyStep[c] \notin {"idle", "insertKey"}
    BY <1>4, <2>1 DEF Creating
  <2>4. /\ \A k \in todo'[c] : FALSE
        /\ \A k \in held'[c] : /\ keys[k].of = project[c] /\ keys[k].state = "active"
                               /\ ~HeldByOther(c, k)
    BY <1>2, <2>1
  <2>5. QED
    BY <1>1, <2>1, <2>2, <2>3, <2>4, GotoKeeps
<1>11. CASE UNCHANGED keyVars
  <2>1. UNCHANGED <<projects, keys, keyStep, project, newKey, todo, held, exposed, keyAnswer>>
    BY <1>11 DEF keyVars
  <2>2. KeysTypeOK' /\ NewKeysUnused' /\ HeldAreActive'
    BY <2>1 DEF IInv, KeysTypeOK, NewKeysUnused, HeldAreActive
  <2>3. KeysHaveProjects' /\ ExposedExist' /\ UpdateCovers'
    BY <2>1 DEF IInv, KeysHaveProjects, ProjectOf, ExposedExist, UpdateCovers, ActiveKeys
  <2>4. OnlyOverlapsAddUp' /\ FoundExist' /\ NeverWithoutKey' /\ RotationRevokes'
    BY <2>1 DEF IInv, OnlyOverlapsAddUp, FoundExist, NeverWithoutKey, RotationRevokes, ActiveKeys
  <2>5. QED
    BY <2>2, <2>3, <2>4 DEF IInv
<1>12. QED
  <2>1. ASSUME NEW c \in Callers, NEW p \in Projects, DeleteProject(c, p)
        PROVE  IInv'
    BY <2>1, RequestKeeps DEF DeleteProject
  <2>2. QED
    BY <1>5, <1>6, <1>7, <1>8, <1>9, <1>10, <1>11, <2>1, CreateKeyKeeps, RotateCommitKeeps,
       DeleteCascadeKeeps DEF KeysNext, KeyProgress

\* The variables of ApiKeys have their types in every state.
THEOREM KeysTypeCorrect == KeysSpec => []KeysTypeOK
<1>1. IInv => KeysTypeOK
  BY DEF IInv
<1>2. QED
  BY InitEstablishes, StepKeeps, <1>1, PTL DEF KeysSpec

\* Rotations that do not overlap (projects.service.ts:64-73) leave one active key:
\* of two, neither was there when the request that issued the other came in.
THEOREM OnlyOverlapsAddUpCorrect == KeysSpec => []OnlyOverlapsAddUp
<1>1. IInv => OnlyOverlapsAddUp
  BY DEF IInv
<1>2. QED
  BY InitEstablishes, StepKeeps, <1>1, PTL DEF KeysSpec

\* No step of a rotation leaves a project that is listed without an active key.
THEOREM NeverWithoutKeyCorrect == KeysSpec => []NeverWithoutKey
<1>1. IInv => NeverWithoutKey
  BY DEF IInv
<1>2. QED
  BY InitEstablishes, StepKeeps, <1>1, PTL DEF KeysSpec

\* When rotateApiKey is answered, no key that was active when the request came in
\* authenticates any longer.
THEOREM RotationRevokesCorrect == KeysSpec => []RotationRevokes
<1>1. IInv => RotationRevokes
  BY DEF IInv
<1>2. QED
  BY InitEstablishes, StepKeeps, <1>1, PTL DEF KeysSpec

=============================================================================
