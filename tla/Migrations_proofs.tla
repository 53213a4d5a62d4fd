------------------------- MODULE Migrations_proofs -------------------------
(***************************************************************************)
(* Proofs about Migrations, for any number of processes, files and faults.  *)
(*                                                                          *)
(* The rows of the table are a prefix of the files.  A process that is at a *)
(* file has seen all files before it recorded, and one that is about to     *)
(* commit holds the first file that is not.                                 *)
(***************************************************************************)
EXTENDS Migrations, TLAPS

AtFile == {"sql", "insert", "commit"}

\* A process at a file has all files before it recorded, and has passed those it
\* had found recorded when it read the list.
FilesBeforeDone ==
    \A p \in Processes : phase[p] \in AtFile =>
        /\ file[p] \in Files
        /\ file[p] <= Len(log) + 1
        /\ \A f \in listed[p] : f < file[p]

\* The UNIQUE constraint lets one process at a time up to its COMMIT.
CommitsNext ==
    \A p \in Processes : phase[p] = "commit" =>
        /\ file[p] = Len(log) + 1
        /\ \A q \in Processes : phase[q] = "commit" => q = p

ServesComplete == \A p \in Processes : phase[p] \in Serving => Len(log) = NFiles

IInv ==
    /\ MigrationsTypeOK
    /\ MigrationsInOrder
    /\ FilesBeforeDone
    /\ CommitsNext
    /\ ServesComplete

\* The rows are the first files.
LEMMA RecordedIsPrefix ==
    ASSUME MigrationsTypeOK, MigrationsInOrder
    PROVE  Recorded = 1..Len(log) /\ Len(log) \in Nat /\ Len(log) <= NFiles
<1>1. Len(log) \in Nat /\ DOMAIN log = 1..Len(log) /\ \A i \in 1..Len(log) : log[i] \in Files
  BY DEF MigrationsTypeOK
<1>2. \A i \in 1..Len(log) : log[i] = i
  BY <1>1 DEF MigrationsInOrder
<1>3. Recorded = 1..Len(log)
  BY <1>1, <1>2 DEF Recorded
<1>4. Len(log) <= NFiles
  <2>1. CASE Len(log) = 0
    BY <2>1, MigrationsAssumption
  <2>2. CASE Len(log) # 0
    <3>1. Len(log) \in 1..Len(log)
      BY <1>1, <2>2
    <3>2. QED
      BY <3>1, <1>1, <1>2, MigrationsAssumption DEF Files
  <2>3. QED
    BY <2>1, <2>2
<1>5. QED
  BY <1>1, <1>3, <1>4

\* The loop goes to the first file that is not in the list, or ends.
LEMMA NextFile ==
    ASSUME NEW p \in Processes, NEW f \in Nat \ {0}, NEW names,
           NEW first \in f..(NFiles + 1),
           \A g \in f..NFiles : g \in names <=> g < first,
           GotoFile(p, f, names)
    PROVE  \/ /\ first = NFiles + 1
              /\ phase' = [phase EXCEPT ![p] = IF p \in Instances THEN "serve" ELSE "down"]
              /\ file' = [file EXCEPT ![p] = 0]
              /\ listed' = [listed EXCEPT ![p] = {}]
           \/ /\ first \in Files
              /\ phase' = [phase EXCEPT ![p] = "sql"]
              /\ file' = [file EXCEPT ![p] = first]
              /\ listed' = [listed EXCEPT ![p] = names]
<1>1. Pending(f, names) = first..NFiles
  BY MigrationsAssumption DEF Pending
<1>2. CASE first = NFiles + 1
  <2>1. Pending(f, names) = {}
    BY <1>1, <1>2, MigrationsAssumption
  <2>2. QED
    BY <1>2, <2>1 DEF GotoFile, PhaseGoto
<1>3. CASE first # NFiles + 1
  <2>1. first \in Files /\ first \in first..NFiles
    BY <1>3, MigrationsAssumption DEF Files
  <2>2. PICK g \in Pending(f, names) :
             /\ \A h \in Pending(f, names) : g <= h
             /\ PhaseGoto(p, "sql")
             /\ file' = [file EXCEPT ![p] = g]
             /\ listed' = [listed EXCEPT ![p] = names]
    BY <1>1, <2>1 DEF GotoFile
  <2>3. g = first
    BY <1>1, <2>1, <2>2, MigrationsAssumption
  <2>4. QED
    BY <2>1, <2>2, <2>3 DEF PhaseGoto
<1>4. QED
  BY <1>2, <1>3

-----------------------------------------------------------------------------
LEMMA InitEstablishes == MigrationsInit => IInv
<1> SUFFICES ASSUME MigrationsInit PROVE IInv
  OBVIOUS
<1>1. \A p \in Processes : phase[p] = "down"
  BY DEF MigrationsInit
<1>2. phase \in [Processes -> Starting \cup Serving \cup Stopped]
  BY DEF MigrationsInit, Stopped
<1>3. listed \in [Processes -> SUBSET Files] /\ file \in [Processes -> Files \cup {0}]
  BY DEF MigrationsInit
<1>4. signalled \in [Processes -> BOOLEAN]
  BY DEF MigrationsInit
<1>5. table \in BOOLEAN
  BY DEF MigrationsInit
<1>6. log \in Seq(Files) /\ faults \in 0..MaxFaults
  BY MigrationsAssumption DEF MigrationsInit
<1>7. MigrationsTypeOK
  BY <1>2, <1>3, <1>4, <1>5, <1>6 DEF MigrationsTypeOK
<1>8. MigrationsInOrder
  BY DEF MigrationsInit, MigrationsInOrder
<1>9. FilesBeforeDone /\ CommitsNext /\ ServesComplete
  BY <1>1 DEF FilesBeforeDone, CommitsNext, ServesComplete, AtFile, Serving
<1>10. QED
  BY <1>7, <1>8, <1>9 DEF IInv

\* A process goes to a phase that promises nothing.
LEMMA FreePhaseKeeps ==
    ASSUME IInv, NEW p \in Processes, NEW ph \in Starting \cup Serving \cup Stopped,
           phase' = [phase EXCEPT ![p] = ph],
           ph \notin AtFile /\ (ph \in Serving => phase[p] \in Serving),
           file' \in [Processes -> Files \cup {0}], listed' \in [Processes -> SUBSET Files],
           \A q \in Processes \ {p} : file'[q] = file[q] /\ listed'[q] = listed[q],
           log' = log, table' \in BOOLEAN,
           signalled' \in [Processes -> BOOLEAN], faults' \in 0..MaxFaults
    PROVE  IInv'
<1>1. MigrationsTypeOK' /\ MigrationsInOrder'
  BY DEF IInv, MigrationsTypeOK, MigrationsInOrder
<1>2. phase \in [Processes -> Starting \cup Serving \cup Stopped]
  BY DEF IInv, MigrationsTypeOK
<1>3. \A q \in Processes : phase'[q] = IF q = p THEN ph ELSE phase[q]
  BY <1>2
<1>4. \A q \in Processes : phase'[q] \in AtFile => q # p
  BY <1>3
<1>5. "commit" \in AtFile
  BY DEF AtFile
<1>6. FilesBeforeDone'
  BY <1>3, <1>4 DEF IInv, FilesBeforeDone
<1>7. CommitsNext'
  BY <1>3, <1>4, <1>5 DEF IInv, CommitsNext
<1>8. ServesComplete'
  BY <1>3 DEF IInv, ServesComplete
<1>9. QED
  BY <1>1, <1>6, <1>7, <1>8 DEF IInv

\* A process is gone.
LEMMA GoneKeeps ==
    ASSUME IInv, NEW p \in Processes, NEW how \in Stopped, Gone(p, how),
           UNCHANGED <<table, log, signalled>>, faults' \in 0..MaxFaults
    PROVE  IInv'
<1>1. /\ phase' = [phase EXCEPT ![p] = how]
      /\ file' = [file EXCEPT ![p] = 0]
      /\ listed' = [listed EXCEPT ![p] = {}]
  BY DEF Gone, PhaseGoto
<1>2. how \in Starting \cup Serving \cup Stopped /\ how \notin AtFile /\ how \notin Serving
  BY DEF Stopped, Serving, AtFile
<1>3. /\ file' \in [Processes -> Files \cup {0}] /\ listed' \in [Processes -> SUBSET Files]
      /\ \A q \in Processes \ {p} : file'[q] = file[q] /\ listed'[q] = listed[q]
  BY <1>1 DEF IInv, MigrationsTypeOK
<1>4. table' \in BOOLEAN
  BY DEF IInv, MigrationsTypeOK
<1>5. log' = log /\ signalled' \in [Processes -> BOOLEAN]
  BY DEF IInv, MigrationsTypeOK
<1>6. QED
  BY <1>1, <1>2, <1>3, <1>4, <1>5, FreePhaseKeeps

\* A process begins the next file, or has done all of them.
LEMMA GotoFileKeeps ==
    ASSUME IInv, NEW p \in Processes, NEW names \in SUBSET Files,
           NEW f \in Nat \ {0}, GotoFile(p, f, names),
           NEW first \in f..(NFiles + 1),
           \A g \in f..NFiles : g \in names <=> g < first,
           \A g \in names : g < first,
           log' \in Seq(Files), MigrationsInOrder', first <= Len(log') + 1,
           Len(log) <= Len(log'), Len(log') <= NFiles,
           log' = log \/ phase[p] = "commit",
           UNCHANGED <<table, signalled, faults>>
    PROVE  IInv'
<1>1. MigrationsTypeOK /\ MigrationsTypeOK'
  <2>1. MigrationsTypeOK
    BY DEF IInv
  <2> DEFINE Goes(ph, g, ns) == /\ phase' = [phase EXCEPT ![p] = ph]
                                /\ file' = [file EXCEPT ![p] = g]
                                /\ listed' = [listed EXCEPT ![p] = ns]
  <2>2. PICK ph \in {"serve", "down", "sql"}, g \in Files \cup {0}, ns \in SUBSET Files :
             Goes(ph, g, ns)
    <3>1. Goes("serve", 0, {}) \/ Goes("down", 0, {}) \/ (first \in Files /\ Goes("sql", first, names))
      BY NextFile
    <3>2. {} \in SUBSET Files
      OBVIOUS
    <3> HIDE DEF Goes
    <3>3. QED
      BY <3>1, <3>2
  <2>3. phase' \in [Processes -> Starting \cup Serving \cup Stopped]
    BY <2>1, <2>2 DEF MigrationsTypeOK, Starting, Serving, Stopped
  <2>4. file' \in [Processes -> Files \cup {0}] /\ listed' \in [Processes -> SUBSET Files]
    BY <2>1, <2>2 DEF MigrationsTypeOK
  <2>5. QED
    BY <2>1, <2>3, <2>4 DEF MigrationsTypeOK
<1>2. /\ phase \in [Processes -> Starting \cup Serving \cup Stopped]
      /\ file \in [Processes -> Files \cup {0}] /\ listed \in [Processes -> SUBSET Files]
      /\ Len(log) \in Nat /\ Len(log') \in Nat
  BY <1>1 DEF MigrationsTypeOK
<1>3. \A q \in Processes : phase'[q] = "commit" => phase[q] = "commit" /\ q # p
  BY <1>2, NextFile
<1>4. \A q \in Processes \ {p} :
          phase'[q] = phase[q] /\ file'[q] = file[q] /\ listed'[q] = listed[q]
  BY <1>2, NextFile
<1>5. phase'[p] \in AtFile => file'[p] = first /\ listed'[p] = names /\ first \in Files
  BY <1>2, NextFile DEF AtFile
<1>6. FilesBeforeDone'
  <2>1. ASSUME NEW q \in Processes \ {p}, phase'[q] \in AtFile
        PROVE  /\ file'[q] \in Files
               /\ file'[q] <= Len(log') + 1
               /\ \A g \in listed'[q] : g < file'[q]
    <3>1. /\ file[q] \in Files /\ file[q] <= Len(log) + 1
          /\ \A g \in listed[q] : g < file[q]
      BY <1>4, <2>1 DEF IInv, FilesBeforeDone
    <3>2. file[q] <= Len(log') + 1
      BY <1>2, <3>1 DEF Files
    <3>3. QED
      BY <1>4, <3>1, <3>2
  <2>2. QED
    BY <1>5, <2>1 DEF FilesBeforeDone
<1>7. CommitsNext'
  <2>1. CASE log' = log
    BY <1>3, <1>4, <2>1 DEF IInv, CommitsNext
  <2>2. CASE phase[p] = "commit"
    BY <1>3, <2>2 DEF IInv, CommitsNext
  <2>3. QED
    BY <2>1, <2>2
<1>8. ServesComplete'
  <2>1. ASSUME NEW q \in Processes \ {p}, phase'[q] \in Serving
        PROVE  Len(log') = NFiles
    <3>1. Len(log) = NFiles
      BY <1>4, <2>1 DEF IInv, ServesComplete
    <3>2. QED
      BY <1>2, <3>1, MigrationsAssumption
  <2>2. ASSUME phase'[p] \in Serving PROVE Len(log') = NFiles
    <3>1. first = NFiles + 1
      BY <1>2, <2>2, NextFile DEF Serving
    <3>2. QED
      BY <1>2, <3>1, MigrationsAssumption
  <2>3. QED
    BY <2>1, <2>2 DEF ServesComplete
<1>9. QED
  BY <1>1, <1>6, <1>7, <1>8 DEF IInv

-----------------------------------------------------------------------------
\* What the phases promise is compared with the phase of p alone.
LEMMA RunSqlKeeps ==
    ASSUME IInv, NEW p \in Processes, RunSql(p)
    PROVE  IInv'
<1>1. /\ phase[p] = "sql" /\ phase' = [phase EXCEPT ![p] = "insert"]
      /\ UNCHANGED <<table, log, listed, file, signalled, faults>>
  BY DEF RunSql, PhaseGoto
<1>2. phase \in [Processes -> Starting \cup Serving \cup Stopped]
  BY DEF IInv, MigrationsTypeOK
<1>3. MigrationsTypeOK' /\ MigrationsInOrder'
  BY <1>1 DEF IInv, MigrationsTypeOK, MigrationsInOrder, Starting
<1>4. FilesBeforeDone'
  BY <1>1, <1>2 DEF IInv, FilesBeforeDone, AtFile
<1>5. CommitsNext' /\ ServesComplete'
  BY <1>1, <1>2 DEF IInv, CommitsNext, ServesComplete, Serving
<1>6. QED
  BY <1>3, <1>4, <1>5 DEF IInv

LEMMA InsertNameKeeps ==
    ASSUME IInv, NEW p \in Processes, InsertName(p)
    PROVE  IInv'
<1>1. /\ phase[p] = "insert" /\ phase' = [phase EXCEPT ![p] = "commit"]
      /\ Inserting(file[p]) = {} /\ file[p] \notin Recorded
      /\ UNCHANGED <<table, log, listed, file, signalled, faults>>
  BY DEF InsertName, PhaseGoto, NameFree
<1>2. phase \in [Processes -> Starting \cup Serving \cup Stopped]
  BY DEF IInv, MigrationsTypeOK
<1>3. MigrationsTypeOK' /\ MigrationsInOrder'
  BY <1>1 DEF IInv, MigrationsTypeOK, MigrationsInOrder, Starting
<1>4. FilesBeforeDone'
  BY <1>1, <1>2 DEF IInv, FilesBeforeDone, AtFile
<1>5. ServesComplete'
  BY <1>1, <1>2 DEF IInv, ServesComplete, Serving
<1>6. file[p] = Len(log) + 1
  <2>1. file[p] \in Files /\ file[p] <= Len(log) + 1
    BY <1>1 DEF IInv, FilesBeforeDone, AtFile
  <2>2. Recorded = 1..Len(log) /\ Len(log) \in Nat
    BY RecordedIsPrefix DEF IInv
  <2>3. QED
    BY <1>1, <2>1, <2>2 DEF Files
<1>7. \A q \in Processes : phase[q] # "commit"
  BY <1>1, <1>6 DEF IInv, CommitsNext, Inserting
<1>8. CommitsNext'
  BY <1>1, <1>2, <1>6, <1>7 DEF CommitsNext
<1>9. QED
  BY <1>3, <1>4, <1>5, <1>8 DEF IInv

LEMMA ListAppliedKeeps ==
    ASSUME IInv, NEW p \in Processes, ListApplied(p)
    PROVE  IInv'
<1>1. Recorded = 1..Len(log) /\ Len(log) \in Nat /\ Len(log) <= NFiles
  BY RecordedIsPrefix DEF IInv
<1>2. GotoFile(p, 1, Recorded) /\ UNCHANGED <<table, log, signalled, faults>>
  BY DEF ListApplied
<1>3. Recorded \in SUBSET Files /\ Len(log) + 1 \in 1..(NFiles + 1)
  BY <1>1, MigrationsAssumption DEF Files
<1>4. /\ \A g \in 1..NFiles : g \in Recorded <=> g < Len(log) + 1
      /\ \A g \in Recorded : g < Len(log) + 1
  BY <1>1
<1>5. log' \in Seq(Files) /\ MigrationsInOrder'
  BY <1>2 DEF IInv, MigrationsTypeOK, MigrationsInOrder
<1>6. /\ Len(log) + 1 <= Len(log') + 1 /\ Len(log) <= Len(log') /\ Len(log') <= NFiles
      /\ log' = log
  BY <1>1, <1>2
<1>7. 1 \in Nat \ {0} /\ UNCHANGED <<table, signalled, faults>>
  BY <1>2
<1>8. QED
  BY <1>2, <1>3, <1>4, <1>5, <1>6, <1>7, GotoFileKeeps

\* The row of the file that is committed is the next one.
LEMMA CommitAppendsNext ==
    ASSUME IInv, NEW p \in Processes, phase[p] = "commit", log' = Append(log, file[p])
    PROVE  /\ log' \in Seq(Files) /\ MigrationsInOrder'
           /\ Len(log) \in Nat /\ Len(log') = Len(log) + 1
           /\ file[p] = Len(log) + 1 /\ file[p] \in Files
<1>1. file[p] = Len(log) + 1 /\ file[p] \in Files
  BY DEF IInv, CommitsNext, FilesBeforeDone, AtFile
<1>2. log \in Seq(Files) /\ \A i \in DOMAIN log : log[i] = i
  BY DEF IInv, MigrationsTypeOK, MigrationsInOrder
<1>3. log' \in Seq(Files) /\ Len(log) \in Nat /\ Len(log') = Len(log) + 1
  BY <1>1, <1>2
<1>4. \A i \in DOMAIN log' : log'[i] = i
  BY <1>1, <1>2, <1>3
<1>5. QED
  BY <1>1, <1>3, <1>4 DEF MigrationsInOrder

LEMMA CommitFileKeeps ==
    ASSUME IInv, NEW p \in Processes, CommitFile(p)
    PROVE  IInv'
<1>1. /\ phase[p] = "commit" /\ log' = Append(log, file[p])
      /\ GotoFile(p, file[p] + 1, listed[p])
      /\ UNCHANGED <<table, signalled, faults>>
  BY DEF CommitFile
<1>2. /\ log' \in Seq(Files) /\ MigrationsInOrder'
      /\ Len(log) \in Nat /\ Len(log') = Len(log) + 1
      /\ file[p] = Len(log) + 1 /\ file[p] \in Files
  BY <1>1, CommitAppendsNext
<1>3. listed[p] \in SUBSET Files /\ \A g \in listed[p] : g < file[p]
  BY <1>1 DEF IInv, MigrationsTypeOK, FilesBeforeDone, AtFile
<1>4. /\ file[p] + 1 \in Nat \ {0}
      /\ file[p] + 1 \in (file[p] + 1)..(NFiles + 1)
      /\ file[p] + 1 <= Len(log') + 1 /\ Len(log) <= Len(log') /\ Len(log') <= NFiles
  BY <1>2, MigrationsAssumption DEF Files
<1>5. /\ \A g \in (file[p] + 1)..NFiles : g \in listed[p] <=> g < file[p] + 1
      /\ \A g \in listed[p] : g < file[p] + 1
  BY <1>2, <1>3, MigrationsAssumption DEF Files
<1>6. QED
  BY <1>1, <1>2, <1>3, <1>4, <1>5, GotoFileKeeps

LEMMA CommitUnansweredKeeps ==
    ASSUME IInv, NEW p \in Processes, CommitUnanswered(p)
    PROVE  IInv'
<1>1. /\ phase[p] = "commit" /\ faults < MaxFaults /\ faults' = faults + 1
      /\ log' = Append(log, file[p])
      /\ phase' = [phase EXCEPT ![p] = "down"]
      /\ file' = [file EXCEPT ![p] = 0]
      /\ listed' = [listed EXCEPT ![p] = {}]
      /\ UNCHANGED <<table, signalled>>
  BY DEF CommitUnanswered, CountFault, Gone, PhaseGoto
<1>2. /\ log' \in Seq(Files) /\ MigrationsInOrder'
      /\ Len(log) \in Nat /\ Len(log') = Len(log) + 1
      /\ file[p] = Len(log) + 1 /\ file[p] \in Files
  BY <1>1, CommitAppendsNext
<1>3. MigrationsTypeOK
  BY DEF IInv
<1>4. /\ phase' \in [Processes -> Starting \cup Serving \cup Stopped]
      /\ file' \in [Processes -> Files \cup {0}] /\ listed' \in [Processes -> SUBSET Files]
      /\ faults' \in 0..MaxFaults
  BY <1>1, <1>3, MigrationsAssumption DEF MigrationsTypeOK, Stopped
<1>5. MigrationsTypeOK'
  BY <1>1, <1>2, <1>3, <1>4 DEF MigrationsTypeOK
<1>6. \A q \in Processes :
          /\ phase'[q] = IF q = p THEN "down" ELSE phase[q]
          /\ q # p => file'[q] = file[q] /\ listed'[q] = listed[q]
  BY <1>1, <1>3 DEF MigrationsTypeOK
<1>7. \A q \in Processes : phase'[q] # "commit"
  BY <1>1, <1>6 DEF IInv, CommitsNext
<1>8. FilesBeforeDone'
  <2>1. ASSUME NEW q \in Processes, phase'[q] \in AtFile
        PROVE  /\ file'[q] \in Files
               /\ file'[q] <= Len(log') + 1
               /\ \A g \in listed'[q] : g < file'[q]
    <3>1. q # p
      BY <1>6, <2>1 DEF AtFile
    <3>2. /\ file[q] \in Files /\ file[q] <= Len(log) + 1
          /\ \A g \in listed[q] : g < file[q]
      BY <1>6, <2>1, <3>1 DEF IInv, FilesBeforeDone
    <3>3. file[q] <= Len(log') + 1
      BY <1>2, <3>2 DEF Files
    <3>4. QED
      BY <1>6, <3>1, <3>2, <3>3
  <2>2. QED
    BY <2>1 DEF FilesBeforeDone
<1>9. ServesComplete'
  <2>1. ASSUME NEW q \in Processes, phase'[q] \in Serving
        PROVE  FALSE
    <3>1. phase[q] \in Serving
      BY <1>6, <2>1 DEF Serving
    <3>2. Len(log) = NFiles
      BY <3>1 DEF IInv, ServesComplete
    <3>3. QED
      BY <1>2, <3>2, MigrationsAssumption DEF Files
  <2>2. QED
    BY <2>1 DEF ServesComplete
<1>10. QED
  BY <1>2, <1>5, <1>7, <1>8, <1>9 DEF IInv, CommitsNext

-----------------------------------------------------------------------------
LEMMA StepKeeps ==
    ASSUME IInv, [MigrationsNext]_processVars
    PROVE  IInv'
<1> USE DEF PhaseGoto
<1>0. /\ table \in BOOLEAN
      /\ faults \in 0..MaxFaults
      /\ file \in [Processes -> Files \cup {0}]
      /\ listed \in [Processes -> SUBSET Files]
      /\ signalled \in [Processes -> BOOLEAN]
  BY DEF IInv, MigrationsTypeOK
<1>1. ASSUME NEW p \in Processes, Start(p)
      PROVE  IInv'
  <2>1. PICK ph \in {"connect", "table"} : phase' = [phase EXCEPT ![p] = ph]
    BY <1>1 DEF Start
  <2>2. signalled' \in [Processes -> BOOLEAN] /\ UNCHANGED <<table, log, listed, file, faults>>
    BY <1>0, <1>1 DEF Start
  <2>3. ph \in Starting \cup Serving \cup Stopped /\ ph \notin AtFile /\ ph \notin Serving
    BY DEF Starting, Serving, AtFile
  <2>4. QED
    BY <1>0, <2>1, <2>2, <2>3, FreePhaseKeeps
<1>2. ASSUME NEW p \in Processes, Connect(p)
      PROVE  IInv'
  <2>1. /\ phase' = [phase EXCEPT ![p] = "table"]
        /\ UNCHANGED <<table, log, listed, file, signalled, faults>>
    BY <1>2 DEF Connect
  <2>2. "table" \in Starting /\ "table" \notin AtFile /\ "table" \notin Serving
    BY DEF Starting, Serving, AtFile
  <2>3. QED
    BY <1>0, <2>1, <2>2, FreePhaseKeeps
<1>3. ASSUME NEW p \in Processes, CreateTable(p)
      PROVE  IInv'
  <2>1. /\ phase' = [phase EXCEPT ![p] = "list"] /\ table' = TRUE
        /\ UNCHANGED <<log, listed, file, signalled, faults>>
    BY <1>3 DEF CreateTable
  <2>2. "list" \in Starting /\ "list" \notin AtFile /\ "list" \notin Serving
    BY DEF Starting, Serving, AtFile
  <2>3. QED
    BY <1>0, <2>1, <2>2, FreePhaseKeeps
<1>4. ASSUME NEW p \in Processes, Signal(p)
      PROVE  IInv'
  <2>1. /\ phase[p] = "serve" /\ phase' = [phase EXCEPT ![p] = "drain"]
        /\ signalled' \in [Processes -> BOOLEAN]
        /\ UNCHANGED <<table, log, listed, file, faults>>
    BY <1>0, <1>4 DEF Signal
  <2>2. "drain" \in Serving /\ "serve" \in Serving /\ "drain" \notin AtFile
    BY DEF Serving, AtFile
  <2>3. QED
    BY <1>0, <2>1, <2>2, FreePhaseKeeps
<1>5. ASSUME NEW p \in Processes,
             InsertNameFails(p) \/ FileFails(p) \/ StartFails(p)
                 \/ Exit(p) \/ ForceExit(p) \/ Kill(p)
      PROVE  IInv'
  <2>1. /\ Gone(p, "down") \/ Gone(p, "forced")
        /\ UNCHANGED <<table, log, signalled>>
        /\ faults' = faults \/ (faults < MaxFaults /\ faults' = faults + 1)
    BY <1>5 DEF InsertNameFails, FileFails, StartFails, Exit, ForceExit, Kill, CountFault
  <2>2. faults' \in 0..MaxFaults
    BY <1>0, <2>1, MigrationsAssumption
  <2>3. "down" \in Stopped /\ "forced" \in Stopped
    BY DEF Stopped
  <2>4. QED
    BY <2>1, <2>2, <2>3, GoneKeeps
<1>6. CASE UNCHANGED processVars
  <2>1. UNCHANGED <<table, log, phase, listed, file, signalled, faults>>
    BY <1>6 DEF processVars
  <2>2. MigrationsTypeOK' /\ MigrationsInOrder'
    BY <2>1 DEF IInv, MigrationsTypeOK, MigrationsInOrder
  <2>3. FilesBeforeDone' /\ CommitsNext' /\ ServesComplete'
    BY <2>1 DEF IInv, FilesBeforeDone, CommitsNext, ServesComplete
  <2>4. QED
    BY <2>2, <2>3 DEF IInv
<1>7. QED
  BY <1>1, <1>2, <1>3, <1>4, <1>5, <1>6, RunSqlKeeps, InsertNameKeeps, ListAppliedKeeps,
     CommitFileKeeps, CommitUnansweredKeeps DEF MigrationsNext, StartProgress

\* The variables of Migrations have their types in every state.
THEOREM MigrationsTypeCorrect == MigrationsSpec => []MigrationsTypeOK
<1>1. IInv => MigrationsTypeOK
  BY DEF IInv
<1>2. QED
  BY InitEstablishes, StepKeeps, <1>1, PTL DEF MigrationsSpec

\* However many processes run the migrations at once and wherever they die, each
\* file is committed once and after all files before it.
THEOREM MigrationsInOrderCorrect == MigrationsSpec => []MigrationsInOrder
<1>1. IInv => MigrationsInOrder
  BY DEF IInv
<1>2. QED
  BY InitEstablishes, StepKeeps, <1>1, PTL DEF MigrationsSpec

\* An instance that listens has every migration applied.
THEOREM ServesMigratedCorrect == MigrationsSpec => []ServesMigrated
<1>1. IInv => ServesMigrated
  <2>1. ASSUME IInv, NEW p \in Processes, phase[p] \in Serving
        PROVE  Recorded = Files
    <3>1. Len(log) = NFiles
      BY <2>1 DEF IInv, ServesComplete
    <3>2. Recorded = 1..Len(log)
      BY <2>1, RecordedIsPrefix DEF IInv
    <3>3. QED
      BY <3>1, <3>2 DEF Files
  <2>2. QED
    BY <2>1 DEF ServesMigrated
<1>2. QED
  BY InitEstablishes, StepKeeps, <1>1, PTL DEF MigrationsSpec

=============================================================================
