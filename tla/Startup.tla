------------------------------- MODULE Startup -------------------------------
(***************************************************************************)
(* What importing app.py does before it serves: create the database file   *)
(* and its tables when there is no file, copy the file to the backup        *)
(* directory, delete all but the newest backups.  Several processes do it   *)
(* at once (the workers of a server, the two processes of debug=True), and  *)
(* any of them may be killed.                                              *)
(*                                                                         *)
(* Outside a transaction each CREATE TABLE is committed by itself.  A       *)
(* backup is named after the second in which it was taken.                 *)
(***************************************************************************)
EXTENDS Naturals, FiniteSets, FiniteSetsExt

CONSTANTS
    Proc,         \* processes
    Tables,       \* how many tables init_all_databases creates
    MaxBackups,   \* the argument of cleanup_old_backups
    MaxTime,      \* bound on the clock, in seconds
    MaxStarts     \* bound on starts

ASSUME NumbersAssumption == {Tables, MaxBackups, MaxTime, MaxStarts} \subseteq Nat \ {0}

VARIABLES
    file,         \* does DB_PATH exist?
    tables,       \* the tables in it
    backups,      \* name -> the tables in that backup; NoBackup, or Partial
    now,          \* the clock
    proc,         \* the processes
    starts,       \* how many starts there were
    made,         \* history: the names of all backups ever begun
    interrupted   \* history: was a process killed while it created tables?

vars == <<file, tables, backups, now, proc, starts, made, interrupted>>

AllTables == 1 .. Tables
Seconds   == 1 .. MaxTime

NoBackup == {0}
Partial  == {0, 1}      \* opened for writing, not copied yet

Kept == {t \in Seconds : backups[t] # NoBackup}

\* "raced" is history: has another process removed a backup since this one
\* looked at the directory?
Off == [pc |-> "off", next |-> 1, name |-> 0, list |-> {}, raced |-> FALSE]

Init ==
    /\ file = FALSE /\ tables = {}
    /\ backups = [t \in Seconds |-> NoBackup]
    /\ now = 1 /\ starts = 0 /\ made = {} /\ interrupted = FALSE
    /\ proc = [p \in Proc |-> Off]

At(p, pc) == proc[p].pc = pc
Go(p, pc) == proc' = [proc EXCEPT ![p].pc = pc]

-----------------------------------------------------------------------------

Start(p) ==
    /\ proc[p].pc \in {"off", "died"} /\ starts < MaxStarts
    /\ proc' = [proc EXCEPT ![p] = [Off EXCEPT !.pc = "exists"]]
    /\ starts' = starts + 1
    /\ UNCHANGED <<file, tables, backups, now, made, interrupted>>

\* os.path.exists(DB_PATH)
Exists(p) ==
    /\ At(p, "exists")
    /\ Go(p, IF file THEN "copy" ELSE "connect")
    /\ UNCHANGED <<file, tables, backups, now, starts, made, interrupted>>

\* Mutant of Connect: the file is left to the first write.
ConnectLazily(p) ==
    /\ At(p, "connect")
    /\ Go(p, "create")
    /\ UNCHANGED <<file, tables, backups, now, starts, made, interrupted>>

\* sqlite3.connect creates an empty file.
Connect(p) ==
    /\ At(p, "connect")
    /\ file' = TRUE
    /\ Go(p, "create")
    /\ UNCHANGED <<tables, backups, now, starts, made, interrupted>>

\* Mutant of CreateTable: the last table is forgotten.
CreateAllButOne(p) ==
    /\ At(p, "create")
    /\ tables' = tables \cup ({proc[p].next} \ {Tables})
    /\ proc' = [proc EXCEPT ![p].next = @ + 1, ![p].pc = IF proc[p].next = Tables THEN "copy" ELSE @]
    /\ UNCHANGED <<file, backups, now, starts, made, interrupted>>

\* CREATE TABLE IF NOT EXISTS
CreateTable(p) ==
    /\ At(p, "create")
    /\ tables' = tables \cup {proc[p].next}
    /\ proc' = [proc EXCEPT ![p].next = @ + 1, ![p].pc = IF proc[p].next = Tables THEN "copy" ELSE @]
    /\ UNCHANGED <<file, backups, now, starts, made, interrupted>>

\* backup_database: a copy of the same second is overwritten ...
CopyBegin(p) ==
    /\ At(p, "copy")
    /\ backups' = [backups EXCEPT ![now] = Partial]
    /\ made' = made \cup {now}
    /\ proc' = [proc EXCEPT ![p].pc = "copying", ![p].name = now]
    /\ UNCHANGED <<file, tables, now, starts, interrupted>>

\* ... and shutil.copy2 fails at the attributes of a file that is gone.
CopyEnd(p) ==
    LET name == proc[p].name IN
    /\ At(p, "copying")
    /\ IF name \in Kept
       THEN backups' = [backups EXCEPT ![name] = tables] /\ Go(p, "list")
       ELSE Go(p, "died") /\ UNCHANGED backups
    /\ UNCHANGED <<file, tables, now, starts, made, interrupted>>

\* cleanup_old_backups: the directory is listed once, ...
List(p) ==
    /\ At(p, "list")
    /\ proc' = [proc EXCEPT ![p].pc = "cleanup", ![p].list = Kept, ![p].raced = FALSE]
    /\ UNCHANGED <<file, tables, backups, now, starts, made, interrupted>>

Removed(p, name) ==
    /\ backups' = [backups EXCEPT ![name] = NoBackup]
    /\ UNCHANGED <<file, tables, now, starts, made, interrupted>>

Race(p, rest) ==
    [q \in Proc |-> IF q = p THEN [proc[p] EXCEPT !.list = rest] ELSE [proc[q] EXCEPT !.raced = TRUE]]

Remove(p, name, rest) ==
    /\ At(p, "cleanup") /\ Cardinality(proc[p].list) > MaxBackups
    /\ IF name \in Kept
       THEN Removed(p, name) /\ proc' = Race(p, rest)
       ELSE Go(p, "died") /\ UNCHANGED <<file, tables, backups, now, starts, made, interrupted>>

\* Mutant of RemoveOldest: the list is sorted the other way round.
RemoveNewest(p) ==
    LET name == Max(proc[p].list) IN Remove(p, name, proc[p].list \ {name})

\* Mutant of RemoveOldest: the list keeps the name.
RemoveUnpopped(p) ==
    LET name == Min(proc[p].list) IN Remove(p, name, proc[p].list)

\* ... the oldest goes first, and os.remove fails for one that is gone.
RemoveOldest(p) ==
    LET name == Min(proc[p].list) IN Remove(p, name, proc[p].list \ {name})

Serve(p) ==
    /\ At(p, "cleanup") /\ Cardinality(proc[p].list) <= MaxBackups
    /\ proc' = [proc EXCEPT ![p] = [Off EXCEPT !.pc = "serving"]]
    /\ UNCHANGED <<file, tables, backups, now, starts, made, interrupted>>

-----------------------------------------------------------------------------

Kill(p) ==
    /\ proc[p].pc \notin {"off", "died"}
    /\ proc' = [proc EXCEPT ![p] = Off]
    /\ interrupted' = (interrupted \/ At(p, "create"))
    /\ UNCHANGED <<file, tables, backups, now, starts, made>>

Tick ==
    /\ now < MaxTime
    /\ now' = now + 1
    /\ UNCHANGED <<file, tables, backups, proc, starts, made, interrupted>>

Step(p) ==
    \/ Exists(p) \/ Connect(p) \/ CreateTable(p)
    \/ CopyBegin(p) \/ CopyEnd(p) \/ List(p) \/ RemoveOldest(p) \/ Serve(p)

Next ==
    \/ \E p \in Proc : Start(p) \/ Step(p) \/ Kill(p)
    \/ Tick

\* A process that is not killed goes on.
Spec == Init /\ [][Next]_vars /\ \A p \in Proc : WF_vars(Step(p))

-----------------------------------------------------------------------------

(* Types; a backup that is there was begun by somebody, at a time that has *)
(* passed, and there are no tables without a file.                         *)
TypeOK ==
    /\ file \in BOOLEAN /\ interrupted \in BOOLEAN
    /\ tables \subseteq AllTables /\ (tables # {} => file)
    /\ backups \in [Seconds -> {NoBackup, Partial} \cup (SUBSET AllTables)]
    /\ Kept \subseteq made /\ made \subseteq 1 .. now
    /\ now \in Seconds /\ starts \in 0 .. MaxStarts
    /\ proc \in [Proc -> [pc : {"off", "exists", "connect", "create", "copy", "copying", "list",
                                "cleanup", "serving", "died"},
                          next : 1 .. Tables + 1, name : 0 .. MaxTime,
                          list : SUBSET made, raced : BOOLEAN]]

(* "Keep only the last N backups" (app.py:114): however the clean-ups of     *)
(* several processes and their lists of the directory interleave, none of   *)
(* the N newest backups is ever removed.                                   *)
LastBackupsKept ==
    \A t \in made : Cardinality({u \in made : u > t}) < MaxBackups => t \in Kept

(* A start fails (os.remove, shutil.copy2) only when another process removed *)
(* a backup meanwhile: a process that starts alone gets to serve.           *)
FailsOnlyByRace == \A p \in Proc : At(p, "died") => proc[p].raced

(* A process serves a database that lacks tables (app.py:278 looks only for  *)
(* the file) no longer than until the process that creates them is done,    *)
(* unless that one was killed.                                             *)
TablesMissingOnlyDuringInit ==
    (\E p \in Proc : At(p, "serving")) /\ tables # AllTables =>
      interrupted \/ \E p \in Proc : At(p, "create")

(* Once the file is there its tables get complete, if nobody creating them   *)
(* is killed, and a start comes to an end.                                  *)
InitCompletes ==
    /\ file ~> (tables = AllTables \/ interrupted)
    /\ \A p \in Proc : At(p, "exists") ~> proc[p].pc \in {"serving", "died", "off"}

-----------------------------------------------------------------------------
(* The inductive invariant.                                                *)

\* How far the creation of the tables has got.
Creating(p) ==
    /\ proc[p].pc \in {"exists", "connect"} => proc[p].next = 1
    /\ At(p, "create") => /\ file /\ proc[p].next \in AllTables
                          /\ 1 .. proc[p].next - 1 \subseteq tables
    /\ proc[p].pc \in {"copy", "copying", "list", "cleanup", "serving"} => file

Created == file /\ tables # AllTables => interrupted \/ \E p \in Proc : At(p, "create")

\* What a process may rely on as long as nobody else removed a backup.
Undisturbed(p) ==
    ~proc[p].raced =>
        /\ At(p, "copying") => proc[p].name \in Kept
        /\ At(p, "cleanup") => proc[p].list \subseteq Kept
        /\ ~At(p, "died")

(* Tables are created in order by whoever found no file, the newest backups *)
(* are there, and what an undisturbed process saw of them still holds.     *)
StartupInv ==
    /\ TypeOK /\ LastBackupsKept /\ Created
    /\ \A p \in Proc : Creating(p) /\ Undisturbed(p)
=============================================================================
