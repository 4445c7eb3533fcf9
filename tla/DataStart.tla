------------------------------ MODULE DataStart ------------------------------
(***************************************************************************)
(* What happens to the data directory when the server starts (backups.py,  *)
(* migrate.py).  A restore is staged while the server runs and applied at  *)
(* the next start: the current files are copied aside, the staged ones put *)
(* in their place one by one, the staging folder is removed and then the   *)
(* marker.  After it come the migration steps that the files still need,   *)
(* after a copy of their own: each is carried out and then recorded in the *)
(* database.  The process can die between any two of these writes, and     *)
(* the next start begins again from what is on the disk.                   *)
(***************************************************************************)
EXTENDS Naturals, Sequences, SequencesExt, FiniteSets

CONSTANTS
    Keep,          \* copies of migrate.py that are kept (five in the code)
    MaxWork,       \* changes made while the server runs
    MaxBackups,    \* backups taken while the server runs
    MaxStages,     \* restores staged
    MaxFaults      \* deaths of the process (a migration step that raises is one)
                   \* and copies that a full disk stops

ASSUME BoundsAssumption ==
    /\ Keep \in Nat \ {0}
    /\ MaxWork \in Nat /\ MaxBackups \in Nat /\ MaxStages \in Nat
    /\ MaxFaults \in Nat

(* A file of a folder, the database and the roster, in the order in which a *)
(* restore puts them back.                                                  *)
Files == <<"avatars", "chats", "config">>
FileSet == ToSet(Files)

(* Both kinds of copy hold the database and the roster, and no folder.      *)
Copied == <<"chats", "config">>

(* 006_connections makes a connection in the database for a character of    *)
(* the roster and then links the character to it; 009_ownership gives each  *)
(* chat an owner.                                                           *)
Steps == <<"connections", "ownership">>
StepSet == ToSet(Steps)
Edits(step) == IF step = "connections" THEN <<"chats", "config">> ELSE <<"chats">>

VARIABLES
    data,      \* data[f]: what file f holds
    wal,       \* the database has commits only its -wal file holds
    dirs,      \* the copies made at a start, oldest first
    taken,     \* archives and snapshots
    marker,    \* .restore-pending.json exists
    laid,      \* the staging folder exists
    staging,   \* the staged files that are left: a function from their names
    phase,     \* where the process is
    todo,      \* the files the phase has yet to deal with
    steps,     \* the migration steps of this start yet to be recorded
    need,      \* and those of them the plan found something to do for
    goal,      \* what the restore under way is to bring
    before,    \* the files as the last session left them
    touched,   \* a start since then has changed a file
    served,    \* the server has run since then
    made,      \* copies begun since then
    begun,     \* the staged restore has changed a file
    gaveUp,    \* a restore that had begun was put off for a full disk
    parted,    \* a restore has brought a database without its roster
    works, backed, stages, faults

disk == <<data, wal, dirs, taken>>
restore == <<marker, laid, staging, goal>>
start == <<phase, todo, steps, need>>
past == <<before, touched, served, made, begun, gaveUp, parted>>
budget == <<works, backed, stages, faults>>
vars == <<disk, restore, start, past, budget>>

----------------------------------------------------------------------------
(* A file: its edition, the migration steps carried out in it, and, in the  *)
(* database, those recorded and the connections the migration has made.     *)
Content == [edition : Nat, steps : SUBSET StepSet, done : SUBSET StepSet, conns : Nat]
Data == [FileSet -> Content]
Old == [edition |-> 0, steps |-> {}, done |-> {}, conns |-> 0]

NoFiles == [f \in {} |-> Old]
Part(content, names) == [f \in names |-> content[f]]
With(content, f) == [name \in DOMAIN content \cup {f} |->
                        IF name = f THEN data[f] ELSE content[name]]
Names(content) == DOMAIN content
IsCopy(files) == Names(files) \subseteq FileSet /\ files \in [Names(files) -> Content]

(* A database that has lost the commits of its -wal file.                   *)
Torn == [edition |-> MaxWork + 1, steps |-> {}, done |-> {}, conns |-> 0]

(* plan: a step that is not recorded and that the files lack.               *)
Lacks(step) == step \notin data[Last(Edits(step))].steps
Planned == {step \in StepSet \ data["chats"].done : Lacks(step)}

(* backup: the newest are kept, whatever made them.                         *)
Newest(ds) == IF Len(ds) > Keep THEN SubSeq(ds, Len(ds) - Keep + 1, Len(ds)) ELSE ds

Init ==
    /\ data = [f \in FileSet |-> Old]
    /\ wal = FALSE
    /\ dirs = <<>> /\ taken = {}
    /\ marker = FALSE /\ laid = FALSE /\ staging = NoFiles /\ goal = NoFiles
    /\ phase = "down" /\ todo = <<>> /\ steps = <<>> /\ need = {}
    /\ before = data
    /\ touched = FALSE /\ served = TRUE /\ made = 0
    /\ begun = FALSE /\ gaveUp = FALSE /\ parted = FALSE
    /\ works = 0 /\ backed = 0 /\ stages = 0 /\ faults = 0

----------------------------------------------------------------------------
(* While the server runs.                                                  *)

(* Somebody changes something.                                              *)
Work(f) ==
    /\ phase = "running"
    /\ works < MaxWork
    /\ works' = works + 1
    /\ data' = [data EXCEPT ![f].edition = works + 1]
    /\ wal' = (wal \/ f = "chats")
    /\ UNCHANGED <<dirs, taken, restore, start, past, backed, stages, faults>>

(* An archive of everything, or a snapshot of the database.                 *)
TakeBackup(names) ==
    /\ phase = "running"
    /\ backed < MaxBackups
    /\ backed' = backed + 1
    /\ taken' = taken \cup {Part(data, names)}
    /\ UNCHANGED <<data, wal, dirs, restore, start, past, works, stages, faults>>

(* stage_restore: the files are laid out and the marker is written last.    *)
Stage(files) ==
    /\ phase = "running"
    /\ stages < MaxStages
    /\ stages' = stages + 1
    /\ marker' = TRUE
    /\ laid' = TRUE
    /\ staging' = files
    /\ goal' = files
    /\ begun' = FALSE
    /\ UNCHANGED <<disk, start, before, touched, served, made, gaveUp, parted, works,
                   backed, faults>>

(* cancel_pending.                                                          *)
Cancel ==
    /\ phase = "running"
    /\ marker
    /\ marker' = FALSE
    /\ laid' = FALSE
    /\ staging' = NoFiles
    /\ goal' = NoFiles
    /\ begun' = FALSE
    /\ UNCHANGED <<disk, start, before, touched, served, made, gaveUp, parted,
                   budget>>

(* The server stops as it should; the database is closed.                   *)
Stop ==
    /\ phase = "running"
    /\ phase' = "down"
    /\ wal' = FALSE
    /\ UNCHANGED <<data, dirs, taken, restore, todo, steps, need, past, budget>>

(* The process dies, or a step of a start raises and aborts it.             *)
Crash ==
    /\ phase # "down"
    /\ faults < MaxFaults
    /\ faults' = faults + 1
    /\ phase' = "down" /\ todo' = <<>> /\ steps' = <<>> /\ need' = {}
    /\ UNCHANGED <<disk, restore, past, works, backed, stages>>

----------------------------------------------------------------------------
(* A start.                                                                *)

(* A staged restore can be applied while its folder is there.               *)
Applicable == marker /\ laid

Opened(next) ==
    /\ phase' = next
    /\ dirs' = Append(dirs, NoFiles)
    /\ made' = made + 1
    /\ todo' = Copied

(* apply_pending_restore, or on to the migration.                           *)
Start ==
    /\ phase = "down"
    /\ before' = IF served THEN data ELSE before
    /\ touched' = (touched /\ ~served)
    /\ served' = FALSE
    /\ IF Applicable
       THEN /\ phase' = "saving"
            /\ dirs' = Append(dirs, NoFiles)
            /\ made' = IF served THEN 1 ELSE made + 1
            /\ todo' = Copied
       ELSE /\ phase' = "planning"
            /\ made' = IF served THEN 0 ELSE made
            /\ UNCHANGED <<dirs, todo>>
    /\ UNCHANGED <<data, wal, taken, restore, steps, need, begun, gaveUp, parted, budget>>

(* The next file is copied aside.                                           *)
CopyAside ==
    /\ phase \in {"saving", "backing up"}
    /\ todo # <<>>
    /\ dirs' = [dirs EXCEPT ![Len(dirs)] = With(@, Head(todo))]
    /\ todo' = Tail(todo)
    /\ UNCHANGED <<data, wal, taken, restore, phase, steps, need, past, budget>>

(* The disk is full.  A restore is put off, a migration aborts the start.   *)
AfterFullSuppressed == IF phase = "saving" THEN "saving" ELSE "down"
AfterFull == IF phase = "saving" THEN "planning" ELSE "down"

CopyFails ==
    /\ phase \in {"saving", "backing up"}
    /\ todo # <<>>
    /\ faults < MaxFaults
    /\ faults' = faults + 1
    /\ phase' = AfterFull
    /\ todo' = <<>> /\ steps' = <<>> /\ need' = {}
    /\ gaveUp' = (gaveUp \/ (phase = "saving" /\ begun))
    /\ UNCHANGED <<disk, restore, before, touched, served, made, begun, parted, works,
                   backed, stages>>

(* The staged files that are there are put in their places.                 *)
IfStaged(f) == IF f \in Names(staging) THEN <<f>> ELSE <<>>
NoFolders == IfStaged("chats") \o IfStaged("config")
ToPut == IfStaged("avatars") \o NoFolders

Apply ==
    /\ phase = "saving"
    /\ todo = <<>>
    /\ phase' = "applying"
    /\ todo' = ToPut
    /\ UNCHANGED <<disk, restore, steps, need, past, budget>>

(* The -wal file of the database goes first.                                *)
DropWal ==
    /\ phase = "applying"
    /\ todo # <<>> /\ Head(todo) = "chats"
    /\ wal
    /\ wal' = FALSE
    /\ data' = [data EXCEPT !["chats"] = Torn]
    /\ touched' = TRUE
    /\ begun' = TRUE
    /\ UNCHANGED <<dirs, taken, restore, start, before, served, made, gaveUp, parted, budget>>

(* A database and its roster: no character is linked to a connection that   *)
(* the database lacks.                                                      *)
Belong(files) ==
    /\ "config" \in Names(files)
    /\ files["config"].steps \subseteq files["chats"].steps

Put ==
    /\ phase = "applying"
    /\ todo # <<>>
    /\ Head(todo) = "chats" => ~wal
    /\ data' = [data EXCEPT ![Head(todo)] = staging[Head(todo)]]
    /\ todo' = Tail(todo)
    /\ touched' = TRUE
    /\ begun' = TRUE
    /\ parted' = (parted \/ (Head(todo) = "chats" /\ ~Belong(goal)))
    /\ UNCHANGED <<wal, dirs, taken, restore, phase, steps, need, before, served, made,
                   gaveUp, budget>>

(* rmtree, file by file and then the folder.                                *)
Clear ==
    /\ phase = "applying"
    /\ todo = <<>>
    /\ laid
    /\ IF staging = NoFiles
       THEN laid' = FALSE /\ UNCHANGED staging
       ELSE /\ \E f \in Names(staging) : staging' = Part(staging, Names(staging) \ {f})
            /\ UNCHANGED laid
    /\ UNCHANGED <<disk, marker, goal, start, past, budget>>

(* The marker goes last, and the restore is over.                           *)
Unmark ==
    /\ phase = "applying"
    /\ ~laid
    /\ marker' = FALSE
    /\ phase' = "planning"
    /\ goal' = NoFiles
    /\ begun' = FALSE
    /\ UNCHANGED <<disk, laid, staging, todo, steps, need, before, touched, served, made,
                   gaveUp, parted, budget>>

(* What the files still need, and a copy first if they need anything.       *)
Plan ==
    /\ phase = "planning"
    /\ need' = Planned
    /\ steps' = Steps
    /\ IF Planned # {}
       THEN Opened("backing up")
       ELSE /\ phase' = "migrating"
            /\ todo' = <<>>
            /\ UNCHANGED <<dirs, made>>
    /\ UNCHANGED <<data, wal, taken, restore, before, touched, served, begun, gaveUp,
                   parted, budget>>

(* The files the first of the steps has to edit.                            *)
Edited(left) == IF left # <<>> /\ Head(left) \in need THEN Edits(Head(left)) ELSE <<>>

BackedUp ==
    /\ phase = "backing up"
    /\ todo = <<>>
    /\ phase' = "migrating"
    /\ dirs' = Newest(dirs)
    /\ todo' = Edited(steps)
    /\ UNCHANGED <<data, wal, taken, restore, steps, need, past, budget>>

(* A step edits the next of its files.                                      *)
Edit ==
    /\ phase = "migrating"
    /\ todo # <<>>
    /\ LET f == Head(todo)
           step == Head(steps)
           linked == f = "chats" /\ step = "connections"
       IN  data' = [data EXCEPT ![f].steps = @ \cup {step},
                                ![f].conns = IF linked THEN @ + 1 ELSE @]
    /\ wal' = (wal \/ Head(todo) = "chats")
    /\ todo' = Tail(todo)
    /\ touched' = TRUE
    /\ UNCHANGED <<dirs, taken, restore, phase, steps, need, before, served, made, begun,
                   gaveUp, parted, budget>>

(* _record: the step is done with.                                          *)
Unfinished == phase = "migrating"
Through == todo = <<>>

Record ==
    /\ phase = "migrating"
    /\ steps # <<>>
    /\ Through
    /\ data' = [data EXCEPT !["chats"].done = @ \cup {Head(steps)}]
    /\ wal' = TRUE
    /\ steps' = Tail(steps)
    /\ todo' = Edited(Tail(steps))
    /\ UNCHANGED <<dirs, taken, restore, phase, need, past, budget>>

(* The server runs.                                                         *)
Serve ==
    /\ phase = "migrating"
    /\ steps = <<>>
    /\ phase' = "running"
    /\ served' = TRUE
    /\ UNCHANGED <<disk, restore, todo, steps, need, before, touched, made, begun, gaveUp,
                   parted, budget>>

----------------------------------------------------------------------------
Next ==
    \/ \E f \in FileSet : Work(f)
    \/ \E names \in {FileSet, {"chats"}} : TakeBackup(names)
    \/ \E files \in taken \cup ToSet(dirs) : Stage(files)
    \/ Cancel
    \/ Stop
    \/ Crash
    \/ Start
    \/ CopyAside \/ CopyFails
    \/ Apply \/ DropWal \/ Put \/ Clear \/ Unmark
    \/ Plan \/ BackedUp \/ Edit \/ Record
    \/ Serve

Spec == Init /\ [][Next]_vars

----------------------------------------------------------------------------
Phases == {"running", "down", "saving", "applying", "planning", "backing up", "migrating"}

TypeOK ==
    /\ data \in Data /\ before \in Data
    /\ dirs \in Seq(ToSet(dirs))
    /\ \A files \in ToSet(dirs) \cup taken \cup {staging, goal} : IsCopy(files)
    /\ phase \in Phases
    /\ todo \in Seq(FileSet) /\ steps \in Seq(StepSet) /\ need \subseteq StepSet
    /\ wal \in BOOLEAN /\ marker \in BOOLEAN /\ laid \in BOOLEAN
    /\ touched \in BOOLEAN /\ served \in BOOLEAN /\ begun \in BOOLEAN
    /\ gaveUp \in BOOLEAN /\ parted \in BOOLEAN
    /\ made \in Nat /\ works \in 0 .. MaxWork /\ backed \in 0 .. MaxBackups
    /\ stages \in 0 .. MaxStages /\ faults \in 0 .. MaxFaults

(* A restore is over only when every file it was to bring is in its place,  *)
(* however often it was broken off and begun again.  Excepted is one that   *)
(* was put off for a full disk after it had begun: the migration, and the   *)
(* server, then ran on half of its files.                                   *)
RestoredWhole ==
    [][phase = "applying" /\ phase' = "planning" =>
         gaveUp \/ \A f \in Names(goal) : data[f] = goal[f]]_vars

(* Once a start has changed a file, a copy of the database and the roster   *)
(* as the last session left them is there, whatever the starts since have   *)
(* copied, changed and thrown away.  Excepted are more starts in a row than *)
(* copies are kept.                                                         *)
HeldBy(files) == \A f \in {"chats", "config"} : f \in Names(files) /\ files[f] = before[f]
WayBack == touched /\ made <= Keep => \E files \in ToSet(dirs) : HeldBy(files)

(* When the server runs, a step on record has been carried out in every     *)
(* file it is about: no death between a step and its record, and no restore *)
(* of an older state, leaves one skipped.  Excepted are a database brought  *)
(* back without the roster it belongs with (a snapshot, or the copy of a    *)
(* half-restored state) and a restore that was put off half-way.            *)
RecordedIsDone ==
    phase = "running" /\ ~parted /\ ~gaveUp =>
        \A step \in data["chats"].done :
            \A f \in ToSet(Edits(step)) : step \in data[f].steps

(* The files are what they should be, or a copy of them is there.           *)
FilesAccounted == TypeOK /\ WayBack

(* "Before the first applied step" there is a copy and "the newest five are *)
(* kept" (migrate.py): better a refusal with a backup in place than a       *)
(* half-migrated install (main.py).  A start that fails time and again      *)
(* makes a copy each time, and the copies of its half-migrated files push   *)
(* the one copy of the files before it out.                                 *)
AlwaysAWayBack == touched => \E files \in ToSet(dirs) : HeldBy(files)

(* "Nothing is overwritten" when a restore is put off (backups.py).  A      *)
(* start before may have been broken off half-way.                          *)
PutOffIsUntouched == phase = "running" /\ Applicable => ~begun

(* "The current state is copied" before a restore (docs/backups.md): of a   *)
(* folder that is replaced there is no copy.                                *)
NothingReplacedUnsaved ==
    touched /\ begun => \A f \in Names(goal) :
        data[f] # before[f] => \E files \in ToSet(dirs) : f \in Names(files)

(* "Idempotent" (connections.py adopt_inline, migrate.py): a step repeated  *)
(* after a death makes no second connection.                                *)
OneConnection == data["chats"].conns <= 1
=============================================================================
