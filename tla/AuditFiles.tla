----------------------------- MODULE AuditFiles -----------------------------
(***************************************************************************)
(* AuditLogger: the log, its rotated files .1, .2, ... and the renaming of *)
(* one after the other when the log is full, any of which may fail, and    *)
(* between any two of which the program may end.                           *)
(*                                                                         *)
(* A file is known by its generation, the entries written between two      *)
(* rotations; sizes and lines are left out.                                *)
(***************************************************************************)
EXTENDS Naturals

CONSTANTS MaxRotated,      \* MAX_ROTATED_FILES
          MaxGenerations   \* bound: logs begun

ASSUME AuditAssumption == MaxRotated \in Nat \ {0} /\ MaxGenerations \in Nat \ {0}

VARIABLES
  file,      \* generation in each file, 0 is the log itself; 0 for no file
  writer,    \* the file the writer writes to
  born,      \* generations begun
  full,      \* the log has reached MAX_LOG_SIZE
  rotating   \* next index to rename, 0 for the log, or Reopening, Idle

auditVars == <<file, writer, born, full, rotating>>

Reopening == MaxRotated
Idle == MaxRotated + 1

AuditInit ==
  /\ file = [i \in 0..MaxRotated |-> IF i = 0 THEN 1 ELSE 0]
  /\ writer = 0 /\ born = 1 /\ full = FALSE /\ rotating = Idle

(* log_entry, log_result: one more line; what matters is the line that     *)
(* makes the log full.                                                     *)
WriteLine ==
  /\ rotating = Idle /\ writer = 0 /\ ~full
  /\ full' = TRUE
  /\ UNCHANGED <<file, writer, born, rotating>>

(* rotate_if_needed: nothing if there is no log file. *)
BeginRotation ==
  /\ rotating = Idle /\ full /\ file[0] # 0 /\ born < MaxGenerations
  /\ rotating' = MaxRotated - 1
  /\ UNCHANGED <<file, writer, born, full>>

Rename(from, to) == file' = [file EXCEPT ![to] = file[from], ![from] = 0]

(* Mutant: the loop is off by one: .0 to .1, .1 to .2. *)
ShiftUp ==
  /\ rotating \in 1..MaxRotated - 1
  /\ Rename(rotating - 1, rotating)
  /\ rotating' = rotating - 1
  /\ UNCHANGED <<writer, born, full>>

(* Step of the loop. *)
Shift ==
  /\ rotating \in 1..MaxRotated - 1
  /\ IF file[rotating] = 0 THEN UNCHANGED file ELSE Rename(rotating, rotating + 1)
  /\ rotating' = rotating - 1
  /\ UNCHANGED <<writer, born, full>>

(* The log becomes .1; the writer goes with it until the log is reopened.  *)
ShiftLog ==
  /\ rotating = 0
  /\ Rename(0, 1) /\ writer' = 1
  /\ rotating' = Reopening
  /\ UNCHANGED <<born, full>>

NewLog == /\ file' = [file EXCEPT ![0] = born + 1] /\ born' = born + 1
          /\ writer' = 0 /\ full' = FALSE

Reopen ==
  /\ rotating = Reopening
  /\ NewLog
  /\ rotating' = Idle

(* A rename or the reopening fails, and rotate_if_needed returns.          *)
RotationFails ==
  /\ rotating # Idle
  /\ rotating' = Idle
  /\ UNCHANGED <<file, writer, born, full>>

(* The program ends at any point and is started again: AuditLogger::new.   *)
StartAgain ==
  /\ rotating' = Idle
  /\ IF file[0] = 0 THEN born < MaxGenerations /\ NewLog
                    ELSE writer' = 0 /\ UNCHANGED <<file, born, full>>

AuditNext == WriteLine \/ BeginRotation \/ Shift \/ ShiftLog \/ Reopen
             \/ RotationFails \/ StartAgain

AuditSpec == AuditInit /\ [][AuditNext]_auditVars

-----------------------------------------------------------------------------
(* Wherever a rotation is broken off and begun again, the files are in     *)
(* order, what the writer writes to is on disk, and what is lost is older  *)
(* than all that is left (rotate_if_needed).                               *)
OnlyOldestIsLost ==
  LET present == {i \in DOMAIN file : file[i] # 0}
      lost == (1..born) \ {file[i] : i \in present}
  IN /\ file[writer] = born
     /\ \A i, j \in present : i < j => file[i] > file[j]
     /\ \A g \in lost, i \in present : g < file[i]
=============================================================================
