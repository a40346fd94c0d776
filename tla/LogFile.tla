------------------------------ MODULE LogFile ------------------------------
(***************************************************************************)
(* The log file (server/src/log/log_sink_file.cpp and log_rotation.cpp).   *)
(* consume holds the sink's mutex from the first to the last line of the   *)
(* function, so it is one step.  A line has size 1.  Lines that are still  *)
(* in the stream's buffer are not counted by fs::file_size, so the size it *)
(* finds may be smaller than what was written.                             *)
(***************************************************************************)
EXTENDS Integers, Sequences, FiniteSets

CONSTANTS RotateLines,   \* rotateBytes, in lines; 0 turns rotation off
          MaxFiles,      \* rotated files that are kept; 0 keeps all
          FlushEachLine

ASSUME FileAssumption == RotateLines \in Nat /\ MaxFiles \in Nat /\ FlushEachLine \in BOOLEAN

VARIABLES current,   \* the lines of the current file, those in the buffer included
          rotated,   \* the rotated files, by the number of lines at their last write
          lines,     \* number of lines consumed
          stuck      \* history: the rotated files whose removal has failed

fileVars == <<current, rotated, lines, stuck>>

LineSet(f) == {f[i] : i \in DOMAIN f}

FileInit == current = <<>> /\ rotated = <<>> /\ lines = 0 /\ stuck = {}

(* The sizes fs::file_size may find. *)
SizeFound == (IF FlushEachLine THEN Len(current) ELSE 0)..Len(current)

shouldRotate(size) == RotateLines # 0 /\ size + 1 > RotateLines

(* fs::rename; when it fails, copy and remove, either of which may fail. *)
RenameOutcome == {"renamed", "copied", "failed"}

(* prune_: the files that are too many, the oldest, and what is left when  *)
(* the removal of some of them fails.  The list is made anew each time, so *)
(* those are tried again.                                                  *)
Excess(D) == {d \in D : MaxFiles # 0 /\ Cardinality({e \in D : e > d}) >= MaxFiles}
prune_(fs, failed) == [d \in (DOMAIN fs \ Excess(DOMAIN fs)) \cup failed |-> fs[d]]

(* Closing the stream writes its buffer; the file is opened again to append. *)
Moved(how) == IF how = "failed" THEN rotated
              ELSE [d \in DOMAIN rotated \cup {lines} |-> IF d = lines THEN current ELSE rotated[d]]
doRotate_(how, failed) ==
    /\ rotated' = prune_(Moved(how), failed)
    /\ stuck' = stuck \cup failed

(* Mutant: after a rotation the stream stays closed, so the line is lost. *)
consume_Closed ==
    /\ lines' = lines + 1
    /\ \E size \in SizeFound :
         \/ /\ shouldRotate(size)
            /\ \E how \in RenameOutcome :
                 /\ \E failed \in SUBSET Excess(DOMAIN Moved(how)) : doRotate_(how, failed)
                 /\ current' = IF how = "renamed" THEN <<>> ELSE current
         \/ ~shouldRotate(size) /\ current' = Append(current, lines') /\ UNCHANGED <<rotated, stuck>>
consume ==
    /\ lines' = lines + 1
    /\ \E size \in SizeFound :
         \/ /\ shouldRotate(size)
            /\ \E how \in RenameOutcome :
                 /\ \E failed \in SUBSET Excess(DOMAIN Moved(how)) : doRotate_(how, failed)
                 /\ current' = Append(IF how = "renamed" THEN <<>> ELSE current, lines')
         \/ ~shouldRotate(size) /\ current' = Append(current, lines') /\ UNCHANGED <<rotated, stuck>>
=============================================================================
