--------------------------- MODULE TaskLogBuffer ---------------------------
(***************************************************************************)
(* The in-memory logs of tasks (server/src/log/task_log_buffer.cpp): one   *)
(* bounded queue per task and run, numbered from 1, trimmed at the front   *)
(* and dropped when nothing was appended for a long time.  Every operation *)
(* holds LogManager's mutex, so it is one step.                            *)
(***************************************************************************)
EXTENDS Integers, Sequences, FiniteSets

CONSTANTS Key,          \* <<task id, run id>>
          NoBuf,        \* no entry for a key
          PerTaskMax,   \* _perTaskMaxRecords
          PruneInterval \* _pruneInterval

Record == [id : Nat, seq : Nat \ {0}]
Buffer == [q : Seq(Record), nextSeq : Nat \ {0}, old : BOOLEAN]

ASSUME BufferAssumption == /\ PerTaskMax \in Nat \ {0} /\ PruneInterval \in Nat \ {0}
                           /\ NoBuf \notin Buffer

VARIABLES bufs,         \* bufs[k] = NoBuf or [q, nextSeq, old]
          emits         \* _emitCounter

bufferVars == <<bufs, emits>>

BufferInit == bufs = [k \in Key |-> NoBuf] /\ emits = 0

getOrCreate_(k) == IF bufs[k] = NoBuf THEN [q |-> <<>>, nextSeq |-> 1, old |-> FALSE]
                   ELSE [bufs[k] EXCEPT !.old = FALSE]

(* The oldest records go once there are more than _perTaskMaxRecords. *)
trim(q) == IF Len(q) > PerTaskMax THEN SubSeq(q, Len(q) - PerTaskMax + 1, Len(q)) ELSE q

(* The record rec as append returns it, with its number. *)
append(k, rec) ==
    LET b == getOrCreate_(k)
    IN  /\ bufs' = [bufs EXCEPT ![k] =
               [b EXCEPT !.q = trim(Append(@, [id |-> rec, seq |-> b.nextSeq])), !.nextSeq = @ + 1]]
        /\ emits' = emits + 1

shouldPrune == emits' % PruneInterval = 0

(* The indices of the first limit records with number from or higher. *)
Wanted(q, from, limit) ==
    LET hits == {i \in DOMAIN q : q[i].seq >= from}
    IN  {i \in hits : Cardinality({j \in hits : j < i}) < limit}

(* Mutant: the next page starts behind the newest record, not behind the last one returned. *)
get_Newest(k, from, limit) ==
    LET q    == IF bufs[k] = NoBuf THEN <<>> ELSE bufs[k].q
        want == Wanted(q, from, limit)
    IN  [records |-> {q[i] : i \in want}, nextFrom |-> IF want = {} THEN from ELSE bufs[k].nextSeq]
(* What a query from number from on returns, and where the next one starts. *)
get(k, from, limit) ==
    LET q    == IF bufs[k] = NoBuf THEN <<>> ELSE bufs[k].q
        want == Wanted(q, from, limit)
        last == CHOOSE i \in want : \A j \in want : j <= i
    IN  [records  |-> {q[i] : i \in want},
         nextFrom |-> IF want = {} THEN from ELSE q[last].seq + 1]

(* A reading of the clock finds that nobody has appended for maxAge. *)
Age(k) == /\ bufs[k] # NoBuf /\ ~bufs[k].old
          /\ bufs' = [bufs EXCEPT ![k].old = TRUE] /\ UNCHANGED emits

pruneOlderThan == bufs' = [k \in Key |-> IF bufs[k] # NoBuf /\ bufs[k].old THEN NoBuf ELSE bufs[k]]
=============================================================================
