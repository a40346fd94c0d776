-------------------------- MODULE LogStreamProofs --------------------------
(***************************************************************************)
(* What TLC checks of the log stream on a small instance, for any number   *)
(* of threads, sessions, keys and records.  The four properties are about  *)
(* nearly disjoint parts of the state: the file, the buffer that is paged  *)
(* through, the hub with its walk over the sessions, and the texts on      *)
(* their way to a client.  Each has an invariant of its own; the last one  *)
(* uses that of the hub.                                                   *)
(***************************************************************************)
EXTENDS LogStream, FiniteSetTheorems, SequenceTheorems, WellFoundedInduction, TLAPS

-----------------------------------------------------------------------------
(***************************************************************************)
(* The file.  Each file that could always be removed, with those that were *)
(* written after it, holds every line from its first one on.               *)
(***************************************************************************)
Later(fs, i, x) == \E j \in DOMAIN fs : i <= j /\ x \in LineSet(fs[j])

Newest(fs, cur, n, S) ==
    /\ n \in Nat /\ cur \in Seq(Nat)
    /\ IsFiniteSet(DOMAIN fs)
    /\ \A d \in DOMAIN fs : d \in Nat /\ fs[d] \in Seq(Nat)
    /\ \A l \in LineSet(cur), x \in 1..n : l <= x => x \in LineSet(cur)
    /\ \A i \in DOMAIN fs \ S : \A l \in LineSet(fs[i]), x \in 1..n :
          l <= x => x \in LineSet(cur) \/ Later(fs, i, x)

FileInv == Newest(rotated, current, lines, stuck) /\ \A d \in DOMAIN rotated : d < lines

(* The last k elements of a sequence. *)
LEMMA LastOnes ==
    ASSUME NEW T, NEW q \in Seq(T), NEW k \in Nat, k <= Len(q)
    PROVE  LET d == Len(q) - k
               g == SubSeq(q, d + 1, Len(q))
           IN  /\ d \in Nat /\ g \in Seq(T) /\ DOMAIN g = 1 .. k
               /\ \A i \in 1 .. k : g[i] = q[i + d] /\ i + d \in DOMAIN q
<1> DEFINE d == Len(q) - k
           g == SubSeq(q, d + 1, Len(q))
<1>1. d \in Nat /\ Len(q) \in Nat /\ DOMAIN q = 1 .. Len(q)
  OBVIOUS
<1>2. \A i \in 1 .. k : i + d \in DOMAIN q
  BY <1>1
<1>3. g \in Seq(T) /\ Len(g) = k
  BY <1>1
<1>4. DOMAIN g = 1 .. k
  BY <1>3
<1>5. \A i \in 1 .. k : g[i] = q[i + d]
  BY <1>1
<1> QED
  BY <1>1, <1>2, <1>3, <1>4, <1>5

LEMMA LineSetType == \A f \in Seq(Nat) : LineSet(f) \subseteq Nat
BY DEF LineSet

LEMMA LineSetAppend ==
    ASSUME NEW f \in Seq(Nat), NEW x \in Nat
    PROVE  Append(f, x) \in Seq(Nat) /\ LineSet(Append(f, x)) = LineSet(f) \cup {x}
<1> DEFINE g == Append(f, x)
<1>1. /\ g \in Seq(Nat) /\ DOMAIN g = 1 .. (Len(f) + 1) /\ DOMAIN f = 1 .. Len(f) /\ Len(f) \in Nat
      /\ g[Len(f) + 1] = x /\ \A i \in 1 .. Len(f) : g[i] = f[i]
  OBVIOUS
<1> HIDE DEF g
<1>2. \A i \in DOMAIN g : i \in DOMAIN f \/ i = Len(f) + 1
  BY <1>1
<1>3. LineSet(g) \subseteq LineSet(f) \cup {x}
  BY <1>1, <1>2 DEF LineSet
<1>4. LineSet(f) \subseteq LineSet(g)
  <2>1. \A i \in DOMAIN f : i \in DOMAIN g /\ g[i] = f[i]
    BY <1>1
  <2> QED
    BY <2>1 DEF LineSet
<1>5. x \in LineSet(g)
  <2>1. Len(f) + 1 \in DOMAIN g
    BY <1>1
  <2> QED
    BY <1>1, <2>1 DEF LineSet
<1> QED
  BY <1>1, <1>3, <1>4, <1>5 DEF g

(* A line more in the current file. *)
LEMMA NewestLine ==
    ASSUME NEW fs, NEW cur, NEW n, NEW S, Newest(fs, cur, n, S)
    PROVE  Newest(fs, Append(cur, n + 1), n + 1, S)
<1>1. /\ n \in Nat /\ n + 1 \in Nat /\ cur \in Seq(Nat)
      /\ \A l \in LineSet(cur), x \in 1..n : l <= x => x \in LineSet(cur)
      /\ \A i \in DOMAIN fs \ S : \A l \in LineSet(fs[i]), x \in 1..n :
            l <= x => x \in LineSet(cur) \/ Later(fs, i, x)
  BY DEF Newest
<1> DEFINE g == Append(cur, n + 1)
<1>2. g \in Seq(Nat) /\ LineSet(g) = LineSet(cur) \cup {n + 1}
  BY <1>1, LineSetAppend
<1>3. \A x \in 1 .. (n + 1) : x = n + 1 \/ x \in 1 .. n
  BY <1>1
<1> HIDE DEF g
<1>4. \A l \in LineSet(g), x \in 1 .. (n + 1) : l <= x => x \in LineSet(g)
  <2>1. \A x \in 1 .. n : ~(n + 1 <= x)
    BY <1>1
  <2> QED
    BY <1>1, <1>2, <1>3, <2>1
<1>5. \A i \in DOMAIN fs \ S : \A l \in LineSet(fs[i]), x \in 1 .. (n + 1) :
         l <= x => x \in LineSet(g) \/ Later(fs, i, x)
  BY <1>1, <1>2, <1>3
<1> QED
  BY <1>1, <1>2, <1>4, <1>5 DEF Newest, g

(* The current file is also kept as a rotated one; then it may be emptied. *)
LEMMA NewestRotated ==
    ASSUME NEW fs, NEW cur, NEW n, NEW S, Newest(fs, cur, n, S), \A d \in DOMAIN fs : d < n,
           NEW base, base \in {<<>>, cur}
    PROVE  Newest([d \in DOMAIN fs \cup {n} |-> IF d = n THEN cur ELSE fs[d]], base, n, S)
<1>1. /\ n \in Nat /\ cur \in Seq(Nat) /\ IsFiniteSet(DOMAIN fs)
      /\ \A d \in DOMAIN fs : d \in Nat /\ fs[d] \in Seq(Nat)
      /\ \A l \in LineSet(cur), x \in 1..n : l <= x => x \in LineSet(cur)
      /\ \A i \in DOMAIN fs \ S : \A l \in LineSet(fs[i]), x \in 1..n :
            l <= x => x \in LineSet(cur) \/ Later(fs, i, x)
  BY DEF Newest
<1> DEFINE g == [d \in DOMAIN fs \cup {n} |-> IF d = n THEN cur ELSE fs[d]]
<1>2. /\ DOMAIN g = DOMAIN fs \cup {n} /\ g[n] = cur
      /\ \A i \in DOMAIN fs : i \in Nat /\ i < n /\ g[i] = fs[i]
  <2>1. \A i \in DOMAIN fs : i \in Nat /\ i < n /\ i # n
    BY <1>1
  <2> QED
    BY <2>1
<1>3. IsFiniteSet(DOMAIN g)
  BY <1>1, <1>2, FS_AddElement
<1> HIDE DEF g
<1>4. \A d \in DOMAIN g : d \in Nat /\ d <= n /\ g[d] \in Seq(Nat)
  BY <1>1, <1>2
<1>5. \A i \in DOMAIN g : \A x : x \in LineSet(cur) => Later(g, i, x)
  BY <1>2, <1>4 DEF Later
<1>6. \A i \in DOMAIN fs : \A x : Later(fs, i, x) => Later(g, i, x)
  BY <1>2 DEF Later
<1>7. \A i \in DOMAIN g \ S : \A l \in LineSet(g[i]), x \in 1..n : l <= x => Later(g, i, x)
  BY <1>1, <1>2, <1>5, <1>6
<1>8. base \in Seq(Nat) /\ \A l \in LineSet(base), x \in 1..n : l <= x => x \in LineSet(base)
  <2>1. CASE base = <<>>
    BY <2>1 DEF LineSet
  <2>2. CASE base = cur
    BY <1>1, <2>2
  <2> QED
    BY <2>1, <2>2
<1> QED
  BY <1>1, <1>3, <1>4, <1>7, <1>8 DEF Newest, g

(* A file that is younger than one that need not go need not go either. *)
LEMMA ExcessIsOld ==
    ASSUME NEW D \in SUBSET Nat, IsFiniteSet(D), NEW d \in D \ Excess(D), NEW e \in D, d <= e
    PROVE  e \notin Excess(D)
<1> DEFINE above(x) == {y \in D : y > x}
<1>0. \A y \in D : y > e => y > d
  <2>1. \A y \in D : y \in Nat
    OBVIOUS
  <2>2. d \in Nat /\ e \in Nat /\ d <= e
    OBVIOUS
  <2> QED
    BY <2>1, <2>2
<1>1. above(e) \subseteq above(d) /\ above(d) \subseteq D
  BY <1>0
<1>2. IsFiniteSet(above(d))
  BY <1>1, FS_Subset
<1>3. Cardinality(above(e)) <= Cardinality(above(d)) /\ IsFiniteSet(above(e))
  BY <1>1, <1>2, FS_Subset
<1>4. Cardinality(above(e)) \in Nat /\ Cardinality(above(d)) \in Nat /\ MaxFiles \in Nat
  BY <1>2, <1>3, FS_CardinalityType, FileAssumption
<1>5. MaxFiles = 0 \/ ~(Cardinality(above(d)) >= MaxFiles)
  BY DEF Excess
<1>6. MaxFiles = 0 \/ ~(Cardinality(above(e)) >= MaxFiles)
  BY <1>3, <1>4, <1>5
<1> QED
  BY <1>6 DEF Excess

(* The oldest of the rotated files go, but for those that cannot be removed. *)
LEMMA NewestPruned ==
    ASSUME NEW fs, NEW cur, NEW n, NEW S, Newest(fs, cur, n, S),
           NEW failed \in SUBSET Excess(DOMAIN fs)
    PROVE  /\ Newest(prune_(fs, failed), cur, n, S \cup failed)
           /\ DOMAIN prune_(fs, failed) \subseteq DOMAIN fs
<1>1. /\ n \in Nat /\ cur \in Seq(Nat) /\ IsFiniteSet(DOMAIN fs)
      /\ \A d \in DOMAIN fs : d \in Nat /\ fs[d] \in Seq(Nat)
      /\ \A l \in LineSet(cur), x \in 1..n : l <= x => x \in LineSet(cur)
      /\ \A i \in DOMAIN fs \ S : \A l \in LineSet(fs[i]), x \in 1..n :
            l <= x => x \in LineSet(cur) \/ Later(fs, i, x)
  BY DEF Newest
<1> DEFINE g == prune_(fs, failed)
<1>2. Excess(DOMAIN fs) \subseteq DOMAIN fs
  BY DEF Excess
<1>3. /\ DOMAIN g = (DOMAIN fs \ Excess(DOMAIN fs)) \cup failed
      /\ \A d \in DOMAIN g : g[d] = fs[d]
  BY DEF prune_
<1> HIDE DEF g
<1>4. DOMAIN g \subseteq DOMAIN fs
  BY <1>2, <1>3
<1>5. IsFiniteSet(DOMAIN g)
  BY <1>1, <1>4, FS_Subset
<1>6. ASSUME NEW i \in DOMAIN g \ (S \cup failed), NEW x, Later(fs, i, x)
      PROVE  Later(g, i, x)
  <2>1. PICK j \in DOMAIN fs : i <= j /\ x \in LineSet(fs[j])
    BY <1>6 DEF Later
  <2>2. i \in DOMAIN fs \ Excess(DOMAIN fs) /\ DOMAIN fs \in SUBSET Nat
    BY <1>1, <1>3
  <2>3. j \notin Excess(DOMAIN fs)
    BY <1>1, <2>1, <2>2, ExcessIsOld
  <2>4. j \in DOMAIN g /\ g[j] = fs[j]
    BY <1>3, <2>3
  <2> QED
    BY <2>1, <2>4 DEF Later
<1>7. \A i \in DOMAIN g \ (S \cup failed) : \A l \in LineSet(g[i]), x \in 1..n :
         l <= x => x \in LineSet(cur) \/ Later(g, i, x)
  <2>1. \A i \in DOMAIN g \ (S \cup failed) : i \in DOMAIN fs \ S /\ g[i] = fs[i]
    BY <1>3, <1>4
  <2> QED
    BY <1>1, <1>6, <2>1
<1>8. \A d \in DOMAIN g : d \in Nat /\ g[d] \in Seq(Nat)
  BY <1>1, <1>3, <1>4
<1> QED
  BY <1>1, <1>4, <1>5, <1>7, <1>8 DEF Newest, g

LEMMA FileStep ==
    ASSUME FileInv, consume
    PROVE  FileInv'
<1>1. lines' = lines + 1 /\ Newest(rotated, current, lines, stuck) /\ \A d \in DOMAIN rotated : d < lines
  BY DEF consume, FileInv
<1>2. lines \in Nat /\ \A d \in DOMAIN rotated : d \in Nat
  BY <1>1 DEF Newest
<1>3. CASE current' = Append(current, lines') /\ UNCHANGED <<rotated, stuck>>
  <2>1. \A d \in DOMAIN rotated : d < lines + 1
    BY <1>1, <1>2
  <2> QED
    BY <1>1, <1>3, <2>1, NewestLine DEF FileInv
<1>4. ASSUME NEW how \in RenameOutcome, NEW failed \in SUBSET Excess(DOMAIN Moved(how)),
             doRotate_(how, failed),
             current' = Append(IF how = "renamed" THEN <<>> ELSE current, lines')
      PROVE  FileInv'
  <2> DEFINE fs == Moved(how)
             base == IF how = "renamed" THEN <<>> ELSE current
  <2>1. rotated' = prune_(fs, failed) /\ stuck' = stuck \cup failed /\ current' = Append(base, lines + 1)
    BY <1>1, <1>4 DEF doRotate_
  <2>2. Newest(fs, base, lines, stuck) /\ \A d \in DOMAIN fs : d \in Nat /\ d <= lines
    <3>1. CASE how = "failed"
      BY <1>1, <1>2, <3>1 DEF Moved
    <3>2. CASE how # "failed"
      <4>1. fs = [d \in DOMAIN rotated \cup {lines} |-> IF d = lines THEN current ELSE rotated[d]]
        BY <3>2 DEF Moved
      <4>2. Newest(fs, base, lines, stuck)
        BY <1>1, <4>1, NewestRotated
      <4>3. \A d \in DOMAIN fs : d \in Nat /\ d <= lines
        BY <1>1, <1>2, <4>1
      <4> QED
        BY <4>2, <4>3
    <3> QED
      BY <3>1, <3>2
  <2>3. failed \in SUBSET Excess(DOMAIN fs)
    BY <1>4
  <2> HIDE DEF fs, base
  <2>4. Newest(prune_(fs, failed), base, lines, stuck \cup failed) /\ DOMAIN prune_(fs, failed) \subseteq DOMAIN fs
    BY <2>2, <2>3, NewestPruned
  <2>5. \A d \in DOMAIN prune_(fs, failed) : d < lines + 1
    BY <1>2, <2>2, <2>4
  <2> QED
    BY <1>1, <2>1, <2>4, <2>5, NewestLine DEF FileInv
<1> QED
  BY <1>3, <1>4 DEF consume

(* Nobody but a sink touches the file. *)
LEMMA FileSteps == [Next]_vars => consume \/ UNCHANGED fileVars
<1> SUFFICES ASSUME Next PROVE consume \/ UNCHANGED fileVars
  BY DEF vars
<1>1. ASSUME NEW e \in Emitter, Emitting(e) PROVE consume \/ UNCHANGED fileVars
  BY <1>1 DEF Emitting, stdoutLine, stderrLine, emitEvent, emit, pushTaskEvent, Broadcast, Sink, Prune,
              Visit, Post, logVars
<1>2. ASSUME NEW s \in Session, SessionStep(s) PROVE UNCHANGED fileVars
  BY <1>2 DEF SessionStep, logVars
<1> QED
  BY <1>1, <1>2 DEF Next, GrowOld, query, BroadcastAll, Tokens, logVars

(* What rotation removes is older than everything that is kept, however    *)
(* renames fail and however many files are kept, but for the files whose   *)
(* removal failed (log_rotation.cpp prune_).                               *)
THEOREM FileIsRight == Spec => []FileKeepsNewest
<1>1. Init => FileInv
  <2> SUFFICES ASSUME Init PROVE FileInv
    OBVIOUS
  <2>1. current = <<>> /\ rotated = <<>> /\ lines = 0 /\ stuck = {} /\ DOMAIN rotated = {}
    BY DEF Init, FileInit
  <2>2. IsFiniteSet(DOMAIN rotated)
    BY <2>1, FS_EmptySet
  <2> QED
    BY <2>1, <2>2 DEF FileInv, Newest, LineSet, Later
<1>2. FileInv /\ [Next]_vars => FileInv'
  BY FileStep, FileSteps DEF fileVars, FileInv
<1>3. FileInv => FileKeepsNewest
  <2>1. SUFFICES ASSUME FileInv,
                        NEW old \in 1..lines,
                        old \notin LineSet(current),
                        \A i \in DOMAIN rotated : old \notin LineSet(rotated[i]),
                        NEW k, k \in LineSet(current)
                               \/ \E i \in DOMAIN rotated \ stuck : k \in LineSet(rotated[i])
                 PROVE  old < k
    BY DEF FileKeepsNewest
  <2>2. k \in Nat /\ old \in Nat
    BY <2>1, LineSetType DEF FileInv, Newest
  <2>3. ~(k <= old)
    BY <2>1 DEF FileInv, Newest, Later
  <2> QED
    BY <2>2, <2>3
<1> QED
  BY <1>1, <1>2, <1>3, PTL DEF Spec

-----------------------------------------------------------------------------
(***************************************************************************)
(* The buffers.  Records are numbered upwards, below nextSeq; as long as   *)
(* the paged buffer was not pruned, the client asks for a number that is   *)
(* not above nextSeq.                                                      *)
(***************************************************************************)
Numbered(b) == /\ \A i, j \in DOMAIN b.q : i < j => b.q[i].seq < b.q[j].seq
               /\ \A i \in DOMAIN b.q : b.q[i].seq < b.nextSeq

BuffersInv == /\ count \in Nat /\ bufs \in [Key -> Buffer \cup {NoBuf}]
              /\ \A k \in Key : bufs[k] # NoBuf => Numbered(bufs[k])

PageInv == /\ page.next \in Nat
           /\ pruned \in BOOLEAN
           /\ ~pruned => IF bufs[PagedKey] = NoBuf THEN page.next = 1
                                                   ELSE page.next <= bufs[PagedKey].nextSeq

BufferInv == BuffersInv /\ PageInv /\ PagesComplete

(* A non-empty set of numbers up to n has a greatest one. *)
LEMMA GreatestExists ==
    ASSUME NEW n \in Nat, NEW S \in SUBSET (0 .. n), S # {}
    PROVE  \E m \in S : \A i \in S : i <= m
<1> DEFINE T == {x \in Nat : \E i \in S : x = n - i}
           R == OpToRel(<, Nat)
<1>1. T # {} /\ T \subseteq Nat
  <2>1. PICK i \in S : TRUE
    OBVIOUS
  <2>2. n - i \in T
    BY <2>1
  <2> QED
    BY <2>2
<1>2. \E y \in T : \A z \in T : ~(<<z, y>> \in R)
  BY <1>1, WFMin, NatLessThanWellFounded
<1>3. PICK y \in T : \A z \in T : ~(z < y)
  BY <1>2 DEF OpToRel
<1>4. PICK m \in S : y = n - m
  BY <1>3
<1>5. \A i \in S : n - i \in T
  OBVIOUS
<1>6. \A i \in S : i <= m
  <2>1. SUFFICES ASSUME NEW i \in S PROVE i <= m
    OBVIOUS
  <2>2. ~(n - i < n - m) /\ i \in Nat /\ m \in Nat
    BY <1>3, <1>4, <1>5
  <2> QED
    BY <2>2
<1> QED
  BY <1>6

LEMMA RecordNumbers ==
    ASSUME NEW q \in Seq(Record)
    PROVE  \A i \in DOMAIN q : q[i].seq \in Nat
<1>1. \A i \in DOMAIN q : q[i] \in Record
  OBVIOUS
<1> QED
  BY <1>1 DEF Record

(* What is behind the last q records, trimmed or not. *)
LEMMA Trimmed ==
    ASSUME NEW q \in Seq(Record)
    PROVE  /\ trim(q) \in Seq(Record)
           /\ \E d \in Nat : \A i \in DOMAIN trim(q) : i + d \in DOMAIN q /\ trim(q)[i] = q[i + d]
<1>1. CASE Len(q) > PerTaskMax
  <2> DEFINE d == Len(q) - PerTaskMax
  <2>1. d \in Nat /\ trim(q) = SubSeq(q, d + 1, Len(q)) /\ PerTaskMax \in Nat
    BY <1>1, BufferAssumption DEF trim
  <2>2. /\ trim(q) \in Seq(Record) /\ DOMAIN trim(q) = 1 .. PerTaskMax
        /\ \A i \in 1 .. PerTaskMax : trim(q)[i] = q[i + d] /\ i + d \in DOMAIN q
    BY <1>1, <2>1, LastOnes
  <2> QED
    BY <2>1, <2>2
<1>2. CASE ~(Len(q) > PerTaskMax)
  <2>1. trim(q) = q
    BY <1>2 DEF trim
  <2>2. \A i \in DOMAIN q : i + 0 \in DOMAIN q /\ q[i] = q[i + 0]
    OBVIOUS
  <2> QED
    BY <2>1, <2>2
<1> QED
  BY <1>1, <1>2

LEMMA BufferUpdate ==
    ASSUME NEW b \in Buffer, NEW t \in Seq(Record)
    PROVE  LET c == [b EXCEPT !.q = t, !.nextSeq = @ + 1]
           IN  c \in Buffer /\ c.q = t /\ c.nextSeq = b.nextSeq + 1
<1> DEFINE n == b.nextSeq + 1
           c == [b EXCEPT !.q = t, !.nextSeq = n]
<1>1. n \in Nat \ {0}
  BY DEF Buffer
<1> HIDE DEF n
<1>2. c \in Buffer /\ c.q = t /\ c.nextSeq = n
  BY <1>1 DEF Buffer
<1>3. c = [b EXCEPT !.q = t, !.nextSeq = @ + 1]
  BY DEF n, Buffer
<1> QED
  BY <1>2, <1>3 DEF n

(* A record more: the old ones that are kept, and the new one.             *)
LEMMA Appended ==
    ASSUME NEW b \in Buffer, Numbered(b), NEW rec \in Nat
    PROVE  LET new == [id |-> rec, seq |-> b.nextSeq]
               c == [b EXCEPT !.q = trim(Append(@, new)), !.nextSeq = @ + 1]
           IN  /\ c \in Buffer /\ Numbered(c) /\ c.nextSeq = b.nextSeq + 1
               /\ \A i \in DOMAIN c.q : c.q[i] = new \/ \E j \in DOMAIN b.q : c.q[i] = b.q[j]
<1> DEFINE new == [id |-> rec, seq |-> b.nextSeq]
           a == Append(b.q, new)
           t == trim(a)
           c == [b EXCEPT !.q = t, !.nextSeq = @ + 1]
<1>1. new \in Record /\ b.q \in Seq(Record) /\ b.nextSeq \in Nat \ {0} /\ b.old \in BOOLEAN
      /\ new.seq = b.nextSeq
  BY DEF Buffer, Record
<1> HIDE DEF new
<1>2. /\ a \in Seq(Record) /\ DOMAIN a = 1 .. (Len(b.q) + 1) /\ DOMAIN b.q = 1 .. Len(b.q)
      /\ Len(b.q) \in Nat /\ a[Len(b.q) + 1] = new /\ \A i \in 1 .. Len(b.q) : a[i] = b.q[i]
  BY <1>1
<1> HIDE DEF a
<1>3. \A i \in DOMAIN a : a[i] = new \/ \E j \in DOMAIN b.q : a[i] = b.q[j]
  BY <1>2
<1>4. \A i \in DOMAIN a : a[i].seq \in Nat /\ a[i].seq < b.nextSeq + 1
  <2>1. \A j \in DOMAIN b.q : b.q[j].seq \in Nat /\ b.q[j].seq < b.nextSeq
    BY <1>1, RecordNumbers DEF Numbered
  <2>2. \A i \in DOMAIN a : a[i].seq \in Nat
    BY <1>2, RecordNumbers
  <2> QED
    BY <1>1, <1>3, <2>1, <2>2
<1>5. \A i, j \in DOMAIN a : i < j => a[i].seq < a[j].seq
  <2>1. SUFFICES ASSUME NEW i \in DOMAIN a, NEW j \in DOMAIN a, i < j
                 PROVE  a[i].seq < a[j].seq
    OBVIOUS
  <2>2. i \in DOMAIN b.q /\ a[i] = b.q[i]
    BY <1>2, <2>1
  <2>3. CASE j \in DOMAIN b.q
    <3>1. a[j] = b.q[j]
      BY <1>2, <2>3
    <3> QED
      BY <2>1, <2>2, <2>3, <3>1 DEF Numbered
  <2>4. CASE j \notin DOMAIN b.q
    <3>1. a[j] = new
      BY <1>2, <2>4
    <3> QED
      BY <1>1, <2>2, <3>1 DEF Numbered
  <2> QED
    BY <2>3, <2>4
<1>6. t \in Seq(Record)
  BY <1>2, Trimmed
<1>7. PICK d \in Nat : \A i \in DOMAIN t : i + d \in DOMAIN a /\ t[i] = a[i + d]
  BY <1>2, Trimmed
<1> HIDE DEF t
<1>8. /\ c \in Buffer /\ c.q = t /\ c.nextSeq = b.nextSeq + 1
  BY <1>1, <1>6, BufferUpdate
<1> HIDE DEF c
<1>9. \A i, j \in DOMAIN t : i < j => t[i].seq < t[j].seq
  <2>1. \A i, j \in DOMAIN t : i < j => i + d < j + d
    BY <1>6
  <2> QED
    BY <1>5, <1>7, <2>1
<1>10. \A i \in DOMAIN t : t[i].seq < b.nextSeq + 1
  BY <1>4, <1>7
<1>11. \A i \in DOMAIN t : t[i] = new \/ \E j \in DOMAIN b.q : t[i] = b.q[j]
  BY <1>3, <1>7
<1>12. Numbered(c)
  BY <1>8, <1>9, <1>10 DEF Numbered
<1> QED
  BY <1>8, <1>11, <1>12 DEF c, t, a, new

LEMMA AppendKeeps ==
    ASSUME BufferInv, NEW k \in Key, count' = count + 1, append(k, count'), UNCHANGED <<page, pruned>>
    PROVE  BufferInv'
<1> DEFINE b == getOrCreate_(k)
           new == [id |-> count', seq |-> b.nextSeq]
           c == [b EXCEPT !.q = trim(Append(@, new)), !.nextSeq = @ + 1]
<1>1. count' \in Nat /\ bufs \in [Key -> Buffer \cup {NoBuf}] /\ bufs' = [bufs EXCEPT ![k] = c]
  BY DEF BufferInv, BuffersInv, append
<1>2. b \in Buffer /\ Numbered(b)
  <2>1. CASE bufs[k] = NoBuf
    <3>1. b = [q |-> <<>>, nextSeq |-> 1, old |-> FALSE]
      BY <2>1 DEF getOrCreate_
    <3> HIDE DEF b
    <3>2. b \in Buffer
      BY <3>1 DEF Buffer
    <3> QED
      BY <3>1, <3>2 DEF Numbered
  <2>2. CASE bufs[k] # NoBuf
    <3>1. b = [bufs[k] EXCEPT !.old = FALSE] /\ bufs[k] \in Buffer /\ Numbered(bufs[k])
      BY <1>1, <2>2 DEF getOrCreate_, BufferInv, BuffersInv
    <3> HIDE DEF b
    <3>2. b \in Buffer /\ b.q = bufs[k].q /\ b.nextSeq = bufs[k].nextSeq
      BY <3>1 DEF Buffer
    <3> QED
      BY <3>1, <3>2 DEF Numbered
  <2> QED
    BY <2>1, <2>2
<1>3. IF bufs[k] = NoBuf THEN b.q = <<>> /\ b.nextSeq = 1
      ELSE b.q = bufs[k].q /\ b.nextSeq = bufs[k].nextSeq
  <2>1. bufs[k] # NoBuf => bufs[k] \in Buffer
    BY <1>1
  <2> QED
    BY <2>1 DEF getOrCreate_, Buffer
<1> HIDE DEF b
<1>4. /\ c \in Buffer /\ Numbered(c) /\ c.nextSeq = b.nextSeq + 1
      /\ \A i \in DOMAIN c.q : c.q[i] = new \/ \E j \in DOMAIN b.q : c.q[i] = b.q[j]
  BY <1>1, <1>2, Appended
<1>5. new.seq = b.nextSeq /\ b.nextSeq \in Nat
  BY <1>2 DEF Buffer
<1> HIDE DEF c, new
<1>6. BuffersInv'
  <2>1. bufs' \in [Key -> Buffer \cup {NoBuf}]
    BY <1>1, <1>4
  <2>2. \A l \in Key : bufs'[l] # NoBuf => Numbered(bufs'[l])
    BY <1>1, <1>4 DEF BufferInv, BuffersInv
  <2> QED
    BY <1>1, <2>1, <2>2 DEF BuffersInv
<1>7. CASE k # PagedKey
  <2>1. bufs'[PagedKey] = bufs[PagedKey]
    BY <1>1, <1>7, StreamAssumption
  <2> QED
    BY <1>6, <2>1 DEF BufferInv, PageInv, PagesComplete
<1>8. CASE k = PagedKey
  <2>1. bufs'[PagedKey] = c /\ c # NoBuf
    BY <1>1, <1>4, <1>8, BufferAssumption
  <2>2. page.next \in Nat /\ pruned \in BOOLEAN /\ (~pruned => page.next <= b.nextSeq)
    BY <1>3, <1>5, <1>8 DEF BufferInv, PageInv
  <2>3. PageInv'
    BY <1>4, <1>5, <2>1, <2>2 DEF PageInv
  <2>4. PagesComplete'
    <3>1. SUFFICES ASSUME ~pruned, NEW i \in DOMAIN c.q, c.q[i].seq < page.next
                   PROVE  c.q[i].id \in page.got
      BY <2>1 DEF PagesComplete
    <3>2. c.q[i] # new
      BY <1>5, <2>2, <3>1
    <3>3. PICK j \in DOMAIN b.q : c.q[i] = b.q[j]
      BY <1>4, <3>2
    <3>4. bufs[k] # NoBuf /\ b.q = bufs[k].q
      BY <1>3, <3>3
    <3> QED
      BY <1>8, <3>1, <3>3, <3>4 DEF BufferInv, PagesComplete
  <2> QED
    BY <1>6, <2>3, <2>4 DEF BufferInv
<1> QED
  BY <1>7, <1>8

(* A page is a beginning of what there is from its first number on. *)
LEMMA WantedFirst ==
    ASSUME NEW q \in Seq(Record), NEW from \in Nat, NEW limit \in Nat,
           NEW i \in Wanted(q, from, limit), NEW j \in DOMAIN q, j <= i, q[j].seq >= from
    PROVE  j \in Wanted(q, from, limit)
<1> DEFINE hits == {n \in DOMAIN q : q[n].seq >= from}
           below(x) == {n \in hits : n < x}
<1>1. i \in hits /\ j \in hits /\ Cardinality(below(i)) < limit
  BY DEF Wanted
<1>2. below(j) \subseteq below(i) /\ i \in Nat /\ j \in Nat
  BY <1>1
<1>3. IsFiniteSet(below(i))
  <2>1. IsFiniteSet(DOMAIN q)
    BY FS_Interval
  <2> QED
    BY <2>1, FS_Subset
<1>4. Cardinality(below(j)) <= Cardinality(below(i)) /\ IsFiniteSet(below(j))
  BY <1>2, <1>3, FS_Subset
<1>5. Cardinality(below(j)) \in Nat /\ Cardinality(below(i)) \in Nat
  BY <1>3, <1>4, FS_CardinalityType
<1>6. Cardinality(below(j)) < limit
  BY <1>1, <1>4, <1>5
<1> QED
  BY <1>1, <1>6 DEF Wanted

LEMMA QueryKeeps ==
    ASSUME BufferInv, NEW limit \in PageSize, query(limit)
    PROVE  BufferInv'
<1> DEFINE b == bufs[PagedKey]
           q == IF b = NoBuf THEN <<>> ELSE b.q
           want == Wanted(q, page.next, limit)
           last == CHOOSE i \in want : \A j \in want : j <= i
<1>1. /\ {q[i] : i \in want} # {}
      /\ page' = [next |-> IF want = {} THEN page.next ELSE q[last].seq + 1,
                  got  |-> page.got \cup {x.id : x \in {q[i] : i \in want}}]
      /\ UNCHANGED <<bufs, count, pruned>>
  BY DEF query, get, logRecordToJson, bufferVars
<1>2. page.next \in Nat /\ limit \in Nat /\ PagedKey \in Key
  BY StreamAssumption DEF BufferInv, PageInv
<1>3. want # {} /\ want \subseteq DOMAIN q
  BY <1>1 DEF Wanted
<1>4. b # NoBuf /\ q = b.q
  BY <1>3
<1>5. b \in Buffer /\ Numbered(b)
  BY <1>2, <1>4 DEF BufferInv, BuffersInv
<1>6. q \in Seq(Record) /\ b.nextSeq \in Nat
  BY <1>4, <1>5 DEF Buffer
<1>7. last \in want /\ \A j \in want : j <= last
  <2>1. want \in SUBSET (0 .. Len(q)) /\ Len(q) \in Nat
    BY <1>3, <1>6
  <2>2. \E i \in want : \A j \in want : j <= i
    BY <1>3, <2>1, GreatestExists
  <2> QED
    BY <2>2
<1> HIDE DEF want, last
<1>8. \A i \in DOMAIN q : q[i].seq \in Nat /\ q[i].seq < b.nextSeq
  BY <1>4, <1>5, <1>6, RecordNumbers DEF Numbered
<1>9. page'.next = q[last].seq + 1 /\ page'.got = page.got \cup {q[i].id : i \in want}
  BY <1>1, <1>3
<1>10. last \in DOMAIN q /\ page'.next \in Nat /\ page'.next <= b.nextSeq
  BY <1>3, <1>6, <1>7, <1>8, <1>9
<1>11. PageInv'
  BY <1>1, <1>4, <1>10 DEF PageInv, BufferInv
<1>12. PagesComplete'
  <2>1. SUFFICES ASSUME ~pruned, NEW i \in DOMAIN q, q[i].seq < page'.next
                 PROVE  q[i].id \in page'.got
    BY <1>1, <1>4 DEF PagesComplete
  <2>2. CASE q[i].seq < page.next
    BY <1>4, <1>9, <2>1, <2>2 DEF BufferInv, PagesComplete
  <2>3. CASE ~(q[i].seq < page.next)
    <3>1. q[i].seq <= q[last].seq /\ q[i].seq >= page.next
      BY <1>2, <1>8, <1>9, <1>10, <2>1, <2>3
    <3>2. i <= last
      <4>1. ~(last < i)
        BY <1>4, <1>5, <1>8, <1>10, <3>1 DEF Numbered
      <4> QED
        BY <1>6, <1>10, <4>1
    <3>3. i \in want
      BY <1>2, <1>6, <1>7, <3>1, <3>2, WantedFirst DEF want
    <3> QED
      BY <1>9, <3>3
  <2> QED
    BY <2>2, <2>3
<1> QED
  BY <1>1, <1>11, <1>12 DEF BufferInv, BuffersInv

LEMMA PruneKeeps ==
    ASSUME BufferInv, NEW e \in Emitter, Prune(e)
    PROVE  BufferInv'
<1>1. /\ bufs' = [k \in Key |-> IF bufs[k] # NoBuf /\ bufs[k].old THEN NoBuf ELSE bufs[k]]
      /\ pruned' = (pruned \/ bufs'[PagedKey] # bufs[PagedKey]) /\ UNCHANGED <<page, count>>
  BY DEF Prune, pruneOlderThan
<1>2. BuffersInv'
  <2>1. count' \in Nat /\ bufs' \in [Key -> Buffer \cup {NoBuf}]
    BY <1>1 DEF BufferInv, BuffersInv
  <2>2. \A k \in Key : bufs'[k] # NoBuf => Numbered(bufs'[k])
    BY <1>1 DEF BufferInv, BuffersInv
  <2> QED
    BY <2>1, <2>2 DEF BuffersInv
<1>3. pruned \in BOOLEAN /\ pruned' \in BOOLEAN /\ page.next \in Nat
  BY <1>1 DEF BufferInv, PageInv
<1>4. ~pruned' => ~pruned /\ bufs'[PagedKey] = bufs[PagedKey]
  BY <1>1
<1>5. PageInv'
  BY <1>1, <1>3, <1>4 DEF BufferInv, PageInv
<1>6. PagesComplete'
  BY <1>1, <1>4 DEF BufferInv, PagesComplete
<1> QED
  BY <1>2, <1>5, <1>6 DEF BufferInv

LEMMA AgeKeeps ==
    ASSUME BufferInv, NEW k \in Key, GrowOld(k)
    PROVE  BufferInv'
<1> DEFINE b == bufs[k]
           c == [b EXCEPT !.old = TRUE]
<1>1. /\ bufs \in [Key -> Buffer \cup {NoBuf}] /\ bufs' = [bufs EXCEPT ![k] = c] /\ b # NoBuf
      /\ UNCHANGED <<page, count, pruned>>
  BY DEF GrowOld, Age, BufferInv, BuffersInv
<1>2. b \in Buffer /\ Numbered(b)
  BY <1>1 DEF BufferInv, BuffersInv
<1>3. c \in Buffer /\ c.q = b.q /\ c.nextSeq = b.nextSeq
  BY <1>2 DEF Buffer
<1>4. c # NoBuf /\ Numbered(c)
  BY <1>2, <1>3, BufferAssumption DEF Numbered
<1> HIDE DEF c
<1>5. BuffersInv'
  <2>1. bufs' \in [Key -> Buffer \cup {NoBuf}]
    BY <1>1, <1>3
  <2>2. \A l \in Key : bufs'[l] # NoBuf => Numbered(bufs'[l])
    BY <1>1, <1>4 DEF BufferInv, BuffersInv
  <2> QED
    BY <1>1, <2>1, <2>2 DEF BufferInv, BuffersInv
<1>6. CASE k # PagedKey
  <2>1. bufs'[PagedKey] = bufs[PagedKey]
    BY <1>1, <1>6, StreamAssumption
  <2> QED
    BY <1>1, <1>5, <2>1 DEF BufferInv, PageInv, PagesComplete
<1>7. CASE k = PagedKey
  <2>1. bufs'[PagedKey] = c
    BY <1>1, <1>7
  <2> QED
    BY <1>1, <1>3, <1>4, <1>5, <1>7, <2>1 DEF BufferInv, PageInv, PagesComplete
<1> QED
  BY <1>6, <1>7

(* Everything else leaves the buffers and the client alone. *)
LEMMA BufferStays ==
    ASSUME BufferInv, count' \in Nat, UNCHANGED <<bufs, page, pruned>>
    PROVE  BufferInv'
BY DEF BufferInv, BuffersInv, PageInv, PagesComplete

LEMMA BufferStep ==
    ASSUME BufferInv, [Next]_vars
    PROVE  BufferInv'
<1>1. ASSUME NEW e \in Emitter, Emitting(e)
      PROVE  BufferInv'
  <2>1. ASSUME NEW k \in Key, emit(e, k)
        PROVE  BufferInv'
    BY <2>1, AppendKeeps DEF emit
  <2>2. ASSUME NEW k \in Key, pushTaskEvent(e, k)
        PROVE  BufferInv'
    <3>1. count' \in Nat
      BY <2>2 DEF pushTaskEvent, BufferInv, BuffersInv
    <3> QED
      BY <2>2, <3>1, BufferStays DEF pushTaskEvent, bufferVars
  <2>3. CASE Prune(e)
    BY <2>3, PruneKeeps
  <2>4. ASSUME UNCHANGED <<bufs, page, pruned, count>>
        PROVE  BufferInv'
    BY <2>4, BufferStays DEF BufferInv, BuffersInv
  <2>5. CASE Broadcast(e) \/ Sink(e) \/ \E s \in Session : Visit(e, s) \/ Post(e, s)
    BY <2>4, <2>5 DEF Broadcast, Sink, Visit, Post, logVars, bufferVars
  <2> QED
    BY <1>1, <2>1, <2>2, <2>3, <2>5 DEF Emitting, stdoutLine, stderrLine, emitEvent
<1>2. ASSUME NEW k \in Key, GrowOld(k)
      PROVE  BufferInv'
  BY <1>2, AgeKeeps
<1>3. ASSUME NEW limit \in PageSize, query(limit)
      PROVE  BufferInv'
  BY <1>3, QueryKeeps
<1>4. CASE BroadcastAll \/ Tokens \/ \E s \in Session : SessionStep(s)
  <2>1. UNCHANGED <<bufs, page, pruned, count>>
    BY <1>4 DEF BroadcastAll, Tokens, SessionStep, logVars, bufferVars
  <2> QED
    BY <2>1, BufferStays DEF BufferInv, BuffersInv
<1>5. CASE UNCHANGED vars
  <2>1. UNCHANGED <<bufs, page, pruned, count>>
    BY <1>5 DEF vars, bufferVars
  <2> QED
    BY <2>1, BufferStays DEF BufferInv, BuffersInv
<1> QED
  BY <1>1, <1>2, <1>3, <1>4, <1>5 DEF Next

(* A client that follows next_from (task_log_buffer.cpp get) has seen every record   *)
(* that the buffer still holds below that number, however many threads append to     *)
(* the buffer, trim it or grow old between two pages, unless the buffer was pruned.  *)
THEOREM PagesAreComplete == Spec => []PagesComplete
<1>1. Init => BufferInv
  <2> SUFFICES ASSUME Init PROVE BufferInv
    OBVIOUS
  <2>1. count = 0 /\ bufs = [k \in Key |-> NoBuf] /\ page = [next |-> 1, got |-> {}] /\ pruned = FALSE
    BY DEF Init, BufferInit
  <2>2. BuffersInv
    BY <2>1 DEF BuffersInv
  <2>3. PageInv /\ PagesComplete
    BY <2>1, StreamAssumption DEF PageInv, PagesComplete
  <2> QED
    BY <2>2, <2>3 DEF BufferInv
<1>2. BufferInv /\ [Next]_vars => BufferInv'
  BY BufferStep
<1>3. BufferInv => PagesComplete
  BY DEF BufferInv
<1> QED
  BY <1>1, <1>2, <1>3, PTL DEF Spec

-----------------------------------------------------------------------------
(***************************************************************************)
(* The hub.  A thread that walks over the sessions holds the hub's mutex,  *)
(* and no session joins or leaves meanwhile.  A thread that has found the  *)
(* session subscribed after a late post will not post late again, unless   *)
(* the subscriptions change and the count starts anew.                     *)
(***************************************************************************)
Walking == {"visit"} \cup Session
Names   == {k[1] : k \in Key} \cup {k[2] : k \in Key} \cup {NoRun}
AnyChan == {"log", "event"} \X Names \X Names
Doing   == [at : {"idle", "push", "prune"} \cup Walking, topic : {"log", "event"}, id : Nat,
            chans : Seq(AnyChan), todo : SUBSET Session, prune : BOOLEAN]

HubInv == /\ em \in [Emitter -> Doing] /\ count \in Nat
          /\ hub \subseteq Session /\ hubLock \in Emitter \cup {Nobody}
          /\ \A e \in Emitter : em[e].at \in Walking <=> hubLock = e
          /\ \A e \in Emitter : em[e].at \in Walking =>
               /\ em[e].chans # <<>> /\ em[e].todo \subseteq hub
               /\ em[e].at # "visit" => em[e].at \in em[e].todo

LateInv == /\ subs \in [Session -> SUBSET Channel] /\ late \in [Emitter -> [Session -> 0..1]]
           /\ \A e \in Emitter, s \in Session :
                em[e].at = s /\ late[e][s] = 1 => Head(em[e].chans) \in subs[s]

LEMMA ChannelsType ==
    \A t \in {"log", "event"}, k \in Key : Channels(t, k) \in Seq(AnyChan)
<1>1. SUFFICES ASSUME NEW t \in {"log", "event"}, NEW k \in Key
               PROVE  Channels(t, k) \in Seq(AnyChan)
  OBVIOUS
<1>2. k[1] \in Names /\ k[2] \in Names /\ NoRun \in Names
  BY DEF Names
<1>3. <<t, k[1], NoRun>> \in AnyChan /\ <<t, k[1], k[2]>> \in AnyChan /\ <<t, NoRun, k[2]>> \in AnyChan
  BY <1>1, <1>2 DEF AnyChan
<1> QED
  BY <1>3 DEF Channels

(* What a thread does outside the hub. *)
LEMMA HubOutside ==
    ASSUME HubInv, NEW e \in Emitter, NEW d \in Doing, em' = [em EXCEPT ![e] = d], count' \in Nat,
           em[e].at \notin Walking, d.at \notin Walking, UNCHANGED <<hub, hubLock>>
    PROVE  HubInv'
<1>1. em \in [Emitter -> Doing] /\ hub \subseteq Session /\ hubLock \in Emitter \cup {Nobody}
      /\ hubLock # e
  BY DEF HubInv
<1>2. em' \in [Emitter -> Doing] /\ em'[e] = d /\ \A x \in Emitter : x # e => em'[x] = em[x]
  BY <1>1
<1>3. \A x \in Emitter : em'[x].at \in Walking <=> hubLock' = x
  BY <1>1, <1>2 DEF HubInv
<1>4. \A x \in Emitter : em'[x].at \in Walking =>
        /\ em'[x].chans # <<>> /\ em'[x].todo \subseteq hub
        /\ em'[x].at # "visit" => em'[x].at \in em'[x].todo
  BY <1>2 DEF HubInv
<1> QED
  BY <1>1, <1>2, <1>3, <1>4 DEF HubInv

(* ... and inside. *)
LEMMA HubInside ==
    ASSUME HubInv, NEW e \in Emitter, NEW d \in Doing, em' = [em EXCEPT ![e] = d], UNCHANGED <<hub, count>>,
           hubLock \in {e, Nobody}, hubLock' = IF d.at \in Walking THEN e ELSE Nobody,
           d.at \in Walking => /\ d.chans # <<>> /\ d.todo \subseteq hub
                               /\ d.at # "visit" => d.at \in d.todo
    PROVE  HubInv'
<1>1. em \in [Emitter -> Doing] /\ hub \subseteq Session /\ hubLock' \in Emitter \cup {Nobody}
      /\ count' \in Nat /\ Nobody \notin Emitter
  BY WsAssumption DEF HubInv
<1>2. em' \in [Emitter -> Doing] /\ em'[e] = d /\ \A x \in Emitter : x # e => em'[x] = em[x]
  BY <1>1
<1>3. \A x \in Emitter : x # e => em'[x].at \notin Walking
  BY <1>1, <1>2 DEF HubInv
<1>4. \A x \in Emitter : em'[x].at \in Walking <=> hubLock' = x
  BY <1>1, <1>2, <1>3
<1>5. \A x \in Emitter : em'[x].at \in Walking =>
        /\ em'[x].chans # <<>> /\ em'[x].todo \subseteq hub
        /\ em'[x].at # "visit" => em'[x].at \in em'[x].todo
  BY <1>2, <1>3
<1> QED
  BY <1>1, <1>2, <1>4, <1>5 DEF HubInv

LEMMA LateKeeps ==
    ASSUME HubInv, LateInv, NEW e \in Emitter, NEW d \in Doing, em' = [em EXCEPT ![e] = d],
           UNCHANGED <<subs, late>>,
           d.at \in Session => Head(d.chans) \in subs[d.at]
    PROVE  LateInv'
<1>1. em'[e] = d /\ \A x \in Emitter : x # e => em'[x] = em[x]
  BY DEF HubInv
<1>2. \A x \in Emitter, s \in Session : em'[x].at = s /\ late[x][s] = 1 => Head(em'[x].chans) \in subs[s]
  BY <1>1 DEF LateInv
<1> QED
  BY <1>2 DEF LateInv

(* The places of a thread are not sessions, but for those in a session. *)
LEMMA Places == Session \cap {"idle", "push", "visit", "prune"} = {} /\ "visit" \in Walking
                /\ Walking \cap {"idle", "push", "prune"} = {} /\ Session \subseteq Walking
BY StreamAssumption DEF Walking

LEMMA BegunHub ==
    ASSUME HubInv, LateInv, NEW e \in Emitter, NEW t \in {"log", "event"}, NEW k \in Key, NEW p \in BOOLEAN,
           em[e].at = "idle", count' = count + 1, Begun(e, t, k, p), UNCHANGED <<hub, hubLock, subs, late>>
    PROVE  HubInv' /\ LateInv'
<1> DEFINE d == [at |-> "push", topic |-> t, id |-> count', chans |-> Channels(t, k), todo |-> {}, prune |-> p]
<1>1. count' \in Nat /\ Channels(t, k) \in Seq(AnyChan)
  BY ChannelsType DEF HubInv
<1>2. d \in Doing /\ em' = [em EXCEPT ![e] = d] /\ d.at = "push"
  BY <1>1 DEF Doing, Begun
<1> HIDE DEF d
<1> QED
  BY <1>1, <1>2, HubOutside, LateKeeps, Places

LEMMA SinkHub ==
    ASSUME HubInv, LateInv, NEW e \in Emitter, Sink(e) \/ Prune(e)
    PROVE  HubInv' /\ LateInv'
<1>1. em[e] \in Doing /\ em[e].at \in {"push", "prune"} /\ count' \in Nat
  BY DEF Sink, Prune, HubInv
<1>2. UNCHANGED <<hub, hubLock, subs, late>>
  BY DEF Sink, Prune, wsVars, sesVars
<1>3. Idle \in Doing /\ Idle.at = "idle"
  BY DEF Idle, Doing
<1> DEFINE w == [em[e] EXCEPT !.at = "prune"]
<1>4. w \in Doing /\ w.at = "prune"
  BY <1>1 DEF Doing
<1>5. em' = [em EXCEPT ![e] = w] \/ em' = [em EXCEPT ![e] = Idle]
  BY DEF Sink, Prune
<1> HIDE DEF w
<1>6. CASE em' = [em EXCEPT ![e] = w]
  BY <1>1, <1>2, <1>4, <1>6, HubOutside, LateKeeps, Places
<1>7. CASE em' = [em EXCEPT ![e] = Idle]
  BY <1>1, <1>2, <1>3, <1>7, HubOutside, LateKeeps, Places
<1> QED
  BY <1>5, <1>6, <1>7

LEMMA BroadcastHub ==
    ASSUME HubInv, LateInv, NEW e \in Emitter, Broadcast(e)
    PROVE  HubInv' /\ LateInv'
<1>1. /\ em[e] \in Doing /\ em[e].at = "push" /\ em[e].chans # <<>> /\ hubLock = Nobody
      /\ em[e].chans \in Seq(AnyChan) /\ hub \in SUBSET Session
  BY DEF Broadcast, HubInv, Doing
<1>2. UNCHANGED <<hub, subs, late, count>>
  BY DEF Broadcast, sesVars, logVars
<1>3. CASE hub = {}
  <2> DEFINE d == [em[e] EXCEPT !.chans = Tail(em[e].chans)]
  <2>1. Tail(em[e].chans) \in Seq(AnyChan)
    BY <1>1
  <2>2. d \in Doing /\ d.at = "push"
    BY <1>1, <2>1 DEF Doing
  <2>3. em' = [em EXCEPT ![e] = d] /\ hubLock' = Nobody
    BY <1>3 DEF Broadcast
  <2> HIDE DEF d
  <2> QED
    BY <1>1, <1>2, <2>2, <2>3, HubInside, LateKeeps, Places
<1>4. CASE hub # {}
  <2> DEFINE d == [em[e] EXCEPT !.at = "visit", !.todo = hub]
  <2>2. d \in Doing /\ d.at = "visit" /\ d.todo = hub /\ d.chans # <<>>
    BY <1>1, Places DEF Doing
  <2>3. em' = [em EXCEPT ![e] = d] /\ hubLock' = e
    BY <1>4 DEF Broadcast
  <2> HIDE DEF d
  <2> QED
    BY <1>1, <1>2, <2>2, <2>3, HubInside, LateKeeps, Places
<1> QED
  BY <1>3, <1>4

(* Session s is done: what Visited makes of the thread. *)
LEMMA VisitedThread ==
    ASSUME HubInv, NEW e \in Emitter, NEW s \in Session, em[e].at \in Walking, Visited(e, s)
    PROVE  \E d \in Doing : /\ em' = [em EXCEPT ![e] = d] /\ d.at \in {"push", "visit"}
                            /\ d.at = "visit" => d.chans # <<>>
                            /\ d.todo \subseteq em[e].todo /\ d.topic = em[e].topic /\ d.id = em[e].id
                            /\ hubLock' = IF d.at = "visit" THEN e ELSE Nobody
<1>1. /\ em[e] \in Doing /\ em[e].chans # <<>> /\ em[e].chans \in Seq(AnyChan)
      /\ em[e].todo \in SUBSET Session /\ hubLock = e
  BY DEF HubInv, Doing
<1>4. Tail(em[e].chans) \in Seq(AnyChan)
  BY <1>1
<1>2. CASE em[e].todo = {s}
  <2> DEFINE d == [em[e] EXCEPT !.at = "push", !.chans = Tail(@), !.todo = {}]
  <2>2. /\ d \in Doing /\ d.at = "push" /\ d.todo = {} /\ d.topic = em[e].topic /\ d.id = em[e].id
    BY <1>1, <1>4 DEF Doing
  <2>3. em' = [em EXCEPT ![e] = d] /\ hubLock' = Nobody
    BY <1>2 DEF Visited
  <2> HIDE DEF d
  <2> QED
    BY <2>2, <2>3
<1>3. CASE em[e].todo # {s}
  <2> DEFINE d == [em[e] EXCEPT !.at = "visit", !.todo = @ \ {s}]
  <2>2. /\ d \in Doing /\ d.at = "visit" /\ d.todo = em[e].todo \ {s} /\ d.chans # <<>>
        /\ d.topic = em[e].topic /\ d.id = em[e].id
    BY <1>1, Places DEF Doing
  <2>3. em' = [em EXCEPT ![e] = d] /\ hubLock' = e
    BY <1>1, <1>3 DEF Visited
  <2> HIDE DEF d
  <2> QED
    BY <2>2, <2>3
<1> QED
  BY <1>2, <1>3

LEMMA VisitHub ==
    ASSUME HubInv, LateInv, NEW e \in Emitter, NEW s \in Session, Visit(e, s)
    PROVE  HubInv' /\ LateInv'
<1>1. /\ em[e] \in Doing /\ em[e].at = "visit" /\ s \in em[e].todo /\ hubLock = e
      /\ em[e].todo \subseteq hub /\ em[e].chans # <<>>
  BY Places DEF Visit, HubInv
<1>2. UNCHANGED <<hub, subs, late, count>>
  BY DEF Visit, sesVars, logVars
<1>3. CASE Head(em[e].chans) \in subs[s]
  <2> DEFINE d == [em[e] EXCEPT !.at = s]
  <2>2. d \in Doing /\ d.at = s /\ d.todo = em[e].todo /\ d.chans = em[e].chans
    BY <1>1, Places DEF Doing
  <2>3. em' = [em EXCEPT ![e] = d] /\ hubLock' = e
    BY <1>1, <1>3 DEF Visit
  <2> HIDE DEF d
  <2> QED
    BY <1>1, <1>2, <1>3, <2>2, <2>3, HubInside, LateKeeps, Places
<1>4. CASE Head(em[e].chans) \notin subs[s]
  <2>1. PICK d \in Doing : /\ em' = [em EXCEPT ![e] = d] /\ d.at \in {"push", "visit"}
                           /\ d.todo \subseteq em[e].todo /\ (d.at = "visit" => d.chans # <<>>)
                           /\ hubLock' = IF d.at = "visit" THEN e ELSE Nobody
    BY <1>1, <1>4, VisitedThread, Places DEF Visit
  <2> QED
    BY <1>1, <1>2, <2>1, HubInside, LateKeeps, Places
<1> QED
  BY <1>3, <1>4

LEMMA PostHub ==
    ASSUME HubInv, LateInv, NEW e \in Emitter, NEW s \in Session, Post(e, s)
    PROVE  HubInv' /\ LateInv'
<1>1. /\ em[e] \in Doing /\ em[e].at = s /\ hubLock = e /\ em[e].at \in Walking
      /\ em[e].todo \subseteq hub
  BY Places DEF Post, HubInv
<1>2. UNCHANGED <<hub, subs, count>>
  BY DEF Post, sesVars, logVars
<1>3. PICK d \in Doing : /\ em' = [em EXCEPT ![e] = d] /\ d.at \in {"push", "visit"}
                         /\ d.todo \subseteq em[e].todo /\ (d.at = "visit" => d.chans # <<>>)
                         /\ hubLock' = IF d.at = "visit" THEN e ELSE Nobody
  BY <1>1, VisitedThread DEF Post
<1>4. HubInv'
  BY <1>1, <1>2, <1>3, HubInside, Places
<1>5. late \in [Emitter -> [Session -> 0..1]]
  BY DEF LateInv
<1>6. /\ late' = [late EXCEPT ![e][s] = IF Head(em[e].chans) \in subs[s] THEN @ ELSE @ + 1]
      /\ Head(em[e].chans) \notin subs[s] => late[e][s] = 0
  <2>1. late[e][s] \in 0..1
    BY <1>5
  <2>2. late[e][s] # 1 => late[e][s] = 0
    BY <2>1
  <2> QED
    BY <1>1, <2>2 DEF Post, LateInv
<1> DEFINE n == IF Head(em[e].chans) \in subs[s] THEN late[e][s] ELSE late[e][s] + 1
<1>7. n \in 0..1 /\ late' = [late EXCEPT ![e] = [late[e] EXCEPT ![s] = n]]
  BY <1>5, <1>6
<1> HIDE DEF n
<1>8. late' \in [Emitter -> [Session -> 0..1]] /\ \A x \in Emitter : x # e => late'[x] = late[x]
  BY <1>5, <1>7
<1>9. em'[e] = d /\ \A x \in Emitter : x # e => em'[x] = em[x]
  BY <1>3 DEF HubInv
<1>10. \A x \in Emitter, y \in Session : em'[x].at = y /\ late'[x][y] = 1 => Head(em'[x].chans) \in subs[y]
  BY <1>3, <1>8, <1>9, Places DEF LateInv
<1> QED
  BY <1>2, <1>4, <1>8, <1>10 DEF LateInv

(* What a step of a session may do to the hub and to the subscriptions. *)
HubFrame(s) == /\ UNCHANGED hubLock
               /\ \/ hub' = hub
                  \/ hubLock = Nobody /\ hub' \subseteq hub \cup {s}
               /\ \/ subs' = subs
                  \/ \E S \in SUBSET Channel : subs' = [subs EXCEPT ![s] = S]

LEMMA CommandFrame ==
    ASSUME NEW s \in Session, subs[s] \subseteq Channel, NEW c \in Command, handle_command(s, c)
    PROVE  HubFrame(s)
<1>1. UNCHANGED hubLock
  BY DEF handle_command
<1>2. c.ch \in Channel
  BY DEF Command
<1>3. hub' = hub
  BY DEF handle_command
<1>4. Perform(s, c) => subs' = subs \/ \E S \in SUBSET Channel : subs' = [subs EXCEPT ![s] = S]
  <2>1. CASE subs' = [subs EXCEPT ![s] = @ \cup {c.ch}]
    <3>1. subs[s] \cup {c.ch} \in SUBSET Channel /\ subs' = [subs EXCEPT ![s] = subs[s] \cup {c.ch}]
      BY <1>2, <2>1
    <3> QED
      BY <3>1
  <2>2. CASE subs' = [subs EXCEPT ![s] = @ \ {c.ch}]
    <3>1. subs[s] \ {c.ch} \in SUBSET Channel /\ subs' = [subs EXCEPT ![s] = subs[s] \ {c.ch}]
      BY <2>2
    <3> QED
      BY <3>1
  <2> QED
    BY <2>1, <2>2 DEF Perform
<1>5. UNCHANGED subs \/ Perform(s, c)
  BY DEF handle_command
<1> QED
  BY <1>1, <1>3, <1>4, <1>5 DEF HubFrame

LEMMA SessionFrame ==
    ASSUME NEW s \in Session, subs[s] \subseteq Channel, SessionStep(s)
    PROVE  HubFrame(s)
<1>1. CASE Posted(s)
  BY <1>1 DEF Posted, remove_session, HubFrame, sesVars
<1>2. CASE Written(s)
  BY <1>2 DEF Written, remove_session, HubFrame, sesVars
<1>3. CASE ReadEnds(s) \/ Joined(s) \/ Closed(s)
  BY <1>3 DEF ReadEnds, Joined, Closed, remove_session, HubFrame, sesVars
<1>4. CASE ProxyFailed(s) \/ ProxyStart(s)
  BY <1>4 DEF ProxyFailed, ProxyStart, HubFrame, sesVars
<1>5. CASE ProxyReady(s)
  <2>1. subs' = [subs EXCEPT ![s] = {}] /\ {} \in SUBSET Channel
    BY <1>5 DEF ProxyReady
  <2>2. UNCHANGED <<hub, hubLock>>
    BY <1>5 DEF ProxyReady
  <2> QED
    BY <2>1, <2>2 DEF HubFrame
<1>6. CASE Connect(s) \/ ClientGone(s) \/ Forward(s)
  BY <1>6 DEF Connect, ClientGone, Forward, HubFrame, sesVars
<1>7. ASSUME NEW c \in Command, handle_command(s, c)
      PROVE  HubFrame(s)
  BY <1>7, CommandFrame
<1>8. CASE Proxied(s)
  BY <1>8 DEF Proxied, ProxyRead, ProxyPosted, ProxyWritten, ProxyClosed, HubFrame, sesVars
<1> QED
  BY <1>1, <1>2, <1>3, <1>4, <1>5, <1>6, <1>7, <1>8 DEF SessionStep, Handler, Waited, Client

LEMMA SessionHub ==
    ASSUME HubInv, LateInv, NEW s \in Session, SessionStep(s)
    PROVE  HubInv' /\ LateInv'
<1>1. /\ UNCHANGED <<em, count>>
      /\ late' = [e \in Emitter |-> [late[e] EXCEPT ![s] = IF subs'[s] = subs[s] THEN @ ELSE 0]]
  BY DEF SessionStep, Unsubscribed, logVars
<1>2. HubFrame(s)
  BY SessionFrame DEF LateInv
<1>3. HubInv'
  <2>1. CASE hub' = hub
    BY <1>1, <1>2, <2>1 DEF HubFrame, HubInv
  <2>2. CASE hubLock = Nobody /\ hub' \subseteq hub \cup {s}
    <3>1. \A e \in Emitter : em[e].at \notin Walking
      BY <2>2, WsAssumption DEF HubInv
    <3> QED
      BY <1>1, <1>2, <2>2, <3>1 DEF HubFrame, HubInv
  <2> QED
    BY <1>2, <2>1, <2>2 DEF HubFrame
<1>4. late \in [Emitter -> [Session -> 0..1]] /\ subs \in [Session -> SUBSET Channel]
  BY DEF LateInv
<1>5. /\ subs' \in [Session -> SUBSET Channel]
      /\ \A x \in Session : x # s => subs'[x] = subs[x]
  BY <1>2, <1>4 DEF HubFrame
<1>6. late' \in [Emitter -> [Session -> 0..1]]
  BY <1>1, <1>4
<1>7. \A e \in Emitter : /\ \A x \in Session : x # s => late'[e][x] = late[e][x]
                         /\ late'[e][s] = IF subs'[s] = subs[s] THEN late[e][s] ELSE 0
  BY <1>1, <1>4
<1>8. \A e \in Emitter, x \in Session : late'[e][x] = 1 => late[e][x] = 1 /\ subs'[x] = subs[x]
  BY <1>5, <1>7
<1>9. \A e \in Emitter, x \in Session : em'[e].at = x /\ late'[e][x] = 1 => Head(em'[e].chans) \in subs'[x]
  BY <1>1, <1>8 DEF LateInv
<1> QED
  BY <1>3, <1>5, <1>6, <1>9 DEF LateInv

LEMMA HubStays ==
    ASSUME HubInv, LateInv, UNCHANGED <<em, count, hub, hubLock, subs, late>>
    PROVE  HubInv' /\ LateInv'
BY DEF HubInv, LateInv

LEMMA HubStep ==
    ASSUME HubInv, LateInv, [Next]_vars
    PROVE  HubInv' /\ LateInv'
<1>1. ASSUME NEW e \in Emitter, Emitting(e)
      PROVE  HubInv' /\ LateInv'
  <2>1. ASSUME NEW k \in Key, emit(e, k)
        PROVE  HubInv' /\ LateInv'
    <3>1. shouldPrune \in BOOLEAN
      BY DEF shouldPrune
    <3>2. /\ em[e].at = "idle" /\ count' = count + 1 /\ Begun(e, "log", k, shouldPrune)
          /\ UNCHANGED <<hub, hubLock, subs, late>>
      BY <2>1 DEF emit, WsQuiet, sesVars
    <3>3. \A p \in BOOLEAN : Begun(e, "log", k, p) => HubInv' /\ LateInv'
      BY <3>2, BegunHub
    <3> QED
      BY <3>1, <3>2, <3>3
  <2>2. ASSUME NEW k \in Key, pushTaskEvent(e, k)
        PROVE  HubInv' /\ LateInv'
    <3>2. /\ em[e].at = "idle" /\ count' = count + 1 /\ Begun(e, "event", k, FALSE)
          /\ UNCHANGED <<hub, hubLock, subs, late>>
      BY <2>2 DEF pushTaskEvent, WsQuiet, sesVars
    <3>3. \A p \in BOOLEAN : Begun(e, "event", k, p) => HubInv' /\ LateInv'
      BY <3>2, BegunHub
    <3> QED
      BY <3>2, <3>3
  <2>3. CASE Sink(e) \/ Prune(e)
    BY <2>3, SinkHub
  <2>4. CASE Broadcast(e)
    BY <2>4, BroadcastHub
  <2>5. CASE \E s \in Session : Visit(e, s) \/ Post(e, s)
    BY <2>5, VisitHub, PostHub
  <2> QED
    BY <1>1, <2>1, <2>2, <2>3, <2>4, <2>5 DEF Emitting, stdoutLine, stderrLine, emitEvent
<1>2. CASE \E s \in Session : SessionStep(s)
  BY <1>2, SessionHub
<1>3. CASE \E k \in Key : GrowOld(k)
  BY <1>3, HubStays DEF GrowOld, WsQuiet, sesVars
<1>4. CASE \E limit \in PageSize : query(limit)
  BY <1>4, HubStays DEF query, WsQuiet, sesVars
<1>5. CASE BroadcastAll
  BY <1>5, HubStays DEF BroadcastAll, sesVars, logVars
<1>6. CASE Tokens
  BY <1>6, HubStays DEF Tokens, login, Expire, sesVars, logVars
<1>7. CASE UNCHANGED vars
  BY <1>7, HubStays DEF vars, wsVars, sesVars
<1> QED
  BY <1>1, <1>2, <1>3, <1>4, <1>5, <1>6, <1>7 DEF Next

LEMMA HubInit == Init => HubInv /\ LateInv
<1> SUFFICES ASSUME Init PROVE HubInv /\ LateInv
  OBVIOUS
<1>1. /\ em = [e \in Emitter |-> Idle] /\ hub = {} /\ hubLock = Nobody /\ count = 0
      /\ subs = [s \in Session |-> {}] /\ late = [e \in Emitter |-> [s \in Session |-> 0]]
  BY DEF Init, WsInit
<1>2. Idle \in Doing /\ Idle.at = "idle"
  BY DEF Idle, Doing
<1>3. HubInv
  BY <1>1, <1>2, Places, WsAssumption DEF HubInv
<1>4. LateInv
  BY <1>1, <1>2, Places DEF LateInv
<1> QED
  BY <1>3, <1>4

(* WsHub::broadcast asks for the subscription and then posts, and a session may give *)
(* it up in between: however the threads and the sessions interleave, a thread posts *)
(* at most one text to it after that, and none to a session that has left the hub.   *)
THEOREM LatePushesAreBounded == Spec => []AtMostOneLatePush
<1>1. HubInv /\ LateInv /\ [Next]_vars => HubInv' /\ LateInv'
  BY HubStep
<1>2. HubInv /\ LateInv => AtMostOneLatePush
  <2> SUFFICES ASSUME HubInv, LateInv, NEW e \in Emitter, NEW s \in Session
               PROVE  late[e][s] <= 1 /\ (em[e].at = s => s \in hub)
    BY DEF AtMostOneLatePush
  <2>1. late[e][s] <= 1
    BY DEF LateInv
  <2>2. em[e].at = s => s \in hub
    BY Places DEF HubInv
  <2> QED
    BY <2>1, <2>2
<1> QED
  BY <1>1, <1>2, HubInit, PTL DEF Spec

-----------------------------------------------------------------------------
(***************************************************************************)
(* The texts on their way.  What is posted to a session, behind what is in *)
(* its write queue, is one sequence: a step of the session takes elements  *)
(* out of it and never changes their order.  The records of a thread in it *)
(* lie between what the client has seen and what the thread is about to    *)
(* push.                                                                   *)
(***************************************************************************)
Word     == {<<w>> : w \in {"authed", "pong", "proxy_error", "proxy_ready", "proxy_closed", "worker", "all"}}
Push     == {"log", "event"} \X Emitter \X Nat
AnyText  == Word \cup Push
Row      == [key : Key, id : Nat]

Mine(x, e) == Len(x) = 3 /\ x[2] = e

Stored == unsaved \cup {events[i].id : i \in DOMAIN events}

(* The records of e that may be on their way have numbers up to this one. *)
High(e) == IF em[e].at = "idle" THEN count ELSE em[e].id

Ordered(q, e, low, high, stored) ==
    /\ low <= high
    /\ \A i \in DOMAIN q : Mine(q[i], e) => /\ low <= q[i][3] /\ q[i][3] <= high
                                            /\ q[i][1] = "event" => q[i][3] \in stored
    /\ \A i, j \in DOMAIN q : Mine(q[i], e) /\ Mine(q[j], e) /\ i < j => q[i][3] <= q[j][3]

QueueType == /\ posted \in [Session -> Seq(AnyText)] /\ wq \in [Session -> Seq(AnyText)]
             /\ writing \in [Session -> BOOLEAN] /\ seen \in [Session -> [Emitter -> Nat]]
             /\ \A s \in Session : writing[s] => wq[s] # <<>>
             /\ events \in Seq(Row)

EmitInv == \A e \in Emitter : /\ em[e].id <= count
                              /\ em[e].at # "idle" /\ em[e].topic = "event" => em[e].id \in Stored

OrderInv == \A s \in Session, e \in Emitter :
                Ordered(wq[s] \o posted[s], e, seen[s][e], High(e), Stored)

StreamInv == HubInv /\ LateInv /\ QueueType /\ EmitInv /\ OrderInv

LEMMA TextFacts ==
    /\ \A x \in Word : Len(x) # 3 /\ x \in AnyText
    /\ \A x \in Push : x[1] \in {"log", "event"} /\ x[2] \in Emitter /\ x[3] \in Nat /\ x \in AnyText
    /\ \A x \in AnyText : Len(x) = 3 => x \in Push
<1>1. \A x \in Word : Len(x) # 3 /\ x \in AnyText
  BY DEF Word, AnyText
<1>2. \A x \in Push : x[1] \in {"log", "event"} /\ x[2] \in Emitter /\ x[3] \in Nat /\ x \in AnyText
  BY DEF Push, AnyText
<1>3. \A x \in AnyText : Len(x) = 3 => x \in Push
  BY <1>1 DEF AnyText
<1> QED
  BY <1>1, <1>2, <1>3

LEMMA MineNumber ==
    ASSUME NEW q \in Seq(AnyText), NEW e
    PROVE  \A i \in DOMAIN q : Mine(q[i], e) => q[i][3] \in Nat /\ q[i] \in Push
<1>1. \A i \in DOMAIN q : q[i] \in AnyText
  OBVIOUS
<1> QED
  BY <1>1, TextFacts DEF Mine

(* p is what is left of q when elements are taken out. *)
Thins(p, q, f) == /\ \A i \in DOMAIN p : f[i] \in DOMAIN q /\ p[i] = q[f[i]]
                  /\ \A i, j \in DOMAIN p : i < j => f[i] < f[j]

LEMMA ThinsKeeps ==
    ASSUME NEW p, NEW q, NEW f, NEW e, NEW low, NEW high, NEW S,
           Ordered(q, e, low, high, S), Thins(p, q, f)
    PROVE  Ordered(p, e, low, high, S)
<1>1. \A i \in DOMAIN p : f[i] \in DOMAIN q /\ p[i] = q[f[i]]
  BY DEF Thins
<1>2. \A i, j \in DOMAIN p : i < j => f[i] < f[j]
  BY DEF Thins
<1>3. \A i \in DOMAIN p : Mine(p[i], e) => /\ low <= p[i][3] /\ p[i][3] <= high
                                           /\ p[i][1] = "event" => p[i][3] \in S
  BY <1>1 DEF Ordered
<1>4. \A i, j \in DOMAIN p : Mine(p[i], e) /\ Mine(p[j], e) /\ i < j => p[i][3] <= p[j][3]
  BY <1>1, <1>2 DEF Ordered
<1> QED
  BY <1>3, <1>4 DEF Ordered

LEMMA OrderedWider ==
    ASSUME NEW q \in Seq(AnyText), NEW e, NEW low \in Nat, NEW high \in Nat, NEW S,
           NEW more \in Nat, NEW T, high <= more, S \subseteq T, Ordered(q, e, low, high, S)
    PROVE  Ordered(q, e, low, more, T)
<1>1. \A i \in DOMAIN q : Mine(q[i], e) => /\ low <= q[i][3] /\ q[i][3] <= more
                                           /\ q[i][1] = "event" => q[i][3] \in T
  BY MineNumber DEF Ordered
<1> QED
  BY <1>1 DEF Ordered

LEMMA OrderedAppend ==
    ASSUME NEW q \in Seq(AnyText), NEW x \in AnyText, NEW e, NEW low \in Nat, NEW high \in Nat, NEW S,
           Mine(x, e) => x[3] = high /\ (x[1] = "event" => x[3] \in S), Ordered(q, e, low, high, S)
    PROVE  Ordered(Append(q, x), e, low, high, S)
<1> DEFINE a == Append(q, x)
<1>1. /\ Len(q) \in Nat /\ DOMAIN q = 1 .. Len(q) /\ DOMAIN a = 1 .. (Len(q) + 1)
      /\ a[Len(q) + 1] = x /\ \A i \in 1 .. Len(q) : a[i] = q[i]
  OBVIOUS
<1> HIDE DEF a
<1>2. \A i \in DOMAIN a : \/ i \in DOMAIN q /\ a[i] = q[i]
                          \/ i = Len(q) + 1 /\ a[i] = x
  BY <1>1
<1>3. low <= high
  BY DEF Ordered
<1>4. \A i \in DOMAIN a : Mine(a[i], e) => /\ low <= a[i][3] /\ a[i][3] <= high
                                           /\ a[i][1] = "event" => a[i][3] \in S
  BY <1>2, <1>3 DEF Ordered
<1>5. ASSUME NEW i \in DOMAIN a, NEW j \in DOMAIN a, Mine(a[i], e), Mine(a[j], e), i < j
      PROVE  a[i][3] <= a[j][3]
  <2>1. i \in DOMAIN q /\ a[i] = q[i]
    BY <1>1, <1>5
  <2>2. CASE j \in DOMAIN q
    <3>1. a[j] = q[j]
      BY <1>1, <2>2
    <3> QED
      BY <1>5, <2>1, <2>2, <3>1 DEF Ordered
  <2>3. CASE j = Len(q) + 1
    <3>1. a[j] = x
      BY <1>1, <2>3
    <3> QED
      BY <1>4, <1>5, <3>1
  <2> QED
    BY <1>2, <2>2, <2>3
<1> QED
  BY <1>3, <1>4, <1>5 DEF Ordered, a

(* The client receives the first text. *)
LEMMA OrderedTail ==
    ASSUME NEW q \in Seq(AnyText), q # <<>>, NEW e, NEW low \in Nat, NEW high \in Nat, NEW S,
           Ordered(q, e, low, high, S)
    PROVE  Ordered(Tail(q), e, IF Mine(q[1], e) THEN q[1][3] ELSE low, high, S)
<1> DEFINE t == Tail(q)
           n == IF Mine(q[1], e) THEN q[1][3] ELSE low
           f == [i \in DOMAIN t |-> i + 1]
<1>1. /\ 1 \in DOMAIN q /\ DOMAIN t \subseteq Nat
      /\ \A i \in DOMAIN t : i + 1 \in DOMAIN q /\ 1 < i + 1 /\ t[i] = q[i + 1]
      /\ \A i, j \in DOMAIN t : i < j => i + 1 < j + 1
  OBVIOUS
<1> HIDE DEF t
<1>2. Thins(t, q, f)
  BY <1>1 DEF Thins
<1>3. Ordered(t, e, low, high, S)
  BY <1>2, ThinsKeeps
<1>4. n <= high
  BY <1>1 DEF Ordered
<1>5. \A i \in DOMAIN t : Mine(t[i], e) => n <= t[i][3]
  BY <1>1, <1>3 DEF Ordered
<1> HIDE DEF n
<1>6. Ordered(t, e, n, high, S)
  BY <1>3, <1>4, <1>5 DEF Ordered
<1> QED
  BY <1>6 DEF t, n

(* Where the elements of w \o p are found when p is behind w. *)
LEMMA CatFacts ==
    ASSUME NEW w \in Seq(AnyText), NEW p \in Seq(AnyText)
    PROVE  /\ w \o p \in Seq(AnyText) /\ Len(w) \in Nat /\ Len(p) \in Nat
           /\ DOMAIN (w \o p) = 1 .. (Len(w) + Len(p))
           /\ \A i \in 1 .. Len(w) : (w \o p)[i] = w[i]
           /\ \A i \in 1 .. Len(p) : (w \o p)[Len(w) + i] = p[i]
<1>1. /\ w \o p \in Seq(AnyText) /\ Len(w) \in Nat /\ Len(p) \in Nat
      /\ Len(w \o p) = Len(w) + Len(p)
      /\ \A i \in 1 .. (Len(w) + Len(p)) : (w \o p)[i] = IF i <= Len(w) THEN w[i] ELSE p[i - Len(w)]
  BY ConcatProperties
<1>2. DOMAIN (w \o p) = 1 .. (Len(w) + Len(p))
  BY <1>1
<1>3. \A i \in 1 .. Len(w) : (w \o p)[i] = w[i]
  BY <1>1
<1>4. \A i \in 1 .. Len(p) : (w \o p)[Len(w) + i] = p[i]
  <2>1. SUFFICES ASSUME NEW i \in 1 .. Len(p) PROVE (w \o p)[Len(w) + i] = p[i]
    OBVIOUS
  <2>2. Len(w) + i \in 1 .. (Len(w) + Len(p)) /\ ~(Len(w) + i <= Len(w)) /\ (Len(w) + i) - Len(w) = i
    BY <1>1
  <2> QED
    BY <1>1, <2>2
<1> QED
  BY <1>1, <1>2, <1>3, <1>4

(* A handler of send puts the text into the write queue, at the same place. *)
LEMMA CatMove ==
    ASSUME NEW w \in Seq(AnyText), NEW p \in Seq(AnyText), p # <<>>, NEW e, NEW low, NEW high, NEW S,
           Ordered(w \o p, e, low, high, S)
    PROVE  Ordered(Append(w, Head(p)) \o Tail(p), e, low, high, S)
<1> DEFINE v == Append(w, Head(p))
           t == Tail(p)
           n == v \o t
           m == w \o p
           f == [i \in DOMAIN n |-> i]
<1>1. /\ v \in Seq(AnyText) /\ t \in Seq(AnyText) /\ Len(v) = Len(w) + 1 /\ Len(t) = Len(p) - 1
      /\ Len(p) \in Nat \ {0} /\ Len(w) \in Nat /\ v[Len(w) + 1] = p[1]
      /\ \A i \in 1 .. Len(w) : v[i] = w[i]
      /\ \A i \in 1 .. Len(t) : t[i] = p[i + 1] /\ i + 1 \in 1 .. Len(p)
  OBVIOUS
<1> HIDE DEF v, t
<1>2. /\ DOMAIN n = 1 .. (Len(v) + Len(t))
      /\ \A i \in 1 .. Len(v) : n[i] = v[i]
      /\ \A i \in 1 .. Len(t) : n[Len(v) + i] = t[i]
  BY <1>1, CatFacts
<1>3. /\ DOMAIN m = 1 .. (Len(w) + Len(p))
      /\ \A i \in 1 .. Len(w) : m[i] = w[i]
      /\ \A i \in 1 .. Len(p) : m[Len(w) + i] = p[i]
  BY CatFacts
<1> HIDE DEF n, m
<1>4. DOMAIN n = DOMAIN m
  BY <1>1, <1>2, <1>3
<1>5. ASSUME NEW i \in DOMAIN n
      PROVE  n[i] = m[i]
  <2>1. CASE i \in 1 .. Len(w)
    BY <1>1, <1>2, <1>3, <2>1
  <2>2. CASE i = Len(w) + 1
    <3>1. 1 \in 1 .. Len(p) /\ i \in 1 .. Len(v)
      BY <1>1, <2>2
    <3> QED
      BY <1>1, <1>2, <1>3, <2>2, <3>1
  <2>3. CASE i \notin 1 .. Len(w) /\ i # Len(w) + 1
    <3> DEFINE j == i - Len(v)
    <3>1. j \in 1 .. Len(t) /\ i = Len(v) + j /\ i = Len(w) + (j + 1)
      BY <1>1, <1>2, <2>3
    <3> HIDE DEF j
    <3>2. n[Len(v) + j] = t[j] /\ t[j] = p[j + 1] /\ m[Len(w) + (j + 1)] = p[j + 1]
      BY <1>1, <1>2, <1>3, <3>1
    <3> QED
      BY <3>1, <3>2
  <2> QED
    BY <2>1, <2>2, <2>3
<1>6. Thins(n, m, f)
  BY <1>4, <1>5 DEF Thins
<1>7. Ordered(n, e, low, high, S)
  BY <1>6, ThinsKeeps DEF m
<1> QED
  BY <1>7 DEF n, v, t

(* The write queue is full: the text is dropped. *)
LEMMA CatDrop ==
    ASSUME NEW w \in Seq(AnyText), NEW p \in Seq(AnyText), p # <<>>, NEW e, NEW low, NEW high, NEW S,
           Ordered(w \o p, e, low, high, S)
    PROVE  Ordered(w \o Tail(p), e, low, high, S)
<1> DEFINE t == Tail(p)
           n == w \o t
           m == w \o p
           f == [i \in DOMAIN n |-> IF i <= Len(w) THEN i ELSE i + 1]
<1>1. /\ t \in Seq(AnyText) /\ Len(t) = Len(p) - 1
      /\ Len(p) \in Nat \ {0} /\ Len(w) \in Nat
      /\ \A i \in 1 .. Len(t) : t[i] = p[i + 1] /\ i + 1 \in 1 .. Len(p)
  OBVIOUS
<1> HIDE DEF t
<1>2. /\ DOMAIN n = 1 .. (Len(w) + Len(t))
      /\ \A i \in 1 .. Len(w) : n[i] = w[i]
      /\ \A i \in 1 .. Len(t) : n[Len(w) + i] = t[i]
  BY <1>1, CatFacts
<1>3. /\ DOMAIN m = 1 .. (Len(w) + Len(p))
      /\ \A i \in 1 .. Len(w) : m[i] = w[i]
      /\ \A i \in 1 .. Len(p) : m[Len(w) + i] = p[i]
  BY CatFacts
<1> HIDE DEF n, m
<1>4. \A i \in DOMAIN n : f[i] \in DOMAIN m
  BY <1>1, <1>2, <1>3
<1>5. ASSUME NEW i \in DOMAIN n
      PROVE  n[i] = m[f[i]]
  <2>1. CASE i <= Len(w)
    <3>1. i \in 1 .. Len(w) /\ f[i] = i
      BY <1>2, <2>1
    <3> QED
      BY <1>2, <1>3, <3>1
  <2>3. CASE ~(i <= Len(w))
    <3> DEFINE j == i - Len(w)
    <3>1. j \in 1 .. Len(t) /\ i = Len(w) + j /\ f[i] = Len(w) + (j + 1)
      BY <1>1, <1>2, <2>3
    <3> HIDE DEF j, f
    <3>2. n[Len(w) + j] = t[j] /\ t[j] = p[j + 1] /\ m[Len(w) + (j + 1)] = p[j + 1]
      BY <1>1, <1>2, <1>3, <3>1
    <3> QED
      BY <3>1, <3>2
  <2> QED
    BY <2>1, <2>3
<1>6. \A i, j \in DOMAIN n : i < j => f[i] < f[j]
  BY <1>1, <1>2
<1> HIDE DEF f
<1>7. Thins(n, m, f)
  BY <1>4, <1>5, <1>6 DEF Thins
<1>8. Ordered(n, e, low, high, S)
  BY <1>7, ThinsKeeps DEF m
<1> QED
  BY <1>8 DEF n, t

(* The first text of the write queue was sent. *)
LEMMA CatSent ==
    ASSUME NEW w \in Seq(AnyText), NEW p \in Seq(AnyText), w # <<>>, NEW e,
           NEW low \in Nat, NEW high \in Nat, NEW S, Ordered(w \o p, e, low, high, S)
    PROVE  Ordered(Tail(w) \o p, e, IF Mine(Head(w), e) THEN Head(w)[3] ELSE low, high, S)
<1> DEFINE t == Tail(w)
           n == t \o p
           m == w \o p
           r == Tail(m)
           f == [i \in DOMAIN n |-> i]
<1>1. /\ t \in Seq(AnyText) /\ Len(t) = Len(w) - 1 /\ Head(w) = w[1]
      /\ Len(p) \in Nat /\ Len(w) \in Nat \ {0} /\ 1 \in 1 .. Len(w)
      /\ \A i \in 1 .. Len(t) : t[i] = w[i + 1] /\ i + 1 \in 1 .. Len(w)
  OBVIOUS
<1> HIDE DEF t
<1>2. /\ DOMAIN n = 1 .. (Len(t) + Len(p))
      /\ \A i \in 1 .. Len(t) : n[i] = t[i]
      /\ \A i \in 1 .. Len(p) : n[Len(t) + i] = p[i]
  BY <1>1, CatFacts
<1>3. /\ m \in Seq(AnyText) /\ DOMAIN m = 1 .. (Len(w) + Len(p))
      /\ \A i \in 1 .. Len(w) : m[i] = w[i]
      /\ \A i \in 1 .. Len(p) : m[Len(w) + i] = p[i]
  BY CatFacts
<1> HIDE DEF n, m
<1>4. Len(m) = Len(w) + Len(p) /\ m # <<>> /\ m[1] = Head(w)
  BY <1>1, <1>3
<1>5. DOMAIN r = 1 .. (Len(m) - 1) /\ \A i \in DOMAIN r : r[i] = m[i + 1]
  BY <1>3, <1>4
<1> HIDE DEF r
<1>6. DOMAIN n = DOMAIN r
  BY <1>1, <1>2, <1>4, <1>5
<1>7. ASSUME NEW i \in DOMAIN n
      PROVE  n[i] = r[i]
  <2>1. CASE i <= Len(t)
    <3>1. i \in 1 .. Len(t)
      BY <1>1, <1>2, <2>1
    <3>2. n[i] = w[i + 1] /\ i + 1 \in 1 .. Len(w)
      BY <1>1, <1>2, <3>1
    <3>3. r[i] = m[i + 1]
      BY <1>5, <1>6
    <3> QED
      BY <1>3, <3>2, <3>3
  <2>2. CASE ~(i <= Len(t))
    <3> DEFINE j == i - Len(t)
    <3>1. j \in 1 .. Len(p) /\ i = Len(t) + j /\ i + 1 = Len(w) + j
      BY <1>1, <1>2, <2>2
    <3> HIDE DEF j
    <3>2. n[i] = p[j] /\ m[i + 1] = p[j]
      BY <1>2, <1>3, <3>1
    <3> QED
      BY <1>5, <1>6, <3>2
  <2> QED
    BY <2>1, <2>2
<1>8. Ordered(r, e, IF Mine(m[1], e) THEN m[1][3] ELSE low, high, S)
  BY <1>3, <1>4, OrderedTail DEF m, r
<1>9. Thins(n, r, f)
  BY <1>6, <1>7 DEF Thins
<1>10. Ordered(n, e, IF Mine(m[1], e) THEN m[1][3] ELSE low, high, S)
  BY <1>8, <1>9, ThinsKeeps
<1> QED
  BY <1>4, <1>10 DEF n, t

(* One more text is posted. *)
LEMMA CatPost ==
    ASSUME NEW w \in Seq(AnyText), NEW p \in Seq(AnyText), NEW x \in AnyText, NEW e,
           NEW low \in Nat, NEW high \in Nat, NEW S,
           Mine(x, e) => x[3] = high /\ (x[1] = "event" => x[3] \in S), Ordered(w \o p, e, low, high, S)
    PROVE  Ordered(w \o Append(p, x), e, low, high, S)
<1> DEFINE a == Append(p, x)
           n == w \o a
           m == w \o p
           r == Append(m, x)
           f == [i \in DOMAIN n |-> i]
<1>1. /\ a \in Seq(AnyText) /\ Len(a) = Len(p) + 1 /\ Len(p) \in Nat /\ Len(w) \in Nat
      /\ a[Len(p) + 1] = x /\ \A i \in 1 .. Len(p) : a[i] = p[i]
  OBVIOUS
<1> HIDE DEF a
<1>2. /\ DOMAIN n = 1 .. (Len(w) + Len(a))
      /\ \A i \in 1 .. Len(w) : n[i] = w[i]
      /\ \A i \in 1 .. Len(a) : n[Len(w) + i] = a[i]
  BY <1>1, CatFacts
<1>3. /\ m \in Seq(AnyText) /\ DOMAIN m = 1 .. (Len(w) + Len(p))
      /\ \A i \in 1 .. Len(w) : m[i] = w[i]
      /\ \A i \in 1 .. Len(p) : m[Len(w) + i] = p[i]
  BY CatFacts
<1> HIDE DEF n, m
<1>4. Len(m) = Len(w) + Len(p)
  BY <1>1, <1>3
<1>5. DOMAIN r = 1 .. (Len(m) + 1) /\ r[Len(m) + 1] = x /\ \A i \in 1 .. Len(m) : r[i] = m[i]
  BY <1>3
<1> HIDE DEF r
<1>6. DOMAIN n = DOMAIN r
  BY <1>1, <1>2, <1>4, <1>5
<1>7. ASSUME NEW i \in DOMAIN n
      PROVE  n[i] = r[i]
  <2>1. CASE i <= Len(w)
    <3>1. i \in 1 .. Len(w) /\ i \in 1 .. Len(m)
      BY <1>1, <1>2, <1>4, <2>1
    <3> QED
      BY <1>2, <1>3, <1>5, <3>1
  <2>2. CASE ~(i <= Len(w))
    <3> DEFINE j == i - Len(w)
    <3>1. j \in 1 .. Len(a) /\ i = Len(w) + j /\ j \in Nat
      BY <1>1, <1>2, <2>2
    <3> HIDE DEF j
    <3>2. n[i] = a[j]
      BY <1>2, <3>1
    <3>3. CASE j = Len(p) + 1
      BY <1>1, <1>4, <1>5, <3>1, <3>2, <3>3
    <3>4. CASE j # Len(p) + 1
      <4>1. j \in 1 .. Len(p) /\ i \in 1 .. Len(m)
        BY <1>1, <1>4, <3>1, <3>4
      <4> QED
        BY <1>1, <1>3, <1>5, <3>1, <3>2, <4>1
    <3> QED
      BY <3>3, <3>4
  <2> QED
    BY <2>1, <2>2
<1>8. Ordered(r, e, low, high, S)
  BY <1>3, OrderedAppend DEF m, r
<1>9. Thins(n, r, f)
  BY <1>6, <1>7 DEF Thins
<1>10. Ordered(n, e, low, high, S)
  BY <1>8, <1>9, ThinsKeeps
<1> QED
  BY <1>10 DEF n, a

(* Nothing happens to the texts; the numbers and the table may grow. *)
LEMMA OrderStays ==
    ASSUME StreamInv, UNCHANGED <<posted, wq, seen>>, Stored \subseteq Stored',
           \A e \in Emitter : High(e) \in Nat /\ High(e)' \in Nat /\ High(e) <= High(e)'
    PROVE  OrderInv'
<1>1. SUFFICES ASSUME NEW s \in Session, NEW e \in Emitter
               PROVE  Ordered(wq[s] \o posted[s], e, seen[s][e], High(e)', Stored')
  BY DEF OrderInv
<1>2. wq[s] \in Seq(AnyText) /\ posted[s] \in Seq(AnyText) /\ seen[s][e] \in Nat
  BY DEF StreamInv, QueueType
<1>3. wq[s] \o posted[s] \in Seq(AnyText)
  BY <1>2
<1>4. Ordered(wq[s] \o posted[s], e, seen[s][e], High(e), Stored)
  BY DEF StreamInv, OrderInv
<1>5. \A more \in Nat : \A T : High(e) <= more /\ Stored \subseteq T =>
         Ordered(wq[s] \o posted[s], e, seen[s][e], more, T)
  BY <1>2, <1>3, <1>4, OrderedWider
<1> QED
  BY <1>5

LEMMA HighType == StreamInv => \A e \in Emitter : High(e) \in Nat
BY DEF StreamInv, HubInv, Doing, High

(* A thread that is at work keeps its record until it is done. *)
ThreadFrame(e) ==
    /\ \A x \in Emitter : x # e => em'[x] = em[x]
    /\ em[e].at # "idle"
    /\ \/ em'[e] = Idle
       \/ em'[e].at # "idle" /\ em'[e].id = em[e].id /\ em'[e].topic = em[e].topic

LEMMA ThreadMoves ==
    ASSUME StreamInv, HubInv', NEW e \in Emitter, ThreadFrame(e), UNCHANGED <<count, events, unsaved>>
    PROVE  EmitInv' /\ \A x \in Emitter : High(x) \in Nat /\ High(x)' \in Nat /\ High(x) <= High(x)'
<1>1. Stored' = Stored /\ count \in Nat /\ \A x \in Emitter : em[x].id \in Nat /\ em'[x].id \in Nat
  BY DEF Stored, StreamInv, HubInv, Doing
<1>2. Idle.id = 0 /\ Idle.at = "idle"
  BY DEF Idle
<1>3. \A x \in Emitter : em[x].id <= count
  BY DEF StreamInv, EmitInv
<1>4. \A x \in Emitter : em'[x].id <= count
  BY <1>1, <1>2, <1>3 DEF ThreadFrame
<1>5. \A x \in Emitter : em'[x].at # "idle" /\ em'[x].topic = "event" => em'[x].id \in Stored
  BY <1>2 DEF ThreadFrame, StreamInv, EmitInv
<1>6. EmitInv'
  BY <1>1, <1>4, <1>5 DEF EmitInv
<1>7. \A x \in Emitter : High(x) \in Nat /\ High(x)' \in Nat /\ High(x) <= High(x)'
  BY <1>1, <1>2, <1>3 DEF ThreadFrame, High
<1> QED
  BY <1>6, <1>7

LEMMA ThreadFrames ==
    ASSUME HubInv, NEW e \in Emitter,
           Broadcast(e) \/ Sink(e) \/ Prune(e) \/ \E s \in Session : Visit(e, s) \/ Post(e, s)
    PROVE  ThreadFrame(e)
<1>1. em \in [Emitter -> Doing] /\ em[e] \in Doing
  BY DEF HubInv
<1>2. ASSUME NEW d, em' = [em EXCEPT ![e] = d], em[e].at # "idle",
             d = Idle \/ (d.at # "idle" /\ d.id = em[e].id /\ d.topic = em[e].topic)
      PROVE  ThreadFrame(e)
  <2>1. em'[e] = d /\ \A x \in Emitter : x # e => em'[x] = em[x]
    BY <1>1, <1>2
  <2> QED
    BY <1>2, <2>1 DEF ThreadFrame
<1>3. ASSUME NEW s \in Session, em[e].at \in Walking, Visited(e, s)
      PROVE  ThreadFrame(e)
  <2>1. PICK d \in Doing : /\ em' = [em EXCEPT ![e] = d] /\ d.at \in {"push", "visit"}
                           /\ d.topic = em[e].topic /\ d.id = em[e].id
    BY <1>3, VisitedThread
  <2> QED
    BY <1>2, <1>3, <2>1, Places
<1>4. ASSUME NEW s \in Session, Post(e, s)
      PROVE  ThreadFrame(e)
  BY <1>3, <1>4, Places DEF Post
<1>5. ASSUME NEW s \in Session, Visit(e, s)
      PROVE  ThreadFrame(e)
  <2> DEFINE d == [em[e] EXCEPT !.at = s]
  <2>1. em[e].at = "visit"
    BY <1>5 DEF Visit
  <2>2. d.at # "idle" /\ d.id = em[e].id /\ d.topic = em[e].topic
    BY <1>1, Places DEF Doing
  <2>3. em' = [em EXCEPT ![e] = d] \/ Visited(e, s)
    BY <1>5 DEF Visit
  <2> HIDE DEF d
  <2> QED
    BY <1>2, <1>3, <2>1, <2>2, <2>3, Places
<1>6. CASE Prune(e)
  BY <1>2, <1>6 DEF Prune
<1>7. CASE Sink(e)
  <2> DEFINE d == [em[e] EXCEPT !.at = "prune"]
  <2>2. d.at # "idle" /\ d.id = em[e].id /\ d.topic = em[e].topic
    BY <1>1 DEF Doing
  <2>3. em[e].at = "push" /\ (em' = [em EXCEPT ![e] = d] \/ em' = [em EXCEPT ![e] = Idle])
    BY <1>7 DEF Sink
  <2> HIDE DEF d
  <2> QED
    BY <1>2, <2>2, <2>3
<1>8. CASE Broadcast(e)
  <2> DEFINE c == [em[e] EXCEPT !.chans = Tail(em[e].chans)]
             d == [em[e] EXCEPT !.at = "visit", !.todo = hub]
  <2>1. em[e].at = "push" /\ (em' = [em EXCEPT ![e] = c] \/ em' = [em EXCEPT ![e] = d])
    BY <1>8 DEF Broadcast
  <2>2. /\ c.at = em[e].at /\ c.id = em[e].id /\ c.topic = em[e].topic
        /\ d.at = "visit" /\ d.id = em[e].id /\ d.topic = em[e].topic
    BY <1>1 DEF Doing
  <2> HIDE DEF c, d
  <2> QED
    BY <1>2, <2>1, <2>2
<1> QED
  BY <1>4, <1>5, <1>6, <1>7, <1>8

(* A record more: its number is higher than all before it. *)
LEMMA BegunStream ==
    ASSUME StreamInv, HubInv', NEW e \in Emitter, NEW t \in {"log", "event"}, NEW k \in Key, NEW p,
           em[e].at = "idle", count' = count + 1, Begun(e, t, k, p), UNCHANGED outVars,
           Stored \subseteq Stored', t = "event" => count' \in Stored', events' \in Seq(Row)
    PROVE  QueueType' /\ EmitInv' /\ OrderInv'
<1>1. /\ count \in Nat /\ count' \in Nat /\ count < count'
      /\ em \in [Emitter -> Doing] /\ \A x \in Emitter : em[x].id \in Nat /\ em[x].id <= count
  BY DEF StreamInv, HubInv, EmitInv, Doing
<1>2. /\ em'[e].at = "push" /\ em'[e].id = count' /\ em'[e].topic = t
      /\ \A x \in Emitter : x # e => em'[x] = em[x]
  BY <1>1 DEF Begun
<1>3. \A x \in Emitter : em'[x].id <= count'
  BY <1>1, <1>2
<1>4. \A x \in Emitter : em'[x].at # "idle" /\ em'[x].topic = "event" => em'[x].id \in Stored'
  BY <1>2 DEF StreamInv, EmitInv
<1>5. EmitInv'
  BY <1>3, <1>4 DEF EmitInv
<1>6. \A x \in Emitter : High(x) \in Nat /\ High(x)' \in Nat /\ High(x) <= High(x)'
  BY <1>1, <1>2 DEF High
<1>7. OrderInv'
  BY <1>6, OrderStays DEF outVars
<1>8. QueueType'
  BY DEF StreamInv, QueueType, outVars
<1> QED
  BY <1>5, <1>7, <1>8

(* One more text for one session. *)
LEMMA PostedOne ==
    ASSUME StreamInv, NEW s \in Session, NEW x \in AnyText, send(s, x), UNCHANGED <<wq, writing, seen, events>>,
           \A e \in Emitter : High(e) \in Nat /\ High(e)' \in Nat /\ High(e) <= High(e)',
           \A e \in Emitter : Mine(x, e) => x[3] = High(e) /\ (x[1] = "event" => x[3] \in Stored),
           UNCHANGED Stored
    PROVE  QueueType' /\ OrderInv'
<1>1. posted \in [Session -> Seq(AnyText)] /\ wq \in [Session -> Seq(AnyText)] /\ seen \in [Session -> [Emitter -> Nat]]
  BY DEF StreamInv, QueueType
<1>2. posted' = [posted EXCEPT ![s] = Append(posted[s], x)]
  BY DEF send
<1>3. posted' \in [Session -> Seq(AnyText)]
  BY <1>1, <1>2
<1>4. QueueType'
  BY <1>3 DEF StreamInv, QueueType
<1>5. ASSUME NEW y \in Session, NEW e \in Emitter
      PROVE  Ordered(wq[y] \o posted'[y], e, seen[y][e], High(e), Stored)
  <2>1. Ordered(wq[y] \o posted[y], e, seen[y][e], High(e), Stored)
    BY DEF StreamInv, OrderInv
  <2>2. CASE y = s
    <3>1. posted'[y] = Append(posted[y], x) /\ wq[y] \in Seq(AnyText) /\ posted[y] \in Seq(AnyText)
          /\ seen[y][e] \in Nat
      BY <1>1, <1>2, <2>2
    <3>2. \A low, high \in Nat : \A S :
             (Mine(x, e) => x[3] = high /\ (x[1] = "event" => x[3] \in S)) /\ Ordered(wq[y] \o posted[y], e, low, high, S)
             => Ordered(wq[y] \o Append(posted[y], x), e, low, high, S)
      BY <3>1, CatPost
    <3> QED
      BY <2>1, <3>1, <3>2
  <2>3. CASE y # s
    <3>1. posted'[y] = posted[y]
      BY <1>2, <2>3, <1>1
    <3> QED
      BY <2>1, <3>1
  <2> QED
    BY <2>2, <2>3
<1>6. ASSUME NEW y \in Session, NEW e \in Emitter
      PROVE  Ordered(wq[y] \o posted'[y], e, seen[y][e], High(e)', Stored)
  <2>1. wq[y] \in Seq(AnyText) /\ posted'[y] \in Seq(AnyText) /\ seen[y][e] \in Nat
    BY <1>1, <1>3
  <2>2. wq[y] \o posted'[y] \in Seq(AnyText)
    BY <2>1
  <2>3. \A more \in Nat : High(e) <= more => Ordered(wq[y] \o posted'[y], e, seen[y][e], more, Stored)
    BY <1>5, <2>1, <2>2, OrderedWider
  <2> QED
    BY <2>3
<1>7. OrderInv'
  BY <1>6 DEF OrderInv
<1> QED
  BY <1>4, <1>7

(* Nothing but the texts of one session changes. *)
LEMMA OneSession ==
    ASSUME StreamInv, NEW s \in Session, UNCHANGED <<em, count, events, unsaved>>,
           \A y \in Session : y # s => /\ posted'[y] = posted[y] /\ wq'[y] = wq[y] /\ seen'[y] = seen[y],
           \A e \in Emitter : Ordered(wq'[s] \o posted'[s], e, seen'[s][e], High(e), Stored)
    PROVE  EmitInv' /\ OrderInv'
<1>1. Stored' = Stored /\ \A e \in Emitter : High(e)' = High(e)
  BY DEF Stored, High
<1>2. \A y \in Session, e \in Emitter : Ordered(wq'[y] \o posted'[y], e, seen'[y][e], High(e), Stored)
  BY DEF StreamInv, OrderInv
<1>3. OrderInv'
  BY <1>1, <1>2 DEF OrderInv
<1>4. EmitInv'
  BY <1>1 DEF StreamInv, EmitInv
<1> QED
  BY <1>3, <1>4

LEMMA PostedStream ==
    ASSUME StreamInv, NEW s \in Session, Posted(s), UNCHANGED <<em, count, events, unsaved>>
    PROVE  QueueType' /\ EmitInv' /\ OrderInv'
<1>1. /\ posted \in [Session -> Seq(AnyText)] /\ wq \in [Session -> Seq(AnyText)]
      /\ writing \in [Session -> BOOLEAN] /\ posted[s] \in Seq(AnyText) /\ wq[s] \in Seq(AnyText)
  BY DEF StreamInv, QueueType
<1>2. posted[s] # <<>> /\ posted' = [posted EXCEPT ![s] = Tail(posted[s])] /\ UNCHANGED seen
  BY DEF Posted
<1>3. Tail(posted[s]) \in Seq(AnyText) /\ Head(posted[s]) \in AnyText
  BY <1>1, <1>2
<1>4. /\ posted' \in [Session -> Seq(AnyText)] /\ posted'[s] = Tail(posted[s])
      /\ \A y \in Session : y # s => posted'[y] = posted[y]
  BY <1>1, <1>2, <1>3
<1>5. \A e \in Emitter : Ordered(wq[s] \o posted[s], e, seen[s][e], High(e), Stored)
  BY DEF StreamInv, OrderInv
<1>6. CASE UNCHANGED <<wq, writing>>
  <2>1. QueueType'
    BY <1>2, <1>4, <1>6 DEF StreamInv, QueueType
  <2>2. \A e \in Emitter : Ordered(wq[s] \o Tail(posted[s]), e, seen[s][e], High(e), Stored)
    BY <1>1, <1>2, <1>5, CatDrop
  <2> QED
    BY <1>2, <1>4, <1>6, <2>1, <2>2, OneSession
<1>7. CASE /\ wq' = [wq EXCEPT ![s] = Append(wq[s], Head(posted[s]))]
           /\ writing' = [writing EXCEPT ![s] = @ \/ wq[s] = <<>>]
  <2>1. Append(wq[s], Head(posted[s])) \in Seq(AnyText) /\ Append(wq[s], Head(posted[s])) # <<>>
    BY <1>1, <1>3, AppendProperties
  <2>2. /\ wq' \in [Session -> Seq(AnyText)] /\ wq'[s] = Append(wq[s], Head(posted[s])) /\ wq'[s] # <<>>
        /\ \A y \in Session : y # s => wq'[y] = wq[y]
    BY <1>1, <1>7, <2>1
  <2>3. (writing[s] \/ wq[s] = <<>>) \in BOOLEAN
    OBVIOUS
  <2>4. writing' \in [Session -> BOOLEAN] /\ \A y \in Session : y # s => writing'[y] = writing[y]
    BY <1>1, <1>7, <2>3
  <2>5. \A y \in Session : writing'[y] => wq'[y] # <<>>
    BY <2>2, <2>4 DEF StreamInv, QueueType
  <2>6. QueueType'
    BY <1>2, <1>4, <2>2, <2>4, <2>5 DEF StreamInv, QueueType
  <2>7. \A e \in Emitter : Ordered(Append(wq[s], Head(posted[s])) \o Tail(posted[s]), e, seen[s][e], High(e), Stored)
    BY <1>1, <1>2, <1>5, CatMove
  <2> QED
    BY <1>2, <1>4, <2>2, <2>6, <2>7, OneSession
<1> QED
  BY <1>6, <1>7 DEF Posted

LEMMA WrittenStream ==
    ASSUME StreamInv, NEW s \in Session, Written(s), UNCHANGED <<em, count, events, unsaved>>
    PROVE  QueueType' /\ EmitInv' /\ OrderInv'
<1>1. /\ posted \in [Session -> Seq(AnyText)] /\ wq \in [Session -> Seq(AnyText)]
      /\ writing \in [Session -> BOOLEAN] /\ posted[s] \in Seq(AnyText) /\ wq[s] \in Seq(AnyText)
      /\ seen \in [Session -> [Emitter -> Nat]] /\ seen[s] \in [Emitter -> Nat]
  BY DEF StreamInv, QueueType
<1>2. wq[s] # <<>> /\ UNCHANGED posted
  BY DEF Written, StreamInv, QueueType
<1>3. \A e \in Emitter : Ordered(wq[s] \o posted[s], e, seen[s][e], High(e), Stored) /\ High(e) \in Nat
  BY HighType DEF StreamInv, OrderInv
<1>4. CASE writing' = [writing EXCEPT ![s] = FALSE] /\ UNCHANGED <<seen, wq>>
  <2>1. writing' \in [Session -> BOOLEAN] /\ \A y \in Session : writing'[y] => writing[y]
    BY <1>1, <1>4
  <2>2. QueueType'
    BY <1>2, <1>4, <2>1 DEF StreamInv, QueueType
  <2> QED
    BY <1>2, <1>3, <1>4, <2>2, OneSession
<1>5. CASE /\ seen' = [seen EXCEPT ![s] = Received(seen[s], Head(wq[s]))]
           /\ wq' = [wq EXCEPT ![s] = Tail(wq[s])]
           /\ writing' = [writing EXCEPT ![s] = Tail(wq[s]) # <<>>]
  <2> DEFINE x == Head(wq[s])
             g == Received(seen[s], x)
  <2>1. x \in AnyText /\ Tail(wq[s]) \in Seq(AnyText)
    BY <1>1, <1>2
  <2> HIDE DEF x
  <2>2. Len(x) = 3 => x[2] \in Emitter /\ x[3] \in Nat
    BY <2>1, TextFacts
  <2>3. g \in [Emitter -> Nat] /\ \A e \in Emitter : g[e] = IF Mine(x, e) THEN x[3] ELSE seen[s][e]
    BY <1>1, <2>2 DEF Received, Mine
  <2> HIDE DEF g
  <2>4. /\ seen' \in [Session -> [Emitter -> Nat]] /\ seen'[s] = g
        /\ \A y \in Session : y # s => seen'[y] = seen[y]
    BY <1>1, <1>5, <2>3 DEF g, x
  <2>5. /\ wq' \in [Session -> Seq(AnyText)] /\ wq'[s] = Tail(wq[s])
        /\ \A y \in Session : y # s => wq'[y] = wq[y]
    BY <1>1, <1>5, <2>1
  <2>6. (Tail(wq[s]) # <<>>) \in BOOLEAN
    OBVIOUS
  <2>7. /\ writing' \in [Session -> BOOLEAN] /\ (writing'[s] => Tail(wq[s]) # <<>>)
        /\ \A y \in Session : y # s => writing'[y] = writing[y]
    BY <1>1, <1>5, <2>6
  <2>8. \A y \in Session : writing'[y] => wq'[y] # <<>>
    BY <2>5, <2>7 DEF StreamInv, QueueType
  <2>9. QueueType'
    BY <1>2, <2>4, <2>5, <2>7, <2>8 DEF StreamInv, QueueType
  <2>10. \A e \in Emitter : Ordered(Tail(wq[s]) \o posted[s], e, IF Mine(x, e) THEN x[3] ELSE seen[s][e], High(e), Stored)
    <3>1. \A e \in Emitter : \A low, high \in Nat : \A S : Ordered(wq[s] \o posted[s], e, low, high, S) =>
             Ordered(Tail(wq[s]) \o posted[s], e, IF Mine(x, e) THEN x[3] ELSE low, high, S)
      BY <1>1, <1>2, CatSent DEF x
    <3>2. \A e \in Emitter : seen[s][e] \in Nat
      BY <1>1
    <3> QED
      BY <1>3, <3>1, <3>2
  <2>11. \A e \in Emitter : Ordered(wq'[s] \o posted'[s], e, seen'[s][e], High(e), Stored)
    BY <1>2, <2>3, <2>4, <2>5, <2>10
  <2> QED
    BY <1>2, <2>4, <2>5, <2>9, <2>11, OneSession
<1> QED
  BY <1>4, <1>5 DEF Written

(* What a step of a session may do to its texts, but for those two. *)
QueueFrame(s) == /\ UNCHANGED <<wq, writing, seen>>
                 /\ UNCHANGED posted \/ \E x \in Word : send(s, x)

LEMMA QueueFrames ==
    ASSUME NEW s \in Session, SessionStep(s)
    PROVE  Posted(s) \/ Written(s) \/ QueueFrame(s)
<1>1. /\ <<"pong">> \in Word /\ <<"authed">> \in Word /\ <<"proxy_error">> \in Word
      /\ <<"proxy_ready">> \in Word /\ <<"proxy_closed">> \in Word /\ <<"worker">> \in Word
  BY DEF Word
<1>2. CASE ReadEnds(s) \/ ProxyStart(s) \/ Connect(s) \/ ClientGone(s) \/ Forward(s)
           \/ ProxyPosted(s) \/ ProxyWritten(s) \/ ProxyClosed(s) \/ Joined(s) \/ Closed(s)
  BY <1>2 DEF ReadEnds, ProxyStart, Connect, ClientGone, Forward, ProxyPosted, ProxyWritten,
              ProxyClosed, Joined, Closed, outVars, QueueFrame
<1>3. CASE ProxyFailed(s) \/ ProxyReady(s) \/ ProxyRead(s)
  <2>1. UNCHANGED <<wq, writing, seen>>
    BY <1>3 DEF ProxyFailed, ProxyReady, ProxyRead
  <2>2. UNCHANGED posted \/ send(s, <<"proxy_error">>) \/ send(s, <<"proxy_ready">>)
        \/ send(s, <<"proxy_closed">>) \/ send(s, <<"worker">>)
    BY <1>3 DEF ProxyFailed, ProxyReady, ProxyRead
  <2> QED
    BY <1>1, <2>1, <2>2 DEF QueueFrame
<1>4. ASSUME NEW c \in Command, handle_command(s, c)
      PROVE  QueueFrame(s)
  <2>1. UNCHANGED <<wq, writing, seen>>
    BY <1>4 DEF handle_command
  <2>2. UNCHANGED posted \/ Perform(s, c)
    BY <1>4 DEF handle_command
  <2>3. Perform(s, c) => UNCHANGED posted \/ send(s, <<"pong">>) \/ send(s, <<"authed">>) \/ send(s, <<"proxy_error">>)
    BY DEF Perform
  <2> QED
    BY <1>1, <2>1, <2>2, <2>3 DEF QueueFrame
<1> QED
  BY <1>2, <1>3, <1>4 DEF SessionStep, Handler, Waited, Client, Proxied

LEMMA StreamStays ==
    ASSUME StreamInv, UNCHANGED outVars, UNCHANGED <<em, count, events, unsaved>>
    PROVE  QueueType' /\ EmitInv' /\ OrderInv'
<1>1. Stored' = Stored /\ \A e \in Emitter : High(e)' = High(e)
  BY DEF Stored, High
<1>2. QueueType'
  BY DEF StreamInv, QueueType, outVars
<1>3. EmitInv'
  BY <1>1 DEF StreamInv, EmitInv
<1>4. OrderInv'
  BY <1>1 DEF StreamInv, OrderInv, outVars
<1> QED
  BY <1>2, <1>3, <1>4

LEMMA SessionStream ==
    ASSUME StreamInv, NEW s \in Session, SessionStep(s)
    PROVE  QueueType' /\ EmitInv' /\ OrderInv'
<1>1. UNCHANGED <<em, count, events, unsaved>>
  BY DEF SessionStep, logVars
<1>2. CASE Posted(s)
  BY <1>1, <1>2, PostedStream
<1>3. CASE Written(s)
  BY <1>1, <1>3, WrittenStream
<1>4. CASE QueueFrame(s)
  <2>1. CASE UNCHANGED posted
    BY <1>1, <1>4, <2>1, StreamStays DEF QueueFrame, outVars
  <2>2. ASSUME NEW x \in Word, send(s, x)
        PROVE  QueueType' /\ EmitInv' /\ OrderInv'
    <3>1. Stored' = Stored /\ \A e \in Emitter : High(e)' = High(e)
      BY <1>1 DEF Stored, High
    <3>2. \A e \in Emitter : High(e) \in Nat /\ High(e)' \in Nat /\ High(e) <= High(e)'
      BY <3>1, HighType
    <3>3. x \in AnyText /\ \A e \in Emitter : ~Mine(x, e)
      BY TextFacts DEF Mine
    <3>4. QueueType' /\ OrderInv'
      BY <1>1, <1>4, <2>2, <3>1, <3>2, <3>3, PostedOne DEF QueueFrame
    <3>5. EmitInv'
      BY <1>1, <3>1 DEF StreamInv, EmitInv
    <3> QED
      BY <3>4, <3>5
  <2> QED
    BY <1>4, <2>1, <2>2 DEF QueueFrame
<1> QED
  BY <1>2, <1>3, <1>4, QueueFrames

LEMMA PostStream ==
    ASSUME StreamInv, HubInv', NEW e \in Emitter, NEW s \in Session, Post(e, s)
    PROVE  QueueType' /\ EmitInv' /\ OrderInv'
<1>1. /\ UNCHANGED <<count, events, unsaved, wq, writing, seen>> /\ send(s, Text(e))
      /\ em[e].at = s /\ em[e].at # "idle"
  BY Places DEF Post, logVars
<1>2. EmitInv' /\ \A x \in Emitter : High(x) \in Nat /\ High(x)' \in Nat /\ High(x) <= High(x)'
  BY <1>1, ThreadMoves, ThreadFrames DEF StreamInv
<1>3. Stored' = Stored
  BY <1>1 DEF Stored
<1>4. em[e].topic \in {"log", "event"} /\ em[e].id \in Nat
  BY DEF StreamInv, HubInv, Doing
<1>5. Text(e) \in Push
  BY <1>4 DEF Text, Push
<1>6. Text(e) \in AnyText /\ Text(e)[1] = em[e].topic /\ Text(e)[2] = e /\ Text(e)[3] = em[e].id
  BY <1>5, TextFacts DEF Text
<1>7. \A x \in Emitter : Mine(Text(e), x) =>
         Text(e)[3] = High(x) /\ (Text(e)[1] = "event" => Text(e)[3] \in Stored)
  BY <1>1, <1>6 DEF Mine, High, StreamInv, EmitInv
<1>8. \A t \in AnyText : send(s, t) /\ (\A x \in Emitter : Mine(t, x) => t[3] = High(x) /\ (t[1] = "event" => t[3] \in Stored))
         => QueueType' /\ OrderInv'
  BY <1>1, <1>2, <1>3, PostedOne
<1> QED
  BY <1>1, <1>2, <1>6, <1>7, <1>8

LEMMA BroadcastAllStream ==
    ASSUME StreamInv, BroadcastAll
    PROVE  QueueType' /\ EmitInv' /\ OrderInv'
<1> DEFINE x == <<"all">>
<1>1. /\ UNCHANGED <<em, count, events, unsaved, wq, writing, seen>>
      /\ posted' = [s \in Session |-> IF s \in hub THEN Append(posted[s], x) ELSE posted[s]]
  BY DEF BroadcastAll, logVars
<1>2. Stored' = Stored /\ \A e \in Emitter : High(e)' = High(e)
  BY <1>1 DEF Stored, High
<1>3. x \in Word
  BY DEF Word
<1>4. x \in AnyText /\ \A e \in Emitter : ~Mine(x, e)
  BY <1>3, TextFacts DEF Mine
<1> HIDE DEF x
<1>5. posted \in [Session -> Seq(AnyText)] /\ wq \in [Session -> Seq(AnyText)] /\ seen \in [Session -> [Emitter -> Nat]]
  BY DEF StreamInv, QueueType
<1>6. \A s \in Session : posted[s] \in Seq(AnyText) /\ Append(posted[s], x) \in Seq(AnyText)
  BY <1>4, <1>5
<1>7. posted' \in [Session -> Seq(AnyText)]
  BY <1>1, <1>6
<1>8. QueueType'
  BY <1>1, <1>7 DEF StreamInv, QueueType
<1>9. ASSUME NEW s \in Session, NEW e \in Emitter
      PROVE  Ordered(wq[s] \o posted'[s], e, seen[s][e], High(e), Stored)
  <2>1. Ordered(wq[s] \o posted[s], e, seen[s][e], High(e), Stored)
    BY DEF StreamInv, OrderInv
  <2>2. wq[s] \in Seq(AnyText) /\ posted[s] \in Seq(AnyText) /\ seen[s][e] \in Nat /\ High(e) \in Nat
    BY <1>5, HighType
  <2>3. Ordered(wq[s] \o Append(posted[s], x), e, seen[s][e], High(e), Stored)
    <3>1. \A low, high \in Nat : \A S : Ordered(wq[s] \o posted[s], e, low, high, S) =>
             Ordered(wq[s] \o Append(posted[s], x), e, low, high, S)
      BY <1>4, <2>2, CatPost
    <3> QED
      BY <2>1, <2>2, <3>1
  <2> QED
    BY <1>1, <2>1, <2>3
<1>10. OrderInv'
  BY <1>1, <1>2, <1>9 DEF OrderInv
<1>11. EmitInv'
  BY <1>1, <1>2 DEF StreamInv, EmitInv
<1> QED
  BY <1>8, <1>10, <1>11

(* The row of an event: the table or the events whose row failed grow by it. *)
LEMMA RowStored ==
    ASSUME events \in Seq(Row), NEW k \in Key, NEW n \in Nat, insertFromJson(k, n)
    PROVE  events' \in Seq(Row) /\ Stored \subseteq Stored' /\ n \in Stored'
<1> DEFINE r == [key |-> k, id |-> n]
<1>1. r \in Row /\ r.id = n
  BY DEF Row
<1> HIDE DEF r
<1>2. CASE events' = Append(events, r) /\ UNCHANGED unsaved
  <2>1. /\ events' \in Seq(Row) /\ Len(events) + 1 \in DOMAIN events' /\ events'[Len(events) + 1] = r
        /\ \A i \in DOMAIN events : i \in DOMAIN events' /\ events'[i] = events[i]
    BY <1>1, <1>2
  <2> QED
    BY <1>1, <1>2, <2>1 DEF Stored
<1>3. CASE unsaved' = unsaved \cup {n} /\ UNCHANGED events
  BY <1>3 DEF Stored
<1> QED
  BY <1>2, <1>3 DEF insertFromJson, r

LEMMA StreamStep ==
    ASSUME StreamInv, [Next]_vars
    PROVE  StreamInv'
<1>0. HubInv' /\ LateInv'
  BY HubStep DEF StreamInv
<1> SUFFICES QueueType' /\ EmitInv' /\ OrderInv'
  BY <1>0 DEF StreamInv
<1>1. ASSUME NEW e \in Emitter, Emitting(e)
      PROVE  QueueType' /\ EmitInv' /\ OrderInv'
  <2>1. ASSUME NEW k \in Key, emit(e, k)
        PROVE  QueueType' /\ EmitInv' /\ OrderInv'
    <3>1. /\ em[e].at = "idle" /\ count' = count + 1 /\ Begun(e, "log", k, shouldPrune)
          /\ UNCHANGED outVars /\ UNCHANGED <<events, unsaved>>
      BY <2>1 DEF emit, WsQuiet
    <3>2. Stored' = Stored /\ events' \in Seq(Row)
      BY <3>1 DEF Stored, StreamInv, QueueType
    <3>3. \A p : Begun(e, "log", k, p) => QueueType' /\ EmitInv' /\ OrderInv'
      BY <1>0, <3>1, <3>2, BegunStream
    <3> QED
      BY <3>1, <3>3
  <2>2. ASSUME NEW k \in Key, pushTaskEvent(e, k)
        PROVE  QueueType' /\ EmitInv' /\ OrderInv'
    <3>1. /\ em[e].at = "idle" /\ count' = count + 1 /\ Begun(e, "event", k, FALSE)
          /\ UNCHANGED outVars /\ insertFromJson(k, count')
      BY <2>2 DEF pushTaskEvent, WsQuiet
    <3>2. events \in Seq(Row) /\ count' \in Nat
      BY <3>1 DEF StreamInv, QueueType, HubInv
    <3>3. \A n \in Nat : insertFromJson(k, n) => events' \in Seq(Row) /\ Stored \subseteq Stored' /\ n \in Stored'
      BY <3>2, RowStored
    <3>4. events' \in Seq(Row) /\ Stored \subseteq Stored' /\ count' \in Stored'
      BY <3>1, <3>2, <3>3
    <3> QED
      BY <1>0, <3>1, <3>4, BegunStream
  <2>3. ASSUME Broadcast(e) \/ Sink(e) \/ Prune(e) \/ \E s \in Session : Visit(e, s)
        PROVE  QueueType' /\ EmitInv' /\ OrderInv'
    <3>1. UNCHANGED outVars /\ UNCHANGED <<count, events, unsaved>>
      BY <2>3 DEF Broadcast, Sink, Prune, Visit, logVars, wsVars
    <3>2. ThreadFrame(e)
      BY <2>3, ThreadFrames DEF StreamInv
    <3>3. EmitInv' /\ \A x \in Emitter : High(x) \in Nat /\ High(x)' \in Nat /\ High(x) <= High(x)'
      BY <1>0, <3>1, <3>2, ThreadMoves
    <3>4. Stored' = Stored
      BY <3>1 DEF Stored
    <3>5. OrderInv'
      BY <3>1, <3>3, <3>4, OrderStays DEF outVars
    <3>6. QueueType'
      BY <3>1 DEF StreamInv, QueueType, outVars
    <3> QED
      BY <3>3, <3>5, <3>6
  <2>4. ASSUME NEW s \in Session, Post(e, s)
        PROVE  QueueType' /\ EmitInv' /\ OrderInv'
    BY <1>0, <2>4, PostStream
  <2> QED
    BY <1>1, <2>1, <2>2, <2>3, <2>4 DEF Emitting, stdoutLine, stderrLine, emitEvent
<1>2. CASE \E s \in Session : SessionStep(s)
  BY <1>2, SessionStream
<1>3. CASE \E k \in Key : GrowOld(k)
  BY <1>3, StreamStays DEF GrowOld, WsQuiet
<1>4. CASE \E limit \in PageSize : query(limit)
  BY <1>4, StreamStays DEF query, WsQuiet
<1>5. CASE BroadcastAll
  BY <1>5, BroadcastAllStream
<1>6. CASE Tokens
  BY <1>6, StreamStays DEF Tokens, login, Expire, logVars
<1>7. CASE UNCHANGED vars
  BY <1>7, StreamStays DEF vars, wsVars
<1> QED
  BY <1>1, <1>2, <1>3, <1>4, <1>5, <1>6, <1>7 DEF Next

(* What one thread pushes reaches a client in the order of its records, whatever the *)
(* other threads, the posted handlers, the write queue and its overflow do           *)
(* (ws_server_beast.cpp send and do_write), and an event on its way to a client is   *)
(* found by a query unless its row failed (ws_log_streamer.cpp pushTaskEvent).       *)
THEOREM StreamsAreInOrder == Spec => []StreamInOrder
<1>1. Init => StreamInv
  <2> SUFFICES ASSUME Init PROVE StreamInv
    OBVIOUS
  <2>1. /\ posted = [s \in Session |-> <<>>] /\ wq = [s \in Session |-> <<>>]
        /\ writing = [s \in Session |-> FALSE] /\ seen = [s \in Session |-> [e \in Emitter |-> 0]]
        /\ em = [e \in Emitter |-> Idle] /\ count = 0 /\ events = <<>>
    BY DEF Init, WsInit
  <2>2. Idle.at = "idle" /\ Idle.id = 0
    BY DEF Idle
  <2>3. QueueType
    BY <2>1 DEF QueueType
  <2>4. EmitInv
    BY <2>1, <2>2 DEF EmitInv
  <2>5. OrderInv
    <3>1. \A s \in Session, e \in Emitter : wq[s] \o posted[s] = <<>> /\ seen[s][e] = 0 /\ High(e) = 0
      BY <2>1, <2>2 DEF High
    <3>2. \A e, S : Ordered(<<>>, e, 0, 0, S)
      BY DEF Ordered
    <3> QED
      BY <3>1, <3>2 DEF OrderInv
  <2> QED
    BY <2>3, <2>4, <2>5, HubInit DEF StreamInv
<1>2. StreamInv /\ [Next]_vars => StreamInv'
  BY StreamStep
<1>3. StreamInv => StreamInOrder
  <2> SUFFICES ASSUME StreamInv PROVE StreamInOrder
    OBVIOUS
  <2>1. {r.id : r \in queryEvents(<<NoRun, NoRun>>, 0)} = {events[i].id : i \in DOMAIN events}
    BY DEF queryEvents
  <2>2. Stored = unsaved \cup {r.id : r \in queryEvents(<<NoRun, NoRun>>, 0)}
    BY <2>1 DEF Stored
  <2>3. ASSUME NEW s \in Session, NEW e \in Emitter
        PROVE  LET q    == wq[s] \o posted[s]
                   mine == {i \in DOMAIN q : Len(q[i]) = 3 /\ q[i][2] = e}
               IN  \A i, j \in mine :
                     /\ seen[s][e] <= q[i][3]
                     /\ i < j => q[i][3] <= q[j][3]
                     /\ q[i][1] = "event" => q[i][3] \in Stored
    <3> DEFINE q    == wq[s] \o posted[s]
               mine == {i \in DOMAIN q : Len(q[i]) = 3 /\ q[i][2] = e}
    <3>1. Ordered(q, e, seen[s][e], High(e), Stored)
      BY DEF StreamInv, OrderInv
    <3> HIDE DEF q
    <3>2. \A i \in mine : i \in DOMAIN q /\ Mine(q[i], e)
      BY DEF Mine
    <3> HIDE DEF mine
    <3>3. \A i, j \in mine : /\ seen[s][e] <= q[i][3]
                             /\ i < j => q[i][3] <= q[j][3]
                             /\ q[i][1] = "event" => q[i][3] \in Stored
      BY <3>1, <3>2 DEF Ordered
    <3> QED
      BY <3>3 DEF mine, q
  <2> QED
    BY <2>2, <2>3 DEF StreamInOrder
<1> QED
  BY <1>1, <1>2, <1>3, PTL DEF Spec
=============================================================================
