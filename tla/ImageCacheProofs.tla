-------------------------- MODULE ImageCacheProofs --------------------------
(***************************************************************************)
(* Proofs about the image cache, for any number of processes, jobs and     *)
(* keys, any capacity and every combination of faults.                     *)
(***************************************************************************)
EXTENDS ImageCache, SequenceTheorems, FiniteSetTheorems, TLAPS

-----------------------------------------------------------------------------
(* The rows as a sequence.                                                  *)

LEMMA ConcatLength ==
  ASSUME NEW S, NEW u \in Seq(S), NEW v \in Seq(S)
  PROVE  u \o v \in Seq(S) /\ Len(u \o v) = Len(u) + Len(v)
BY ConcatProperties

\* Dropping a row shortens the file by one; a missing row leaves it alone.
LEMMA WithoutLength ==
  ASSUME NEW s \in Seq(Keys), NEW k \in Keys
  PROVE  /\ Without(s, k) \in Seq(Keys)
         /\ k \in ToSet(s) => Len(Without(s, k)) = Len(s) - 1 /\ Row(s, k) \in 1..Len(s)
         /\ k \notin ToSet(s) => Without(s, k) = s
<1>1. CASE k \in ToSet(s)
  <2>1. Row(s, k) \in 1..Len(s)
    BY <1>1 DEF Row, ToSet
  <2> DEFINE i == Row(s, k)
  <2> DEFINE front == SubSeq(s, 1, i - 1)
             back == SubSeq(s, i + 1, Len(s))
  <2>2. front \in Seq(Keys) /\ Len(front) = i - 1
    BY <2>1, SubSeqProperties
  <2>3. back \in Seq(Keys) /\ Len(back) = Len(s) - i
    BY <2>1, SubSeqProperties
  <2>4. Len(s) \in Nat
    OBVIOUS
  <2>5. RemoveAt(s, i) \in Seq(Keys) /\ Len(RemoveAt(s, i)) = Len(s) - 1
    <3>1. RemoveAt(s, i) = front \o back
      BY DEF RemoveAt
    <3> HIDE DEF front, back
    <3>2. front \o back \in Seq(Keys) /\ Len(front \o back) = (i - 1) + (Len(s) - i)
      <4>1. front \o back \in Seq(Keys) /\ Len(front \o back) = Len(front) + Len(back)
        BY <2>2, <2>3, ConcatLength, Zenon
      <4>2. QED
        BY <2>2, <2>3, <4>1
    <3>3. QED
      BY <2>1, <2>4, <3>1, <3>2
  <2>6. Without(s, k) = RemoveAt(s, i)
    BY <1>1 DEF Without
  <2>7. QED
    BY <1>1, <2>1, <2>5, <2>6
<1>2. CASE k \notin ToSet(s)
  BY <1>2 DEF Without
<1>3. QED
  BY <1>1, <1>2

\* A touch permutes the rows.
LEMMA TouchedLength ==
  ASSUME NEW s \in Seq(Keys), NEW k \in ToSet(s), NEW t \in Touched(s, k)
  PROVE  t \in Seq(Keys) /\ Len(t) = Len(s)
<1>1. k \in Keys
  BY DEF ToSet
<1>2. PICK n \in Row(s, k)..Len(s) : t = InsertAt(Without(s, k), n, k)
  BY DEF Touched
<1> DEFINE r == Without(s, k)
<1>3. r \in Seq(Keys) /\ Len(r) = Len(s) - 1 /\ n \in 1..Len(s)
  BY <1>1, WithoutLength
<1> DEFINE front == SubSeq(r, 1, n - 1)
           mid == <<k>>
           back == SubSeq(r, n, Len(r))
<1>4. front \in Seq(Keys) /\ Len(front) = n - 1
  BY <1>3, SubSeqProperties
<1>5. back \in Seq(Keys) /\ Len(back) = Len(r) - n + 1
  BY <1>3, SubSeqProperties
<1>6. mid \in Seq(Keys) /\ Len(mid) = 1
  BY <1>1
<1>7. t = (front \o mid) \o back
  BY <1>2 DEF InsertAt
<1>8. Len(r) \in Nat /\ Len(s) \in Nat
  BY <1>3
<1> HIDE DEF front, mid, back, r
<1>9. front \o mid \in Seq(Keys) /\ Len(front \o mid) = n
  <2>1. front \o mid \in Seq(Keys) /\ Len(front \o mid) = Len(front) + Len(mid)
    BY <1>4, <1>6, ConcatLength, Zenon
  <2>2. QED
    BY <1>3, <1>4, <1>6, <2>1
<1>10. t \in Seq(Keys) /\ Len(t) = n + Len(back)
  <2> DEFINE most == front \o mid
  <2>1. most \in Seq(Keys) /\ Len(most) = n
    BY <1>9
  <2>2. t = most \o back
    BY <1>7
  <2> HIDE DEF most
  <2>3. most \o back \in Seq(Keys) /\ Len(most \o back) = Len(most) + Len(back)
    BY <1>5, <2>1, ConcatLength, Zenon
  <2>4. QED
    BY <2>1, <2>2, <2>3
<1>11. QED
  BY <1>3, <1>5, <1>8, <1>10

\* An eviction takes the rows it counted, or all there are.
LEMMA VictimsRange ==
  ASSUME NEW f, NEW n \in Nat, Len(rows[f]) \in Nat
  PROVE  Victims(f, n) = IF n <= Len(rows[f]) THEN n ELSE Len(rows[f])
BY DEF Victims, Min

-----------------------------------------------------------------------------
(* The type invariant, action by action.                                    *)

LEMMA InitTypes == Init => TypeOK
<1> SUFFICES ASSUME Init PROVE TypeOK
  OBVIOUS
<1>1. PICK S \in SUBSET Keys : \E s \in SetToSeqs(S) :
        rows = [f \in Files |-> IF f = "first" THEN s ELSE <<>>] /\ tags \in SUBSET S
  BY DEF Init
<1>2. PICK s \in SetToSeqs(S) :
        rows = [f \in Files |-> IF f = "first" THEN s ELSE <<>>] /\ tags \in SUBSET S
  BY <1>1
<1>3. Cardinality(S) \in Nat
  BY SetsAssumption, FS_Subset, FS_CardinalityType
<1>4. s \in Seq(Keys)
  <2>1. s \in [1..Cardinality(S) -> S]
    BY DEF SetToSeqs
  <2>2. QED
    BY <1>3, <2>1
<1>5. <<>> \in Seq(Keys)
  OBVIOUS
<1>6. rows \in [Files -> Seq(Keys)]
  BY <1>2, <1>4, <1>5
<1>7. QED
  BY <1>1, <1>5, <1>6 DEF Init, TypeOK, Sections, Awaits, Files

\* What a step does to the daemon's images keeps both sets within Keys.
LEMMA UntagTypes ==
  ASSUME TypeOK, NEW k \in Keys, Untag(k) \/ TagUntracked(k)
  PROVE  tags' \subseteq Keys /\ excused' \subseteq Keys
BY DEF TypeOK, Untag, TagUntracked

LEMMA TypeInvariance == TypeOK /\ [Next]_vars => TypeOK'
<1> SUFFICES ASSUME TypeOK, [Next]_vars PROVE TypeOK'
  OBVIOUS
<1> USE FunctionsAssumption
<1>1. ASSUME NEW j \in Jobs, Lookup(j) PROVE TypeOK'
  <2>1. CASE KeyOf[j] \in ToSet(rows[File(j)])
    <3>1. PICK s \in Touched(rows[File(j)], KeyOf[j]) : rows' = [rows EXCEPT ![File(j)] = s]
      BY <1>1, <2>1 DEF Lookup
    <3>2. s \in Seq(Keys)
      BY <1>1, <2>1, TouchedLength DEF TypeOK, Lookup, Live
    <3>3. QED
      BY <1>1, <2>1, <3>1, <3>2 DEF TypeOK, Lookup, Go, Sections, Awaits, procVars, asideVars
  <2>2. CASE KeyOf[j] \notin ToSet(rows[File(j)])
    BY <1>1, <2>2 DEF TypeOK, Lookup, Go, Sections, Awaits, procVars, asideVars
  <2>3. QED
    BY <2>1, <2>2
<1>2. ASSUME NEW j \in Jobs, Probe(j) \/ Create(j) \/ Start(j) \/ Run(j) PROVE TypeOK'
  BY <1>2 DEF TypeOK, Probe, Create, Start, Run, Go, Finish, Sections, Awaits, Attended, procVars, asideVars
<1>3. ASSUME NEW j \in Jobs, Invalidate(j) PROVE TypeOK'
  <2>1. Without(rows[File(j)], KeyOf[j]) \in Seq(Keys)
    BY <1>3, WithoutLength DEF TypeOK, Invalidate, Live
  <2>2. QED
    BY <1>3, <2>1 DEF TypeOK, Invalidate, Go, Sections, Awaits, procVars, asideVars
<1>4. ASSUME NEW j \in Jobs, Commit(j) PROVE TypeOK'
  <2>1. tags' \subseteq Keys /\ excused' \subseteq Keys
    BY <1>4, UntagTypes DEF TypeOK, Commit
  <2>2. QED
    BY <1>4, <2>1 DEF TypeOK, Commit, Go, Sections, procVars, asideVars
<1>5. ASSUME NEW j \in Jobs, Insert(j) PROVE TypeOK'
  <2>1. Append(Without(rows[File(j)], KeyOf[j]), KeyOf[j]) \in Seq(Keys)
    BY <1>5, WithoutLength DEF TypeOK, Insert, Live
  <2>2. QED
    BY <1>5, <2>1 DEF TypeOK, Insert, Go, Sections, procVars, asideVars
<1>6. ASSUME NEW j \in Jobs, Count(j) PROVE TypeOK'
  <2>1. Overflow(Len(rows[File(j)])) \in Nat
    BY <1>6, CapacityAssumption DEF TypeOK, Count, Live, Overflow
  <2>2. QED
    BY <1>6, <2>1 DEF TypeOK, Count, Go, Sections, procVars
<1>7. ASSUME NEW j \in Jobs, Select(j) PROVE TypeOK'
  <2>1. Oldest(File(j), overflow[j]) \in Seq(Keys)
    <3>1. rows[File(j)] \in Seq(Keys) /\ overflow[j] \in Nat
      BY <1>7 DEF TypeOK, Select, Live
    <3>2. Victims(File(j), overflow[j]) \in 0..Len(rows[File(j)])
      BY <3>1, VictimsRange
    <3>3. QED
      BY <3>1, <3>2, SubSeqProperties DEF Oldest
  <2>2. evicted' \in [Jobs -> Seq(Keys)]
    BY <1>7, <2>1 DEF TypeOK, Select
  <2>3. displaced' \subseteq Keys
    BY <1>7, <2>2 DEF TypeOK, Select, DisplacedBy, ToSet
  <2>4. QED
    BY <1>7, <2>2, <2>3 DEF TypeOK, Select, Go, Sections, procVars
<1>8. ASSUME NEW j \in Jobs, Delete(j) PROVE TypeOK'
  <2>1. SubSeq(rows[File(j)], Victims(File(j), overflow[j]) + 1, Len(rows[File(j)])) \in Seq(Keys)
    <3>1. rows[File(j)] \in Seq(Keys) /\ overflow[j] \in Nat
      BY <1>8 DEF TypeOK, Delete, Live
    <3>2. Victims(File(j), overflow[j]) \in 0..Len(rows[File(j)])
      BY <3>1, VictimsRange
    <3>3. QED
      BY <3>1, <3>2, SubSeqProperties
  <2>2. QED
    BY <1>8, <2>1 DEF TypeOK, Delete, Go, Awaits, procVars, asideVars
<1>9. ASSUME NEW j \in Jobs, RemoveImage(j) PROVE TypeOK'
  <2>1. evicted[j] # <<>> => Head(evicted[j]) \in Keys /\ Tail(evicted[j]) \in Seq(Keys)
    BY DEF TypeOK
  <2>2. tags' \subseteq Keys /\ excused' \subseteq Keys
    BY <1>9, <2>1, UntagTypes DEF RemoveImage
  <2>3. QED
    BY <1>9, <2>1, <2>2 DEF TypeOK, RemoveImage, Go, Awaits, procVars, asideVars
<1>10. ASSUME NEW j \in Jobs, Take(j) \/ Destroy(j) \/ Sweep(j) PROVE TypeOK'
  <2>1. CASE Take(j)
    BY <2>1 DEF TypeOK, Take, Go, Awaits, Attended, procVars, asideVars
  <2>2. CASE Destroy(j)
    BY <2>2 DEF TypeOK, Destroy, Go, Attended, procVars, asideVars
  <2>3. CASE Sweep(j)
    BY <2>3 DEF TypeOK, Sweep, procVars, asideVars
  <2>4. QED
    BY <1>10, <2>1, <2>2, <2>3
<1>11. ASSUME NEW j \in Jobs, Drop(j) PROVE TypeOK'
  <2>1. tags' \subseteq Keys /\ excused' \subseteq Keys
    <3>1. ToSet(evicted[j]) \subseteq Keys
      BY DEF TypeOK, ToSet
    <3>2. CASE at[j] = "commit"
      BY <1>11, <3>2, UntagTypes DEF Drop
    <3>3. CASE at[j] # "commit"
      BY <1>11, <3>1, <3>3 DEF TypeOK, Drop
    <3>4. QED
      BY <3>2, <3>3
  <2>2. box' \in [Jobs -> {"none", "unowned", "refused", "leaked"} \union Attended]
    <3>1. PICK b \in {"none", "sweep", "unowned", "leaked"} : box' = [box EXCEPT ![j] = b]
      <4>1. CASE box[j] = "up"
        BY <1>11, <4>1 DEF Drop
      <4>2. CASE box[j] = "created"
        BY <1>11, <4>2 DEF Drop
      <4>3. CASE box[j] = "taken"
        BY <1>11, <4>3 DEF Drop
      <4>4. CASE box[j] \notin {"up", "created", "taken"}
        BY <1>11, <4>4 DEF Drop
      <4>5. QED
        BY <4>1, <4>2, <4>3, <4>4
    <3>2. QED
      BY <3>1 DEF TypeOK, Attended
  <2>3. evicted' \in [Jobs -> Seq(Keys)]
    <3>1. <<>> \in Seq(Keys)
      OBVIOUS
    <3>2. QED
      BY <1>11, <3>1 DEF TypeOK, Drop
  <2>4. /\ at' = [at EXCEPT ![j] = "done"]
        /\ end' = [end EXCEPT ![j] = "dropped"]
    BY <1>11 DEF Drop, Finish, Go
  <2>5. QED
    BY <1>11, <2>1, <2>2, <2>3, <2>4 DEF TypeOK, Drop, procVars, asideVars
<1>12. ASSUME NEW p \in Procs, Open(p) \/ Exit(p) PROVE TypeOK'
  <2>1. CASE Open(p)
    BY <2>1 DEF TypeOK, Open, jobVars, asideVars
  <2>2. CASE Exit(p)
    <3>1. excused' \subseteq Keys
      BY <2>2 DEF TypeOK, Exit, OnlyKnownTo
    <3>2. box' \in [Jobs -> {"none", "unowned", "refused", "leaked"} \union Attended]
      BY <2>2 DEF TypeOK, Exit
    <3>3. QED
      BY <2>2, <3>1, <3>2 DEF TypeOK, Exit, asideVars
  <2>3. QED
    BY <1>12, <2>1, <2>2
<1>13. ASSUME List \/ Unlink \/ \E k \in Keys : CleanOne(k) PROVE TypeOK'
  <2>1. CASE List
    <3>1. doomed' \subseteq Keys
      BY <2>1 DEF TypeOK, List, ToSet
    <3>2. QED
      BY <2>1, <3>1 DEF TypeOK, List, jobVars, procVars
  <2>2. CASE Unlink
    BY <2>2 DEF TypeOK, Unlink, jobVars, procVars, Files
  <2>3. CASE \E k \in Keys : CleanOne(k)
    BY <2>3, UntagTypes DEF TypeOK, CleanOne, jobVars, procVars
  <2>4. QED
    BY <1>13, <2>1, <2>2, <2>3
<1>14. CASE AllGone \/ UNCHANGED vars
  BY <1>14 DEF TypeOK, AllGone, vars
<1>15. QED
  BY <1>1, <1>2, <1>3, <1>4, <1>5, <1>6, <1>7, <1>8, <1>9, <1>10, <1>11, <1>12, <1>13, <1>14
     DEF Next, JobNext

-----------------------------------------------------------------------------
(* Capacity.  A put adds one row before it counts, and takes at least one   *)
(* away if it counted too many: each put under way pays for one row.        *)

LEMMA UnderwayInvariance ==
  ASSUME TypeOK, [Next]_vars, NEW t \in Jobs, Underway(t)
  PROVE  Underway(t)'
<1> USE FunctionsAssumption
<1>1. CASE UNCHANGED vars \/ AllGone \/ List \/ Unlink \/ \E k \in Keys : CleanOne(k)
  BY <1>1 DEF vars, AllGone, List, Unlink, CleanOne, jobVars, procVars, Underway, File
<1>2. ASSUME NEW p \in Procs, Open(p) \/ Exit(p) PROVE Underway(t)'
  BY <1>2 DEF Open, Exit, jobVars, Underway, File, TypeOK, Files
<1>3. ASSUME NEW j \in Jobs, Count(j) PROVE Underway(t)'
  BY <1>3 DEF Count, Go, procVars, Underway, File, Live, TypeOK
<1>4. ASSUME NEW j \in Jobs, Select(j) PROVE Underway(t)'
  BY <1>4 DEF Select, Go, procVars, Underway, File, Live, TypeOK
<1>5. ASSUME NEW j \in Jobs, NEW next \in {"exists", "boot", "stale", "starting", "running", "commit",
               "destroy", "insert", "count", "remove", "destroying", "done"},
             Live(j), at' = [at EXCEPT ![j] = next], UNCHANGED <<overflow, procVars>>
      PROVE  Underway(t)'
  BY <1>5 DEF procVars, Underway, File, Live, TypeOK
<1>6. ASSUME NEW j \in Jobs,
             Lookup(j) \/ Probe(j) \/ Invalidate(j) \/ Create(j) \/ Start(j) \/ Run(j) \/ Commit(j)
      PROVE  Underway(t)'
  BY <1>5, <1>6 DEF Lookup, Probe, Invalidate, Create, Start, Run, Commit, Go, Finish
<1>7. ASSUME NEW j \in Jobs,
             Insert(j) \/ Delete(j) \/ RemoveImage(j) \/ Take(j) \/ Destroy(j) \/ Drop(j)
      PROVE  Underway(t)'
  BY <1>5, <1>7 DEF Insert, Delete, RemoveImage, Take, Destroy, Drop, Go, Finish
<1>8. ASSUME NEW j \in Jobs, Sweep(j) PROVE Underway(t)'
  BY <1>8 DEF Sweep, procVars, Underway, File
<1>9. QED
  BY <1>1, <1>2, <1>3, <1>4, <1>6, <1>7, <1>8 DEF Next, JobNext

\* A job that has begun keeps its registry file.
LEMMA FileKept ==
  ASSUME IndInv, NEW p \in Procs, Open(p) \/ Exit(p), NEW j \in Jobs, at[j] # "idle"
  PROVE  File(j)' = File(j)
<1>1. handle[ProcOf[j]] \in Files /\ handle \in [Procs -> Files \union {"closed"}]
  BY DEF IndInv, TypeOK, Underway, File
<1>2. CASE Open(p)
  BY <1>1, <1>2, FunctionsAssumption DEF Open, File, Files
<1>3. CASE Exit(p)
  BY <1>3 DEF Exit, File
<1>4. QED
  BY <1>2, <1>3

LEMMA CapacityInvariance ==
  ASSUME IndInv, [Next]_vars, NEW f \in Files
  PROVE  Len(rows'[f]) <= Capacity + Cardinality(Putting(f)')
<1> USE FunctionsAssumption, CapacityAssumption
<1>0. TypeOK /\ rows[f] \in Seq(Keys) /\ Len(rows[f]) \in Nat
  BY DEF IndInv, TypeOK
<1>a. IsFiniteSet(Putting(f)) /\ Cardinality(Putting(f)) \in Nat
  BY SetsAssumption, FS_Subset, FS_CardinalityType DEF Putting
<1>b. Len(rows[f]) <= Capacity + Cardinality(Putting(f))
  BY DEF IndInv, WithinCapacity
\* What neither adds a row nor moves a job out of a put.
<1>1. ASSUME Len(rows'[f]) <= Len(rows[f]), Len(rows'[f]) \in Nat, Putting(f)' = Putting(f)
      PROVE  Len(rows'[f]) <= Capacity + Cardinality(Putting(f)')
  BY <1>0, <1>a, <1>b, <1>1
<1>2. CASE UNCHANGED vars \/ AllGone \/ List \/ Unlink \/ \E k \in Keys : CleanOne(k)
  <2>1. rows' = rows /\ Putting(f)' = Putting(f)
    BY <1>2 DEF vars, AllGone, List, Unlink, CleanOne, jobVars, procVars, Putting, File
  <2>2. QED
    BY <1>0, <1>1, <2>1
<1>3. ASSUME NEW p \in Procs, Open(p) \/ Exit(p)
      PROVE  Len(rows'[f]) <= Capacity + Cardinality(Putting(f)')
  <2>1. \A j \in Jobs : at[j] # "idle" => File(j)' = File(j)
    BY <1>3, FileKept
  <2>2. rows' = rows /\ Putting(f)' = Putting(f)
    BY <1>3, <2>1 DEF Open, Exit, jobVars, Putting
  <2>3. QED
    BY <1>0, <1>1, <2>2
\* A step of job j between two places of which neither is inside a put.
<1>4. ASSUME NEW j \in Jobs, NEW next,
             at' = [at EXCEPT ![j] = next], UNCHANGED procVars,
             at[j] \in {"count", "select", "delete"} <=> next \in {"count", "select", "delete"}
      PROVE  Putting(f)' = Putting(f)
  BY <1>0, <1>4 DEF procVars, Putting, File, TypeOK
<1>5. ASSUME NEW j \in Jobs, Lookup(j)
      PROVE  Len(rows'[f]) <= Capacity + Cardinality(Putting(f)')
  <2>1. Putting(f)' = Putting(f)
    BY <1>4, <1>5 DEF Lookup, Go
  <2>2. CASE KeyOf[j] \in ToSet(rows[File(j)])
    <3>1. PICK s \in Touched(rows[File(j)], KeyOf[j]) : rows' = [rows EXCEPT ![File(j)] = s]
      BY <1>5, <2>2 DEF Lookup
    <3>2. s \in Seq(Keys) /\ Len(s) = Len(rows[File(j)])
      BY <1>0, <1>5, <2>2, TouchedLength DEF TypeOK, Lookup, Live
    <3>3. QED
      BY <1>0, <1>1, <2>1, <3>1, <3>2 DEF TypeOK
  <2>3. CASE KeyOf[j] \notin ToSet(rows[File(j)])
    BY <1>0, <1>1, <1>5, <2>1, <2>3 DEF Lookup
  <2>4. QED
    BY <2>2, <2>3
<1>6. ASSUME NEW j \in Jobs, Invalidate(j)
      PROVE  Len(rows'[f]) <= Capacity + Cardinality(Putting(f)')
  <2>1. Putting(f)' = Putting(f)
    BY <1>4, <1>6 DEF Invalidate, Go
  <2> DEFINE s == Without(rows[File(j)], KeyOf[j])
  <2>2. s \in Seq(Keys) /\ Len(s) <= Len(rows[File(j)]) /\ File(j) \in Files
    <3>1. File(j) \in Files
      BY <1>6 DEF Invalidate, Live
    <3>2. rows[File(j)] \in Seq(Keys) /\ KeyOf[j] \in Keys
      BY <1>0, <3>1 DEF TypeOK
    <3>3. CASE KeyOf[j] \in ToSet(rows[File(j)])
      BY <3>1, <3>2, <3>3, WithoutLength
    <3>4. CASE KeyOf[j] \notin ToSet(rows[File(j)])
      BY <3>1, <3>2, <3>4, WithoutLength
    <3>5. QED
      BY <3>3, <3>4
  <2>3. rows' = [rows EXCEPT ![File(j)] = s]
    BY <1>6 DEF Invalidate
  <2> HIDE DEF s
  <2>4. QED
    BY <1>0, <1>1, <2>1, <2>2, <2>3 DEF TypeOK
<1>7. ASSUME NEW j \in Jobs, Insert(j)
      PROVE  Len(rows'[f]) <= Capacity + Cardinality(Putting(f)')
  <2> DEFINE s == Append(Without(rows[File(j)], KeyOf[j]), KeyOf[j])
  <2>1. s \in Seq(Keys) /\ Len(s) <= Len(rows[File(j)]) + 1 /\ File(j) \in Files
    BY <1>0, <1>7, WithoutLength DEF TypeOK, Insert, Live
  <2>2. rows' = [rows EXCEPT ![File(j)] = s]
    BY <1>7 DEF Insert
  <2> HIDE DEF s
  <2>3. CASE f = File(j)
    <3>1. Putting(f)' = Putting(f) \union {j} /\ j \notin Putting(f)
      BY <1>0, <1>7, <2>3 DEF Insert, Go, Putting, File, procVars, TypeOK
    <3>2. Cardinality(Putting(f)') = Cardinality(Putting(f)) + 1
      BY <1>a, <3>1, FS_AddElement
    <3>3. QED
      BY <1>0, <1>a, <1>b, <2>1, <2>2, <2>3, <3>2 DEF TypeOK
  <2>4. CASE f # File(j)
    <3>1. Putting(f)' = Putting(f)
      BY <1>0, <1>7, <2>4 DEF Insert, Go, Putting, File, procVars, TypeOK
    <3>2. QED
      BY <1>0, <1>1, <2>2, <2>4, <3>1 DEF TypeOK
  <2>5. QED
    BY <2>3, <2>4
<1>8. ASSUME NEW j \in Jobs, Count(j)
      PROVE  Len(rows'[f]) <= Capacity + Cardinality(Putting(f)')
  <2>1. CASE Overflow(Len(rows[File(j)])) # 0 \/ f # File(j)
    <3>1. Putting(f)' = Putting(f)
      BY <1>0, <1>8, <2>1 DEF Count, Go, Putting, File, procVars, TypeOK
    <3>2. QED
      BY <1>0, <1>1, <1>8, <3>1 DEF Count
  <2>2. CASE Overflow(Len(rows[File(j)])) = 0 /\ f = File(j)
    <3>1. Len(rows[f]) <= Capacity
      BY <1>0, <2>2 DEF Overflow
    <3>2. Cardinality(Putting(f)') \in Nat
      <4>1. IsFiniteSet(Putting(f)')
        BY SetsAssumption, FS_Subset DEF Putting
      <4>2. QED
        BY <4>1, FS_CardinalityType
    <3>3. QED
      BY <1>0, <1>8, <3>1, <3>2 DEF Count
  <2>3. QED
    BY <2>1, <2>2
<1>9. ASSUME NEW j \in Jobs, Select(j)
      PROVE  Len(rows'[f]) <= Capacity + Cardinality(Putting(f)')
  <2>1. Putting(f)' = Putting(f)
    BY <1>4, <1>9 DEF Select, Go
  <2>2. QED
    BY <1>0, <1>1, <1>9, <2>1 DEF Select
<1>10. ASSUME NEW j \in Jobs, Delete(j)
      PROVE  Len(rows'[f]) <= Capacity + Cardinality(Putting(f)')
  <2> DEFINE g == File(j)
             v == Victims(g, overflow[j])
             s == SubSeq(rows[g], v + 1, Len(rows[g]))
  <2>1. rows' = [rows EXCEPT ![g] = s] /\ g \in Files
    BY <1>10 DEF Delete, Live
  <2>2. overflow[j] \in Nat /\ overflow[j] # 0 /\ rows[g] \in Seq(Keys)
    BY <1>0, <1>10, <2>1 DEF Delete, IndInv, Underway, TypeOK
  <2>3. v = IF overflow[j] <= Len(rows[g]) THEN overflow[j] ELSE Len(rows[g])
    BY <2>2, VictimsRange
  <2>4. s \in Seq(Keys) /\ Len(s) = Len(rows[g]) - v
    BY <2>2, <2>3, SubSeqProperties
  <2> HIDE DEF s, v
  <2>5. CASE f = g
    <3>1. Putting(f)' = Putting(f) \ {j} /\ j \in Putting(f)
      BY <1>0, <1>10, <2>5 DEF Delete, Go, Putting, File, procVars, TypeOK
    <3>2. Cardinality(Putting(f)') = Cardinality(Putting(f)) - 1
      <4>1. Cardinality(Putting(f) \ {j}) = Cardinality(Putting(f)) - 1
        BY <1>a, <3>1, FS_RemoveElement
      <4>2. QED
        BY <3>1, <4>1
    <3>3. Cardinality(Putting(f)') \in Nat
      BY <1>a, <3>1, FS_Subset, FS_CardinalityType
    <3>4. Len(rows'[f]) = Len(rows[f]) - v
      BY <1>0, <2>1, <2>4, <2>5 DEF TypeOK
    <3>5. Len(rows[f]) \in Nat /\ Cardinality(Putting(f)) \in Nat
      BY <1>a, <2>2, <2>5, FS_CardinalityType
    <3>6. QED
      BY <1>b, <2>2, <2>3, <2>5, <3>2, <3>3, <3>4, <3>5, CapacityAssumption
  <2>6. CASE f # g
    <3>1. Putting(f)' = Putting(f)
      BY <1>0, <1>10, <2>6 DEF Delete, Go, Putting, File, procVars, TypeOK
    <3>2. QED
      BY <1>0, <1>1, <2>1, <2>6, <3>1 DEF TypeOK
  <2>7. QED
    BY <2>5, <2>6
\* The others leave the rows alone.
<1>11. ASSUME NEW j \in Jobs,
              \/ Probe(j) \/ Create(j) \/ Start(j) \/ Run(j) \/ Commit(j)
              \/ RemoveImage(j) \/ Take(j) \/ Destroy(j) \/ Drop(j)
      PROVE  Len(rows'[f]) <= Capacity + Cardinality(Putting(f)')
  <2>1. rows' = rows /\ UNCHANGED procVars
    BY <1>11 DEF Probe, Create, Start, Run, Commit, RemoveImage, Take, Destroy, Drop
  <2>2. at[j] \notin {"count", "select", "delete"}
    BY <1>11 DEF Probe, Create, Start, Run, Commit, RemoveImage, Take, Destroy, Drop, Awaits
  <2>3. \E next \in {"stale", "starting", "running", "commit", "destroy", "insert", "remove", "destroying", "done"} :
          at' = [at EXCEPT ![j] = next]
    BY <1>11 DEF Probe, Create, Start, Run, Commit, RemoveImage, Take, Destroy, Drop, Go, Finish
  <2>4. Putting(f)' = Putting(f)
    BY <1>4, <2>1, <2>2, <2>3
  <2>5. QED
    BY <1>0, <1>1, <2>1, <2>4
<1>12. ASSUME NEW j \in Jobs, Sweep(j)
      PROVE  Len(rows'[f]) <= Capacity + Cardinality(Putting(f)')
  <2>1. rows' = rows /\ Putting(f)' = Putting(f)
    BY <1>12 DEF Sweep, procVars, Putting, File
  <2>2. QED
    BY <1>0, <1>1, <2>1
<1>13. QED
  BY <1>2, <1>3, <1>5, <1>6, <1>7, <1>8, <1>9, <1>10, <1>11, <1>12 DEF Next, JobNext

\* The inductive invariant of the cache: types, capacity, and what a job in
\* the middle of a put stands for.
THEOREM CacheInvariance == Spec => []IndInv
<1>1. Init => IndInv
  <2> SUFFICES ASSUME Init PROVE IndInv
    OBVIOUS
  <2>1. TypeOK
    BY InitTypes
  <2>2. \A f \in Files : Len(rows[f]) <= Capacity
    BY CapacityAssumption DEF Init, Files
  <2>3. \A f \in Files : Putting(f) = {}
    BY DEF Init, Putting
  <2>4. WithinCapacity
    <3> SUFFICES ASSUME NEW f \in Files PROVE Len(rows[f]) <= Capacity + Cardinality(Putting(f))
      BY DEF WithinCapacity
    <3>1. Cardinality(Putting(f)) = 0
      BY <2>3, FS_EmptySet
    <3>2. Len(rows[f]) \in Nat
      BY <2>1 DEF TypeOK
    <3>3. QED
      BY <2>2, <3>1, <3>2, CapacityAssumption
  <2>5. QED
    BY <2>1, <2>4 DEF IndInv, Underway, Init
<1>2. IndInv /\ [Next]_vars => IndInv'
  <2> SUFFICES ASSUME IndInv, [Next]_vars PROVE IndInv'
    OBVIOUS
  <2>1. TypeOK'
    BY TypeInvariance DEF IndInv
  <2>2. WithinCapacity'
    BY CapacityInvariance DEF WithinCapacity
  <2>3. \A j \in Jobs : Underway(j)'
    BY UnderwayInvariance DEF IndInv
  <2>4. QED
    BY <2>1, <2>2, <2>3 DEF IndInv
<1>3. QED
  BY <1>1, <1>2, PTL DEF Spec

\* However puts interleave, in any number of processes, no registry file holds
\* more rows than its capacity and one per put under way.
THEOREM CapacityHolds == Spec => []WithinCapacity
<1>1. IndInv => WithinCapacity
  BY DEF IndInv
<1>2. QED
  BY <1>1, CacheInvariance, PTL

-----------------------------------------------------------------------------
(* Within one process, the mutex makes put's SELECT and DELETE one step.    *)

Sole == \A i, j \in Jobs : ProcOf[i] = ProcOf[j]

AloneInDelete == \A i, j \in Jobs : at[i] = "delete" /\ at[j] = "delete" => i = j

\* A job about to delete keeps everyone else out of the registry.
LEMMA SelectInvariance ==
  ASSUME Sole, IndInv, AloneInDelete, SelectedStillOldest, [Next]_vars
  PROVE  AloneInDelete' /\ SelectedStillOldest'
<1> USE FunctionsAssumption
<1>0. TypeOK
  BY DEF IndInv
<1>1. \A i, j \in Jobs : ProcOf[i] = ProcOf[j]
  BY DEF Sole
\* Who moves elsewhere, and touches neither the rows nor what others selected.
<1>2. ASSUME NEW j \in Jobs, NEW next, at' = [at EXCEPT ![j] = next], next # "delete"
      PROVE  AloneInDelete'
  BY <1>0, <1>2 DEF AloneInDelete, TypeOK
<1>3. ASSUME NEW j \in Jobs, NEW next, at' = [at EXCEPT ![j] = next], next # "delete",
             rows' = rows, overflow' = overflow, UNCHANGED procVars,
             \A i \in Jobs \ {j} : evicted'[i] = evicted[i]
      PROVE  SelectedStillOldest'
  BY <1>0, <1>3 DEF SelectedStillOldest, TypeOK, procVars, File, Oldest, Victims
\* Who holds the mutex without being about to delete.
<1>4. ASSUME NEW j \in Jobs, MutexFree(j), NEW next, at' = [at EXCEPT ![j] = next], next # "delete"
      PROVE  SelectedStillOldest'
  BY <1>0, <1>1, <1>4 DEF SelectedStillOldest, MutexFree, TypeOK
<1>5. ASSUME NEW j \in Jobs, Lookup(j) \/ Invalidate(j) \/ Insert(j) \/ Count(j)
      PROVE  AloneInDelete' /\ SelectedStillOldest'
  <2>1. MutexFree(j)
    BY <1>5 DEF Lookup, Invalidate, Insert, Count
  <2>2. \E next \in {"exists", "boot", "count", "destroy", "select"} : at' = [at EXCEPT ![j] = next]
    BY <1>5 DEF Lookup, Invalidate, Insert, Count, Go
  <2>3. QED
    BY <1>2, <1>4, <2>1, <2>2
<1>6. ASSUME NEW j \in Jobs, Select(j)
      PROVE  AloneInDelete' /\ SelectedStillOldest'
  <2>1. at' = [at EXCEPT ![j] = "delete"] /\ evicted' = [evicted EXCEPT ![j] = Oldest(File(j), overflow[j])]
    BY <1>6 DEF Select, Go
  <2>2. rows' = rows /\ overflow' = overflow /\ handle' = handle
    BY <1>6 DEF Select, procVars
  <2>3. \A i \in Jobs : at[i] # "delete"
    BY <1>1, <1>6 DEF Select, MutexFree
  <2>4. Oldest(File(j), overflow[j])' = Oldest(File(j), overflow[j])
    BY <2>2 DEF Oldest, Victims, File
  <2>5. \A i \in Jobs : at'[i] = "delete" => i = j
    BY <1>0, <2>1, <2>3 DEF TypeOK
  <2>6. evicted'[j] = Oldest(File(j), overflow[j])
    BY <1>0, <2>1 DEF TypeOK
  <2>7. QED
    BY <2>4, <2>5, <2>6 DEF AloneInDelete, SelectedStillOldest
<1>7. ASSUME NEW j \in Jobs, Delete(j)
      PROVE  AloneInDelete' /\ SelectedStillOldest'
  <2>1. \E next \in {"destroy", "remove"} : at' = [at EXCEPT ![j] = next]
    BY <1>7 DEF Delete, Go
  <2>2. \A i \in Jobs : at'[i] # "delete"
    BY <1>0, <1>7, <2>1 DEF Delete, AloneInDelete, TypeOK
  <2>3. QED
    BY <2>2 DEF AloneInDelete, SelectedStillOldest
<1>8. ASSUME NEW j \in Jobs, Probe(j) \/ Create(j) \/ Start(j) \/ Run(j) \/ Commit(j) \/ Take(j) \/ Destroy(j)
      PROVE  AloneInDelete' /\ SelectedStillOldest'
  <2>1. rows' = rows /\ overflow' = overflow /\ evicted' = evicted /\ UNCHANGED procVars
    BY <1>8 DEF Probe, Create, Start, Run, Commit, Take, Destroy
  <2>2. \E next \in {"stale", "starting", "running", "commit", "destroy", "insert", "destroying", "done"} :
          at' = [at EXCEPT ![j] = next]
    BY <1>8 DEF Probe, Create, Start, Run, Commit, Take, Destroy, Go, Finish
  <2>3. QED
    BY <1>2, <1>3, <2>1, <2>2
<1>9. ASSUME NEW j \in Jobs, RemoveImage(j) \/ Drop(j)
      PROVE  AloneInDelete' /\ SelectedStillOldest'
  <2>1. rows' = rows /\ overflow' = overflow /\ UNCHANGED procVars
    BY <1>9 DEF RemoveImage, Drop
  <2>2. \A i \in Jobs \ {j} : evicted'[i] = evicted[i]
    BY <1>0, <1>9 DEF RemoveImage, Drop, TypeOK
  <2>3. \E next \in {"destroy", "remove", "done"} : at' = [at EXCEPT ![j] = next]
    BY <1>9 DEF RemoveImage, Drop, Go, Finish
  <2>4. QED
    BY <1>2, <1>3, <2>1, <2>2, <2>3
\* Who moves no job.
<1>10. ASSUME at' = at, rows' = rows, overflow' = overflow, evicted' = evicted,
              \A j \in Jobs : at[j] # "idle" => File(j)' = File(j)
       PROVE  AloneInDelete' /\ SelectedStillOldest'
  BY <1>10 DEF AloneInDelete, SelectedStillOldest, Oldest, Victims
<1>11. ASSUME NEW p \in Procs, Open(p) \/ Exit(p)
       PROVE  AloneInDelete' /\ SelectedStillOldest'
  <2>1. \A j \in Jobs : at[j] # "idle" => File(j)' = File(j)
    BY <1>11, FileKept
  <2>2. QED
    BY <1>10, <1>11, <2>1 DEF Open, Exit, jobVars
<1>12. ASSUME NEW j \in Jobs, Sweep(j)
       PROVE  AloneInDelete' /\ SelectedStillOldest'
  BY <1>10, <1>12 DEF Sweep, procVars, File
<1>13. CASE UNCHANGED vars \/ AllGone \/ List \/ Unlink \/ \E k \in Keys : CleanOne(k)
  BY <1>10, <1>13 DEF vars, AllGone, List, Unlink, CleanOne, jobVars, procVars, File
<1>14. QED
  BY <1>5, <1>6, <1>7, <1>8, <1>9, <1>11, <1>12, <1>13 DEF Next, JobNext

\* What DELETE takes off the front of the file is in what SELECT returned.
LEMMA DeletedWereSelected ==
  ASSUME NEW s \in Seq(Keys), NEW v \in 0..Len(s)
  PROVE  ToSet(s) \ ToSet(SubSeq(s, v + 1, Len(s))) \subseteq ToSet(SubSeq(s, 1, v))
<1> DEFINE front == SubSeq(s, 1, v)
           back == SubSeq(s, v + 1, Len(s))
<1>1. DOMAIN front = 1..v /\ \A n \in 1..v : front[n] = s[n]
  BY SubSeqProperties
<1>2. DOMAIN back = 1..(Len(s) - v) /\ \A n \in 1..(Len(s) - v) : back[n] = s[v + n]
  BY SubSeqProperties
<1> HIDE DEF front, back
<1>3. SUFFICES ASSUME NEW n \in 1..Len(s), s[n] \notin ToSet(back) PROVE s[n] \in ToSet(front)
  <2>1. \A x \in ToSet(s) : \E n \in 1..Len(s) : x = s[n]
    BY DEF ToSet
  <2>2. QED
    BY <2>1 DEF front, back
<1>4. n <= v
  <2>1. SUFFICES ASSUME n > v PROVE FALSE
    OBVIOUS
  <2>2. n - v \in 1..(Len(s) - v) /\ v + (n - v) = n
    BY <2>1
  <2>3. QED
    BY <1>2, <1>3, <2>2 DEF ToSet
<1>5. QED
  BY <1>1, <1>4 DEF ToSet

\* What a DELETE takes was selected, if the selection is still the oldest.
LEMMA DeleteReturns ==
  ASSUME TypeOK, SelectedStillOldest, NEW j \in Jobs, Delete(j), NEW f \in Files
  PROVE  ToSet(rows[f]) \ ToSet(rows'[f]) \subseteq ToSet(evicted[j])
<1> DEFINE g == File(j)
           v == Victims(g, overflow[j])
<1>1. g \in Files /\ at[j] = "delete" /\ rows' = [rows EXCEPT ![g] = SubSeq(@, v + 1, Len(@))]
  BY DEF Delete, Live
<1>2. rows[g] \in Seq(Keys) /\ overflow[j] \in Nat
  BY <1>1 DEF TypeOK
<1>3. v \in 0..Len(rows[g])
  BY <1>2, VictimsRange
<1>4. evicted[j] = SubSeq(rows[g], 1, v)
  BY <1>1 DEF SelectedStillOldest, Oldest
<1> HIDE DEF g, v
<1>5. CASE f = g
  <2>1. rows'[f] = SubSeq(rows[g], v + 1, Len(rows[g]))
    BY <1>1, <1>5 DEF TypeOK
  <2>2. QED
    BY <1>2, <1>3, <1>4, <1>5, <2>1, DeletedWereSelected
<1>6. CASE f # g
  BY <1>1, <1>6 DEF TypeOK
<1>7. QED
  BY <1>5, <1>6

\* Between SELECT and DELETE a sole process is alone with its registry.
LEMMA SelectionInvariance ==
  ASSUME Sole
  PROVE  Spec => [](IndInv /\ AloneInDelete /\ SelectedStillOldest)
<1>1. Init => AloneInDelete /\ SelectedStillOldest
  BY DEF Init, AloneInDelete, SelectedStillOldest
<1>2. IndInv /\ AloneInDelete /\ SelectedStillOldest /\ [Next]_vars => (AloneInDelete /\ SelectedStillOldest)'
  BY SelectInvariance
<1>3. QED
  BY <1>1, <1>2, CacheInvariance, PTL DEF Spec

\* In a sole process, for any number of jobs and keys: when a DELETE comes, the
\* oldest rows are still the ones its SELECT returned.
THEOREM SelectionHolds ==
  ASSUME Sole
  PROVE  Spec => []SelectedStillOldest
BY SelectionInvariance, PTL

\* In a sole process, for any number of jobs and keys: every row put deletes is
\* one whose image it returns for removal.
THEOREM SoleProcessReturnsEvicted ==
  ASSUME Sole
  PROVE  Spec => EvictedAreReturned
<1> DEFINE Inv == IndInv /\ AloneInDelete /\ SelectedStillOldest
           Returned == \A j \in Jobs : at[j] = "delete" /\ at'[j] # "delete" =>
                         \A f \in Files : ToSet(rows[f]) \ ToSet(rows'[f]) \subseteq ToSet(evicted[j])
<1>1. Inv /\ [Next]_vars => [Returned]_vars
  <2> SUFFICES ASSUME Inv, [Next]_vars, NEW j \in Jobs, at[j] = "delete", at'[j] # "delete", NEW f \in Files
               PROVE  ToSet(rows[f]) \ ToSet(rows'[f]) \subseteq ToSet(evicted[j])
    OBVIOUS
  <2>1. TypeOK
    BY DEF IndInv
  <2>2. Delete(j)
    <3>1. ASSUME NEW i \in Jobs, JobNext(i) PROVE Delete(j)
      <4>1. at[i] # "delete" => at'[j] = at[j]
        BY <2>1, <3>1 DEF TypeOK, JobNext, Lookup, Probe, Invalidate, Create, Start, Run, Commit, Insert,
                          Count, Select, Delete, RemoveImage, Take, Destroy, Drop, Sweep, Go, Finish
      <4>2. at[i] = "delete" => Delete(i) \/ at' = at
        BY <3>1 DEF JobNext, Lookup, Probe, Invalidate, Create, Start, Run, Commit, Insert,
                    Count, Select, RemoveImage, Take, Destroy, Drop, Sweep, Awaits
      <4>3. QED
        BY <4>1, <4>2 DEF AloneInDelete
    <3>2. ASSUME NEW p \in Procs, Open(p) \/ Exit(p) PROVE Delete(j)
      BY <3>2 DEF Open, Exit, jobVars
    <3>3. CASE UNCHANGED vars \/ AllGone \/ List \/ Unlink \/ \E k \in Keys : CleanOne(k)
      BY <3>3 DEF vars, AllGone, List, Unlink, CleanOne, jobVars
    <3>4. QED
      BY <3>1, <3>2, <3>3 DEF Next
  <2>3. QED
    BY <2>1, <2>2, DeleteReturns
<1>2. EvictedAreReturned <=> [][Returned]_vars
  BY DEF EvictedAreReturned
<1>3. QED
  BY <1>1, <1>2, SelectionInvariance, PTL DEF Spec

-----------------------------------------------------------------------------
(* The rows as a set of keys.                                               *)

\* The rows after one is dropped, by position.
LEMMA WithoutIndex ==
  ASSUME NEW s \in Seq(Keys), NEW k \in ToSet(s)
  PROVE  /\ Row(s, k) \in 1..Len(s) /\ s[Row(s, k)] = k
         /\ Without(s, k) \in Seq(Keys) /\ Len(Without(s, k)) = Len(s) - 1
         /\ \A n \in 1..(Len(s) - 1) :
              Without(s, k)[n] = IF n < Row(s, k) THEN s[n] ELSE s[n + 1]
<1> DEFINE i == Row(s, k)
           front == SubSeq(s, 1, i - 1)
           back == SubSeq(s, i + 1, Len(s))
<1>1. i \in 1..Len(s) /\ s[i] = k
  BY DEF Row, ToSet
<1>2. k \in Keys /\ Len(s) \in Nat
  BY DEF ToSet
<1>3. Without(s, k) \in Seq(Keys) /\ Len(Without(s, k)) = Len(s) - 1
  BY <1>2, WithoutLength
<1>4. Without(s, k) = front \o back
  BY DEF Without, RemoveAt
<1> HIDE DEF i
<1>5. front \in Seq(Keys) /\ Len(front) = i - 1 /\ \A n \in 1..(i - 1) : front[n] = s[n]
  BY <1>1, <1>2, SubSeqProperties
<1>6. back \in Seq(Keys) /\ Len(back) = Len(s) - i /\ \A n \in 1..(Len(s) - i) : back[n] = s[i + n]
  BY <1>1, <1>2, SubSeqProperties
<1> HIDE DEF front, back
<1>7. ASSUME NEW n \in 1..(Len(s) - 1)
      PROVE  Without(s, k)[n] = IF n < i THEN s[n] ELSE s[n + 1]
  <2>1. Len(front \o back) = Len(front) + Len(back)
        /\ \A m \in 1..(Len(front) + Len(back)) :
             (front \o back)[m] = IF m <= Len(front) THEN front[m] ELSE back[m - Len(front)]
    BY <1>5, <1>6, ConcatProperties
  <2>2. n \in 1..(Len(front) + Len(back))
    BY <1>1, <1>2, <1>5, <1>6
  <2>3. (front \o back)[n] = IF n <= i - 1 THEN front[n] ELSE back[n - (i - 1)]
    BY <1>5, <2>1, <2>2
  <2>4. CASE n < i
    BY <1>1, <1>2, <1>4, <1>5, <2>3, <2>4
  <2>5. CASE ~(n < i)
    <3>1. n - (i - 1) \in 1..(Len(s) - i) /\ i + (n - (i - 1)) = n + 1
      BY <1>1, <1>2, <2>5
    <3>2. back[n - (i - 1)] = s[n + 1]
      BY <1>6, <3>1
    <3>3. QED
      BY <1>1, <1>2, <1>4, <2>3, <2>5, <3>2
  <2>6. QED
    BY <2>4, <2>5
<1>8. QED
  BY <1>1, <1>3, <1>7 DEF i

\* Dropping a row loses its key and no other.
LEMMA WithoutKeys ==
  ASSUME NEW s \in Seq(Keys), NEW k \in Keys
  PROVE  /\ Without(s, k) \in Seq(Keys)
         /\ ToSet(s) \ {k} \subseteq ToSet(Without(s, k))
         /\ ToSet(Without(s, k)) \subseteq ToSet(s)
         /\ IsInjective(s) => IsInjective(Without(s, k)) /\ k \notin ToSet(Without(s, k))
<1>1. CASE k \in ToSet(s)
  <2> DEFINE i == Row(s, k)
             r == Without(s, k)
  <2>1. /\ i \in 1..Len(s) /\ s[i] = k /\ r \in Seq(Keys) /\ Len(r) = Len(s) - 1
        /\ \A n \in 1..(Len(s) - 1) : r[n] = IF n < i THEN s[n] ELSE s[n + 1]
    BY <1>1, WithoutIndex
  <2>2. Len(s) \in Nat
    OBVIOUS
  <2> HIDE DEF i, r
  <2>3. ASSUME NEW x \in ToSet(s) \ {k} PROVE x \in ToSet(r)
    <3>1. PICK m \in 1..Len(s) : x = s[m]
      BY DEF ToSet
    <3>2. m # i
      BY <2>1, <3>1
    <3>3. CASE m < i
      <4>1. m \in 1..(Len(s) - 1) /\ r[m] = x
        BY <2>1, <2>2, <3>1, <3>3
      <4>2. QED
        BY <2>1, <4>1 DEF ToSet
    <3>4. CASE m > i
      <4>1. m - 1 \in 1..(Len(s) - 1) /\ ~(m - 1 < i) /\ (m - 1) + 1 = m
        BY <2>1, <2>2, <3>4
      <4>2. r[m - 1] = x
        BY <2>1, <3>1, <4>1
      <4>3. QED
        BY <2>1, <4>1, <4>2 DEF ToSet
    <3>5. QED
      BY <2>1, <3>2, <3>3, <3>4
  <2>4. ASSUME NEW x \in ToSet(r) PROVE x \in ToSet(s)
    <3>1. PICK n \in 1..(Len(s) - 1) : x = r[n]
      BY <2>1 DEF ToSet
    <3>2. n \in 1..Len(s) /\ n + 1 \in 1..Len(s)
      BY <2>2
    <3>3. QED
      BY <2>1, <3>1, <3>2 DEF ToSet
  <2>5. ASSUME IsInjective(s) PROVE IsInjective(r) /\ k \notin ToSet(r)
    <3>1. \A m, n \in 1..Len(s) : s[m] = s[n] => m = n
      BY <2>5 DEF IsInjective
    <3>2. ASSUME NEW m \in 1..(Len(s) - 1), NEW n \in 1..(Len(s) - 1), r[m] = r[n] PROVE m = n
      <4>1. /\ m \in 1..Len(s) /\ m + 1 \in 1..Len(s)
            /\ n \in 1..Len(s) /\ n + 1 \in 1..Len(s)
        BY <2>2
      <4>2. /\ r[m] = IF m < i THEN s[m] ELSE s[m + 1]
            /\ r[n] = IF n < i THEN s[n] ELSE s[n + 1]
        BY <2>1
      <4>3. CASE m < i /\ n < i
        BY <3>1, <3>2, <4>1, <4>2, <4>3
      <4>4. CASE ~(m < i) /\ ~(n < i)
        <5>1. m + 1 = n + 1
          BY <3>1, <3>2, <4>1, <4>2, <4>4
        <5>2. QED
          BY <5>1
      <4>5. CASE m < i /\ ~(n < i)
        <5>1. m = n + 1
          BY <3>1, <3>2, <4>1, <4>2, <4>5
        <5>2. QED
          BY <2>1, <4>5, <5>1
      <4>6. CASE ~(m < i) /\ n < i
        <5>1. m + 1 = n
          BY <3>1, <3>2, <4>1, <4>2, <4>6
        <5>2. QED
          BY <2>1, <4>6, <5>1
      <4>7. QED
        BY <4>3, <4>4, <4>5, <4>6
    <3>3. ASSUME NEW n \in 1..(Len(s) - 1), r[n] = k PROVE FALSE
      <4>1. n \in 1..Len(s) /\ n + 1 \in 1..Len(s)
        BY <2>2
      <4>2. QED
        BY <2>1, <3>1, <3>3, <4>1
    <3>4. QED
      BY <2>1, <3>2, <3>3 DEF IsInjective, ToSet
  <2>6. QED
    BY <2>1, <2>3, <2>4, <2>5 DEF r
<1>2. CASE k \notin ToSet(s)
  BY <1>2 DEF Without
<1>3. QED
  BY <1>1, <1>2

\* The rows after a touch, by position.
LEMMA TouchedIndex ==
  ASSUME NEW s \in Seq(Keys), NEW k \in ToSet(s), NEW t \in Touched(s, k)
  PROVE  /\ t \in Seq(Keys) /\ Len(t) = Len(s)
         /\ \E m \in 1..Len(s) : \A n \in 1..Len(s) :
              t[n] = IF n < m THEN Without(s, k)[n] ELSE IF n = m THEN k ELSE Without(s, k)[n - 1]
<1>1. t \in Seq(Keys) /\ Len(t) = Len(s)
  BY TouchedLength
<1>2. PICK m \in Row(s, k)..Len(s) : t = InsertAt(Without(s, k), m, k)
  BY DEF Touched
<1> DEFINE r == Without(s, k)
           front == SubSeq(r, 1, m - 1)
           mid == <<k>>
           back == SubSeq(r, m, Len(r))
<1>3. /\ r \in Seq(Keys) /\ Len(r) = Len(s) - 1 /\ m \in 1..Len(s)
      /\ Len(s) \in Nat /\ k \in Keys
  BY WithoutIndex DEF ToSet
<1>4. t = (front \o mid) \o back
  BY <1>2 DEF InsertAt
<1> HIDE DEF r
<1>5. front \in Seq(Keys) /\ Len(front) = m - 1 /\ \A n \in 1..(m - 1) : front[n] = r[n]
  BY <1>3, SubSeqProperties
<1>6. back \in Seq(Keys) /\ Len(back) = Len(s) - m /\ \A n \in 1..(Len(s) - m) : back[n] = r[m + n - 1]
  BY <1>3, SubSeqProperties
<1>7. mid \in Seq(Keys) /\ Len(mid) = 1 /\ mid[1] = k
  BY <1>3
<1> HIDE DEF front, mid, back
<1> DEFINE most == front \o mid
<1>8. /\ most \in Seq(Keys) /\ Len(most) = m
      /\ \A n \in 1..m : most[n] = IF n < m THEN front[n] ELSE k
  <2>1. most \in Seq(Keys) /\ Len(most) = Len(front) + Len(mid)
    BY <1>5, <1>7, ConcatLength, Zenon
  <2>2. \A n \in 1..(Len(front) + Len(mid)) :
          most[n] = IF n <= Len(front) THEN front[n] ELSE mid[n - Len(front)]
    BY <1>5, <1>7, ConcatProperties
  <2> HIDE DEF most
  <2>3. QED
    BY <1>3, <1>5, <1>7, <2>1, <2>2
<1>9. t = most \o back
  BY <1>4
<1> HIDE DEF most
<1>10. \A n \in 1..Len(s) : t[n] = IF n <= m THEN most[n] ELSE back[n - m]
  <2>1. \A n \in 1..(Len(most) + Len(back)) :
          (most \o back)[n] = IF n <= Len(most) THEN most[n] ELSE back[n - Len(most)]
    BY <1>6, <1>8, ConcatProperties
  <2>2. Len(most) + Len(back) = Len(s)
    BY <1>3, <1>6, <1>8
  <2>3. QED
    BY <1>8, <1>9, <2>1, <2>2
<1>11. ASSUME NEW n \in 1..Len(s)
       PROVE  t[n] = IF n < m THEN r[n] ELSE IF n = m THEN k ELSE r[n - 1]
  <2>1. CASE n < m
    BY <1>3, <1>5, <1>8, <1>10, <2>1
  <2>2. CASE n = m
    BY <1>3, <1>8, <1>10, <2>2
  <2>3. CASE n > m
    <3>1. n - m \in 1..(Len(s) - m) /\ m + (n - m) - 1 = n - 1 /\ ~(n <= m)
      BY <1>3, <2>3
    <3>2. back[n - m] = r[n - 1]
      BY <1>6, <3>1
    <3>3. QED
      BY <1>10, <2>3, <3>1, <3>2
  <2>4. QED
    BY <1>3, <2>1, <2>2, <2>3
<1>12. QED
  BY <1>1, <1>3, <1>11 DEF r

\* A touch reorders the rows: no key comes or goes.
LEMMA TouchedKeys ==
  ASSUME NEW s \in Seq(Keys), NEW k \in ToSet(s), NEW t \in Touched(s, k)
  PROVE  /\ t \in Seq(Keys) /\ ToSet(t) = ToSet(s)
         /\ IsInjective(s) => IsInjective(t)
<1> DEFINE r == Without(s, k)
<1>1. /\ k \in Keys /\ Len(s) \in Nat
      /\ r \in Seq(Keys) /\ Len(r) = Len(s) - 1
      /\ ToSet(s) \ {k} \subseteq ToSet(r) /\ ToSet(r) \subseteq ToSet(s)
      /\ IsInjective(s) => IsInjective(r) /\ k \notin ToSet(r)
  <2>1. k \in Keys /\ Len(s) \in Nat
    BY DEF ToSet
  <2>2. r \in Seq(Keys) /\ Len(r) = Len(s) - 1
    BY WithoutIndex
  <2>3. /\ ToSet(s) \ {k} \subseteq ToSet(r) /\ ToSet(r) \subseteq ToSet(s)
        /\ IsInjective(s) => IsInjective(r) /\ k \notin ToSet(r)
    BY <2>1, WithoutKeys
  <2>4. QED
    BY <2>1, <2>2, <2>3
<1>2. t \in Seq(Keys) /\ Len(t) = Len(s)
  BY TouchedIndex
<1>3. PICK m \in 1..Len(s) : \A n \in 1..Len(s) :
        t[n] = IF n < m THEN r[n] ELSE IF n = m THEN k ELSE r[n - 1]
  <2>1. \E m \in 1..Len(s) : \A n \in 1..Len(s) :
          t[n] = IF n < m THEN Without(s, k)[n] ELSE IF n = m THEN k ELSE Without(s, k)[n - 1]
    BY TouchedIndex
  <2>2. QED
    BY <2>1
<1> HIDE DEF r
<1>4. ASSUME NEW x \in ToSet(t) PROVE x \in ToSet(s)
  <2>1. PICK n \in 1..Len(s) : x = t[n]
    BY <1>2 DEF ToSet
  <2>2. \/ x = k
        \/ n < m /\ n \in 1..Len(r) /\ x = r[n]
        \/ n > m /\ n - 1 \in 1..Len(r) /\ x = r[n - 1]
    BY <1>1, <1>3, <2>1
  <2>3. x = k \/ x \in ToSet(r)
    BY <1>1, <2>2 DEF ToSet
  <2>4. QED
    BY <1>1, <2>3
<1>5. ASSUME NEW x \in ToSet(s) PROVE x \in ToSet(t)
  <2>1. CASE x = k
    <3>1. t[m] = k
      BY <1>3
    <3>2. QED
      BY <1>2, <2>1, <3>1 DEF ToSet
  <2>2. CASE x # k
    <3>1. PICK n \in 1..(Len(s) - 1) : x = r[n]
      BY <1>1, <2>2 DEF ToSet
    <3>2. CASE n < m
      <4>1. n \in 1..Len(s) /\ t[n] = x
        BY <1>1, <1>3, <3>1, <3>2
      <4>2. QED
        BY <1>2, <4>1 DEF ToSet
    <3>3. CASE n >= m
      <4>1. n + 1 \in 1..Len(s) /\ ~(n + 1 < m) /\ n + 1 # m /\ (n + 1) - 1 = n
        BY <1>1, <3>3
      <4>2. t[n + 1] = x
        BY <1>3, <3>1, <4>1
      <4>3. QED
        BY <1>2, <4>1, <4>2 DEF ToSet
    <3>4. QED
      BY <1>1, <3>2, <3>3
  <2>3. QED
    BY <2>1, <2>2
<1>6. ASSUME IsInjective(s) PROVE IsInjective(t)
  <2>1. \A i, j \in 1..(Len(s) - 1) : r[i] = r[j] => i = j
    BY <1>1, <1>6 DEF IsInjective
  <2>2. \A i \in 1..(Len(s) - 1) : r[i] # k
    BY <1>1, <1>6 DEF ToSet
  <2>3. ASSUME NEW i \in 1..Len(s), NEW j \in 1..Len(s), t[i] = t[j] PROVE i = j
    <3>1. /\ i < m => i \in 1..(Len(s) - 1) /\ t[i] = r[i]
          /\ i = m => t[i] = k
          /\ i > m => i - 1 \in 1..(Len(s) - 1) /\ t[i] = r[i - 1]
      BY <1>1, <1>3
    <3>2. /\ j < m => j \in 1..(Len(s) - 1) /\ t[j] = r[j]
          /\ j = m => t[j] = k
          /\ j > m => j - 1 \in 1..(Len(s) - 1) /\ t[j] = r[j - 1]
      BY <1>1, <1>3
    <3>3. QED
      BY <1>1, <2>1, <2>2, <2>3, <3>1, <3>2
  <2>4. QED
    BY <1>2, <2>3 DEF IsInjective
<1>7. QED
  BY <1>2, <1>4, <1>5, <1>6

\* A replaced or added row is the last; every other key stays.
LEMMA InsertedKeys ==
  ASSUME NEW s \in Seq(Keys), NEW k \in Keys
  PROVE  LET t == Append(Without(s, k), k) IN
         /\ t \in Seq(Keys) /\ ToSet(t) = ToSet(s) \union {k}
         /\ IsInjective(s) => IsInjective(t)
<1> DEFINE r == Without(s, k)
           t == Append(r, k)
<1>1. /\ r \in Seq(Keys) /\ ToSet(s) \ {k} \subseteq ToSet(r) /\ ToSet(r) \subseteq ToSet(s)
      /\ IsInjective(s) => IsInjective(r) /\ k \notin ToSet(r)
  BY WithoutKeys
<1> HIDE DEF r
<1>2. /\ t \in Seq(Keys) /\ Len(t) = Len(r) + 1 /\ Len(r) \in Nat /\ t[Len(r) + 1] = k
      /\ \A n \in 1..Len(r) : t[n] = r[n]
  BY <1>1
<1> HIDE DEF t
<1>3. ToSet(t) = ToSet(r) \union {k}
  <2>1. ASSUME NEW x \in ToSet(t) PROVE x \in ToSet(r) \union {k}
    <3>1. PICK n \in 1..(Len(r) + 1) : x = t[n]
      BY <1>2 DEF ToSet
    <3>2. n = Len(r) + 1 \/ n \in 1..Len(r)
      BY <1>2
    <3>3. QED
      BY <1>1, <1>2, <3>1, <3>2 DEF ToSet
  <2>2. ASSUME NEW x \in ToSet(r) PROVE x \in ToSet(t)
    <3>1. PICK n \in 1..Len(r) : x = r[n]
      BY <1>1 DEF ToSet
    <3>2. n \in 1..(Len(r) + 1) /\ t[n] = x
      BY <1>2, <3>1
    <3>3. QED
      BY <1>2, <3>2 DEF ToSet
  <2>3. k \in ToSet(t)
    <3>1. Len(r) + 1 \in 1..Len(t)
      BY <1>2
    <3>2. QED
      BY <1>2, <3>1 DEF ToSet
  <2>4. QED
    BY <2>1, <2>2, <2>3
<1>4. ASSUME IsInjective(s) PROVE IsInjective(t)
  <2>1. (\A i, j \in 1..Len(r) : r[i] = r[j] => i = j) /\ \A i \in 1..Len(r) : r[i] # k
    BY <1>1, <1>4 DEF IsInjective, ToSet
  <2>2. ASSUME NEW i \in 1..(Len(r) + 1), NEW j \in 1..(Len(r) + 1), t[i] = t[j] PROVE i = j
    <3>1. (i = Len(r) + 1 \/ i \in 1..Len(r)) /\ (j = Len(r) + 1 \/ j \in 1..Len(r))
      BY <1>2
    <3>2. QED
      BY <1>2, <2>1, <2>2, <3>1
  <2>3. QED
    BY <1>2, <2>2 DEF IsInjective
<1>5. QED
  BY <1>1, <1>2, <1>3, <1>4 DEF t, r


-----------------------------------------------------------------------------
(* How a section of the registry changes the keys of a file.                *)

LEMMA LookupKeys ==
  ASSUME TypeOK, NEW j \in Jobs, Lookup(j), NEW f \in Files
  PROVE  ToSet(rows'[f]) = ToSet(rows[f]) /\ (IsInjective(rows[f]) => IsInjective(rows'[f]))
<1>1. File(j) \in Files /\ rows \in [Files -> Seq(Keys)]
  BY DEF Lookup, Live, TypeOK
<1>2. CASE KeyOf[j] \in ToSet(rows[File(j)])
  <2>1. PICK s \in Touched(rows[File(j)], KeyOf[j]) : rows' = [rows EXCEPT ![File(j)] = s]
    BY <1>2 DEF Lookup
  <2>2. /\ ToSet(s) = ToSet(rows[File(j)])
        /\ IsInjective(rows[File(j)]) => IsInjective(s)
    BY <1>1, <1>2, TouchedKeys
  <2>3. QED
    BY <1>1, <2>1, <2>2
<1>3. CASE KeyOf[j] \notin ToSet(rows[File(j)])
  BY <1>3 DEF Lookup
<1>4. QED
  BY <1>2, <1>3

LEMMA InvalidateKeys ==
  ASSUME TypeOK, NEW j \in Jobs, Invalidate(j), NEW f \in Files
  PROVE  /\ ToSet(rows[f]) \ {KeyOf[j]} \subseteq ToSet(rows'[f])
         /\ ToSet(rows'[f]) \subseteq ToSet(rows[f])
         /\ f # File(j) => rows'[f] = rows[f]
         /\ IsInjective(rows[f]) => IsInjective(rows'[f])
<1>1. /\ File(j) \in Files /\ rows \in [Files -> Seq(Keys)] /\ KeyOf[j] \in Keys
      /\ rows' = [rows EXCEPT ![File(j)] = Without(rows[File(j)], KeyOf[j])]
  BY FunctionsAssumption DEF Invalidate, Live, TypeOK
<1> DEFINE s == rows[File(j)]
           r == Without(s, KeyOf[j])
<1>2. /\ ToSet(s) \ {KeyOf[j]} \subseteq ToSet(r) /\ ToSet(r) \subseteq ToSet(s)
      /\ IsInjective(s) => IsInjective(r)
  BY <1>1, WithoutKeys
<1>3. rows'[f] = IF f = File(j) THEN r ELSE rows[f]
  BY <1>1
<1> HIDE DEF r
<1>4. QED
  BY <1>2, <1>3

LEMMA InsertKeys ==
  ASSUME TypeOK, NEW j \in Jobs, Insert(j), NEW f \in Files
  PROVE  /\ ToSet(rows'[f]) = IF f = File(j) THEN ToSet(rows[f]) \union {KeyOf[j]} ELSE ToSet(rows[f])
         /\ IsInjective(rows[f]) => IsInjective(rows'[f])
<1>1. /\ File(j) \in Files /\ rows \in [Files -> Seq(Keys)] /\ KeyOf[j] \in Keys
      /\ rows' = [rows EXCEPT ![File(j)] = Append(Without(rows[File(j)], KeyOf[j]), KeyOf[j])]
  BY FunctionsAssumption DEF Insert, Live, TypeOK
<1> DEFINE s == rows[File(j)]
           r == Append(Without(s, KeyOf[j]), KeyOf[j])
<1>2. /\ ToSet(r) = ToSet(s) \union {KeyOf[j]}
      /\ IsInjective(s) => IsInjective(r)
  BY <1>1, InsertedKeys
<1>3. rows'[f] = IF f = File(j) THEN r ELSE rows[f]
  BY <1>1
<1> HIDE DEF r
<1>4. QED
  BY <1>2, <1>3

-----------------------------------------------------------------------------
(* While all keys fit, the registry never evicts: a file has one row per    *)
(* key, so that no put counts more rows than the capacity.                  *)

AllFit == Cardinality(Keys) <= Capacity

NothingEvicted ==
  /\ \A j \in Jobs : at[j] \notin {"select", "delete", "remove"} /\ evicted[j] = <<>>
  /\ \A f \in Files : IsInjective(rows[f])

\* As many rows as keys at most.
LEMMA OneRowPerKey ==
  ASSUME NEW s \in Seq(Keys), IsInjective(s)
  PROVE  Len(s) <= Cardinality(Keys)
<1>1. Len(s) \in Nat /\ s \in [1..Len(s) -> Keys]
  OBVIOUS
<1>2. s \in Injection(1..Len(s), Keys)
  BY <1>1 DEF Injection
<1>3. Cardinality(1..Len(s)) <= Cardinality(Keys)
  BY <1>2, SetsAssumption, FS_Injection
<1>4. Cardinality(1..Len(s)) = Len(s)
  <2>1. Len(s) \in Int /\ 1 \in Int /\ Len(s) >= 0
    BY <1>1
  <2>2. Cardinality(1..Len(s)) = IF 1 > Len(s) THEN 0 ELSE Len(s) - 1 + 1
    BY <2>1, FS_Interval
  <2>3. QED
    BY <2>1, <2>2
<1>5. QED
  BY <1>3, <1>4

LEMMA InitEvictsNothing == Init => NothingEvicted
<1> SUFFICES ASSUME Init PROVE NothingEvicted
  OBVIOUS
<1>1. PICK S \in SUBSET Keys : \E s \in SetToSeqs(S) :
        rows = [f \in Files |-> IF f = "first" THEN s ELSE <<>>]
  BY DEF Init
<1>2. PICK s \in SetToSeqs(S) : rows = [f \in Files |-> IF f = "first" THEN s ELSE <<>>]
  BY <1>1
<1>3. IsInjective(s)
  BY DEF SetToSeqs, IsInjective
<1>4. ASSUME NEW f \in Files PROVE IsInjective(rows[f])
  <2>1. CASE f = "first"
    BY <1>2, <1>3, <2>1
  <2>2. CASE f # "first"
    <3>1. rows[f] = <<>>
      BY <1>2, <2>2
    <3>2. QED
      BY <3>1 DEF IsInjective
  <2>3. QED
    BY <2>1, <2>2
<1>5. QED
  BY <1>4 DEF Init, NothingEvicted

LEMMA NothingEvictedKept ==
  ASSUME AllFit, IndInv, NothingEvicted, [Next]_vars
  PROVE  NothingEvicted'
<1>0. TypeOK
  BY DEF IndInv
\* A step of one job, or of none.
<1>1. ASSUME NEW j \in Jobs, NEW next, at' = [at EXCEPT ![j] = next],
             next \notin {"select", "delete", "remove"},
             evicted' = evicted \/ evicted' = [evicted EXCEPT ![j] = <<>>],
             \A f \in Files : IsInjective(rows'[f])
      PROVE  NothingEvicted'
  BY <1>0, <1>1 DEF NothingEvicted, TypeOK
<1>2. ASSUME at' = at, evicted' = evicted, rows' = rows PROVE NothingEvicted'
  BY <1>2 DEF NothingEvicted
<1>3. ASSUME NEW j \in Jobs, Lookup(j) \/ Invalidate(j) \/ Insert(j) PROVE NothingEvicted'
  <2>1. \A f \in Files : IsInjective(rows'[f])
    BY <1>0, <1>3, LookupKeys, InvalidateKeys, InsertKeys DEF NothingEvicted
  <2>2. evicted' = evicted /\ \E next \in {"exists", "boot", "count"} : at' = [at EXCEPT ![j] = next]
    BY <1>3 DEF Lookup, Invalidate, Insert, Go
  <2>3. QED
    BY <1>1, <2>1, <2>2
<1>4. ASSUME NEW j \in Jobs, Count(j) PROVE NothingEvicted'
  <2>1. File(j) \in Files /\ rows[File(j)] \in Seq(Keys)
    BY <1>0, <1>4 DEF Count, Live, TypeOK
  <2>2. Len(rows[File(j)]) <= Capacity
    <3>1. Len(rows[File(j)]) <= Cardinality(Keys)
      BY <2>1, OneRowPerKey DEF NothingEvicted
    <3>2. Len(rows[File(j)]) \in Nat /\ Cardinality(Keys) \in Nat
      BY <2>1, SetsAssumption, FS_CardinalityType
    <3>3. QED
      BY <3>1, <3>2, CapacityAssumption DEF AllFit
  <2>3. Overflow(Len(rows[File(j)])) = 0
    <3>1. Len(rows[File(j)]) \in Nat
      BY <2>1
    <3>2. QED
      BY <2>2, <3>1, CapacityAssumption DEF Overflow
  <2>4. overflow'[j] = 0
    BY <1>0, <1>4, <2>3 DEF Count, TypeOK
  <2>5. at' = [at EXCEPT ![j] = "destroy"] /\ evicted' = evicted /\ rows' = rows
    BY <1>4, <2>4 DEF Count, Go
  <2>6. QED
    BY <1>1, <2>5 DEF NothingEvicted
<1>5. ASSUME NEW j \in Jobs, Select(j) \/ Delete(j) \/ RemoveImage(j) PROVE NothingEvicted'
  BY <1>5 DEF NothingEvicted, Select, Delete, RemoveImage
<1>6. ASSUME NEW j \in Jobs,
             Probe(j) \/ Create(j) \/ Start(j) \/ Run(j) \/ Commit(j) \/ Take(j) \/ Destroy(j) \/ Drop(j)
      PROVE  NothingEvicted'
  <2>1. rows' = rows /\ (evicted' = evicted \/ evicted' = [evicted EXCEPT ![j] = <<>>])
    BY <1>6 DEF Probe, Create, Start, Run, Commit, Take, Destroy, Drop
  <2>2. \E next \in {"stale", "starting", "running", "commit", "destroy", "insert", "destroying", "done"} :
          at' = [at EXCEPT ![j] = next]
    BY <1>6 DEF Probe, Create, Start, Run, Commit, Take, Destroy, Drop, Go, Finish
  <2>3. QED
    BY <1>1, <2>1, <2>2 DEF NothingEvicted
<1>7. ASSUME NEW j \in Jobs, Sweep(j) PROVE NothingEvicted'
  BY <1>2, <1>7 DEF Sweep
<1>8. ASSUME NEW p \in Procs, Open(p) \/ Exit(p) PROVE NothingEvicted'
  BY <1>2, <1>8 DEF Open, Exit, jobVars
<1>9. CASE UNCHANGED vars \/ AllGone \/ List \/ Unlink \/ \E k \in Keys : CleanOne(k)
  BY <1>2, <1>9 DEF vars, AllGone, List, Unlink, CleanOne, jobVars
<1>10. QED
  BY <1>3, <1>4, <1>5, <1>6, <1>7, <1>8, <1>9 DEF Next, JobNext

\* With every key in the registry's capacity and nothing to evict, only
\* hm cache clean takes images away.
LEMMA OnlyCleaningUntags ==
  ASSUME NothingEvicted, [Next]_vars
  PROVE  tags \subseteq tags' \/ cleaner = "removing"
<1>1. ASSUME NEW j \in Jobs, JobNext(j) PROVE tags \subseteq tags'
  <2>1. at[j] \notin {"select", "delete", "remove"}
    BY DEF NothingEvicted
  <2>2. CASE Commit(j) \/ Drop(j)
    BY <2>1, <2>2 DEF Commit, Drop, TagUntracked
  <2>3. CASE ~(Commit(j) \/ Drop(j))
    BY <1>1, <2>1, <2>3
       DEF JobNext, Lookup, Probe, Invalidate, Create, Start, Run, Insert, Count, Select,
           Delete, RemoveImage, Take, Destroy, Sweep
  <2>4. QED
    BY <2>2, <2>3
<1>2. ASSUME NEW p \in Procs, Open(p) \/ Exit(p) PROVE tags \subseteq tags'
  BY <1>2 DEF Open, Exit
<1>3. CASE UNCHANGED vars \/ AllGone \/ List \/ Unlink
  BY <1>3 DEF vars, AllGone, List, Unlink
<1>4. ASSUME NEW k \in Keys, CleanOne(k) PROVE cleaner = "removing"
  BY <1>4 DEF CleanOne
<1>5. QED
  BY <1>1, <1>2, <1>3, <1>4 DEF Next


\* A job that has ended stays as it ended, and only a lookup begins one.
LEMMA BeginningAndEnd ==
  ASSUME TypeOK, [Next]_vars, NEW j \in Jobs
  PROVE  /\ at[j] = "done" => at'[j] = "done" /\ end'[j] = end[j]
         /\ at[j] = "idle" /\ at'[j] # "idle" => Lookup(j)
         /\ at[j] # "idle" => at'[j] # "idle"
<1>1. ASSUME NEW i \in Jobs, JobNext(i)
      PROVE  /\ at[j] = "done" => at'[j] = "done" /\ end'[j] = end[j]
             /\ at[j] = "idle" /\ at'[j] # "idle" => Lookup(j)
             /\ at[j] # "idle" => at'[j] # "idle"
  <2>1. CASE Sweep(i)
    BY <2>1 DEF Sweep
  <2>2. CASE Lookup(i)
    <3>1. at[i] = "idle" /\ end' = end /\ at' \in {[at EXCEPT ![i] = "exists"], [at EXCEPT ![i] = "boot"]}
      BY <2>2 DEF Lookup, Go
    <3>2. QED
      BY <2>2, <3>1 DEF TypeOK
  <2>3. CASE \/ Probe(i) \/ Invalidate(i) \/ Create(i) \/ Start(i) \/ Run(i) \/ Commit(i) \/ Insert(i)
             \/ Count(i) \/ Select(i) \/ Delete(i) \/ RemoveImage(i) \/ Take(i) \/ Destroy(i) \/ Drop(i)
    <3>1. at[i] \notin {"idle", "done"}
      BY <2>3 DEF Probe, Invalidate, Create, Start, Run, Commit, Insert, Count, Select, Delete,
                  RemoveImage, Take, Destroy, Drop, Awaits
    <3>2. \E next \in (Sections \union Awaits \union {"destroy", "done"}) : at' = [at EXCEPT ![i] = next]
      <4>1. CASE Count(i)
        BY <4>1 DEF Count, Go, Sections, Awaits
      <4>2. CASE ~Count(i)
        BY <2>3, <4>2
           DEF Probe, Invalidate, Create, Start, Run, Commit, Insert, Select, Delete,
               RemoveImage, Take, Destroy, Drop, Go, Finish, Sections, Awaits
      <4>3. QED
        BY <4>1, <4>2
    <3>3. end' = end \/ \E e : end' = [end EXCEPT ![i] = e]
      BY <2>3 DEF Probe, Invalidate, Create, Start, Run, Commit, Insert, Count, Select, Delete,
                  RemoveImage, Take, Destroy, Drop, Finish
    <3>4. at'[i] # "idle"
      BY <3>2 DEF TypeOK, Sections, Awaits
    <3>5. CASE j = i
      BY <3>1, <3>4, <3>5
    <3>6. CASE j # i
      <4>1. at'[j] = at[j] /\ end'[j] = end[j]
        BY <3>2, <3>3, <3>6 DEF TypeOK
      <4>2. QED
        BY <4>1
    <3>7. QED
      BY <3>5, <3>6
  <2>4. QED
    BY <1>1, <2>1, <2>2, <2>3 DEF JobNext
<1>2. ASSUME at' = at, end' = end
      PROVE  /\ at[j] = "done" => at'[j] = "done" /\ end'[j] = end[j]
             /\ at[j] = "idle" /\ at'[j] # "idle" => Lookup(j)
             /\ at[j] # "idle" => at'[j] # "idle"
  BY <1>2
<1>3. ASSUME NEW p \in Procs, Open(p) \/ Exit(p) PROVE at' = at /\ end' = end
  BY <1>3 DEF Open, Exit, jobVars
<1>4. CASE UNCHANGED vars \/ AllGone \/ List \/ Unlink \/ \E k \in Keys : CleanOne(k)
  BY <1>2, <1>4 DEF vars, AllGone, List, Unlink, CleanOne, jobVars
<1>5. QED
  BY <1>1, <1>2, <1>3, <1>4 DEF Next

-----------------------------------------------------------------------------
(* Parents, for every capacity.  An image a job has returned is only taken  *)
(* away when a put that found the registry too full has selected it, or     *)
(* when hm cache clean has listed it.                                       *)

Displacing ==
  /\ \A j \in Jobs : overflow[j] # 0 => crowded
  /\ \A j \in Jobs : ToSet(evicted[j]) \subseteq displaced
  /\ doomed \subseteq displaced

LEMMA TailOfEvicted ==
  ASSUME NEW q \in Seq(Keys), q # <<>>
  PROVE  Head(q) \in ToSet(q) /\ ToSet(Tail(q)) \subseteq ToSet(q)
<1>1. Len(q) \in Nat \ {0} /\ Head(q) = q[1] /\ 1 \in DOMAIN q
  OBVIOUS
<1>2. ASSUME NEW k \in ToSet(Tail(q)) PROVE k \in ToSet(q)
  <2>1. PICK n \in DOMAIN Tail(q) : Tail(q)[n] = k
    BY <1>2 DEF ToSet
  <2>2. n + 1 \in DOMAIN q /\ Tail(q)[n] = q[n + 1]
    BY <1>1, <2>1
  <2>3. QED
    BY <2>1, <2>2 DEF ToSet
<1>3. QED
  BY <1>1, <1>2 DEF ToSet

LEMMA DisplacedGrows ==
  ASSUME [Next]_vars
  PROVE  displaced \subseteq displaced'
<1>1. ASSUME NEW j \in Jobs, JobNext(j) PROVE displaced \subseteq displaced'
  BY <1>1 DEF JobNext, Lookup, Probe, Invalidate, Create, Start, Run, Commit, Insert, Count,
              Select, Delete, RemoveImage, Take, Destroy, Drop, Sweep, asideVars
<1>2. ASSUME NEW p \in Procs, Open(p) \/ Exit(p) PROVE displaced \subseteq displaced'
  BY <1>2 DEF Open, Exit, asideVars
<1>3. QED
  BY <1>1, <1>2 DEF Next, List, Unlink, CleanOne, AllGone, vars

LEMMA DisplacingKept ==
  ASSUME IndInv, Displacing, [Next]_vars
  PROVE  Displacing'
<1>0. TypeOK /\ displaced \subseteq displaced'
  BY DisplacedGrows DEF IndInv
\* What counts nothing and evicts nothing.
<1>1. ASSUME overflow' = overflow, crowded' = crowded, doomed' \subseteq displaced',
             \A i \in Jobs : ToSet(evicted'[i]) \subseteq displaced'
      PROVE  Displacing'
  BY <1>1 DEF Displacing
<1>2. ASSUME overflow' = overflow, crowded' = crowded, doomed' = doomed, evicted' = evicted
      PROVE  Displacing'
  BY <1>0, <1>2 DEF Displacing
<1>3. ASSUME NEW j \in Jobs,
             \/ Lookup(j) \/ Probe(j) \/ Invalidate(j) \/ Create(j) \/ Start(j) \/ Run(j)
             \/ Commit(j) \/ Insert(j) \/ Delete(j) \/ Take(j) \/ Destroy(j) \/ Sweep(j)
      PROVE  Displacing'
  BY <1>2, <1>3 DEF Lookup, Probe, Invalidate, Create, Start, Run, Commit, Insert, Delete, Take,
                    Destroy, Sweep, asideVars
<1>4. ASSUME NEW j \in Jobs, Count(j) PROVE Displacing'
  <2>1. /\ overflow' = [overflow EXCEPT ![j] = Overflow(Len(rows[File(j)]))]
        /\ crowded' = (crowded \/ Len(rows[File(j)]) > Capacity)
        /\ UNCHANGED <<evicted, doomed, displaced>>
    BY <1>4 DEF Count
  <2>2. Overflow(Len(rows[File(j)])) # 0 => Len(rows[File(j)]) > Capacity
    BY DEF Overflow
  <2>3. \A i \in Jobs : overflow'[i] # 0 => crowded'
    BY <1>0, <2>1, <2>2 DEF Displacing, TypeOK
  <2>4. QED
    BY <2>1, <2>3 DEF Displacing
<1>5. ASSUME NEW j \in Jobs, Select(j) PROVE Displacing'
  <2>1. crowded
    BY <1>5 DEF Select, IndInv, Underway, Displacing
  <2>2. /\ evicted' = [evicted EXCEPT ![j] = Oldest(File(j), overflow[j])]
        /\ displaced' = displaced \union ToSet(evicted'[j])
        /\ UNCHANGED <<overflow, crowded, doomed>>
    BY <1>5, <2>1 DEF Select, DisplacedBy
  <2>3. \A i \in Jobs : i # j => evicted'[i] = evicted[i]
    BY <1>0, <2>2 DEF TypeOK
  <2>4. \A i \in Jobs : ToSet(evicted'[i]) \subseteq displaced'
    BY <2>2, <2>3 DEF Displacing
  <2>5. QED
    BY <1>1, <2>2, <2>4 DEF Displacing
<1>6. ASSUME NEW j \in Jobs, RemoveImage(j) PROVE Displacing'
  <2>1. /\ evicted[j] # <<>> /\ evicted[j] \in Seq(Keys)
        /\ evicted' = [evicted EXCEPT ![j] = Tail(evicted[j])]
        /\ UNCHANGED <<overflow, crowded, doomed, displaced>>
    BY <1>0, <1>6 DEF RemoveImage, asideVars, TypeOK
  <2>2. ToSet(Tail(evicted[j])) \subseteq ToSet(evicted[j])
    BY <2>1, TailOfEvicted
  <2>3. \A i \in Jobs : ToSet(evicted'[i]) \subseteq displaced'
    BY <1>0, <2>1, <2>2 DEF Displacing, TypeOK
  <2>4. QED
    BY <1>1, <2>1, <2>3 DEF Displacing
<1>7. ASSUME NEW j \in Jobs, Drop(j) PROVE Displacing'
  <2>1. evicted' = [evicted EXCEPT ![j] = <<>>] /\ UNCHANGED <<overflow, crowded, doomed, displaced>>
    BY <1>7 DEF Drop, asideVars
  <2>2. ToSet(<<>>) = {}
    BY DEF ToSet
  <2>3. \A i \in Jobs : ToSet(evicted'[i]) \subseteq displaced'
    BY <1>0, <2>1, <2>2 DEF Displacing, TypeOK
  <2>4. QED
    BY <1>1, <2>1, <2>3 DEF Displacing
<1>8. ASSUME NEW p \in Procs, Open(p) \/ Exit(p) PROVE Displacing'
  BY <1>2, <1>8 DEF Open, Exit, jobVars, asideVars
<1>9. CASE List \/ (\E k \in Keys : CleanOne(k)) \/ Unlink
  <2>1. UNCHANGED <<overflow, crowded, evicted>> /\ doomed' \subseteq displaced'
    BY <1>9 DEF List, CleanOne, Unlink, jobVars, Displacing
  <2>2. QED
    BY <1>0, <1>1, <2>1 DEF Displacing
<1>10. CASE UNCHANGED vars \/ AllGone
  BY <1>2, <1>10 DEF vars, AllGone
<1>11. QED
  BY <1>3, <1>4, <1>5, <1>6, <1>7, <1>8, <1>9, <1>10 DEF Next, JobNext

\* Who is about to remove images has some to remove.
Removing == \A j \in Jobs : at[j] = "remove" => evicted[j] # <<>>

LEMMA RemovingKept ==
  ASSUME TypeOK, Removing, [Next]_vars
  PROVE  Removing'
<1>1. ASSUME NEW j \in Jobs, NEW next, at' = [at EXCEPT ![j] = next],
             \A i \in Jobs \ {j} : evicted'[i] = evicted[i],
             next = "remove" => evicted'[j] # <<>>
      PROVE  Removing'
  <2> SUFFICES ASSUME NEW i \in Jobs, at'[i] = "remove" PROVE evicted'[i] # <<>>
    BY DEF Removing
  <2>1. CASE i = j
    BY <1>1, <2>1 DEF TypeOK
  <2>2. CASE i # j
    BY <1>1, <2>2 DEF TypeOK, Removing
  <2>3. QED
    BY <2>1, <2>2
<1>2. ASSUME at' = at, evicted' = evicted PROVE Removing'
  BY <1>2 DEF Removing
<1>3. ASSUME NEW j \in Jobs,
             \/ Lookup(j) \/ Probe(j) \/ Invalidate(j) \/ Create(j) \/ Start(j) \/ Run(j)
             \/ Commit(j) \/ Insert(j) \/ Count(j) \/ Take(j) \/ Destroy(j)
      PROVE  Removing'
  <2>1. evicted' = evicted
    BY <1>3 DEF Lookup, Probe, Invalidate, Create, Start, Run, Commit, Insert, Count, Take, Destroy
  <2>2. \E next \in (Sections \union Awaits \union {"destroy", "done"}) \ {"remove"} :
          at' = [at EXCEPT ![j] = next]
    <3>1. CASE Count(j)
      BY <3>1 DEF Count, Go, Sections, Awaits
    <3>2. CASE ~Count(j)
      BY <1>3, <3>2 DEF Lookup, Probe, Invalidate, Create, Start, Run, Commit, Insert, Take,
                        Destroy, Go, Finish, Sections, Awaits
    <3>3. QED
      BY <3>1, <3>2
  <2>3. QED
    BY <1>1, <2>1, <2>2
<1>4. ASSUME NEW j \in Jobs, Select(j) \/ Drop(j) PROVE Removing'
  <2>1. /\ \E next \in {"delete", "done"} : at' = [at EXCEPT ![j] = next]
        /\ \E q : evicted' = [evicted EXCEPT ![j] = q]
    BY <1>4 DEF Select, Drop, Finish, Go
  <2>2. QED
    BY <1>1, <2>1 DEF TypeOK
<1>5. ASSUME NEW j \in Jobs, Delete(j) PROVE Removing'
  <2>1. /\ evicted' = evicted
        /\ at' = [at EXCEPT ![j] = IF evicted[j] = <<>> THEN "destroy" ELSE "remove"]
    BY <1>5 DEF Delete, Go
  <2>2. QED
    BY <1>1, <2>1
<1>6. ASSUME NEW j \in Jobs, RemoveImage(j) PROVE Removing'
  <2>1. /\ evicted[j] \in Seq(Keys) /\ evicted[j] # <<>>
        /\ evicted' = [evicted EXCEPT ![j] = Tail(evicted[j])]
        /\ at' = [at EXCEPT ![j] = IF Len(evicted[j]) = 1 THEN "destroy" ELSE "remove"]
    BY <1>6 DEF RemoveImage, Go, TypeOK
  <2>2. Len(evicted[j]) # 1 => Tail(evicted[j]) # <<>>
    <3>1. \A s \in Seq(Keys) : s # <<>> => Len(Tail(s)) = Len(s) - 1
      OBVIOUS
    <3>2. Len(Tail(evicted[j])) = Len(evicted[j]) - 1
      BY <2>1, <3>1
    <3>3. Len(<<>>) = 0
      OBVIOUS
    <3>4. Len(evicted[j]) \in Nat
      BY <2>1
    <3>5. ASSUME Len(evicted[j]) # 1 PROVE Len(Tail(evicted[j])) # 0
      BY <3>2, <3>4, <3>5
    <3>6. QED
      BY <3>3, <3>5, Zenon
  <2>3. evicted'[j] = Tail(evicted[j]) /\ \A i \in Jobs \ {j} : evicted'[i] = evicted[i]
    BY <2>1 DEF TypeOK
  <2>4. QED
    BY <1>1, <2>1, <2>2, <2>3
<1>7. ASSUME NEW j \in Jobs, Sweep(j) PROVE Removing'
  BY <1>2, <1>7 DEF Sweep
<1>8. ASSUME NEW p \in Procs, Open(p) \/ Exit(p) PROVE Removing'
  BY <1>2, <1>8 DEF Open, Exit, jobVars
<1>9. CASE UNCHANGED vars \/ AllGone \/ List \/ Unlink \/ \E k \in Keys : CleanOne(k)
  BY <1>2, <1>9 DEF vars, AllGone, List, Unlink, CleanOne, jobVars
<1>10. QED
  BY <1>3, <1>4, <1>5, <1>6, <1>7, <1>8, <1>9 DEF Next, JobNext

LEMMA OnlyDisplacedUntagged ==
  ASSUME TypeOK, Displacing, Removing, [Next]_vars
  PROVE  tags \subseteq tags' \union displaced
<1>1. ASSUME NEW j \in Jobs, JobNext(j) PROVE tags \subseteq tags' \union displaced
  <2>0. evicted[j] \in Seq(Keys) /\ ToSet(evicted[j]) \subseteq displaced
    BY DEF TypeOK, Displacing
  <2>1. CASE RemoveImage(j)
    <3>1. Head(evicted[j]) \in displaced
      BY <2>0, <2>1, TailOfEvicted DEF RemoveImage
    <3>2. QED
      BY <2>1, <3>1 DEF RemoveImage, Untag
  <2>2. CASE Drop(j)
    <3>1. CASE at[j] = "remove"
      <4>1. Head(evicted[j]) \in displaced
        BY <2>0, <3>1, TailOfEvicted DEF Removing
      <4>2. QED
        BY <2>2, <3>1, <4>1 DEF Drop
    <3>2. CASE at[j] # "remove"
      BY <2>2, <3>2 DEF Drop, TagUntracked
    <3>3. QED
      BY <3>1, <3>2
  <2>3. CASE ~(RemoveImage(j) \/ Drop(j))
    BY <1>1, <2>3
       DEF JobNext, Lookup, Probe, Invalidate, Create, Start, Run, Commit, TagUntracked, Insert,
           Count, Select, Delete, Take, Destroy, Sweep
  <2>4. QED
    BY <2>1, <2>2, <2>3
<1>2. ASSUME NEW p \in Procs, Open(p) \/ Exit(p) PROVE tags \subseteq tags'
  BY <1>2 DEF Open, Exit
<1>3. CASE UNCHANGED vars \/ AllGone \/ List \/ Unlink
  BY <1>3 DEF vars, AllGone, List, Unlink
<1>4. ASSUME NEW k \in Keys, CleanOne(k) PROVE tags \subseteq tags' \union displaced
  BY <1>4 DEF CleanOne, Untag, Displacing
<1>5. QED
  BY <1>1, <1>2, <1>3, <1>4 DEF Next

\* A job that has begun has a parent that passed, and what has passed is in
\* the daemon or displaced.
PassedTagged ==
  /\ \A j \in Jobs : at[j] # "idle" => ParentPassed(j)
  /\ \A j \in Jobs : end[j] \in {"hit", "built"} => KeyOf[j] \in tags \union displaced

LEMMA PassedTaggedKept ==
  ASSUME IndInv, Displacing, Removing, PassedTagged, [Next]_vars
  PROVE  PassedTagged'
<1>0. TypeOK
  BY DEF IndInv
<1>1. ASSUME NEW j \in Jobs, at'[j] # "idle" PROVE ParentPassed(j)'
  <2>1. ParentPassed(j)
    <3>1. CASE at[j] = "idle"
      <4>1. Lookup(j)
        BY <1>0, <1>1, <3>1, BeginningAndEnd
      <4>2. QED
        BY <4>1 DEF Lookup
    <3>2. CASE at[j] # "idle"
      BY <3>2 DEF PassedTagged
    <3>3. QED
      BY <3>1, <3>2
  <2>2. CASE ParentOf[j] = NoJob
    BY <2>2 DEF ParentPassed
  <2>3. CASE ParentOf[j] # NoJob
    <3>1. ParentOf[j] \in Jobs
      BY <2>3, FunctionsAssumption
    <3>2. QED
      BY <1>0, <2>1, <2>3, <3>1, BeginningAndEnd DEF ParentPassed
  <2>4. QED
    BY <2>2, <2>3
<1>2. ASSUME NEW j \in Jobs, end'[j] \in {"hit", "built"}
      PROVE  KeyOf[j] \in tags' \union displaced'
  <2>1. tags \union displaced \subseteq tags' \union displaced'
    BY <1>0, OnlyDisplacedUntagged, DisplacedGrows
  <2>2. CASE end[j] \in {"hit", "built"}
    BY <2>1, <2>2 DEF PassedTagged
  <2>3. CASE end[j] \notin {"hit", "built"}
    <3>1. PICK i \in Jobs : JobNext(i)
      <4>1. end' # end
        BY <1>2, <2>3
      <4>2. QED
        BY <4>1 DEF Next, Open, Exit, List, Unlink, CleanOne, AllGone, vars, jobVars
    <3>2. i = j /\ (Probe(i) \/ Run(i) \/ Create(i) \/ Start(i) \/ Commit(i) \/ Drop(i))
      BY <1>0, <1>2, <2>3, <3>1
         DEF TypeOK, JobNext, Lookup, Probe, Invalidate, Create, Start, Run, Commit, Insert, Count,
             Select, Delete, RemoveImage, Take, Destroy, Drop, Sweep, Finish
    <3>3. end'[j] \notin {"failed", "dropped"}
      BY <1>2
    <3>4. CASE Probe(j)
      BY <1>0, <2>1, <3>3, <2>3, <3>4, <1>2 DEF Probe, Finish, TypeOK
    <3>5. CASE Commit(j)
      BY <1>0, <3>3, <3>5 DEF Commit, TypeOK
    <3>6. CASE Run(j) \/ Create(j) \/ Start(j) \/ Drop(j)
      BY <1>0, <1>2, <2>3, <3>3, <3>6 DEF Run, Create, Start, Drop, Finish, TypeOK
    <3>7. QED
      BY <3>2, <3>4, <3>5, <3>6
  <2>4. QED
    BY <2>2, <2>3
<1>3. QED
  BY <1>1, <1>2 DEF PassedTagged

\* A step boots from an image that is there, or that an eviction from a registry
\* found too full or hm cache clean took: for every capacity and number of keys,
\* in any number of processes, whatever is dropped, killed, refused or rebuilt.
THEOREM ParentsStay == Spec => []ParentsRestorable
<1> DEFINE Inv == IndInv /\ Displacing /\ Removing /\ PassedTagged
<1>1. Init => Displacing /\ Removing /\ PassedTagged
  BY DEF Init, Displacing, Removing, PassedTagged, ToSet
<1>2. IndInv /\ Displacing /\ Removing /\ PassedTagged /\ [Next]_vars => (Displacing /\ Removing /\ PassedTagged)'
  BY DisplacingKept, RemovingKept, PassedTaggedKept DEF IndInv
<1>3. Inv => ParentsRestorable
  <2> SUFFICES ASSUME Inv, NEW j \in Jobs, at[j] = "boot", ParentOf[j] # NoJob
               PROVE  KeyOf[ParentOf[j]] \in tags \union displaced
    BY DEF ParentsRestorable
  <2>1. ParentPassed(j) /\ ParentOf[j] \in Jobs
    BY FunctionsAssumption DEF PassedTagged
  <2>2. end[ParentOf[j]] \in {"hit", "built"}
    BY <2>1 DEF ParentPassed
  <2>3. QED
    BY <2>1, <2>2 DEF PassedTagged
<1>4. QED
  BY <1>1, <1>2, <1>3, CacheInvariance, PTL DEF Spec

-----------------------------------------------------------------------------
(* After hm cache clean.  An image is one of a job that had the removed     *)
(* file open, or the registry that follows has its row.                     *)

\* Everyone has the first file until it is unlinked.
FirstFile ==
  /\ cleaner # "done" => /\ disk = "first" /\ rows["second"] = <<>>
                         /\ \A p \in Procs : handle[p] # "second"
  /\ cleaner = "done" => disk = "second"

\* The second file's rows name images that are there: no job that has it open
\* finds one stale.
SecondFile ==
  /\ ToSet(rows["second"]) \subseteq tags
  /\ \A j \in Jobs : at[j] \in {"insert", "exists"} /\ File(j) = "second" => KeyOf[j] \in tags
  /\ \A j \in Jobs : at[j] = "stale" => File(j) = "first"

Racing(k) == \E j \in Jobs : KeyOf[j] = k /\ at[j] # "idle" /\ File(j) = "first"
Inserting(k) == \E j \in Jobs : KeyOf[j] = k /\ at[j] = "insert"

Listed ==
  CASE cleaner = "idle" -> ToSet(rows["first"])
    [] cleaner = "removing" -> doomed
    [] cleaner = "done" -> ToSet(rows["second"])

TagsHeld == \A k \in tags : k \in Listed \union excused \/ Racing(k) \/ Inserting(k)

\* A job's file is fixed once it has begun.
LEMMA FileStays ==
  ASSUME IndInv, [Next]_vars, NEW j \in Jobs, at[j] # "idle"
  PROVE  at'[j] # "idle" /\ File(j)' = File(j) /\ File(j) \in Files
<1>1. at'[j] # "idle" /\ File(j) \in Files
  BY BeginningAndEnd DEF IndInv, Underway
<1>2. ASSUME NEW p \in Procs, Open(p) \/ Exit(p) PROVE File(j)' = File(j)
  BY <1>2, FileKept
<1>3. ASSUME NEW i \in Jobs, JobNext(i) PROVE File(j)' = File(j)
  <2>1. handle' = handle
    BY <1>3 DEF JobNext, Lookup, Probe, Invalidate, Create, Start, Run, Commit, Insert, Count,
                Select, Delete, RemoveImage, Take, Destroy, Drop, Sweep, procVars
  <2>2. QED
    BY <2>1 DEF File
<1>4. ASSUME UNCHANGED vars \/ AllGone \/ List \/ Unlink \/ \E k \in Keys : CleanOne(k)
      PROVE  File(j)' = File(j)
  BY <1>4 DEF vars, AllGone, List, Unlink, CleanOne, procVars, File
<1>5. QED
  BY <1>1, <1>2, <1>3, <1>4 DEF Next

\* At first every image of the daemon has a row.
LEMMA InitListed ==
  ASSUME Init
  PROVE  tags \subseteq ToSet(rows["first"]) /\ rows["second"] = <<>>
<1>1. PICK S \in SUBSET Keys : \E s \in SetToSeqs(S) :
        rows = [f \in Files |-> IF f = "first" THEN s ELSE <<>>] /\ tags \in SUBSET S
  BY DEF Init
<1>2. PICK s \in SetToSeqs(S) :
        rows = [f \in Files |-> IF f = "first" THEN s ELSE <<>>] /\ tags \in SUBSET S
  BY <1>1
<1>3. S \subseteq ToSet(s)
  <2>1. IsFiniteSet(S) /\ Cardinality(S) \in Nat
    BY SetsAssumption, FS_Subset, FS_CardinalityType
  <2>2. s \in Injection(1..Cardinality(S), S) /\ DOMAIN s = 1..Cardinality(S)
    BY DEF SetToSeqs, Injection, IsInjective
  <2>3. Cardinality(1..Cardinality(S)) = Cardinality(S)
    BY <2>1, FS_Interval
  <2>4. s \in Surjection(1..Cardinality(S), S)
    BY <2>1, <2>2, <2>3, FS_Injection
  <2>5. QED
    BY <2>2, <2>4 DEF Surjection, ToSet
<1>4. QED
  BY <1>2, <1>3 DEF Files

LEMMA FirstFileKept ==
  ASSUME IndInv, FirstFile, [Next]_vars
  PROVE  FirstFile'
<1>0. TypeOK
  BY DEF IndInv
<1>1. ASSUME rows' = rows, UNCHANGED <<disk, cleaner, handle>> PROVE FirstFile'
  BY <1>1 DEF FirstFile
<1>2. ASSUME NEW j \in Jobs, JobNext(j) PROVE FirstFile'
  <2>1. UNCHANGED <<disk, cleaner, handle>>
    BY <1>2 DEF JobNext, Lookup, Probe, Invalidate, Create, Start, Run, Commit, Insert, Count,
                Select, Delete, RemoveImage, Take, Destroy, Drop, Sweep, asideVars, procVars
  <2>2. File(j) # "second" => rows'["second"] = rows["second"]
    BY <1>0, <1>2 DEF TypeOK, Files, JobNext, Lookup, Probe, Invalidate, Create, Start, Run, Commit, Insert,
                Count, Select, Delete, RemoveImage, Take, Destroy, Drop, Sweep
  <2>3. cleaner # "done" => File(j) # "second"
    BY FunctionsAssumption DEF FirstFile, File
  <2>4. QED
    BY <2>1, <2>2, <2>3 DEF FirstFile
<1>3. ASSUME NEW p \in Procs, Open(p) \/ Exit(p) PROVE FirstFile'
  <2>1. UNCHANGED <<disk, cleaner, rows>>
    BY <1>3 DEF Open, Exit, asideVars
  <2>2. handle' = handle \/ handle' = [handle EXCEPT ![p] = disk]
    BY <1>3 DEF Open, Exit
  <2>3. QED
    BY <1>0, <2>1, <2>2 DEF FirstFile, TypeOK
<1>4. CASE UNCHANGED vars \/ AllGone \/ List \/ Unlink \/ \E k \in Keys : CleanOne(k)
  BY <1>4 DEF vars, AllGone, List, Unlink, CleanOne, procVars, FirstFile
<1>5. QED
  BY <1>2, <1>3, <1>4 DEF Next

\* With nothing to evict, no image goes once the file is unlinked.
LEMMA SecondFileKept ==
  ASSUME IndInv, NothingEvicted, FirstFile, SecondFile, [Next]_vars
  PROVE  SecondFile'
<1>0. TypeOK /\ "second" \in Files
  BY DEF IndInv, Files
<1>1. tags \subseteq tags' \/ cleaner = "removing"
  BY OnlyCleaningUntags
\* What is outside a section of the registry.
<1>2. ASSUME tags \subseteq tags', rows' = rows, at' = at
      PROVE  SecondFile'
  <2>1. \A j \in Jobs : at[j] # "idle" => File(j)' = File(j)
    BY FileStays
  <2>2. QED
    BY <1>2, <2>1 DEF SecondFile
<1>3. ASSUME NEW j \in Jobs, NEW next, at' = [at EXCEPT ![j] = next], at[j] # "idle" \/ UNCHANGED handle,
             tags \subseteq tags', ToSet(rows'["second"]) \subseteq tags',
             next \in {"insert", "exists"} /\ File(j) = "second" => KeyOf[j] \in tags',
             next = "stale" => File(j) = "first"
      PROVE  SecondFile'
  <2>1. \A i \in Jobs : at[i] # "idle" => File(i)' = File(i)
    BY FileStays
  <2>2. \A i \in Jobs : at'[i] = IF i = j THEN next ELSE at[i]
    BY <1>0, <1>3 DEF TypeOK
  <2>3. File(j)' = File(j)
    BY <1>3, <2>1 DEF File
  <2>4. QED
    BY <1>3, <2>1, <2>2, <2>3 DEF SecondFile
<1>4. ASSUME NEW j \in Jobs, Lookup(j) PROVE SecondFile'
  <2>1. tags' = tags /\ handle' = handle /\ ToSet(rows'["second"]) = ToSet(rows["second"])
    BY <1>0, <1>4, LookupKeys DEF Lookup, procVars
  <2>2. \/ at' = [at EXCEPT ![j] = "exists"] /\ KeyOf[j] \in ToSet(rows[File(j)])
        \/ at' = [at EXCEPT ![j] = "boot"]
    BY <1>4 DEF Lookup, Go
  <2>3. QED
    BY <1>3, <2>1, <2>2 DEF SecondFile
<1>5. ASSUME NEW j \in Jobs, Probe(j) PROVE SecondFile'
  <2>1. tags' = tags /\ handle' = handle /\ rows' = rows
    BY <1>5 DEF Probe, procVars
  <2>2. \/ at' = [at EXCEPT ![j] = "done"]
        \/ at' = [at EXCEPT ![j] = "stale"] /\ KeyOf[j] \notin tags
    BY <1>5 DEF Probe, Go, Finish
  <2>3. at[j] = "exists" /\ File(j) \in {"first", "second"}
    BY <1>5 DEF Probe, Live, Files
  <2>4. QED
    BY <1>3, <2>1, <2>2, <2>3 DEF SecondFile
<1>6. ASSUME NEW j \in Jobs, Invalidate(j) \/ Insert(j) PROVE SecondFile'
  <2>1. /\ tags' = tags /\ handle' = handle
        /\ \E next \in {"boot", "count"} : at' = [at EXCEPT ![j] = next]
    BY <1>6 DEF Invalidate, Insert, procVars, Go
  <2>2. ToSet(rows'["second"]) \subseteq tags
    <3>1. CASE Invalidate(j)
      BY <1>0, <3>1, InvalidateKeys DEF SecondFile
    <3>2. CASE Insert(j)
      <4>1. at[j] = "insert"
        BY <3>2 DEF Insert
      <4>2. QED
        BY <1>0, <3>2, <4>1, InsertKeys DEF SecondFile
    <3>3. QED
      BY <1>6, <3>1, <3>2
  <2>3. QED
    BY <1>3, <2>1, <2>2
<1>7. ASSUME NEW j \in Jobs, Commit(j) PROVE SecondFile'
  <2>1. handle' = handle /\ rows' = rows /\ tags \subseteq tags'
    BY <1>7 DEF Commit, procVars, TagUntracked
  <2>2. \/ at' = [at EXCEPT ![j] = "insert"] /\ KeyOf[j] \in tags'
        \/ at' = [at EXCEPT ![j] = "destroy"]
    BY <1>7 DEF Commit, Go
  <2>3. ToSet(rows'["second"]) \subseteq tags'
    BY <2>1 DEF SecondFile
  <2>4. QED
    BY <1>3, <2>1, <2>2, <2>3
<1>8. ASSUME NEW j \in Jobs,
             \/ Create(j) \/ Start(j) \/ Run(j) \/ Count(j) \/ Select(j) \/ Delete(j) \/ RemoveImage(j)
             \/ Take(j) \/ Destroy(j) \/ Drop(j)
      PROVE  SecondFile'
  <2>1. at[j] \notin {"select", "delete", "remove"}
    BY DEF NothingEvicted
  <2>2. rows' = rows /\ handle' = handle
    BY <1>8, <2>1 DEF Create, Start, Run, Count, Select, Delete, RemoveImage, Take, Destroy, Drop, procVars
  <2>3. tags \subseteq tags'
    BY <1>8, <2>1 DEF Create, Start, Run, Count, Select, Delete, RemoveImage, Take, Destroy, Drop, TagUntracked
  <2>4. \E next \in {"starting", "done", "running", "commit", "destroy", "select", "destroying"} :
          at' = [at EXCEPT ![j] = next]
    <3>1. CASE Count(j)
      BY <3>1 DEF Count, Go
    <3>2. CASE ~Count(j)
      BY <1>8, <2>1, <3>2
         DEF Create, Start, Run, Select, Delete, RemoveImage, Take, Destroy, Drop, Go, Finish
    <3>3. QED
      BY <3>1, <3>2
  <2>5. ToSet(rows'["second"]) \subseteq tags'
    BY <2>2, <2>3 DEF SecondFile
  <2>6. QED
    BY <1>3, <2>2, <2>3, <2>4, <2>5
<1>9. ASSUME NEW j \in Jobs, Sweep(j) PROVE SecondFile'
  BY <1>2, <1>9 DEF Sweep
<1>10. ASSUME NEW p \in Procs, Open(p) \/ Exit(p) PROVE SecondFile'
  BY <1>2, <1>10 DEF Open, Exit, jobVars
<1>11. CASE UNCHANGED vars \/ AllGone \/ List \/ Unlink
  BY <1>2, <1>11 DEF vars, AllGone, List, Unlink, jobVars
<1>12. ASSUME NEW k \in Keys, CleanOne(k) PROVE SecondFile'
  <2>1. cleaner = "removing" /\ rows' = rows /\ at' = at /\ handle' = handle
    BY <1>12 DEF CleanOne, jobVars, procVars
  <2>2. ToSet(rows["second"]) = {} /\ \A j \in Jobs : File(j) # "second"
    <3>1. rows["second"] = <<>> /\ \A p \in Procs : handle[p] # "second"
      BY <2>1 DEF FirstFile
    <3>2. QED
      BY <3>1, FunctionsAssumption DEF ToSet, File
  <2>3. QED
    BY <2>1, <2>2 DEF SecondFile, File
<1>13. QED
  BY <1>4, <1>5, <1>6, <1>7, <1>8, <1>9, <1>10, <1>11, <1>12 DEF Next, JobNext

LEMMA TagsHeldKept ==
  ASSUME IndInv, NothingEvicted, FirstFile, SecondFile, TagsHeld, [Next]_vars
  PROVE  TagsHeld'
<1>0. TypeOK /\ {"first", "second"} \subseteq Files
  BY DEF IndInv, Files
<1>1. ASSUME NEW k, Racing(k) PROVE Racing(k)'
  <2>1. PICK j \in Jobs : KeyOf[j] = k /\ at[j] # "idle" /\ File(j) = "first"
    BY <1>1 DEF Racing
  <2>2. at'[j] # "idle" /\ File(j)' = File(j)
    BY <2>1, FileStays
  <2>3. QED
    BY <2>1, <2>2 DEF Racing
\* A job that is not about to insert moves.
<1>2. ASSUME NEW j \in Jobs, NEW next, at' = [at EXCEPT ![j] = next], at[j] # "insert",
             excused \subseteq excused',
             \A k \in tags' : k \in tags \union excused' \/ (next = "insert" /\ KeyOf[j] = k),
             \A k \in Listed : k \in Listed' \/ Racing(k)'
      PROVE  TagsHeld'
  <2>1. \A i \in Jobs : at'[i] = IF i = j THEN next ELSE at[i]
    BY <1>0, <1>2 DEF TypeOK
  <2>2. ASSUME NEW k, Inserting(k) PROVE Inserting(k)'
    BY <1>2, <2>1, <2>2 DEF Inserting
  <2>3. ASSUME NEW k, next = "insert", KeyOf[j] = k PROVE Inserting(k)'
    BY <2>1, <2>3 DEF Inserting
  <2>4. ASSUME NEW k \in tags' PROVE k \in Listed' \union excused' \/ Racing(k)' \/ Inserting(k)'
    <3>1. CASE k \in tags
      <4>1. k \in Listed \union excused \/ Racing(k) \/ Inserting(k)
        BY <3>1 DEF TagsHeld
      <4>2. QED
        BY <1>1, <1>2, <2>2, <4>1
    <3>2. CASE k \notin tags
      BY <1>2, <2>3, <2>4, <3>2
    <3>3. QED
      BY <3>1, <3>2
  <2>5. QED
    BY <2>4 DEF TagsHeld
\* No job moves.
<1>3. ASSUME at' = at, excused \subseteq excused', tags' \subseteq tags, Listed \subseteq Listed'
      PROVE  TagsHeld'
  <2>1. \A k : Inserting(k) => Inserting(k)'
    BY <1>3 DEF Inserting
  <2>2. QED
    BY <1>1, <1>3, <2>1 DEF TagsHeld
<1>4. ASSUME NEW j \in Jobs, Lookup(j) PROVE TagsHeld'
  <2>1. /\ ToSet(rows'["first"]) = ToSet(rows["first"])
        /\ ToSet(rows'["second"]) = ToSet(rows["second"])
    BY <1>0, <1>4, LookupKeys
  <2>2. at[j] = "idle" /\ UNCHANGED <<tags, excused, doomed, cleaner>>
    BY <1>4 DEF Lookup, asideVars
  <2>3. Listed' = Listed
    BY <2>1, <2>2 DEF Listed
  <2>4. \E next \in {"exists", "boot"} : at' = [at EXCEPT ![j] = next]
    BY <1>4 DEF Lookup, Go
  <2>5. QED
    BY <1>2, <2>2, <2>3, <2>4
<1>5. ASSUME NEW j \in Jobs, Invalidate(j) PROVE TagsHeld'
  <2>1. /\ at[j] = "stale" /\ at' = [at EXCEPT ![j] = "boot"]
        /\ UNCHANGED <<tags, excused, doomed, cleaner>>
    BY <1>5 DEF Invalidate, Go, asideVars
  <2>2. Racing(KeyOf[j])'
    <3>1. Racing(KeyOf[j])
      BY <2>1 DEF SecondFile, Racing
    <3>2. QED
      BY <1>1, <3>1
  <2>3. /\ ToSet(rows["first"]) \ {KeyOf[j]} \subseteq ToSet(rows'["first"])
        /\ ToSet(rows["second"]) \ {KeyOf[j]} \subseteq ToSet(rows'["second"])
    BY <1>0, <1>5, InvalidateKeys
  <2>4. Listed \ {KeyOf[j]} \subseteq Listed'
    <3>1. cleaner \in {"idle", "removing", "done"}
      BY <1>0 DEF TypeOK
    <3>2. QED
      BY <2>1, <2>3, <3>1 DEF Listed
  <2>5. QED
    BY <1>2, <2>1, <2>2, <2>4
<1>6. ASSUME NEW j \in Jobs, Insert(j) PROVE TagsHeld'
  <2>1. /\ at[j] = "insert" /\ at' = [at EXCEPT ![j] = "count"] /\ tags' = tags
        /\ excused' = excused \ {KeyOf[j]} /\ UNCHANGED <<doomed, cleaner, handle>>
    BY <1>6 DEF Insert, Go, asideVars, procVars
  <2>2. ASSUME NEW f \in Files
        PROVE  ToSet(rows'[f]) = IF f = File(j) THEN ToSet(rows[f]) \union {KeyOf[j]} ELSE ToSet(rows[f])
    BY <1>0, <1>6, <2>2, InsertKeys
  <2>3. KeyOf[j] \in Listed' \/ Racing(KeyOf[j])'
    <3>1. CASE File(j) = "first"
      BY <1>1, <2>1, <3>1 DEF Racing
    <3>2. CASE File(j) = "second"
      <4>1. cleaner' = "done"
        BY <2>1, <3>2, FunctionsAssumption DEF FirstFile, File
      <4>2. KeyOf[j] \in ToSet(rows'["second"])
        BY <1>0, <2>2, <3>2
      <4>3. QED
        BY <4>1, <4>2 DEF Listed
    <3>3. File(j) \in {"first", "second"}
      BY <1>6 DEF Insert, Live, Files
    <3>4. QED
      BY <3>1, <3>2, <3>3
  <2>4. Listed \subseteq Listed'
    <3>1. cleaner \in {"idle", "removing", "done"}
      BY <1>0 DEF TypeOK
    <3>2. /\ ToSet(rows["first"]) \subseteq ToSet(rows'["first"])
          /\ ToSet(rows["second"]) \subseteq ToSet(rows'["second"])
      BY <1>0, <2>2
    <3>3. QED
      BY <2>1, <3>1, <3>2 DEF Listed
  <2>5. ASSUME NEW k, k # KeyOf[j], Inserting(k) PROVE Inserting(k)'
    BY <1>0, <2>1, <2>5 DEF Inserting, TypeOK
  <2>6. ASSUME NEW k \in tags' PROVE k \in Listed' \union excused' \/ Racing(k)' \/ Inserting(k)'
    <3>1. k \in Listed \union excused \/ Racing(k) \/ Inserting(k)
      BY <2>1, <2>6 DEF TagsHeld
    <3>2. QED
      BY <1>1, <2>1, <2>3, <2>4, <2>5, <3>1
  <2>7. QED
    BY <2>6 DEF TagsHeld
<1>7. ASSUME NEW j \in Jobs,
             \/ Probe(j) \/ Create(j) \/ Start(j) \/ Run(j) \/ Commit(j) \/ Count(j) \/ Select(j)
             \/ Delete(j) \/ RemoveImage(j) \/ Take(j) \/ Destroy(j) \/ Drop(j)
      PROVE  TagsHeld'
  <2>1. at[j] \notin {"select", "delete", "remove"}
    BY DEF NothingEvicted
  <2>2. rows' = rows /\ UNCHANGED <<doomed, cleaner>> /\ at[j] # "insert"
    BY <1>7, <2>1 DEF Probe, Create, Start, Run, Commit, Count, Select, Delete, RemoveImage, Take,
                      Destroy, Drop, asideVars, Awaits
  <2>3. Listed' = Listed
    BY <2>2 DEF Listed
  <2>4. CASE Commit(j)
    <3>1. PICK next \in {"insert", "destroy"} :
            /\ at' = [at EXCEPT ![j] = next]
            /\ \/ next = "insert" /\ tags' = tags \union {KeyOf[j]} /\ excused' = excused
               \/ TagUntracked(KeyOf[j])
      BY <2>4 DEF Commit, Go
    <3>2. QED
      BY <1>2, <2>2, <2>3, <3>1 DEF TagUntracked
  <2>5. CASE Drop(j)
    <3>1. at' = [at EXCEPT ![j] = "done"]
      BY <2>5 DEF Drop, Finish, Go
    <3>2. excused \subseteq excused' /\ tags' \subseteq tags \union excused'
      BY <2>1, <2>5 DEF Drop, TagUntracked
    <3>3. QED
      BY <1>2, <2>2, <2>3, <3>1, <3>2
  <2>6. CASE ~(Commit(j) \/ Drop(j))
    <3>1. UNCHANGED <<tags, excused>>
      BY <1>7, <2>1, <2>6 DEF Probe, Create, Start, Run, Count, Select, Delete, RemoveImage, Take, Destroy
    <3>2. \E next : at' = [at EXCEPT ![j] = next]
      <4>1. CASE Count(j)
        BY <4>1 DEF Count, Go
      <4>2. CASE ~Count(j)
        BY <1>7, <2>1, <2>6, <4>2
           DEF Probe, Create, Start, Run, Select, Delete, RemoveImage, Take, Destroy, Go, Finish
      <4>3. QED
        BY <4>1, <4>2
    <3>3. QED
      BY <1>2, <2>2, <2>3, <3>1, <3>2
  <2>7. QED
    BY <2>4, <2>5, <2>6
<1>8. ASSUME NEW j \in Jobs, Sweep(j) PROVE TagsHeld'
  <2>1. Listed' = Listed
    BY <1>8 DEF Sweep, Listed, asideVars
  <2>2. QED
    BY <1>3, <1>8, <2>1 DEF Sweep
<1>9. ASSUME NEW p \in Procs, Open(p) \/ Exit(p) PROVE TagsHeld'
  <2>1. Listed' = Listed
    BY <1>9 DEF Open, Exit, Listed, asideVars
  <2>2. QED
    BY <1>3, <1>9, <2>1 DEF Open, Exit, jobVars
<1>10. CASE List
  <2>1. Listed' = Listed
    BY <1>10 DEF List, Listed, FirstFile
  <2>2. QED
    BY <1>3, <1>10, <2>1 DEF List, jobVars
<1>11. ASSUME NEW k \in Keys, CleanOne(k) PROVE TagsHeld'
  <2>1. /\ at' = at /\ cleaner = "removing" /\ cleaner' = "removing"
        /\ doomed' = doomed \ {k} /\ Untag(k)
    BY <1>11 DEF CleanOne, jobVars
  <2>2. Listed = doomed /\ Listed' = doomed'
    BY <2>1 DEF Listed
  <2>3. \A q : Inserting(q) => Inserting(q)'
    BY <2>1 DEF Inserting
  <2>4. ASSUME NEW q \in tags' PROVE q \in Listed' \union excused' \/ Racing(q)' \/ Inserting(q)'
    <3>1. q \in tags
      BY <2>1, <2>4 DEF Untag
    <3>2. q \in doomed \union excused \/ Racing(q) \/ Inserting(q)
      BY <2>2, <3>1 DEF TagsHeld
    <3>3. q \in doomed \union excused => q \in doomed' \union excused'
      BY <2>1, <2>4, <3>1 DEF Untag
    <3>4. QED
      BY <1>1, <2>2, <2>3, <3>2, <3>3
  <2>5. QED
    BY <2>4 DEF TagsHeld
<1>12. CASE Unlink
  <2>1. Listed = {}
    BY <1>12 DEF Unlink, Listed
  <2>2. QED
    BY <1>3, <1>12, <2>1 DEF Unlink, jobVars
<1>13. CASE UNCHANGED vars \/ AllGone
  <2>1. Listed' = Listed
    BY <1>13 DEF vars, AllGone, Listed
  <2>2. QED
    BY <1>3, <1>13, <2>1 DEF vars, AllGone
<1>14. QED
  BY <1>4, <1>5, <1>6, <1>7, <1>8, <1>9, <1>10, <1>11, <1>12, <1>13 DEF Next, JobNext

\* While every key fits in the registry, and however many processes build
\* while hm cache clean runs: what it leaves unanswered for is the image of a
\* build that had the removed file open.
THEOREM CleaningForgetsRacersOnly ==
  ASSUME AllFit
  PROVE  Spec => []OnlyRacingBuildsForgotten
<1> DEFINE Tags == FirstFile /\ SecondFile /\ TagsHeld
           Inv == IndInv /\ NothingEvicted /\ Tags
<1>1. Init => NothingEvicted /\ Tags
  <2> SUFFICES ASSUME Init PROVE Tags
    BY InitEvictsNothing
  <2>1. rows["second"] = <<>> /\ tags \subseteq ToSet(rows["first"])
    BY InitListed DEF Init, Files
  <2>2. Listed = ToSet(rows["first"])
    BY DEF Init, Listed
  <2>3. FirstFile
    BY <2>1 DEF Init, FirstFile
  <2>4. SecondFile
    <3>1. ToSet(rows["second"]) = {}
      BY <2>1 DEF ToSet
    <3>2. \A j \in Jobs : at[j] = "idle"
      BY DEF Init
    <3>3. QED
      BY <3>1, <3>2 DEF SecondFile
  <2>5. TagsHeld
    BY <2>1, <2>2 DEF TagsHeld
  <2>6. QED
    BY <2>3, <2>4, <2>5
<1>2. /\ IndInv /\ NothingEvicted /\ FirstFile /\ SecondFile /\ TagsHeld /\ [Next]_vars
         => (NothingEvicted /\ FirstFile /\ SecondFile /\ TagsHeld)'
  BY NothingEvictedKept, FirstFileKept, SecondFileKept, TagsHeldKept
<1>3. Inv => OnlyRacingBuildsForgotten
  <2> SUFFICES ASSUME Inv, cleaner = "done", NEW k \in tags
               PROVE  \/ Accounted(k, disk)
                      \/ \E j \in Jobs : KeyOf[j] = k /\ at[j] # "idle" /\ File(j) = "first"
    BY DEF OnlyRacingBuildsForgotten
  <2>1. k \in ToSet(rows["second"]) \union excused \/ Racing(k) \/ Inserting(k)
    BY DEF TagsHeld, Listed
  <2>2. disk = "second"
    BY DEF FirstFile
  <2>3. QED
    BY <2>1, <2>2 DEF Accounted, Racing, Inserting
<1>4. QED
  BY <1>1, <1>2, <1>3, CacheInvariance, PTL DEF Spec


-----------------------------------------------------------------------------
(* Containers.                                                              *)

WithBox == {"running", "commit", "insert", "count", "select", "delete", "remove", "destroy"}

\* What may be left of the container of a job that has ended as e.
Remains(e, b) == b \in {"none", "refused"} \/ (b = "unowned" /\ e = "failed") \/ e = "dropped"

\* What the handle of a job holds at each place, while its process runs.
BoxHeld(j) ==
  /\ at[j] \in {"idle", "exists", "stale", "boot"} => box[j] = "none"
  /\ ProcOf[j] \in up =>
       /\ at[j] = "starting" => box[j] = "created"
       /\ at[j] \in WithBox => box[j] = "up"
       /\ at[j] = "destroying" => box[j] = "taken"
  /\ at[j] = "done" => Remains(end[j], box[j])

LEMMA BoxHeldKept ==
  ASSUME TypeOK, \A j \in Jobs : BoxHeld(j), [Next]_vars, NEW t \in Jobs
  PROVE  BoxHeld(t)'
<1>1. ASSUME UNCHANGED <<at, end, box, up>> PROVE BoxHeld(t)'
  BY <1>1 DEF BoxHeld
\* The moves of a job that leave its container alone.
<1>2. ASSUME NEW j \in Jobs, NEW next, Live(j), at' = [at EXCEPT ![j] = next], UNCHANGED <<box, up>>,
             end' = end \/ \E e : end' = [end EXCEPT ![j] = e],
             \/ at[j] \in {"idle", "exists", "stale", "boot"} /\ next \in {"exists", "stale", "boot", "done"}
             \/ at[j] \in WithBox /\ next \in WithBox
      PROVE  BoxHeld(t)'
  <2>1. at'[t] = IF t = j THEN next ELSE at[t]
    BY <1>2 DEF TypeOK
  <2>2. t # j => end'[t] = end[t]
    BY <1>2 DEF TypeOK
  <2>3. CASE t = j
    BY <1>2, <2>1, <2>3 DEF BoxHeld, WithBox, Remains
  <2>4. CASE t # j
    BY <1>2, <2>1, <2>2, <2>4 DEF BoxHeld
  <2>5. QED
    BY <2>3, <2>4
\* Those that change it.
<1>3. ASSUME NEW j \in Jobs, NEW next, NEW b,
             at' = [at EXCEPT ![j] = next], box' = [box EXCEPT ![j] = b], up' = up,
             end' = end \/ \E e : end' = [end EXCEPT ![j] = e],
             \/ next = "starting" /\ b = "created"
             \/ next = "running" /\ b = "up"
             \/ next = "destroying" /\ b = "taken"
             \/ next = "done" /\ Remains(end'[j], b)
      PROVE  BoxHeld(t)'
  <2>1. /\ at'[t] = IF t = j THEN next ELSE at[t]
        /\ box'[t] = IF t = j THEN b ELSE box[t]
        /\ t # j => end'[t] = end[t]
    BY <1>3 DEF TypeOK
  <2>2. CASE t = j
    BY <1>3, <2>1, <2>2 DEF BoxHeld, WithBox
  <2>3. CASE t # j
    BY <1>3, <2>1, <2>3 DEF BoxHeld
  <2>4. QED
    BY <2>2, <2>3
<1>4. ASSUME NEW j \in Jobs, Lookup(j) \/ Probe(j) \/ Invalidate(j) PROVE BoxHeld(t)'
  <2>1. /\ Live(j) /\ UNCHANGED <<box, up>> /\ at[j] \in {"idle", "exists", "stale"}
        /\ end' = end \/ \E e : end' = [end EXCEPT ![j] = e]
        /\ \E next \in {"exists", "stale", "boot", "done"} : at' = [at EXCEPT ![j] = next]
    BY <1>4 DEF Lookup, Probe, Invalidate, Go, Finish, procVars
  <2>2. QED
    BY <1>2, <2>1
<1>5. ASSUME NEW j \in Jobs, Create(j) PROVE BoxHeld(t)'
  <2>1. Live(j) /\ at[j] = "boot" /\ up' = up
    BY <1>5 DEF Create, procVars
  <2>2. CASE at' = [at EXCEPT ![j] = "starting"] /\ box' = [box EXCEPT ![j] = "created"] /\ end' = end
    BY <1>3, <2>1, <2>2
  <2>3. CASE Finish(j, "failed") /\ box' = box
    BY <1>2, <2>1, <2>3 DEF Finish, Go
  <2>4. CASE Finish(j, "failed") /\ box' = [box EXCEPT ![j] = "unowned"]
    <3>1. at' = [at EXCEPT ![j] = "done"] /\ end' = [end EXCEPT ![j] = "failed"] /\ end'[j] = "failed"
      BY <2>4 DEF Finish, Go, TypeOK
    <3>2. QED
      BY <1>3, <2>1, <2>4, <3>1 DEF Remains
  <2>5. QED
    BY <1>5, <2>2, <2>3, <2>4 DEF Create, Go
<1>6. ASSUME NEW j \in Jobs, Start(j) \/ Take(j) \/ Destroy(j) PROVE BoxHeld(t)'
  <2>1. CASE Start(j)
    <3>1. CASE at' = [at EXCEPT ![j] = "running"] /\ box' = [box EXCEPT ![j] = "up"] /\ end' = end
      BY <1>3, <2>1, <3>1 DEF Start, procVars
    <3>2. CASE Finish(j, "failed") /\ box' = [box EXCEPT ![j] = "unowned"]
      <4>1. /\ at' = [at EXCEPT ![j] = "done"] /\ end' = [end EXCEPT ![j] = "failed"]
            /\ end'[j] = "failed" /\ up' = up
        BY <2>1, <3>2 DEF Start, Finish, Go, procVars, TypeOK
      <4>2. QED
        BY <1>3, <3>2, <4>1 DEF Remains
    <3>3. QED
      BY <2>1, <3>1, <3>2 DEF Start, Go
  <2>2. CASE Take(j)
    BY <1>3, <2>2 DEF Take, Go, procVars
  <2>3. CASE Destroy(j)
    <3>1. /\ at' = [at EXCEPT ![j] = "done"] /\ end' = end /\ up' = up
          /\ \E b \in {"none", "refused"} : box' = [box EXCEPT ![j] = b]
      BY <2>3 DEF Destroy, Go, procVars
    <3>2. QED
      BY <1>3, <3>1 DEF Remains
  <2>4. QED
    BY <1>6, <2>1, <2>2, <2>3
<1>7. ASSUME NEW j \in Jobs,
             Run(j) \/ Commit(j) \/ Insert(j) \/ Count(j) \/ Select(j) \/ Delete(j) \/ RemoveImage(j)
      PROVE  BoxHeld(t)'
  <2>1. /\ Live(j) /\ UNCHANGED <<box, up>> /\ at[j] \in WithBox
        /\ end' = end \/ \E e : end' = [end EXCEPT ![j] = e]
    BY <1>7 DEF Run, Commit, Insert, Count, Select, Delete, RemoveImage, procVars, WithBox
  <2>2. \E next \in WithBox : at' = [at EXCEPT ![j] = next]
    <3>1. CASE Count(j)
      BY <3>1 DEF Count, Go, WithBox
    <3>2. CASE ~Count(j)
      BY <1>7, <3>2 DEF Run, Commit, Insert, Select, Delete, RemoveImage, Go, WithBox
    <3>3. QED
      BY <3>1, <3>2
  <2>3. QED
    BY <1>2, <2>1, <2>2
<1>8. ASSUME NEW j \in Jobs, Drop(j) PROVE BoxHeld(t)'
  <2>1. /\ at' = [at EXCEPT ![j] = "done"] /\ end' = [end EXCEPT ![j] = "dropped"] /\ up' = up
        /\ \E b : box' = [box EXCEPT ![j] = b]
    BY <1>8 DEF Drop, Finish, Go, procVars
  <2>2. end'[j] = "dropped"
    BY <2>1 DEF TypeOK
  <2>3. QED
    BY <1>3, <2>1, <2>2 DEF Remains
<1>9. ASSUME NEW j \in Jobs, Sweep(j) PROVE BoxHeld(t)'
  <2>1. /\ ProcOf[j] \in up /\ box[j] = "sweep" /\ UNCHANGED <<at, end, up>>
        /\ \E b \in {"none", "refused"} : box' = [box EXCEPT ![j] = b]
    BY <1>9 DEF Sweep, procVars
  <2>2. BoxHeld(j) /\ BoxHeld(t)
    OBVIOUS
  <2>3. at[j] \notin {"idle", "exists", "stale", "boot", "starting", "destroying"} \union WithBox
    BY <2>1, <2>2 DEF BoxHeld
  <2>4. IF t = j THEN box'[t] \in {"none", "refused"} ELSE box'[t] = box[t]
    BY <2>1 DEF TypeOK
  <2>5. QED
    BY <2>1, <2>2, <2>3, <2>4 DEF BoxHeld, Remains
<1>10. ASSUME NEW p \in Procs, Open(p) \/ Exit(p) PROVE BoxHeld(t)'
  <2>1. CASE Open(p)
    BY <1>1, <2>1 DEF Open, jobVars
  <2>2. CASE Exit(p)
    <3>1. /\ UNCHANGED <<at, end>> /\ up' = up \ {p}
          /\ box'[t] = IF ProcOf[t] = p /\ box[t] \in Attended THEN "leaked" ELSE box[t]
      BY <2>2 DEF Exit, Own
    <3>2. BoxHeld(t)
      OBVIOUS
    <3>3. QED
      BY <3>1, <3>2 DEF BoxHeld, Remains, Attended
  <2>3. QED
    BY <1>10, <2>1, <2>2
<1>11. CASE UNCHANGED vars \/ AllGone \/ List \/ Unlink \/ \E k \in Keys : CleanOne(k)
  BY <1>1, <1>11 DEF vars, AllGone, List, Unlink, CleanOne, jobVars, procVars
<1>12. QED
  BY <1>4, <1>5, <1>6, <1>7, <1>8, <1>9, <1>10, <1>11 DEF Next, JobNext

\* Whatever the daemon refuses: a step that ends on its own, passed or failed,
\* leaves its container only if the daemon would not remove it or had made it
\* and not started it, however many steps are dropped and processes killed.
THEOREM BoxesAreDestroyed == Spec => []BoxesDestroyed
<1> DEFINE Inv == IndInv /\ \A j \in Jobs : BoxHeld(j)
<1>1. Init => \A j \in Jobs : BoxHeld(j)
  BY DEF Init, BoxHeld, WithBox
<1>2. IndInv /\ (\A j \in Jobs : BoxHeld(j)) /\ [Next]_vars => (\A j \in Jobs : BoxHeld(j))'
  BY BoxHeldKept DEF IndInv
<1>3. Inv => BoxesDestroyed
  BY DEF BoxHeld, Remains, BoxesDestroyed
<1>4. QED
  BY <1>1, <1>2, <1>3, CacheInvariance, PTL DEF Spec


-----------------------------------------------------------------------------
(* No image is forgotten.  In a process on its own, with a key for each job *)
(* and nobody cleaning, whatever is dropped, killed or refused.  Two jobs   *)
(* of one key can forget theirs: the one deletes the row of the image that  *)
(* the other has rebuilt since they both found it gone.                     *)

OneJobPerKey == \A i, j \in Jobs : KeyOf[i] = KeyOf[j] => i = j

\* Nobody cleans, only who is about to remove images has some to remove, and
\* what was found gone is.
Settled ==
  /\ disk = "first" /\ cleaner = "idle" /\ \A p \in Procs : handle[p] # "second"
  /\ \A j \in Jobs : at[j] \notin {"delete", "remove"} => evicted[j] = <<>>
  /\ \A j \in Jobs : at[j] = "stale" => KeyOf[j] \notin tags

LEMMA SettledKept ==
  ASSUME OneJobPerKey, ~Cleaning, TypeOK, Settled, [Next]_vars
  PROVE  Settled'
<1>1. /\ disk' = "first" /\ cleaner' = "idle" /\ (\A p \in Procs : handle'[p] # "second")
      /\ ~List /\ ~Unlink /\ \A k \in Keys : ~CleanOne(k)
  <2>1. ~List /\ ~Unlink /\ \A k \in Keys : ~CleanOne(k)
    BY DEF Settled, List, Unlink, CleanOne
  <2>2. ASSUME NEW j \in Jobs, JobNext(j) PROVE UNCHANGED <<disk, cleaner, handle>>
    BY <2>2 DEF JobNext, Lookup, Probe, Invalidate, Create, Start, Run, Commit, Insert, Count,
                Select, Delete, RemoveImage, Take, Destroy, Drop, Sweep, asideVars, procVars
  <2>3. ASSUME NEW p \in Procs, Open(p) \/ Exit(p)
        PROVE  UNCHANGED <<disk, cleaner>> /\ (handle' = handle \/ handle' = [handle EXCEPT ![p] = disk])
    BY <2>3 DEF Open, Exit, asideVars
  <2>4. QED
    BY <2>1, <2>2, <2>3 DEF Next, AllGone, vars, Settled, TypeOK
<1>2. ASSUME UNCHANGED <<at, evicted, tags>> PROVE Settled'
  BY <1>1, <1>2 DEF Settled
<1>3. ASSUME NEW j \in Jobs, NEW next, at' = [at EXCEPT ![j] = next],
             next \notin {"delete", "remove"} => evicted'[j] = <<>>,
             \A i \in Jobs \ {j} : evicted'[i] = evicted[i],
             tags' \subseteq tags \union {KeyOf[j]},
             next = "stale" => KeyOf[j] \notin tags'
      PROVE  Settled'
  <2>1. \A i \in Jobs : at'[i] = IF i = j THEN next ELSE at[i]
    BY <1>3 DEF TypeOK
  <2>2. \A i \in Jobs : i # j => KeyOf[i] # KeyOf[j]
    BY DEF OneJobPerKey
  <2>3. QED
    BY <1>1, <1>3, <2>1, <2>2 DEF Settled
<1>4. ASSUME NEW j \in Jobs,
             \/ Lookup(j) \/ Invalidate(j) \/ Create(j) \/ Start(j) \/ Run(j) \/ Insert(j) \/ Count(j)
             \/ Take(j) \/ Destroy(j)
      PROVE  Settled'
  <2>1. UNCHANGED <<evicted, tags>> /\ at[j] \notin {"delete", "remove"}
    BY <1>4 DEF Lookup, Invalidate, Create, Start, Run, Insert, Count, Take, Destroy
  <2>2. \E next \in {"exists", "boot", "starting", "running", "commit", "destroy", "count", "select",
                     "destroying", "done"} : at' = [at EXCEPT ![j] = next]
    <3>1. CASE Count(j)
      BY <3>1 DEF Count, Go
    <3>2. CASE ~Count(j)
      BY <1>4, <3>2 DEF Lookup, Invalidate, Create, Start, Run, Insert, Take, Destroy, Go, Finish
    <3>3. QED
      BY <3>1, <3>2
  <2>3. QED
    BY <1>3, <2>1, <2>2 DEF Settled
<1>5. ASSUME NEW j \in Jobs, Probe(j) PROVE Settled'
  <2>1. UNCHANGED <<evicted, tags>> /\ at[j] = "exists"
    BY <1>5 DEF Probe
  <2>2. \/ at' = [at EXCEPT ![j] = "done"]
        \/ at' = [at EXCEPT ![j] = "stale"] /\ KeyOf[j] \notin tags
    BY <1>5 DEF Probe, Go, Finish
  <2>3. QED
    BY <1>3, <2>1, <2>2 DEF Settled
<1>6. ASSUME NEW j \in Jobs, Commit(j) PROVE Settled'
  <2>1. evicted' = evicted /\ at[j] = "commit" /\ tags' \subseteq tags \union {KeyOf[j]}
    BY <1>6 DEF Commit, TagUntracked
  <2>2. \E next \in {"insert", "destroy"} : at' = [at EXCEPT ![j] = next]
    BY <1>6 DEF Commit, Go
  <2>3. QED
    BY <1>3, <2>1, <2>2 DEF Settled
<1>7. ASSUME NEW j \in Jobs, Select(j) PROVE Settled'
  <2>1. /\ tags' = tags /\ at' = [at EXCEPT ![j] = "delete"]
        /\ \A i \in Jobs \ {j} : evicted'[i] = evicted[i]
    BY <1>7 DEF Select, Go, TypeOK
  <2>2. QED
    BY <1>3, <2>1
<1>8. ASSUME NEW j \in Jobs, Delete(j) PROVE Settled'
  <2>1. /\ tags' = tags /\ evicted' = evicted
        /\ at' = [at EXCEPT ![j] = IF evicted[j] = <<>> THEN "destroy" ELSE "remove"]
    BY <1>8 DEF Delete, Go
  <2>2. \E next \in {"destroy", "remove"} :
          at' = [at EXCEPT ![j] = next] /\ (next = "destroy" => evicted'[j] = <<>>)
    BY <2>1
  <2>3. QED
    BY <1>3, <2>1, <2>2
<1>9. ASSUME NEW j \in Jobs, RemoveImage(j) PROVE Settled'
  <2>1. /\ tags' \subseteq tags /\ evicted[j] # <<>> /\ evicted' = [evicted EXCEPT ![j] = Tail(evicted[j])]
        /\ at' = [at EXCEPT ![j] = IF Len(evicted[j]) = 1 THEN "destroy" ELSE "remove"]
    BY <1>9 DEF RemoveImage, Untag, Go
  <2>2. evicted'[j] = Tail(evicted[j]) /\ \A i \in Jobs \ {j} : evicted'[i] = evicted[i]
    BY <2>1 DEF TypeOK
  <2>3. Len(evicted[j]) = 1 => Tail(evicted[j]) = <<>>
    <3>1. evicted[j] \in Seq(Keys)
      BY DEF TypeOK
    <3>2. Tail(evicted[j]) \in Seq(Keys) /\ Len(Tail(evicted[j])) = Len(evicted[j]) - 1
      BY <2>1, <3>1, HeadTailProperties
    <3>3. Len(evicted[j]) = 1 => Len(Tail(evicted[j])) = 0
      BY <3>1, <3>2
    <3>4. QED
      BY <3>2, <3>3, EmptySeq
  <2>4. \E next \in {"destroy", "remove"} :
          at' = [at EXCEPT ![j] = next] /\ (next = "destroy" => evicted'[j] = <<>>)
    BY <2>1, <2>2, <2>3
  <2>5. QED
    BY <1>3, <2>1, <2>2, <2>4
<1>10. ASSUME NEW j \in Jobs, Drop(j) PROVE Settled'
  <2>1. at' = [at EXCEPT ![j] = "done"] /\ evicted' = [evicted EXCEPT ![j] = <<>>]
    BY <1>10 DEF Drop, Finish, Go
  <2>2. tags' \subseteq tags \union {KeyOf[j]}
    BY <1>10 DEF Drop, TagUntracked
  <2>3. evicted'[j] = <<>> /\ \A i \in Jobs \ {j} : evicted'[i] = evicted[i]
    BY <2>1 DEF TypeOK
  <2>4. QED
    BY <1>3, <2>1, <2>2, <2>3
<1>11. ASSUME NEW j \in Jobs, Sweep(j) PROVE Settled'
  BY <1>2, <1>11 DEF Sweep
<1>12. ASSUME NEW p \in Procs, Open(p) \/ Exit(p) PROVE Settled'
  BY <1>2, <1>12 DEF Open, Exit, jobVars
<1>13. CASE UNCHANGED vars \/ AllGone
  BY <1>2, <1>13 DEF vars, AllGone
<1>14. QED
  BY <1>1, <1>4, <1>5, <1>6, <1>7, <1>8, <1>9, <1>10, <1>11, <1>12, <1>13 DEF Next, JobNext

\* A list's elements are its first and those of the rest.
LEMMA HeadAndTail ==
  ASSUME NEW s \in Seq(Keys), s # <<>>
  PROVE  ToSet(s) \subseteq {Head(s)} \union ToSet(Tail(s))
<1> DEFINE t == Tail(s)
<1>1. /\ Len(s) \in Nat /\ t \in Seq(Keys) /\ Len(t) = Len(s) - 1 /\ Head(s) = s[1]
      /\ \A i \in 1..Len(t) : t[i] = s[i + 1]
  BY HeadTailProperties
<1> HIDE DEF t
<1>2. ASSUME NEW n \in 1..Len(s), n # 1 PROVE s[n] \in ToSet(t)
  <2>1. n - 1 \in 1..Len(t) /\ (n - 1) + 1 = n
    BY <1>1, <1>2
  <2>2. s[n] = t[n - 1]
    BY <1>1, <2>1
  <2>3. QED
    BY <1>1, <2>1, <2>2 DEF ToSet
<1>3. QED
  BY <1>1, <1>2 DEF ToSet, t

\* The images that a section of the registry or a step of a job j leaves
\* answered for stay so.
LEMMA TrackedKept ==
  ASSUME OneJobPerKey, TypeOK, SelectedStillOldest, Settled, Settled', ImagesTracked, [Next]_vars
  PROVE  ImagesTracked'
<1>0. disk = "first" /\ disk' = "first" /\ cleaner = "idle" /\ cleaner' = "idle" /\ "first" \in Files
  BY DEF Settled, Files
<1> DEFINE Kept(k) == Accounted(k, "first") => Accounted(k, "first")'
\* New images are answered for, and old ones still are.
<1>1. ASSUME \A k \in tags' : (k \in tags /\ Kept(k)) \/ Accounted(k, "first")'
      PROVE  ImagesTracked'
  BY <1>0, <1>1 DEF ImagesTracked
\* A step that neither forgets an excuse nor an eviction, nor inserts.
<1>2. ASSUME NEW j \in Jobs, NEW next, at' = [at EXCEPT ![j] = next], at[j] # "insert",
             evicted' = evicted, excused \subseteq excused', doomed' = doomed,
             NEW k, k \in ToSet(rows["first"]) => k \in ToSet(rows'["first"])
      PROVE  Kept(k)
  <2>1. \A i \in Jobs : at[i] = "insert" => at'[i] = "insert"
    BY <1>2 DEF TypeOK
  <2>2. QED
    BY <1>2, <2>1 DEF Accounted
<1>3. ASSUME NEW j \in Jobs, Lookup(j) PROVE ImagesTracked'
  <2>1. ToSet(rows'["first"]) = ToSet(rows["first"])
    BY <1>0, <1>3, LookupKeys
  <2>2. at[j] = "idle" /\ UNCHANGED <<tags, evicted, excused, doomed>>
    BY <1>3 DEF Lookup, asideVars
  <2>3. \E next \in {"exists", "boot"} : at' = [at EXCEPT ![j] = next]
    BY <1>3 DEF Lookup, Go
  <2>4. QED
    BY <1>1, <1>2, <2>1, <2>2, <2>3
<1>4. ASSUME NEW j \in Jobs, Invalidate(j) PROVE ImagesTracked'
  <2>1. /\ at[j] = "stale" /\ at' = [at EXCEPT ![j] = "boot"]
        /\ UNCHANGED <<tags, evicted, excused, doomed>>
    BY <1>4 DEF Invalidate, Go, asideVars
  <2>2. KeyOf[j] \notin tags
    BY <2>1 DEF Settled
  <2>3. ToSet(rows["first"]) \ {KeyOf[j]} \subseteq ToSet(rows'["first"])
    BY <1>0, <1>4, InvalidateKeys
  <2>4. \A k \in tags : Kept(k)
    BY <1>2, <2>1, <2>2, <2>3
  <2>5. QED
    BY <1>1, <2>1, <2>4
<1>5. ASSUME NEW j \in Jobs, Insert(j) PROVE ImagesTracked'
  <2>1. /\ at' = [at EXCEPT ![j] = "count"] /\ excused' = excused \ {KeyOf[j]}
        /\ UNCHANGED <<tags, evicted, doomed>>
    BY <1>5 DEF Insert, Go, asideVars
  <2>2. ToSet(rows'["first"]) = ToSet(rows["first"]) \union {KeyOf[j]}
    <3>1. File(j) = "first"
      BY <1>5, FunctionsAssumption DEF Insert, Live, Files, Settled, File
    <3>2. QED
      BY <1>0, <1>5, <3>1, InsertKeys
  <2>3. \A i \in Jobs : i # j => at'[i] = at[i]
    BY <2>1
  <2>4. ASSUME NEW k \in tags PROVE Kept(k)
    <3>1. CASE k = KeyOf[j]
      BY <2>2, <3>1 DEF Accounted
    <3>2. CASE k # KeyOf[j]
      BY <2>1, <2>2, <2>3, <3>2 DEF Accounted
    <3>3. QED
      BY <3>1, <3>2
  <2>5. QED
    BY <1>1, <2>1, <2>4
<1>6. ASSUME NEW j \in Jobs, Commit(j) PROVE ImagesTracked'
  <2>1. PICK next \in {"insert", "destroy"} :
          /\ at' = [at EXCEPT ![j] = next]
          /\ \/ next = "insert" /\ tags' = tags \union {KeyOf[j]} /\ excused' = excused
             \/ TagUntracked(KeyOf[j])
    BY <1>6 DEF Commit, Go
  <2>2. at[j] = "commit" /\ rows' = rows /\ UNCHANGED <<evicted, doomed>>
    BY <1>6 DEF Commit, asideVars
  <2>3. \A k : Kept(k)
    BY <1>2, <2>1, <2>2 DEF TagUntracked
  <2>4. at'[j] = next
    BY <2>1 DEF TypeOK
  <2>5. \A k \in tags' \ tags : Accounted(k, "first")'
    BY <2>1, <2>4 DEF TagUntracked, Accounted
  <2>6. QED
    BY <1>1, <2>3, <2>5
<1>7. ASSUME NEW j \in Jobs, Select(j) PROVE ImagesTracked'
  <2>1. /\ at[j] = "select" /\ at' = [at EXCEPT ![j] = "delete"] /\ rows' = rows
        /\ UNCHANGED <<tags, excused, doomed>>
        /\ \A i \in Jobs : i # j => evicted'[i] = evicted[i]
    BY <1>7 DEF Select, Go, asideVars, TypeOK
  <2>2. ToSet(evicted[j]) = {}
    <3>1. evicted[j] = <<>>
      BY <2>1 DEF Settled
    <3>2. QED
      BY <3>1 DEF ToSet
  <2>3. \A i \in Jobs : at[i] = "insert" => at'[i] = "insert"
    BY <2>1 DEF TypeOK
  <2>4. \A k : Kept(k)
    BY <2>1, <2>2, <2>3 DEF Accounted
  <2>5. QED
    BY <1>1, <2>1, <2>4
<1>8. ASSUME NEW j \in Jobs, Delete(j) PROVE ImagesTracked'
  <2>1. /\ at[j] = "delete" /\ UNCHANGED <<tags, excused, doomed, evicted>>
        /\ \E next : at' = [at EXCEPT ![j] = next]
    BY <1>8 DEF Delete, Go, asideVars
  <2>2. ToSet(rows["first"]) \ ToSet(rows'["first"]) \subseteq ToSet(evicted[j])
    BY <1>0, <1>8, DeleteReturns
  <2>3. \A i \in Jobs : at[i] = "insert" => at'[i] = "insert"
    BY <2>1 DEF TypeOK
  <2>4. \A k : Kept(k)
    BY <2>1, <2>2, <2>3 DEF Accounted
  <2>5. QED
    BY <1>1, <2>1, <2>4
<1>9. ASSUME NEW j \in Jobs, RemoveImage(j) PROVE ImagesTracked'
  <2>1. /\ at[j] = "remove" /\ evicted[j] # <<>> /\ Untag(Head(evicted[j]))
        /\ evicted' = [evicted EXCEPT ![j] = Tail(evicted[j])] /\ rows' = rows /\ doomed' = doomed
        /\ \E next : at' = [at EXCEPT ![j] = next]
    BY <1>9 DEF RemoveImage, Go, asideVars
  <2> DEFINE h == Head(evicted[j])
  <2>2. evicted'[j] = Tail(evicted[j]) /\ \A i \in Jobs : i # j => evicted'[i] = evicted[i]
    BY <2>1 DEF TypeOK
  <2>3. ToSet(evicted[j]) \subseteq {h} \union ToSet(evicted'[j])
    <3>1. evicted[j] \in Seq(Keys) /\ evicted[j] # <<>>
      BY <2>1 DEF TypeOK
    <3>2. QED
      BY <2>2, <3>1, HeadAndTail
  <2>4. \A i \in Jobs : at[i] = "insert" => at'[i] = "insert"
    BY <2>1 DEF TypeOK
  <2>5. /\ tags' \subseteq tags /\ (h \in tags' => h \in excused')
        /\ \A k : k # h /\ k \in excused => k \in excused'
    BY <2>1 DEF Untag
  <2> HIDE DEF h
  <2>6. ASSUME NEW k \in tags' PROVE Kept(k) \/ Accounted(k, "first")'
    <3>1. CASE k = h
      BY <2>5, <2>6, <3>1 DEF Accounted
    <3>2. CASE k # h
      BY <2>1, <2>2, <2>3, <2>4, <2>5, <3>2 DEF Accounted
    <3>3. QED
      BY <3>1, <3>2
  <2>7. QED
    BY <1>1, <2>5, <2>6
<1>10. ASSUME NEW j \in Jobs, Drop(j) PROVE ImagesTracked'
  <2>1. /\ at[j] \in Awaits /\ at' = [at EXCEPT ![j] = "done"] /\ rows' = rows /\ doomed' = doomed
        /\ evicted' = [evicted EXCEPT ![j] = <<>>]
    BY <1>10 DEF Drop, Finish, Go, asideVars
  <2>2. excused \subseteq excused' /\ tags' \subseteq tags \union excused'
    BY <1>10 DEF Drop, TagUntracked
  <2>3. ToSet(evicted[j]) \subseteq excused'
    <3>1. CASE at[j] = "remove"
      BY <1>10, <3>1 DEF Drop
    <3>2. CASE at[j] # "remove"
      <4>1. evicted[j] = <<>>
        BY <2>1, <3>2 DEF Settled, Awaits
      <4>2. QED
        BY <4>1 DEF ToSet
    <3>3. QED
      BY <3>1, <3>2
  <2>4. \A i \in Jobs : i # j => evicted'[i] = evicted[i] /\ at'[i] = at[i]
    BY <2>1 DEF TypeOK
  <2>5. at[j] # "insert"
    BY <2>1 DEF Awaits
  <2>6. \A k : Kept(k)
    BY <2>1, <2>2, <2>3, <2>4, <2>5 DEF Accounted
  <2>7. \A k \in tags' \ tags : Accounted(k, "first")'
    BY <2>2 DEF Accounted
  <2>8. QED
    BY <1>1, <2>6, <2>7
<1>11. ASSUME NEW j \in Jobs,
              Probe(j) \/ Create(j) \/ Start(j) \/ Run(j) \/ Count(j) \/ Take(j) \/ Destroy(j)
       PROVE  ImagesTracked'
  <2>1. rows' = rows /\ UNCHANGED <<tags, evicted, excused, doomed>> /\ at[j] # "insert"
    BY <1>11 DEF Probe, Create, Start, Run, Count, Take, Destroy, asideVars
  <2>2. \E next : at' = [at EXCEPT ![j] = next]
    <3>1. CASE Count(j)
      BY <3>1 DEF Count, Go
    <3>2. CASE ~Count(j)
      BY <1>11, <3>2 DEF Probe, Create, Start, Run, Take, Destroy, Go, Finish
    <3>3. QED
      BY <3>1, <3>2
  <2>3. QED
    BY <1>1, <1>2, <2>1, <2>2
<1>12. ASSUME UNCHANGED <<at, evicted, rows, tags, doomed>>, excused \subseteq excused'
       PROVE  ImagesTracked'
  BY <1>1, <1>12 DEF Accounted
<1>13. ASSUME NEW j \in Jobs, Sweep(j) PROVE ImagesTracked'
  BY <1>12, <1>13 DEF Sweep, asideVars
<1>14. ASSUME NEW p \in Procs, Open(p) \/ Exit(p) PROVE ImagesTracked'
  BY <1>12, <1>14 DEF Open, Exit, jobVars, asideVars
<1>15. CASE UNCHANGED vars \/ AllGone
  BY <1>12, <1>15 DEF vars, AllGone
<1>16. CASE List \/ Unlink \/ \E k \in Keys : CleanOne(k)
  BY <1>0, <1>16 DEF List, Unlink, CleanOne
<1>17. QED
  BY <1>3, <1>4, <1>5, <1>6, <1>7, <1>8, <1>9, <1>10, <1>11, <1>13, <1>14, <1>15, <1>16
     DEF Next, JobNext

\* In a sole process, for any number of jobs with a key each: somebody answers
\* for every image of the daemon, whatever the faults.
THEOREM NoImageForgotten ==
  ASSUME Sole, OneJobPerKey, ~Cleaning
  PROVE  Spec => []ImagesTracked
<1> DEFINE Inv == IndInv /\ AloneInDelete /\ SelectedStillOldest
<1>1. Init => Settled /\ ImagesTracked
  <2> SUFFICES ASSUME Init PROVE Settled /\ ImagesTracked
    OBVIOUS
  <2>1. tags \subseteq ToSet(rows["first"])
    BY InitListed
  <2>2. QED
    BY <2>1 DEF Init, Settled, ImagesTracked, Accounted
<1>2. Settled /\ ImagesTracked /\ Inv /\ [Next]_vars => (Settled /\ ImagesTracked)'
  BY SettledKept, TrackedKept DEF IndInv
<1>3. QED
  BY <1>1, <1>2, SelectionInvariance, PTL DEF Spec


=============================================================================
