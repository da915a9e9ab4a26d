----------------------------- MODULE ImageCache -----------------------------
(***************************************************************************)
(* The image cache: HmVm::execute (hm-vm/src/vm.rs) over the registry      *)
(* (registry.rs) and the Docker backend (docker.rs), for jobs that have a  *)
(* cache key, in any number of hm processes of one user, with `hm cache    *)
(* clean` (hm/src/commands/cache/clean.rs) beside them.                    *)
(*                                                                         *)
(* A snapshot id is the tag the key spells (docker.rs splits the key into  *)
(* repo:tag and joins it again), so keys name the images too.  A registry  *)
(* file is the sequence of its rows in eviction order: accessed_at, then   *)
(* rowid.  SQLite makes each statement atomic and waits for its locks; the *)
(* mutex of a process spans one section of the code, never two processes.  *)
(* Its statements succeed, and the clock, read just before a section, does *)
(* not turn to the next second while the section is waited for.            *)
(***************************************************************************)
EXTENDS Naturals, SequencesExt

CONSTANTS
  Procs,      \* hm processes
  Jobs,       \* calls of HmVm::execute
  Keys,       \* cache keys, and the tags they spell
  ProcOf,     \* [Jobs -> Procs]
  KeyOf,      \* [Jobs -> Keys]
  ParentOf,   \* [Jobs -> Jobs \union {NoJob}]: whose image the job starts from
  NoJob,
  Capacity,   \* rows the registry retains (NonZeroU64)
  Cleaning,   \* whether hm cache clean may run
  Faults      \* among "drop" (a cancelled or timed out step), "kill", "daemon"

ASSUME SetsAssumption == IsFiniteSet(Jobs) /\ IsFiniteSet(Keys) /\ NoJob \notin Jobs
ASSUME FunctionsAssumption ==
  /\ ProcOf \in [Jobs -> Procs]
  /\ KeyOf \in [Jobs -> Keys]
  /\ ParentOf \in [Jobs -> Jobs \union {NoJob}]
ASSUME CapacityAssumption == Capacity \in Nat \ {0}
ASSUME FaultsAssumption == Cleaning \in BOOLEAN /\ Faults \subseteq {"drop", "kill", "daemon"}

Files == {"first", "second"}  \* registry.db, and the one created after a clean

VARIABLES
  at,        \* where each job is
  end,       \* how each job ended
  overflow,  \* rows each job has decided to evict
  evicted,   \* keys each job has still to remove from the daemon
  box,       \* each job's container
  handle,    \* the file each process opened
  up,        \* processes still running
  rows,      \* the rows of each file, first to evict first
  disk,      \* the file at the registry's path
  tags,      \* tagged images in the daemon
  excused,   \* history: tags a known fault left behind
  cleaner,   \* where hm cache clean is
  doomed,    \* keys it has still to remove
  crowded,   \* history: a put has counted more rows than the registry retains
  displaced  \* history: keys such a put has selected, or hm cache clean listed

vars == <<at, end, overflow, evicted, box, handle, up, rows, disk, tags, excused, cleaner, doomed,
          crowded, displaced>>
jobVars == <<at, end, overflow, evicted, box>>
procVars == <<handle, up>>
asideVars == <<disk, cleaner, doomed, crowded, displaced>>  \* what most steps of a job leave alone

Sections == {"insert", "count", "select", "delete", "stale"}
Awaits == {"exists", "boot", "starting", "running", "commit", "remove", "destroying"}

File(j) == handle[ProcOf[j]]
Live(j) == ProcOf[j] \in up /\ File(j) \in Files

\* (mutant) the connection is unlocked between SELECT and DELETE
NeverLocked(j) == TRUE

\* Nobody of j's process is between SELECT and DELETE, the section that a step
\* of this model does not cover by itself.
MutexFree(j) == \A i \in Jobs : ProcOf[i] = ProcOf[j] => at[i] # "delete"

\* What evict_overflow's two statements both range over.
Victims(f, n) == Min({n, Len(rows[f])})
Oldest(f, n) == SubSeq(rows[f], 1, Victims(f, n))

\* The key is the table's primary key: at most one row has it.
Row(s, k) == CHOOSE n \in DOMAIN s : s[n] = k
Without(s, k) == IF k \in ToSet(s) THEN RemoveAt(s, Row(s, k)) ELSE s

\* A touch raises accessed_at to the current second: the row moves towards
\* the end, past every row last touched in an earlier second.
Touched(s, k) == {InsertAt(Without(s, k), n, k) : n \in Row(s, k)..Len(s)}

-----------------------------------------------------------------------------
\* The daemon may have lost images the registry still lists.
Init ==
  /\ at = [j \in Jobs |-> "idle"]
  /\ end = [j \in Jobs |-> "none"]
  /\ overflow = [j \in Jobs |-> 0]
  /\ evicted = [j \in Jobs |-> <<>>]
  /\ box = [j \in Jobs |-> "none"]
  /\ handle = [p \in Procs |-> "closed"]
  /\ up = Procs
  /\ \E S \in SUBSET Keys : \E s \in SetToSeqs(S) :
       /\ Len(s) <= Capacity
       /\ rows = [f \in Files |-> IF f = "first" THEN s ELSE <<>>]
       /\ tags \in SUBSET S
  /\ disk = "first"
  /\ excused = {}
  /\ cleaner = "idle"
  /\ doomed = {}
  /\ crowded = FALSE
  /\ displaced = {}

\* LocalBackend::start opens the registry, creating the file if need be.
Open(p) ==
  /\ p \in up
  /\ handle[p] = "closed"
  /\ handle' = [handle EXCEPT ![p] = disk]
  /\ UNCHANGED <<jobVars, up, rows, tags, excused, asideVars>>

\* The parent's step has passed and handed its snapshot down.
ParentPassed(j) == ParentOf[j] # NoJob => end[ParentOf[j]] \in {"hit", "built"} /\ at[ParentOf[j]] = "done"

Go(j, next) == at' = [at EXCEPT ![j] = next]

\* The job ends with r: its future is gone.
Finish(j, r) == Go(j, "done") /\ end' = [end EXCEPT ![j] = r]

\* registry.get: a row found is touched.
Lookup(j) ==
  /\ Live(j) /\ MutexFree(j)
  /\ at[j] = "idle"
  /\ ParentPassed(j)
  /\ LET f == File(j) IN
       \/ /\ KeyOf[j] \in ToSet(rows[f])
          /\ rows' \in {[rows EXCEPT ![f] = s] : s \in Touched(rows[f], KeyOf[j])}
          /\ Go(j, "exists")
       \/ /\ KeyOf[j] \notin ToSet(rows[f])
          /\ Go(j, "boot")
          /\ UNCHANGED rows
  /\ UNCHANGED <<end, overflow, evicted, box, procVars, tags, excused, asideVars>>

\* snapshot_exists answers: hit, stale row, or the daemon's error.
Probe(j) ==
  /\ Live(j)
  /\ at[j] = "exists"
  /\ \/ KeyOf[j] \in tags /\ Finish(j, "hit")
     \/ KeyOf[j] \notin tags /\ Go(j, "stale") /\ UNCHANGED end
     \/ "daemon" \in Faults /\ Finish(j, "failed")
  /\ UNCHANGED <<overflow, evicted, box, procVars, rows, tags, excused, asideVars>>

Invalidate(j) ==
  /\ Live(j) /\ MutexFree(j)
  /\ at[j] = "stale"
  /\ rows' = [rows EXCEPT ![File(j)] = Without(@, KeyOf[j])]
  /\ Go(j, "boot")
  /\ UNCHANGED <<end, overflow, evicted, box, procVars, tags, excused, asideVars>>

\* create_container, from the base image or the parent's tag.  Its error may
\* come after the daemon has made the container.
Create(j) ==
  /\ Live(j)
  /\ at[j] = "boot"
  /\ \/ /\ ParentOf[j] # NoJob => KeyOf[ParentOf[j]] \in tags
        /\ Go(j, "starting")
        /\ box' = [box EXCEPT ![j] = "created"]
        /\ UNCHANGED end
     \/ /\ ParentOf[j] # NoJob /\ KeyOf[ParentOf[j]] \notin tags
        /\ Finish(j, "failed")
        /\ UNCHANGED box
     \/ /\ "daemon" \in Faults
        /\ Finish(j, "failed")
        /\ box' \in {box, [box EXCEPT ![j] = "unowned"]}
  /\ UNCHANGED <<overflow, evicted, procVars, rows, tags, excused, asideVars>>

\* start_container; nobody removes a container that does not start.
Start(j) ==
  /\ Live(j)
  /\ at[j] = "starting"
  /\ \/ Go(j, "running") /\ box' = [box EXCEPT ![j] = "up"] /\ UNCHANGED end
     \/ "daemon" \in Faults /\ Finish(j, "failed") /\ box' = [box EXCEPT ![j] = "unowned"]
  /\ UNCHANGED <<overflow, evicted, procVars, rows, tags, excused, asideVars>>

\* (mutant) returns the command's error before it destroys the container
RunAndReturn(j) ==
  /\ Live(j)
  /\ at[j] = "running"
  /\ \/ Go(j, "commit") /\ UNCHANGED end
     \/ Finish(j, "failed")
  /\ UNCHANGED <<overflow, evicted, box, procVars, rows, tags, excused, asideVars>>

\* inject and exec: exit 0 goes on to commit, anything else to clean up.
Run(j) ==
  /\ Live(j)
  /\ at[j] = "running"
  /\ \/ Go(j, "commit") /\ UNCHANGED end
     \/ Go(j, "destroy") /\ end' = [end EXCEPT ![j] = "failed"]
  /\ UNCHANGED <<overflow, evicted, box, procVars, rows, tags, excused, asideVars>>

\* The daemon tags an image nobody will put in the registry, or does not.
TagUntracked(k) ==
  \/ UNCHANGED <<tags, excused>>
  \/ tags' = tags \union {k} /\ excused' = excused \union {k}

\* commit_container: an error may come after the daemon has tagged the image.
Commit(j) ==
  /\ Live(j)
  /\ at[j] = "commit"
  /\ \/ /\ Go(j, "insert")
        /\ end' = [end EXCEPT ![j] = "built"]
        /\ tags' = tags \union {KeyOf[j]}
        /\ UNCHANGED excused
     \/ /\ "daemon" \in Faults
        /\ Go(j, "destroy")
        /\ end' = [end EXCEPT ![j] = "failed"]
        /\ TagUntracked(KeyOf[j])
  /\ UNCHANGED <<overflow, evicted, box, procVars, rows, asideVars>>

-----------------------------------------------------------------------------
(* registry.put: INSERT OR REPLACE in one section, then evict_overflow, which *)
(* counts in a second section and selects and deletes in a third.             *)

Insert(j) ==
  /\ Live(j) /\ MutexFree(j)
  /\ at[j] = "insert"
  /\ rows' = [rows EXCEPT ![File(j)] = Append(Without(@, KeyOf[j]), KeyOf[j])]
  /\ excused' = excused \ {KeyOf[j]}
  /\ Go(j, "count")
  /\ UNCHANGED <<end, overflow, evicted, box, procVars, tags, asideVars>>

\* (mutant) evicts one row early
EarlyOverflow(n) == IF n >= Capacity THEN n + 1 - Capacity ELSE 0

Overflow(n) == IF n > Capacity THEN n - Capacity ELSE 0

Count(j) ==
  /\ Live(j) /\ MutexFree(j)
  /\ at[j] = "count"
  /\ overflow' = [overflow EXCEPT ![j] = Overflow(Len(rows[File(j)]))]
  /\ crowded' = (crowded \/ Len(rows[File(j)]) > Capacity)
  /\ Go(j, IF overflow'[j] = 0 THEN "destroy" ELSE "select")
  /\ UNCHANGED <<end, evicted, box, procVars, rows, tags, excused, disk, cleaner, doomed, displaced>>

\* What a put takes from a registry that has been found too full.
DisplacedBy(j) == IF crowded THEN ToSet(evicted'[j]) ELSE {}

\* (mutant) SELECT in another order than DELETE
SelectNewest(j) ==
  /\ Live(j) /\ MutexFree(j)
  /\ at[j] = "select"
  /\ LET s == rows[File(j)]
         n == Victims(File(j), overflow[j])
     IN evicted' = [evicted EXCEPT ![j] = SubSeq(s, Len(s) - n + 1, Len(s))]
  /\ displaced' = displaced \union DisplacedBy(j)
  /\ Go(j, "delete")
  /\ UNCHANGED <<end, overflow, box, procVars, rows, tags, excused, disk, cleaner, doomed, crowded>>

Select(j) ==
  /\ Live(j) /\ MutexFree(j)
  /\ at[j] = "select"
  /\ evicted' = [evicted EXCEPT ![j] = Oldest(File(j), overflow[j])]
  /\ displaced' = displaced \union DisplacedBy(j)
  /\ Go(j, "delete")
  /\ UNCHANGED <<end, overflow, box, procVars, rows, tags, excused, disk, cleaner, doomed, crowded>>

\* (mutant) forgets the DELETE
DeleteNothing(j) ==
  /\ Live(j)
  /\ at[j] = "delete"
  /\ Go(j, IF evicted[j] = <<>> THEN "destroy" ELSE "remove")
  /\ UNCHANGED <<end, overflow, evicted, box, procVars, rows, tags, excused, asideVars>>

Delete(j) ==
  /\ Live(j)
  /\ at[j] = "delete"
  /\ rows' = [rows EXCEPT ![File(j)] = SubSeq(@, Victims(File(j), overflow[j]) + 1, Len(@))]
  /\ Go(j, IF evicted[j] = <<>> THEN "destroy" ELSE "remove")
  /\ UNCHANGED <<end, overflow, evicted, box, procVars, tags, excused, asideVars>>

\* remove_image: untags, or fails because the tag is gone or the daemon errs.
Untag(k) ==
  \/ k \in tags /\ tags' = tags \ {k} /\ excused' = excused \ {k}
  \/ k \notin tags /\ UNCHANGED <<tags, excused>>
  \/ "daemon" \in Faults /\ excused' = excused \union {k} /\ UNCHANGED tags

\* (mutant) drops the list of what was evicted
ForgetEvicted(j) ==
  /\ Live(j)
  /\ at[j] = "remove"
  /\ evicted' = [evicted EXCEPT ![j] = <<>>]
  /\ Go(j, "destroy")
  /\ UNCHANGED <<end, overflow, box, procVars, rows, tags, excused, asideVars>>

\* The images of the evicted rows go one by one, best effort.
RemoveImage(j) ==
  /\ Live(j)
  /\ at[j] = "remove" /\ evicted[j] # <<>>
  /\ Untag(Head(evicted[j]))
  /\ evicted' = [evicted EXCEPT ![j] = Tail(@)]
  /\ Go(j, IF Len(evicted[j]) = 1 THEN "destroy" ELSE "remove")
  /\ UNCHANGED <<end, overflow, box, procVars, rows, asideVars>>

-----------------------------------------------------------------------------
\* vm.destroy takes the container id first: from here on Drop has nothing to
\* clean up.
Take(j) ==
  /\ Live(j)
  /\ at[j] = "destroy"
  /\ Go(j, "destroying")
  /\ box' = [box EXCEPT ![j] = "taken"]
  /\ UNCHANGED <<end, overflow, evicted, procVars, rows, tags, excused, asideVars>>

\* Its error is ignored, and the job ends as it had.
Destroy(j) ==
  /\ Live(j)
  /\ at[j] = "destroying"
  /\ Go(j, "done")
  /\ \/ box' = [box EXCEPT ![j] = "none"]
     \/ "daemon" \in Faults /\ box' = [box EXCEPT ![j] = "refused"]
  /\ UNCHANGED <<end, overflow, evicted, procVars, rows, tags, excused, asideVars>>

\* A cancellation or the step's timeout drops the future at an await.  A handle
\* that is still whole spawns its clean-up; requests on their way may still be
\* carried out by the daemon; evicted images not yet removed are forgotten.
Drop(j) ==
  /\ "drop" \in Faults
  /\ Live(j)
  /\ at[j] \in Awaits
  /\ Finish(j, "dropped")
  /\ box' \in {[box EXCEPT ![j] = b] : b \in
                 CASE box[j] = "up" -> {"sweep"}
                   [] box[j] = "created" -> {"unowned"}
                   [] box[j] = "taken" -> {"none", "leaked"}
                   [] at[j] = "boot" -> {"none", "unowned"}
                   [] OTHER -> {"none"}}
  /\ \/ at[j] = "commit" /\ TagUntracked(KeyOf[j])
     \/ at[j] = "remove" /\ excused' = excused \union ToSet(evicted[j])
                         /\ tags' \in {tags, tags \ {Head(evicted[j])}}
     \/ at[j] \notin {"commit", "remove"} /\ UNCHANGED <<tags, excused>>
  /\ evicted' = [evicted EXCEPT ![j] = <<>>]
  /\ UNCHANGED <<overflow, procVars, rows, asideVars>>

\* The task DockerVm::drop spawned stops and removes the container.
Sweep(j) ==
  /\ ProcOf[j] \in up
  /\ box[j] = "sweep"
  /\ \/ box' = [box EXCEPT ![j] = "none"]
     \/ "daemon" \in Faults /\ box' = [box EXCEPT ![j] = "refused"]
  /\ UNCHANGED <<at, end, overflow, evicted, procVars, rows, tags, excused, asideVars>>

\* Images a process knows of and no row does: still to be removed or inserted.
Own(p) == {j \in Jobs : ProcOf[j] = p}
OnlyKnownTo(p) ==
  {k \in Keys : \E j \in Own(p) : k \in ToSet(evicted[j]) \/ (at[j] = "insert" /\ KeyOf[j] = k)}

\* Containers that a task of the process is still to remove.
Attended == {"created", "up", "taken", "sweep"}

\* process::exit, at the end of main or on the second Ctrl-C, or a kill: tasks
\* end where they are, the spawned clean-ups among them.
Exit(p) ==
  /\ p \in up
  /\ \/ "kill" \in Faults
     \/ handle[p] \in Files /\ \A j \in Own(p) : at[j] \in {"idle", "done"}
  /\ up' = up \ {p}
  /\ box' = [j \in Jobs |-> IF j \in Own(p) /\ box[j] \in Attended THEN "leaked" ELSE box[j]]
  /\ excused' = excused \union OnlyKnownTo(p)
  /\ UNCHANGED <<at, end, overflow, evicted, handle, rows, tags, asideVars>>

-----------------------------------------------------------------------------
(* hm cache clean: list the rows, remove their images, unlink the file.     *)

List ==
  /\ Cleaning
  /\ cleaner = "idle"
  /\ doomed' = ToSet(rows[disk])
  /\ displaced' = displaced \union doomed'
  /\ cleaner' = "removing"
  /\ UNCHANGED <<jobVars, procVars, rows, disk, tags, excused, crowded>>

CleanOne(k) ==
  /\ cleaner = "removing"
  /\ k \in doomed
  /\ doomed' = doomed \ {k}
  /\ Untag(k)
  /\ UNCHANGED <<jobVars, procVars, rows, disk, cleaner, crowded, displaced>>

\* (mutant) unlinks the file without removing its images
UnlinkAtOnce ==
  /\ cleaner = "removing"
  /\ cleaner' = "done"
  /\ disk' = "second"
  /\ doomed' = {}
  /\ UNCHANGED <<jobVars, procVars, rows, tags, excused, crowded, displaced>>

\* Processes that have the file open keep it; the next one gets a new one.
Unlink ==
  /\ cleaner = "removing"
  /\ doomed = {}
  /\ cleaner' = "done"
  /\ disk' = "second"
  /\ UNCHANGED <<jobVars, procVars, rows, tags, excused, doomed, crowded, displaced>>

AllGone ==
  /\ up = {}
  /\ cleaner # "removing"
  /\ UNCHANGED vars

JobNext(j) ==
  \/ Lookup(j) \/ Probe(j) \/ Invalidate(j) \/ Create(j) \/ Start(j) \/ Run(j) \/ Commit(j)
  \/ Insert(j) \/ Count(j) \/ Select(j) \/ Delete(j) \/ RemoveImage(j)
  \/ Take(j) \/ Destroy(j) \/ Drop(j) \/ Sweep(j)

Next ==
  \/ \E j \in Jobs : JobNext(j)
  \/ \E p \in Procs : Open(p) \/ Exit(p)
  \/ List \/ (\E k \in Keys : CleanOne(k)) \/ Unlink
  \/ AllGone

Spec == Init /\ [][Next]_vars

-----------------------------------------------------------------------------
(* Properties.                                                             *)

TypeOK ==
  /\ at \in [Jobs -> Sections \union Awaits \union {"idle", "destroy", "done"}]
  /\ end \in [Jobs -> {"none", "hit", "built", "failed", "dropped"}]
  /\ overflow \in [Jobs -> Nat]
  /\ evicted \in [Jobs -> Seq(Keys)]
  /\ box \in [Jobs -> {"none", "unowned", "refused", "leaked"} \union Attended]
  /\ handle \in [Procs -> Files \union {"closed"}]
  /\ up \subseteq Procs
  /\ rows \in [Files -> Seq(Keys)]
  /\ disk \in Files
  /\ tags \subseteq Keys /\ excused \subseteq Keys /\ doomed \subseteq Keys
  /\ crowded \in BOOLEAN /\ displaced \subseteq Keys
  /\ cleaner \in {"idle", "removing", "done"}

\* Puts on file f that have inserted their row and not evicted yet, those that
\* died there included.
Putting(f) == {j \in Jobs : File(j) = f /\ at[j] \in {"count", "select", "delete"}}

\* However puts interleave, within a process or across them, a registry file
\* exceeds its capacity by at most one row per put under way (or killed on its
\* way): when none is, it is within its capacity.
WithinCapacity == \A f \in Files : Len(rows[f]) <= Capacity + Cardinality(Putting(f))

\* Somebody answers for the image k: a row of the file f, a job about to insert
\* its row, a job or hm cache clean about to remove it, or a known fault (a drop,
\* a kill, an error of the daemon) that left it behind.
Accounted(k, f) ==
  \/ k \in ToSet(rows[f]) \union excused \union doomed
  \/ \E j \in Jobs : (at[j] = "insert" /\ KeyOf[j] = k) \/ k \in ToSet(evicted[j])

\* No image of the daemon is forgotten on a path that went well: not by the
\* replacement of a row, not by an eviction, not by the end of a job.
ImagesTracked == \A k \in tags : Accounted(k, disk)

\* When hm cache clean has removed the file, the only images nobody answers for
\* are those of builds that had the removed file open.
OnlyRacingBuildsForgotten ==
  cleaner = "done" =>
    \A k \in tags :
      \/ Accounted(k, disk)
      \/ \E j \in Jobs : KeyOf[j] = k /\ at[j] # "idle" /\ File(j) = "first"

\* registry.rs:102, "Returns the SnapshotIds of any entries evicted": put's
\* DELETE removes only rows its SELECT has returned, so that the caller can
\* remove their images.
EvictedAreReturned ==
  [][\A j \in Jobs : at[j] = "delete" /\ at'[j] # "delete" =>
       \A f \in Files : ToSet(rows[f]) \ ToSet(rows'[f]) \subseteq ToSet(evicted[j])]_vars

\* When a child finds its parent's image gone, an eviction from a registry that
\* was found too full has selected it, or hm cache clean has listed it: until
\* the registry overflows the image a step has returned is there, whatever is
\* dropped, killed, refused or rebuilt meanwhile.
ParentsRestorable ==
  \A j \in Jobs : Live(j) /\ at[j] = "boot" /\ ParentOf[j] # NoJob
    => KeyOf[ParentOf[j]] \in tags \union displaced

\* A job that ends on its own, passed or failed, has destroyed its container,
\* unless the daemon refused to remove it; only a container that the daemon
\* created and did not start, whose handle was never made, stays unasked.
BoxesDestroyed ==
  \A j \in Jobs : at[j] = "done" =>
    \/ box[j] \in {"none", "refused"}
    \/ box[j] = "unowned" /\ end[j] = "failed"
    \/ end[j] = "dropped"

-----------------------------------------------------------------------------
(* The inductive invariants behind WithinCapacity and EvictedAreReturned.   *)

\* A job that has begun belongs to a process with an open registry, and one
\* that is about to evict has something to evict.
Underway(j) ==
  /\ at[j] # "idle" => File(j) \in Files
  /\ at[j] \in {"select", "delete"} => overflow[j] # 0

IndInv == TypeOK /\ WithinCapacity /\ \A j \in Jobs : Underway(j)

\* Inside its critical section a job's SELECT is still what DELETE will take.
\* True of the jobs of one process, whose mutex excludes them all.
SelectedStillOldest ==
  \A j \in Jobs : at[j] = "delete" => evicted[j] = Oldest(File(j), overflow[j])

=============================================================================
