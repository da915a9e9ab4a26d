---------------------------- MODULE HmRunProofs ----------------------------
(***************************************************************************)
(* Proofs about hm run, for any number of invocations in a project, any    *)
(* pipelines and any bound on the builds.                                  *)
(***************************************************************************)
EXTENDS HmRun, FiniteSetTheorems, TLAPS

Whys == {"none", "unparsed", "failed", "collision", "overtaken", "missing", "lost", "nowatch",
         "watch", "uncancelled", "killed", "linked"}

RunRec ==
  [pc : Pcs, cloud : BOOLEAN, at : Domains \cup {NoDomain}, pin : Pipes \cup {NoPipe},
   ir : Pipes \cup {NoPipe}, again : BOOLEAN, raced : BOOLEAN, doc : Texts, misread : BOOLEAN,
   told : BOOLEAN, code : Codes, why : Whys]

BuildRec ==
  [by : Runs, number : Nat, ir : Pipes, under : Pipes,
   state : {"running", "passed", "failed", "canceled"}]

Typed ==
  /\ file \in Texts
  /\ user \in Domains \cup {NoDomain}
  /\ remote \in BOOLEAN /\ shaped \in BOOLEAN /\ deleted \in BOOLEAN
  /\ configured \in Pipes \cup {NoPipe}
  /\ pipelines \subseteq [at : Domains, name : Pipes, by : Runs \cup {Discovery}]
  /\ \A k, l \in pipelines : k.at = l.at /\ k.name = l.name => k = l
  /\ builds \subseteq BuildRec /\ IsFiniteSet(builds)
  /\ run \in [Runs -> RunRec]

\* Where a run has a pipeline and is on its way to submit it.
Registering == {"lookup", "create", "read", "truncate", "write"}
Submitting == Registering \cup {"submit", "resolve", "recreate"}
Unsubmitted == Submitting \cup {"idle", "render", "local", "building", "link"}

\* What a run x knows at each place.
KnowsOK(x) ==
  /\ x.pc = "idle" => ~x.misread
  /\ x.pc \in Submitting => x.cloud /\ x.at \in Domains /\ x.ir \in Pipes
  /\ x.pc \in {"idle", "local", "building", "link"} => ~x.cloud
  /\ x.pc = "render" => x.ir = NoPipe /\ (x.cloud => x.at \in Domains)
  /\ x.pc \in Registering => ~remote
  /\ x.pc \in {"resolve", "recreate"} => remote
  /\ x.pc \in {"read", "truncate", "write"} => x.pin \in Pipes
  /\ x.pc = "submit" => remote \/ x.pin \in Pipes
  /\ remote => x.pin \in {NoPipe, x.ir, configured}
  /\ x.pc \in {"create", "recreate"} /\ shaped => x.raced \/ ~Known(x.at, x.ir)
  /\ x.why = "collision" => ~shaped
  /\ x.pc \notin {"drain", "over"} => x.why = "none"
  /\ x.pc = "drain" => x.why \in {"none", "nowatch", "uncancelled"}
  /\ x.pc = "accepted" => x.code = 0

\* How a run x of r stands with its builds.
BuildsOK(r, x) ==
  /\ x.pc \in Unsubmitted => \A b \in builds : b.by # r
  /\ x.pc \in {"accepted", "watch"} => (\E b \in builds : b.by = r) /\ x.cloud
  /\ x.pc \in {"drain", "over"} =>
       /\ x.code = 0 /\ x.cloud =>
            \E b \in builds : b.by = r /\ (b.state = "passed" \/ x.why = "nowatch")
       /\ x.code = UserError => \A b \in builds : b.by # r
       /\ \A b \in builds : b.by = r /\ b.state = "running" =>
            x.why \in {"nowatch", "killed", "lost", "watch", "uncancelled"}
  /\ x.pc = "drain" => x.code # UserError

\* No run has read the config while it was being written.
AllRead == \A q \in Runs : ~run[q].misread

\* The domain that a project without a domain of the user's resolves to.
Home(h) == FirstDomain(h, NoDomain)

\* Nothing else can make a slug unknown.
Steady == ~deleted /\ ~remote /\ user = NoDomain /\ configured = NoPipe

\* The project pins the domain h (or none), and so does everything read of it
\* and written to it.
FileAt(h) ==
  /\ file.text \in {"missing", "docker", "cloud"} => file.domain = h
  /\ Steady /\ file.text = "cloud" /\ file.slug # NoPipe => Known(Home(h), file.slug)

RunAt(h, x) ==
  /\ x.pc \in {"truncate", "write"} => x.doc.text = "cloud" /\ x.doc.domain = h /\ x.doc.slug = x.pin
  /\ Steady /\ x.cloud /\ x.pc \in Submitting \cup {"render"} =>
       x.at = Home(h) /\ (x.pin # NoPipe => Known(x.at, x.pin))

HomeOK ==
  AllRead => \E h \in Domains \cup {NoDomain} : FileAt(h) /\ \A r \in Runs : RunAt(h, run[r])

IInv ==
  /\ Typed
  /\ \A r \in Runs : KnowsOK(run[r]) /\ BuildsOK(r, run[r])
  /\ OneBuildPerRun
  /\ remote => file.slug \in {NoPipe, configured}
  /\ \A b \in builds : remote => b.under \in {b.ir, configured}
  /\ HomeOK
  /\ PersistedSlugResolves

-----------------------------------------------------------------------------
(* One run moves, and perhaps the config file with it.                      *)

LEMMA Moves ==
  ASSUME IInv, NEW r \in Runs, NEW x \in RunRec, Goto(r, x), UNCHANGED <<world, server>>,
         KnowsOK(x), BuildsOK(r, x), run[r].misread => x.misread,
         x.why = "missing" /\ ~remote => deleted \/ ~AllRead \/ user # NoDomain \/ configured # NoPipe,
         file' \in Texts, remote => file'.slug \in {NoPipe, configured},
         \A h \in Domains \cup {NoDomain} :
           FileAt(h) /\ RunAt(h, run[r]) /\ AllRead /\ ~x.misread => FileAt(h)' /\ RunAt(h, x)
  PROVE  IInv'
<1>1. /\ run \in [Runs -> RunRec] /\ run' \in [Runs -> RunRec] /\ run'[r] = x
      /\ \A q \in Runs : q # r => run'[q] = run[q]
      /\ UNCHANGED <<user, remote, shaped, configured, pipelines, builds, deleted>>
  BY DEF IInv, Typed, Goto, world, server
<1>2. Typed'
  BY <1>1 DEF IInv, Typed
<1>3. ASSUME NEW q \in Runs PROVE KnowsOK(run[q])'
  <2>1. KnowsOK(run'[q])
    BY <1>1 DEF IInv
  <2>2. QED
    BY <1>1, <2>1 DEF KnowsOK, Known
<1>4. ASSUME NEW q \in Runs PROVE BuildsOK(q, run[q])'
  <2>1. BuildsOK(q, run'[q])
    BY <1>1 DEF IInv
  <2>2. QED
    BY <1>1, <2>1 DEF BuildsOK
<1>5. AllRead' => AllRead /\ ~x.misread
  BY <1>1 DEF AllRead
<1>6. HomeOK'
  <2>1. SUFFICES ASSUME AllRead'
                 PROVE  \E h \in Domains \cup {NoDomain} : FileAt(h)' /\ \A q \in Runs : RunAt(h, run[q])'
    BY DEF HomeOK
  <2>2. PICK h \in Domains \cup {NoDomain} : FileAt(h) /\ \A q \in Runs : RunAt(h, run[q])
    BY <1>5, <2>1 DEF IInv, HomeOK
  <2>3. FileAt(h)' /\ RunAt(h, x)
    BY <1>5, <2>1, <2>2
  <2>4. ASSUME NEW q \in Runs PROVE RunAt(h, run[q])'
    <3>1. RunAt(h, run'[q])
      BY <1>1, <2>2, <2>3
    <3>2. QED
      BY <1>1, <3>1 DEF RunAt, Known, Steady
  <2>5. QED
    BY <2>3, <2>4
<1>7. PersistedSlugResolves'
  BY <1>1, <1>5 DEF IInv, PersistedSlugResolves, AllRead
<1>8. OneBuildPerRun' /\ (remote => file.slug \in {NoPipe, configured})' /\ (\A b \in builds : remote => b.under \in {b.ir, configured})'
  BY <1>1 DEF IInv, OneBuildPerRun
<1>9. QED
  BY <1>2, <1>3, <1>4, <1>6, <1>7, <1>8 DEF IInv

\* The config file is left as it is.
LEMMA MovesAlone ==
  ASSUME IInv, NEW r \in Runs, NEW x \in RunRec, Goto(r, x), UNCHANGED <<file, world, server>>,
         KnowsOK(x), BuildsOK(r, x), run[r].misread => x.misread,
         x.why = "missing" /\ ~remote => deleted \/ ~AllRead \/ user # NoDomain \/ configured # NoPipe,
         \A h \in Domains \cup {NoDomain} :
           FileAt(h) /\ RunAt(h, run[r]) /\ AllRead /\ ~x.misread => RunAt(h, x)
  PROVE  IInv'
<1>1. file' \in Texts /\ (remote => file'.slug \in {NoPipe, configured})
  BY DEF IInv, Typed
<1>2. \A h : FileAt(h) => FileAt(h)'
  BY DEF FileAt, Known, Steady, world, server
<1>3. QED
  BY <1>1, <1>2, Moves

-----------------------------------------------------------------------------
(* A run that ends.                                                         *)

LEMMA LeftTyped ==
  ASSUME Typed, NEW r \in Runs, NEW code \in Codes, NEW why \in Whys
  PROVE  /\ Left(r, code, why) \in RunRec /\ Left(r, code, why).pc = "over"
         /\ Left(r, code, why).code = code /\ Left(r, code, why).why = why
         /\ Left(r, code, why).misread = run[r].misread
         /\ Left(r, code, why).cloud <=> run[r].cloud /\ code = 0
         /\ Left(r, code, why).pin = NoPipe
<1>1. run[r] \in RunRec
  BY DEF Typed
<1>2. Fresh \in RunRec
  BY DEF Fresh, RunRec, Pcs, Codes, Whys, Texts
<1>3. run[r].misread \in BOOLEAN /\ run[r].cloud \in BOOLEAN
  BY <1>1 DEF RunRec
<1> DEFINE z == run[r].cloud /\ code = 0
<1>4. z \in BOOLEAN /\ Left(r, code, why) =
        [Fresh EXCEPT !.pc = "over", !.code = code, !.why = why, !.misread = run[r].misread, !.cloud = z]
  BY DEF Left
<1>5. z = (run[r].cloud /\ code = 0)
  OBVIOUS
<1> HIDE DEF z
<1>6. "over" \in Pcs /\ Fresh.pin = NoPipe
  BY DEF Pcs, Fresh
<1>7. QED
  BY <1>2, <1>3, <1>4, <1>5, <1>6 DEF RunRec

LEMMA Ends ==
  ASSUME IInv, NEW r \in Runs, NEW code \in Codes, NEW why \in Whys, Exit(r, code, why),
         UNCHANGED <<file, world, server>>, BuildsOK(r, Left(r, code, why)),
         why = "collision" => ~shaped,
         why = "missing" /\ ~remote => deleted \/ ~AllRead \/ user # NoDomain \/ configured # NoPipe
  PROVE  IInv'
<1> DEFINE x == Left(r, code, why)
<1>1. /\ x \in RunRec /\ x.pc = "over" /\ x.why = why /\ x.misread = run[r].misread /\ x.pin = NoPipe
  BY LeftTyped DEF IInv
<1>2. Goto(r, x)
  BY DEF Exit
<1> HIDE DEF x
<1>3. KnowsOK(x)
  BY <1>1 DEF KnowsOK, Submitting, Registering
<1>4. \A h : RunAt(h, x)
  BY <1>1 DEF RunAt, Submitting, Registering
<1>5. BuildsOK(r, x)
  BY DEF x
<1>6. QED
  BY <1>1, <1>2, <1>3, <1>4, <1>5, MovesAlone

\* It has submitted nothing.
LEMMA EndsUnsubmitted ==
  ASSUME IInv, NEW r \in Runs, run[r].pc \in Unsubmitted,
         NEW code \in Codes, NEW why \in Whys, Exit(r, code, why), code # 0 \/ ~run[r].cloud,
         UNCHANGED <<file, world, server>>,
         why = "collision" => ~shaped,
         why = "missing" /\ ~remote => deleted \/ ~AllRead \/ user # NoDomain \/ configured # NoPipe
  PROVE  IInv'
<1>1. \A b \in builds : b.by # r
  BY DEF IInv, BuildsOK
<1>2. BuildsOK(r, Left(r, code, why))
  BY <1>1, LeftTyped DEF IInv, BuildsOK, Unsubmitted, Submitting, Registering
<1>3. QED
  BY <1>2, Ends

LEMMA CodesAre ==
  /\ Failure \in Codes /\ UserError \in Codes /\ Unreachable \in Codes /\ PipelineInvalid \in Codes
  /\ 0 \in Codes /\ 130 \in Codes
  /\ Failure # 0 /\ UserError # 0 /\ Unreachable # 0 /\ PipelineInvalid # 0
  /\ Failure # UserError /\ Unreachable # UserError /\ PipelineInvalid # UserError /\ 130 # UserError
BY DEF Codes, Failure, UserError, Unreachable, PipelineInvalid

LEMMA FailuresKeep ==
  ASSUME IInv, NEW r \in Runs,
         LoadFails(r) \/ SetUpFails(r) \/ RequestFails(r) \/ Collide(r) \/ WriteFails(r)
           \/ SubmitFails(r) \/ Decline(r) \/ LocalFails(r)
  PROVE  IInv'
<1>1. /\ run[r].pc \in Unsubmitted /\ UNCHANGED <<file, world, server>>
      /\ run[r].pc = "recreate" => remote
  BY DEF LoadFails, SetUpFails, RequestFails, Collide, WriteFails, SubmitFails, Decline, LocalFails,
         Unsubmitted, Submitting, Registering, IInv, KnowsOK
<1>2. CASE LoadFails(r)
  BY <1>1, <1>2, EndsUnsubmitted, CodesAre DEF LoadFails, Whys
<1>3. CASE SetUpFails(r)
  BY <1>1, <1>3, EndsUnsubmitted, CodesAre DEF SetUpFails, Whys
<1>4. CASE RequestFails(r)
  BY <1>1, <1>4, EndsUnsubmitted, CodesAre DEF RequestFails, Whys
<1>5. CASE Collide(r)
  <2>1. ~run[r].raced => ~shaped
    BY <1>5 DEF Collide, IInv, KnowsOK
  <2>2. CASE run[r].raced
    BY <1>1, <1>5, <2>2, EndsUnsubmitted, CodesAre DEF Collide, Whys
  <2>3. CASE ~run[r].raced
    BY <1>1, <1>5, <2>1, <2>3, EndsUnsubmitted, CodesAre DEF Collide, Whys
  <2>4. QED
    BY <2>2, <2>3
<1>6. CASE WriteFails(r)
  BY <1>1, <1>6, EndsUnsubmitted, CodesAre DEF WriteFails, Whys
<1>7. CASE SubmitFails(r)
  <2>1. PICK code \in Codes \ {0, 124, 130} : Exit(r, code, "failed")
    BY <1>7 DEF SubmitFails
  <2>2. QED
    BY <1>1, <2>1, EndsUnsubmitted DEF Whys
<1>8. CASE Decline(r)
  BY <1>1, <1>8, EndsUnsubmitted, CodesAre DEF Decline, Whys
<1>9. CASE LocalFails(r)
  BY <1>1, <1>9, EndsUnsubmitted, CodesAre DEF LocalFails, Whys
<1>10. QED
  BY <1>2, <1>3, <1>4, <1>5, <1>6, <1>7, <1>8, <1>9

-----------------------------------------------------------------------------
(* From the config to the submission.                                       *)

LEMMA ResolvedTyped ==
  ASSUME Typed
  PROVE  /\ Resolved.at \in Domains /\ Resolved.pin \in Pipes \cup {NoPipe}
         /\ Resolved.pin # NoPipe => file.text = "cloud" /\ Resolved.pin = file.slug
         /\ user = NoDomain /\ file.text \in {"missing", "docker", "cloud"} /\ file # Torn
              => Resolved.at = Home(file.domain)
<1>1. /\ file.text \in {"missing", "torn", "legacy", "docker", "cloud"}
      /\ file.domain \in Domains \cup {NoDomain} /\ file.slug \in Pipes \cup {NoPipe}
      /\ file.text # "cloud" => file.domain = NoDomain
  BY DEF Typed, Texts, Missing, Torn, Legacy, Docker, Cloud
<1>2. \A d, e \in Domains \cup {NoDomain} : FirstDomain(d, e) \in Domains
  BY DEF FirstDomain, Domains
<1>3. user \in Domains \cup {NoDomain} /\ "default" \in Domains
  BY DEF Typed, Domains
<1>4. CASE file.text = "docker"
  BY <1>1, <1>3, <1>4 DEF Resolved, Home, FirstDomain
<1>5. CASE file.text = "cloud"
  BY <1>1, <1>2, <1>3, <1>5 DEF Resolved, Home
<1>6. CASE file.text \notin {"docker", "cloud"}
  BY <1>1, <1>2, <1>3, <1>6 DEF Resolved, Home
<1>7. QED
  BY <1>4, <1>5, <1>6

LEMMA RunIs ==
  ASSUME IInv, NEW r \in Runs
  PROVE  run[r] \in RunRec /\ KnowsOK(run[r]) /\ BuildsOK(r, run[r]) /\ Typed
BY DEF IInv, Typed

LEMMA FreshIs ==
  /\ Fresh \in RunRec /\ Fresh.pc = "idle" /\ ~Fresh.cloud /\ Fresh.at = NoDomain /\ Fresh.pin = NoPipe
  /\ Fresh.ir = NoPipe /\ ~Fresh.misread /\ Fresh.code = 0 /\ Fresh.why = "none" /\ ~Fresh.told
BY DEF Fresh, RunRec, Pcs, Codes, Whys, Texts

LEMMA LoadKeeps ==
  ASSUME IInv, NEW r \in Runs, Load(r)
  PROVE  IInv'
<1>1. PICK cloud \in BOOLEAN :
        Goto(r, [Fresh EXCEPT !.pc = "render", !.cloud = cloud, !.misread = file = Torn,
                              !.at = IF cloud THEN Resolved.at ELSE NoDomain,
                              !.pin = IF cloud THEN Resolved.pin ELSE NoPipe])
  BY DEF Load
<1> DEFINE torn == file = Torn
           at == IF cloud THEN Resolved.at ELSE NoDomain
           pin == IF cloud THEN Resolved.pin ELSE NoPipe
           x == [Fresh EXCEPT !.pc = "render", !.cloud = cloud, !.misread = torn, !.at = at, !.pin = pin]
<1>2. /\ run[r].pc = "idle" /\ file.text # "legacy" /\ UNCHANGED <<file, world, server>>
      /\ ~run[r].misread /\ Typed
  BY RunIs DEF Load, Parses, KnowsOK
<1>3. /\ torn \in BOOLEAN /\ at \in Domains \cup {NoDomain} /\ pin \in Pipes \cup {NoPipe}
      /\ cloud => at \in Domains
      /\ pin # NoPipe => cloud /\ file.text = "cloud" /\ pin = file.slug
  BY <1>2, ResolvedTyped
<1>4. /\ ~torn => file.text \in {"missing", "docker", "cloud"} /\ file # Torn
      /\ cloud /\ ~torn /\ user = NoDomain => at = Home(file.domain)
  <2>1. ~torn => file.text \in {"missing", "docker", "cloud"}
    BY <1>2 DEF Typed, Texts, Missing, Torn, Legacy, Docker, Cloud
  <2>2. QED
    BY <1>2, <2>1, ResolvedTyped
<1>5. Goto(r, x)
  BY <1>1
<1> HIDE DEF torn, at, pin
<1>6. /\ x \in RunRec /\ x.pc = "render" /\ x.cloud = cloud /\ x.misread = torn /\ x.at = at /\ x.pin = pin
      /\ x.ir = NoPipe /\ x.why = "none" /\ x.code = 0
  <2>1. x \in RunRec
    <3>1. "render" \in Pcs /\ Fresh \in RunRec
      BY FreshIs DEF Pcs
    <3>2. QED
      BY <1>3, <3>1 DEF RunRec
  <2>2. x.pc = "render" /\ x.cloud = cloud /\ x.misread = torn /\ x.at = at /\ x.pin = pin
    BY FreshIs DEF RunRec
  <2>3. x.ir = NoPipe /\ x.why = "none" /\ x.code = 0
    BY FreshIs DEF RunRec
  <2>4. QED
    BY <2>1, <2>2, <2>3
<1> HIDE DEF x
<1>7. KnowsOK(x)
  BY <1>3, <1>6 DEF KnowsOK, IInv, Submitting, Registering
<1>8. BuildsOK(r, x)
  BY <1>2, <1>6, RunIs DEF BuildsOK, Unsubmitted
<1>9. ASSUME NEW h \in Domains \cup {NoDomain}, FileAt(h), ~x.misread PROVE RunAt(h, x)
  BY <1>3, <1>4, <1>6, <1>9 DEF RunAt, FileAt, Steady, Submitting, Registering
<1>10. QED
  BY <1>2, <1>5, <1>6, <1>7, <1>8, <1>9, FreshIs, MovesAlone

LEMMA RenderKeeps ==
  ASSUME IInv, NEW r \in Runs, Render(r)
  PROVE  IInv'
<1>1. /\ run[r].pc = "render" /\ UNCHANGED <<file, world, server>>
      /\ run[r] \in RunRec /\ KnowsOK(run[r]) /\ BuildsOK(r, run[r])
  BY RunIs DEF Render
<1>2. CASE run[r].cloud
  <2>1. PICK p \in Pipes :
          Goto(r, [run[r] EXCEPT !.ir = p, !.pc = IF Registers(r) THEN "lookup" ELSE "submit"])
    BY <1>2 DEF Render
  <2> DEFINE pc == IF Registers(r) THEN "lookup" ELSE "submit"
             x == [run[r] EXCEPT !.ir = p, !.pc = pc]
  <2>2. /\ pc = "lookup" \/ pc = "submit"
        /\ pc = "lookup" => run[r].pin = NoPipe /\ ~remote
        /\ pc = "submit" => run[r].pin # NoPipe \/ remote
    BY <1>2 DEF Registers
  <2>3. Goto(r, x)
    BY <2>1
  <2> HIDE DEF pc
  <2>4. /\ x \in RunRec /\ x.pc = pc /\ x.ir = p
        /\ x.cloud = run[r].cloud /\ x.at = run[r].at /\ x.pin = run[r].pin
        /\ x.misread = run[r].misread /\ x.why = run[r].why /\ x.pin \in Pipes \cup {NoPipe}
    BY <1>1, <2>2 DEF RunRec, Pcs
  <2> HIDE DEF x
  <2>5. remote => run[r].pin \in {NoPipe, configured}
    BY <1>1 DEF KnowsOK
  <2>6. KnowsOK(x)
    BY <1>1, <1>2, <2>2, <2>4, <2>5 DEF KnowsOK, Submitting, Registering
  <2>7. BuildsOK(r, x)
    BY <1>1, <2>2, <2>4 DEF BuildsOK, Unsubmitted, Submitting, Registering
  <2>8. \A h : RunAt(h, run[r]) => RunAt(h, x)
    BY <1>1, <1>2, <2>2, <2>4 DEF RunAt, Submitting, Registering
  <2>9. run[r].why = "none"
    BY <1>1 DEF KnowsOK
  <2>10. QED
    BY <1>1, <2>3, <2>4, <2>6, <2>7, <2>8, <2>9, MovesAlone
<1>3. CASE ~run[r].cloud
  <2> DEFINE x == [run[r] EXCEPT !.pc = "local"]
  <2>1. Goto(r, x)
    BY <1>3 DEF Render, Step
  <2>2. /\ x \in RunRec /\ x.pc = "local" /\ x.ir = run[r].ir
        /\ x.cloud = run[r].cloud /\ x.pin = run[r].pin
        /\ x.misread = run[r].misread /\ x.why = run[r].why
    BY <1>1 DEF RunRec, Pcs
  <2> HIDE DEF x
  <2>3. KnowsOK(x)
    BY <1>1, <1>3, <2>2 DEF KnowsOK, Submitting, Registering
  <2>4. BuildsOK(r, x)
    BY <1>1, <2>2 DEF BuildsOK, Unsubmitted
  <2>5. \A h : RunAt(h, x)
    BY <1>3, <2>2 DEF RunAt
  <2>6. run[r].why = "none"
    BY <1>1 DEF KnowsOK
  <2>7. QED
    BY <1>1, <2>1, <2>2, <2>3, <2>4, <2>5, <2>6, MovesAlone
<1>4. QED
  BY <1>2, <1>3

-----------------------------------------------------------------------------
(* Between the pipeline and its submission.                                 *)

\* A run that registers or submits goes on to another such place, with the
\* pipeline it has or with one that the server knows.
LEMMA Advances ==
  ASSUME IInv, NEW r \in Runs, NEW x \in RunRec, Goto(r, x), UNCHANGED <<file, world, server>>,
         run[r].pc \in Submitting, x.pc \in Submitting \ {"truncate", "write"},
         x.cloud = run[r].cloud, x.at = run[r].at, x.ir = run[r].ir, x.misread = run[r].misread,
         x.why = run[r].why, x.pin = run[r].pin \/ (x.pin = x.ir /\ Known(x.at, x.ir)),
         x.pc \in Registering => ~remote,
         x.pc \in {"resolve", "recreate"} => remote,
         x.pc = "read" => x.pin \in Pipes,
         x.pc = "submit" => x.pin \in Pipes,
         x.pc \in {"create", "recreate"} => x.raced \/ ~Known(x.at, x.ir) \/ ~shaped
  PROVE  IInv'
<1>1. run[r] \in RunRec /\ KnowsOK(run[r]) /\ BuildsOK(r, run[r])
  BY RunIs
<1>2. x.why = "none"
  BY <1>1 DEF KnowsOK, Submitting, Registering
<1>3. KnowsOK(x)
  BY <1>1, <1>2 DEF KnowsOK, Submitting, Registering
<1>4. BuildsOK(r, x)
  BY <1>1 DEF BuildsOK, Unsubmitted, Submitting, Registering
<1>5. \A h : RunAt(h, run[r]) => RunAt(h, x)
  BY <1>1 DEF RunAt, Submitting, Registering
<1>6. QED
  BY <1>1, <1>2, <1>3, <1>4, <1>5, MovesAlone

LEMMA LookupKeeps ==
  ASSUME IInv, NEW r \in Runs, Lookup(r) \/ Resolve(r)
  PROVE  IInv'
<1>1. /\ run[r].pc \in {"lookup", "resolve"} /\ UNCHANGED <<file, world, server>>
      /\ run[r] \in RunRec /\ KnowsOK(run[r])
  BY RunIs DEF Lookup, Resolve
<1>2. /\ run[r].pc = "lookup" => ~remote
      /\ run[r].pc = "resolve" => remote
      /\ run[r].ir \in Pipes
  BY <1>1 DEF KnowsOK, Submitting, Registering
<1>3. CASE Found(r) /\ run[r].pc = "lookup"
  <2> DEFINE x == [run[r] EXCEPT !.pc = "read", !.pin = run[r].ir, !.raced = FALSE]
  <2>1. Goto(r, x)
    BY <1>3 DEF Lookup, Resolve
  <2>2. /\ x \in RunRec /\ x.pc = "read" /\ x.pin = run[r].ir /\ x.ir = run[r].ir /\ x.at = run[r].at
        /\ x.cloud = run[r].cloud /\ x.misread = run[r].misread /\ x.why = run[r].why
    BY <1>1, <1>2 DEF RunRec, Pcs
  <2> HIDE DEF x
  <2>3. QED
    BY <1>1, <1>2, <1>3, <2>1, <2>2, Advances DEF Found, Submitting, Registering
<1>4. CASE Found(r) /\ run[r].pc = "resolve"
  <2> DEFINE x == [run[r] EXCEPT !.pc = "submit", !.pin = run[r].ir, !.raced = FALSE, !.again = TRUE]
  <2>1. Goto(r, x)
    BY <1>4 DEF Lookup, Resolve
  <2>2. /\ x \in RunRec /\ x.pc = "submit" /\ x.pin = run[r].ir /\ x.ir = run[r].ir /\ x.at = run[r].at
        /\ x.cloud = run[r].cloud /\ x.misread = run[r].misread /\ x.why = run[r].why
    BY <1>1, <1>2 DEF RunRec, Pcs
  <2> HIDE DEF x
  <2>3. QED
    BY <1>1, <1>2, <1>4, <2>1, <2>2, Advances DEF Found, Submitting, Registering
<1>5. CASE ~Found(r)
  <2> DEFINE pc == IF run[r].pc = "lookup" THEN "create" ELSE "recreate"
             x == [run[r] EXCEPT !.pc = pc]
  <2>1. Goto(r, x) /\ pc \in {"create", "recreate"} /\ (pc = "create" <=> run[r].pc = "lookup")
    BY <1>1, <1>5 DEF Lookup, Resolve
  <2> HIDE DEF pc
  <2>2. /\ x \in RunRec /\ x.pc = pc /\ x.pin = run[r].pin /\ x.ir = run[r].ir /\ x.at = run[r].at
        /\ x.cloud = run[r].cloud /\ x.misread = run[r].misread /\ x.why = run[r].why
    BY <1>1, <2>1 DEF RunRec, Pcs
  <2> HIDE DEF x
  <2>3. ~shaped \/ ~Known(x.at, x.ir)
    BY <1>5, <2>2 DEF Found
  <2>4. QED
    BY <1>1, <1>2, <2>1, <2>2, <2>3, Advances DEF Submitting, Registering
<1>6. QED
  BY <1>1, <1>3, <1>4, <1>5

LEMMA RefuseKeeps ==
  ASSUME IInv, NEW r \in Runs, Refuse(r)
  PROVE  IInv'
<1>1. /\ run[r].pc = "submit" /\ ~Accepts(r) /\ UNCHANGED <<file, world, server>>
      /\ run[r] \in RunRec /\ KnowsOK(run[r]) /\ Typed
  BY RunIs DEF Refuse
<1>2. CASE IsMissing(r)
  <2> DEFINE x == [run[r] EXCEPT !.pc = "resolve"]
  <2>1. Goto(r, x) /\ remote
    BY <1>2 DEF Refuse, Step, IsMissing
  <2>2. /\ x \in RunRec /\ x.pc = "resolve" /\ x.pin = run[r].pin /\ x.ir = run[r].ir /\ x.at = run[r].at
        /\ x.cloud = run[r].cloud /\ x.misread = run[r].misread /\ x.why = run[r].why
    BY <1>1 DEF RunRec, Pcs
  <2> HIDE DEF x
  <2>3. QED
    BY <1>1, <2>1, <2>2, Advances DEF Submitting, Registering
<1>3. CASE ~IsMissing(r)
  <2>1. Exit(r, PipelineInvalid, "missing")
    BY <1>3 DEF Refuse
  <2>2. ~remote => deleted \/ ~AllRead \/ user # NoDomain \/ configured # NoPipe
    <3>1. SUFFICES ASSUME Steady, AllRead PROVE FALSE
      BY <1>1 DEF Steady, Typed
    <3>2. PICK h \in Domains \cup {NoDomain} : RunAt(h, run[r])
      BY <3>1 DEF IInv, HomeOK
    <3>3. run[r].pin \in Pipes /\ run[r].cloud
      BY <1>1, <3>1 DEF KnowsOK, Steady, Submitting, Registering
    <3>4. Known(run[r].at, run[r].pin)
      BY <1>1, <3>1, <3>2, <3>3, NoPipeIsNone DEF RunAt, Submitting, Registering
    <3>5. QED
      BY <1>1, <3>3, <3>4, NoPipeIsNone DEF Accepts
  <2>3. run[r].pc \in Unsubmitted
    BY <1>1 DEF Unsubmitted, Submitting, Registering
  <2>4. QED
    BY <1>1, <2>1, <2>2, <2>3, EndsUnsubmitted, CodesAre DEF Whys
<1>4. QED
  BY <1>2, <1>3

-----------------------------------------------------------------------------
(* The pipelines of the server.                                             *)

LEMMA Registered ==
  ASSUME IInv, NEW r \in Runs, NEW x \in RunRec, Register(r, x),
         run[r].pc \in {"create", "recreate"}, ~Known(run[r].at, run[r].ir),
         pipelines' = pipelines \cup {[at |-> run[r].at, name |-> run[r].ir, by |-> r]},
         UNCHANGED <<file, world, builds, deleted>>,
         x.misread = run[r].misread, x.why \in {"none", "failed"},
         \/ x.pc \in {"read", "submit"} /\ x.cloud /\ x.at = run[r].at /\ x.ir = run[r].ir /\ x.pin = x.ir
         \/ x.pc = "over" /\ x.pin = NoPipe /\ x.code = Failure,
         x.pc = "read" => run[r].pc = "create",
         x.pc \in {"read", "submit"} => x.why = "none"
  PROVE  IInv'
<1>1. /\ run[r] \in RunRec /\ KnowsOK(run[r]) /\ BuildsOK(r, run[r]) /\ Typed
  BY RunIs
<1>2. run[r].at \in Domains /\ run[r].ir \in Pipes /\ run[r].cloud /\ (run[r].pc = "create" => ~remote)
  BY <1>1 DEF KnowsOK, Submitting, Registering
<1>3. UNCHANGED <<user, remote, shaped, configured, file, builds, deleted>>
  BY DEF world
<1>4. /\ run'[r] = x /\ run' \in [Runs -> RunRec]
      /\ \A q \in Runs : q # r =>
           /\ run'[q] \in RunRec /\ run'[q].pc = run[q].pc /\ run'[q].cloud = run[q].cloud
           /\ run'[q].at = run[q].at /\ run'[q].pin = run[q].pin /\ run'[q].ir = run[q].ir
           /\ run'[q].doc = run[q].doc /\ run'[q].misread = run[q].misread
           /\ run'[q].code = run[q].code /\ run'[q].why = run[q].why
           /\ run'[q].pc \in {"create", "recreate"} => run'[q].raced
  <2> DEFINE y(q) == [run[q] EXCEPT !.raced = @ \/ run[q].pc \in {"lookup", "resolve", "create", "recreate"}]
  <2>1. run' = [q \in Runs |-> IF q = r THEN x ELSE y(q)]
    BY DEF Register
  <2>2. \A q \in Runs : q # r => run'[q] = y(q)
    BY <2>1
  <2>3. ASSUME NEW q \in Runs, q # r
        PROVE  /\ run'[q] \in RunRec /\ run'[q].pc = run[q].pc /\ run'[q].cloud = run[q].cloud
               /\ run'[q].at = run[q].at /\ run'[q].pin = run[q].pin /\ run'[q].ir = run[q].ir
               /\ run'[q].doc = run[q].doc /\ run'[q].misread = run[q].misread
               /\ run'[q].code = run[q].code /\ run'[q].why = run[q].why
               /\ run'[q].pc \in {"create", "recreate"} => run'[q].raced
    <3> DEFINE z == run[q].raced \/ run[q].pc \in {"lookup", "resolve", "create", "recreate"}
    <3>1. run'[q] = [run[q] EXCEPT !.raced = z] /\ z \in BOOLEAN
      BY <2>2, <2>3
    <3>2. /\ run[q] \in RunRec
          /\ run[q].pc \in {"create", "recreate"} => z
      BY <1>1 DEF Typed
    <3> HIDE DEF z, y
    <3>3. QED
      BY <3>1, <3>2 DEF RunRec
  <2> HIDE DEF y
  <2>4. QED
    BY <2>1, <2>3
<1>5. /\ \A at, p : Known(at, p) => Known(at, p)'
      /\ x.pc \in {"read", "submit"} => Known(x.at, x.ir)'
  <2> DEFINE k == [at |-> run[r].at, name |-> run[r].ir, by |-> r]
  <2>1. k \in pipelines' /\ k.at = run[r].at /\ k.name = run[r].ir
    OBVIOUS
  <2> HIDE DEF k
  <2>2. \A at, p : Known(at, p) => Known(at, p)'
    BY DEF Known
  <2>3. x.pc \in {"read", "submit"} => x.at = run[r].at /\ x.ir = run[r].ir
    OBVIOUS
  <2>4. QED
    BY <2>1, <2>2, <2>3 DEF Known
<1>6. Typed'
  <2>1. pipelines' \subseteq [at : Domains, name : Pipes, by : Runs \cup {Discovery}]
    BY <1>1, <1>2 DEF Typed
  <2>2. \A k, l \in pipelines' : k.at = l.at /\ k.name = l.name => k = l
    BY <1>1 DEF Typed, Known
  <2>3. QED
    BY <1>1, <1>3, <1>4, <2>1, <2>2 DEF Typed
<1>7. ASSUME NEW q \in Runs PROVE KnowsOK(run[q])' /\ BuildsOK(q, run[q])'
  <2>1. CASE q = r
    <3>1. remote => x.pin \in {NoPipe, x.ir, configured}
      OBVIOUS
    <3>2. KnowsOK(x)'
      BY <1>1, <1>2, <1>3, <3>1 DEF KnowsOK, Submitting, Registering
    <3>3. BuildsOK(r, x)'
      BY <1>1, <1>3, CodesAre DEF BuildsOK, Unsubmitted, Submitting, Registering
    <3>4. QED
      BY <1>4, <2>1, <3>2, <3>3
  <2>2. CASE q # r
    <3>1. KnowsOK(run[q]) /\ BuildsOK(q, run[q])
      BY RunIs
    <3>2. KnowsOK(run[q])'
      BY <1>3, <1>4, <2>2, <3>1 DEF KnowsOK
    <3>3. BuildsOK(q, run[q])'
      BY <1>3, <1>4, <2>2, <3>1 DEF BuildsOK
    <3>4. QED
      BY <3>2, <3>3
  <2>3. QED
    BY <2>1, <2>2
<1>8. AllRead' => AllRead
  BY <1>4 DEF AllRead
<1>9. HomeOK'
  <2>1. SUFFICES ASSUME AllRead'
                 PROVE  \E h \in Domains \cup {NoDomain} : FileAt(h)' /\ \A q \in Runs : RunAt(h, run[q])'
    BY DEF HomeOK
  <2>2. PICK h \in Domains \cup {NoDomain} : FileAt(h) /\ \A q \in Runs : RunAt(h, run[q])
    BY <1>8, <2>1 DEF IInv, HomeOK
  <2>3. FileAt(h)'
    BY <1>3, <1>5, <2>2 DEF FileAt, Steady
  <2>4. ASSUME NEW q \in Runs PROVE RunAt(h, run[q])'
    <3>1. CASE q = r
      BY <1>1, <1>2, <1>3, <1>4, <1>5, <2>2, <3>1 DEF RunAt, Steady, Submitting, Registering
    <3>2. CASE q # r
      BY <1>3, <1>4, <1>5, <2>2, <3>2 DEF RunAt, Steady
    <3>3. QED
      BY <3>1, <3>2
  <2>5. QED
    BY <2>3, <2>4
<1>10. PersistedSlugResolves'
  <2>1. \A q \in Runs : run'[q].misread = run[q].misread /\ (run'[q].why = "missing" => run[q].why = "missing")
    BY <1>4
  <2>2. QED
    BY <1>3, <2>1 DEF IInv, PersistedSlugResolves
<1>11. OneBuildPerRun' /\ (remote => file.slug \in {NoPipe, configured})' /\ (\A b \in builds : remote => b.under \in {b.ir, configured})'
  BY <1>3 DEF IInv, OneBuildPerRun
<1>12. QED
  BY <1>6, <1>7, <1>9, <1>10, <1>11 DEF IInv

LEMMA CreateKeeps ==
  ASSUME IInv, NEW r \in Runs, Create(r)
  PROVE  IInv'
<1>1. /\ run[r].pc \in {"create", "recreate"} /\ ~Known(run[r].at, run[r].ir)
      /\ pipelines' = pipelines \cup {[at |-> run[r].at, name |-> run[r].ir, by |-> r]}
      /\ UNCHANGED <<file, world, builds, deleted>>
      /\ run[r] \in RunRec /\ KnowsOK(run[r])
  BY RunIs DEF Create
<1>2. run[r].ir \in Pipes /\ run[r].cloud /\ run[r].why = "none"
  BY <1>1 DEF KnowsOK, Submitting, Registering
<1>3. CASE Register(r, Created(r))
  <2> DEFINE x == Created(r)
  <2>1. /\ x \in RunRec /\ x.misread = run[r].misread /\ x.why = "none" /\ x.cloud
        /\ x.at = run[r].at /\ x.ir = run[r].ir /\ x.pin = run[r].ir /\ x.pc \in {"read", "submit"}
        /\ x.pc = "read" => run[r].pc = "create"
    <3>1. CASE run[r].pc = "create"
      BY <1>1, <1>2, <3>1 DEF Created, RunRec, Pcs
    <3>2. CASE run[r].pc # "create"
      BY <1>1, <1>2, <3>2 DEF Created, RunRec, Pcs
    <3>3. QED
      BY <3>1, <3>2
  <2> HIDE DEF x
  <2>2. Register(r, x)
    BY <1>3 DEF x
  <2>3. QED
    BY <1>1, <1>2, <2>1, <2>2, Registered
<1>4. CASE Register(r, Left(r, Failure, "failed"))
  <2> DEFINE x == Left(r, Failure, "failed")
  <2>1. /\ x \in RunRec /\ x.misread = run[r].misread /\ x.why = "failed" /\ x.pc = "over"
        /\ x.pin = NoPipe /\ x.code = Failure
    BY RunIs, LeftTyped, CodesAre DEF Whys
  <2> HIDE DEF x
  <2>2. Register(r, x)
    BY <1>4 DEF x
  <2>3. QED
    BY <1>1, <2>1, <2>2, Registered
<1>5. QED
  BY <1>3, <1>4 DEF Create

LEMMA DeletedKeeps ==
  ASSUME IInv, PipelineDeleted
  PROVE  IInv'
<1>1. /\ pipelines' \subseteq pipelines /\ deleted' = TRUE
      /\ UNCHANGED <<file, user, remote, shaped, configured, builds, run>>
  BY DEF PipelineDeleted, world
<1>2. Typed'
  BY <1>1 DEF IInv, Typed
<1>3. \A at, p : Known(at, p)' => Known(at, p)
  BY <1>1 DEF Known
<1>4. ASSUME NEW q \in Runs PROVE KnowsOK(run[q])' /\ BuildsOK(q, run[q])'
  <2>1. KnowsOK(run[q]) /\ BuildsOK(q, run[q])
    BY RunIs
  <2>2. KnowsOK(run[q])'
    BY <1>1, <1>3, <2>1 DEF KnowsOK
  <2>3. BuildsOK(q, run[q])'
    BY <1>1, <2>1 DEF BuildsOK
  <2>4. QED
    BY <2>2, <2>3
<1>5. HomeOK'
  BY <1>1 DEF IInv, HomeOK, AllRead, FileAt, RunAt, Steady
<1>6. QED
  BY <1>1, <1>2, <1>4, <1>5 DEF IInv, PersistedSlugResolves, OneBuildPerRun

-----------------------------------------------------------------------------
(* The config file.                                                         *)

LEMMA FileIs ==
  ASSUME Typed
  PROVE  /\ file.text \in {"missing", "torn", "legacy", "docker", "cloud"}
         /\ file.domain \in Domains \cup {NoDomain} /\ file.slug \in Pipes \cup {NoPipe}
         /\ file.text # "cloud" => file.domain = NoDomain
         /\ file # Torn /\ file # Legacy => file.text \in {"missing", "docker", "cloud"}
BY DEF Typed, Texts, Missing, Torn, Legacy, Docker, Cloud

LEMMA TornIs ==
  /\ Torn \in Texts /\ Torn.text = "torn" /\ Torn.slug = NoPipe
  /\ Legacy \in Texts /\ Legacy.text = "legacy" /\ Legacy.slug = NoPipe
BY DEF Torn, Legacy, Missing, Texts

LEMMA ReadKeeps ==
  ASSUME IInv, NEW r \in Runs, ReadConfig(r)
  PROVE  IInv'
<1>1. /\ run[r].pc = "read" /\ UNCHANGED <<file, world, server>>
      /\ run[r] \in RunRec /\ KnowsOK(run[r]) /\ BuildsOK(r, run[r]) /\ Typed
  BY RunIs DEF ReadConfig
<1> DEFINE z == run[r].misread \/ file \in {Torn, Legacy}
           d == Persisted(r)
           x == [run[r] EXCEPT !.pc = "truncate", !.doc = d, !.misread = z]
<1>2. Goto(r, x) /\ z \in BOOLEAN
  BY DEF ReadConfig
<1>3. run[r].pin \in Pipes /\ run[r].cloud
  BY <1>1 DEF KnowsOK, Submitting, Registering
<1>4. /\ d \in Texts /\ d.text = "cloud" /\ d.slug = run[r].pin
      /\ file.text \in {"missing", "docker", "cloud"} => d.domain = file.domain
  <2> DEFINE dom == IF file.text = "cloud" THEN file.domain ELSE NoDomain
  <2>1. d = Cloud(dom, run[r].pin) /\ dom \in Domains \cup {NoDomain}
        /\ (file.text \in {"missing", "docker", "cloud"} => dom = file.domain)
    BY <1>1, FileIs DEF Persisted
  <2> HIDE DEF dom, d
  <2>2. QED
    BY <1>3, <2>1 DEF Cloud, Texts
<1>5. ~z => ~run[r].misread /\ file.text \in {"missing", "docker", "cloud"}
  BY <1>1, FileIs
<1>6. run[r].misread => z
  OBVIOUS
<1> HIDE DEF z, d
<1>7. /\ x \in RunRec /\ x.pc = "truncate" /\ x.doc = d /\ x.misread = z /\ x.cloud = run[r].cloud
      /\ x.at = run[r].at /\ x.pin = run[r].pin /\ x.ir = run[r].ir /\ x.why = run[r].why
  BY <1>1, <1>2, <1>4 DEF RunRec, Pcs
<1> HIDE DEF x
<1>8. KnowsOK(x) /\ x.why = "none"
  BY <1>1, <1>7 DEF KnowsOK, Submitting, Registering
<1>9. BuildsOK(r, x)
  BY <1>1, <1>7 DEF BuildsOK, Unsubmitted, Submitting, Registering
<1>10. ASSUME NEW h \in Domains \cup {NoDomain}, FileAt(h), RunAt(h, run[r]), ~x.misread PROVE RunAt(h, x)
  BY <1>1, <1>4, <1>5, <1>7, <1>10 DEF RunAt, FileAt, Submitting, Registering
<1>11. QED
  BY <1>1, <1>2, <1>6, <1>7, <1>8, <1>9, <1>10, MovesAlone

LEMMA TruncateKeeps ==
  ASSUME IInv, NEW r \in Runs, Truncate(r)
  PROVE  IInv'
<1>1. /\ run[r].pc = "truncate" /\ file' = Torn /\ UNCHANGED <<world, server>>
      /\ run[r] \in RunRec /\ KnowsOK(run[r]) /\ BuildsOK(r, run[r])
  BY RunIs DEF Truncate
<1> DEFINE x == [run[r] EXCEPT !.pc = "write"]
<1>2. Goto(r, x)
  BY DEF Truncate, Step
<1>3. /\ x \in RunRec /\ x.pc = "write" /\ x.doc = run[r].doc /\ x.misread = run[r].misread
      /\ x.cloud = run[r].cloud /\ x.at = run[r].at /\ x.pin = run[r].pin /\ x.ir = run[r].ir
      /\ x.why = run[r].why
  BY <1>1 DEF RunRec, Pcs
<1> HIDE DEF x
<1>4. KnowsOK(x) /\ x.why = "none"
  BY <1>1, <1>3 DEF KnowsOK, Submitting, Registering
<1>5. BuildsOK(r, x)
  BY <1>1, <1>3 DEF BuildsOK, Unsubmitted, Submitting, Registering
<1>6. \A h : RunAt(h, run[r]) => RunAt(h, x)
  BY <1>1, <1>3 DEF RunAt, Submitting, Registering
<1>7. \A h : FileAt(h)'
  BY <1>1, TornIs DEF FileAt
<1>8. QED
  BY <1>1, <1>2, <1>3, <1>4, <1>5, <1>6, <1>7, TornIs, Moves

LEMMA WriteKeeps ==
  ASSUME IInv, NEW r \in Runs, Write(r)
  PROVE  IInv'
<1>1. /\ run[r].pc = "write" /\ file' = run[r].doc /\ UNCHANGED <<world, server>>
      /\ run[r] \in RunRec /\ KnowsOK(run[r]) /\ BuildsOK(r, run[r])
  BY RunIs DEF Write
<1> DEFINE x == [run[r] EXCEPT !.pc = "submit", !.doc = Missing]
<1>2. Goto(r, x) /\ Missing \in Texts
  BY DEF Write, Texts
<1>3. /\ x \in RunRec /\ x.pc = "submit" /\ x.misread = run[r].misread
      /\ x.cloud = run[r].cloud /\ x.at = run[r].at /\ x.pin = run[r].pin /\ x.ir = run[r].ir
      /\ x.why = run[r].why
  BY <1>1, <1>2 DEF RunRec, Pcs
<1> HIDE DEF x
<1>4. KnowsOK(x) /\ x.why = "none" /\ ~remote /\ run[r].cloud
  BY <1>1, <1>3 DEF KnowsOK, Submitting, Registering
<1>5. BuildsOK(r, x)
  BY <1>1, <1>3 DEF BuildsOK, Unsubmitted, Submitting, Registering
<1>6. \A h : RunAt(h, run[r]) => RunAt(h, x)
  BY <1>1, <1>3 DEF RunAt, Submitting, Registering
<1>7. ASSUME NEW h \in Domains \cup {NoDomain}, RunAt(h, run[r])
      PROVE  FileAt(h)'
  <2>1. /\ file'.text = "cloud" /\ file'.domain = h /\ file'.slug = run[r].pin
        /\ Steady => run[r].at = Home(h) /\ (run[r].pin # NoPipe => Known(run[r].at, run[r].pin))
    BY <1>1, <1>4, <1>7 DEF RunAt, Submitting, Registering
  <2>2. QED
    BY <1>1, <2>1 DEF FileAt, Steady, Known, world, server
<1>8. file' \in Texts
  BY <1>1 DEF RunRec
<1>9. QED
  BY <1>1, <1>2, <1>3, <1>4, <1>5, <1>6, <1>7, <1>8, Moves

\* hm init: what it leaves no run can have read.
LEMMA LinkKeeps ==
  ASSUME IInv, NEW r \in Runs, LinkTruncates(r) \/ LinkWrites(r)
  PROVE  IInv'
<1>1. /\ run[r].pc \in {"idle", "link"} /\ file' \in {Torn, Legacy} /\ UNCHANGED <<world, server>>
      /\ run[r] \in RunRec /\ KnowsOK(run[r]) /\ BuildsOK(r, run[r]) /\ Typed
  BY RunIs DEF LinkTruncates, LinkWrites
<1>2. /\ file' \in Texts /\ file'.slug = NoPipe
      /\ \A h : FileAt(h)'
  BY <1>1, TornIs DEF FileAt
<1>3. ~run[r].cloud /\ run[r].why = "none" /\ \A b \in builds : b.by # r
  BY <1>1 DEF KnowsOK, BuildsOK, Unsubmitted
<1>4. CASE LinkTruncates(r)
  <2> DEFINE x == [run[r] EXCEPT !.pc = "link"]
  <2>1. Goto(r, x)
    BY <1>4 DEF LinkTruncates, Step
  <2>2. /\ x \in RunRec /\ x.pc = "link" /\ x.misread = run[r].misread /\ x.cloud = run[r].cloud
        /\ x.pin = run[r].pin /\ x.ir = run[r].ir /\ x.why = run[r].why
    BY <1>1 DEF RunRec, Pcs
  <2> HIDE DEF x
  <2>3. KnowsOK(x)
    BY <1>1, <1>3, <2>2 DEF KnowsOK, Submitting, Registering
  <2>4. BuildsOK(r, x)
    BY <1>3, <2>2 DEF BuildsOK, Unsubmitted
  <2>5. \A h : RunAt(h, x)
    BY <1>3, <2>2 DEF RunAt
  <2>6. QED
    BY <1>1, <1>2, <1>3, <2>1, <2>2, <2>3, <2>4, <2>5, Moves
<1>5. CASE LinkWrites(r)
  <2> DEFINE x == Left(r, 0, "linked")
  <2>1. Goto(r, x)
    BY <1>5 DEF LinkWrites, Exit
  <2>2. /\ x \in RunRec /\ x.pc = "over" /\ x.misread = run[r].misread /\ ~x.cloud
        /\ x.pin = NoPipe /\ x.why = "linked" /\ x.code = 0
    <3>1. 0 \in Codes /\ "linked" \in Whys
      BY CodesAre DEF Whys
    <3>2. QED
      BY <1>1, <1>3, <3>1, LeftTyped
  <2> HIDE DEF x
  <2>3. KnowsOK(x)
    BY <2>2 DEF KnowsOK, Submitting, Registering
  <2>4. BuildsOK(r, x)
    BY <1>3, <2>2 DEF BuildsOK, Unsubmitted, Submitting, Registering
  <2>5. \A h : RunAt(h, x)
    BY <2>2 DEF RunAt, Submitting, Registering
  <2>6. QED
    BY <1>1, <1>2, <2>1, <2>2, <2>3, <2>4, <2>5, Moves
<1>6. QED
  BY <1>4, <1>5

-----------------------------------------------------------------------------
(* The builds.                                                              *)

\* A run and its own builds change together.
LEMMA Accounts ==
  ASSUME IInv, NEW r \in Runs, NEW x \in RunRec, Goto(r, x),
         UNCHANGED <<file, world, pipelines, deleted>>, x.pc \in {"accepted", "drain"},
         KnowsOK(x), BuildsOK(r, x)', x.misread = run[r].misread, x.why # "missing",
         builds' \subseteq BuildRec, IsFiniteSet(builds'), OneBuildPerRun',
         remote => \A b \in builds' : b.under \in {b.ir, configured},
         \A b : b.by # r => (b \in builds <=> b \in builds')
  PROVE  IInv'
<1>1. /\ run \in [Runs -> RunRec] /\ run' \in [Runs -> RunRec] /\ run'[r] = x
      /\ \A q \in Runs : q # r => run'[q] = run[q]
      /\ UNCHANGED <<file, user, remote, shaped, configured, pipelines, deleted>>
  BY DEF IInv, Typed, Goto, world
<1>2. Typed'
  BY <1>1 DEF IInv, Typed
<1>3. ASSUME NEW q \in Runs PROVE KnowsOK(run[q])'
  <2>1. KnowsOK(run'[q])
    BY <1>1 DEF IInv
  <2>2. QED
    BY <1>1, <2>1 DEF KnowsOK, Known
<1>4. ASSUME NEW q \in Runs PROVE BuildsOK(q, run[q])'
  <2>1. CASE q = r
    BY <1>1, <2>1
  <2>2. CASE q # r
    <3>1. BuildsOK(q, run[q]) /\ run'[q] = run[q]
      BY <1>1, <2>2, RunIs
    <3>2. \A b : b.by = q => (b \in builds <=> b \in builds')
      BY <2>2
    <3>3. QED
      BY <3>1, <3>2 DEF BuildsOK
  <2>3. QED
    BY <2>1, <2>2
<1>5. AllRead' => AllRead
  BY <1>1 DEF AllRead
<1>6. HomeOK'
  <2>1. SUFFICES ASSUME AllRead'
                 PROVE  \E h \in Domains \cup {NoDomain} : FileAt(h)' /\ \A q \in Runs : RunAt(h, run[q])'
    BY DEF HomeOK
  <2>2. PICK h \in Domains \cup {NoDomain} : FileAt(h) /\ \A q \in Runs : RunAt(h, run[q])
    BY <1>5, <2>1 DEF IInv, HomeOK
  <2>3. FileAt(h)'
    BY <1>1, <2>2 DEF FileAt, Steady, Known
  <2>4. RunAt(h, x)
    BY DEF RunAt, Submitting, Registering
  <2>5. ASSUME NEW q \in Runs PROVE RunAt(h, run[q])'
    <3>1. RunAt(h, run'[q])
      BY <1>1, <2>2, <2>4
    <3>2. QED
      BY <1>1, <3>1 DEF RunAt, Known, Steady
  <2>6. QED
    BY <2>3, <2>5
<1>7. PersistedSlugResolves'
  <2>1. \A q \in Runs : run'[q].misread = run[q].misread /\ (run'[q].why = "missing" => run[q].why = "missing")
    BY <1>1
  <2>2. QED
    BY <1>1, <2>1 DEF IInv, PersistedSlugResolves
<1>8. (remote => file.slug \in {NoPipe, configured})' /\ (\A b \in builds : remote => b.under \in {b.ir, configured})'
  BY <1>1 DEF IInv
<1>9. QED
  BY <1>2, <1>3, <1>4, <1>6, <1>7, <1>8 DEF IInv

LEMMA StartedIs ==
  ASSUME IInv, NEW r \in Runs, NEW pc \in Pcs, Started(r, pc)
  PROVE  \E x \in RunRec :
           /\ Goto(r, x) /\ x.pc = pc /\ x.cloud = run[r].cloud /\ x.misread = run[r].misread
           /\ x.pin = NoPipe /\ x.why = "none" /\ x.code = 0
<1> DEFINE x == [Fresh EXCEPT !.pc = pc, !.cloud = run[r].cloud, !.misread = run[r].misread]
<1>1. Goto(r, x)
  BY DEF Started
<1>2. x \in RunRec /\ x.pc = pc /\ x.cloud = run[r].cloud /\ x.misread = run[r].misread
      /\ x.pin = NoPipe /\ x.why = "none" /\ x.code = 0
  BY RunIs, FreshIs DEF RunRec
<1>3. QED
  BY <1>1, <1>2

LEMMA SubmitKeeps ==
  ASSUME IInv, NEW r \in Runs, Submit(r)
  PROVE  IInv'
<1>1. /\ run[r].pc = "submit" /\ builds' = builds \cup {Build(r)}
      /\ UNCHANGED <<file, world, pipelines, deleted>>
      /\ run[r] \in RunRec /\ KnowsOK(run[r]) /\ BuildsOK(r, run[r]) /\ Typed
  BY RunIs DEF Submit
<1>2. PICK x \in RunRec :
        /\ Goto(r, x) /\ x.pc = "accepted" /\ x.cloud = run[r].cloud /\ x.misread = run[r].misread
        /\ x.pin = NoPipe /\ x.why = "none" /\ x.code = 0
  <2>1. "accepted" \in Pcs /\ Started(r, "accepted")
    BY DEF Submit, Pcs
  <2>2. QED
    BY <2>1, StartedIs
<1>3. /\ run[r].cloud /\ run[r].ir \in Pipes /\ \A b \in builds : b.by # r
      /\ remote => run[r].pin \in {NoPipe, run[r].ir, configured}
  BY <1>1 DEF KnowsOK, BuildsOK, Unsubmitted, Submitting, Registering
<1> DEFINE n == Cardinality({b \in builds : b.by = r}) + 1
           u == IF run[r].pin # NoPipe THEN run[r].pin ELSE run[r].ir
           b0 == Build(r)
<1>4. n \in Nat
  <2>1. IsFiniteSet({b \in builds : b.by = r})
    BY <1>1, FS_Subset DEF Typed
  <2>2. QED
    BY <2>1, FS_CardinalityType
<1>5. u \in Pipes /\ (remote => u \in {run[r].ir, configured})
  BY <1>1, <1>3 DEF RunRec
<1>6. b0 = [by |-> r, number |-> n, ir |-> run[r].ir, under |-> u, state |-> "running"]
  BY DEF Build
<1> HIDE DEF n, u, b0
<1>7. b0 \in BuildRec /\ b0.by = r /\ (remote => b0.under \in {b0.ir, configured})
  BY <1>3, <1>4, <1>5, <1>6 DEF BuildRec
<1>8. builds' = builds \cup {b0}
  BY <1>1 DEF b0
<1>9. /\ builds' \subseteq BuildRec /\ IsFiniteSet(builds') /\ OneBuildPerRun'
      /\ remote => \A b \in builds' : b.under \in {b.ir, configured}
      /\ \A b : b.by # r => (b \in builds <=> b \in builds')
  <2>1. IsFiniteSet(builds')
    BY <1>1, <1>8, FS_AddElement DEF Typed
  <2>2. OneBuildPerRun'
    BY <1>3, <1>7, <1>8 DEF IInv, OneBuildPerRun
  <2>3. QED
    BY <1>1, <1>7, <1>8, <2>1, <2>2 DEF Typed, IInv
<1>10. KnowsOK(x)
  BY <1>2 DEF KnowsOK, Submitting, Registering
<1>11. BuildsOK(r, x)'
  BY <1>2, <1>3, <1>7, <1>8 DEF BuildsOK, Unsubmitted, Submitting, Registering
<1>12. QED
  BY <1>1, <1>2, <1>9, <1>10, <1>11, Accounts

\* A run whose build has started, or is done, comes one place further.
LEMMA GoesOn ==
  ASSUME IInv, NEW r \in Runs, NEW x \in RunRec, Goto(r, x), UNCHANGED <<file, world, server>>,
         x.pc \in {"watch", "building", "drain"}, x.pc = "building" => ~x.cloud,
         x.misread = run[r].misread, remote => x.pin \in {NoPipe, x.ir, configured},
         x.why = "none" \/ (x.pc = "drain" /\ x.why \in {"nowatch", "uncancelled"}),
         BuildsOK(r, x)
  PROVE  IInv'
<1>1. KnowsOK(x)
  BY DEF KnowsOK, Submitting, Registering
<1>2. \A h : RunAt(h, x)
  BY DEF RunAt, Submitting, Registering
<1>3. QED
  BY <1>1, <1>2, MovesAlone

LEMMA WatchKeeps ==
  ASSUME IInv, NEW r \in Runs, Watch(r) \/ NoWatch(r)
  PROVE  IInv'
<1>1. /\ run[r].pc = "accepted" /\ UNCHANGED <<file, world, server>>
      /\ run[r] \in RunRec /\ KnowsOK(run[r]) /\ BuildsOK(r, run[r])
  BY RunIs DEF Watch, NoWatch
<1>2. /\ \E b \in builds : b.by = r
      /\ run[r].cloud /\ run[r].why = "none" /\ (remote => run[r].pin \in {NoPipe, run[r].ir, configured})
  BY <1>1 DEF KnowsOK, BuildsOK
<1>3. CASE Watch(r)
  <2> DEFINE x == [run[r] EXCEPT !.pc = "watch"]
  <2>1. Goto(r, x)
    BY <1>3 DEF Watch, Step
  <2>2. /\ x \in RunRec /\ x.pc = "watch" /\ x.misread = run[r].misread /\ x.cloud
        /\ x.pin = run[r].pin /\ x.ir = run[r].ir /\ x.why = run[r].why
    BY <1>1, <1>2 DEF RunRec, Pcs
  <2> HIDE DEF x
  <2>3. BuildsOK(r, x)
    BY <1>2, <2>2 DEF BuildsOK, Unsubmitted, Submitting, Registering
  <2>4. QED
    BY <1>1, <1>2, <2>1, <2>2, <2>3, GoesOn
<1>4. CASE NoWatch(r)
  <2> DEFINE x == [run[r] EXCEPT !.pc = "drain", !.why = "nowatch"]
  <2>1. Goto(r, x)
    BY <1>4 DEF NoWatch
  <2>2. /\ x \in RunRec /\ x.pc = "drain" /\ x.misread = run[r].misread /\ x.cloud
        /\ x.pin = run[r].pin /\ x.ir = run[r].ir /\ x.why = "nowatch" /\ x.code = run[r].code
    BY <1>1, <1>2 DEF RunRec, Pcs, Whys
  <2> HIDE DEF x
  <2>3. x.code # UserError
    BY <1>1, <2>2, CodesAre DEF KnowsOK
  <2>4. BuildsOK(r, x)
    BY <1>2, <2>2, <2>3 DEF BuildsOK, Unsubmitted, Submitting, Registering
  <2>5. QED
    BY <1>1, <1>2, <2>1, <2>2, <2>4, GoesOn
<1>5. QED
  BY <1>3, <1>4

LEMMA WatchEndsKeeps ==
  ASSUME IInv, NEW r \in Runs, WatchEnds(r)
  PROVE  IInv'
<1>1. /\ run[r].pc = "watch" /\ UNCHANGED <<file, world, server>>
      /\ run[r] \in RunRec /\ KnowsOK(run[r]) /\ Typed
  BY RunIs DEF WatchEnds
<1>2. PICK b \in builds :
        /\ b.by = r /\ b.state # "running"
        /\ Goto(r, [run[r] EXCEPT !.pc = "drain", !.code = Outcome[b.state]])
  BY DEF WatchEnds
<1>3. /\ b.state \in {"passed", "failed", "canceled"}
      /\ \A c \in builds : c.by = r => c = b
  BY <1>1, <1>2 DEF Typed, BuildRec, IInv, OneBuildPerRun
<1> DEFINE code == Outcome[b.state]
           x == [run[r] EXCEPT !.pc = "drain", !.code = code]
<1>4. code \in Codes /\ code # UserError /\ (code = 0 => b.state = "passed")
  BY <1>3 DEF Outcome, Codes, UserError, Failure, Unreachable, PipelineInvalid
<1>5. Goto(r, x)
  BY <1>2
<1> HIDE DEF code
<1>6. /\ x \in RunRec /\ x.pc = "drain" /\ x.misread = run[r].misread
      /\ x.pin = run[r].pin /\ x.ir = run[r].ir /\ x.why = run[r].why /\ x.code = code
  BY <1>1, <1>4 DEF RunRec, Pcs
<1> HIDE DEF x
<1>7. x.why = "none" /\ (remote => x.pin \in {NoPipe, x.ir, configured})
  BY <1>1, <1>6 DEF KnowsOK
<1>8. BuildsOK(r, x)
  BY <1>2, <1>3, <1>4, <1>6 DEF BuildsOK, Unsubmitted, Submitting, Registering
<1>9. QED
  BY <1>1, <1>5, <1>6, <1>7, <1>8, GoesOn

LEMMA LocalKeeps ==
  ASSUME IInv, NEW r \in Runs, LocalStart(r) \/ LocalEnds(r)
  PROVE  IInv'
<1>1. /\ run[r].pc \in {"local", "building"} /\ UNCHANGED <<file, world, server>>
      /\ run[r] \in RunRec /\ KnowsOK(run[r]) /\ BuildsOK(r, run[r])
  BY RunIs DEF LocalStart, LocalEnds
<1>2. /\ \A b \in builds : b.by # r
      /\ ~run[r].cloud /\ run[r].why = "none" /\ (remote => run[r].pin \in {NoPipe, run[r].ir, configured})
  BY <1>1 DEF KnowsOK, BuildsOK, Unsubmitted
<1>3. CASE LocalStart(r)
  <2> DEFINE x == [run[r] EXCEPT !.pc = "building"]
  <2>1. Goto(r, x)
    BY <1>3 DEF LocalStart, Step
  <2>2. /\ x \in RunRec /\ x.pc = "building" /\ x.misread = run[r].misread /\ ~x.cloud
        /\ x.pin = run[r].pin /\ x.ir = run[r].ir /\ x.why = run[r].why
    BY <1>1, <1>2 DEF RunRec, Pcs
  <2> HIDE DEF x
  <2>3. BuildsOK(r, x)
    BY <1>2, <2>2 DEF BuildsOK, Unsubmitted
  <2>4. QED
    BY <1>1, <1>2, <2>1, <2>2, <2>3, GoesOn
<1>4. CASE LocalEnds(r)
  <2>1. PICK code \in {0, 1, 124, 130} : Goto(r, [run[r] EXCEPT !.pc = "drain", !.code = code])
    BY <1>4 DEF LocalEnds
  <2> DEFINE x == [run[r] EXCEPT !.pc = "drain", !.code = code]
  <2>2. Goto(r, x) /\ code \in Codes /\ code # UserError
    BY <2>1 DEF Codes, Failure, UserError
  <2>3. /\ x \in RunRec /\ x.pc = "drain" /\ x.misread = run[r].misread /\ ~x.cloud
        /\ x.pin = run[r].pin /\ x.ir = run[r].ir /\ x.why = run[r].why /\ x.code = code
    BY <1>1, <1>2, <2>2 DEF RunRec, Pcs
  <2> HIDE DEF x
  <2>4. BuildsOK(r, x)
    BY <1>2, <2>2, <2>3 DEF BuildsOK, Unsubmitted, Submitting, Registering
  <2>5. QED
    BY <1>1, <1>2, <2>2, <2>3, <2>4, GoesOn
<1>5. QED
  BY <1>3, <1>4

\* A run ends that has, or had, a build.
LEMMA ExitsKeep ==
  ASSUME IInv, NEW r \in Runs, LoseAnswer(r) \/ WatchFails(r) \/ Drain(r)
  PROVE  IInv'
<1>1. /\ UNCHANGED <<file, world, server>>
      /\ run[r] \in RunRec /\ KnowsOK(run[r]) /\ BuildsOK(r, run[r]) /\ Typed
  BY RunIs DEF LoseAnswer, WatchFails, Drain
<1>2. ASSUME NEW code \in Codes, NEW why \in {"lost", "watch"}, code # 0, code # UserError,
             Exit(r, code, why)
      PROVE  IInv'
  <2>1. why \in Whys
    BY DEF Whys
  <2>2. BuildsOK(r, Left(r, code, why))
    BY <1>1, <1>2, <2>1, LeftTyped DEF BuildsOK, Unsubmitted, Submitting, Registering
  <2>3. QED
    BY <1>1, <1>2, <2>1, <2>2, Ends
<1>3. CASE LoseAnswer(r)
  BY <1>2, <1>3, CodesAre DEF LoseAnswer
<1>4. CASE WatchFails(r)
  BY <1>2, <1>4, CodesAre DEF WatchFails
<1>5. CASE Drain(r)
  <2> DEFINE code == run[r].code
             why == run[r].why
  <2>1. code \in Codes /\ why \in Whys /\ code # UserError /\ why \in {"none", "nowatch", "uncancelled"}
    BY <1>1, <1>5 DEF Drain, RunRec, BuildsOK, KnowsOK
  <2>2. /\ run[r].cloud /\ code = 0 =>
             \E b \in builds : b.by = r /\ (b.state = "passed" \/ why = "nowatch")
        /\ \A b \in builds : b.by = r /\ b.state = "running" =>
             why \in {"nowatch", "killed", "lost", "watch", "uncancelled"}
    BY <1>1, <1>5 DEF Drain, BuildsOK
  <2>3. Exit(r, code, why)
    BY <1>5 DEF Drain
  <2> HIDE DEF code, why
  <2>4. BuildsOK(r, Left(r, code, why))
    BY <1>1, <2>1, <2>2, LeftTyped DEF BuildsOK, Unsubmitted, Submitting, Registering
  <2>5. QED
    BY <1>1, <2>1, <2>3, <2>4, Ends
<1>6. QED
  BY <1>3, <1>4, <1>5

LEMMA InterruptKeeps ==
  ASSUME IInv, NEW r \in Runs, Interrupt(r)
  PROVE  IInv'
<1>1. /\ run[r].pc \notin {"idle", "over"} /\ UNCHANGED <<file, world, server>>
      /\ run[r] \in RunRec /\ KnowsOK(run[r]) /\ BuildsOK(r, run[r]) /\ Typed
  BY RunIs DEF Interrupt
<1>2. CASE run[r].pc \in {"watch", "building", "drain"} /\ ~run[r].told
  <2> DEFINE x == [run[r] EXCEPT !.told = TRUE]
  <2>1. Goto(r, x)
    BY <1>2 DEF Interrupt
  <2>2. /\ x \in RunRec /\ x.pc = run[r].pc /\ x.misread = run[r].misread /\ x.cloud = run[r].cloud
        /\ x.pin = run[r].pin /\ x.ir = run[r].ir /\ x.why = run[r].why /\ x.code = run[r].code
    BY <1>1 DEF RunRec
  <2> HIDE DEF x
  <2>3. BuildsOK(r, x)
    BY <1>1, <2>2 DEF BuildsOK
  <2>4. /\ x.pc = "building" => ~x.cloud
        /\ remote => x.pin \in {NoPipe, x.ir, configured}
        /\ x.why = "none" \/ (x.pc = "drain" /\ x.why \in {"nowatch", "uncancelled"})
    BY <1>1, <1>2, <2>2 DEF KnowsOK
  <2>5. QED
    BY <1>1, <1>2, <2>1, <2>2, <2>3, <2>4, GoesOn
<1>3. CASE Exit(r, 130, "killed")
  <2>1. "killed" \in Whys
    BY DEF Whys
  <2>2. BuildsOK(r, Left(r, 130, "killed"))
    BY <1>1, <2>1, LeftTyped, CodesAre DEF BuildsOK, Unsubmitted, Submitting, Registering
  <2>3. QED
    BY <1>1, <1>3, <2>1, <2>2, CodesAre, Ends
<1>4. QED
  BY <1>2, <1>3 DEF Interrupt

\* The server may have been told, or not.
LEMMA CancelKeeps ==
  ASSUME IInv, NEW r \in Runs, Cancel(r)
  PROVE  IInv'
<1>1. /\ run[r].pc = "watch" /\ UNCHANGED <<file, world, pipelines, deleted>>
      /\ run[r] \in RunRec /\ KnowsOK(run[r]) /\ BuildsOK(r, run[r]) /\ Typed
  BY RunIs DEF Cancel
<1>2. /\ run[r].why = "none" /\ run[r].cloud /\ (remote => run[r].pin \in {NoPipe, run[r].ir, configured})
  BY <1>1 DEF KnowsOK, BuildsOK
<1>3. CASE /\ builds' = Canceled(r)
           /\ Goto(r, [run[r] EXCEPT !.pc = "drain", !.code = 130])
  <2> DEFINE Then(b) == IF b.by = r /\ b.state = "running" THEN [b EXCEPT !.state = "canceled"] ELSE b
  <2>1. builds' = {Then(b) : b \in builds}
    BY <1>3 DEF Canceled
  <2>2. PICK x \in RunRec :
          /\ Goto(r, x) /\ x.pc = "drain" /\ x.misread = run[r].misread
          /\ x.pin = run[r].pin /\ x.ir = run[r].ir /\ x.why = run[r].why /\ x.code = 130
    <3> DEFINE y == [run[r] EXCEPT !.pc = "drain", !.code = 130]
    <3>1. Goto(r, y)
      BY <1>3
    <3>2. /\ y \in RunRec /\ y.pc = "drain" /\ y.misread = run[r].misread
          /\ y.pin = run[r].pin /\ y.ir = run[r].ir /\ y.why = run[r].why /\ y.code = 130
      BY <1>1, CodesAre DEF RunRec, Pcs
    <3>3. QED
      BY <3>1, <3>2
  <2>3. \A b \in builds :
          /\ Then(b) \in BuildRec /\ Then(b).by = b.by /\ Then(b).ir = b.ir /\ Then(b).under = b.under
          /\ b.by = r => Then(b).state # "running"
          /\ b.by # r => Then(b) = b
    <3> SUFFICES ASSUME NEW b \in builds
                 PROVE  /\ Then(b) \in BuildRec /\ Then(b).by = b.by /\ Then(b).ir = b.ir
                        /\ Then(b).under = b.under
                        /\ b.by = r => Then(b).state # "running"
                        /\ b.by # r => Then(b) = b
      OBVIOUS
    <3>1. b \in BuildRec
      BY <1>1 DEF Typed
    <3>2. CASE b.by = r /\ b.state = "running"
      BY <3>1, <3>2 DEF BuildRec
    <3>3. CASE ~(b.by = r /\ b.state = "running")
      BY <3>1, <3>3
    <3>4. QED
      BY <3>2, <3>3
  <2> HIDE DEF Then
  <2>4. IsFiniteSet(builds')
    <3> DEFINE f == [b \in builds |-> Then(b)]
    <3>1. f \in Surjection(builds, builds')
      BY <2>1 DEF Surjection
    <3>2. QED
      BY <1>1, <3>1, FS_Surjection DEF Typed
  <2>5. OneBuildPerRun'
    BY <2>1, <2>3 DEF IInv, OneBuildPerRun
  <2>6. /\ builds' \subseteq BuildRec
        /\ remote => \A b \in builds' : b.under \in {b.ir, configured}
    BY <2>1, <2>3 DEF IInv
  <2>7. \A b : b.by # r => (b \in builds <=> b \in builds')
    BY <2>1, <2>3
  <2>8. KnowsOK(x)
    BY <1>2, <2>2 DEF KnowsOK, Submitting, Registering
  <2>9. \A b \in builds' : b.by = r => b.state # "running"
    BY <2>1, <2>3
  <2>10. BuildsOK(r, x)'
    BY <2>2, <2>9, CodesAre DEF BuildsOK, Unsubmitted, Submitting, Registering
  <2>11. UNCHANGED <<file, world, pipelines, deleted>> /\ x.why # "missing"
    BY <1>1, <1>2, <1>3, <2>2
  <2>12. QED
    BY <2>2, <2>4, <2>5, <2>6, <2>7, <2>8, <2>10, <2>11, Accounts
<1>4. CASE /\ builds' = builds
           /\ Goto(r, [run[r] EXCEPT !.pc = "drain", !.code = 130, !.why = "uncancelled"])
  <2> DEFINE x == [run[r] EXCEPT !.pc = "drain", !.code = 130, !.why = "uncancelled"]
  <2>1. Goto(r, x)
    BY <1>4
  <2>2. /\ x \in RunRec /\ x.pc = "drain" /\ x.misread = run[r].misread
        /\ x.pin = run[r].pin /\ x.ir = run[r].ir /\ x.why = "uncancelled" /\ x.code = 130
    <3>1. "drain" \in Pcs /\ "uncancelled" \in Whys /\ 130 \in Codes /\ run[r] \in RunRec
      BY <1>1, CodesAre DEF Pcs, Whys
    <3>2. x \in RunRec
      BY <3>1 DEF RunRec
    <3>3. QED
      BY <3>1, <3>2 DEF RunRec
  <2> HIDE DEF x
  <2>3. BuildsOK(r, x)
    BY <2>2, CodesAre DEF BuildsOK, Unsubmitted, Submitting, Registering
  <2>4. UNCHANGED <<file, world, server>>
    BY <1>1, <1>4 DEF server
  <2>5. QED
    BY <1>2, <2>1, <2>2, <2>3, <2>4, GoesOn
<1>5. QED
  BY <1>3, <1>4 DEF Cancel

\* A watched build settles.
LEMMA BuildEndsKeeps ==
  ASSUME IInv, BuildEnds
  PROVE  IInv'
<1>1. PICK b \in builds, s \in {"passed", "failed", "canceled"} :
        /\ b.state = "running" /\ run[b.by].pc = "watch"
        /\ builds' = (builds \ {b}) \cup {[b EXCEPT !.state = s]}
  BY DEF BuildEnds
<1> DEFINE c == [b EXCEPT !.state = s]
<1>2. UNCHANGED <<file, user, remote, shaped, configured, pipelines, deleted, run>> /\ Typed
  BY DEF BuildEnds, world, IInv
<1>3. b \in BuildRec
  BY <1>2 DEF Typed
<1>4. /\ c \in BuildRec /\ c.by = b.by /\ c.ir = b.ir /\ c.under = b.under
      /\ builds' = (builds \ {b}) \cup {c} /\ b.by \in Runs
  BY <1>1, <1>3 DEF BuildRec
<1> HIDE DEF c
<1>5. Typed'
  <2>1. IsFiniteSet(builds')
    BY <1>2, <1>4, FS_RemoveElement, FS_AddElement DEF Typed
  <2>2. builds' \subseteq BuildRec
    BY <1>2, <1>4 DEF Typed
  <2>3. QED
    BY <1>2, <2>1, <2>2 DEF Typed
<1>6. ASSUME NEW q \in Runs PROVE BuildsOK(q, run[q])' /\ KnowsOK(run[q])'
  <2>1. BuildsOK(q, run[q]) /\ KnowsOK(run[q])
    BY RunIs
  <2>2. BuildsOK(q, run[q])'
    <3>1. CASE q = b.by
      <4>1. run[q].pc = "watch" /\ run[q].cloud /\ c \in builds' /\ c.by = q
        BY <1>1, <1>4, <2>1, <3>1 DEF BuildsOK
      <4>2. QED
        BY <1>2, <4>1 DEF BuildsOK, Unsubmitted, Submitting, Registering
    <3>2. CASE q # b.by
      <4>1. \A d : d.by = q => (d \in builds <=> d \in builds')
        BY <1>4, <3>2
      <4>2. QED
        BY <1>2, <2>1, <4>1 DEF BuildsOK
    <3>3. QED
      BY <3>1, <3>2
  <2>3. KnowsOK(run[q])'
    BY <1>2, <2>1 DEF KnowsOK, Known
  <2>4. QED
    BY <2>2, <2>3
<1>7. OneBuildPerRun'
  BY <1>1, <1>4 DEF IInv, OneBuildPerRun
<1>8. (\A d \in builds : remote => d.under \in {d.ir, configured})'
  BY <1>1, <1>2, <1>4 DEF IInv
<1>9. HomeOK'
  BY <1>2 DEF IInv, HomeOK, AllRead, FileAt, RunAt, Steady, Known
<1>10. QED
  BY <1>2, <1>5, <1>6, <1>7, <1>8, <1>9 DEF IInv, PersistedSlugResolves

-----------------------------------------------------------------------------
(* Every reachable state.                                                   *)

LEMMA InitKeeps == Init => IInv
<1> SUFFICES ASSUME Init PROVE IInv
  OBVIOUS
<1>1. PICK s \in Setups :
        /\ file = s.file /\ user = s.user /\ remote = s.remote /\ shaped = s.shaped
        /\ configured = s.file.slug
        /\ pipelines = {[at |-> "default", name |-> p, by |-> Discovery] : p \in s.found}
  BY DEF Init
<1>2. builds = {} /\ deleted = FALSE /\ run = [r \in Runs |-> Fresh]
  BY DEF Init
<1>3. /\ s.file \in {Missing, Docker}
                     \cup {Cloud(d, p) : d \in Domains \cup {NoDomain}, p \in Pipes \cup {NoPipe}}
      /\ s.user \in Domains \cup {NoDomain}
      /\ s.remote \in BOOLEAN /\ s.shaped \in BOOLEAN /\ s.found \subseteq Pipes
  BY SetupsAssumption
<1>4. /\ file \in Texts /\ file.slug = configured /\ configured \in Pipes \cup {NoPipe}
      /\ file.domain \in Domains \cup {NoDomain}
  <2>1. CASE s.file \in {Missing, Docker}
    BY <1>1, <2>1 DEF Texts, Missing, Docker, Domains
  <2>2. CASE s.file \in {Cloud(d, p) : d \in Domains \cup {NoDomain}, p \in Pipes \cup {NoPipe}}
    <3>1. PICK d \in Domains \cup {NoDomain}, p \in Pipes \cup {NoPipe} : s.file = Cloud(d, p)
      BY <2>2
    <3>2. Cloud(d, p) \in Texts
      BY DEF Texts
    <3>3. Cloud(d, p).slug = p /\ Cloud(d, p).domain = d
      BY DEF Cloud
    <3>4. QED
      BY <1>1, <3>1, <3>2, <3>3
  <2>3. QED
    BY <1>3, <2>1, <2>2
<1>5. /\ pipelines \subseteq [at : Domains, name : Pipes, by : Runs \cup {Discovery}]
      /\ \A k, l \in pipelines : k.at = l.at /\ k.name = l.name => k = l
  BY <1>1, <1>3 DEF Domains
<1>6. Typed
  <2>1. run \in [Runs -> RunRec] /\ builds \subseteq BuildRec /\ IsFiniteSet(builds) /\ deleted \in BOOLEAN
    BY <1>2, FreshIs, FS_EmptySet
  <2>2. user \in Domains \cup {NoDomain} /\ remote \in BOOLEAN /\ shaped \in BOOLEAN
    BY <1>1, <1>3
  <2>3. QED
    BY <1>4, <1>5, <2>1, <2>2 DEF Typed
<1>7. ASSUME NEW r \in Runs PROVE KnowsOK(run[r]) /\ BuildsOK(r, run[r])
  BY <1>2, FreshIs DEF KnowsOK, BuildsOK, Submitting, Registering
<1>8. FileAt(file.domain) /\ \A r \in Runs : RunAt(file.domain, run[r])
  BY <1>2, <1>4, FreshIs DEF FileAt, RunAt, Steady, Submitting, Registering
<1>9. PersistedSlugResolves /\ OneBuildPerRun
  BY <1>2, FreshIs DEF PersistedSlugResolves, OneBuildPerRun
<1>10. QED
  BY <1>2, <1>4, <1>6, <1>7, <1>8, <1>9 DEF IInv, HomeOK

LEMMA NextKeeps == IInv /\ [Next]_vars => IInv'
<1> SUFFICES ASSUME IInv, [Next]_vars PROVE IInv'
  OBVIOUS
<1>1. ASSUME NEW r \in Runs, Registration(r) PROVE IInv'
  BY <1>1, FailuresKeep, LookupKeeps, CreateKeeps, ReadKeeps, TruncateKeeps, WriteKeeps DEF Registration
<1>2. ASSUME NEW r \in Runs, CloudBuild(r) PROVE IInv'
  BY <1>2, FailuresKeep, SubmitKeeps, RefuseKeeps, ExitsKeep, WatchKeeps, WatchEndsKeeps, CancelKeeps
     DEF CloudBuild
<1>3. ASSUME NEW r \in Runs, LocalBuild(r) PROVE IInv'
  BY <1>3, FailuresKeep, LocalKeeps DEF LocalBuild
<1>4. ASSUME NEW r \in Runs,
             LoadFails(r) \/ Load(r) \/ SetUpFails(r) \/ Render(r) \/ Drain(r) \/ Interrupt(r)
               \/ LinkTruncates(r) \/ LinkWrites(r)
      PROVE  IInv'
  BY <1>4, FailuresKeep, LoadKeeps, RenderKeeps, ExitsKeep, InterruptKeeps, LinkKeeps
<1>5. ASSUME UNCHANGED vars PROVE IInv'
  <2>1. UNCHANGED <<file, user, remote, shaped, configured, pipelines, builds, deleted, run>>
    BY <1>5 DEF vars
  <2>2. Typed' /\ OneBuildPerRun' /\ PersistedSlugResolves'
    BY <2>1 DEF IInv, Typed, OneBuildPerRun, PersistedSlugResolves
  <2>3. ASSUME NEW r \in Runs PROVE KnowsOK(run[r])' /\ BuildsOK(r, run[r])'
    <3>1. KnowsOK(run[r]) /\ BuildsOK(r, run[r])
      BY RunIs
    <3>2. QED
      BY <2>1, <3>1 DEF KnowsOK, BuildsOK, Known
  <2>4. HomeOK'
    BY <2>1 DEF IInv, HomeOK, AllRead, FileAt, RunAt, Steady, Known
  <2>5. QED
    BY <2>1, <2>2, <2>3, <2>4 DEF IInv
<1>6. CASE BuildEnds \/ PipelineDeleted \/ Over
  BY <1>5, <1>6, BuildEndsKeeps, DeletedKeeps DEF Over
<1>7. QED
  BY <1>1, <1>2, <1>3, <1>4, <1>5, <1>6 DEF Next

\* In every reachable state runs, builds, pipelines and the config agree.
THEOREM RunInvariance == Spec => []IInv
<1>1. Init => IInv
  BY InitKeeps
<1>2. IInv /\ [Next]_vars => IInv'
  BY NextKeeps
<1>3. QED
  BY <1>1, <1>2, PTL DEF Spec

\* BuildsAccounted (mod.rs:256): at most one build per invocation, none when
\* the exit code says so, and none goes on without a cause.
THEOREM BuildsAreAccounted == Spec => []BuildsAccounted
<1>1. IInv => BuildsAccounted
  <2> SUFFICES ASSUME IInv PROVE BuildsAccounted
    OBVIOUS
  <2>1. TypeOK
    BY DEF IInv, Typed, TypeOK, RunRec
  <2>2. ASSUME NEW r \in Runs, run[r].pc = "over"
        PROVE  /\ run[r].code = UserError => \A b \in builds : b.by # r
               /\ \A b \in builds : b.by = r /\ b.state = "running" =>
                    run[r].why \in {"nowatch", "killed", "lost", "watch", "uncancelled"}
    BY <2>2, RunIs DEF BuildsOK
  <2>3. SafeToRetry
    BY <2>2 DEF SafeToRetry
  <2>4. \A b \in builds : b.by \in Runs
    BY DEF IInv, Typed, BuildRec
  <2>5. OrphansHaveCause
    BY <2>2, <2>4 DEF OrphansHaveCause
  <2>6. QED
    BY <2>1, <2>3, <2>5 DEF BuildsAccounted, IInv
<1>2. QED
  BY <1>1, RunInvariance, PTL

\* ZeroMeansPassed (backend.rs:173): exit code 0 of a cloud run is a build that
\* passed, or one that was not to be watched.
THEOREM ZeroIsPassed == Spec => []ZeroMeansPassed
<1>1. IInv => ZeroMeansPassed
  BY RunIs DEF ZeroMeansPassed, BuildsOK
<1>2. QED
  BY <1>1, RunInvariance, PTL

\* RegistrationHolds (mod.rs:429): collisions, missing pipelines and the
\* pipeline a build is filed under have the stated causes.
THEOREM RegistrationIsSound == Spec => []RegistrationHolds
<1>1. IInv => RegistrationHolds
  <2> SUFFICES ASSUME IInv PROVE RegistrationHolds
    OBVIOUS
  <2>1. CollisionHasCause
    BY RunIs DEF CollisionHasCause, KnowsOK
  <2>2. FiledUnderOwn /\ PersistedSlugResolves
    BY DEF IInv, FiledUnderOwn
  <2>3. QED
    BY <2>1, <2>2 DEF RegistrationHolds
<1>2. QED
  BY <1>1, RunInvariance, PTL

\* DomainSurvives (mod.rs:403): no registration writes another domain over the
\* one that the project pins, however many run at once.
THEOREM DomainIsKept == Spec => DomainSurvives
<1> DEFINE Keeps ==
      \A r \in Runs : run[r].pc = "truncate" /\ run'[r].pc = "write" /\ file.text = "cloud" =>
        run[r].doc.domain = file.domain \/ \E q \in Runs : run[q].misread
<1>1. IInv => Keeps
  <2> SUFFICES ASSUME IInv, AllRead, NEW r \in Runs, run[r].pc = "truncate", file.text = "cloud"
               PROVE  run[r].doc.domain = file.domain
    BY DEF AllRead
  <2>1. PICK h \in Domains \cup {NoDomain} : FileAt(h) /\ RunAt(h, run[r])
    BY DEF IInv, HomeOK
  <2>2. QED
    BY <2>1 DEF FileAt, RunAt
<1>2. IInv /\ [Next]_vars => [Keeps]_vars
  BY <1>1
<1>3. QED
  BY <1>2, RunInvariance, PTL DEF Spec, DomainSurvives

=============================================================================
