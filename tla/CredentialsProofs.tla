------------------------- MODULE CredentialsProofs -------------------------
(***************************************************************************)
(* Proofs about the stored token, for any number of processes, whichever   *)
(* of them are killed, fail or race.                                       *)
(***************************************************************************)
EXTENDS Credentials, TLAPS

Texts == Procs \cup {Old, "torn", "absent"}
AFile == [text : Texts, owner : BOOLEAN]
AProc == [pc : Pcs, cmd : Commands \cup {"none"}, todo : SUBSET Names, entry : Names,
          raced : BOOLEAN, slept : BOOLEAN, past : BOOLEAN, out : Outs]

Shape ==
  /\ dir \in BOOLEAN
  /\ files \in [Names -> AFile]
  /\ nonce \in [Procs -> {"open", "parked", "claimed"}]
  /\ late \in [Procs -> BOOLEAN]
  /\ proc \in [Procs -> AProc]

\* A file that is gone is Absent, and none is there without the directory.
FilesOK ==
  /\ TokenIsWhole
  /\ \A n \in Names : files[n].text = "absent" => files[n].owner
  /\ \A n \in Names : Present(n) => dir
  /\ \A p \in Procs : ~At(p, "idle") => dir

\* A temporary file is its process's own, and says how far that has come.
TmpOK(p) ==
  /\ proc[p].pc \notin {"write", "rename", "over"} => files[p] = Absent
  /\ At(p, "write") => files[p] = Private("torn")
  /\ At(p, "rename") => files[p] = Private(p)
  /\ At(p, "over") /\ Present(p) =>
       proc[p].out = "killed" \/ (proc[p].out = "unstored" /\ files[p].text = "torn")
  /\ files[p].owner

Inside == {"claim", "sleep", "code", "set", "write", "rename", "clear", "get"}

\* What the walk over the directory has not tightened yet is still before it.
WalkOK(p) ==
  /\ At(p, "walk") => files[TokenFile].owner \/ TokenFile \in proc[p].todo
  /\ At(p, "chmod") => \/ files[TokenFile].owner \/ TokenFile \in proc[p].todo
                       \/ proc[p].entry = TokenFile
  /\ At(p, "chmod") => Present(proc[p].entry) \/ proc[p].raced
  /\ proc[p].pc \in Inside => files[TokenFile].owner

\* How a process ended.
OutOK(p) ==
  /\ ~At(p, "over") => proc[p].out = "none"
  /\ ~At(p, "idle") => proc[p].cmd \in Commands
  /\ proc[p].out = "nostore" => proc[p].raced
  /\ proc[p].out = "stored" /\ ~proc[p].past => files[TokenFile].text = p

\* How a browser login stands with the server.
NonceOK(p) ==
  /\ nonce[p] = "claimed" =>
       \/ proc[p].pc \in {"set", "write", "rename"}
       \/ At(p, "over") /\ proc[p].out \in {"stored", "unstored", "lost", "killed"}
  /\ proc[p].slept => nonce[p] # "open" /\ proc[p].out # "timedout"

IInv == Shape /\ FilesOK /\ \A p \in Procs : TmpOK(p) /\ WalkOK(p) /\ OutOK(p) /\ NonceOK(p)

-----------------------------------------------------------------------------
LEMMA InitHolds == Init => IInv
<1> SUFFICES ASSUME Init PROVE IInv
  OBVIOUS
<1> USE OldIsNobodys, TokenFileIsNoProc, TokensAreWhole
<1>1. PICK t \in {Absent} \cup (IF dir THEN [text : {Old}, owner : BOOLEAN] ELSE {}) :
        files = [n \in Names |-> IF n = TokenFile THEN t ELSE Absent]
  BY DEF Init
<1>2. t \in AFile /\ t.text # "torn" /\ (t # Absent => dir) /\ (t.text = "absent" => t.owner)
  <2>1. CASE t = Absent
    BY <2>1 DEF AFile, Texts, Absent
  <2>2. CASE dir /\ t \in [text : {Old}, owner : BOOLEAN]
    BY <2>2 DEF AFile, Texts
  <2>3. QED
    BY <1>1, <2>1, <2>2
<1>3. Shape
  BY <1>1, <1>2 DEF Init, Shape, Idle, AProc, AFile, Texts, Absent, Names, Pcs, Outs, Commands
<1>4. FilesOK
  BY <1>1, <1>2 DEF Init, FilesOK, TokenIsWhole, Present, At, Idle, Names, Absent
<1>5. ASSUME NEW p \in Procs PROVE TmpOK(p) /\ WalkOK(p) /\ OutOK(p) /\ NonceOK(p)
  BY <1>1, <1>2 DEF Init, TmpOK, WalkOK, OutOK, NonceOK, Inside, At, Idle, Present, Names, Absent
<1>6. QED
  BY <1>3, <1>4, <1>5 DEF IInv

-----------------------------------------------------------------------------
(* A step of one process, as the others see it.                             *)

ProcOK(p) == TmpOK(p) /\ WalkOK(p) /\ OutOK(p) /\ NonceOK(p)

\* Nothing disappears, no mode is loosened, only p's own file is written.
Quiet(p) ==
  /\ \A q \in Procs \ {p} : proc'[q] = proc[q] /\ nonce'[q] = nonce[q] /\ files'[q] = files[q]
  /\ \A n \in Names : Present(n) => Present(n)'
  /\ files[TokenFile].owner => files'[TokenFile].owner
  /\ files'[TokenFile].text = files[TokenFile].text

LEMMA QuietKeeps ==
  ASSUME IInv, NEW p \in Procs, Quiet(p), NEW q \in Procs \ {p}
  PROVE  ProcOK(q)'
<1>1. proc[q] \in AProc /\ proc'[q] = proc[q] /\ nonce'[q] = nonce[q] /\ files'[q] = files[q]
  BY DEF IInv, Shape, Quiet
<1>2. TmpOK(q)'
  BY <1>1 DEF IInv, TmpOK, At, Present
<1>3. WalkOK(q)'
  BY <1>1 DEF IInv, Quiet, WalkOK, At, AProc
<1>4. OutOK(q)' /\ NonceOK(q)'
  BY <1>1 DEF IInv, Quiet, OutOK, NonceOK, At
<1>5. QED
  BY <1>2, <1>3, <1>4 DEF ProcOK

\* A step that is quiet keeps the invariant if it keeps its own process's part.
LEMMA StepKeeps ==
  ASSUME IInv, NEW p \in Procs, NEW rec \in AProc, Goto(p, rec), Quiet(p), ProcOK(p)',
         files' \in [Names -> AFile],
         \A n \in Names : Present(n)' => dir' /\ (files'[n].text = "absent" => files'[n].owner),
         nonce' \in [Procs -> {"open", "parked", "claimed"}], late' \in [Procs -> BOOLEAN],
         dir' \in BOOLEAN, dir => dir', rec.pc # "idle" => dir'
  PROVE  IInv'
<1>1. proc' \in [Procs -> AProc] /\ proc'[p] = rec /\ \A q \in Procs \ {p} : proc'[q] = proc[q]
  BY DEF Goto, IInv, Shape
<1>2. Shape'
  BY <1>1 DEF Shape
<1>3. FilesOK'
  <2>1. TokenIsWhole'
    BY DEF IInv, FilesOK, TokenIsWhole, Quiet
  <2>2. \A q \in Procs : (~At(q, "idle"))' => dir'
    BY <1>1 DEF IInv, FilesOK, At
  <2>3. \A n \in Names : files'[n].text = "absent" => files'[n].owner
    BY DEF Present, Absent
  <2>4. QED
    BY <2>1, <2>2, <2>3 DEF FilesOK
<1>4. \A q \in Procs \ {p} : ProcOK(q)'
  BY QuietKeeps
<1>5. QED
  BY <1>2, <1>3, <1>4 DEF IInv, ProcOK

\* A step that changes no file, and the server's side for its process only.
LEMMA MoveKeeps ==
  ASSUME IInv, NEW p \in Procs, NEW rec \in AProc, Goto(p, rec), UNCHANGED files, ProcOK(p)',
         nonce' \in [Procs -> {"open", "parked", "claimed"}], late' \in [Procs -> BOOLEAN],
         \A q \in Procs \ {p} : nonce'[q] = nonce[q],
         dir' \in BOOLEAN, dir => dir', rec.pc # "idle" => dir'
  PROVE  IInv'
<1>1. Quiet(p)
  BY DEF Quiet, Goto, IInv, Shape, Present
<1>2. files' \in [Names -> AFile]
      /\ \A n \in Names : Present(n)' => dir' /\ (files'[n].text = "absent" => files'[n].owner)
  BY DEF IInv, Shape, FilesOK, Present
<1>3. QED
  BY <1>1, <1>2, StepKeeps

\* How p's record is after such a step.
LEMMA Moved ==
  ASSUME IInv, NEW p \in Procs, NEW rec, Goto(p, rec)
  PROVE  proc[p] \in AProc /\ proc'[p] = rec
BY DEF IInv, Shape, Goto

-----------------------------------------------------------------------------
(* The steps that only move a process.                                      *)

LEMMA ListKeeps == ASSUME IInv, NEW p \in Procs, List(p) PROVE IInv'
<1>1. proc[p] \in AProc /\ At(p, "list") /\ dir /\ UNCHANGED <<dir, files, nonce, late>>
  BY DEF IInv, Shape, FilesOK, List, At, remote
<1>2. PICK seen \in SUBSET Names : {n \in Names : Present(n)} \subseteq seen
          /\ Goto(p, [proc[p] EXCEPT !.pc = "walk", !.todo = seen])
  BY <1>1 DEF List, Step
<1> DEFINE rec == [proc[p] EXCEPT !.pc = "walk", !.todo = seen]
<1>3. rec \in AProc /\ rec.pc = "walk" /\ rec.todo = seen /\ rec.out = proc[p].out /\ rec.slept = proc[p].slept /\ rec.cmd = proc[p].cmd
  BY <1>1, <1>2 DEF IInv, OutOK, At, AProc, Pcs, Outs, Names, Commands, First
<1>4. proc'[p] = rec
  BY <1>2, Moved
<1> HIDE DEF rec
<1>5. ProcOK(p)'
  BY <1>1, <1>2, <1>3, <1>4 DEF IInv, FilesOK, ProcOK, TmpOK, WalkOK, OutOK, NonceOK, At, Present, Absent, Inside, Names
<1>6. QED
  BY <1>1, <1>2, <1>3, <1>5, MoveKeeps DEF rec, IInv, Shape

LEMMA LookKeeps == ASSUME IInv, NEW p \in Procs, Look(p) PROVE IInv'
<1>1. proc[p] \in AProc /\ At(p, "walk") /\ dir /\ UNCHANGED <<dir, files, nonce, late>>
  BY DEF IInv, Shape, FilesOK, Look, At, remote
<1>2. PICK n \in proc[p].todo : Goto(p, [proc[p] EXCEPT !.todo = @ \ {n}, !.entry = n, !.pc = IF Present(n) THEN "chmod" ELSE "walk"])
  BY <1>1 DEF Look, Step
<1> DEFINE rec == [proc[p] EXCEPT !.todo = @ \ {n}, !.entry = n, !.pc = IF Present(n) THEN "chmod" ELSE "walk"]
<1>3. rec \in AProc /\ rec.pc = (IF Present(n) THEN "chmod" ELSE "walk") /\ rec.todo = proc[p].todo \ {n} /\ rec.entry = n
      /\ rec.out = proc[p].out /\ rec.slept = proc[p].slept /\ rec.cmd = proc[p].cmd
  BY <1>1, <1>2 DEF IInv, OutOK, At, AProc, Pcs, Outs, Names, Commands, First
<1>4. proc'[p] = rec
  BY <1>2, Moved
<1> HIDE DEF rec
<1>5. ProcOK(p)'
  BY <1>1, <1>2, <1>3, <1>4 DEF IInv, FilesOK, ProcOK, TmpOK, WalkOK, OutOK, NonceOK, At, Present, Absent, Inside, Names
<1>6. QED
  BY <1>1, <1>2, <1>3, <1>5, MoveKeeps DEF rec, IInv, Shape

LEMMA OpenKeeps == ASSUME IInv, NEW p \in Procs, Open(p) PROVE IInv'
<1>1. proc[p] \in AProc /\ At(p, "walk") /\ proc[p].todo = {} /\ dir /\ UNCHANGED <<dir, files, nonce, late>>
  BY DEF IInv, Shape, FilesOK, Open, At, remote
<1>2. proc[p].cmd \in Commands
  BY <1>1 DEF IInv, OutOK, At
<1>3. First[proc[p].cmd] \in {"claim", "code", "clear", "get"}
  BY <1>2 DEF First, Commands
<1> DEFINE rec == [proc[p] EXCEPT !.pc = First[proc[p].cmd], !.entry = TokenFile]
<1>4. rec \in AProc /\ rec.pc \in {"claim", "code", "clear", "get"}
      /\ rec.out = proc[p].out /\ rec.slept = proc[p].slept /\ rec.cmd = proc[p].cmd
  BY <1>1, <1>3 DEF AProc, Pcs, Names
<1>5. Goto(p, rec) /\ proc'[p] = rec
  BY Moved DEF Open
<1> HIDE DEF rec
<1>6. ProcOK(p)'
  BY <1>1, <1>2, <1>4, <1>5 DEF IInv, FilesOK, ProcOK, TmpOK, WalkOK, OutOK, NonceOK, At, Present, Absent, Inside, Names
<1>7. QED
  BY <1>1, <1>4, <1>5, <1>6, MoveKeeps DEF IInv, Shape

LEMMA WakeKeeps == ASSUME IInv, NEW p \in Procs, Wake(p) PROVE IInv'
<1>1. proc[p] \in AProc /\ At(p, "sleep") /\ dir /\ UNCHANGED <<dir, files, nonce, late>>
  BY DEF IInv, Shape, FilesOK, Wake, At, remote
<1>2. Goto(p, [proc[p] EXCEPT !.pc = "claim"])
  BY <1>1 DEF Wake, Step
<1> DEFINE rec == [proc[p] EXCEPT !.pc = "claim"]
<1>3. rec \in AProc /\ rec.pc = "claim" /\ rec.out = proc[p].out /\ rec.slept = proc[p].slept /\ rec.cmd = proc[p].cmd
  BY <1>1, <1>2 DEF IInv, OutOK, At, AProc, Pcs, Outs, Names, Commands, First
<1>4. proc'[p] = rec
  BY <1>2, Moved
<1> HIDE DEF rec
<1>5. ProcOK(p)'
  BY <1>1, <1>2, <1>3, <1>4 DEF IInv, FilesOK, ProcOK, TmpOK, WalkOK, OutOK, NonceOK, At, Present, Absent, Inside, Names
<1>6. QED
  BY <1>1, <1>2, <1>3, <1>5, MoveKeeps DEF rec, IInv, Shape

LEMMA RedeemKeeps == ASSUME IInv, NEW p \in Procs, Redeem(p) PROVE IInv'
<1>1. proc[p] \in AProc /\ At(p, "code") /\ dir /\ UNCHANGED <<dir, files, nonce, late>>
  BY DEF IInv, Shape, FilesOK, Redeem, At, remote
<1>2. Goto(p, [proc[p] EXCEPT !.pc = "set"])
  BY <1>1 DEF Redeem, Step
<1> DEFINE rec == [proc[p] EXCEPT !.pc = "set"]
<1>3. rec \in AProc /\ rec.pc = "set" /\ rec.out = proc[p].out /\ rec.slept = proc[p].slept /\ rec.cmd = proc[p].cmd
  BY <1>1, <1>2 DEF IInv, OutOK, At, AProc, Pcs, Outs, Names, Commands, First
<1>4. proc'[p] = rec
  BY <1>2, Moved
<1> HIDE DEF rec
<1>5. ProcOK(p)'
  BY <1>1, <1>2, <1>3, <1>4 DEF IInv, FilesOK, ProcOK, TmpOK, WalkOK, OutOK, NonceOK, At, Present, Absent, Inside, Names
<1>6. QED
  BY <1>1, <1>2, <1>3, <1>5, MoveKeeps DEF rec, IInv, Shape

LEMMA MakeDirKeeps == ASSUME IInv, NEW p \in Procs, MakeDir(p) PROVE IInv'
<1>1. proc[p] \in AProc /\ At(p, "idle") /\ dir' = TRUE /\ UNCHANGED <<files, nonce, late>>
  BY DEF IInv, Shape, MakeDir, remote
<1>2. PICK c \in Commands : Goto(p, [proc[p] EXCEPT !.pc = "list", !.cmd = c])
  BY DEF MakeDir
<1> DEFINE rec == [proc[p] EXCEPT !.pc = "list", !.cmd = c]
<1>3. rec \in AProc /\ rec.pc = "list" /\ rec.cmd = c /\ rec.out = proc[p].out /\ rec.slept = proc[p].slept
  BY <1>1 DEF AProc, Pcs
<1>4. proc'[p] = rec
  BY <1>2, Moved
<1> HIDE DEF rec
<1>5. ProcOK(p)'
  BY <1>1, <1>3, <1>4 DEF IInv, FilesOK, ProcOK, TmpOK, WalkOK, OutOK, NonceOK, At, Present, Absent, Inside, Names
<1>6. QED
  BY <1>1, <1>2, <1>3, <1>5, MoveKeeps DEF rec, IInv, Shape

-----------------------------------------------------------------------------
(* The steps that end a process without touching a file.                    *)

LEMMA ExitKeeps ==
  ASSUME IInv, NEW p \in Procs, NEW out \in Outs \ {"none", "stored"}, Exit(p, out),
         UNCHANGED <<dir, files, late>>, ~At(p, "idle"),
         nonce' \in [Procs -> {"open", "parked", "claimed"}],
         \A q \in Procs \ {p} : nonce'[q] = nonce[q],
         nonce[p] # "open" => nonce'[p] # "open",
         nonce'[p] = "claimed" => out \in {"unstored", "lost", "killed"},
         out = "nostore" => proc[p].raced,
         out = "timedout" => ~proc[p].slept,
         Present(p) => out = "killed" \/ (out = "unstored" /\ files[p].text = "torn")
  PROVE  IInv'
<1>1. proc[p] \in AProc /\ dir
  BY DEF IInv, Shape, FilesOK
<1> DEFINE rec == Ended(p, out)
<1>2. rec \in AProc /\ rec.pc = "over" /\ rec.out = out /\ rec.raced = proc[p].raced
      /\ rec.slept = proc[p].slept /\ rec.cmd = proc[p].cmd
  BY <1>1 DEF Ended, AProc, Pcs, Names
<1>3. Goto(p, rec) /\ proc'[p] = rec
  BY Moved DEF Exit
<1> HIDE DEF rec
<1>4. ProcOK(p)'
  <2>1. TmpOK(p)' /\ WalkOK(p)'
    BY <1>2, <1>3 DEF IInv, TmpOK, WalkOK, At, Present, Inside
  <2>2. OutOK(p)'
    BY <1>2, <1>3 DEF IInv, OutOK, At
  <2>3. NonceOK(p)'
    BY <1>2, <1>3 DEF IInv, NonceOK, At
  <2>4. QED
    BY <2>1, <2>2, <2>3 DEF ProcOK
<1>5. QED
  BY <1>1, <1>2, <1>3, <1>4, MoveKeeps DEF IInv, Shape

LEMMA LoginFailsKeeps == ASSUME IInv, NEW p \in Procs, LoginFails(p) PROVE IInv'
<1>1. PICK out \in Outs \ {"none", "stored"} : Exit(p, out) /\ out = "failed"
  BY DEF LoginFails, Outs, IInv, FilesOK, TokenIsWhole
<1>2. proc[p].pc \in {"claim", "code"} /\ UNCHANGED <<dir, files, nonce, late>>
  BY DEF LoginFails, At, remote
<1>3. QED
  BY <1>1, <1>2, ExitKeeps DEF IInv, Shape, TmpOK, NonceOK, At, Present

LEMMA GetKeeps == ASSUME IInv, NEW p \in Procs, Get(p) PROVE IInv'
<1>1. PICK out \in Outs \ {"none", "stored"} : Exit(p, out) /\ out \in {"env", "used", "nologin"}
  BY DEF Get, Outs, IInv, FilesOK, TokenIsWhole
<1>2. At(p, "get") /\ UNCHANGED <<dir, files, nonce, late>>
  BY DEF Get, At, remote
<1>3. QED
  BY <1>1, <1>2, ExitKeeps DEF IInv, Shape, TmpOK, NonceOK, At, Present

LEMMA KillKeeps == ASSUME IInv, NEW p \in Procs, Kill(p) PROVE IInv'
<1>1. PICK out \in Outs \ {"none", "stored"} : Exit(p, out) /\ out = "killed"
  BY DEF Kill, Outs, IInv, FilesOK, TokenIsWhole
<1>2. proc[p].pc \notin {"idle", "over"} /\ UNCHANGED <<dir, files, nonce, late>>
  BY DEF Kill, At, remote
<1>3. QED
  BY <1>1, <1>2, ExitKeeps DEF IInv, Shape, TmpOK, NonceOK, At, Present

-----------------------------------------------------------------------------
(* The login with its server.                                               *)

LEMMA NotParkedYetKeeps == ASSUME IInv, NEW p \in Procs, NotParkedYet(p) PROVE IInv'
<1>1. proc[p] \in AProc /\ At(p, "claim") /\ nonce[p] = "open" /\ dir /\ UNCHANGED <<dir, files, nonce, late>>
  BY DEF IInv, Shape, FilesOK, NotParkedYet, At, remote
<1>2. CASE Exit(p, "timedout")
  BY <1>1, <1>2, ExitKeeps DEF IInv, Shape, TmpOK, NonceOK, At, Present, Outs
<1>3. CASE Step(p, "sleep")
  <2> DEFINE rec == [proc[p] EXCEPT !.pc = "sleep"]
  <2>1. rec \in AProc /\ rec.pc = "sleep" /\ rec.out = proc[p].out /\ rec.slept = proc[p].slept /\ rec.cmd = proc[p].cmd
    BY <1>1 DEF AProc, Pcs
  <2>2. Goto(p, rec) /\ proc'[p] = rec
    BY <1>3, Moved DEF Step
  <2> HIDE DEF rec
  <2>3. ProcOK(p)'
    BY <1>1, <2>1, <2>2 DEF IInv, FilesOK, ProcOK, TmpOK, WalkOK, OutOK, NonceOK, At, Present, Absent, Inside, Names
  <2>4. QED
    BY <1>1, <2>1, <2>2, <2>3, MoveKeeps DEF IInv, Shape
<1>4. QED
  BY <1>2, <1>3 DEF NotParkedYet

LEMMA ClaimKeeps == ASSUME IInv, NEW p \in Procs, Claim(p) PROVE IInv'
<1>1. proc[p] \in AProc /\ At(p, "claim") /\ nonce[p] = "parked" /\ dir /\ UNCHANGED <<dir, files, late>>
      /\ nonce' = [nonce EXCEPT ![p] = "claimed"]
  BY DEF IInv, Shape, FilesOK, Claim, At
<1>2. /\ nonce' \in [Procs -> {"open", "parked", "claimed"}] /\ nonce'[p] = "claimed"
      /\ \A q \in Procs \ {p} : nonce'[q] = nonce[q]
  BY <1>1 DEF IInv, Shape
<1>3. CASE Exit(p, "lost")
  BY <1>1, <1>2, <1>3, ExitKeeps DEF IInv, Shape, TmpOK, At, Present, Outs
<1>4. CASE Step(p, "set")
  <2> DEFINE rec == [proc[p] EXCEPT !.pc = "set"]
  <2>1. rec \in AProc /\ rec.pc = "set" /\ rec.out = proc[p].out /\ rec.slept = proc[p].slept /\ rec.cmd = proc[p].cmd
    BY <1>1 DEF AProc, Pcs
  <2>2. Goto(p, rec) /\ proc'[p] = rec
    BY <1>4, Moved DEF Step
  <2> HIDE DEF rec
  <2>3. ProcOK(p)'
    BY <1>1, <1>2, <2>1, <2>2 DEF IInv, FilesOK, ProcOK, TmpOK, WalkOK, OutOK, NonceOK, At, Present, Absent, Inside, Names
  <2>4. QED
    BY <1>1, <1>2, <2>1, <2>2, <2>3, MoveKeeps DEF IInv, Shape
<1>5. QED
  BY <1>3, <1>4 DEF Claim

LEMMA ParkKeeps == ASSUME IInv, NEW p \in Procs, Park(p) PROVE IInv'
<1>1. proc[p] \in AProc /\ nonce[p] = "open" /\ UNCHANGED <<dir, files, late>>
      /\ nonce' = [nonce EXCEPT ![p] = "parked"]
  BY DEF IInv, Shape, Park
<1>2. /\ nonce' \in [Procs -> {"open", "parked", "claimed"}] /\ nonce'[p] = "parked"
      /\ \A q \in Procs \ {p} : nonce'[q] = nonce[q]
  BY <1>1 DEF IInv, Shape
<1> DEFINE rec == [proc[p] EXCEPT !.slept = At(p, "sleep")]
<1>3. rec.slept = At(p, "sleep")
  BY <1>1 DEF AProc
<1>4. rec \in AProc
  BY <1>1 DEF AProc, At
<1>5. rec.pc = proc[p].pc /\ rec.out = proc[p].out /\ rec.cmd = proc[p].cmd /\ rec.todo = proc[p].todo
      /\ rec.entry = proc[p].entry /\ rec.raced = proc[p].raced /\ rec.past = proc[p].past
  BY <1>1 DEF AProc
<1>6. Goto(p, rec) /\ proc'[p] = rec
  BY Moved DEF Park
<1> HIDE DEF rec
<1>7. ProcOK(p)'
  <2>1. TmpOK(p)' /\ WalkOK(p)'
    BY <1>1, <1>5, <1>6 DEF IInv, TmpOK, WalkOK, At, Present, Inside
  <2>2. OutOK(p)'
    BY <1>1, <1>5, <1>6 DEF IInv, OutOK, At
  <2>3. NonceOK(p)'
    <3>1. At(p, "sleep") => proc[p].out = "none"
      BY DEF IInv, OutOK, At
    <3>2. QED
      BY <1>2, <1>3, <1>5, <1>6, <3>1 DEF NonceOK
  <2>4. QED
    BY <2>1, <2>2, <2>3 DEF ProcOK
<1>8. rec.pc # "idle" => dir
  BY <1>5 DEF IInv, FilesOK, At
<1>9. QED
  BY <1>1, <1>2, <1>4, <1>6, <1>7, <1>8, MoveKeeps DEF IInv, Shape

LEMMA DeadlineKeeps == ASSUME IInv, NEW p \in Procs, Deadline(p) PROVE IInv'
BY DEF Deadline, IInv, Shape, IInv, FilesOK, ProcOK, TmpOK, WalkOK, OutOK, NonceOK, At, Present, Absent, Inside, Names, TokenIsWhole

-----------------------------------------------------------------------------
(* The steps that write a file.                                             *)

LEMMA ChmodKeeps == ASSUME IInv, NEW p \in Procs, Chmod(p) PROVE IInv'
<1> DEFINE e == proc[p].entry
<1>1. proc[p] \in AProc /\ At(p, "chmod") /\ dir /\ UNCHANGED <<dir, nonce, late>>
  BY DEF IInv, Shape, FilesOK, Chmod, At, remote
<1>2. CASE Present(e) /\ files' = [files EXCEPT ![e].owner = TRUE] /\ Step(p, "walk")
  <2>1. e \in Names /\ files \in [Names -> AFile]
    BY <1>1 DEF AProc, IInv, Shape
  <2>2. files' = [files EXCEPT ![e] = [files[e] EXCEPT !.owner = TRUE]]
    BY <1>2, <2>1
  <2>3. [files[e] EXCEPT !.owner = TRUE] \in AFile
        /\ [files[e] EXCEPT !.owner = TRUE].text = files[e].text
        /\ [files[e] EXCEPT !.owner = TRUE].owner = TRUE
    BY <2>1 DEF AFile
  <2>4. /\ files' \in [Names -> AFile]
        /\ files'[e].text = files[e].text /\ files'[e].owner
        /\ \A n \in Names \ {e} : files'[n] = files[n]
    BY <2>1, <2>2, <2>3
  <2>5. \A q \in Procs : files'[q] = files[q]
    <3> SUFFICES ASSUME NEW q \in Procs, q = e PROVE files'[q] = files[q]
      BY <2>4 DEF Names
    <3>1. files[q] \in AFile /\ files'[q] \in AFile /\ files[q].owner /\ files'[q].owner
          /\ files'[q].text = files[q].text
      BY <2>1, <2>4 DEF IInv, TmpOK, Names
    <3>2. QED
      BY <3>1 DEF AFile
  <2>6. \A n \in Names : Present(n)' <=> Present(n)
    <3> SUFFICES ASSUME NEW n \in Names, n = e PROVE Present(n)' <=> Present(n)
      BY <2>4 DEF Present
    <3>1. files[n].text = "absent" => files[n] = Absent
      BY <2>1 DEF IInv, FilesOK, AFile, Absent
    <3>2. files[n].text # "absent"
      BY <1>2, <3>1 DEF Present
    <3>3. QED
      BY <1>2, <2>4, <3>2 DEF Present, Absent
  <2> DEFINE rec == [proc[p] EXCEPT !.pc = "walk"]
  <2>7. rec \in AProc /\ rec.pc = "walk" /\ rec.out = proc[p].out /\ rec.slept = proc[p].slept
        /\ rec.cmd = proc[p].cmd /\ rec.todo = proc[p].todo
    BY <1>1 DEF AProc, Pcs
  <2>8. Goto(p, rec) /\ proc'[p] = rec
    BY <1>2, Moved DEF Step
  <2>9. Quiet(p)
    BY <1>1, <2>4, <2>5, <2>6, <2>8 DEF Quiet, Goto, IInv, Shape, Names
  <2> HIDE DEF rec
  <2>10. ProcOK(p)'
    <3>1. TmpOK(p)'
      BY <1>1, <2>5, <2>6, <2>7, <2>8 DEF IInv, TmpOK, At, Present
    <3>2. WalkOK(p)'
      BY <1>1, <2>4, <2>7, <2>8 DEF IInv, WalkOK, At, Inside, Names
    <3>3. OutOK(p)' /\ NonceOK(p)'
      BY <1>1, <2>4, <2>7, <2>8 DEF IInv, OutOK, NonceOK, At
    <3>4. QED
      BY <3>1, <3>2, <3>3 DEF ProcOK
  <2>11. \A n \in Names : Present(n)' => dir' /\ (files'[n].text = "absent" => files'[n].owner)
    BY <1>1, <2>4 DEF IInv, FilesOK
  <2>12. QED
    BY <1>1, <2>4, <2>7, <2>8, <2>9, <2>10, <2>11, StepKeeps DEF IInv, Shape
<1>3. CASE ~Present(e) /\ Exit(p, "nostore") /\ UNCHANGED files
  BY <1>1, <1>3, ExitKeeps DEF IInv, Shape, TmpOK, WalkOK, NonceOK, At, Present, Outs
<1>4. QED
  BY <1>2, <1>3 DEF Chmod

\* Truncating and writing: p's own file, from one stage to the next.
LEMMA TmpKeeps ==
  ASSUME IInv, NEW p \in Procs, NEW text \in Texts \ {"absent"}, NEW pc \in {"write", "rename"},
         files' = [files EXCEPT ![p] = Private(text)], Step(p, pc), UNCHANGED <<dir, nonce, late>>,
         proc[p].pc \in {"set", "write"},
         text = IF pc = "write" THEN "torn" ELSE p
  PROVE  IInv'
<1> USE TokenFileIsNoProc, TokensAreWhole
<1>1. proc[p] \in AProc /\ dir
  BY DEF IInv, Shape, FilesOK, At
<1>2. files \in [Names -> AFile] /\ p \in Names /\ p # TokenFile /\ Private(text) \in AFile
      /\ Private(text).owner /\ Private(text).text = text /\ Private(text) # Absent
  BY DEF IInv, Shape, Names, Private, AFile, Absent
<1>3. files' \in [Names -> AFile] /\ files'[p] = Private(text) /\ \A n \in Names \ {p} : files'[n] = files[n]
  BY <1>2
<1> DEFINE rec == [proc[p] EXCEPT !.pc = pc]
<1>4. rec \in AProc /\ rec.pc = pc /\ rec.out = proc[p].out /\ rec.slept = proc[p].slept /\ rec.cmd = proc[p].cmd
  BY <1>1 DEF AProc, Pcs
<1>5. Goto(p, rec) /\ proc'[p] = rec
  BY Moved DEF Step
<1>6. Quiet(p)
  BY <1>2, <1>3, <1>5 DEF Quiet, Goto, IInv, Shape, Names, Present
<1> HIDE DEF rec
<1>7. ProcOK(p)'
  <2>1. TmpOK(p)'
    BY <1>2, <1>3, <1>4, <1>5 DEF TmpOK, At, Private
  <2>2. WalkOK(p)'
    BY <1>2, <1>3, <1>4, <1>5 DEF IInv, WalkOK, At, Inside, Names
  <2>3. OutOK(p)' /\ NonceOK(p)'
    BY <1>2, <1>3, <1>4, <1>5 DEF IInv, OutOK, NonceOK, At, Names
  <2>4. QED
    BY <2>1, <2>2, <2>3 DEF ProcOK
<1>8. \A n \in Names : Present(n)' => dir' /\ (files'[n].text = "absent" => files'[n].owner)
  BY <1>1, <1>2, <1>3 DEF IInv, FilesOK, Present
<1>9. QED
  BY <1>1, <1>3, <1>4, <1>5, <1>6, <1>7, <1>8, StepKeeps DEF IInv, Shape

LEMMA WritingKeeps == ASSUME IInv, NEW p \in Procs, Truncate(p) \/ Write(p) PROVE IInv'
<1> USE TokensAreWhole
<1>1. UNCHANGED <<dir, nonce, late>> /\ proc[p].pc \in {"set", "write"}
  BY DEF Truncate, Write, At, remote
<1>2. CASE files' = [files EXCEPT ![p] = Private("torn")] /\ Step(p, "write")
  BY <1>1, <1>2, TmpKeeps DEF Texts
<1>3. CASE files' = [files EXCEPT ![p] = Private(p)] /\ Step(p, "rename")
  BY <1>1, <1>3, TmpKeeps DEF Texts
<1>4. CASE Exit(p, "unstored") /\ UNCHANGED files
  <2>1. Present(p) => files[p].text = "torn"
    <3>1. TmpOK(p)
      BY DEF IInv
    <3>2. CASE proc[p].pc = "set"
      BY <3>1, <3>2 DEF TmpOK, At, Present
    <3>3. CASE proc[p].pc = "write"
      <4>1. files[p] = Private("torn")
        BY <3>1, <3>3 DEF TmpOK, At
      <4>2. QED
        BY <4>1 DEF Private
    <3>4. QED
      BY <1>1, <3>2, <3>3
  <2>2. "unstored" \in Outs \ {"none", "stored"} /\ ~At(p, "idle")
    BY <1>1 DEF Outs, At
  <2>3. nonce' = nonce /\ nonce \in [Procs -> {"open", "parked", "claimed"}]
    BY <1>1 DEF IInv, Shape
  <2>4. QED
    BY <1>1, <1>4, <2>1, <2>2, <2>3, ExitKeeps
<1>5. QED
  BY <1>2, <1>3, <1>4 DEF Truncate, Write, Tmp, Unstored, Exit

\* Replacing or removing files: the token stays whole and its owner's if it was,
\* and p's own temporary file goes with it.
LEMMA DisturbKeeps ==
  ASSUME IInv, NEW p \in Procs, NEW rec \in AProc, Disturb(p, rec), UNCHANGED <<dir, nonce, late>>,
         files' \in [Names -> AFile],
         \A q \in Procs \ {p} : files'[q] = files[q],
         files'[TokenFile].text # "torn", files'[TokenFile].owner,
         \A n \in Names : Present(n)' => dir,
         \A n \in Names : files'[n].text = "absent" => files'[n].owner,
         dir, ProcOK(p)'
  PROVE  IInv'
<1>1. /\ proc \in [Procs -> AProc] /\ TokenFile \in Names
      /\ \A q \in Procs : q \in Names
  BY DEF IInv, Shape, Names
<1>2. proc'[p] = rec /\ DOMAIN proc' = Procs
  BY DEF Disturb
<1>3. ASSUME NEW q \in Procs \ {p}
      PROVE  /\ proc'[q] \in AProc
             /\ proc'[q].pc = proc[q].pc /\ proc'[q].cmd = proc[q].cmd /\ proc'[q].out = proc[q].out
             /\ proc'[q].todo = proc[q].todo /\ proc'[q].entry = proc[q].entry
             /\ proc'[q].slept = proc[q].slept
             /\ proc[q].raced \/ proc[q].pc \in {"walk", "chmod"} => proc'[q].raced
             /\ proc[q].out = "stored" => proc'[q].past
  <2>1. proc[q] \in AProc
    BY <1>1
  <2>2. proc'[q] = [proc[q] EXCEPT !.raced = @ \/ proc[q].pc \in {"walk", "chmod"},
                                   !.past = @ \/ proc[q].out = "stored"]
    BY DEF Disturb
  <2>3. QED
    BY <2>1, <2>2 DEF AProc
<1>4. Shape'
  <2>1. proc' = [q \in Procs |-> proc'[q]]
    BY DEF Disturb
  <2>2. \A q \in Procs : proc'[q] \in AProc
    BY <1>2, <1>3
  <2>3. proc' \in [Procs -> AProc]
    BY <2>1, <2>2
  <2>4. QED
    BY <2>3 DEF IInv, Shape
<1>5. FilesOK'
  BY DEF FilesOK, TokenIsWhole
<1>6. ASSUME NEW q \in Procs \ {p} PROVE ProcOK(q)'
  <2>1. TmpOK(q)'
    BY <1>3 DEF IInv, TmpOK, At, Present
  <2>2. WalkOK(q)'
    BY <1>3 DEF WalkOK, At
  <2>3. OutOK(q)'
    BY <1>3 DEF IInv, OutOK, At
  <2>4. NonceOK(q)'
    BY <1>3 DEF IInv, NonceOK, At
  <2>5. QED
    BY <2>1, <2>2, <2>3, <2>4 DEF ProcOK
<1>7. QED
  BY <1>4, <1>5, <1>6 DEF IInv, ProcOK

\* The record of a process that ends with this step.
LEMMA EndedIs ==
  ASSUME NEW p \in Procs, NEW out \in Outs, proc[p] \in AProc
  PROVE  /\ Ended(p, out) \in AProc
         /\ Ended(p, out).pc = "over" /\ Ended(p, out).out = out
         /\ Ended(p, out).slept = proc[p].slept /\ Ended(p, out).cmd = proc[p].cmd
         /\ Ended(p, out).past = proc[p].past /\ Ended(p, out).raced = proc[p].raced
BY DEF Ended, AProc, Pcs, Names

\* The steps that end a process and change the files under the others.
LEMMA EndDisturbing ==
  ASSUME IInv, NEW p \in Procs, NEW out \in {"stored", "unstored", "loggedout"},
         Disturb(p, Ended(p, out)), UNCHANGED <<dir, nonce, late>>,
         proc[p].pc \in {"rename", "clear"}, nonce[p] = "claimed" => out # "loggedout",
         files' \in [Names -> AFile], files'[p] = Absent,
         \A q \in Procs \ {p} : files'[q] = files[q],
         files'[TokenFile].text # "torn", files'[TokenFile].owner,
         out = "stored" => files'[TokenFile].text = p,
         \A n \in Names : files'[n].text = "absent" => files'[n].owner
  PROVE  IInv'
<1> DEFINE rec == Ended(p, out)
<1>1. proc[p] \in AProc /\ dir /\ out \in Outs
  BY DEF IInv, Shape, FilesOK, At, Outs
<1>2. rec \in AProc /\ rec.pc = "over" /\ rec.out = out /\ rec.slept = proc[p].slept /\ rec.cmd = proc[p].cmd
  BY <1>1, EndedIs
<1> HIDE DEF rec
<1>3. Disturb(p, rec) /\ proc'[p] = rec
  BY DEF Disturb, rec
<1>4. ProcOK(p)'
  <2>1. TmpOK(p)'
    BY <1>2, <1>3 DEF TmpOK, At, Present, Absent
  <2>2. WalkOK(p)'
    BY <1>2, <1>3 DEF WalkOK, At
  <2>3. OutOK(p)'
    BY <1>2, <1>3 DEF IInv, OutOK, At
  <2>4. NonceOK(p)'
    BY <1>2, <1>3 DEF IInv, NonceOK, At
  <2>5. QED
    BY <2>1, <2>2, <2>3, <2>4 DEF ProcOK
<1>5. QED
  BY <1>1, <1>2, <1>3, <1>4, DisturbKeeps

LEMMA RenameKeeps == ASSUME IInv, NEW p \in Procs, Rename(p) PROVE IInv'
<1> USE TokenFileIsNoProc, TokensAreWhole
<1>1. At(p, "rename") /\ UNCHANGED <<dir, nonce, late>> /\ Disturb(p, Ended(p, "stored"))
      /\ files' = [files EXCEPT ![TokenFile] = files[p], ![p] = Absent]
  BY DEF Rename, remote, Tmp
<1>2. files \in [Names -> AFile] /\ p \in Names /\ TokenFile \in Names /\ p # TokenFile
      /\ files[p] = Private(p) /\ Absent \in AFile
  BY <1>1 DEF IInv, Shape, Names, TmpOK, Absent, AFile, Texts
<1>3. /\ files' \in [Names -> AFile] /\ files'[p] = Absent /\ files'[TokenFile] = Private(p)
      /\ \A n \in Names \ {p, TokenFile} : files'[n] = files[n]
  BY <1>1, <1>2
<1>4. Private(p).text = p /\ Private(p).owner /\ p # "torn" /\ p # "absent"
  BY DEF Private
<1>5. \A n \in Names : files'[n].text = "absent" => files'[n].owner
  BY <1>3, <1>4 DEF IInv, FilesOK, Absent
<1>6. \A q \in Procs \ {p} : files'[q] = files[q]
  BY <1>3 DEF Names
<1>7. QED
  BY <1>1, <1>3, <1>4, <1>5, <1>6, EndDisturbing DEF At

LEMMA RenameFailsKeeps == ASSUME IInv, NEW p \in Procs, RenameFails(p) PROVE IInv'
<1> USE TokenFileIsNoProc
<1>1. At(p, "rename") /\ UNCHANGED <<dir, nonce, late>> /\ Disturb(p, Ended(p, "unstored"))
      /\ files' = [files EXCEPT ![p] = Absent]
  BY DEF RenameFails, remote, Tmp, Unstored
<1>2. files \in [Names -> AFile] /\ p \in Names /\ TokenFile \in Names /\ p # TokenFile /\ Absent \in AFile
  BY DEF IInv, Shape, Names, Absent, AFile, Texts
<1>3. /\ files' \in [Names -> AFile] /\ files'[p] = Absent
      /\ \A n \in Names \ {p} : files'[n] = files[n]
  BY <1>1, <1>2
<1>4. files'[TokenFile].text # "torn" /\ files'[TokenFile].owner
  BY <1>1, <1>2, <1>3 DEF IInv, FilesOK, TokenIsWhole, WalkOK, Inside, At
<1>5. \A n \in Names : files'[n].text = "absent" => files'[n].owner
  BY <1>3 DEF IInv, FilesOK, Absent
<1>6. \A q \in Procs \ {p} : files'[q] = files[q]
  BY <1>3 DEF Names
<1>7. QED
  BY <1>1, <1>3, <1>4, <1>5, <1>6, EndDisturbing DEF At

LEMMA ClearKeeps == ASSUME IInv, NEW p \in Procs, Clear(p) PROVE IInv'
<1> USE TokenFileIsNoProc
<1>1. At(p, "clear") /\ UNCHANGED <<dir, nonce, late>> /\ Disturb(p, Ended(p, "loggedout"))
      /\ files' = [files EXCEPT ![TokenFile] = Absent]
  BY DEF Clear, remote
<1>2. files \in [Names -> AFile] /\ p \in Names /\ TokenFile \in Names /\ p # TokenFile /\ Absent \in AFile
      /\ files[p] = Absent /\ nonce[p] # "claimed"
  BY <1>1 DEF IInv, Shape, Names, Absent, AFile, Texts, TmpOK, NonceOK, At
<1>3. /\ files' \in [Names -> AFile] /\ files'[TokenFile] = Absent
      /\ \A n \in Names \ {TokenFile} : files'[n] = files[n]
  BY <1>1, <1>2
<1>4. files'[TokenFile].text # "torn" /\ files'[TokenFile].owner
  BY <1>3 DEF Absent
<1>5. \A n \in Names : files'[n].text = "absent" => files'[n].owner
  BY <1>3, <1>4 DEF IInv, FilesOK
<1>6. (\A q \in Procs \ {p} : files'[q] = files[q]) /\ files'[p] = Absent
  BY <1>2, <1>3 DEF Names
<1>7. QED
  BY <1>1, <1>2, <1>3, <1>4, <1>5, <1>6, EndDisturbing DEF At

-----------------------------------------------------------------------------
(* The invariant, and what it says.                                         *)

LEMMA NextKeeps == ASSUME IInv, [Next]_vars PROVE IInv'
<1>1. ASSUME NEW p \in Procs, Advance(p) PROVE IInv'
  BY <1>1, ListKeeps, LookKeeps, ChmodKeeps, OpenKeeps, ClaimKeeps, NotParkedYetKeeps, WakeKeeps,
     WritingKeeps, RenameKeeps, RenameFailsKeeps, ClearKeeps, GetKeeps DEF Advance
<1>2. ASSUME NEW p \in Procs,
             MakeDir(p) \/ LoginFails(p) \/ Redeem(p) \/ Park(p) \/ Deadline(p) \/ Kill(p)
      PROVE  IInv'
  BY <1>2, MakeDirKeeps, LoginFailsKeeps, RedeemKeeps, ParkKeeps, DeadlineKeeps, KillKeeps
<1>3. ASSUME UNCHANGED vars PROVE IInv'
  BY <1>3 DEF vars, IInv, Shape, FilesOK, TokenIsWhole, TmpOK, WalkOK, OutOK, NonceOK, At, Present
<1>4. QED
  BY <1>1, <1>2, <1>3 DEF Next, Over

\* The files, the walks over them and the processes always fit together, for any
\* number of processes, killed anywhere: the inductive invariant of this module.
THEOREM Invariance == Spec => []IInv
<1>1. Init => IInv
  BY InitHolds
<1>2. IInv /\ [Next]_vars => IInv'
  BY NextKeeps
<1>3. QED
  BY <1>1, <1>2, PTL DEF Spec

LEMMA InvIsSound == IInv => StoreIsSound
<1> SUFFICES ASSUME IInv PROVE StoreIsSound
  OBVIOUS
<1>1. TypeOK
  <2>1. /\ \A n \in Names : files[n].owner \in BOOLEAN
        /\ \A p \in Procs : proc[p].pc \in Pcs /\ proc[p].out \in Outs /\ proc[p].todo \subseteq Names
    BY DEF IInv, Shape, AFile, AProc
  <2>2. ASSUME NEW n \in Names, Present(n) PROVE files[n].text \in Procs \cup {Old, "torn"}
    <3>1. files[n] \in AFile
      BY DEF IInv, Shape
    <3>2. files[n].text # "absent"
      BY <2>2, <3>1 DEF IInv, FilesOK, Present, Absent, AFile
    <3>3. QED
      BY <3>1, <3>2 DEF AFile, Texts
  <2>3. QED
    BY <2>1, <2>2 DEF TypeOK, IInv, Shape, FilesOK
<1>2. TokenIsWhole /\ OwnerOnly
  BY DEF IInv, FilesOK, WalkOK, OwnerOnly, Inside
<1>3. StoredIsThere /\ StoreOpensUnlessRaced
  BY DEF IInv, OutOK, StoredIsThere, StoreOpensUnlessRaced
<1>4. ResidueHasCause
  BY DEF IInv, TmpOK, ResidueHasCause
<1>5. QED
  BY <1>1, <1>2, <1>3, <1>4 DEF StoreIsSound

\* However many processes log in and out at once and wherever one of them is
\* killed, the token in creds/token is whole and private, a login that says it
\* stored its token did, and what is left over has its cause.
THEOREM StoreSound == Spec => []StoreIsSound
<1>1. QED
  BY Invariance, InvIsSound, PTL

LEMMA InvMissesNothing == IInv => NoTokenMissed
BY DEF IInv, NonceOK, NoTokenMissed, ClaimedIsKept, NoSleepThroughToken, At

\* No login throws a token away that the server has handed out, and none sleeps
\* through its deadline past a token that was parked meanwhile.
THEOREM NoTokenIsMissed == Spec => []NoTokenMissed
<1>1. QED
  BY Invariance, InvMissesNothing, PTL

=============================================================================
