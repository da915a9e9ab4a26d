---------------------------- MODULE Credentials ----------------------------
(***************************************************************************)
(* The token under ~/.hm/creds and the hm processes that share it:         *)
(* CredsProvider (hm-core/src/creds/mod.rs) with the atomic write of       *)
(* hm-common/src/fs.rs, the start-up of every command (AppCtx::init), and  *)
(* the logins of hm-cloud/src/auth.rs: a browser parks a token under the   *)
(* process's nonce while the process polls for it, or the user pastes a    *)
(* code.  Processes run side by side and may be killed anywhere.           *)
(***************************************************************************)
EXTENDS Naturals

CONSTANTS
  Procs,     \* hm processes
  Old,       \* the token of a login long ago
  TokenFile  \* creds/token

ASSUME OldIsNobodys == Old \notin Procs
ASSUME TokenFileIsNoProc == TokenFile \notin Procs
\* A process stands for the token it stores; neither that nor Old is a mark.
ASSUME TokensAreWhole == {"torn", "absent"} \cap (Procs \cup {Old}) = {}

VARIABLES
  dir,    \* ~/.hm/creds exists
  files,  \* the files in it: the token and the temporary file of each process
  nonce,  \* what the server has under each process's nonce
  late,   \* CLAIM_TIMEOUT is over for the process
  proc    \* the processes

vars == <<dir, files, nonce, late, proc>>
remote == <<nonce, late>>

Names == {TokenFile} \cup Procs
Absent == [text |-> "absent", owner |-> TRUE]
\* A file that is readable by its owner only; a process writes its own token.
Private(text) == [text |-> text, owner |-> TRUE]
Present(name) == files[name] # Absent

Idle == [pc |-> "idle", cmd |-> "none", todo |-> {}, entry |-> TokenFile, raced |-> FALSE,
         slept |-> FALSE, past |-> FALSE, out |-> "none"]

Init ==
  /\ dir \in BOOLEAN
  /\ \E t \in {Absent} \cup (IF dir THEN [text : {Old}, owner : BOOLEAN] ELSE {}) :
       files = [n \in Names |-> IF n = TokenFile THEN t ELSE Absent]
  /\ nonce = [p \in Procs |-> "open"]
  /\ late = [p \in Procs |-> FALSE]
  /\ proc = [p \in Procs |-> Idle]

Goto(p, rec) == proc' = [proc EXCEPT ![p] = rec]
Step(p, pc) == Goto(p, [proc[p] EXCEPT !.pc = pc])
At(p, pc) == proc[p].pc = pc

Ended(p, out) == [proc[p] EXCEPT !.pc = "over", !.todo = {}, !.entry = TokenFile, !.out = out]
Exit(p, out) == Goto(p, Ended(p, out))

\* p replaces or removes files: those who are walking the directory may notice,
\* and what has been stored is not the last word any more.
Disturb(p, rec) ==
  proc' = [q \in Procs |->
             IF q = p THEN rec
             ELSE [proc[q] EXCEPT !.raced = @ \/ proc[q].pc \in {"walk", "chmod"},
                                  !.past = @ \/ proc[q].out = "stored"]]

-----------------------------------------------------------------------------
(* Every command opens the store first.                                     *)

Commands == {"browser", "paste", "logout", "use", "useenv"}

MakeDir(p) ==
  /\ At(p, "idle")
  /\ dir' = TRUE
  /\ \E c \in Commands : Goto(p, [proc[p] EXCEPT !.pc = "list", !.cmd = c])
  /\ UNCHANGED <<files, remote>>

\* The walk meets every file of now, and perhaps one that is created meanwhile.
List(p) ==
  /\ At(p, "list")
  /\ IF dir THEN \E seen \in SUBSET Names :
                    /\ {n \in Names : Present(n)} \subseteq seen
                    /\ Goto(p, [proc[p] EXCEPT !.pc = "walk", !.todo = seen])
            ELSE Exit(p, "nostore")
  /\ UNCHANGED <<dir, files, remote>>

\* is_file: what is gone by now is passed over.
Look(p) ==
  /\ At(p, "walk")
  /\ \E n \in proc[p].todo :
       Goto(p, [proc[p] EXCEPT !.todo = @ \ {n}, !.entry = n,
                               !.pc = IF Present(n) THEN "chmod" ELSE "walk"])
  /\ UNCHANGED <<dir, files, remote>>

Chmod(p) ==
  /\ At(p, "chmod")
  /\ IF Present(proc[p].entry)
     THEN /\ files' = [files EXCEPT ![proc[p].entry].owner = TRUE]
          /\ Step(p, "walk")
     ELSE /\ Exit(p, "nostore")
          /\ UNCHANGED files
  /\ UNCHANGED <<dir, remote>>

First == [browser |-> "claim", paste |-> "code", logout |-> "clear", use |-> "get", useenv |-> "get"]

Open(p) ==
  /\ At(p, "walk") /\ proc[p].todo = {}
  /\ Goto(p, [proc[p] EXCEPT !.pc = First[proc[p].cmd], !.entry = TokenFile])
  /\ UNCHANGED <<dir, files, remote>>

-----------------------------------------------------------------------------
(* Logging in.                                                              *)

\* No terminal and no browser, or no listener for the redirect.
LoginFails(p) ==
  /\ At(p, "claim") \/ At(p, "code")
  /\ Exit(p, "failed")
  /\ UNCHANGED <<dir, files, remote>>

\* The user authorizes the login in the browser; whether the redirect to the
\* process's listener arrives makes no difference.
Park(p) ==
  /\ nonce[p] = "open" /\ proc[p].cmd = "browser"
  /\ nonce' = [nonce EXCEPT ![p] = "parked"]
  /\ Goto(p, [proc[p] EXCEPT !.slept = At(p, "sleep")])
  /\ UNCHANGED <<dir, files, late>>

Deadline(p) ==
  /\ At(p, "claim") \/ At(p, "sleep")
  /\ ~late[p]
  /\ late' = [late EXCEPT ![p] = TRUE]
  /\ UNCHANGED <<dir, files, nonce, proc>>

\* The server hands the token out once; the answer may be lost.
Claim(p) ==
  /\ At(p, "claim") /\ nonce[p] = "parked"
  /\ nonce' = [nonce EXCEPT ![p] = "claimed"]
  /\ Step(p, "set") \/ Exit(p, "lost")
  /\ UNCHANGED <<dir, files, late>>

\* (mutant) polls for ever
NotParkedYetEver(p) ==
  /\ At(p, "claim") /\ nonce[p] = "open"
  /\ Step(p, "sleep")
  /\ UNCHANGED <<dir, files, remote>>

\* cli_code_invalid: nothing is parked yet; the deadline is looked at only now.
NotParkedYet(p) ==
  /\ At(p, "claim") /\ nonce[p] = "open"
  /\ IF late[p] THEN Exit(p, "timedout") ELSE Step(p, "sleep")
  /\ UNCHANGED <<dir, files, remote>>

\* (mutant) looks at the clock before it asks again
WakeStrict(p) ==
  /\ At(p, "sleep")
  /\ IF late[p] THEN Exit(p, "timedout") ELSE Step(p, "claim")
  /\ UNCHANGED <<dir, files, remote>>

Wake(p) ==
  /\ At(p, "sleep")
  /\ Step(p, "claim")
  /\ UNCHANGED <<dir, files, remote>>

\* The user has pasted a code and the server takes it.
Redeem(p) ==
  /\ At(p, "code")
  /\ Step(p, "set")
  /\ UNCHANGED <<dir, files, remote>>

-----------------------------------------------------------------------------
(* Storing the token: a temporary file, then a rename.                      *)

\* (mutant) one temporary name for all
TmpShared(p) == CHOOSE q \in Procs : TRUE

Tmp(p) == p

\* A login goes on without its token stored; it only warns.
Unstored(p) == Ended(p, "unstored")

Truncate(p) ==
  /\ At(p, "set")
  /\ \/ /\ files' = [files EXCEPT ![Tmp(p)] = Private("torn")]
        /\ Step(p, "write")
     \/ /\ Goto(p, Unstored(p))
        /\ UNCHANGED files
  /\ UNCHANGED <<dir, remote>>

\* A write that fails leaves the temporary file as it is.
Write(p) ==
  /\ At(p, "write")
  /\ \/ /\ files' = [files EXCEPT ![Tmp(p)] = Private(p)]
        /\ Step(p, "rename")
     \/ /\ Goto(p, Unstored(p))
        /\ UNCHANGED files
  /\ UNCHANGED <<dir, remote>>

Rename(p) ==
  /\ At(p, "rename") /\ Present(Tmp(p))
  /\ files' = [files EXCEPT ![TokenFile] = files[Tmp(p)], ![Tmp(p)] = Absent]
  /\ Disturb(p, Ended(p, "stored"))
  /\ UNCHANGED <<dir, remote>>

RenameFails(p) ==
  /\ At(p, "rename")
  /\ files' = [files EXCEPT ![Tmp(p)] = Absent]
  /\ Disturb(p, Unstored(p))
  /\ UNCHANGED <<dir, remote>>

-----------------------------------------------------------------------------
(* Logging out, and everybody else.                                         *)

Clear(p) ==
  /\ At(p, "clear")
  /\ files' = [files EXCEPT ![TokenFile] = Absent]
  /\ Disturb(p, Ended(p, "loggedout"))
  /\ UNCHANGED <<dir, remote>>

\* HM_API_TOKEN wins.
Get(p) ==
  /\ At(p, "get")
  /\ Exit(p, IF proc[p].cmd = "useenv" THEN "env"
             ELSE IF files[TokenFile].text = "torn" THEN "torn"
             ELSE IF Present(TokenFile) THEN "used" ELSE "nologin")
  /\ UNCHANGED <<dir, files, remote>>

Kill(p) ==
  /\ proc[p].pc \notin {"idle", "over"}
  /\ Exit(p, "killed")
  /\ UNCHANGED <<dir, files, remote>>

Over == (\A p \in Procs : At(p, "over")) /\ UNCHANGED vars

Advance(p) ==
  \/ List(p) \/ Look(p) \/ Chmod(p) \/ Open(p)
  \/ Claim(p) \/ NotParkedYet(p) \/ Wake(p)
  \/ Truncate(p) \/ Write(p) \/ Rename(p) \/ RenameFails(p)
  \/ Clear(p) \/ Get(p)

Next ==
  \/ \E p \in Procs :
       \/ MakeDir(p) \/ Advance(p) \/ LoginFails(p) \/ Redeem(p)
       \/ Park(p) \/ Deadline(p) \/ Kill(p)
  \/ Over

Spec == Init /\ [][Next]_vars

\* A process runs, its requests are answered or fail, and time passes; whether
\* the user authorizes a login or pastes a code is up to him.
FairSpec ==
  /\ Spec
  /\ \A p \in Procs : WF_vars(Advance(p)) /\ WF_vars(Deadline(p))

-----------------------------------------------------------------------------
(* Correctness.                                                             *)

Pcs == {"idle", "list", "walk", "chmod", "claim", "sleep", "code", "set", "write", "rename",
        "clear", "get", "over"}
Outs == {"none", "nostore", "failed", "lost", "timedout", "stored", "unstored", "loggedout",
         "env", "used", "nologin", "killed"}

TypeOK ==
  /\ dir \in BOOLEAN /\ ((\E p \in Procs : ~At(p, "idle")) => dir)
  /\ \A n \in Names : files[n].owner \in BOOLEAN
  /\ \A n \in Names : Present(n) => dir /\ files[n].text \in Procs \cup {Old, "torn"}
  /\ \A p \in Procs : proc[p].pc \in Pcs /\ proc[p].out \in Outs /\ proc[p].todo \subseteq Names

\* Whoever is killed or fails while he writes, and however many log in at once,
\* creds/token is a whole token (fs.rs:56).
TokenIsWhole == files[TokenFile].text # "torn"

\* A command fails to open the store only when another process was replacing or
\* removing a file while it walked the directory (creds/mod.rs:58): the one
\* race that start-up does not tolerate.
StoreOpensUnlessRaced == \A p \in Procs : proc[p].out = "nostore" => proc[p].raced

\* Once any process has opened the store, the token is its owner's alone,
\* however it was written before.
OwnerOnly ==
  (\E p \in Procs : proc[p].pc \in {"claim", "sleep", "code", "set", "write", "rename", "clear", "get"})
    => files[TokenFile].owner

\* A login that stored its token has it in creds/token until somebody else logs
\* in or out.
StoredIsThere ==
  \A p \in Procs : proc[p].out = "stored" /\ ~proc[p].past => files[TokenFile].text = p

\* A temporary file outlives its process only if that was killed or could not
\* write it: no other path leaves a token behind that logging out does not remove.
ResidueHasCause ==
  \A p \in Procs : At(p, "over") /\ Present(p) =>
    proc[p].out = "killed" \/ (proc[p].out = "unstored" /\ files[p].text = "torn")

\* The store's files: the token is never torn, hm alone can read it once the
\* store is open, a login that says so has stored it unless another process
\* came after, and what a login leaves beside it, or a store that does not
\* open, has its cause.
StoreIsSound ==
  TypeOK /\ TokenIsWhole /\ OwnerOnly /\ StoredIsThere /\ ResidueHasCause /\ StoreOpensUnlessRaced

\* A token the server has handed out is not thrown away by its login: it is
\* stored, or the answer was lost, the disk failed, or the process was killed.
ClaimedIsKept ==
  \A p \in Procs : At(p, "over") /\ nonce[p] = "claimed" =>
    proc[p].out \in {"stored", "unstored", "lost", "killed"}

\* auth.rs:161: a token parked while the process sleeps is claimed, even if the
\* deadline passes in the same sleep.
NoSleepThroughToken == \A p \in Procs : proc[p].slept => proc[p].out # "timedout"

\* The poll against its deadline: a token the server has handed out is not
\* dropped, and a login that slept through its deadline asks once more.
NoTokenMissed == ClaimedIsKept /\ NoSleepThroughToken

\* A browser login ends, authorized or not, redirected or not.
BrowserLoginEnds == \A p \in Procs : At(p, "claim") ~> At(p, "over")

=============================================================================
