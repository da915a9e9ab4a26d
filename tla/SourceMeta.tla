----------------------------- MODULE SourceMeta -----------------------------
(***************************************************************************)
(* The git facts of a run (git.rs; step 7 of hm run): each is a git        *)
(* process of its own, and the user may switch branches, commit, tag and   *)
(* move the remote between them.                                           *)
(*                                                                         *)
(* Commits are numbers, 0 for none.  A URL is a sequence of tokens.        *)
(***************************************************************************)
EXTENDS Splits

CONSTANTS
  Branches,
  Urls,      \* remote URLs
  PathNames, \* the names in their paths
  MaxCommit, \* bounds the commits
  MaxMoves   \* bounds what the user does meanwhile

\* git refuses a branch called HEAD.
ASSUME BranchesAssumption == {"HEAD", ""} \cap Branches = {} /\ MaxCommit \in Nat

\* What git takes for a URL: an authority or none, in one of its notations, and a
\* path, whose names are set off by slashes; the last may end in .git.
Authorities ==
  {<<"https", "://", "host", "/">>, <<"https", "://", "git", "@", "host", "/">>, <<"https", "://", "/">>,
   <<"git", "@", "host", ":">>, <<"host", ":">>, <<>>}

IsPath(path) ==
  \A i \in DOMAIN path :
    /\ path[i] \in PathNames \cup {"/", ".git"}
    /\ path[i] \in PathNames /\ i > 1 => path[i - 1] = "/"
    /\ path[i] = ".git" => i > 1 /\ path[i - 1] \in PathNames /\ \A j \in (i + 1)..Len(path) : path[j] = "/"

Signs == {"https", "git", "host", "://", "@", ":", "/", ".git"}
ASSUME UrlsAssumption ==
  /\ PathNames \cap Signs = {} /\ Urls \subseteq Seq(PathNames \cup Signs)
  /\ \A url \in Urls : \E k \in 0..Len(url) :
       SubSeq(url, 1, k) \in Authorities /\ IsPath(SubSeq(url, k + 1, Len(url)))

VARIABLES
  heads,   \* the branches' tips
  tags,    \* the commits of tags named like a branch
  head,    \* the branch checked out, or "HEAD" when detached
  at,      \* the commit checked out
  origin,  \* the URL of origin, <<>> for none
  moves,
  meta,    \* what hm gathered, and where it is
  tips     \* history: every tip a branch had since hm began

gitVars == <<heads, tags, head, at, origin, moves, meta, tips>>
repository == <<heads, tags, head, at, origin, moves, tips>>

Zero == 0
NoUrl == <<>>

GitInit ==
  /\ \E b \in Branches : head = b
  /\ heads \in [Branches -> {0, 1}] /\ \E b \in Branches : heads[b] = 1
  /\ tags = [b \in Branches |-> 0]
  /\ at = heads[head]
  /\ origin \in Urls \cup {NoUrl}
  /\ moves = 0
  /\ tips = [b \in Branches |-> {heads[b]} \ {0}]
  /\ \E asked \in {""} \cup Branches :
       meta = [pc |-> "branch", asked |-> asked, name |-> "", commit |-> Zero, url |-> NoUrl,
               repo |-> <<>>, tagged |-> FALSE]

-----------------------------------------------------------------------------
(* The user.                                                                *)

Moves == moves < MaxMoves /\ moves' = moves + 1 /\ UNCHANGED meta

Checkout(b) ==
  /\ Moves /\ heads[b] # 0 /\ b # head
  /\ head' = b /\ at' = heads[b]
  /\ UNCHANGED <<heads, tags, origin, tips>>

Detach ==
  /\ Moves /\ head # "HEAD" /\ at # 0
  /\ head' = "HEAD"
  /\ UNCHANGED <<heads, tags, at, origin, tips>>

NewCommit ==
  /\ Moves
  /\ \E c \in 2..MaxCommit :
       /\ c \notin UNION {tips[b] : b \in Branches}
       /\ at' = c
       /\ heads' = [b \in Branches |-> IF b = head THEN c ELSE heads[b]]
       /\ tips' = [b \in Branches |-> IF b = head THEN tips[b] \cup {c} ELSE tips[b]]
  /\ UNCHANGED <<tags, head, origin>>

TagAs(b) ==
  /\ Moves /\ at # 0
  /\ tags' = [tags EXCEPT ![b] = at]
  /\ UNCHANGED <<heads, head, at, origin, tips>>

DeleteBranch(b) ==
  /\ Moves /\ b # head /\ heads[b] # 0
  /\ heads' = [heads EXCEPT ![b] = 0]
  /\ UNCHANGED <<tags, head, at, origin, tips>>

MoveRemote(url) ==
  /\ Moves /\ url # origin
  /\ origin' = url
  /\ UNCHANGED <<heads, tags, head, at, tips>>

-----------------------------------------------------------------------------
(* owner/repo of a URL.                                                     *)

\* split_once, with the whole where the token is not there.
After(s, token) ==
  LET places == {i \in DOMAIN s : s[i] = token}
  IN IF places = {} THEN s
     ELSE SubSeq(s, (CHOOSE i \in places : \A j \in places : i <= j) + 1, Len(s))

PathOf(url) ==
  CASE "://" \in ToSet(url) -> After(After(url, "://"), "/")
    [] "://" \notin ToSet(url) /\ {"@", ":"} \subseteq ToSet(url) -> After(After(url, "@"), ":")
    [] OTHER -> After(url, "/")

TrimSlashes(path) == TrimEnd(path, "/")

StripGit(path) == IF path # <<>> /\ Last(path) = ".git" THEN Front(path) ELSE path

\* The segments between slashes that are not empty.
Segments(path) ==
  FlattenSeq([i \in DOMAIN path |->
    IF path[i] # "/" /\ (i = Len(path) \/ path[i + 1] = "/") THEN <<PieceAt(path, "/", i)>> ELSE <<>>])

\* parse_gh_repo_name; <<>> for None.
RepoName(url) ==
  LET segs == Segments(StripGit(TrimSlashes(PathOf(url))))
  IN IF Len(segs) < 2 THEN <<>> ELSE SubSeq(segs, Len(segs) - 1, Len(segs))

-----------------------------------------------------------------------------
(* Gathering, one git process at a time.                                    *)

Gather(pc) == meta.pc = pc /\ UNCHANGED repository

\* rev-parse --abbrev-ref HEAD fails on a branch without a commit.
CurrentBranch ==
  /\ Gather("branch")
  /\ meta' = [meta EXCEPT !.pc = "remote", !.name = IF at = 0 THEN "" ELSE head]

Remote ==
  /\ Gather("remote")
  /\ meta' = [meta EXCEPT !.pc = "commit", !.url = origin, !.repo = RepoName(origin)]

\* rev-parse <name>: a tag of the name comes first.
RevParse(name) ==
  CASE name = "HEAD" -> at
    [] name # "HEAD" /\ tags[name] # 0 -> tags[name]
    [] OTHER -> heads[name]

\* (mutant) the commit checked out now
HeadCommitNow == at

HeadCommit == IF meta.name = "" THEN Zero ELSE RevParse(meta.name)

Commit_ ==
  /\ Gather("commit")
  /\ meta' = [meta EXCEPT !.pc = "done", !.commit = HeadCommit,
                          !.tagged = meta.name \in Branches /\ tags[meta.name] # 0]

\* The branch of the request: the one asked for, the one checked out, or HEAD.
Branch ==
  CASE meta.asked # "" -> meta.asked
    [] meta.asked = "" /\ meta.name # "" -> meta.name
    [] OTHER -> "HEAD"

GitNext ==
  \/ \E b \in Branches : Checkout(b) \/ TagAs(b) \/ DeleteBranch(b)
  \/ Detach \/ NewCommit
  \/ \E url \in Urls \cup {NoUrl} : MoveRemote(url)
  \/ CurrentBranch \/ Remote \/ Commit_

-----------------------------------------------------------------------------
(* Correctness.                                                             *)

\* A request names a commit that was the tip of the branch it names while the
\* facts were gathered, whatever the user did in between; only --branch, or a
\* tag of the branch's name, sends another commit under it.
CommitIsOfBranch ==
  meta.pc = "done" /\ Branch \in Branches /\ meta.asked = "" /\ ~meta.tagged =>
    meta.commit \in tips[Branch] \cup {Zero}

\* The repository's name is the last two names of the path of the URL sent along
\* with it.  It is missing, and the run taken for one without a remote, only if
\* there is none, it has fewer than two, or the first of its two has no slash before
\* it, as in host:owner/repo without a user: it is lost with the host (git.rs:242).
RepoIsOfRemote ==
  meta.pc \in {"commit", "done"} =>
    LET names == Only(meta.url, PathNames)
        k     == Len(names)
        bare  == /\ {"://", "@"} \cap ToSet(meta.url) = {}
                 /\ \E i \in DOMAIN meta.url : meta.url[i] \in PathNames /\ \A j \in 1..i : meta.url[j] # "/"
    IN meta.repo = IF k < 2 \/ (k = 2 /\ bare) THEN <<>> ELSE << <<names[k - 1]>>, <<names[k]>> >>

\* The git facts of a build, read by three processes beside the user's own
\* git, are about one checkout.
MetaIsOfCheckout == CommitIsOfBranch /\ RepoIsOfRemote

=============================================================================
