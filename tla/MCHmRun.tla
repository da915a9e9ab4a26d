------------------------------ MODULE MCHmRun ------------------------------
(* Two invocations, side by side or one after the other, in a project with  *)
(* two pipelines.                                                           *)
EXTENDS HmRun

CONSTANTS r1, r2, web, docs

Setup(f, u, isRemote, isShaped, found) ==
  [file |-> f, user |-> u, remote |-> isRemote, shaped |-> isShaped, found |-> found]

(* Without a remote: nothing configured; the cloud in the user's config     *)
(* only, under a project that says nothing (on two kinds of server) or      *)
(* docker; a project that pins its domain.  With a remote: undiscovered (on *)
(* two kinds of server), or one of its pipelines is; or that one is also    *)
(* the slug in the config; or the config names one that the server has not. *)
MCSetups ==
  {Setup(Missing, NoDomain, FALSE, TRUE, {}),
   Setup(Missing, "pinned", FALSE, TRUE, {}),
   Setup(Missing, "pinned", FALSE, FALSE, {}),
   Setup(Docker, "pinned", FALSE, TRUE, {}),
   Setup(Cloud("pinned", NoPipe), NoDomain, FALSE, TRUE, {}),
   Setup(Missing, NoDomain, TRUE, TRUE, {}),
   Setup(Missing, NoDomain, TRUE, FALSE, {}),
   Setup(Missing, NoDomain, TRUE, TRUE, {web}),
   Setup(Cloud(NoDomain, web), NoDomain, TRUE, TRUE, {web}),
   Setup(Cloud(NoDomain, web), NoDomain, TRUE, TRUE, {})}

=============================================================================
