------------------------------- MODULE Splits -------------------------------
(***************************************************************************)
(* Cutting a text at a separator and trimming it, for StepOutput and       *)
(* SourceMeta.  A text is a sequence of characters or of larger tokens.    *)
(***************************************************************************)
EXTENDS Naturals, SequencesExt

\* The last place before another where a token is, 0 for none.
LastBefore(s, token, before) ==
  LET places == {i \in DOMAIN s : i < before /\ s[i] = token}
  IN IF places = {} THEN 0 ELSE CHOOSE i \in places : \A j \in places : j <= i

\* What is between the separator before place i and that place.
PieceAt(s, separator, i) ==
  SubSeq(s, LastBefore(s, separator, i) + 1, IF s[i] = separator THEN i - 1 ELSE i)

\* trim_end_matches
TrimEnd(s, token) ==
  LET kept == {i \in DOMAIN s : s[i] # token}
  IN SubSeq(s, 1, IF kept = {} THEN 0 ELSE CHOOSE i \in kept : \A j \in kept : j <= i)

\* Those of a set, in order.
Only(s, kept) == FlattenSeq([i \in DOMAIN s |-> IF s[i] \in kept THEN <<s[i]>> ELSE <<>>])

=============================================================================
