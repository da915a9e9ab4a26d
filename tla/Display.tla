------------------------------ MODULE Display ------------------------------
(***************************************************************************)
(* How a build's summary shows its steps: a name cut to a budget with a    *)
(* marker where content went (string/ellipsis.rs), padded to the widest    *)
(* one (string/align.rs), and a duration in its units (format.rs).         *)
(*                                                                         *)
(* A text is a sequence of graphemes with a width in columns and a size in *)
(* bytes; the width of a text is taken for the sum of theirs.              *)
(***************************************************************************)
EXTENDS Integers, SequencesExt

CONSTANTS
  Graphemes,    \* [w, b, blank]: columns, bytes, whether it is white space
  Budgets,      \* amounts to cut to
  NameColumns,  \* the budget of a name made of the command (40)
  Ticks,        \* lengths of time, in ms
  MaxInput      \* bounds the text typed, the steps named and the ticks

ASSUME GraphemesAssumption == Graphemes \subseteq [w : Nat, b : Nat, blank : BOOLEAN]
ASSUME AmountsAssumption == Budgets \subseteq Nat /\ NameColumns \in Nat /\ Ticks \subseteq Nat

VARIABLES
  label,    \* a step's label
  command,  \* the command of a step that has none
  elapsed,  \* ms it took
  inputs

display == <<label, command, elapsed, inputs>>

DisplayInit == label = <<>> /\ command = <<>> /\ elapsed = 0 /\ inputs = 0

TypeLabel(g) == label' = Append(label, g) /\ UNCHANGED <<command, elapsed>>
TypeCommand(g) == command' = Append(command, g) /\ UNCHANGED <<label, elapsed>>
Tick(d) == elapsed' = elapsed + d /\ UNCHANGED <<label, command>>

DisplayNext ==
  /\ inputs < MaxInput /\ inputs' = inputs + 1
  /\ \/ \E g \in Graphemes : TypeLabel(g) \/ TypeCommand(g)
     \/ \E d \in Ticks : Tick(d)

-----------------------------------------------------------------------------
(* Measures, and the longest part within one.                               *)

Measures == {"bytes", "columns"}
CostOf(g, measure) == IF measure = "bytes" THEN g.b ELSE g.w

\* What the leading graphemes of a text take, for each number of them.
Used(text, measure) ==
  LET used[k \in 0..Len(text)] == IF k = 0 THEN 0 ELSE used[k - 1] + CostOf(text[k], measure)
  IN used

Cost(text, measure) == Used(text, measure)[Len(text)]

\* fitting_bytes, counted in graphemes: the leading ones until one exceeds max.
Fitting(text, max, measure) ==
  CHOOSE n \in 0..Len(text) :
    /\ \A k \in 1..n : Used(text, measure)[k] <= max
    /\ n < Len(text) => Used(text, measure)[n + 1] > max

PrefixBoundary(text, max, measure) == Fitting(text, max, measure)
SuffixBoundary(text, max, measure) == Len(text) - Fitting(Reverse(text), max, measure)

Dot == [w |-> 1, b |-> 1, blank |-> FALSE]
Ascii == <<Dot, Dot, Dot>>
Unicode == <<[w |-> 1, b |-> 3, blank |-> FALSE]>>
Indicators == {Ascii, Unicode, <<>>}
Sides == {"start", "middle", "end"}

\* What is kept: head graphemes of the text, the marker, those after tail.
Contiguous(from, to) == [spliced |-> FALSE, from |-> from, head |-> to, tail |-> 0]
Spliced(head, tail) == [spliced |-> TRUE, from |-> 0, head |-> head, tail |-> tail]

\* (mutant) the halves may meet
MiddleOverlaps(text, content, measure) ==
  Spliced(PrefixBoundary(text, content, measure), SuffixBoundary(text, content \div 2, measure))

Middle(text, content, measure) ==
  LET end   == PrefixBoundary(text, (content + 1) \div 2, measure)
      start == SuffixBoundary(text, content \div 2, measure)
  IN Spliced(end, IF start > end THEN start ELSE end)

Ellipsize(text, measure, amount, side, indicator) ==
  LET room == Cost(indicator, measure) IN
  CASE Cost(text, measure) <= amount        -> Contiguous(0, Len(text))
    [] Cost(text, measure) > amount /\ amount < room ->
         IF side = "start" THEN Contiguous(SuffixBoundary(text, amount, measure), Len(text))
         ELSE Contiguous(0, PrefixBoundary(text, amount, measure))
    [] OTHER ->
         CASE side = "end"   -> Spliced(PrefixBoundary(text, amount - room, measure), Len(text))
           [] side = "start" -> Spliced(0, SuffixBoundary(text, amount - room, measure))
           [] OTHER          -> Middle(text, amount - room, measure)

Shown(text, e, indicator) ==
  SubSeq(text, e.from + 1, e.head)
    \o (IF e.spliced THEN indicator \o SubSeq(text, e.tail + 1, Len(text)) ELSE <<>>)

\* Where a byte of the output is in the source; -1 for None.
SourceIndex(text, e, indicator, byte) ==
  LET upto   == Used(text, "bytes")
      head   == upto[e.head]
      marker == Cost(indicator, "bytes")
  IN IF ~e.spliced THEN byte + upto[e.from]
     ELSE IF byte < head THEN byte
     ELSE IF byte >= head + marker THEN byte - head - marker + upto[e.tail] ELSE -1

-----------------------------------------------------------------------------
(* The summary: its names and its durations.                                *)

TrimBlanks(text) ==
  LET kept == {i \in DOMAIN text : ~text[i].blank}
  IN IF kept = {} THEN <<>>
     ELSE SubSeq(text, CHOOSE i \in kept : \A j \in kept : i <= j, CHOOSE i \in kept : \A j \in kept : j <= i)

\* A label is shown whole, a command cut.
DisplayNames ==
  LET trimmed == TrimBlanks(command)
  IN <<label, Shown(trimmed, Ellipsize(trimmed, "columns", NameColumns, "end", Unicode), Unicode)>>

Space == [w |-> 1, b |-> 1, blank |-> TRUE]
Spaces(n) == [i \in 1..n |-> Space]
Pad(text, measure, amount) == IF amount > Cost(text, measure) THEN amount - Cost(text, measure) ELSE 0

PadTo(text, measure, amount, align) ==
  LET pad  == Pad(text, measure, amount)
      left == CASE align = "start" -> 0 [] align = "end" -> pad [] OTHER -> pad \div 2
  IN Spaces(left) \o text \o Spaces(pad - left)

WidestName == LET w(i) == Cost(DisplayNames[i], "columns") IN IF w(1) > w(2) THEN w(1) ELSE w(2)

Units == <<86400000, 3600000, 60000, 1000, 1>>

\* How many of each unit; those of which there are none are not written, and
\* nothing at all is "0s".
Compact(ms) ==
  LET rem[u \in 0..Len(Units)] == IF u = 0 THEN ms ELSE rem[u - 1] % Units[u]
  IN [u \in DOMAIN Units |-> rem[u - 1] \div Units[u]]

-----------------------------------------------------------------------------
(* Correctness.                                                             *)

\* Every way to cut the label; there is nothing to cut of none.
Cuts == IF label = <<>> THEN {} ELSE [measure : Measures, amount : Budgets, side : Sides, ind : Indicators]
Cut(c) == Ellipsize(label, c.measure, c.amount, c.side, c.ind)

\* What is shown never exceeds the budget.
CutFits == \A c \in Cuts : Cost(Shown(label, Cut(c), c.ind), c.measure) <= c.amount

\* It is the whole text, or it is cut, its parts do not overlap, and the next
\* grapheme would not fit; cut in the middle, it would not fit in either half.
CutIsLongest ==
  \A c \in Cuts :
    LET e       == Cut(c)
        shown   == Shown(label, e, c.ind)
        next(i) == CostOf(label[i], c.measure)
        more(x) == Cost(shown, c.measure) + x > c.amount
    IN \/ shown = label
       \/ /\ ~e.spliced /\ c.amount < Cost(c.ind, c.measure)
          /\ more(next(IF c.side = "start" THEN e.from ELSE e.head + 1))
       \/ /\ e.spliced /\ e.head <= e.tail
          /\ c.side = "end"    => more(next(e.head + 1))
          /\ c.side = "start"  => more(next(e.tail))
          /\ c.side = "middle" => (e.head < e.tail => more(next(e.head + 1) + next(e.tail)))

\* The bytes of a text: which grapheme each is of, and the how-manieth.
BytesOf(text) ==
  LET used == Used(text, "bytes")
      of(k) == CHOOSE i \in DOMAIN text : used[i - 1] < k /\ k <= used[i]
  IN [k \in 1..used[Len(text)] |-> <<of(k), k - used[of(k) - 1]>>]

\* A byte of what is shown comes from the byte the map says, the marker's from
\* none.
CutMapsBack ==
  \A c \in Cuts :
    LET e     == Cut(c)
        upto  == Used(label, "bytes")
        whole == BytesOf(label)
        kept  == SubSeq(whole, upto[e.from] + 1, upto[e.head])
        tail  == SubSeq(whole, upto[e.tail] + 1, Len(whole))
        shown == IF e.spliced THEN kept \o [k \in 1..Cost(c.ind, "bytes") |-> <<>>] \o tail ELSE kept
    IN \A k \in DOMAIN shown :
         LET at == SourceIndex(label, e, c.ind, k - 1)
         IN IF at = -1 THEN shown[k] = <<>> ELSE at + 1 \in DOMAIN whole /\ whole[at + 1] = shown[k]

\* The names of the summary end in one column, and one made of a command is no
\* wider than its budget.
NamesAligned ==
  label # <<>> \/ command # <<>> =>
    /\ \A i \in 1..2 : Cost(PadTo(DisplayNames[i], "columns", WidestName, "start"), "columns") = WidestName
    /\ Cost(DisplayNames[2], "columns") <= NameColumns

\* The units of a duration add up to it, each less than one of the next.
DurationAddsUp ==
  elapsed > 0 =>
    LET ms == [u \in DOMAIN Units |-> Compact(elapsed)[u] * Units[u]] IN
    /\ ms[1] + ms[2] + ms[3] + ms[4] + ms[5] = elapsed
    /\ \A u \in 2..Len(Units) : ms[u] < Units[u - 1]

\* The layout of a name and of a duration: the cut fits, is as long as it can
\* be and maps back to the text; names align; the units add up.
LayoutIsRight == CutFits /\ CutIsLongest /\ CutMapsBack /\ NamesAligned /\ DurationAddsUp

=============================================================================
