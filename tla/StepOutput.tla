----------------------------- MODULE StepOutput -----------------------------
(***************************************************************************)
(* From what a command writes to the log lines that are printed.           *)
(*                                                                         *)
(* Locally the daemon frames the bytes of both streams in order and each   *)
(* frame is decoded and split by itself (docker.rs).  On the cloud the     *)
(* server sends chunks of text, decoded already, and one buffer holds the  *)
(* partial line of a job (watch.rs).  Either way a line is an event, and   *)
(* the renderer prints it escaped (human.rs, escape.rs).                   *)
(*                                                                         *)
(* A text is a sequence of characters: "a" any printable one, "wide" one   *)
(* of two bytes, which a frame may cut, "nl", "cr", "esc" (C0) and "csi"   *)
(* (C1) control characters, "bad" the replacement of a cut one.            *)
(***************************************************************************)
EXTENDS Splits

CONSTANTS
  Alphabet,  \* the characters the command writes
  MaxChars   \* bounds what it writes

ASSUME AlphabetAssumption == Alphabet \subseteq {"a", "wide", "nl", "cr", "esc", "csi"}

VARIABLES
  place,     \* "local" or "cloud"
  written,   \* history: what the command wrote to each stream, in characters
  unsent,    \* bytes of each stream not framed yet
  partial,   \* the cloud's buffer
  logged,    \* the events: stream and line
  open,      \* history: streams of which the last frame ended amid a line
  cutLine,   \* history: streams of which a line went on in the next frame
  mixed,     \* history: a chunk met the partial line of the other stream
  last,      \* the stream of the last chunk
  closed     \* the command ended and everything is sent

output == <<place, written, unsent, partial, logged, open, cutLine, mixed, last, closed>>

Streams == {"out", "err"}

OutputInit ==
  /\ place \in {"local", "cloud"}
  /\ written = [s \in Streams |-> <<>>]
  /\ unsent = [s \in Streams |-> <<>>]
  /\ partial = <<>>
  /\ logged = <<>>
  /\ open = {} /\ cutLine = {} /\ mixed = FALSE
  /\ last = "out"
  /\ closed = FALSE

-----------------------------------------------------------------------------
(* Texts.                                                                   *)

Bytes(c) == IF c = "wide" THEN <<"wide1", "wide2">> ELSE <<c>>

\* String::from_utf8_lossy.
Lossy(bytes) == FlattenSeq([i \in DOMAIN bytes |->
  CASE bytes[i] = "wide1" -> IF i = Len(bytes) THEN <<"bad">> ELSE <<>>
    [] bytes[i] = "wide2" -> <<IF i = 1 THEN "bad" ELSE "wide">>
    [] OTHER              -> <<bytes[i]>>])

\* The lines a text has, ended or not; a last one that is empty is none.
EndsAt(text, i) == text[i] = "nl" \/ i = Len(text)
Pieces(text) ==
  FlattenSeq([i \in DOMAIN text |-> IF EndsAt(text, i) THEN <<PieceAt(text, "nl", i)>> ELSE <<>>])

\* str::lines: a line may end in \r\n.
LineAt(text, i) ==
  LET l == PieceAt(text, "nl", i)
  IN IF text[i] = "nl" /\ l # <<>> /\ Last(l) = "cr" THEN Front(l) ELSE l
TextLines(text) ==
  FlattenSeq([i \in DOMAIN text |-> IF EndsAt(text, i) THEN <<LineAt(text, i)>> ELSE <<>>])

\* trim_end_matches(['\r', '\n'])
TrimCr(line) == TrimEnd(line, "cr")

\* escape_non_printable, as cat -v shows them.
Escape(line) == FlattenSeq([i \in DOMAIN line |->
  CASE line[i] = "esc" -> <<"^", "[">>
    [] line[i] = "cr"  -> <<"^", "M">>
    [] line[i] = "csi" -> <<"M-^", "[">>
    [] OTHER           -> <<line[i]>>])

-----------------------------------------------------------------------------
(* The command.                                                             *)

Writes(s, c) ==
  /\ ~closed /\ Len(written["out"]) + Len(written["err"]) < MaxChars
  /\ written' = [written EXCEPT ![s] = Append(@, c)]
  /\ unsent' = [unsent EXCEPT ![s] = @ \o Bytes(c)]
  /\ UNCHANGED <<place, partial, logged, open, cutLine, mixed, last, closed>>

Events(s, lines) == [k \in DOMAIN lines |-> [stream |-> s, line |-> lines[k]]]

-----------------------------------------------------------------------------
(* Locally: a frame of n bytes.                                             *)

\* (mutant) the last piece of a frame is dropped, ended or not
FrameLinesFront(text) == Front(TextLines(text))

FrameLines(text) == TextLines(text)

Frame(s, n) ==
  /\ place = "local" /\ n \in 1..Len(unsent[s])
  /\ LET bytes == SubSeq(unsent[s], 1, n) IN
       /\ logged' = logged \o Events(s, FrameLines(Lossy(bytes)))
       /\ open' = IF bytes[n] # "nl" THEN open \cup {s} ELSE open \ {s}
       /\ cutLine' = IF s \in open THEN cutLine \cup {s} ELSE cutLine
  /\ unsent' = [unsent EXCEPT ![s] = SubSeq(@, n + 1, Len(@))]
  /\ UNCHANGED <<place, written, partial, mixed, last, closed>>

-----------------------------------------------------------------------------
(* On the cloud: a chunk of n bytes, whole characters.                      *)

\* The buffer up to its last newline, and what is behind it.
Complete(text) == LastBefore(text, "nl", Len(text) + 1)

Behind(text) == SubSeq(text, Complete(text) + 1, Len(text))

\* emit
Chunk(s, n) ==
  /\ place = "cloud" /\ n \in 1..Len(unsent[s])
  /\ unsent[s][n] # "wide1"
  /\ LET text == partial \o Lossy(SubSeq(unsent[s], 1, n))
         full == Pieces(SubSeq(text, 1, Complete(text)))
     IN /\ logged' = logged \o Events(s, [k \in DOMAIN full |-> TrimCr(full[k])])
        /\ partial' = Behind(text)
  /\ mixed' = (mixed \/ (partial # <<>> /\ last # s))
  /\ last' = s
  /\ unsent' = [unsent EXCEPT ![s] = SubSeq(@, n + 1, Len(@))]
  /\ UNCHANGED <<place, written, open, cutLine, closed>>

-----------------------------------------------------------------------------
(* The end: the stream closes, or the job is done and the rest is flushed.  *)

Flush == IF partial = <<>> THEN <<>> ELSE Events(last, <<partial>>)

Close ==
  /\ ~closed /\ \A s \in Streams : unsent[s] = <<>>
  /\ closed' = TRUE
  /\ logged' = logged \o Flush
  /\ partial' = <<>>
  /\ UNCHANGED <<place, written, unsent, open, cutLine, mixed, last>>

OutputNext ==
  \/ \E s \in Streams, c \in Alphabet : Writes(s, c)
  \/ \E s \in Streams, n \in 1..(2 * MaxChars) : Frame(s, n) \/ Chunk(s, n)
  \/ Close

-----------------------------------------------------------------------------
(* Correctness.                                                             *)

LinesOf(s) ==
  FlattenSeq([k \in DOMAIN logged |-> IF logged[k].stream = s THEN <<logged[k].line>> ELSE <<>>])

OutputTypeOK ==
  /\ place \in {"local", "cloud"} /\ last \in Streams
  /\ place = "local" => partial = <<>> /\ ~mixed
  /\ place = "cloud" => cutLine = {} /\ open = {}
  /\ \A i \in DOMAIN partial : partial[i] # "nl"
  /\ \A i \in DOMAIN logged : \A j \in DOMAIN logged[i].line : logged[i].line[j] # "nl"

Same(lines, text) ==
  LET there == Pieces(text)
  IN Len(lines) = Len(there) /\ \A k \in DOMAIN lines : TrimCr(lines[k]) = TrimCr(there[k])

\* Each stream's events are the lines the command wrote to it, unless one of
\* them went on in the next frame (local, docker.rs:275) or a chunk of the other stream
\* came while a line was partial (cloud, watch.rs:422).  The carriage returns
\* before a line's end are not told apart.
LinesAsWritten ==
  \A s \in Streams :
    closed /\ ~mixed /\ s \notin cutLine
      => Same(LinesOf(s), written[s])

Drawn == {"a", "wide", "bad"}
Marks(text) == Only(text, Drawn \cup {"esc", "csi"})

\* Wherever the frames and the chunks end, the text is all there and in order:
\* locally of each stream, a wide character cut by a frame aside, on the cloud
\* of both together.
NothingLost ==
  closed =>
    IF place = "local"
    THEN \A s \in Streams : "wide" \notin ToSet(written[s]) =>
           Marks(FlattenSeq(LinesOf(s))) = Marks(written[s])
    ELSE Len(Marks(FlattenSeq([k \in DOMAIN logged |-> logged[k].line])))
           = Len(Marks(written["out"])) + Len(Marks(written["err"]))

\* What is printed of a line drives no terminal, and shows its printable
\* characters as they are.
PrintedSafely ==
  \A k \in DOMAIN logged :
    LET shown == Escape(logged[k].line) IN
      /\ ToSet(shown) \cap {"nl", "cr", "esc", "csi"} = {}
      /\ Only(shown, Drawn) = Only(logged[k].line, Drawn)

\* A step's output comes through: each stream's lines as written, no character
\* of it lost, none of it live on the terminal.
OutputComesThrough == OutputTypeOK /\ LinesAsWritten /\ NothingLost /\ PrintedSafely

=============================================================================
