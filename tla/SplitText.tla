------------------------------ MODULE SplitText ------------------------------
(***************************************************************************)
(* How an answer is cut into LINE messages: split_text of src/broker.rs.    *)
(* It works on the bytes of the text, so a text is a sequence of the        *)
(* classes of bytes that it tells apart: the newline and the space, at      *)
(* which it cuts, any other white space, which it only trims, and all the   *)
(* rest; each of one byte, or of several, a first one and those that        *)
(* continue it. An iteration of its loop is a step; a slice that does not   *)
(* end between two characters panics.                                       *)
(***************************************************************************)
EXTENDS Integers, Sequences, SequencesExt

CONSTANTS
  MaxLen,     \* the longest chunk, in bytes (4900)
  MaxBytes    \* bound: bytes of the text

ASSUME SplitAssumption ==
  /\ MaxLen \in Nat \ {0}
  /\ MaxBytes \in Nat

\* "tab" stands for any other white space of one byte, "wide" and "wideRest" for
\* white space of several bytes, such as the ideographic space U+3000.
Bytes == {"newline", "space", "tab", "wide", "wideRest", "letter", "lead",
          "continuation"}

\* The first byte of a character of several, and the bytes that continue it.
Longer == {<< "wide", "wideRest" >>, << "lead", "continuation" >>}

\* White_Space, which trim_start takes away, whatever its length.
IsBlank(byte) == byte \in {"newline", "space", "tab", "wide", "wideRest"}

\* A slice may begin or end before position i.
IsBoundary(s, i) == i > Len(s) \/ \A c \in Longer : s[i] # c[2]

\* Sequences of bytes that are the bytes of whole characters.
IsText(s) ==
  \A i \in 1 .. Len(s), c \in Longer :
    /\ s[i] = c[2] => i > 1 /\ s[i - 1] \in {c[1], c[2]}
    /\ s[i] = c[1] => i < Len(s) /\ s[i + 1] = c[2]

Texts == {s \in UNION {[1 .. n -> Bytes] : n \in 0 .. MaxBytes} : IsText(s)}

VARIABLES
  source,     \* the text
  rest,       \* remaining
  chunks,     \* the chunks so far
  splitting,  \* "begin", "loop", "done" or "panic"
  starts      \* history: where in the text each chunk begins

splitVars == << source, rest, chunks, splitting, starts >>

\* Where in the text the rest begins: it is always what the text ends with.
From == Len(source) - Len(rest) + 1

SplitInit ==
  /\ source \in Texts
  /\ rest = source
  /\ chunks = << >>
  /\ splitting = "begin"
  /\ starts = << >>

\* A text that fits is one chunk, even an empty one.
KeepWhole ==
  /\ splitting = "begin"
  /\ Len(source) <= MaxLen
  /\ chunks' = << source >>
  /\ starts' = << 1 >>
  /\ rest' = << >>
  /\ splitting' = "done"
  /\ UNCHANGED source

BeginLoop ==
  /\ splitting = "begin"
  /\ Len(source) > MaxLen
  /\ splitting' = "loop"
  /\ UNCHANGED << source, rest, chunks, starts >>

\* Positions of a byte among the first MaxLen of the rest.
Places(byte) == {i \in 1 .. MaxLen : rest[i] = byte}

\* The last newline, else the last space, else as much as fits.
SplitPoint ==
  CASE Places("newline") # {} -> Max(Places("newline")) - 1
    [] Places("newline") = {} /\ Places("space") # {} -> Max(Places("space")) - 1
    [] OTHER -> MaxLen

\* What is left of s without its leading blanks.
TrimStart(s) ==
  LET solid == {i \in 1 .. Len(s) : ~IsBlank(s[i])}
  IN  IF solid = {} THEN << >> ELSE SubSeq(s, Min(solid), Len(s))

\* MUTANT of CutChunk: the byte after the cut is taken for the blank it is cut at.
CutChunkSkips ==
  /\ splitting = "loop"
  /\ Len(rest) > MaxLen
  /\ IsBoundary(rest, MaxLen + 1)
  /\ chunks' = Append(chunks, SubSeq(rest, 1, SplitPoint))
  /\ starts' = Append(starts, From)
  /\ rest' = SubSeq(rest, SplitPoint + 2, Len(rest))
  /\ UNCHANGED << source, splitting >>

CutChunk ==
  /\ splitting = "loop"
  /\ Len(rest) > MaxLen
  /\ IsBoundary(rest, MaxLen + 1)
  /\ chunks' = Append(chunks, SubSeq(rest, 1, SplitPoint))
  /\ starts' = Append(starts, From)
  /\ rest' = TrimStart(SubSeq(rest, SplitPoint + 1, Len(rest)))
  /\ UNCHANGED << source, splitting >>

\* The slice in which a blank is looked for ends inside a character, blanks or
\* not: the panic unwinds the socket's task (PanicInResponse of MessageBroker).
CutPanics ==
  /\ splitting = "loop"
  /\ Len(rest) > MaxLen
  /\ ~IsBoundary(rest, MaxLen + 1)
  /\ splitting' = "panic"
  /\ UNCHANGED << source, rest, chunks, starts >>

LastChunk ==
  /\ splitting = "loop"
  /\ Len(rest) <= MaxLen
  /\ IF rest = << >>
     THEN UNCHANGED << chunks, starts >>
     ELSE /\ chunks' = Append(chunks, rest)
          /\ starts' = Append(starts, From)
  /\ rest' = << >>
  /\ splitting' = "done"
  /\ UNCHANGED source

SplitNext == KeepWhole \/ BeginLoop \/ CutChunk \/ CutPanics \/ LastChunk

SplitSpec == SplitInit /\ [][SplitNext]_splitVars

-----------------------------------------------------------------------------
(***************************************************************************)
(* Properties                                                              *)
(***************************************************************************)

\* Where the text continues after chunk i.
End(i) == starts[i] + Len(chunks[i])

\* The chunks and the rest are pieces of the text in its order, none twice and
\* each of whole characters, and what lies between them, at the cuts, is white
\* space. No chunk is longer than LINE takes, and only the first one of a text that begins
\* with white space, or is empty, is a message without a character.
SplitKeepsText ==
  /\ rest = SubSeq(source, From, Len(source))
  /\ \A i \in 1 .. Len(chunks) :
       /\ chunks[i] = SubSeq(source, starts[i], End(i) - 1)
       /\ End(i) <= From
       /\ \A j \in 1 .. i - 1 : End(j) <= starts[i]
  /\ \A p \in 1 .. From - 1 :
       IsBlank(source[p]) \/ \E i \in 1 .. Len(chunks) : p \in starts[i] .. End(i) - 1
  /\ \A i \in 1 .. Len(chunks) :
       /\ IsText(chunks[i])
       /\ Len(chunks[i]) <= MaxLen
       /\ (\A j \in 1 .. Len(chunks[i]) : IsBlank(chunks[i][j])) =>
            i = 1 /\ (source = << >> \/ IsBlank(source[1]))

\* "Split text into chunks at safe boundaries" (src/broker.rs:675): no text
\* makes the function panic.
SplitsSafely == splitting # "panic"

=============================================================================
