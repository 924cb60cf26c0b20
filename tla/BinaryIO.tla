------------------------------ MODULE BinaryIO ------------------------------
(***************************************************************************)
(* BinaryWriter and BinaryReader: a buffer is the sequence of what was     *)
(* written to it, each cell a value with the number of bytes it takes.     *)
(* Reading with another width than was written is reading garbage.         *)
(***************************************************************************)
EXTENDS SeqFolds, SequencesExt

\* BinaryWriter::Write<T>.
Cell(width, value) == [width |-> width, value |-> value]

\* BinaryWriter::Write of a string: its length in prefix bytes, then it.
StringCells(prefix, s) == <<Cell(prefix, Len(s)), Cell(Len(s), s)>>

\* BinaryWriter::GetPosition.
Bytes(cells) == SumOf([i \in DOMAIN cells |-> cells[i].width])

\* BinaryReader::Read<T> at cell c finds a value of that width.
Readable(cells, c, width) == c \in DOMAIN cells /\ cells[c].width = width

\* ReadStringU16, ReadStringU32: a length of prefix bytes and so many more.
StringReadable(cells, c, prefix) ==
  Readable(cells, c, prefix) /\ Readable(cells, c + 1, cells[c].value)
=============================================================================
