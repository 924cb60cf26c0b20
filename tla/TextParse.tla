----------------------------- MODULE TextParse -----------------------------
(***************************************************************************)
(* The class TextParse: the key|value lines that clients send and that the *)
(* handlers pass on.  A text is a sequence of the delimiters "|", "\n" and *)
(* "\r" and of words, each standing for a run of other characters; a       *)
(* TextParse is the sequence of its lines.                                 *)
(***************************************************************************)
EXTENDS SeqFolds

Bar == "|"
NewLine == "\n"
Return == "\r"

\* What reading an element of an empty std::vector gives: anything.
Undefined == <<"undefined">>

\* std::string::find: the first d at or after from, or the end of s.
Find(s, d, from) ==
  LET found == {i \in from .. Len(s) : s[i] = d}
  IN IF found = {} THEN Len(s) + 1
     ELSE CHOOSE i \in found : \A j \in found : i <= j

\* Mutant: the rest after the last delimiter is forgotten.
StringTokenizeNoRest(s, d) ==
  LET from[p \in 1 .. Len(s) + 2] ==
        LET cut == Find(s, d, p)
        IN IF cut > Len(s) THEN << >>
           ELSE (IF p = cut THEN << >> ELSE <<SubSeq(s, p, cut - 1)>>)
                  \o from[cut + 1]
  IN from[1]

\* The loop of StringTokenize, from position p on: one token up to the next
\* delimiter, kept unless it is empty, until the end is reached.
StringTokenize(s, d) ==
  LET from[p \in 1 .. Len(s) + 2] ==
        LET cut == Find(s, d, p)
            token == IF p = cut THEN << >> ELSE <<SubSeq(s, p, cut - 1)>>
        IN IF cut >= Len(s) THEN token ELSE token \o from[cut + 1]
  IN from[1]

Without(s, d) == Selected(s, [ch \in {s[i] : i \in DOMAIN s} \ {d} |-> ch])

\* Mutant: carriage returns are left in.
ParseKeepsReturns(text) == StringTokenize(text, NewLine)

\* TextParse::Parse: the lines that are not empty, carriage returns erased.
Parse(text) ==
  LET lines == StringTokenize(text, NewLine)
  IN [i \in DOMAIN lines |-> Without(lines[i], Return)]

\* Mutants: the key is looked for anywhere in a line; empty lines count.
GetAnywhere(data, key, index) ==
  LET tokens == [i \in DOMAIN data |-> StringTokenize(data[i], Bar)]
      found == {i \in DOMAIN data : \E j \in DOMAIN tokens[i] : tokens[i][j] = key}
      line == CHOOSE i \in found : \A j \in found : i <= j
  IN IF found = {} \/ index >= Len(tokens[line]) THEN << >>
     ELSE tokens[line][1 + index]
GetNoSkip(data, key, index) ==
  LET tokens == [i \in DOMAIN data |-> StringTokenize(data[i], Bar)]
      stops == {i \in DOMAIN data : tokens[i] = << >> \/ tokens[i][1] = key}
      line == CHOOSE i \in stops : \A j \in stops : i <= j
  IN IF stops = {} THEN << >>
     ELSE IF tokens[line] = << >> THEN Undefined
     ELSE IF index >= Len(tokens[line]) THEN << >>
     ELSE tokens[line][1 + index]

\* TextParse::Get with key_index 0: the index-th value of the first line whose
\* first token is key.  A line of delimiters alone has no first token.
Get(data, key, index) ==
  LET tokens == [i \in DOMAIN data |-> StringTokenize(data[i], Bar)]
      stops == {i \in DOMAIN data :
                  data[i] # << >> /\ (tokens[i] = << >> \/ tokens[i][1] = key)}
      line == CHOOSE i \in stops : \A j \in stops : i <= j
  IN IF stops = {} THEN << >>
     ELSE IF tokens[line] = << >> THEN Undefined
     ELSE IF index >= Len(tokens[line]) THEN << >>
     ELSE tokens[line][1 + index]

\* TextParse::Add.
Add(data, key, value) == Append(data, key \o <<Bar>> \o value)

\* TextParse::GetAsString, line by line.
GetAsString(data) ==
  LET lines[i \in 0 .. Len(data)] ==
        IF i = 0 THEN << >> ELSE lines[i - 1] \o data[i] \o <<NewLine>>
  IN lines[Len(data)]
=============================================================================
