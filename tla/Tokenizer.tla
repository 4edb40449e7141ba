------------------------------ MODULE Tokenizer ------------------------------
(***************************************************************************)
(* src/libswish3/tokenizer.c: a text becomes tokens of a TokenList.        *)
(*                                                                         *)
(* A character is a model value or a short string; Wide ones take two      *)
(* bytes, the others one.  Of the characters that are no letters, Marks    *)
(* may stand in a word but not at its ends, Breaks end it.  The buffer of  *)
(* a list is a sequence of bytes; a wide character is followed by Cont.    *)
(* The context of a token is left out.                                     *)
(***************************************************************************)
EXTENDS Integers, SequencesExt

CONSTANTS
  Char,                     \* the characters of texts
  Wide, Marks, Breaks,
  LowerChar,                \* tolower, where it changes a character
  MaxWordLen, MinWordLen,   \* of the analyzer; in bytes
  Block                     \* SWISH_TOKEN_LIST_SIZE

NUL  == "(0)"
Cont == "(...)"
BUMP == "(3)"               \* SWISH_TOKENPOS_BUMPER

\* A character that does not fit into the buffer of a word is never met: the
\* analyzer's maximum is 256.  What tolower changes is a letter, and so is what it becomes;
\* in UTF-8 it may need more bytes or fewer.
ASSUME CharAssumption ==
  /\ Wide \cup Marks \cup Breaks \subseteq Char /\ {NUL, Cont} \cap Char = {}
  /\ DOMAIN LowerChar \subseteq Char \ (Marks \cup Breaks)
  /\ \A c \in DOMAIN LowerChar : LowerChar[c] \in Char \ (Marks \cup Breaks)
  /\ Marks \cap Breaks = {} /\ Wide \cap (Marks \cup Breaks) = {} /\ BUMP \in Breaks
  /\ MaxWordLen \in Nat /\ MaxWordLen >= 3 /\ MinWordLen \in Nat /\ Block \in Nat \ {0}

\* FoldLeft whose arguments TLC evaluates once in every step, not at every use.
Fold(Op(_, _), base, seq) ==
  FoldLeft(LAMBDA acc, x : CHOOSE r \in {Op(a, e) : a \in {acc}, e \in {x}} : TRUE, base, seq)

InWord(c) == c \notin Breaks
Low(c)    == IF c \in DOMAIN LowerChar THEN LowerChar[c] ELSE c
Size(c)   == IF c \in Wide THEN 2 ELSE 1
Encoded(bytes, c) == bytes \o (IF c \in Wide THEN <<c, Cont>> ELSE <<c>>)
Bytes(s)  == FoldLeft(Encoded, << >>, s)
Width(s)  == Len(Bytes(s))
IsAscii(s) == \A i \in DOMAIN s : s[i] \notin Wide       \* swish_is_ascii

-----------------------------------------------------------------------------
(* The list.                                                               *)

\* "made" counts the tokens of all lists, and is the name of the last one.
NewList(made) == [buf |-> << >>, tokens |-> << >>, pos |-> 0, size |-> Block, made |-> made]

Grown(n, size) == IF n >= Block /\ n % Block = 0 THEN n + Block ELSE size

\* Fault: the list never grows.
AddTokenInPlace(list, bytes, meta) ==
  [buf    |-> list.buf \o bytes, pos |-> list.pos + 1, made |-> list.made + 1,
   size   |-> list.size,
   tokens |-> Append(list.tokens,
                     [n |-> list.made + 1, meta |-> meta, offset |-> Len(list.buf),
                      len |-> Len(bytes) - 1, pos |-> list.pos + 1])]

\* swish_token_list_add_token; bytes end in NUL, which len does not count.
AddToken(list, bytes, meta) ==
  [buf    |-> list.buf \o bytes, pos |-> list.pos + 1, made |-> list.made + 1,
   size   |-> Grown(Len(list.tokens), list.size),
   tokens |-> Append(list.tokens,
                     [n |-> list.made + 1, meta |-> meta, offset |-> Len(list.buf),
                      len |-> Len(bytes) - 1, pos |-> list.pos + 1])]

TokenBytes(list, t) == SubSeq(list.buf, t.offset + 1, t.offset + t.len)

-----------------------------------------------------------------------------
(* strip_ascii_chrs and strip_utf8_chrs.                                   *)

Kept(s)  == {i \in DOMAIN s : s[i] \notin Marks}
Least(S) == CHOOSE i \in S : \A j \in S : i <= j
Most(S)  == CHOOSE i \in S : \A j \in S : j <= i

WithoutEnd(s) == IF Kept(s) = {} THEN << >> ELSE SubSeq(s, 1, Most(Kept(s)))
Stripped(s) ==
  IF Kept(s) = {} THEN << >> ELSE SubSeq(s, Least(Kept(s)), Most(Kept(s)))

\* How far strip_utf8_chrs moves its own pointer: at the n-th leading mark not
\* by one but by all the characters it has looked at.
Next1(bytes, i) == i + (IF i < Len(bytes) /\ bytes[i + 1] \in Wide THEN 2 ELSE 1)
Move(s, byte) ==
  IF s.at >= Len(s.bytes) \/ s.bytes[s.at + 1] \notin Marks THEN s
  ELSE LET ahead == Next1(s.bytes, s.at + s.seen) - s.at
       IN [s EXCEPT !.at = s.at + ahead, !.seen = ahead]
Walk(bytes) == Fold(Move, [bytes |-> bytes, at |-> 0, seen |-> 0], bytes)
Skipped(bytes) == IF Walk(bytes).at < Len(bytes) THEN Walk(bytes).at ELSE Len(bytes)

\* Both loops of strip_utf8_chrs copy the character they look at into chr[5], with
\* what they have passed since they began: the one from the end the NUL behind the
\* word and the marks before it, the one from the start as many bytes as it will
\* skip.  Five bytes and their NUL do not fit, or it looks behind the word's two NULs.
ChrOverrun(word) ==
  LET from  == IF Kept(word) = {} THEN 1 ELSE Most(Kept(word))
      bytes == Bytes(WithoutEnd(word))
      end   == Walk(bytes)
      looks == end.at + (IF end.at < Len(bytes) THEN end.seen ELSE 0)
  IN \/ 1 + Width(SubSeq(word, from, Len(word))) > 4
     \/ (IF end.at < Len(bytes) THEN Next1(bytes, looks) - end.at ELSE end.seen) > 4
     \/ looks > Len(bytes) + 1

\* The buffer has MaxWordLen bytes; a word is ended by one NUL, in UTF-8 by two.
BufferOverrun(word, ascii) == Width(word) + (IF ascii THEN 1 ELSE 2) > MaxWordLen

\* A word that has ended, if no overrun has changed it.  Of one in UTF-8 the leading marks stay where they
\* are, but as many bytes are cut off at its end.
EndWord(list, word, meta, ascii) ==
  LET bytes == Append(Bytes(IF ascii THEN Stripped(word) ELSE WithoutEnd(word)), NUL)
      len   == Len(bytes) - (IF ascii THEN 0 ELSE Skipped(SubSeq(bytes, 1, Len(bytes) - 1)))
  IN IF bytes = <<NUL>> \/ len < MinWordLen THEN list
     ELSE AddToken(list, SubSeq(bytes, 1, len), meta)

-----------------------------------------------------------------------------
(* swish_tokenize_ascii and swish_tokenize_utf8, which differ in how a     *)
(* word is stripped, and in that a character may not fit into what is left *)
(* of MaxWordLen.                                                          *)

\* A break; the bumper takes a position.
AtBreak(st, c, meta, ascii) ==
  LET list == IF st.inside THEN EndWord(st.list, st.word, meta, ascii) ELSE st.list
  IN [list |-> IF c = BUMP THEN [list EXCEPT !.pos = @ + 1] ELSE list,
      word |-> << >>, inside |-> FALSE]

\* The first character of a word; if it is the last of the text, it is added
\* as it is.
AtStart(st, c, last, meta) ==
  IF last /\ MinWordLen = 1
  THEN [list |-> AddToken(st.list, Append(Bytes(<<c>>), NUL), meta), word |-> << >>,
        inside |-> FALSE]
  ELSE [st EXCEPT !.word = <<c>>, !.inside = TRUE]

\* Fault: a word that is full goes on.
InsideOn(st, c, last, meta, ascii) ==
  LET word == Append(st.word, c)
  IN IF last
     THEN [list |-> EndWord(st.list, word, meta, ascii), word |-> << >>, inside |-> FALSE]
     ELSE [st EXCEPT !.word = word]

\* A character that does not fit is dropped, with the word if it is the last.
Inside(st, c, last, meta, ascii) ==
  LET word == Append(st.word, c)
  IN IF Width(word) > MaxWordLen THEN st
     ELSE IF Width(word) = MaxWordLen \/ last
     THEN [list |-> EndWord(st.list, word, meta, ascii), word |-> << >>, inside |-> FALSE]
     ELSE [st EXCEPT !.word = word]

\* The characters of a text, as the tokenizers meet them.
Met(text, meta) ==
  LET ascii == IsAscii(text)
  IN [i \in DOMAIN text |->
        [c |-> Low(text[i]), last |-> i = Len(text), meta |-> meta, ascii |-> ascii]]

Step(st, x) ==
  IF ~InWord(x.c) THEN AtBreak(st, x.c, x.meta, x.ascii)
  ELSE IF ~st.inside THEN AtStart(st, x.c, x.last, x.meta)
  ELSE Inside(st, x.c, x.last, x.meta, x.ascii)

Tokenize(list, text, meta) ==
  Fold(Step, [list |-> list, word |-> << >>, inside |-> FALSE], Met(text, meta)).list

\* The words that the characters of a text end.
EndedBy(st, x) ==
  LET word == Append(st.word, x.c)
  IN CASE ~st.inside      -> {}
       [] ~InWord(x.c)    -> {st.word}
       [] OTHER           -> IF Width(word) = MaxWordLen \/ (x.last /\ Width(word) < MaxWordLen)
                             THEN {word} ELSE {}
Watch(s, x) == [st |-> Step(s.st, x), words |-> s.words \cup EndedBy(s.st, x)]
EndedWords(text) ==
  Fold(Watch, [st |-> [list |-> NewList(0), word |-> << >>, inside |-> FALSE], words |-> {}],
       Met(text, 0)).words

\* Tokenizing this text writes behind a buffer, so that anything may come of it.
Overruns(text) ==
  \E word \in EndedWords(text) :
    BufferOverrun(word, IsAscii(text)) \/ (~IsAscii(text) /\ ChrOverrun(word))

-----------------------------------------------------------------------------
(* What the tokens of a text should be.                                    *)

\* The places <<first, last>> of its words: the longest runs without a break,
\* cut into pieces of MaxWordLen.
WordRuns(text) ==
  {r \in (DOMAIN text) \X (DOMAIN text) :
     /\ r[1] <= r[2] /\ \A i \in r[1]..r[2] : InWord(text[i])
     /\ r[1] > 1 => ~InWord(text[r[1] - 1])
     /\ r[2] < Len(text) => ~InWord(text[r[2] + 1])}
Piece(r, k) ==
  <<r[1] + k * MaxWordLen,
    IF r[1] + (k + 1) * MaxWordLen - 1 < r[2] THEN r[1] + (k + 1) * MaxWordLen - 1 ELSE r[2]>>
Pieces(text) ==
  UNION {{Piece(r, k) : k \in 0..((r[2] - r[1]) \div MaxWordLen)} : r \in WordRuns(text)}

\* Without the marks at its ends, unless the text ends in a piece of one character.
Lowered(text, p) == [i \in 1..(p[2] - p[1] + 1) |-> Low(text[p[1] + i - 1])]
PieceWord(text, p) ==
  LET word == Lowered(text, p)
  IN IF p[1] = Len(text) /\ MinWordLen = 1 THEN word ELSE Stripped(word)
WordsAt(text) == {p \in Pieces(text) : PieceWord(text, p) # << >>}

\* Words and bumpers take one position each, in order.
PositionOf(text, p) ==
  Cardinality({q \in WordsAt(text) : q[1] <= p[1]})
    + Cardinality({i \in 1..p[1] : text[i] = BUMP})
Expected(text) ==
  {[word |-> Bytes(PieceWord(text, p)), pos |-> PositionOf(text, p)] : p \in WordsAt(text)}

\* Texts without those words that the UTF-8 tokenizer mangles, cuts or writes
\* behind chr[5] for.  A word that is ended right behind its buffer stays: where
\* that goes well, the tokens are what they should be.
Gentle(text) ==
  IsAscii(text) \/ \A r \in WordRuns(text) :
    /\ text[r[1]] \notin Marks /\ Width(Lowered(text, r)) <= MaxWordLen
    /\ ~ChrOverrun(Lowered(text, r))
=============================================================================
