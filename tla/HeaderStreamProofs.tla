-------------------------- MODULE HeaderStreamProofs --------------------------
(***************************************************************************)
(* That HeaderStream implements DocStream, for all documents: whoever      *)
(* sends documents as they should be has each of them delivered, with its  *)
(* own header and its own body, however the bytes arrive.                  *)
(***************************************************************************)
EXTENDS HeaderStream, SequenceTheorems, WellFoundedInduction, TLAPS

Bytes == HeaderLines \cup {NL, TEXT}

Heads(doc) == Len(doc.headers)

-----------------------------------------------------------------------------
(* A document as it is written.                                            *)

LEMMA ByteKinds ==
  /\ \A b \in HeaderLines : IsHeader(b) /\ b # NL /\ b # TEXT
  /\ ~IsHeader(NL) /\ ~IsHeader(TEXT) /\ NL # TEXT
BY DEF HeaderLines, IsHeader, NL, TEXT, Byte, Fields, Named

LEMMA HalfOdd == \A i \in Nat : i > 0 => (2 * i - 1) % 2 = 1 /\ ((2 * i - 1) + 1) \div 2 = i
OBVIOUS

LEMMA Even == \A i \in Nat : (2 * i) % 2 = 0
OBVIOUS

LEMMA WrittenForm ==
  ASSUME NEW doc \in Documents
  PROVE  /\ Heads(doc) \in Nat /\ Len(doc.body) \in Nat
         /\ Written(doc) \in Seq(Bytes)
         /\ Len(Written(doc)) = 2 * Heads(doc) + 1 + Len(doc.body)
         /\ \A i \in 1..Heads(doc) : Written(doc)[2 * i - 1] = doc.headers[i] /\ Written(doc)[2 * i] = NL
         /\ Written(doc)[2 * Heads(doc) + 1] = NL
         /\ \A j \in 1..Len(doc.body) : Written(doc)[2 * Heads(doc) + 1 + j] = doc.body[j]
<1> DEFINE h == Heads(doc)
           top == [i \in 1..(2 * h + 1) |->
                     IF i % 2 = 1 /\ i < 2 * h THEN doc.headers[(i + 1) \div 2] ELSE NL]
<1>1. h \in Nat /\ doc.headers \in Seq(HeaderLines) /\ doc.body \in Seq({NL, TEXT})
      /\ Len(doc.body) \in Nat
  BY DocumentAssumption DEF Heads
<1>2. Written(doc) = top \o doc.body
  BY DEF Written, Heads
<1>3. \A i \in 1..(2 * h + 1) : i % 2 = 1 /\ i < 2 * h => (i + 1) \div 2 \in 1..h
  BY <1>1
<1>4. top \in Seq(Bytes) /\ Len(top) = 2 * h + 1
  <2>1. ASSUME NEW i \in 1..(2 * h + 1)
        PROVE  (IF i % 2 = 1 /\ i < 2 * h THEN doc.headers[(i + 1) \div 2] ELSE NL) \in Bytes
    BY <1>1, <1>3 DEF Bytes, Heads
  <2>2. 2 * h + 1 \in Nat /\ top \in [1..(2 * h + 1) -> Bytes]
    BY <1>1, <2>1
  <2>3. \A n \in Nat : \A f \in [1..n -> Bytes] : f \in Seq(Bytes) /\ Len(f) = n
    BY SeqDef
  <2> HIDE DEF h, top
  <2> QED BY <2>2, <2>3
<1>5. ASSUME NEW i \in 1..h PROVE top[2 * i - 1] = doc.headers[i] /\ top[2 * i] = NL
  <2>1. 2 * i - 1 \in 1..(2 * h + 1) /\ 2 * i \in 1..(2 * h + 1) /\ 2 * i - 1 < 2 * h
    BY <1>1
  <2>2. (2 * i - 1) % 2 = 1 /\ ((2 * i - 1) + 1) \div 2 = i /\ (2 * i) % 2 = 0
    BY <1>1, HalfOdd, Even
  <2> QED BY <2>1, <2>2
<1>6. top[2 * h + 1] = NL
  BY <1>1
<1>7. doc.body \in Seq(Bytes)
  BY <1>1 DEF Bytes
<1> HIDE DEF h, top
<1>8. /\ top \o doc.body \in Seq(Bytes)
      /\ Len(top \o doc.body) = 2 * h + 1 + Len(doc.body)
      /\ \A i \in 1..(2 * h + 1) : (top \o doc.body)[i] = top[i]
      /\ \A j \in 1..Len(doc.body) : (top \o doc.body)[2 * h + 1 + j] = doc.body[j]
  <2>1. Len(top) = 2 * h + 1 /\ 2 * h + 1 \in Nat
    BY <1>1, <1>4
  <2>2. /\ top \o doc.body \in Seq(Bytes)
        /\ Len(top \o doc.body) = Len(top) + Len(doc.body)
        /\ \A i \in 1..(Len(top) + Len(doc.body)) :
             (top \o doc.body)[i] = IF i <= Len(top) THEN top[i] ELSE doc.body[i - Len(top)]
    BY <1>4, <1>7, ConcatProperties
  <2>3. \A i \in 1..(2 * h + 1) : i \in 1..(Len(top) + Len(doc.body)) /\ i <= Len(top)
    <3>1. \A a, b \in Nat : \A i \in 1..a : i \in 1..(a + b) /\ i <= a
      OBVIOUS
    <3> QED BY <1>1, <2>1, <3>1
  <2>4. \A j \in 1..Len(doc.body) :
          /\ Len(top) + j \in 1..(Len(top) + Len(doc.body))
          /\ ~(Len(top) + j <= Len(top)) /\ (Len(top) + j) - Len(top) = j
    BY <1>1, <2>1
  <2> QED BY <2>1, <2>2, <2>3, <2>4
<1>9. \A i \in 1..h : 2 * i - 1 \in 1..(2 * h + 1) /\ 2 * i \in 1..(2 * h + 1)
  BY <1>1
<1>10. \A i \in 1..h : (top \o doc.body)[2 * i - 1] = doc.headers[i] /\ (top \o doc.body)[2 * i] = NL
  BY <1>5, <1>8, <1>9
<1>11. (top \o doc.body)[2 * h + 1] = NL
  <2>1. 2 * h + 1 \in 1..(2 * h + 1)
    BY <1>1
  <2> QED BY <1>6, <1>8, <2>1
<1> QED BY <1>1, <1>2, <1>8, <1>10, <1>11 DEF h

-----------------------------------------------------------------------------
(* What is left of a sequence of bytes when the first c are read.          *)

From(s, c) == SubSeq(s, c + 1, Len(s))

LEMMA FromProperties ==
  ASSUME NEW S, NEW s \in Seq(S), NEW c \in Nat
  PROVE  /\ From(s, c) \in Seq(S)
         /\ Len(From(s, c)) = IF c <= Len(s) THEN Len(s) - c ELSE 0
         /\ \A i \in 1..Len(From(s, c)) : i + c \in 1..Len(s) /\ From(s, c)[i] = s[i + c]
<1>1. Len(s) \in Nat /\ \A i \in (c + 1)..Len(s) : s[i] \in S
  BY ElementOfSeq, LenProperties
<1>2. /\ SubSeq(s, c + 1, Len(s)) \in Seq(S)
      /\ Len(SubSeq(s, c + 1, Len(s))) =
           IF c + 1 <= Len(s) THEN Len(s) - (c + 1) + 1 ELSE 0
      /\ \A i \in 1..(Len(s) - (c + 1) + 1) : SubSeq(s, c + 1, Len(s))[i] = s[(c + 1) + i - 1]
  BY <1>1, SubSeqProperties
<1>3. \A i \in 1..Len(From(s, c)) :
        i \in 1..(Len(s) - (c + 1) + 1) /\ (c + 1) + i - 1 = i + c /\ i + c \in 1..Len(s)
  BY <1>1, <1>2 DEF From
<1> QED BY <1>1, <1>2, <1>3 DEF From

LEMMA FromIs ==
  ASSUME NEW S, NEW s \in Seq(S), NEW u \in Seq(S), NEW c \in Nat, c <= Len(s),
         Len(u) = Len(s) - c, \A i \in 1..Len(u) : u[i] = s[i + c]
  PROVE  From(s, c) = u
<1>1. Len(s) \in Nat /\ Len(u) \in Nat
  BY LenProperties
<1>2. /\ From(s, c) \in Seq(S) /\ Len(From(s, c)) = Len(u)
      /\ \A i \in 1..Len(From(s, c)) : From(s, c)[i] = s[i + c]
  BY <1>1, FromProperties
<1> QED BY <1>2, SeqEqual

LEMMA FromZero ==
  ASSUME NEW S, NEW s \in Seq(S)
  PROVE  From(s, 0) = s
<1>1. Len(s) \in Nat
  BY LenProperties
<1> QED BY <1>1, FromIs

LEMMA FromFrom ==
  ASSUME NEW S, NEW s \in Seq(S), NEW c \in Nat, NEW e \in Nat
  PROVE  From(From(s, c), e) = From(s, c + e)
<1>1. Len(s) \in Nat /\ c + e \in Nat
  BY LenProperties
<1> DEFINE a == From(s, c)
           b == From(a, e)
           x == From(s, c + e)
<1>2. /\ a \in Seq(S) /\ Len(a) = IF c <= Len(s) THEN Len(s) - c ELSE 0
      /\ \A i \in 1..Len(a) : a[i] = s[i + c]
  BY FromProperties
<1>3. /\ b \in Seq(S) /\ Len(b) = IF e <= Len(a) THEN Len(a) - e ELSE 0
      /\ \A i \in 1..Len(b) : i + e \in 1..Len(a) /\ b[i] = a[i + e]
  BY <1>2, FromProperties
<1>4. /\ x \in Seq(S) /\ Len(x) = IF c + e <= Len(s) THEN Len(s) - (c + e) ELSE 0
      /\ \A i \in 1..Len(x) : x[i] = s[i + (c + e)]
  BY <1>1, FromProperties
<1>5. Len(a) \in Nat /\ Len(b) \in Nat /\ Len(x) \in Nat
  BY <1>2, <1>3, <1>4, LenProperties
<1> HIDE DEF a, b, x
<1>6. Len(b) = Len(x)
  BY <1>1, <1>2, <1>3, <1>4, <1>5
<1>7. ASSUME NEW i \in 1..Len(b) PROVE b[i] = x[i]
  <2>1. b[i] = s[(i + e) + c] /\ x[i] = s[i + (c + e)]
    BY <1>2, <1>3, <1>4, <1>6
  <2>2. (i + e) + c = i + (c + e)
    BY <1>5
  <2> QED BY <2>1, <2>2
<1>8. b = x
  BY <1>3, <1>4, <1>6, <1>7, SeqEqual
<1> QED BY <1>8 DEF a, b, x

LEMMA FromConcat ==
  ASSUME NEW S, NEW s \in Seq(S), NEW u \in Seq(S), NEW c \in Nat, c <= Len(s)
  PROVE  From(s \o u, c) = From(s, c) \o u
<1> DEFINE a == From(s, c)
           b == a \o u
<1>1. Len(s) \in Nat /\ Len(u) \in Nat
  BY LenProperties
<1>2. /\ a \in Seq(S) /\ Len(a) = Len(s) - c
      /\ \A i \in 1..Len(a) : a[i] = s[i + c]
  BY FromProperties
<1>3. /\ b \in Seq(S) /\ Len(b) = Len(a) + Len(u)
      /\ \A i \in 1..(Len(a) + Len(u)) : b[i] = IF i <= Len(a) THEN a[i] ELSE u[i - Len(a)]
  BY <1>2, ConcatProperties
<1>4. /\ s \o u \in Seq(S) /\ Len(s \o u) = Len(s) + Len(u)
      /\ \A i \in 1..(Len(s) + Len(u)) :
           (s \o u)[i] = IF i <= Len(s) THEN s[i] ELSE u[i - Len(s)]
  BY ConcatProperties
<1> HIDE DEF a, b
<1>5. c <= Len(s \o u) /\ Len(b) = Len(s \o u) - c
  BY <1>1, <1>2, <1>3, <1>4
<1>6. ASSUME NEW i \in 1..Len(b) PROVE b[i] = (s \o u)[i + c]
  <2>1. i + c \in 1..(Len(s) + Len(u)) /\ i \in 1..(Len(a) + Len(u))
    BY <1>1, <1>2, <1>3
  <2>2. CASE i <= Len(a)
    BY <1>1, <1>2, <1>3, <1>4, <2>1, <2>2
  <2>3. CASE ~(i <= Len(a))
    <3>1. ~(i + c <= Len(s)) /\ (i + c) - Len(s) = i - Len(a)
      BY <1>1, <1>2, <2>3
    <3> QED BY <1>3, <1>4, <2>1, <2>3, <3>1
  <2> QED BY <2>2, <2>3
<1>7. From(s \o u, c) = b
  BY <1>3, <1>4, <1>5, <1>6, FromIs
<1> QED BY <1>7 DEF a, b

LEMMA FromWhole ==
  ASSUME NEW S, NEW s \in Seq(S), NEW u \in Seq(S)
  PROVE  From(s \o u, Len(s)) = u
<1>1. Len(s) \in Nat /\ From(s, Len(s)) \in Seq(S) /\ Len(From(s, Len(s))) = 0
  BY LenProperties, FromProperties
<1>2. From(s, Len(s)) = << >>
  BY <1>1, EmptySeq
<1> QED BY <1>1, <1>2, FromConcat, ConcatEmptySeq

-----------------------------------------------------------------------------
(* What fgets returns while the header of a document is read.              *)

\* What is yet to come starts with this document, as far as it goes.
Starts(x, doc) ==
  /\ x \in Seq(Bytes)
  /\ \A i \in 1..Len(x) : i <= Len(Written(doc)) => x[i] = Written(doc)[i]

LEMMA FirstNewline ==
  ASSUME NEW e \in 1..Len(pipe), Len(pipe) \in Nat, pipe[e] = NL,
         \A i \in 1..(e - 1) : pipe[i] # NL
  PROVE  LineEnd = e
<1>1. e \in Newlines /\ \A j \in Newlines : e <= j
  BY DEF Newlines
<1>2. \A i \in Newlines : (\A j \in Newlines : i <= j) => i = e
  BY <1>1 DEF Newlines
<1> QED BY <1>1, <1>2 DEF LineEnd

\* A header line is read with its newline, which may not have been sent.
LEMMA HeaderLineNext ==
  ASSUME NEW doc \in Documents, NEW x, Starts(x, doc), NEW k \in Nat, k < Heads(doc),
         pipe = From(x, 2 * k), pipe # << >>
  PROVE  Line = <<doc.headers[k + 1]>> /\ Drop(LineEnd) = From(x, 2 * (k + 1))
<1> DEFINE h == Heads(doc)
           W == Written(doc)
<1>1. x \in Seq(Bytes) /\ Len(x) \in Nat /\ 2 * k \in Nat /\ h \in Nat
      /\ pipe \in Seq(Bytes) /\ Len(pipe) \in Nat
  BY FromProperties, LenProperties, WrittenForm DEF Starts
<1>2. /\ Len(pipe) = IF 2 * k <= Len(x) THEN Len(x) - 2 * k ELSE 0
      /\ \A i \in 1..Len(pipe) : i + 2 * k \in 1..Len(x) /\ pipe[i] = x[i + 2 * k]
  BY <1>1, FromProperties
<1>3. Len(pipe) > 0
  BY <1>1, EmptySeq
<1>4. /\ Len(W) > 2 * h /\ Len(W) \in Nat
      /\ W[2 * (k + 1) - 1] = doc.headers[k + 1] /\ W[2 * (k + 1)] = NL
      /\ doc.headers[k + 1] \in HeaderLines
  <2>1. k + 1 \in 1..h
    BY <1>1
  <2>2. doc.headers \in Seq(HeaderLines) /\ Len(W) = 2 * h + 1 + Len(doc.body)
        /\ Len(doc.body) \in Nat
    BY WrittenForm, DocumentAssumption
  <2>3. doc.headers[k + 1] \in HeaderLines
    BY <2>1, <2>2, ElementOfSeq DEF Heads
  <2>4. W[2 * (k + 1) - 1] = doc.headers[k + 1] /\ W[2 * (k + 1)] = NL
    BY <2>1, WrittenForm
  <2>5. Len(W) > 2 * h /\ Len(W) \in Nat
    <3>1. PICK a, b, n : a = h /\ b = Len(doc.body) /\ n = Len(W)
      OBVIOUS
    <3>2. a \in Nat /\ b \in Nat /\ n = 2 * a + 1 + b
      BY <1>1, <2>2, <3>1
    <3>3. n > 2 * a /\ n \in Nat
      BY <3>2
    <3> HIDE DEF W, h
    <3> QED BY <3>1, <3>3
  <2> QED BY <2>3, <2>4, <2>5
<1>5. pipe[1] = doc.headers[k + 1] /\ pipe[1] # NL
  <2>1. 1 \in 1..Len(pipe) /\ 1 + 2 * k = 2 * (k + 1) - 1 /\ 1 + 2 * k <= Len(W)
    BY <1>1, <1>3, <1>4
  <2>2. pipe[1] = x[1 + 2 * k] /\ x[1 + 2 * k] = W[1 + 2 * k]
    BY <1>2, <2>1 DEF Starts
  <2> QED BY <1>4, <2>1, <2>2, ByteKinds
<1>6. LineEnd = 2
  <2>1. CASE Len(pipe) >= 2
    <3>1. 2 \in 1..Len(pipe) /\ 2 + 2 * k = 2 * (k + 1) /\ 2 + 2 * k <= Len(W)
      BY <1>1, <1>4, <2>1
    <3>2. pipe[2] = x[2 + 2 * k] /\ x[2 + 2 * k] = W[2 + 2 * k]
      BY <1>2, <3>1 DEF Starts
    <3>3. pipe[2] = NL /\ \A i \in 1..(2 - 1) : i = 1
      BY <1>4, <3>1, <3>2
    <3> QED BY <1>1, <1>5, <3>1, <3>3, FirstNewline
  <2>2. CASE Len(pipe) < 2
    <3>1. Len(pipe) = 1
      <4>1. \A n \in Nat : n > 0 /\ n < 2 => n = 1
        OBVIOUS
      <4> QED BY <1>1, <1>3, <2>2, <4>1
    <3>2. \A i \in 1..1 : i = 1
      OBVIOUS
    <3>3. Newlines = {}
      BY <1>5, <3>1, <3>2 DEF Newlines
    <3>4. 1 + 1 = 2
      OBVIOUS
    <3> QED BY <3>1, <3>3, <3>4 DEF LineEnd
  <2> QED BY <1>1, <2>1, <2>2
<1>7. Line = <<pipe[1]>>
  <2>1. 1 \in 1..Len(pipe)
    BY <1>1, <1>3
  <2>2. SubSeq(pipe, 1, 1) = <<pipe[1]>>
    <3>1. \A i \in 1..1 : pipe[i] \in Bytes
      BY <1>1, <2>1, ElementOfSeq
    <3>2. /\ SubSeq(pipe, 1, 1) \in Seq(Bytes) /\ Len(SubSeq(pipe, 1, 1)) = 1
          /\ \A i \in 1..(1 - 1 + 1) : SubSeq(pipe, 1, 1)[i] = pipe[1 + i - 1]
      BY <3>1, SubSeqProperties
    <3>3. <<pipe[1]>> \in Seq(Bytes) /\ Len(<<pipe[1]>>) = 1 /\ <<pipe[1]>>[1] = pipe[1]
      BY <3>1
    <3>4. \A i \in 1..1 : i = 1 /\ i \in 1..(1 - 1 + 1) /\ 1 + i - 1 = 1
      OBVIOUS
    <3>5. \A i \in 1..1 : SubSeq(pipe, 1, 1)[i] = <<pipe[1]>>[i]
      BY <3>2, <3>3, <3>4
    <3> QED BY <3>2, <3>3, <3>5, SeqEqual
  <2> QED BY <1>6, <2>2 DEF Line
<1>8. Drop(2) = From(x, 2 * (k + 1))
  <2>1. From(pipe, 2) = From(x, 2 * k + 2) /\ 2 * k + 2 = 2 * (k + 1)
    BY <1>1, FromFrom
  <2> QED BY <2>1 DEF Drop, From
<1> QED BY <1>5, <1>6, <1>7, <1>8

\* After the header lines comes the blank one.
LEMMA BlankLineNext ==
  ASSUME NEW doc \in Documents, NEW x, Starts(x, doc),
         pipe = From(x, 2 * Heads(doc)), pipe # << >>
  PROVE  Line = << >> /\ Drop(LineEnd) = From(x, 2 * Heads(doc) + 1)
<1> DEFINE h == Heads(doc)
           W == Written(doc)
<1>1. x \in Seq(Bytes) /\ Len(x) \in Nat /\ 2 * h \in Nat /\ h \in Nat
      /\ pipe \in Seq(Bytes) /\ Len(pipe) \in Nat
  BY FromProperties, LenProperties, WrittenForm DEF Starts
<1>2. \A i \in 1..Len(pipe) : i + 2 * h \in 1..Len(x) /\ pipe[i] = x[i + 2 * h]
  BY <1>1, FromProperties
<1>3. 1 \in 1..Len(pipe)
  BY <1>1, EmptySeq
<1>4. 1 + 2 * h <= Len(W) /\ W[1 + 2 * h] = NL
  <2>1. Len(doc.body) \in Nat /\ Len(W) = 2 * h + 1 + Len(doc.body) /\ W[2 * h + 1] = NL
    BY WrittenForm
  <2>2. 2 * h + 1 = 1 + 2 * h
    BY <1>1
  <2> QED BY <1>1, <2>1, <2>2
<1>5. pipe[1] = NL
  BY <1>2, <1>3, <1>4 DEF Starts
<1>6. LineEnd = 1
  BY <1>1, <1>3, <1>5, FirstNewline
<1>7. Line = << >>
  BY <1>6, SubSeqEmpty DEF Line
<1>8. Drop(1) = From(x, 2 * h + 1)
  <2>1. From(pipe, 1) = From(x, 2 * h + 1)
    BY <1>1, FromFrom
  <2> QED BY <2>1 DEF Drop, From
<1> QED BY <1>6, <1>7, <1>8

-----------------------------------------------------------------------------
(* The header of a document as it should be.                               *)

\* These are its header lines, all read.
HeadOf(hb, doc) ==
  /\ Len(hb) = Heads(doc)
  /\ \A i \in 1..Heads(doc) : hb[i] = <<doc.headers[i]>>

\* The one line of a field, or none, is what both the code and a reader see.
LEMMA FieldOfHead ==
  ASSUME NEW doc \in Documents, Intact(doc), NEW hb, HeadOf(hb, doc), NEW f \in Named
  PROVE  /\ NumOf(hb, f) = Value(doc, f, NL).num
         /\ StrOf(hb, f) = Value(doc, f, NL).str
<1> DEFINE h == Heads(doc)
           fits(b) == b.kind = f
<1>1. \A i \in 1..h : hb[i][1] = doc.headers[i]
  BY DEF HeadOf
<1>2. LinesOf(hb, f) = {i \in 1..h : fits(doc.headers[i])}
  BY <1>1 DEF LinesOf, HeadOf
<1>3. CASE \E i \in 1..h : fits(doc.headers[i])
  <2>1. PICK m \in 1..h : fits(doc.headers[m])
    BY <1>3
  <2>2. \A i \in 1..h : fits(doc.headers[i]) => i = m
    BY <2>1 DEF Intact, Heads
  <2>3. LinesOf(hb, f) = {m} /\ m <= m
    <3>1. m \in Int
      OBVIOUS
    <3> QED BY <1>2, <2>1, <2>2, <3>1
  <2>4. LastOf(hb, f) = doc.headers[m]
    BY <1>1, <2>3 DEF LastOf
  <2>5. (CHOOSE i \in 1..h : fits(doc.headers[i])) = m
    BY <2>1, <2>2
  <2>6. Value(doc, f, NL) = doc.headers[m]
    BY <1>3, <2>5 DEF Value, Heads
  <2> QED BY <2>3, <2>4, <2>6 DEF NumOf, StrOf
<1>4. CASE ~\E i \in 1..h : fits(doc.headers[i])
  <2>1. LinesOf(hb, f) = {}
    BY <1>2, <1>4
  <2>2. Value(doc, f, NL) = NL
    BY <1>4 DEF Value, Heads
  <2> QED BY <2>1, <2>2 DEF NumOf, StrOf, NL, Byte
<1> QED BY <1>3, <1>4

LEMMA HeadOfIntact ==
  ASSUME NEW doc \in Documents, Intact(doc), NEW hb, HeadOf(hb, doc)
  PROVE  /\ Kept(hb) = hb /\ ~HeadFails(hb)
         /\ Checked(DocInfoOf(hb)) = Promise(doc).info
         /\ Promise(doc).info.size = Len(doc.body)
         /\ Promise(doc).info.parser \in KnownParsers
<1>1. Kept(hb) = hb
  BY DEF Kept, HeadOf, Intact, Heads
<1>2. \A i \in 1..Len(hb) : ~BadLine(hb[i])
  <2> SUFFICES ASSUME NEW i \in 1..Len(hb) PROVE ~BadLine(hb[i])
    OBVIOUS
  <2>1. i \in 1..Len(doc.headers) /\ hb[i] = <<doc.headers[i]>>
    BY DEF HeadOf, Heads
  <2>2. doc.headers[i] \in HeaderLines
    BY <2>1, DocumentAssumption, ElementOfSeq
  <2>3. Len(hb[i]) = 1 /\ hb[i][1] = doc.headers[i] /\ 1 \in 1..1
    BY <2>1
  <2> QED BY <2>2, <2>3, ByteKinds DEF BadLine
<1>3. /\ NumOf(hb, "Content-Length") = Length(doc)
      /\ NumOf(hb, "Last-Modified") = Modified(doc)
      /\ StrOf(hb, "Content-Location") = Location(doc)
      /\ StrOf(hb, "Content-Type") = Value(doc, "Content-Type", NL).str
      /\ StrOf(hb, "Parser-Type") = Value(doc, "Parser-Type", NL).str
  BY FieldOfHead DEF Named, Length, Modified, Location
<1>4. Length(doc) = Len(doc.body) /\ Length(doc) > 0 /\ Location(doc) # NULL
      /\ ParserType(doc) \in KnownParsers
  BY DEF Intact
<1>5. Length(doc) \notin {-1, 0}
  BY <1>4
<1>6. ~HeadFails(hb)
  BY <1>2, <1>3, <1>4, <1>5 DEF HeadFails, DocInfoOf
<1>7. Checked(DocInfoOf(hb)) = Promise(doc).info
  <2> DEFINE t == Value(doc, "Content-Type", NL).str
             q == Value(doc, "Parser-Type", NL).str
             info == [size |-> Length(doc), mtime |-> Modified(doc), uri |-> Location(doc),
                      mime |-> t, parser |-> q, action |-> NULL]
  <2>1. DocInfoOf(hb) = info
    BY <1>3 DEF DocInfoOf
  <2>2. Type(doc) = IF info.mime = NULL THEN MimeOf(info.uri) ELSE info.mime
    BY DEF Type
  <2>3. ParserType(doc) = IF info.parser = NULL THEN ParserOf(Type(doc)) ELSE info.parser
    BY DEF ParserType
  <2>4. Checked(info) = [info EXCEPT !.mime = Type(doc), !.parser = ParserType(doc)]
    BY <2>2, <2>3 DEF Checked
  <2>5. [info EXCEPT !.mime = Type(doc), !.parser = ParserType(doc)] = Promise(doc).info
    <3>1. [info EXCEPT !.mime = Type(doc), !.parser = ParserType(doc)]
            = [size |-> Length(doc), mtime |-> Modified(doc), uri |-> Location(doc),
               mime |-> Type(doc), parser |-> ParserType(doc), action |-> NULL]
      <4> DEFINE m == Type(doc)
                 r == ParserType(doc)
                 S == [size : {Length(doc)}, mtime : {Modified(doc)}, uri : {Location(doc)},
                       mime : {t, m}, parser : {q, r}, action : {NULL}]
                 new == [size |-> Length(doc), mtime |-> Modified(doc), uri |-> Location(doc),
                         mime |-> m, parser |-> r, action |-> NULL]
      <4>1. info \in S /\ new \in S /\ info.size = Length(doc) /\ info.mtime = Modified(doc)
            /\ info.uri = Location(doc) /\ info.action = NULL /\ new.mime = m /\ new.parser = r
        OBVIOUS
      <4>2. [info EXCEPT !.mime = m, !.parser = r] \in S
        BY <4>1
      <4>3. /\ [info EXCEPT !.mime = m, !.parser = r].mime = m
            /\ [info EXCEPT !.mime = m, !.parser = r].parser = r
        BY <4>1
      <4> HIDE DEF info, m, r, new
      <4>4. [info EXCEPT !.mime = m, !.parser = r] = new
        BY <4>1, <4>2, <4>3
      <4> QED BY <4>4 DEF new, m, r
    <3>2. Promise(doc).info = [size |-> Length(doc), mtime |-> Modified(doc),
                               uri |-> Location(doc), mime |-> Type(doc),
                               parser |-> ParserType(doc), action |-> NULL]
      BY DEF Promise
    <3> QED BY <3>1, <3>2
  <2> HIDE DEF info
  <2> QED BY <2>1, <2>4, <2>5
<1> QED BY <1>1, <1>4, <1>6, <1>7 DEF Promise

-----------------------------------------------------------------------------
(* Types.                                                                  *)

LEMMA Greatest ==
  ASSUME NEW n \in Nat, NEW L \in SUBSET (1..n), L # {}
  PROVE  \E i \in L : \A j \in L : j <= i
<1> DEFINE T == {n - i : i \in L}
           R == OpToRel(<, Nat)
<1>1. T \in SUBSET Nat /\ T # {}
  <2>1. \A i \in 1..n : n - i \in Nat
    OBVIOUS
  <2>2. \A i \in L : i \in 1..n
    OBVIOUS
  <2> QED BY <2>1, <2>2
<1>2. \E k \in T : \A y \in T : <<y, k>> \notin R
  <2>1. IsWellFoundedOn(R, Nat)
    BY NatLessThanWellFounded
  <2> HIDE DEF T, R
  <2> QED BY <1>1, <2>1, WFMin
<1>3. PICK i \in L : \A j \in L : <<n - j, n - i>> \notin R
  BY <1>2
<1>4. ASSUME NEW j \in L PROVE j <= i
  <2>1. i \in 1..n /\ j \in 1..n
    OBVIOUS
  <2>2. n - i \in Nat /\ n - j \in Nat
    BY <2>1
  <2>3. ~(n - j < n - i)
    BY <1>3, <2>2 DEF OpToRel
  <2> QED BY <2>1, <2>3
<1> QED BY <1>4

\* A header that does not fail gives the length of a body, and a name.
LEMMA SizeOfHead ==
  ASSUME NEW hb \in Seq(Seq(Bytes) \ {<< >>}), ~HeadFails(hb)
  PROVE  /\ Checked(DocInfoOf(hb)).size \in Nat /\ Checked(DocInfoOf(hb)).size > 0
         /\ Checked(DocInfoOf(hb)).uri # NULL
<1> DEFINE info == DocInfoOf(hb)
           L == LinesOf(hb, "Content-Length")
<1>1. Len(hb) \in Nat /\ \A i \in 1..Len(hb) : hb[i][1] \in Bytes
  <2>1. ASSUME NEW i \in 1..Len(hb) PROVE hb[i][1] \in Bytes
    <3>1. hb[i] \in Seq(Bytes) /\ hb[i] # << >>
      BY ElementOfSeq
    <3>2. Len(hb[i]) \in Nat /\ Len(hb[i]) # 0
      BY <3>1, EmptySeq
    <3>3. 1 \in 1..Len(hb[i])
      BY <3>2
    <3> QED BY <3>1, <3>3, ElementOfSeq
  <2> QED BY <2>1, LenProperties
<1>2. NumOf(hb, "Content-Length") \in Nat \cup {-1}
  <2>1. CASE L = {}
    BY <2>1 DEF NumOf
  <2>2. CASE L # {}
    <3>1. PICK i \in L : \A j \in L : j <= i
      BY <1>1, <2>2, Greatest DEF LinesOf
    <3>2. \E m \in L : LastOf(hb, "Content-Length") = hb[m][1]
      BY <3>1 DEF LastOf
    <3>3. LastOf(hb, "Content-Length") \in Bytes
      BY <1>1, <3>2 DEF LinesOf
    <3>4. \A b \in Bytes : b.num \in Nat \cup {-1}
      BY DEF Bytes, HeaderLines, NL, TEXT, Byte
    <3> QED BY <2>2, <3>3, <3>4 DEF NumOf
  <2> QED BY <2>1, <2>2
<1>3. info.size \in Nat /\ info.size > 0 /\ info.uri # NULL
  <2>1. info.size \notin {-1, 0} /\ info.uri # NULL
    BY DEF HeadFails
  <2>2. info.size \in Nat \cup {-1}
    BY <1>2 DEF DocInfoOf
  <2> QED BY <2>1, <2>2
<1>4. Checked(info).size = info.size /\ Checked(info).uri = info.uri
  BY DEF Checked, DocInfoOf
<1> QED BY <1>3, <1>4

LEMMA NoInfoHasNoSize == NoInfo.size = 0
<1>1. Len(<< >>) = 0 /\ 1..0 = {}
  OBVIOUS
<1> QED BY <1>1 DEF NoInfo, DocInfoOf, NumOf, LinesOf

HeadLines == Seq(Bytes) \ {<< >>}

\* What the reader has in hand.
ReaderShape ==
  /\ stage \in {"head", "body"}
  /\ stage = "head" => docinfo = NoInfo
  /\ stage = "body" => docinfo.size \in Nat /\ docinfo.size > 0 /\ docinfo.uri # NULL
  /\ head_buf \in Seq(HeadLines)

Shape ==
  /\ entry \in Entries
  /\ cut \in BOOLEAN /\ closed \in BOOLEAN /\ (cut => closed /\ Len(sent) > 0)
  /\ status \in {"reading", "returned", "croaked"}
  /\ sent \in Seq(Documents) /\ Len(sent) <= MaxDocs
  /\ pipe \in Seq(Bytes)
  /\ ReaderShape
  /\ \E S : delivered \in Seq(S)

LEMMA ShapeIsTypeOK == Shape => TypeOK
<1> SUFFICES ASSUME Shape PROVE TypeOK
  OBVIOUS
<1>1. \A i \in 1..Len(sent) : sent[i] \in Documents
  BY ElementOfSeq DEF Shape
<1>2. \A i \in 1..Len(head_buf) : head_buf[i] # << >>
  BY ElementOfSeq DEF Shape, ReaderShape, HeadLines
<1>3. stage = "body" => docinfo # NoInfo
  BY NoInfoHasNoSize DEF Shape, ReaderShape
<1> QED BY <1>1, <1>2, <1>3 DEF Shape, ReaderShape, TypeOK

LEMMA DropIsSeq == ASSUME pipe \in Seq(Bytes), NEW n \in Nat PROVE Drop(n) \in Seq(Bytes)
BY FromProperties DEF Drop, From

LEMMA LineShape ==
  ASSUME pipe \in Seq(Bytes)
  PROVE  Line \in Seq(Bytes) /\ LineEnd \in Nat
<1>1. Len(pipe) \in Nat
  BY LenProperties
<1>2. LineEnd \in 1..(Len(pipe) + 1)
  <2>1. CASE Newlines = {}
    BY <1>1, <2>1 DEF LineEnd
  <2>2. CASE Newlines # {}
    <3> DEFINE n == Len(pipe)
               M == {(n + 1) - i : i \in Newlines}
    <3>1. M \in SUBSET (1..n) /\ M # {}
      BY <1>1, <2>2 DEF Newlines
    <3>2. PICK k \in M : \A y \in M : y <= k
      <4> HIDE DEF M, n
      <4>1. n \in Nat
        BY <1>1 DEF n
      <4> QED BY <3>1, <4>1, Greatest
    <3>3. PICK i \in Newlines : k = (n + 1) - i
      BY <3>2
    <3>4. \A j \in Newlines : i <= j
      <4> SUFFICES ASSUME NEW j \in Newlines PROVE i <= j
        OBVIOUS
      <4>1. (n + 1) - j <= (n + 1) - i
        BY <3>2, <3>3
      <4> QED BY <1>1, <4>1 DEF Newlines
    <3>5. LineEnd \in Newlines
      BY <2>2, <3>3, <3>4 DEF LineEnd
    <3> QED BY <1>1, <3>5 DEF Newlines
  <2> QED BY <2>1, <2>2
<1>3. LineEnd \in Nat /\ \A i \in 1..(LineEnd - 1) : i \in 1..Len(pipe)
  BY <1>1, <1>2
<1>4. \A i \in 1..(LineEnd - 1) : pipe[i] \in Bytes
  BY <1>3, ElementOfSeq
<1> QED BY <1>3, <1>4, SubSeqProperties DEF Line

LEMMA KeptShape == ASSUME NEW S, NEW lines \in Seq(S) PROVE Kept(lines) \in Seq(S)
<1>1. CASE Len(lines) <= MaxHeaders
  BY <1>1 DEF Kept
<1>2. CASE ~(Len(lines) <= MaxHeaders)
  <2>1. \A i \in 1..MaxHeaders : i \in 1..Len(lines)
    BY <1>2, LenProperties, BoundAssumption
  <2>2. \A i \in 1..MaxHeaders : lines[i] \in S
    BY <2>1, ElementOfSeq
  <2> QED BY <1>2, <2>2, BoundAssumption, SubSeqProperties DEF Kept
<1> QED BY <1>1, <1>2

LEMMA ShapeInit == Init => Shape
<1> SUFFICES ASSUME Init PROVE Shape
  OBVIOUS
<1>1. sent \in Seq(Documents) /\ pipe \in Seq(Bytes) /\ head_buf \in Seq(HeadLines)
      /\ delivered \in Seq({}) /\ Len(sent) = 0
  BY EmptySeq DEF Init
<1>2. (\E S : delivered \in Seq(S)) /\ 0 <= MaxDocs
  BY <1>1, BoundAssumption
<1>3. ReaderShape
  BY <1>1 DEF Init, ReaderShape
<1> QED BY <1>1, <1>2, <1>3 DEF Init, Shape

\* The program gives up, or ends: the rest stays as it is.
LEMMA ShapeOfEnd ==
  ASSUME Shape, status' \in {"returned", "croaked"},
         UNCHANGED <<senderVars, pipe, readerVars, delivered>>
  PROVE  Shape'
<1>1. (\E S : delivered \in Seq(S))'
  BY DEF Shape
<1> QED BY <1>1 DEF Shape, ReaderShape, senderVars, readerVars

LEMMA ShapeOfSend ==
  ASSUME Shape, NEW doc \in Documents, NEW part \in Seq(Bytes), Len(sent) < MaxDocs,
         sent' = Append(sent, doc), pipe' = pipe \o part,
         cut' \in BOOLEAN, closed' \in BOOLEAN, cut' => closed',
         UNCHANGED <<entry, readerVars, delivered, status>>
  PROVE  Shape'
<1>1. sent' \in Seq(Documents) /\ Len(sent') = Len(sent) + 1 /\ Len(sent) \in Nat
  BY AppendProperties, LenProperties DEF Shape
<1>2. pipe' \in Seq(Bytes)
  BY ConcatProperties DEF Shape
<1>3. (\E S : delivered \in Seq(S))'
  BY DEF Shape
<1>4. Len(sent') <= MaxDocs /\ Len(sent') > 0
  BY <1>1, BoundAssumption
<1> QED BY <1>1, <1>2, <1>3, <1>4 DEF Shape, ReaderShape, readerVars

LEMMA ShapeOfReading ==
  ASSUME Shape, ReaderShape', pipe' \in Seq(Bytes), UNCHANGED <<senderVars, status>>,
         delivered' = delivered \/ \E x : delivered' = Append(delivered, x)
  PROVE  Shape'
<1>1. \E S : delivered' \in Seq(S)
  <2>1. PICK S : delivered \in Seq(S)
    BY DEF Shape
  <2>2. CASE delivered' = delivered
    BY <2>1, <2>2
  <2>3. ASSUME NEW x, delivered' = Append(delivered, x) PROVE delivered' \in Seq(S \cup {x})
    <3>1. delivered \in Seq(S \cup {x})
      BY <2>1, SeqMonotonic
    <3> QED BY <2>3, <3>1, AppendProperties
  <2> QED BY <2>2, <2>3
<1> QED BY <1>1 DEF Shape, senderVars

LEMMA ShapeStep == Shape /\ [Next]_vars => Shape'
<1> SUFFICES ASSUME Shape, [Next]_vars PROVE Shape'
  OBVIOUS
<1> USE DEF senderVars, readerVars
<1>1. ASSUME NEW doc \in Documents, Send(doc) PROVE Shape'
  <2>1. Written(doc) \in Seq(Bytes)
    BY WrittenForm
  <2> QED BY <1>1, <2>1, ShapeOfSend DEF Send, Shape
<1>2. ASSUME NEW doc \in Documents, NEW n \in 1..(Len(Written(doc)) - 1), SendPart(doc, n)
      PROVE  Shape'
  <2>1. SubSeq(Written(doc), 1, n) \in Seq(Bytes)
    <3>1. Written(doc) \in Seq(Bytes) /\ Len(Written(doc)) \in Nat
      BY WrittenForm, LenProperties
    <3>2. \A i \in 1..n : i \in 1..Len(Written(doc))
      BY <3>1
    <3>3. \A i \in 1..n : Written(doc)[i] \in Bytes
      BY <3>1, <3>2, ElementOfSeq
    <3> QED BY <3>3, SubSeqProperties
  <2> QED BY <1>2, <2>1, ShapeOfSend DEF SendPart, Shape
<1>3. CASE Close
  <2>1. (\E S : delivered \in Seq(S))'
    BY <1>3 DEF Close, Shape
  <2> QED BY <1>3, <2>1 DEF Close, Shape, ReaderShape
<1>4. CASE ReadHeader
  <2>1. Line \in HeadLines /\ LineEnd \in Nat
    BY <1>4, LineShape DEF ReadHeader, Shape, HeadLines
  <2>2. head_buf' \in Seq(HeadLines)
    BY <1>4, <2>1, AppendProperties DEF ReadHeader, Shape, ReaderShape
  <2>3. pipe' \in Seq(Bytes)
    BY <1>4, <2>1, DropIsSeq DEF ReadHeader, Shape
  <2>4. ReaderShape'
    BY <1>4, <2>2 DEF ReadHeader, Shape, ReaderShape
  <2> QED BY <1>4, <2>3, <2>4, ShapeOfReading DEF ReadHeader
<1>5. CASE TooFewHeaders
  BY <1>5, ShapeOfEnd DEF TooFewHeaders, Croak
<1>6. CASE ReadBlank
  <2>1. CASE Croak
    BY <2>1, ShapeOfEnd DEF Croak
  <2>2. CASE ~Croak
    <3>1. /\ ~HeadFails(Kept(head_buf)) /\ docinfo' = Checked(DocInfoOf(Kept(head_buf)))
          /\ stage' = "body" /\ pipe' = Drop(LineEnd)
          /\ UNCHANGED <<senderVars, head_buf, delivered, status>>
      BY <1>6, <2>2 DEF ReadBlank
    <3>2. Kept(head_buf) \in Seq(HeadLines)
      BY KeptShape DEF Shape, ReaderShape
    <3>3. docinfo'.size \in Nat /\ docinfo'.size > 0 /\ docinfo'.uri # NULL
      BY <3>1, <3>2, SizeOfHead DEF HeadLines
    <3>4. ReaderShape'
      BY <3>1, <3>3 DEF Shape, ReaderShape
    <3>5. pipe' \in Seq(Bytes)
      BY <3>1, LineShape, DropIsSeq DEF Shape
    <3> QED BY <3>1, <3>4, <3>5, ShapeOfReading
  <2> QED BY <2>1, <2>2
<1>7. CASE ReadBody
  <2>1. docinfo.size \in Nat
    BY <1>7 DEF ReadBody, Reading, Shape, ReaderShape
  <2>2. pipe' \in Seq(Bytes)
    BY <1>7, <2>1, DropIsSeq DEF ReadBody, Shape
  <2>3. ReaderShape'
    BY <1>7, EmptySeq DEF ReadBody, ReaderShape
  <2>4. \E x : delivered' = Append(delivered, x)
    BY <1>7 DEF ReadBody, Handle
  <2> QED BY <1>7, <2>2, <2>3, <2>4, ShapeOfReading DEF ReadBody
<1>8. CASE UnknownParser
  BY <1>8, ShapeOfEnd DEF UnknownParser, Croak
<1>9. CASE ShortBody
  BY <1>9, ShapeOfEnd DEF ShortBody, Croak
<1>10. CASE EndOfInput
  BY <1>10, ShapeOfEnd DEF EndOfInput, Finish
<1>11. CASE BufferWithoutHead
  BY <1>11, ShapeOfEnd DEF BufferWithoutHead, Croak
<1>12. CASE ParseBuffer
  <2>1. CASE Croak
    BY <2>1, ShapeOfEnd DEF Croak
  <2>2. CASE ~Croak
    <3>1. /\ \E x : delivered' = Append(delivered, x)
          /\ pipe' = << >> /\ UNCHANGED <<senderVars, readerVars, status>>
      BY <1>12, <2>2 DEF ParseBuffer, Handle
    <3>2. pipe' \in Seq(Bytes)
      BY <3>1, EmptySeq
    <3>3. ReaderShape'
      BY <3>1 DEF Shape, ReaderShape
    <3> QED BY <3>1, <3>2, <3>3, ShapeOfReading
  <2> QED BY <2>1, <2>2
<1>13. CASE EndOfBuffers
  BY <1>13, ShapeOfEnd DEF EndOfBuffers, Finish
<1>14. CASE UNCHANGED vars
  <2>1. (\E S : delivered \in Seq(S))'
    BY <1>14 DEF vars, Shape
  <2> QED BY <1>14, <2>1 DEF vars, Shape, ReaderShape
<1>15. CASE Next
  <2>1. CASE Sender
    BY <1>1, <1>2, <1>3, <2>1 DEF Sender
  <2>2. CASE Reader
    BY <1>4, <1>5, <1>6, <1>7, <1>8, <1>9, <1>10, <1>11, <1>12, <1>13, <2>2 DEF Reader
  <2> QED BY <1>15, <2>1, <2>2 DEF Next
<1> QED BY <1>14, <1>15

LEMMA ShapeAlways == Spec => []Shape
BY ShapeInit, ShapeStep, PTL DEF Spec

\* The variables have their types, and a header that was accepted has a name and
\* a positive length, in every state, for all documents and both functions
\* (head_to_docinfo and swish_docinfo_check refuse the rest).
THEOREM TypeCorrect == Spec => []TypeOK
BY ShapeAlways, ShapeIsTypeOK, PTL

-----------------------------------------------------------------------------
(* What is yet to come of each document.                                   *)

\* These bytes of the i-th document are sent: all, unless the sender died.
PartOf(i, w) ==
  IF cut /\ i = Len(sent)
  THEN \E m \in 1..(Len(Written(sent[i])) - 1) : w = SubSeq(Written(sent[i]), 1, m)
  ELSE w = Written(sent[i])

\* rest[i]: what there is from the i-th document on.
Rests(rest) ==
  /\ rest[Len(sent) + 1] = << >>
  /\ \A i \in 1..(Len(sent) + 1) : rest[i] \in Seq(Bytes)
  /\ \A i \in 1..Len(sent) :
       \E w \in Seq(Bytes) : PartOf(i, w) /\ rest[i] = w \o rest[i + 1]

Lost(i) == cut /\ i = Len(sent)

LEMMA ConcatStarts ==
  ASSUME NEW S, NEW s \in Seq(S), NEW u \in Seq(S)
  PROVE  SubSeq(s \o u, 1, Len(s)) = s
<1>1. Len(s) \in Nat /\ Len(u) \in Nat
  BY LenProperties
<1>2. s \o u \in Seq(S) /\ \A i \in 1..(Len(s) + Len(u)) :
        (s \o u)[i] = IF i <= Len(s) THEN s[i] ELSE u[i - Len(s)]
  BY ConcatProperties
<1>3. \A i \in 1..Len(s) : i \in 1..(Len(s) + Len(u)) /\ i <= Len(s) /\ i = 1 + i - 1
  BY <1>1
<1>4. \A i \in 1..Len(s) : (s \o u)[i] = s[i] /\ (s \o u)[i] \in S
  BY <1>2, <1>3, ElementOfSeq
<1> DEFINE r == SubSeq(s \o u, 1, Len(s))
<1>5. r \in Seq(S) /\ Len(r) = (IF 1 <= Len(s) THEN Len(s) - 1 + 1 ELSE 0)
      /\ \A i \in 1..(Len(s) - 1 + 1) : r[i] = (s \o u)[1 + i - 1]
  <2> HIDE DEF r
  <2> QED BY <1>1, <1>4, SubSeqProperties DEF r
<1> HIDE DEF r
<1>6. Len(r) = Len(s) /\ \A i \in 1..Len(s) : i \in 1..(Len(s) - 1 + 1)
  BY <1>1, <1>5
<1>7. \A i \in 1..Len(s) : r[i] = s[i]
  BY <1>3, <1>4, <1>5, <1>6
<1>8. r = s
  BY <1>5, <1>6, <1>7, SeqEqual
<1> QED BY <1>8 DEF r

LEMMA RestForm ==
  ASSUME Shape, NEW rest, Rests(rest), NEW i \in 1..Len(sent)
  PROVE  /\ sent[i] \in Documents /\ rest[i + 1] \in Seq(Bytes)
         /\ Starts(rest[i], sent[i]) /\ rest[i] # << >>
         /\ ~Lost(i) => rest[i] = Written(sent[i]) \o rest[i + 1]
         /\ Lost(i) => Len(rest[i]) < Len(Written(sent[i]))
<1> DEFINE doc == sent[i]
           W == Written(doc)
<1>1. Len(sent) \in Nat /\ doc \in Documents
  BY ElementOfSeq, LenProperties DEF Shape
<1>2. /\ rest[i] \in Seq(Bytes) /\ rest[i + 1] \in Seq(Bytes)
      /\ Len(rest[i]) \in Nat /\ Len(rest[i + 1]) \in Nat
  <2>1. i \in 1..(Len(sent) + 1) /\ i + 1 \in 1..(Len(sent) + 1)
    BY <1>1
  <2>2. rest[i] \in Seq(Bytes) /\ rest[i + 1] \in Seq(Bytes)
    BY <2>1 DEF Rests
  <2> QED BY <2>2, LenProperties
<1>3. W \in Seq(Bytes) /\ Len(W) \in Nat /\ Len(W) > 0
  <2>1. /\ Heads(doc) \in Nat /\ Len(doc.body) \in Nat /\ W \in Seq(Bytes)
        /\ Len(W) = 2 * Heads(doc) + 1 + Len(doc.body)
    BY <1>1, WrittenForm
  <2> QED BY <2>1
<1>4. PICK w \in Seq(Bytes) : PartOf(i, w) /\ rest[i] = w \o rest[i + 1]
  BY DEF Rests
<1>5. CASE ~Lost(i)
  <2>1. rest[i] = W \o rest[i + 1]
    BY <1>4, <1>5 DEF PartOf, Lost
  <2>2. /\ Len(rest[i]) = Len(W) + Len(rest[i + 1])
        /\ \A j \in 1..(Len(W) + Len(rest[i + 1])) :
             rest[i][j] = IF j <= Len(W) THEN W[j] ELSE rest[i + 1][j - Len(W)]
    <3>1. PICK v, r : v = W /\ r = rest[i + 1]
      OBVIOUS
    <3>2. v \in Seq(Bytes) /\ r \in Seq(Bytes)
      BY <1>2, <1>3, <3>1
    <3>3. /\ Len(v \o r) = Len(v) + Len(r)
          /\ \A j \in 1..(Len(v) + Len(r)) :
               (v \o r)[j] = IF j <= Len(v) THEN v[j] ELSE r[j - Len(v)]
      BY <3>2, ConcatProperties
    <3> HIDE DEF W
    <3> QED BY <2>1, <3>1, <3>3
  <2>3. Starts(rest[i], doc)
    BY <1>2, <2>2 DEF Starts
  <2>4. Len(rest[i]) # 0
    <3>1. Len(rest[i]) = Len(W) + Len(rest[i + 1])
      BY <2>2
    <3>2. \A a, b \in Nat : a > 0 => a + b # 0
      OBVIOUS
    <3> HIDE DEF W
    <3> QED BY <1>2, <1>3, <3>1, <3>2
  <2>5. rest[i] # << >>
    BY <2>4
  <2> QED BY <1>1, <1>2, <1>5, <2>1, <2>3, <2>5
<1>6. CASE Lost(i)
  <2>1. PICK m \in 1..(Len(W) - 1) : w = SubSeq(W, 1, m)
    BY <1>4, <1>6 DEF PartOf, Lost
  <2>2. rest[i] = w
    <3>1. rest[i + 1] = << >>
      BY <1>6 DEF Rests, Lost
    <3> QED BY <1>4, <3>1, ConcatEmptySeq
  <2>3. \A j \in 1..m : W[j] \in Bytes
    <3>1. \A j \in 1..m : j \in 1..Len(W)
      BY <1>3
    <3> QED BY <1>3, <3>1, ElementOfSeq
  <2>4. Len(w) = (IF 1 <= m THEN m - 1 + 1 ELSE 0) /\ \A j \in 1..(m - 1 + 1) : w[j] = W[1 + j - 1]
    BY <2>1, <2>3, SubSeqProperties
  <2>5. Len(w) = m /\ m > 0 /\ m < Len(W) /\ \A j \in 1..m : j \in 1..(m - 1 + 1) /\ 1 + j - 1 = j
    BY <1>3, <2>1, <2>4
  <2>6. \A j \in 1..m : w[j] = W[j]
    BY <2>4, <2>5
  <2>7. Starts(rest[i], doc)
    BY <1>2, <2>2, <2>5, <2>6 DEF Starts
  <2>8. rest[i] # << >>
    <3>1. Len(w) # 0
      BY <2>5
    <3> QED BY <2>2, <3>1
  <2> QED BY <1>1, <1>2, <1>6, <2>2, <2>5, <2>7, <2>8
<1> QED BY <1>5, <1>6

\* How three runs of bytes are put together does not matter.
LEMMA ThreeParts ==
  \A u, v, w \in Seq(Bytes) : (u \o v) \o w = u \o (v \o w)
BY ConcatAssociative

\* When another document is sent, it follows what there is.
LEMMA RestsGrow ==
  ASSUME Shape, ~cut, NEW rest, Rests(rest), NEW doc \in Documents, NEW part \in Seq(Bytes),
         sent' = Append(sent, doc), PartOf(Len(sent), part)',
         NEW new,
         new = [i \in 1..(Len(sent) + 2) |-> IF i <= Len(sent) + 1 THEN rest[i] \o part ELSE << >>]
  PROVE  Rests(new)'
<1> DEFINE n == Len(sent)
<1>1. n \in Nat /\ Len(sent') = n + 1 /\ (n + 1) + 1 = n + 2
      /\ sent'[n + 1] = doc /\ \A i \in 1..n : sent'[i] = sent[i]
  BY AppendProperties, LenProperties DEF Shape
<1>2. new[n + 2] = << >> /\ \A i \in 1..(n + 1) : new[i] = rest[i] \o part
  BY <1>1
<1>3. \A i \in 1..(n + 1) : rest[i] \in Seq(Bytes)
  BY DEF Rests
<1>4. ASSUME NEW i \in 1..(n + 2) PROVE new[i] \in Seq(Bytes)
  <2>1. CASE i = n + 2
    BY <1>2, <2>1, EmptySeq
  <2>2. CASE i # n + 2
    <3>1. i \in 1..(n + 1)
      BY <1>1, <2>2
    <3> QED BY <1>2, <1>3, <3>1, ConcatProperties
  <2> QED BY <2>1, <2>2
<1>5. ASSUME NEW i \in 1..(n + 1)
      PROVE  \E w \in Seq(Bytes) : PartOf(i, w)' /\ new[i] = w \o new[i + 1]
  <2>1. CASE i = n + 1
    <3>1. new[i + 1] = << >> /\ rest[i] = << >>
      BY <1>1, <1>2, <2>1 DEF Rests
    <3>2. new[i] = part /\ part = part \o << >>
      BY <1>2, <2>1, <3>1, ConcatEmptySeq
    <3>3. PartOf(i, part)'
      BY <1>1, <2>1 DEF PartOf
    <3> QED BY <3>1, <3>2, <3>3
  <2>2. CASE i # n + 1
    <3>1. i \in 1..n /\ i + 1 \in 1..(n + 1) /\ i # Len(sent')
      BY <1>1, <2>2
    <3>2. PICK w \in Seq(Bytes) : PartOf(i, w) /\ rest[i] = w \o rest[i + 1]
      BY <3>1 DEF Rests
    <3>3. PartOf(i, w)'
      BY <1>1, <3>1, <3>2 DEF PartOf
    <3>4. new[i] = w \o new[i + 1]
      <4>1. new[i] = (w \o rest[i + 1]) \o part /\ new[i + 1] = rest[i + 1] \o part
        BY <1>2, <3>1, <3>2
      <4>2. rest[i + 1] \in Seq(Bytes)
        BY <1>3, <3>1
      <4>3. (w \o rest[i + 1]) \o part = w \o (rest[i + 1] \o part)
        <5>1. PICK r \in Seq(Bytes) : r = rest[i + 1]
          BY <4>2
        <5>2. w \in Seq(Bytes) /\ part \in Seq(Bytes)
          BY <3>2
        <5>3. (w \o r) \o part = w \o (r \o part)
          BY <5>1, <5>2, ThreeParts
        <5> QED BY <5>1, <5>3
      <4> QED BY <4>1, <4>3
    <3> QED BY <3>3, <3>4
  <2> QED BY <2>1, <2>2
<1> HIDE DEF n
<1>6. /\ new[Len(sent') + 1] = << >>
      /\ \A i \in 1..(Len(sent') + 1) : new[i] \in Seq(Bytes)
      /\ \A i \in 1..Len(sent') : \E w \in Seq(Bytes) : PartOf(i, w)' /\ new[i] = w \o new[i + 1]
  BY <1>1, <1>2, <1>4, <1>5
<1> QED BY <1>6 DEF Rests

-----------------------------------------------------------------------------
(* Where the reader is within a document.                                  *)

Within(x, doc) ==
  \/ /\ stage = "head" /\ Len(head_buf) <= Heads(doc)
     /\ \A i \in 1..Len(head_buf) : head_buf[i] = <<doc.headers[i]>>
     /\ pipe = From(x, 2 * Len(head_buf))
  \/ /\ stage = "body" /\ docinfo = Promise(doc).info
     /\ pipe = From(x, 2 * Heads(doc) + 1)

LEMMA HeadStep ==
  ASSUME Shape, NEW doc \in Documents, NEW x, Starts(x, doc), Within(x, doc),
         stage = "head", pipe # << >>
  PROVE  \/ /\ Line # << >> /\ Len(head_buf) < Heads(doc)
            /\ Line = <<doc.headers[Len(head_buf) + 1]>>
            /\ Drop(LineEnd) = From(x, 2 * (Len(head_buf) + 1))
         \/ /\ Line = << >> /\ HeadOf(head_buf, doc)
            /\ Drop(LineEnd) = From(x, 2 * Heads(doc) + 1)
<1> DEFINE k == Len(head_buf)
<1>1. k \in Nat /\ Heads(doc) \in Nat
  BY LenProperties, WrittenForm DEF Shape, ReaderShape
<1>2. k <= Heads(doc) /\ pipe = From(x, 2 * k)
      /\ \A i \in 1..k : head_buf[i] = <<doc.headers[i]>>
  BY DEF Within
<1>3. CASE k < Heads(doc)
  <2>1. Line = <<doc.headers[k + 1]>> /\ Drop(LineEnd) = From(x, 2 * (k + 1))
    BY <1>1, <1>2, <1>3, HeaderLineNext
  <2>2. Line # << >>
    BY <2>1
  <2> QED BY <1>3, <2>1, <2>2
<1>4. CASE k = Heads(doc)
  <2>1. Line = << >> /\ Drop(LineEnd) = From(x, 2 * Heads(doc) + 1)
    BY <1>2, <1>4, BlankLineNext
  <2>2. HeadOf(head_buf, doc)
    BY <1>2, <1>4 DEF HeadOf
  <2> QED BY <2>1, <2>2
<1> QED BY <1>1, <1>2, <1>3, <1>4

LEMMA BodyStep ==
  ASSUME Shape, NEW rest, Rests(rest), NEW i \in 1..Len(sent), Intact(sent[i]),
         Within(rest[i], sent[i]), stage = "body"
  PROVE  /\ docinfo = Promise(sent[i]).info /\ docinfo.parser \in KnownParsers
         /\ Lost(i) => Len(pipe) < docinfo.size
         /\ ~Lost(i) => /\ Len(pipe) >= docinfo.size
                        /\ SubSeq(pipe, 1, docinfo.size) = sent[i].body
                        /\ Drop(docinfo.size) = rest[i + 1]
<1> DEFINE doc == sent[i]
           h == Heads(doc)
           W == Written(doc)
           c == 2 * h + 1
<1>1. /\ doc \in Documents /\ rest[i + 1] \in Seq(Bytes) /\ Starts(rest[i], doc)
      /\ ~Lost(i) => rest[i] = W \o rest[i + 1]
      /\ Lost(i) => Len(rest[i]) < Len(W)
  BY RestForm
<1>2. /\ h \in Nat /\ Len(doc.body) \in Nat /\ W \in Seq(Bytes)
      /\ Len(W) = 2 * h + 1 + Len(doc.body)
      /\ \A j \in 1..Len(doc.body) : W[2 * h + 1 + j] = doc.body[j]
  BY <1>1, WrittenForm
<1>3. docinfo = Promise(doc).info /\ pipe = From(rest[i], c)
  BY DEF Within
<1>4. Promise(doc).info.size = Len(doc.body) /\ Promise(doc).info.parser \in KnownParsers
  BY <1>1 DEF Intact, Promise
<1>5. doc.body \in Seq(Bytes)
  <2>1. doc.body \in Seq({NL, TEXT}) /\ {NL, TEXT} \subseteq Bytes
    BY <1>1, DocumentAssumption DEF Bytes
  <2> QED BY <2>1, SeqMonotonic
<1>6. rest[i] \in Seq(Bytes) /\ Len(rest[i]) \in Nat /\ c \in Nat /\ Len(rest[i + 1]) \in Nat
  BY <1>1, <1>2, LenProperties DEF Starts
<1>7. CASE Lost(i)
  <2>1. Len(pipe) = IF c <= Len(rest[i]) THEN Len(rest[i]) - c ELSE 0
    BY <1>3, <1>6, FromProperties
  <2>2. Len(doc.body) > 0
    BY DEF Intact
  <2>3. Len(rest[i]) < c + Len(doc.body)
    <3>1. Len(rest[i]) < Len(W)
      BY <1>1, <1>7
    <3> QED BY <1>2, <3>1
  <2>4. Len(pipe) < Len(doc.body)
    <3>1. PICK n, m, b : n = Len(rest[i]) /\ m = c /\ b = Len(doc.body)
      OBVIOUS
    <3>2. n \in Nat /\ m \in Nat /\ b \in Nat /\ n < m + b /\ b > 0
      BY <1>2, <1>6, <2>2, <2>3, <3>1
    <3>3. (IF m <= n THEN n - m ELSE 0) < b
      BY <3>2
    <3> QED BY <2>1, <3>1, <3>3
  <2> QED BY <1>3, <1>4, <1>7, <2>4
<1>8. CASE ~Lost(i)
  <2>1. From(W, c) = doc.body
    <3> HIDE DEF W
    <3>1. c <= Len(W) /\ Len(doc.body) = Len(W) - c
      BY <1>2
    <3>2. \A j \in 1..Len(doc.body) : c + j = j + c
      BY <1>2
    <3>3. \A j \in 1..Len(doc.body) : doc.body[j] = W[j + c]
      BY <1>2, <3>2
    <3>4. c \in Nat
      BY <1>2
    <3> HIDE DEF c
    <3> QED BY <1>2, <1>5, <3>1, <3>3, <3>4, FromIs
  <2>2. pipe = doc.body \o rest[i + 1]
    <3>1. c <= Len(W)
      BY <1>2
    <3> HIDE DEF c, W
    <3>2. From(W \o rest[i + 1], c) = From(W, c) \o rest[i + 1]
      BY <1>1, <1>2, <1>6, <3>1, FromConcat
    <3> QED BY <1>1, <1>3, <1>8, <2>1, <3>2
  <2>3. SubSeq(pipe, 1, Len(doc.body)) = doc.body
    BY <1>1, <1>5, <2>2, ConcatStarts
  <2>4. Drop(Len(doc.body)) = rest[i + 1]
    BY <1>1, <1>5, <2>2, FromWhole DEF Drop, From
  <2>5. Len(pipe) >= Len(doc.body)
    <3>1. Len(pipe) = Len(doc.body) + Len(rest[i + 1])
      BY <1>1, <1>5, <2>2, ConcatProperties
    <3>2. \A a, b \in Nat : a + b >= a
      OBVIOUS
    <3> QED BY <1>2, <1>6, <3>1, <3>2
  <2> QED BY <1>3, <1>4, <1>8, <2>3, <2>4, <2>5
<1> QED BY <1>3, <1>4, <1>7, <1>8

-----------------------------------------------------------------------------
(* swish_parse_fh keeps its place: as long as every document that was      *)
(* delivered is as it should be, as many documents are read as are         *)
(* delivered, and the next one is read up to where the reader is.          *)

Good(n) == \A i \in 1..Len(sent) : i <= n => Intact(sent[i])

Place(rest, n) ==
  /\ n <= Len(sent)
  /\ n = Len(sent) => stage = "head" /\ head_buf = << >> /\ pipe = << >> /\ ~cut
  /\ n < Len(sent) /\ Intact(sent[n + 1]) => Within(rest[n + 1], sent[n + 1])

StreamInv ==
  entry = "fh" /\ status = "reading" /\ Good(Len(delivered)) =>
    \E rest : Rests(rest) /\ Place(rest, Len(delivered))

LEMMA Delivered == Shape => Len(delivered) \in Nat /\ Len(sent) \in Nat /\ Len(head_buf) \in Nat
BY LenProperties DEF Shape, ReaderShape

LEMMA DeliveredGrows ==
  ASSUME Shape, NEW info, NEW body, Handle(info, body)
  PROVE  /\ Len(delivered') = Len(delivered) + 1
         /\ SubSeq(delivered', 1, Len(delivered)) = delivered
         /\ delivered'[Len(delivered) + 1] = [info |-> info, body |-> body]
<1> DEFINE x == [info |-> info, body |-> body]
<1>1. PICK S : delivered \in Seq(S)
  BY DEF Shape
<1>2. delivered \in Seq(S \cup {x}) /\ x \in S \cup {x} /\ <<x>> \in Seq(S \cup {x})
  <2>1. delivered \in Seq(S \cup {x})
    BY <1>1, SeqMonotonic
  <2> QED BY <2>1
<1>3. delivered' = delivered \o <<x>>
  BY <1>2, AppendIsConcat DEF Handle
<1>4. SubSeq(delivered', 1, Len(delivered)) = delivered
  BY <1>2, <1>3, ConcatStarts
<1>5. Len(delivered') = Len(delivered) + 1 /\ delivered'[Len(delivered) + 1] = x
  BY <1>2, AppendProperties DEF Handle
<1> QED BY <1>4, <1>5

LEMMA StreamGrows ==
  ASSUME Shape, ~closed, StreamInv, NEW doc \in Documents, NEW part \in Seq(Bytes),
         sent' = Append(sent, doc), PartOf(Len(sent), part)', pipe' = pipe \o part,
         UNCHANGED <<entry, readerVars, delivered, status>>
  PROVE  StreamInv'
<1> SUFFICES ASSUME entry = "fh", status = "reading", Good(Len(delivered))'
             PROVE  \E rest : Rests(rest)' /\ Place(rest, Len(delivered))'
  BY DEF StreamInv
<1>0. PICK n, m : n = Len(delivered) /\ m = Len(sent)
  OBVIOUS
<1>1. m \in Nat /\ n \in Nat /\ Len(sent') = m + 1 /\ sent'[m + 1] = doc
      /\ \A i \in 1..m : sent'[i] = sent[i]
  BY <1>0, AppendProperties, Delivered DEF Shape
<1>2. ~cut
  BY DEF Shape
<1>3. Good(Len(delivered))
  <2>1. \A i \in 1..m : i \in 1..(m + 1)
    BY <1>1
  <2> QED BY <1>0, <1>1, <2>1 DEF Good
<1>4. PICK rest : Rests(rest) /\ Place(rest, n)
  BY <1>0, <1>3 DEF StreamInv
<1>5. PICK new : new = [i \in 1..(m + 2) |-> IF i <= m + 1 THEN rest[i] \o part ELSE << >>]
  OBVIOUS
<1>6. Rests(new)'
  BY <1>0, <1>2, <1>4, <1>5, RestsGrow
<1>7. n <= m /\ \A i \in 1..(m + 1) : new[i] = rest[i] \o part
  BY <1>0, <1>1, <1>4, <1>5 DEF Place
<1>8. ASSUME NEW d, n < m, d = sent'[n + 1], Intact(d)
      PROVE  Within(new[n + 1], d)'
  <2>1. n + 1 \in 1..m /\ n + 1 \in 1..(m + 1)
    BY <1>1, <1>8
  <2>2. PICK x : x = rest[n + 1]
    OBVIOUS
  <2>3. d = sent[n + 1] /\ new[n + 1] = x \o part
    BY <1>1, <1>7, <1>8, <2>1, <2>2
  <2>4. Within(x, d)
    BY <1>0, <1>4, <1>8, <2>2, <2>3 DEF Place
  <2>5. PICK r : r = rest[(n + 1) + 1]
    OBVIOUS
  <2>6. x = Written(d) \o r /\ d \in Documents /\ r \in Seq(Bytes) /\ x \in Seq(Bytes)
    BY <1>0, <1>2, <1>4, <2>1, <2>2, <2>3, <2>5, RestForm DEF Lost, Starts
  <2>7. Heads(d) \in Nat /\ Len(head_buf) \in Nat /\ 2 * Heads(d) + 1 <= Len(x)
    <3>1. /\ Heads(d) \in Nat /\ Len(d.body) \in Nat /\ Written(d) \in Seq(Bytes)
          /\ Len(Written(d)) = 2 * Heads(d) + 1 + Len(d.body)
      BY <2>6, WrittenForm
    <3>2. Len(x) = Len(Written(d)) + Len(r) /\ Len(r) \in Nat
      BY <2>6, <3>1, ConcatProperties, LenProperties
    <3>3. Len(head_buf) \in Nat
      BY Delivered
    <3>4. \A a, b, c \in Nat : 2 * a + 1 <= (2 * a + 1 + b) + c
      OBVIOUS
    <3> QED BY <3>1, <3>2, <3>3, <3>4
  <2>8. CASE stage = "head"
    <3>1. /\ Len(head_buf) <= Heads(d) /\ pipe = From(x, 2 * Len(head_buf))
          /\ \A i \in 1..Len(head_buf) : head_buf[i] = <<d.headers[i]>>
      BY <2>4, <2>8 DEF Within
    <3>2. 2 * Len(head_buf) \in Nat /\ 2 * Len(head_buf) <= Len(x)
      <4>1. Len(x) \in Nat
        BY <2>6, LenProperties
      <4> QED BY <2>7, <3>1, <4>1
    <3>3. From(x \o part, 2 * Len(head_buf)) = pipe \o part
      BY <2>6, <3>1, <3>2, FromConcat
    <3>4. pipe' = From(new[n + 1], 2 * Len(head_buf))
      BY <2>3, <3>3
    <3> QED BY <2>8, <3>1, <3>4 DEF Within, readerVars
  <2>9. CASE stage = "body"
    <3>1. docinfo = Promise(d).info /\ pipe = From(x, 2 * Heads(d) + 1)
      BY <2>4, <2>9 DEF Within
    <3>2. 2 * Heads(d) + 1 \in Nat
      BY <2>7
    <3>3. From(x \o part, 2 * Heads(d) + 1) = pipe \o part
      BY <2>6, <2>7, <3>1, <3>2, FromConcat
    <3>4. pipe' = From(new[n + 1], 2 * Heads(d) + 1)
      BY <2>3, <3>3
    <3> QED BY <2>9, <3>1, <3>4 DEF Within, readerVars
  <2> QED BY <2>8, <2>9 DEF Shape, ReaderShape
<1>9. ASSUME NEW d, n = m, d = sent'[n + 1] PROVE Within(new[n + 1], d)'
  <2>1. stage = "head" /\ head_buf = << >> /\ pipe = << >>
    BY <1>0, <1>4, <1>9 DEF Place
  <2>2. rest[n + 1] = << >> /\ new[n + 1] = rest[n + 1] \o part
    <3>1. n + 1 \in 1..(m + 1)
      BY <1>1, <1>9
    <3> QED BY <1>0, <1>4, <1>7, <1>9, <3>1 DEF Rests
  <2>3. new[n + 1] = part /\ pipe' = part
    BY <2>1, <2>2, ConcatEmptySeq
  <2>4. From(part, 0) = part
    BY FromZero
  <2>5. Heads(d) \in Nat
    BY <1>1, <1>9, WrittenForm
  <2>6. Len(head_buf) = 0 /\ 2 * 0 = 0 /\ 0 <= Heads(d) /\ 1..0 = {}
    BY <2>1, <2>5
  <2>7. pipe' = From(new[n + 1], 2 * 0)
    BY <2>3, <2>4, <2>6
  <2> QED BY <2>1, <2>6, <2>7 DEF Within, readerVars
<1>10. Place(new, n)'
  <2>1. n <= m + 1 /\ n # m + 1 /\ (n = m \/ n < m)
    BY <1>1, <1>7
  <2> QED BY <1>1, <1>8, <1>9, <2>1 DEF Place
<1> QED BY <1>0, <1>6, <1>10

LEMMA RestsSame == ASSUME NEW rest, UNCHANGED <<sent, cut>> PROVE Rests(rest)' <=> Rests(rest)
BY DEF Rests, PartOf

LEMMA GoodSame == ASSUME NEW n, UNCHANGED sent PROVE Good(n)' <=> Good(n)
BY DEF Good

LEMMA StreamHeader == Shape /\ StreamInv /\ ReadHeader => StreamInv'
<1> DEFINE n == Len(delivered)
           m == Len(sent)
           d == sent[n + 1]
<1> SUFFICES ASSUME Shape, StreamInv, ReadHeader, Good(n)'
             PROVE  \E rest : Rests(rest)' /\ Place(rest, n)'
  BY DEF StreamInv, ReadHeader
<1>1. /\ entry = "fh" /\ status = "reading" /\ stage = "head" /\ GotLine /\ Line # << >>
      /\ head_buf' = Append(head_buf, Line) /\ pipe' = Drop(LineEnd)
      /\ UNCHANGED <<senderVars, stage, docinfo, delivered, status>>
  BY DEF ReadHeader, Reading
<1>2. Good(n)
  BY <1>1, GoodSame DEF senderVars
<1>3. PICK rest : Rests(rest) /\ Place(rest, n)
  BY <1>1, <1>2 DEF StreamInv
<1>4. n \in Nat /\ m \in Nat /\ n <= m
  BY <1>3, Delivered DEF Place
<1>5. pipe # << >>
  BY <1>1 DEF GotLine, Newlines
<1>6. n < m
  BY <1>3, <1>4, <1>5 DEF Place
<1>7. ASSUME Intact(d) PROVE Within(rest[n + 1], d)'
  <2> DEFINE k == Len(head_buf)
             x == rest[n + 1]
  <2>1. n + 1 \in 1..m
    BY <1>4, <1>6
  <2>2. Within(x, d) /\ Starts(x, d) /\ d \in Documents
    BY <1>3, <1>6, <1>7, <2>1, RestForm DEF Place
  <2>3. k < Heads(d) /\ Line = <<d.headers[k + 1]>> /\ Drop(LineEnd) = From(x, 2 * (k + 1))
    BY <1>1, <1>5, <2>2, HeadStep
  <2>4. /\ Len(head_buf') = k + 1 /\ k \in Nat /\ head_buf'[k + 1] = Line
        /\ \A i \in 1..k : head_buf'[i] = head_buf[i]
    <3>1. Line \in HeadLines /\ head_buf \in Seq(HeadLines)
      BY <1>1, LineShape DEF Shape, ReaderShape, HeadLines
    <3> QED BY <1>1, <3>1, AppendProperties, LenProperties
  <2>5. \A i \in 1..k : head_buf[i] = <<d.headers[i]>>
    BY <1>1, <2>2 DEF Within
  <2>6. \A i \in 1..(k + 1) : head_buf'[i] = <<d.headers[i]>>
    <3>1. \A i \in 1..(k + 1) : i = k + 1 \/ i \in 1..k
      BY <2>4
    <3> QED BY <2>3, <2>4, <2>5, <3>1
  <2>7. k + 1 <= Heads(d)
    BY <2>2, <2>3, <2>4, WrittenForm
  <2> QED BY <1>1, <2>3, <2>4, <2>6, <2>7 DEF Within, senderVars, From
<1>8. Rests(rest)'
  BY <1>1, <1>3, RestsSame DEF senderVars
<1>9. Place(rest, n)'
  BY <1>1, <1>4, <1>6, <1>7 DEF Place, senderVars
<1> QED BY <1>8, <1>9

LEMMA StreamBlank == Shape /\ StreamInv /\ ReadBlank => StreamInv'
<1> DEFINE n == Len(delivered)
           m == Len(sent)
           d == sent[n + 1]
<1> SUFFICES ASSUME Shape, StreamInv, ReadBlank, Good(n)', status' = "reading"
             PROVE  \E rest : Rests(rest)' /\ Place(rest, n)'
  BY DEF StreamInv, ReadBlank, Croak
<1>1. /\ entry = "fh" /\ status = "reading" /\ stage = "head" /\ GotLine /\ Line = << >>
      /\ docinfo' = Checked(DocInfoOf(Kept(head_buf))) /\ stage' = "body"
      /\ pipe' = Drop(LineEnd) /\ UNCHANGED <<senderVars, head_buf, delivered, status>>
  BY DEF ReadBlank, Reading, Croak
<1>2. Good(n)
  BY <1>1, GoodSame DEF senderVars
<1>3. PICK rest : Rests(rest) /\ Place(rest, n)
  BY <1>1, <1>2 DEF StreamInv
<1>4. n \in Nat /\ m \in Nat /\ n <= m
  BY <1>3, Delivered DEF Place
<1>5. pipe # << >>
  BY <1>1 DEF GotLine, Newlines
<1>6. n < m
  BY <1>3, <1>4, <1>5 DEF Place
<1>7. ASSUME Intact(d) PROVE Within(rest[n + 1], d)'
  <2> DEFINE x == rest[n + 1]
  <2>1. n + 1 \in 1..m
    BY <1>4, <1>6
  <2>2. Within(x, d) /\ Starts(x, d) /\ d \in Documents
    BY <1>3, <1>6, <1>7, <2>1, RestForm DEF Place
  <2>3. HeadOf(head_buf, d) /\ Drop(LineEnd) = From(x, 2 * Heads(d) + 1)
    BY <1>1, <1>5, <2>2, HeadStep
  <2>4. docinfo' = Promise(d).info
    BY <1>1, <1>7, <2>2, <2>3, HeadOfIntact
  <2> QED BY <1>1, <2>3, <2>4 DEF Within, senderVars, From
<1>8. Rests(rest)'
  BY <1>1, <1>3, RestsSame DEF senderVars
<1>9. Place(rest, n)'
  BY <1>1, <1>4, <1>6, <1>7 DEF Place, senderVars
<1> QED BY <1>8, <1>9

LEMMA StreamBody == Shape /\ StreamInv /\ ReadBody => StreamInv'
<1> SUFFICES ASSUME Shape, StreamInv, ReadBody, Good(Len(delivered))'
             PROVE  \E rest : Rests(rest)' /\ Place(rest, Len(delivered))'
  BY DEF StreamInv, ReadBody
<1>0. PICK n, m, d : n = Len(delivered) /\ m = Len(sent) /\ d = sent[n + 1]
  OBVIOUS
<1>1. /\ entry = "fh" /\ status = "reading" /\ stage = "body"
      /\ Len(pipe) >= docinfo.size /\ pipe' = Drop(docinfo.size)
      /\ stage' = "head" /\ head_buf' = << >> /\ UNCHANGED <<senderVars, status>>
  BY DEF ReadBody, Reading
<1>2. Len(delivered') = n + 1 /\ n \in Nat /\ m \in Nat
  BY <1>0, Delivered, DeliveredGrows DEF ReadBody
<1>3. Good(n + 1)
  BY <1>1, <1>2 DEF Good, senderVars
<1>4. Good(n)
  BY <1>2, <1>3 DEF Good
<1>5. PICK rest : Rests(rest) /\ Place(rest, n)
  BY <1>0, <1>1, <1>4 DEF StreamInv
<1>6. n < m /\ n + 1 \in 1..m
  BY <1>0, <1>1, <1>2, <1>5 DEF Place
<1>7. Intact(d)
  BY <1>0, <1>3, <1>6 DEF Good
<1>8. Within(rest[n + 1], d)
  BY <1>0, <1>5, <1>6, <1>7 DEF Place
<1>9. ~Lost(n + 1) /\ Drop(docinfo.size) = rest[(n + 1) + 1]
  <2>1. /\ Lost(n + 1) => Len(pipe) < docinfo.size
        /\ ~Lost(n + 1) => Drop(docinfo.size) = rest[(n + 1) + 1]
    BY <1>0, <1>1, <1>5, <1>6, <1>7, <1>8, BodyStep
  <2>2. docinfo.size \in Nat /\ Len(pipe) \in Nat
    BY <1>1, LenProperties DEF Shape, ReaderShape
  <2> QED BY <1>1, <2>1, <2>2
<1>10. Rests(rest)'
  BY <1>1, <1>5, RestsSame DEF senderVars
<1>11. ASSUME n + 1 = m PROVE pipe' = << >> /\ ~cut'
  BY <1>0, <1>1, <1>5, <1>9, <1>11 DEF Rests, Lost, senderVars
<1>12. ASSUME NEW e, n + 1 < m, e = sent[(n + 1) + 1] PROVE Within(rest[(n + 1) + 1], e)'
  <2>1. (n + 1) + 1 \in 1..m
    BY <1>0, <1>2, <1>12
  <2>2. rest[(n + 1) + 1] \in Seq(Bytes) /\ Heads(e) \in Nat
    BY <1>0, <1>5, <1>12, <2>1, RestForm, WrittenForm DEF Starts
  <2>3. pipe' = From(rest[(n + 1) + 1], 0)
    BY <1>1, <1>9, <2>2, FromZero
  <2>4. Len(<< >>) = 0 /\ 2 * 0 = 0 /\ 1..0 = {} /\ 0 <= Heads(e)
    BY <2>2
  <2>5. head_buf' = << >> /\ stage' = "head" /\ pipe' = From(rest[(n + 1) + 1], 2 * 0)
    BY <1>1, <2>3, <2>4
  <2> QED BY <2>4, <2>5 DEF Within
<1>13. Place(rest, n + 1)'
  <2>1. Len(sent') = m /\ n + 1 <= m /\ sent' = sent /\ head_buf' = << >> /\ stage' = "head"
    BY <1>0, <1>1, <1>6 DEF senderVars
  <2> QED BY <1>11, <1>12, <2>1 DEF Place
<1>14. Place(rest, Len(delivered))'
  BY <1>2, <1>13
<1> QED BY <1>10, <1>14

LEMMA StreamStep == Shape /\ StreamInv /\ [Next]_vars => StreamInv'
<1> SUFFICES ASSUME Shape, StreamInv, [Next]_vars PROVE StreamInv'
  OBVIOUS
<1>1. ASSUME NEW doc \in Documents, Send(doc) PROVE StreamInv'
  <2>1. Written(doc) \in Seq(Bytes) /\ ~cut
    BY <1>1, WrittenForm DEF Send, Shape
  <2>2. PartOf(Len(sent), Written(doc))'
    <3>1. sent'[Len(sent')] = doc /\ ~cut'
      BY <1>1, <2>1, AppendProperties DEF Send, Shape
    <3> QED BY <3>1 DEF PartOf
  <2> QED BY <1>1, <2>1, <2>2, StreamGrows DEF Send
<1>2. ASSUME NEW doc \in Documents, NEW n \in 1..(Len(Written(doc)) - 1), SendPart(doc, n)
      PROVE  StreamInv'
  <2> DEFINE part == SubSeq(Written(doc), 1, n)
  <2>1. part \in Seq(Bytes)
    <3>1. Written(doc) \in Seq(Bytes) /\ Len(Written(doc)) \in Nat
      BY WrittenForm, LenProperties
    <3>2. \A i \in 1..n : i \in 1..Len(Written(doc))
      BY <3>1
    <3>3. \A i \in 1..n : Written(doc)[i] \in Bytes
      BY <3>1, <3>2, ElementOfSeq
    <3> QED BY <3>3, SubSeqProperties
  <2>2. PartOf(Len(sent), part)'
    <3>1. sent'[Len(sent')] = doc
      BY <1>2, AppendProperties DEF SendPart, Shape
    <3> QED BY <1>2, <3>1 DEF SendPart, PartOf
  <2> QED BY <1>2, <2>1, <2>2, StreamGrows DEF SendPart
<1>3. CASE Close \/ UNCHANGED vars
  <2>1. UNCHANGED <<entry, sent, cut, pipe, stage, head_buf, docinfo, delivered, status>>
    BY <1>3 DEF Close, vars, senderVars, readerVars
  <2>2. \A r : Rests(r)' <=> Rests(r)
    BY <2>1, RestsSame
  <2>3. \A r : Place(r, Len(delivered))' <=> Place(r, Len(delivered))
    BY <2>1 DEF Place, Within, From
  <2>4. Good(Len(delivered))' <=> Good(Len(delivered))
    BY <2>1, GoodSame
  <2> QED BY <2>1, <2>2, <2>3, <2>4 DEF StreamInv
<1>4. ASSUME status' # "reading" \/ entry' = "buffer" PROVE StreamInv'
  BY <1>4 DEF StreamInv
<1>5. CASE TooFewHeaders \/ UnknownParser \/ ShortBody \/ BufferWithoutHead
  BY <1>4, <1>5 DEF TooFewHeaders, UnknownParser, ShortBody, BufferWithoutHead, Croak
<1>6. CASE EndOfInput \/ EndOfBuffers
  BY <1>4, <1>6 DEF EndOfInput, EndOfBuffers, Finish
<1>7. CASE ParseBuffer
  BY <1>4, <1>7 DEF ParseBuffer, GotBuffer, Croak, senderVars
<1>8. CASE Sender
  BY <1>1, <1>2, <1>3, <1>8 DEF Sender
<1>9. CASE Reader
  BY <1>5, <1>6, <1>7, <1>9, StreamHeader, StreamBlank, StreamBody DEF Reader
<1> QED BY <1>3, <1>8, <1>9 DEF Next

-----------------------------------------------------------------------------
(* swish_parse_buffer has one document at a time.                          *)

BufferInv ==
  entry = "buffer" =>
    /\ ~cut
    /\ status = "reading" =>
         \/ pipe = << >> /\ Len(delivered) = Len(sent)
         \/ Len(sent) = Len(delivered) + 1 /\ pipe = Written(sent[Len(sent)])

LEMMA BufferStep == Shape /\ BufferInv /\ [Next]_vars => BufferInv'
<1> SUFFICES ASSUME Shape, BufferInv, [Next]_vars, entry' = "buffer"
             PROVE  /\ ~cut'
                    /\ status' = "reading" =>
                         \/ pipe' = << >> /\ Len(delivered') = Len(sent')
                         \/ /\ Len(sent') = Len(delivered') + 1
                            /\ pipe' = Written(sent'[Len(sent')])
  BY DEF BufferInv
<1> USE DEF senderVars, readerVars
<1>0. Len(delivered) \in Nat /\ Len(sent) \in Nat
  BY Delivered
<1>1. ASSUME NEW doc \in Documents, Send(doc)
      PROVE  ~cut' /\ Len(sent') = Len(delivered') + 1 /\ pipe' = Written(sent'[Len(sent')])
  <2>1. pipe = << >> /\ ~cut /\ Len(delivered) = Len(sent)
    <3>1. \A i \in 1..Len(sent) : Written(sent[i]) # << >>
      <4> SUFFICES ASSUME NEW i \in 1..Len(sent) PROVE Written(sent[i]) # << >>
        OBVIOUS
      <4>1. sent[i] \in Documents
        BY ElementOfSeq DEF Shape
      <4>2. /\ Heads(sent[i]) \in Nat /\ Len(sent[i].body) \in Nat
            /\ Len(Written(sent[i])) = 2 * Heads(sent[i]) + 1 + Len(sent[i].body)
        BY <4>1, WrittenForm
      <4>3. Len(Written(sent[i])) # 0
        BY <4>2
      <4> QED BY <4>3
    <3>2. Len(sent) = Len(delivered) + 1 => Len(sent) \in 1..Len(sent)
      BY <1>0
    <3> QED BY <1>1, <3>1, <3>2 DEF Send, BufferInv
  <2>2. Len(sent') = Len(sent) + 1 /\ sent'[Len(sent')] = doc
    BY <1>1, AppendProperties DEF Send, Shape
  <2>3. pipe' = Written(doc)
    BY <1>1, <2>1, WrittenForm, ConcatEmptySeq DEF Send
  <2> QED BY <1>1, <2>1, <2>2, <2>3 DEF Send
<1>2. ASSUME NEW doc \in Documents, NEW n, SendPart(doc, n) PROVE FALSE
  BY <1>2 DEF SendPart
<1>3. CASE Close \/ UNCHANGED vars
  BY <1>3 DEF Close, vars, BufferInv
<1>4. CASE status' # "reading" /\ UNCHANGED senderVars
  BY <1>4 DEF BufferInv
<1>5. CASE BufferWithoutHead
  BY <1>4, <1>5 DEF BufferWithoutHead, Croak
<1>6. CASE EndOfBuffers
  BY <1>4, <1>6 DEF EndOfBuffers, Finish
<1>7. CASE ParseBuffer
  <2>1. CASE Croak
    BY <1>4, <2>1 DEF Croak
  <2>2. CASE ~Croak
    <3>1. /\ \E info, body : Handle(info, body)
          /\ pipe' = << >> /\ UNCHANGED <<senderVars, readerVars, status>>
      BY <1>7, <2>2 DEF ParseBuffer
    <3>2. Len(delivered') = Len(delivered) + 1
      BY <3>1, DeliveredGrows
    <3>3. ~cut /\ status = "reading" /\ pipe # << >>
      BY <1>7, <3>1 DEF ParseBuffer, GotBuffer, BufferInv
    <3> QED BY <3>1, <3>2, <3>3 DEF BufferInv
  <2> QED BY <2>1, <2>2
<1>8. ASSUME entry = "fh",
             ReadHeader \/ TooFewHeaders \/ ReadBlank \/ ReadBody \/ UnknownParser \/ ShortBody
               \/ EndOfInput
      PROVE FALSE
  BY <1>8 DEF ReadHeader, TooFewHeaders, ReadBlank, ReadBody, UnknownParser, ShortBody,
              EndOfInput, Croak, Finish
<1>9. CASE Sender
  BY <1>1, <1>2, <1>3, <1>9 DEF Sender
<1>10. CASE Reader
  BY <1>5, <1>6, <1>7, <1>8, <1>10
     DEF Reader, ReadHeader, TooFewHeaders, ReadBlank, ReadBody, UnknownParser, ShortBody,
         EndOfInput, Reading
<1> QED BY <1>3, <1>9, <1>10 DEF Next

\* The blank line of a document as it should be is found, and its header before it.
LEMMA BufferParsed ==
  ASSUME NEW doc \in Documents, Intact(doc), pipe = Written(doc)
  PROVE  /\ pipe[1] # NL /\ HeadOf(BufferLines, doc) /\ Drop(BodyStart) = doc.body
<1> DEFINE h == Heads(doc)
           b == 2 * h + 1
<1>1. /\ h \in Nat /\ Len(doc.body) \in Nat /\ pipe \in Seq(Bytes)
      /\ Len(pipe) = 2 * h + 1 + Len(doc.body)
      /\ \A i \in 1..h : pipe[2 * i - 1] = doc.headers[i] /\ pipe[2 * i] = NL
      /\ pipe[2 * h + 1] = NL
      /\ \A j \in 1..Len(doc.body) : pipe[2 * h + 1 + j] = doc.body[j]
  BY WrittenForm
<1>2. h >= 2 /\ h <= MaxHeaders
  BY DEF Intact, Heads, MinHeaders
<1>3. \A i \in 1..h : doc.headers[i] # NL
  <2> SUFFICES ASSUME NEW i \in 1..h PROVE doc.headers[i] # NL
    OBVIOUS
  <2>1. doc.headers[i] \in HeaderLines
    BY DocumentAssumption, ElementOfSeq DEF Heads
  <2> QED BY <2>1, ByteKinds
<1>4. pipe[1] # NL
  <2>1. 1 \in 1..h /\ 2 * 1 - 1 = 1
    BY <1>1, <1>2
  <2> QED BY <1>1, <1>3, <2>1
<1>5. b \in Blanks
  <2>1. b \in 1..Len(pipe) /\ b > 1 /\ b - 1 = 2 * h /\ h \in 1..h
    BY <1>1, <1>2
  <2> QED BY <1>1, <2>1 DEF Blanks, Newlines
<1>6. ASSUME NEW j \in Blanks PROVE b <= j
  <2>1. j \in 1..Len(pipe) /\ j > 1 /\ pipe[j] = NL /\ pipe[j - 1] = NL
    BY DEF Blanks, Newlines
  <2>2. ASSUME j < b PROVE FALSE
    <3>1. \E i \in 1..h : j = 2 * i - 1 \/ j - 1 = 2 * i - 1
      <4>1. CASE j % 2 = 0
        <5>1. j = 2 * (j \div 2) /\ j \div 2 \in 1..h
          BY <1>1, <2>1, <2>2, <4>1
        <5>2. j - 1 = 2 * (j \div 2) - 1
          BY <5>1
        <5> QED BY <5>1, <5>2
      <4>2. CASE j % 2 # 0
        <5>1. \A a \in Nat : a % 2 # 0 => a = 2 * ((a + 1) \div 2) - 1
          OBVIOUS
        <5>2. j = 2 * ((j + 1) \div 2) - 1
          BY <2>1, <4>2, <5>1
        <5>3. (j + 1) \div 2 \in Int
          BY <2>1
        <5>4. (j + 1) \div 2 \in 1..h
          BY <1>1, <2>1, <2>2, <5>2, <5>3
        <5> QED BY <5>2, <5>4
      <4> QED BY <4>1, <4>2
    <3>2. PICK i \in 1..h : j = 2 * i - 1 \/ j - 1 = 2 * i - 1
      BY <3>1
    <3>3. pipe[2 * i - 1] # NL
      BY <1>1, <1>3
    <3> QED BY <2>1, <3>2, <3>3
  <2> QED BY <1>1, <2>1, <2>2
<1>7. BlankAt = b
  <2>1. \A i \in Blanks : i \in Int
    BY DEF Blanks, Newlines
  <2>2. \A i \in Blanks : (\A j \in Blanks : i <= j) => i = b
    BY <1>1, <1>5, <1>6, <2>1
  <2> HIDE DEF b
  <2> QED BY <1>5, <1>6, <2>2 DEF BlankAt
<1>8. (BlankAt - 1) \div 2 = h
  BY <1>1, <1>7
<1>9. BufferLines = [i \in 1..h |-> <<pipe[2 * i - 1]>>]
  BY <1>8 DEF BufferLines
<1>10. Len(BufferLines) = h /\ \A i \in 1..h : BufferLines[i] = <<doc.headers[i]>>
  BY <1>1, <1>9
<1>11. BodyStart = b
  BY <1>2, <1>7, <1>10 DEF BodyStart
<1>12. Drop(b) = doc.body
  <2>1. doc.body \in Seq(Bytes)
    <3>1. doc.body \in Seq({NL, TEXT}) /\ {NL, TEXT} \subseteq Bytes
      BY DocumentAssumption DEF Bytes
    <3> QED BY <3>1, SeqMonotonic
  <2>2. b \in Nat /\ b <= Len(pipe) /\ Len(doc.body) = Len(pipe) - b
    <3>1. \A a, c \in Nat : /\ 2 * a + 1 \in Nat /\ 2 * a + 1 <= 2 * a + 1 + c
                            /\ c = (2 * a + 1 + c) - (2 * a + 1)
      OBVIOUS
    <3> HIDE DEF h
    <3> QED BY <1>1, <3>1
  <2>3. \A j \in 1..Len(doc.body) : b + j = j + b
    BY <1>1
  <2>4. \A j \in 1..Len(doc.body) : doc.body[j] = pipe[j + b]
    BY <1>1, <2>3
  <2> HIDE DEF b
  <2>5. From(pipe, b) = doc.body
    BY <1>1, <2>1, <2>2, <2>4, FromIs
  <2> QED BY <2>5 DEF Drop, From
<1> QED BY <1>4, <1>10, <1>11, <1>12 DEF HeadOf

-----------------------------------------------------------------------------
(* The refinement.                                                         *)

LEMMA SoundIs ==
  ASSUME NEW k
  PROVE  DS!Sound(k) <=> \A i \in 1..Len(sent) : i <= k => Intact(sent[i]) /\ ~Lost(i)
BY DEF DS!Sound, DS!Whole, DS!Last, Lost

\* Where the reader of a stream is when nothing is wrong so far.
LEMMA StreamPlace ==
  ASSUME Shape, StreamInv, entry = "fh", status = "reading", DS!Sound(Len(delivered) + 1)
  PROVE  \E rest :
           /\ Rests(rest) /\ Len(delivered) <= Len(sent)
           /\ \/ /\ Len(delivered) = Len(sent)
                 /\ stage = "head" /\ head_buf = << >> /\ pipe = << >>
              \/ LET i == Len(delivered) + 1
                 IN /\ i \in 1..Len(sent) /\ Intact(sent[i]) /\ ~Lost(i)
                    /\ Within(rest[i], sent[i])
<1> DEFINE n == Len(delivered)
           m == Len(sent)
<1>1. n \in Nat /\ m \in Nat
  BY Delivered
<1>2. \A i \in 1..m : i <= n + 1 => Intact(sent[i]) /\ ~Lost(i)
  BY SoundIs
<1>3. Good(n)
  BY <1>1, <1>2 DEF Good
<1>4. PICK rest : Rests(rest) /\ Place(rest, n)
  BY <1>3 DEF StreamInv
<1>5. n <= m
  BY <1>4 DEF Place
<1>6. CASE n = m
  BY <1>4, <1>5, <1>6 DEF Place
<1>7. CASE n < m
  <2>1. n + 1 \in 1..m /\ n + 1 <= n + 1
    BY <1>1, <1>7
  <2>2. Intact(sent[n + 1]) /\ ~Lost(n + 1)
    BY <1>2, <2>1
  <2>3. Within(rest[n + 1], sent[n + 1])
    BY <1>4, <1>7, <2>2 DEF Place
  <2> QED BY <1>4, <1>5, <2>1, <2>2, <2>3
<1> QED BY <1>1, <1>5, <1>6, <1>7

\* A whole document has more to read while its header is read.
LEMMA MoreToCome ==
  ASSUME Shape, NEW rest, Rests(rest), NEW i \in 1..Len(sent), ~Lost(i),
         Within(rest[i], sent[i]), stage = "head"
  PROVE  pipe # << >>
<1>0. PICK d, x, r, k : d = sent[i] /\ x = rest[i] /\ r = rest[i + 1] /\ k = Len(head_buf)
  OBVIOUS
<1>1. d \in Documents /\ x = Written(d) \o r /\ r \in Seq(Bytes)
  BY <1>0, RestForm
<1>2. /\ Heads(d) \in Nat /\ Len(d.body) \in Nat /\ Written(d) \in Seq(Bytes)
      /\ Len(Written(d)) = 2 * Heads(d) + 1 + Len(d.body)
  BY <1>1, WrittenForm
<1>3. x \in Seq(Bytes) /\ Len(x) = Len(Written(d)) + Len(r) /\ Len(r) \in Nat
  BY <1>1, <1>2, ConcatProperties, LenProperties
<1>4. k \in Nat /\ k <= Heads(d) /\ pipe = From(x, 2 * k)
  BY <1>0, Delivered DEF Within
<1>5. 2 * k \in Nat /\ 2 * k < Len(x) /\ Len(x) \in Nat
  <2>1. PICK a, b, c : a = Heads(d) /\ b = Len(d.body) /\ c = Len(r)
    OBVIOUS
  <2>2. a \in Nat /\ b \in Nat /\ c \in Nat /\ Len(x) = 2 * a + 1 + b + c
    BY <1>2, <1>3, <2>1
  <2>3. k \in Nat /\ k <= a
    BY <1>4, <2>1
  <2> QED BY <2>2, <2>3
<1>6. Len(pipe) = Len(x) - 2 * k
  <2>1. PICK c \in Nat : c = 2 * k
    BY <1>5
  <2>2. Len(From(x, c)) = IF c <= Len(x) THEN Len(x) - c ELSE 0
    BY <1>3, FromProperties
  <2> QED BY <1>4, <1>5, <2>1, <2>2
<1>7. Len(pipe) # 0
  BY <1>5, <1>6
<1> QED BY <1>7

Known == Shape /\ StreamInv /\ BufferInv

\* A buffer is parsed when exactly the document in it is yet to be delivered.
LEMMA BufferPlace ==
  ASSUME Known, GotBuffer, DS!Sound(Len(delivered) + 1)
  PROVE  /\ Len(delivered) + 1 \in 1..Len(sent) /\ sent[Len(delivered) + 1] \in Documents
         /\ Intact(sent[Len(delivered) + 1]) /\ pipe = Written(sent[Len(delivered) + 1])
<1>1. Len(sent) = Len(delivered) + 1 /\ pipe = Written(sent[Len(sent)])
  BY DEF GotBuffer, Known, BufferInv
<1>2. Len(delivered) \in Nat /\ Len(sent) \in Nat
  BY Delivered DEF Known
<1>3. Len(delivered) + 1 \in 1..Len(sent) /\ Len(delivered) + 1 <= Len(delivered) + 1
  BY <1>1, <1>2
<1>4. Intact(sent[Len(delivered) + 1])
  BY <1>3, SoundIs
<1> QED BY <1>1, <1>3, <1>4, ElementOfSeq DEF Known, Shape

\* Neither function gives up on account of documents that are as they should be.
LEMMA GivesUpForAReason ==
  ASSUME Known, Reader, status' = "croaked"
  PROVE  ~DS!Sound(Len(delivered) + 1)
<1> DEFINE i == Len(delivered) + 1
<1> SUFFICES ASSUME DS!Sound(i) PROVE FALSE
  OBVIOUS
<1>1. ASSUME GotBuffer, BufferWithoutHead \/ ParseBuffer PROVE FALSE
  <2>1. sent[i] \in Documents /\ Intact(sent[i]) /\ pipe = Written(sent[i])
    BY <1>1, BufferPlace
  <2>2. pipe[1] # NL /\ HeadOf(BufferLines, sent[i])
    BY <2>1, BufferParsed
  <2>3. /\ Kept(BufferLines) = BufferLines /\ ~HeadFails(BufferLines)
        /\ Checked(DocInfoOf(BufferLines)).parser \in KnownParsers
    BY <2>1, <2>2, HeadOfIntact
  <2> QED BY <1>1, <2>2, <2>3 DEF BufferWithoutHead, ParseBuffer, GotBuffer
<1>2. CASE EndOfBuffers
  BY <1>2 DEF EndOfBuffers, Finish
<1>3. ASSUME entry = "fh", status = "reading" PROVE FALSE
  <2>1. PICK rest :
           /\ Rests(rest)
           /\ \/ stage = "head" /\ head_buf = << >> /\ pipe = << >>
              \/ /\ i \in 1..Len(sent) /\ Intact(sent[i]) /\ ~Lost(i)
                 /\ Within(rest[i], sent[i])
    BY <1>3, StreamPlace DEF Known
  <2>2. CASE stage = "head" /\ head_buf = << >> /\ pipe = << >>
    BY <1>3, <2>2
       DEF Reader, ReadHeader, TooFewHeaders, ReadBlank, ReadBody, UnknownParser, ShortBody,
           EndOfInput, BufferWithoutHead, ParseBuffer, EndOfBuffers, Reading, GotLine, Newlines,
           Finish, GotBuffer
  <2>3. CASE i \in 1..Len(sent) /\ Intact(sent[i]) /\ ~Lost(i) /\ Within(rest[i], sent[i])
    <3>1. sent[i] \in Documents /\ Starts(rest[i], sent[i])
      BY <2>1, <2>3, RestForm DEF Known
    <3>2. CASE stage = "head"
      <4>1. pipe # << >>
        BY <2>1, <2>3, <3>2, MoreToCome DEF Known
      <4>2. Line = << >> => HeadOf(head_buf, sent[i])
        BY <2>3, <3>1, <3>2, <4>1, HeadStep DEF Known
      <4>3. CASE Line = << >>
        <5>1. Len(head_buf) >= MinHeaders
          BY <2>3, <4>2, <4>3 DEF HeadOf, Intact, Heads
        <5>2. ~HeadFails(Kept(head_buf))
          BY <2>3, <3>1, <4>2, <4>3, HeadOfIntact
        <5>3. Len(head_buf) \in Nat /\ ~(Len(head_buf) < MinHeaders)
          BY <5>1, Delivered DEF Known, MinHeaders
        <5> QED BY <1>3, <3>2, <4>1, <4>3, <5>2, <5>3
               DEF Reader, ReadHeader, TooFewHeaders, ReadBlank, ReadBody, UnknownParser,
                   ShortBody, EndOfInput, BufferWithoutHead, ParseBuffer, EndOfBuffers, Reading,
                   GotBuffer
      <4>4. CASE Line # << >>
        BY <1>3, <3>2, <4>1, <4>4
           DEF Reader, ReadHeader, TooFewHeaders, ReadBlank, ReadBody, UnknownParser,
               ShortBody, EndOfInput, BufferWithoutHead, ParseBuffer, EndOfBuffers, Reading,
               GotBuffer
      <4> QED BY <4>3, <4>4
    <3>3. CASE stage = "body"
      <4>1. docinfo.parser \in KnownParsers /\ Len(pipe) >= docinfo.size
        BY <2>1, <2>3, <3>3, BodyStep DEF Known
      <4>2. Len(pipe) \in Nat /\ docinfo.size \in Nat
        BY <3>3, LenProperties DEF Known, Shape, ReaderShape
      <4>3. ~(Len(pipe) < docinfo.size)
        BY <4>1, <4>2
      <4> QED BY <1>3, <3>3, <4>1, <4>3
             DEF Reader, ReadHeader, TooFewHeaders, ReadBlank, ReadBody, UnknownParser,
                 ShortBody, EndOfInput, BufferWithoutHead, ParseBuffer, EndOfBuffers, Reading,
                 GotBuffer
    <3> QED BY <3>2, <3>3 DEF Known, Shape, ReaderShape
  <2> QED BY <2>1, <2>2, <2>3
<1> QED BY <1>1, <1>2, <1>3
       DEF Reader, ReadHeader, TooFewHeaders, ReadBlank, ReadBody, UnknownParser, ShortBody,
           EndOfInput, BufferWithoutHead, ParseBuffer, Reading, GotBuffer

\* They return when everything is delivered, and not inside a document.
LEMMA ReturnsAtTheEnd ==
  ASSUME Known, EndOfInput \/ EndOfBuffers, status' = "returned"
  PROVE  DS!Return
<1> DEFINE n == Len(delivered)
           m == Len(sent)
<1>1. n \in Nat /\ m \in Nat
  BY Delivered DEF Known
<1>2. status = "reading" /\ closed /\ pipe = << >> /\ UNCHANGED <<sent, cut, closed, delivered>>
  BY DEF EndOfInput, EndOfBuffers, Reading, Finish, senderVars
<1>3. (DS!Sound(m) => n = m) /\ ~DS!Truncated
  <2>1. CASE entry = "fh"
    <3>1. stage = "head" /\ head_buf = << >>
      BY <2>1 DEF EndOfInput, EndOfBuffers, Reading, Finish
    <3>2. ASSUME Good(n), n < m, Intact(sent[n + 1]), NEW rest, Rests(rest), Place(rest, n)
          PROVE  FALSE
      <4>1. n + 1 \in 1..m
        BY <1>1, <3>2
      <4>2. Within(rest[n + 1], sent[n + 1])
        BY <3>2 DEF Place
      <4>3. rest[n + 1] \in Seq(Bytes) /\ rest[n + 1] # << >>
        BY <3>2, <4>1, RestForm DEF Known, Starts
      <4>4. pipe = From(rest[n + 1], 0)
        <5>1. Len(head_buf) = 0 /\ 2 * 0 = 0
          BY <3>1
        <5> QED BY <3>1, <4>2, <5>1 DEF Within
      <4> QED BY <1>2, <4>3, <4>4, FromZero
    <3>3. ASSUME Good(n) PROVE \E rest : Rests(rest) /\ Place(rest, n)
      BY <1>2, <2>1, <3>3 DEF Known, StreamInv
    <3>4. ASSUME DS!Sound(m) PROVE n = m
      <4>1. \A i \in 1..m : Intact(sent[i])
        <5>1. \A i \in 1..m : i <= m
          BY <1>1
        <5> QED BY <3>4, <5>1, SoundIs
      <4>2. Good(n)
        BY <4>1 DEF Good
      <4>3. PICK rest : Rests(rest) /\ Place(rest, n)
        BY <3>3, <4>2
      <4>4. n <= m
        BY <4>3 DEF Place
      <4>5. ~(n < m)
        <5>1. n < m => n + 1 \in 1..m
          BY <1>1
        <5> QED BY <3>2, <4>1, <4>2, <4>3, <5>1
      <4> QED BY <1>1, <4>4, <4>5
    <3>5. ASSUME DS!Truncated PROVE FALSE
      <4>1. cut /\ Intact(sent[m]) /\ DS!Sound(m - 1)
        BY <3>5 DEF DS!Truncated, DS!Last
      <4>2. m > 0
        BY <4>1 DEF Known, Shape
      <4>3. \A i \in 1..m : Intact(sent[i])
        <5> SUFFICES ASSUME NEW i \in 1..m PROVE Intact(sent[i])
          OBVIOUS
        <5>1. CASE i = m
          BY <4>1, <5>1
        <5>2. CASE i # m
          <6>1. i <= m - 1
            BY <1>1, <5>2
          <6> QED BY <4>1, <6>1, SoundIs
        <5> QED BY <5>1, <5>2
      <4>4. Good(n)
        BY <4>3 DEF Good
      <4>5. PICK rest : Rests(rest) /\ Place(rest, n)
        BY <3>3, <4>4
      <4>6. n < m
        BY <1>1, <4>1, <4>5 DEF Place
      <4>7. n + 1 \in 1..m
        BY <1>1, <4>6
      <4> QED BY <3>2, <4>3, <4>4, <4>5, <4>6, <4>7
    <3> QED BY <3>4, <3>5
  <2>2. CASE entry = "buffer"
    <3>1. ~cut
      BY <2>2 DEF Known, BufferInv
    <3>2. n = m
      <4>1. ASSUME m = n + 1, pipe = Written(sent[m]) PROVE FALSE
        <5>1. m \in 1..m
          BY <1>1, <4>1
        <5>2. sent[m] \in Documents
          BY <5>1, ElementOfSeq DEF Known, Shape
        <5>3. /\ Heads(sent[m]) \in Nat /\ Len(sent[m].body) \in Nat
              /\ Len(Written(sent[m])) = 2 * Heads(sent[m]) + 1 + Len(sent[m].body)
          BY <5>2, WrittenForm
        <5>4. Len(pipe) = 0
          BY <1>2
        <5> QED BY <4>1, <5>3, <5>4
      <4> QED BY <1>2, <2>2, <4>1 DEF Known, BufferInv
    <3> QED BY <3>1, <3>2 DEF DS!Truncated
  <2> QED BY <2>1, <2>2, EntryAssumption DEF Known, Shape
<1> QED BY <1>2, <1>3 DEF DS!Return, DS!Last

\* A document as it should be is delivered with its own header and body.
LEMMA DeliversAsPromised ==
  ASSUME Known, ReadBody \/ (ParseBuffer /\ ~Croak)
  PROVE  DS!Deliver
<1> DEFINE n == Len(delivered)
           i == n + 1
<1>1. n \in Nat /\ (i - 1 = n)
  BY Delivered DEF Known
<1>2. CASE ReadBody
  <2>1. /\ entry = "fh" /\ status = "reading" /\ stage = "body" /\ Len(pipe) >= docinfo.size
        /\ Handle(docinfo, SubSeq(pipe, 1, docinfo.size)) /\ UNCHANGED <<senderVars, status>>
    BY <1>2 DEF ReadBody, Reading
  <2>2. /\ Len(delivered') = i /\ SubSeq(delivered', 1, i - 1) = delivered
        /\ delivered'[i] = [info |-> docinfo, body |-> SubSeq(pipe, 1, docinfo.size)]
    BY <1>1, <2>1, DeliveredGrows DEF Known
  <2>3. ASSUME DS!Sound(i) PROVE i <= Len(sent) /\ delivered'[i] = Promise(sent[i])
    <3>1. PICK rest :
             /\ Rests(rest)
             /\ i \in 1..Len(sent) /\ Intact(sent[i]) /\ ~Lost(i)
             /\ Within(rest[i], sent[i])
      BY <2>1, <2>3, StreamPlace DEF Known
    <3>2. docinfo = Promise(sent[i]).info /\ SubSeq(pipe, 1, docinfo.size) = sent[i].body
      BY <2>1, <3>1, BodyStep DEF Known
    <3>3. Promise(sent[i]) = [info |-> Promise(sent[i]).info, body |-> sent[i].body]
      BY DEF Promise
    <3>4. i <= Len(sent)
      BY <1>1, <3>1
    <3> QED BY <2>2, <3>2, <3>3, <3>4
  <2> QED BY <2>1, <2>2, <2>3 DEF DS!Deliver, DS!Last, senderVars
<1>3. CASE ParseBuffer /\ ~Croak
  <2> DEFINE info == Checked(DocInfoOf(Kept(BufferLines)))
  <2>1. GotBuffer /\ Handle(info, Drop(BodyStart)) /\ UNCHANGED <<senderVars, status>>
    BY <1>3 DEF ParseBuffer
  <2>2. /\ Len(delivered') = i /\ SubSeq(delivered', 1, i - 1) = delivered
        /\ delivered'[i] = [info |-> info, body |-> Drop(BodyStart)]
    BY <1>1, <2>1, DeliveredGrows DEF Known
  <2>3. ASSUME DS!Sound(i) PROVE i <= Len(sent) /\ delivered'[i] = Promise(sent[i])
    <3>1. i \in 1..Len(sent) /\ sent[i] \in Documents /\ Intact(sent[i]) /\ pipe = Written(sent[i])
      BY <2>1, <2>3, BufferPlace
    <3>2. HeadOf(BufferLines, sent[i]) /\ Drop(BodyStart) = sent[i].body
      BY <3>1, BufferParsed
    <3>3. info = Promise(sent[i]).info
      BY <3>1, <3>2, HeadOfIntact
    <3>4. Promise(sent[i]) = [info |-> Promise(sent[i]).info, body |-> sent[i].body]
      BY DEF Promise
    <3> QED BY <2>2, <3>1, <3>2, <3>3, <3>4
  <2> QED BY <2>1, <2>2, <2>3 DEF DS!Deliver, DS!Last, senderVars, GotBuffer
<1> QED BY <1>2, <1>3

LEMMA StepRefines == Known /\ [Next]_vars => [DS!Next]_(DS!vars)
<1> SUFFICES ASSUME Known, [Next]_vars PROVE DS!Next \/ UNCHANGED DS!vars
  OBVIOUS
<1>1. ASSUME UNCHANGED <<senderVars, delivered, status>> PROVE UNCHANGED DS!vars
  BY <1>1 DEF senderVars, DS!vars
<1>2. CASE Sender
  <2>1. ASSUME NEW doc \in Documents, Send(doc) PROVE DS!Send(doc)
    BY <2>1 DEF Send, DS!Send, DS!Last, Known, Shape
  <2>2. ASSUME NEW doc \in Documents, NEW n, SendPart(doc, n) PROVE DS!Send(doc)
    BY <2>2 DEF SendPart, DS!Send, DS!Last
  <2>3. CASE Close
    <3>1. DS!Close
      BY <2>3 DEF Close, DS!Close
    <3> QED BY <3>1 DEF DS!Next
  <2> QED BY <1>2, <2>1, <2>2, <2>3 DEF Sender, DS!Next
<1>3. CASE Reader
  <2>1. CASE status' = "croaked" /\ status = "reading"
    <3>1. ~DS!Sound(Len(delivered) + 1)
      BY <1>3, <2>1, GivesUpForAReason
    <3>2. UNCHANGED <<sent, cut, closed, delivered>>
      BY <1>3, <2>1
         DEF Reader, ReadHeader, TooFewHeaders, ReadBlank, ReadBody, UnknownParser, ShortBody,
             EndOfInput, BufferWithoutHead, ParseBuffer, EndOfBuffers, Croak, Finish, senderVars
    <3> QED BY <2>1, <3>1, <3>2 DEF DS!Next, DS!GiveUp
  <2>2. CASE ReadHeader \/ (ReadBlank /\ status' = "reading")
    BY <1>1, <2>2 DEF ReadHeader, ReadBlank, Croak, senderVars
  <2>3. CASE ReadBody \/ (ParseBuffer /\ ~Croak)
    BY <2>3, DeliversAsPromised DEF DS!Next
  <2>4. CASE (EndOfInput \/ EndOfBuffers) /\ status' = "returned"
    BY <2>4, ReturnsAtTheEnd DEF DS!Next
  <2> QED BY <1>3, <2>1, <2>2, <2>3, <2>4
         DEF Reader, TooFewHeaders, ReadBlank, UnknownParser, ShortBody, EndOfInput,
             BufferWithoutHead, ParseBuffer, EndOfBuffers, Reading, GotBuffer, Croak, Finish
<1>4. CASE UNCHANGED vars
  BY <1>1, <1>4 DEF vars
<1> QED BY <1>2, <1>3, <1>4 DEF Next

LEMMA InitKnown == Init => Known /\ DS!Init
<1> SUFFICES ASSUME Init PROVE Known /\ DS!Init
  OBVIOUS
<1>1. Shape
  BY ShapeInit
<1>2. Len(sent) = 0 /\ Len(delivered) = 0 /\ 1..0 = {} /\ 0 + 1 = 1
  BY DEF Init
<1>3. StreamInv
  <2> DEFINE rest == [i \in 1..1 |-> << >>]
  <2>1. 1 \in 1..1 /\ << >> \in Seq(Bytes)
    BY EmptySeq
  <2>2. Rests(rest)
    BY <1>2, <2>1 DEF Rests
  <2>3. Place(rest, 0)
    BY <1>2 DEF Place, Init
  <2> QED BY <1>2, <2>2, <2>3 DEF StreamInv
<1>4. BufferInv
  BY <1>2 DEF BufferInv, Init
<1> QED BY <1>1, <1>3, <1>4 DEF Known, DS!Init, Init

\* swish_parse_fh and swish_parse_buffer deliver every document that is as it
\* should be once, in order, with its own header and its own body, whatever the
\* bodies look like and however the bytes arrive; they give up only after one
\* that is not, and a sender that dies inside a document does not go unnoticed.
THEOREM StreamImplemented == Spec => ImplementsDocStream
<1>1. Init => Known /\ DS!Init
  BY InitKnown
<1>2. Known /\ [Next]_vars => Known'
  BY ShapeStep, StreamStep, BufferStep DEF Known
<1>3. Known /\ [Next]_vars => [DS!Next]_(DS!vars)
  BY StepRefines
<1> QED BY <1>1, <1>2, <1>3, PTL DEF Spec, ImplementsDocStream, DS!Spec
=============================================================================
