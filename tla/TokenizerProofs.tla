--------------------------- MODULE TokenizerProofs ---------------------------
(***************************************************************************)
(* What the tokenizers make of a list of tokens: that the list stays       *)
(* sound, whatever the text and whatever is in the list already, and that  *)
(* what is new in it are the words of the text.                            *)
(***************************************************************************)
EXTENDS Tokenizer, FiniteSetTheorems, TLAPS

Byte == Char \cup {NUL, Cont}

-----------------------------------------------------------------------------
(* The bytes of a string.                                                  *)

\* After n characters there are at least n bytes, the first is the first
\* character, and none is NUL.
BytesSoFar(s, n, bytes) ==
  /\ bytes \in Seq(Char \cup {Cont}) /\ Len(bytes) >= n
  /\ IF n = 0 THEN bytes = << >> ELSE bytes[1] = s[1]

B == INSTANCE FoldProofs WITH Op <- Encoded, Inv <- BytesSoFar

LEMMA BytesFolded ==
  ASSUME NEW s PROVE Bytes(s) = B!Folded(<< >>, s)
BY DEF Bytes, B!Folded, FoldLeft, MapThenFoldSet, B!FoldLeft, B!MapThenFoldSet, Max, B!Max

LEMMA BytesType ==
  ASSUME NEW s \in Seq(Char)
  PROVE  BytesSoFar(s, Len(s), Bytes(s))
<1>1. BytesSoFar(s, 0, << >>)
  BY DEF BytesSoFar
<1>2. ASSUME NEW i \in 1..Len(s), NEW b, BytesSoFar(s, i - 1, b)
      PROVE  BytesSoFar(s, i, Encoded(b, s[i]))
  <2> DEFINE e == IF s[i] \in Wide THEN <<s[i], Cont>> ELSE <<s[i]>>
  <2>1. b \in Seq(Char \cup {Cont}) /\ Len(b) >= i - 1 /\ s[i] \in Char
    BY <1>2 DEF BytesSoFar
  <2>2. e \in Seq(Char \cup {Cont}) /\ Len(e) >= 1 /\ e[1] = s[i]
    <3>1. CASE s[i] \in Wide
      BY <2>1, <3>1
    <3>2. CASE s[i] \notin Wide
      BY <2>1, <3>2
    <3> QED BY <3>1, <3>2
  <2> HIDE DEF e
  <2>3. b \o e \in Seq(Char \cup {Cont}) /\ Len(b \o e) >= i
    BY <2>1, <2>2
  <2>4. (b \o e)[1] = s[1]
    <3>1. CASE i = 1
      BY <1>2, <2>2, <3>1 DEF BytesSoFar
    <3>2. CASE i > 1
      BY <1>2, <2>1, <2>2, <3>2 DEF BytesSoFar
    <3>3. i = 1 \/ i > 1
      OBVIOUS
    <3> QED BY <3>1, <3>2, <3>3
  <2> QED BY <2>3, <2>4 DEF BytesSoFar, Encoded, e
<1> QED
  <2>1. DOMAIN s = 1..Len(s) /\ Len(s) \in Nat
    OBVIOUS
  <2> HIDE DEF BytesSoFar, Encoded
  <2> QED BY <1>1, <1>2, <2>1, BytesFolded, B!FoldInduction

\* The bytes of a prefix, and those that follow it.
PrefixSoFar(p, n, bytes) ==
  /\ bytes \in Seq(Char \cup {Cont})
  /\ n <= p.k => bytes = p.iter[n]
  /\ n >= p.k => Len(bytes) >= Len(p.iter[p.k]) + (n - p.k)

P == INSTANCE FoldProofs WITH Op <- Encoded, Inv <- PrefixSoFar

LEMMA BytesFoldedToo ==
  ASSUME NEW s PROVE Bytes(s) = P!Folded(<< >>, s)
BY DEF Bytes, P!Folded, FoldLeft, MapThenFoldSet, P!FoldLeft, P!MapThenFoldSet, Max, P!Max

LEMMA EncodedType ==
  ASSUME NEW b \in Seq(Char \cup {Cont}), NEW c \in Char
  PROVE  Encoded(b, c) \in Seq(Char \cup {Cont}) /\ Len(Encoded(b, c)) >= Len(b) + 1
<1> DEFINE e == IF c \in Wide THEN <<c, Cont>> ELSE <<c>>
<1>1. e \in Seq(Char \cup {Cont}) /\ Len(e) >= 1
  <2>1. CASE c \in Wide
    BY <2>1
  <2>2. CASE c \notin Wide
    BY <2>2
  <2> QED BY <2>1, <2>2
<1> HIDE DEF e
<1>2. b \o e \in Seq(Char \cup {Cont}) /\ Len(b \o e) >= Len(b) + 1
  BY <1>1
<1> QED BY <1>2 DEF Encoded, e

LEMMA WidthOfPrefix ==
  ASSUME NEW v \in Seq(Char), NEW k \in 0..Len(v), NEW w \in Seq(Char), Len(w) = k,
         \A i \in 1..k : w[i] = v[i]
  PROVE  Width(w) \in Nat /\ Width(v) \in Nat /\ Width(w) + (Len(v) - k) <= Width(v)
<1>1. PICK iter : P!Through(iter, << >>, w, k)
  <2>1. DOMAIN w = 1..k /\ k \in Nat
    OBVIOUS
  <2> QED BY <2>1, P!FoldUnfolds
<1>2. Bytes(w) = iter[k] /\ iter[0] = << >> /\ \A i \in 1..k : iter[i] = Encoded(iter[i - 1], w[i])
  BY <1>1, BytesFoldedToo DEF P!Through
<1> DEFINE p == [k |-> k, iter |-> iter]
<1>3. Len(iter[k]) \in Nat
  BY <1>2, BytesType DEF BytesSoFar
<1>4. PrefixSoFar(p, 0, << >>)
  BY <1>2 DEF PrefixSoFar
<1>5. ASSUME NEW i \in 1..Len(v), NEW b, PrefixSoFar(p, i - 1, b)
      PROVE  PrefixSoFar(p, i, Encoded(b, v[i]))
  <2>0. i \in Nat /\ i - 1 \in Nat /\ k \in Nat /\ Len(v) \in Nat
    OBVIOUS
  <2>1. b \in Seq(Char \cup {Cont}) /\ v[i] \in Char
    BY <1>5 DEF PrefixSoFar
  <2>2. Encoded(b, v[i]) \in Seq(Char \cup {Cont}) /\ Len(Encoded(b, v[i])) >= Len(b) + 1
    BY <2>1, EncodedType
  <2>3. CASE i <= k
    <3>1. b = iter[i - 1] /\ i \in 1..k /\ w[i] = v[i]
      BY <1>5, <2>0, <2>3 DEF PrefixSoFar
    <3>2. Encoded(b, v[i]) = iter[i]
      BY <1>2, <3>1
    <3>3. i >= k => i = k
      BY <2>0, <2>3
    <3> QED BY <1>3, <2>0, <2>2, <3>2, <3>3 DEF PrefixSoFar
  <2>4. CASE i > k
    <3>1. Len(b) >= Len(iter[k]) + (i - 1 - k)
      BY <1>5, <2>0, <2>4 DEF PrefixSoFar
    <3>2. Len(b) \in Nat /\ Len(Encoded(b, v[i])) \in Nat
      BY <2>1, <2>2
    <3>3. Len(Encoded(b, v[i])) >= Len(iter[k]) + (i - k)
      BY <1>3, <2>0, <2>2, <3>1, <3>2
    <3> QED BY <2>0, <2>2, <2>4, <3>3 DEF PrefixSoFar
  <2> QED BY <2>0, <2>3, <2>4
<1>6. PrefixSoFar(p, Len(v), Bytes(v))
  <2>1. DOMAIN v = 1..Len(v) /\ Len(v) \in Nat
    OBVIOUS
  <2> HIDE DEF PrefixSoFar, Encoded, p
  <2> QED BY <1>4, <1>5, <2>1, BytesFoldedToo, P!FoldInduction
<1>7. k \in Nat /\ Len(v) \in Nat /\ Len(v) >= k
  OBVIOUS
<1>8. Len(Bytes(v)) \in Nat /\ Len(Bytes(v)) >= Len(iter[k]) + (Len(v) - k)
  BY <1>6, <1>7 DEF PrefixSoFar
<1> QED BY <1>2, <1>3, <1>7, <1>8 DEF Width

-----------------------------------------------------------------------------
(* The list.                                                               *)

\* Numbers that Block divides.
LEMMA BlockDivides ==
  /\ 0 % Block = 0 /\ Block % Block = 0
  /\ \A n \in Nat : n % Block = 0 => (n + Block) % Block = 0
<1>0. Block \in Nat \ {0}
  BY CharAssumption
<1>1. 0 % Block = 0 /\ Block % Block = 0
  BY <1>0
<1>2. ASSUME NEW n \in Nat, n % Block = 0 PROVE (n + Block) % Block = 0
  <2>1. n = Block * (n \div Block) + (n % Block) /\ n \div Block \in Nat
    BY <1>0
  <2>2. PICK q \in Nat : n = Block * q
    BY <1>0, <1>2, <2>1
  <2>3. n + Block = Block * (q + 1) /\ q + 1 \in Nat
    BY <1>0, <2>2
  <2>4. \A r \in Nat : (Block * r) % Block = 0
    BY <1>0
  <2> QED BY <2>3, <2>4
<1> QED BY <1>1, <1>2

\* The list as far as it is right: its tokens lie one behind the other in the
\* buffer, their positions grow, and the array has room for them.
Tokens == [n : Nat, meta : Nat, offset : Nat, len : Nat, pos : Nat]
Lists  == [buf : Seq(Byte), tokens : Seq(Tokens), pos : Nat, size : Nat, made : Nat]

After(t) == t.offset + t.len + 1
Sound(list) ==
  /\ list \in Lists
  /\ Len(list.tokens) <= list.size /\ list.size % Block = 0 /\ list.size >= Block
  /\ \A i \in 1..(Len(list.tokens) - 1) :
       After(list.tokens[i]) = list.tokens[i + 1].offset /\ list.tokens[i].pos < list.tokens[i + 1].pos
  /\ list.tokens # << >> =>
       /\ After(list.tokens[Len(list.tokens)]) = Len(list.buf)
       /\ list.tokens[Len(list.tokens)].pos <= list.pos
  /\ \A i \in 1..Len(list.tokens) : After(list.tokens[i]) <= Len(list.buf)

\* The last byte of a token, and no other, is NUL.
EndsIn(bytes) == \A j \in 1..Len(bytes) : bytes[j] = NUL <=> j = Len(bytes)
EndedAt(list, t) == \A j \in 1..(t.len + 1) : list.buf[t.offset + j] = NUL <=> j = t.len + 1
Ended(list) == \A i \in 1..Len(list.tokens) : EndedAt(list, list.tokens[i])

\* Of a list, tokens with new numbers are added at the end.
Extends(old, list, metas) ==
  /\ Len(old.tokens) <= Len(list.tokens)
  /\ \A i \in 1..Len(old.tokens) : list.tokens[i] = old.tokens[i]
  /\ \A i \in (Len(old.tokens) + 1)..Len(list.tokens) :
       list.tokens[i].n = old.made + (i - Len(old.tokens)) /\ list.tokens[i].meta \in metas
  /\ list.made = old.made + (Len(list.tokens) - Len(old.tokens))

LEMMA NewListSound ==
  ASSUME NEW made \in Nat PROVE Sound(NewList(made)) /\ Ended(NewList(made))
<1>0. Block \in Nat \ {0}
  BY CharAssumption
<1>1. NewList(made) \in Lists
  BY <1>0 DEF NewList, Lists
<1>2. NewList(made).tokens = << >> /\ NewList(made).size = Block
  BY DEF NewList
<1> HIDE DEF NewList
<1>3. Len(NewList(made).tokens) = 0
  BY <1>2
<1> QED BY <1>0, <1>1, <1>2, <1>3, BlockDivides DEF Sound, Ended

LEMMA AddTokenSound ==
  ASSUME NEW list, Sound(list), NEW bytes \in Seq(Byte), bytes # << >>, NEW meta \in Nat
  PROVE  /\ Sound(AddToken(list, bytes, meta))
         /\ Ended(list) /\ EndsIn(bytes) => Ended(AddToken(list, bytes, meta))
         /\ \A old, metas : Extends(old, list, metas) /\ Len(old.tokens) \in Nat /\ old.made \in Nat
                              /\ meta \in metas
              => Extends(old, AddToken(list, bytes, meta), metas)
<1> DEFINE new == AddToken(list, bytes, meta)
           t   == [n |-> list.made + 1, meta |-> meta, offset |-> Len(list.buf),
                   len |-> Len(bytes) - 1, pos |-> list.pos + 1]
<1>0. Block \in Nat \ {0}
  BY CharAssumption
<1>1. list \in Lists /\ list.tokens \in Seq(Tokens) /\ list.buf \in Seq(Byte) /\ list.size \in Nat
      /\ list.pos \in Nat /\ list.made \in Nat
  BY DEF Sound, Lists
<1>l. PICK n, m, k : n = Len(list.tokens) /\ m = Len(list.buf) /\ k = Len(bytes)
  OBVIOUS
<1>2. n \in Nat /\ m \in Nat /\ k \in Nat /\ k >= 1
  BY <1>1, <1>l
<1>3. t \in Tokens /\ After(t) = m + k
  BY <1>1, <1>2, <1>l DEF Tokens, After
<1>4. /\ new.buf = list.buf \o bytes /\ new.pos = list.pos + 1 /\ new.made = list.made + 1
      /\ new.size = Grown(n, list.size) /\ new.tokens = Append(list.tokens, t)
  BY <1>l DEF AddToken
<1>5. /\ Len(new.tokens) = n + 1 /\ new.tokens[n + 1] = t
      /\ \A i \in 1..n : new.tokens[i] = list.tokens[i] /\ new.tokens[i] \in Tokens
      /\ new.tokens \in Seq(Tokens)
  <2> HIDE DEF t
  <2> QED BY <1>1, <1>2, <1>3, <1>4, <1>l
<1>6. /\ new.buf \in Seq(Byte) /\ Len(new.buf) = m + k
      /\ \A i \in 1..m : new.buf[i] = list.buf[i]
      /\ \A i \in 1..k : new.buf[m + i] = bytes[i]
  BY <1>1, <1>2, <1>4, <1>l
<1>7. new.size \in Nat /\ new.size % Block = 0 /\ new.size >= Block /\ n + 1 <= new.size
  <2>1. n <= list.size /\ list.size % Block = 0 /\ list.size >= Block
    BY <1>l DEF Sound
  <2>2. CASE n >= Block /\ n % Block = 0
    <3>1. new.size = n + Block
      BY <1>4, <2>2 DEF Grown
    <3>2. (n + Block) % Block = 0
      BY <1>2, <2>2, BlockDivides
    <3> QED BY <1>0, <1>2, <2>2, <3>1, <3>2
  <2>3. CASE ~(n >= Block /\ n % Block = 0)
    <3>1. new.size = list.size
      BY <1>4, <2>3 DEF Grown
    <3>2. n # list.size
      BY <2>1, <2>3
    <3> QED BY <1>0, <1>1, <1>2, <2>1, <3>1, <3>2
  <2> QED BY <2>2, <2>3
<1>8. new \in Lists
  BY <1>1, <1>4, <1>5, <1>6, <1>7 DEF AddToken, Lists
<1>9. /\ n > 0 => After(list.tokens[n]) = m /\ list.tokens[n].pos <= list.pos
      /\ \A i \in 1..n : After(list.tokens[i]) <= m
      /\ \A i \in 1..(n - 1) :
           After(list.tokens[i]) = list.tokens[i + 1].offset /\ list.tokens[i].pos < list.tokens[i + 1].pos
  BY <1>1, <1>2, <1>l DEF Sound
<1>10. \A i \in 1..n : list.tokens[i] \in Tokens /\ list.tokens[i].offset \in Nat
                       /\ list.tokens[i].len \in Nat /\ list.tokens[i].pos \in Nat
  <2>1. \A i \in 1..n : list.tokens[i] \in Tokens
    BY <1>1, <1>2, <1>l
  <2> QED BY <2>1 DEF Tokens
<1>11. t.offset = m /\ t.len = k - 1 /\ t.pos = list.pos + 1 /\ t.n = list.made + 1 /\ t.meta = meta
  BY <1>l
<1> HIDE DEF new, t
<1>12. Sound(new)
  <2>1. ASSUME NEW i \in 1..n
        PROVE  After(new.tokens[i]) = new.tokens[i + 1].offset /\ new.tokens[i].pos < new.tokens[i + 1].pos
    <3>1. CASE i = n
      <4>1. n > 0 /\ n \in 1..n
        BY <1>2, <3>1
      <4>2. new.tokens[i] = list.tokens[n] /\ new.tokens[i + 1] = t
        BY <1>5, <3>1, <4>1
      <4>3. After(list.tokens[n]) = t.offset
        BY <1>9, <1>11, <4>1
      <4>4. list.tokens[n].pos \in Nat /\ list.tokens[n].pos <= list.pos /\ t.pos = list.pos + 1
        BY <1>9, <1>10, <1>11, <4>1
      <4>5. list.tokens[n].pos < t.pos
        BY <1>1, <4>4
      <4> QED BY <4>2, <4>3, <4>5
    <3>2. CASE i # n
      <4>1. i \in 1..(n - 1) /\ i + 1 \in 1..n
        BY <1>2, <3>2
      <4> QED BY <1>5, <1>9, <4>1
    <3> QED BY <3>1, <3>2
  <2>2. ASSUME NEW i \in 1..(n + 1) PROVE After(new.tokens[i]) <= Len(new.buf)
    <3>1. CASE i = n + 1
      BY <1>2, <1>3, <1>5, <1>6, <3>1
    <3>2. CASE i # n + 1
      <4>1. i \in 1..n
        BY <1>2, <3>2
      <4>2. new.tokens[i] = list.tokens[i] /\ After(list.tokens[i]) <= m
        BY <1>5, <1>9, <4>1
      <4>3. After(list.tokens[i]) \in Nat
        BY <1>10, <4>1 DEF After
      <4> QED BY <1>2, <1>6, <4>2, <4>3
    <3> QED BY <3>1, <3>2
  <2>3. (n + 1) - 1 = n
    BY <1>2
  <2>4. After(new.tokens[n + 1]) = Len(new.buf) /\ new.tokens[n + 1].pos <= new.pos
    BY <1>1, <1>3, <1>4, <1>5, <1>6, <1>11
  <2> QED BY <1>5, <1>7, <1>8, <2>1, <2>2, <2>3, <2>4 DEF Sound
<1>13. ASSUME Ended(list), EndsIn(bytes) PROVE Ended(new)
  <2>1. ASSUME NEW i \in 1..n PROVE EndedAt(new, new.tokens[i])
    <3>l. PICK o, l : o = list.tokens[i].offset /\ l = list.tokens[i].len
      OBVIOUS
    <3>1. o \in Nat /\ l \in Nat /\ o + l + 1 <= m
      BY <1>9, <1>10, <3>l DEF After
    <3>2. ASSUME NEW j \in 1..(l + 1) PROVE new.buf[o + j] = list.buf[o + j]
      <4>1. o + j \in 1..m
        BY <1>2, <3>1
      <4> QED BY <1>6, <4>1
    <3>3. EndedAt(list, list.tokens[i])
      BY <1>13, <1>l DEF Ended
    <3> QED BY <1>5, <3>2, <3>3, <3>l DEF EndedAt
  <2>2. EndedAt(new, new.tokens[n + 1])
    <3>1. k - 1 + 1 = k
      BY <1>2
    <3> QED BY <1>5, <1>6, <1>11, <1>13, <1>l, <3>1 DEF EndedAt, EndsIn
  <2>3. \A i \in 1..(n + 1) : i \in 1..n \/ i = n + 1
    BY <1>2
  <2> QED BY <1>5, <2>1, <2>2, <2>3 DEF Ended
<1>14. ASSUME NEW old, NEW metas, Extends(old, list, metas), Len(old.tokens) \in Nat, old.made \in Nat,
              meta \in metas
       PROVE  Extends(old, new, metas)
  <2>l. PICK p : p = Len(old.tokens)
    OBVIOUS
  <2>1. /\ p \in Nat /\ p <= n /\ \A i \in 1..p : list.tokens[i] = old.tokens[i]
        /\ \A i \in (p + 1)..n :
             list.tokens[i].n = old.made + (i - p) /\ list.tokens[i].meta \in metas
        /\ list.made = old.made + (n - p)
    BY <1>14, <1>l, <2>l DEF Extends
  <2>2. p <= n + 1 /\ (\A i \in 1..p : i \in 1..n) /\ \A i \in (p + 1)..(n + 1) : i = n + 1 \/ (i \in (p + 1)..n /\ i \in 1..n)
    BY <1>2, <2>1
  <2>3. new.made = old.made + ((n + 1) - p)
    BY <1>2, <1>4, <2>1, <1>14
  <2>4. new.tokens[n + 1].n = old.made + ((n + 1) - p) /\ new.tokens[n + 1].meta \in metas
    BY <1>2, <1>5, <1>11, <1>14, <2>1
  <2> QED BY <1>5, <2>1, <2>2, <2>3, <2>4, <2>l DEF Extends
<1> QED BY <1>12, <1>13, <1>14 DEF new

-----------------------------------------------------------------------------
(* Stripped words.                                                         *)

LEMMA ExtremesOfNonEmpty ==
  ASSUME NEW n \in Nat, NEW S \in SUBSET (1..n), S # {}
  PROVE  Least(S) \in S /\ Most(S) \in S
<1>1. Most(S) \in S
  <2>1. B!Max(S) \in S /\ \A i \in S : B!Max(S) >= i
    BY B!MaxOfNonEmpty
  <2>2. \E i \in S : \A j \in S : j <= i
    BY <2>1
  <2> QED BY <2>2 DEF Most
<1>2. Least(S) \in S
  <2> DEFINE T == {(n + 1) - i : i \in S}
  <2>1. T \in SUBSET (1..n) /\ T # {}
    <3>1. \A i \in S : (n + 1) - i \in 1..n
      OBVIOUS
    <3>2. T # {}
      OBVIOUS
    <3> QED BY <3>1, <3>2
  <2>2. B!Max(T) \in T /\ \A i \in T : B!Max(T) >= i
    <3> HIDE DEF T
    <3> QED BY <2>1, B!MaxOfNonEmpty
  <2>3. PICK i \in S : B!Max(T) = (n + 1) - i
    BY <2>2
  <2>4. ASSUME NEW j \in S PROVE i <= j
    <3>1. (n + 1) - j \in T
      OBVIOUS
    <3>2. (n + 1) - i >= (n + 1) - j
      <4> HIDE DEF T
      <4> QED BY <2>2, <2>3, <3>1
    <3> QED BY <3>2
  <2>5. \E m \in S : \A j \in S : m <= j
    BY <2>4
  <2> HIDE DEF T
  <2> QED BY <2>5 DEF Least
<1> QED BY <1>1, <1>2

LEMMA PartOfSeq ==
  ASSUME NEW S, NEW s \in Seq(S), NEW a \in 1..Len(s), NEW b \in 1..Len(s)
  PROVE  /\ SubSeq(s, a, b) \in Seq(S)
         /\ Len(SubSeq(s, a, b)) = IF a <= b THEN (b - a) + 1 ELSE 0
         /\ \A i \in 1..Len(SubSeq(s, a, b)) : SubSeq(s, a, b)[i] = s[a + i - 1]
OBVIOUS

LEMMA StrippedTypes ==
  ASSUME NEW s \in Seq(Char)
  PROVE  /\ Stripped(s) \in Seq(Char) /\ WithoutEnd(s) \in Seq(Char)
         /\ WithoutEnd(s) # << >> => s # << >> /\ WithoutEnd(s)[1] = s[1]
<1>1. CASE Kept(s) = {}
  BY <1>1 DEF Stripped, WithoutEnd
<1>2. CASE Kept(s) # {}
  <2>1. Kept(s) \in SUBSET (1..Len(s)) /\ Len(s) \in Nat
    BY DEF Kept
  <2>2. Least(Kept(s)) \in 1..Len(s) /\ Most(Kept(s)) \in 1..Len(s) /\ 1 \in 1..Len(s)
    <3>1. \A n \in Nat : \A S \in SUBSET (1..n) : S # {} => Least(S) \in S /\ Most(S) \in S
      BY ExtremesOfNonEmpty
    <3>2. Least(Kept(s)) \in Kept(s) /\ Most(Kept(s)) \in Kept(s)
      BY <1>2, <2>1, <3>1
    <3> QED BY <2>1, <3>2
  <2>3. Stripped(s) \in Seq(Char)
    BY <1>2, <2>2, PartOfSeq DEF Stripped
  <2> DEFINE w == SubSeq(s, 1, Most(Kept(s)))
  <2>4. w \in Seq(Char) /\ Len(w) = Most(Kept(s)) - 1 + 1 /\ \A i \in 1..Len(w) : w[i] = s[1 + i - 1]
    <3>1. 1 <= Most(Kept(s))
      BY <2>2
    <3> QED BY <2>2, <3>1, PartOfSeq
  <2>5. w[1] = s[1]
    <3>1. 1 \in 1..Len(w)
      BY <2>2, <2>4
    <3> HIDE DEF w
    <3> QED BY <2>4, <3>1
  <2>6. s # << >>
    BY <2>2
  <2> QED BY <1>2, <2>3, <2>4, <2>5, <2>6 DEF WithoutEnd
<1> QED BY <1>1, <1>2

\* strip_utf8_chrs never moves back, and not at all if the first byte is no mark.
MovedSoFar(bytes, n, s) ==
  /\ s.bytes = bytes /\ s.at \in Nat /\ s.seen \in Nat
  /\ s = [bytes |-> s.bytes, at |-> s.at, seen |-> s.seen]
  /\ (bytes # << >> /\ bytes[1] \notin Marks) => s.at = 0

\* One step of Fold(Move, ...).
Moved(acc, x) == CHOOSE r \in {Move(a, e) : a \in {acc}, e \in {x}} : TRUE

M == INSTANCE FoldProofs WITH Op <- Moved, Inv <- MovedSoFar

LEMMA WalkFolded ==
  ASSUME NEW base, NEW seq PROVE Fold(Move, base, seq) = M!Folded(base, seq)
BY DEF Fold, Moved, M!Folded, FoldLeft, MapThenFoldSet, M!FoldLeft, M!MapThenFoldSet, Max, M!Max

LEMMA SkippedType ==
  ASSUME NEW S, NEW bytes \in Seq(S)
  PROVE  /\ Skipped(bytes) \in 0..Len(bytes)
         /\ bytes # << >> /\ bytes[1] \notin Marks => Skipped(bytes) = 0
<1> DEFINE base == [bytes |-> bytes, at |-> 0, seen |-> 0]
           end == Walk(bytes)
<1>1. end = M!Folded(base, bytes)
  BY WalkFolded DEF Walk
<1>2. MovedSoFar(bytes, 0, base)
  BY DEF MovedSoFar
<1>3. ASSUME NEW i \in 1..Len(bytes), NEW s, MovedSoFar(bytes, i - 1, s)
      PROVE  MovedSoFar(bytes, i, Moved(s, bytes[i]))
  <2>1. s.bytes = bytes /\ s.at \in Nat /\ s.seen \in Nat
        /\ s = [bytes |-> s.bytes, at |-> s.at, seen |-> s.seen]
    BY <1>3 DEF MovedSoFar
  <2>0. Moved(s, bytes[i]) = Move(s, bytes[i])
    BY DEF Moved
  <2>2. CASE s.at >= Len(bytes) \/ bytes[s.at + 1] \notin Marks
    <3>1. Move(s, bytes[i]) = s
      BY <2>1, <2>2 DEF Move
    <3> QED BY <1>3, <2>0, <2>1, <3>1 DEF MovedSoFar
  <2>3. CASE ~(s.at >= Len(bytes) \/ bytes[s.at + 1] \notin Marks)
    <3> DEFINE ahead == Next1(bytes, s.at + s.seen) - s.at
    <3>1. ahead \in Nat
      <4>1. Next1(bytes, s.at + s.seen) = s.at + s.seen + 1 \/ Next1(bytes, s.at + s.seen) = s.at + s.seen + 2
        BY DEF Next1
      <4> QED BY <2>1, <4>1
    <3>2. Move(s, bytes[i]) = [bytes |-> bytes, at |-> s.at + ahead, seen |-> ahead]
      BY <2>1, <2>3 DEF Move
    <3>3. bytes # << >> /\ bytes[1] \notin Marks => s.at = 0
      BY <1>3 DEF MovedSoFar
    <3>4. ~(bytes # << >> /\ bytes[1] \notin Marks)
      BY <2>1, <2>3, <3>3
    <3> HIDE DEF ahead
    <3> QED BY <2>0, <2>1, <3>1, <3>2, <3>4 DEF MovedSoFar
  <2> QED BY <2>2, <2>3
<1>4. MovedSoFar(bytes, Len(bytes), end)
  <2>1. DOMAIN bytes = 1..Len(bytes) /\ Len(bytes) \in Nat
    OBVIOUS
  <2> HIDE DEF MovedSoFar, base, end
  <2> QED BY <1>1, <1>2, <1>3, <2>1, M!FoldInduction
<1>5. Skipped(bytes) = IF end.at < Len(bytes) THEN end.at ELSE Len(bytes)
  BY DEF Skipped
<1> HIDE DEF end
<1> QED BY <1>4, <1>5 DEF MovedSoFar

-----------------------------------------------------------------------------
(* The list after some characters of a text.  p says what it was before,   *)
(* under which metaname the text is, and whether the ends of the tokens    *)
(* are to be right.                                                        *)

Before(p) ==
  /\ Sound(p.list) /\ p.meta \in Nat /\ p.ended \in BOOLEAN /\ (p.ended => Ended(p.list))
Fine(p, list) == Sound(list) /\ Extends(p.list, list, {p.meta}) /\ (p.ended => Ended(list))

LEMMA LengthsOf ==
  ASSUME NEW list, Sound(list)
  PROVE  Len(list.tokens) \in Nat /\ list.made \in Nat /\ Len(list.buf) \in Nat
BY DEF Sound, Lists

LEMMA FineAtFirst ==
  ASSUME NEW p, Before(p) PROVE Fine(p, p.list)
<1>1. Len(p.list.tokens) \in Nat /\ p.list.made \in Nat
  BY LengthsOf DEF Before
<1>2. Extends(p.list, p.list, {p.meta})
  BY <1>1 DEF Extends
<1> QED BY <1>2 DEF Before, Fine

LEMMA FineAdd ==
  ASSUME NEW p, Before(p), NEW list, Fine(p, list),
         NEW bytes \in Seq(Byte), bytes # << >>, p.ended => EndsIn(bytes)
  PROVE  Fine(p, AddToken(list, bytes, p.meta))
<1>1. Sound(list) /\ Extends(p.list, list, {p.meta}) /\ (p.ended => Ended(list)) /\ p.meta \in Nat
  BY DEF Before, Fine
<1>2. Len(p.list.tokens) \in Nat /\ p.list.made \in Nat
  BY LengthsOf DEF Before
<1>3. p.meta \in {p.meta}
  OBVIOUS
<1> QED BY <1>1, <1>2, <1>3, AddTokenSound DEF Fine

LEMMA FineEnd ==
  ASSUME NEW p, Before(p), NEW list, Fine(p, list), NEW word \in Seq(Char), NEW ascii \in BOOLEAN,
         p.ended /\ ~ascii /\ word # << >> => word[1] \notin Marks
  PROVE  Fine(p, EndWord(list, word, p.meta, ascii))
<1> DEFINE w     == IF ascii THEN Stripped(word) ELSE WithoutEnd(word)
           body  == Bytes(w)
           bytes == Append(body, NUL)
           skip  == IF ascii THEN 0 ELSE Skipped(SubSeq(bytes, 1, Len(bytes) - 1))
           len   == Len(bytes) - skip
<1>1. w \in Seq(Char)
  BY StrippedTypes
<1>2. BytesSoFar(w, Len(w), body)
  <2> HIDE DEF w
  <2> QED BY <1>1, BytesType
<1>3. body \in Seq(Char \cup {Cont}) /\ Len(body) \in Nat /\ Len(body) >= Len(w) /\ Len(w) \in Nat
      /\ (w # << >> => body[1] = w[1])
  <2>1. Len(w) = 0 <=> w = << >>
    <3> HIDE DEF w
    <3> QED BY <1>1
  <2> HIDE DEF w, body
  <2> QED BY <1>1, <1>2, <2>1 DEF BytesSoFar
<1>3a. w = << >> => body = << >>
  <2>1. w = << >> => Len(w) = 0
    OBVIOUS
  <2> HIDE DEF w, body
  <2> QED BY <1>2, <2>1 DEF BytesSoFar
<1>l. PICK k : k = Len(body)
  OBVIOUS
<1>4. bytes \in Seq(Byte) /\ Len(bytes) = k + 1 /\ bytes[k + 1] = NUL /\ k \in Nat
      /\ \A i \in 1..k : bytes[i] = body[i] /\ body[i] # NUL
  <2>1. NUL \notin Char \cup {Cont}
    BY CharAssumption DEF NUL, Cont
  <2>2. body \in Seq(Byte) /\ NUL \in Byte /\ \A i \in 1..k : body[i] \in Char \cup {Cont}
    <3> HIDE DEF body
    <3> QED BY <1>3, <1>l DEF Byte
  <2> HIDE DEF body
  <2> QED BY <1>3, <1>l, <2>1, <2>2
<1>5. SubSeq(bytes, 1, Len(bytes) - 1) = body
  <2>1. (k + 1) - 1 = k
    BY <1>4
  <2> HIDE DEF body
  <2>2. SubSeq(Append(body, NUL), 1, Len(body)) = body
    BY <1>3
  <2> QED BY <1>4, <1>l, <2>1, <2>2
<1>6. skip \in 0..k
  <2>1. Skipped(body) \in 0..Len(body)
    <3> HIDE DEF body
    <3> QED BY <1>3, SkippedType
  <2>2. skip = 0 \/ skip = Skipped(body)
    <3> HIDE DEF body
    <3> QED BY <1>5
  <2>3. k \in Nat
    BY <1>4
  <2> HIDE DEF skip, body
  <2> QED BY <1>l, <2>1, <2>2, <2>3
<1>7. ASSUME p.ended PROVE skip = 0
  <2>1. CASE ascii
    BY <2>1
  <2>2. CASE ~ascii /\ body = << >>
    <3>1. Len(body) = 0
      BY <2>2
    <3> HIDE DEF skip
    <3> QED BY <1>6, <1>l, <3>1
  <2>3. CASE ~ascii /\ body # << >>
    <3>1. w # << >>
      BY <1>3a, <2>3
    <3>2. w[1] = word[1] /\ word # << >>
      BY <2>3, <3>1, StrippedTypes
    <3>3. body[1] \notin Marks
      BY <1>3, <1>7, <2>3, <3>1, <3>2
    <3>4. Skipped(body) = 0
      <4> HIDE DEF body
      <4> QED BY <1>3, <2>3, <3>3, SkippedType
    <3> QED BY <1>5, <3>4
  <2> QED BY <2>1, <2>2, <2>3
<1> HIDE DEF skip
<1>8. len \in 1..(k + 1) /\ (p.ended => len = k + 1)
  BY <1>4, <1>6, <1>7
<1>9. EndWord(list, word, p.meta, ascii) =
        IF bytes = <<NUL>> \/ len < MinWordLen THEN list
        ELSE AddToken(list, SubSeq(bytes, 1, len), p.meta)
  BY DEF EndWord, skip
<1> DEFINE cut == SubSeq(bytes, 1, len)
<1>10. cut \in Seq(Byte) /\ Len(cut) = len /\ \A i \in 1..len : cut[i] = bytes[i]
  <2> HIDE DEF bytes, len
  <2> QED BY <1>4, <1>8
<1>11. cut # << >>
  <2> HIDE DEF cut, len
  <2> QED BY <1>8, <1>10
<1>12. p.ended => EndsIn(cut)
  <2> HIDE DEF cut, bytes, len
  <2> QED BY <1>4, <1>8, <1>10 DEF EndsIn
<1> HIDE DEF cut
<1>13. Fine(p, AddToken(list, cut, p.meta))
  BY <1>10, <1>11, <1>12, FineAdd
<1> QED BY <1>9, <1>13 DEF cut

LEMMA FineBump ==
  ASSUME NEW p, Before(p), NEW list, Fine(p, list)
  PROVE  Fine(p, [list EXCEPT !.pos = @ + 1])
<1> DEFINE new == [list EXCEPT !.pos = @ + 1]
<1>1. list \in Lists /\ Sound(list)
  BY DEF Fine, Sound
<1>2. new \in Lists /\ new.tokens = list.tokens /\ new.buf = list.buf /\ new.size = list.size
      /\ new.made = list.made /\ new.pos = list.pos + 1 /\ list.pos \in Nat
  BY <1>1 DEF Lists
<1>3. list.tokens # << >> => list.tokens[Len(list.tokens)].pos \in Nat
  <2>1. list.tokens \in Seq(Tokens)
    BY <1>1 DEF Lists
  <2>2. list.tokens # << >> => list.tokens[Len(list.tokens)] \in Tokens
    BY <2>1
  <2> QED BY <2>2 DEF Tokens
<1> HIDE DEF new
<1>4. list.tokens # << >> => new.tokens[Len(new.tokens)].pos <= new.pos
  <2>1. list.tokens # << >> => list.tokens[Len(list.tokens)].pos <= list.pos
    BY <1>1 DEF Sound
  <2> QED BY <1>2, <1>3, <2>1
<1>5. Sound(new)
  BY <1>1, <1>2, <1>4 DEF Sound
<1>6. Extends(p.list, new, {p.meta})
  BY <1>2 DEF Fine, Extends
<1>7. p.ended => Ended(new)
  BY <1>2 DEF Fine, Ended, EndedAt
<1> QED BY <1>5, <1>6, <1>7 DEF Fine, new

-----------------------------------------------------------------------------
(* A text that is Gentle: where its words begin and end.                   *)

LEMMA LowIsLike ==
  ASSUME NEW c \in Char
  PROVE  Low(c) \in Char /\ (InWord(Low(c)) <=> InWord(c)) /\ (Low(c) \in Marks <=> c \in Marks)
BY CharAssumption DEF Low, InWord

RunFrom(text, s, n) ==
  (\A i \in s..n : InWord(text[i])) /\ (s > 1 => ~InWord(text[s - 1]))

LEMMA RunGoesOn ==
  ASSUME NEW text \in Seq(Char), NEW s \in 1..Len(text), NEW n \in s..Len(text), RunFrom(text, s, n)
  PROVE  \E e \in n..Len(text) : <<s, e>> \in WordRuns(text)
<1> DEFINE E == {e \in 1..Len(text) : e >= n /\ \A i \in s..e : InWord(text[i])}
<1>1. E \in SUBSET (1..Len(text)) /\ Len(text) \in Nat /\ n \in E
  BY DEF RunFrom
<1> DEFINE e == B!Max(E)
<1>2. e \in E /\ \A i \in E : e >= i
  <2> HIDE DEF E
  <2> QED BY <1>1, B!MaxOfNonEmpty
<1> HIDE DEF e
<1>3. e \in 1..Len(text) /\ e >= n /\ \A i \in s..e : InWord(text[i])
  BY <1>2
<1>4. e < Len(text) => ~InWord(text[e + 1])
  <2> SUFFICES ASSUME e < Len(text), InWord(text[e + 1]) PROVE FALSE
    OBVIOUS
  <2>1. e + 1 \in 1..Len(text) /\ e + 1 >= n /\ ~(e >= e + 1)
    BY <1>3
  <2>2. \A i \in s..(e + 1) : i = e + 1 \/ i \in s..e
    BY <1>3
  <2>3. e + 1 \in E
    BY <1>3, <2>1, <2>2
  <2> QED BY <1>2, <2>1, <2>3
<1>5. s \in DOMAIN text /\ e \in DOMAIN text /\ s <= e /\ e \in n..Len(text)
  BY <1>3
<1>6. s > 1 => ~InWord(text[s - 1])
  BY DEF RunFrom
<1> HIDE DEF E
<1>7. <<s, e>> \in WordRuns(text)
  <2> DEFINE r == <<s, e>>
  <2>1. r \in (DOMAIN text) \X (DOMAIN text) /\ r[1] = s /\ r[2] = e
    BY <1>5
  <2> HIDE DEF r
  <2>2. r \in WordRuns(text)
    BY <1>3, <1>4, <1>5, <1>6, <2>1 DEF WordRuns
  <2> QED BY <2>2 DEF r
<1> QED BY <1>5, <1>7

LEMMA LoweredType ==
  ASSUME NEW text \in Seq(Char), NEW s \in 1..Len(text), NEW e \in s..Len(text)
  PROVE  /\ Lowered(text, <<s, e>>) \in Seq(Char) /\ Len(Lowered(text, <<s, e>>)) = (e - s) + 1
         /\ \A i \in 1..((e - s) + 1) : Lowered(text, <<s, e>>)[i] = Low(text[s + i - 1])
<1>1. \A i \in 1..((e - s) + 1) : Low(text[s + i - 1]) \in Char
  <2> TAKE i \in 1..((e - s) + 1)
  <2>1. s + i - 1 \in 1..Len(text)
    OBVIOUS
  <2>2. text[s + i - 1] \in Char
    BY <2>1
  <2> QED BY <2>2, LowIsLike
<1>2. Lowered(text, <<s, e>>) = [i \in 1..((e - s) + 1) |-> Low(text[s + i - 1])]
  BY DEF Lowered
<1>3. (e - s) + 1 \in Nat
  OBVIOUS
<1>4. \A k \in Nat : \A f : (\A i \in 1..k : f[i] \in Char) =>
        /\ [i \in 1..k |-> f[i]] \in Seq(Char) /\ Len([i \in 1..k |-> f[i]]) = k
  OBVIOUS
<1> DEFINE k == (e - s) + 1
           f == [i \in 1..k |-> Low(text[s + i - 1])]
<1>5. f = [i \in 1..k |-> f[i]] /\ \A i \in 1..k : f[i] = Low(text[s + i - 1])
  OBVIOUS
<1> HIDE DEF f
<1>6. f \in Seq(Char) /\ Len(f) = k
  <2> HIDE DEF k
  <2> QED BY <1>1, <1>3, <1>4, <1>5 DEF k
<1> QED BY <1>2, <1>5, <1>6 DEF f

\* A word of a Gentle text that is not ASCII begins with no mark, fits, and is at
\* its end when it is full.
LEMMA GentleRun ==
  ASSUME NEW text \in Seq(Char), Gentle(text), ~IsAscii(text),
         NEW s \in 1..Len(text), NEW n \in s..Len(text), RunFrom(text, s, n)
  PROVE  /\ Lowered(text, <<s, n>>)[1] \notin Marks
         /\ Width(Lowered(text, <<s, n>>)) <= MaxWordLen
         /\ Width(Lowered(text, <<s, n>>)) = MaxWordLen /\ n < Len(text) => ~InWord(text[n + 1])
<1>1. PICK e \in n..Len(text) : <<s, e>> \in WordRuns(text)
  BY RunGoesOn
<1>2. text[s] \notin Marks /\ Width(Lowered(text, <<s, e>>)) <= MaxWordLen
  BY <1>1 DEF Gentle
<1> DEFINE v == Lowered(text, <<s, e>>)
           w == Lowered(text, <<s, n>>)
<1>3. /\ w \in Seq(Char) /\ Len(w) = (n - s) + 1
      /\ \A i \in 1..((n - s) + 1) : w[i] = Low(text[s + i - 1])
  BY LoweredType
<1>4. /\ v \in Seq(Char) /\ Len(v) = (e - s) + 1
      /\ \A i \in 1..((e - s) + 1) : v[i] = Low(text[s + i - 1])
  <2>1. e \in s..Len(text)
    OBVIOUS
  <2> QED BY <2>1, LoweredType
<1>5. Width(v) <= MaxWordLen
  BY <1>2
<1> HIDE DEF v, w
<1>6. Width(w) \in Nat /\ Width(v) \in Nat /\ Width(w) + (Len(v) - ((n - s) + 1)) <= Width(v)
  <2>1. (n - s) + 1 \in 0..Len(v)
    BY <1>4
  <2>2. \A i \in 1..((n - s) + 1) : w[i] = v[i]
    <3>1. \A i \in 1..((n - s) + 1) : i \in 1..((e - s) + 1)
      OBVIOUS
    <3> QED BY <1>3, <1>4, <3>1
  <2> QED BY <1>3, <1>4, <2>1, <2>2, WidthOfPrefix
<1>7. MaxWordLen \in Nat
  BY CharAssumption
<1>8. Width(w) + (e - n) <= MaxWordLen
  BY <1>4, <1>5, <1>6, <1>7
<1>9. Width(w) <= MaxWordLen /\ (Width(w) = MaxWordLen => e = n)
  BY <1>6, <1>7, <1>8
<1>10. w[1] \notin Marks
  <2>1. 1 \in 1..((n - s) + 1) /\ s + 1 - 1 = s /\ text[s] \in Char
    OBVIOUS
  <2> QED BY <1>2, <1>3, <2>1, LowIsLike
<1>11. e < Len(text) => ~InWord(text[e + 1])
  BY <1>1 DEF WordRuns
<1> QED BY <1>9, <1>10, <1>11 DEF w

-----------------------------------------------------------------------------
(* The tokenizers, character by character.                                 *)

\* Where the word that is being read begins; between words, that no word has
\* been cut.
Place(text, n, st) ==
  IF st.inside
  THEN \E s \in 1..n : RunFrom(text, s, n) /\ st.word = Lowered(text, <<s, n>>)
  ELSE n = 0 \/ n = Len(text) \/ ~InWord(text[n]) \/ ~InWord(text[n + 1])

Placed(p) == p.ended /\ ~IsAscii(p.text)

TextSoFar(p, n, st) ==
  /\ st = [list |-> st.list, word |-> st.word, inside |-> st.inside]
  /\ st.word \in Seq(Char) /\ st.inside \in BOOLEAN
  /\ Fine(p, st.list)
  /\ Placed(p) => Place(p.text, n, st)

\* One step of Fold(Step, ...).
Stepped(acc, x) == CHOOSE r \in {Step(a, e) : a \in {acc}, e \in {x}} : TRUE

T == INSTANCE FoldProofs WITH Op <- Stepped, Inv <- TextSoFar

LEMMA SteppedIsStep == \A st, x : Stepped(st, x) = Step(st, x)
BY DEF Stepped

LEMMA TokenizeFolded ==
  ASSUME NEW base, NEW seq PROVE Fold(Step, base, seq) = T!Folded(base, seq)
BY DEF Fold, Stepped, T!Folded, FoldLeft, MapThenFoldSet, T!FoldLeft, T!MapThenFoldSet, Max, T!Max

\* p also has the text now.
OfText(p) == Before(p) /\ p.text \in Seq(Char) /\ (p.ended => Gentle(p.text))

\* The word that is being read begins with no mark, where that matters.
LEMMA WordBegins ==
  ASSUME NEW p, OfText(p), NEW n \in 0..Len(p.text), NEW st, TextSoFar(p, n, st), st.inside, Placed(p)
  PROVE  \E s \in 1..n : /\ RunFrom(p.text, s, n) /\ st.word = Lowered(p.text, <<s, n>>)
                         /\ st.word[1] \notin Marks /\ Len(st.word) = (n - s) + 1
<1>1. PICK s \in 1..n : RunFrom(p.text, s, n) /\ st.word = Lowered(p.text, <<s, n>>)
  BY DEF TextSoFar, Place
<1>2. s \in 1..Len(p.text) /\ n \in s..Len(p.text) /\ p.text \in Seq(Char)
  BY DEF OfText
<1>3. Gentle(p.text) /\ ~IsAscii(p.text)
  BY DEF OfText, Placed
<1>4. Lowered(p.text, <<s, n>>)[1] \notin Marks
  BY <1>1, <1>2, <1>3, GentleRun
<1>5. Len(Lowered(p.text, <<s, n>>)) = (n - s) + 1
  BY <1>2, LoweredType
<1> QED BY <1>1, <1>4, <1>5

LEMMA BreakStep ==
  ASSUME NEW p, OfText(p), NEW n \in 1..Len(p.text), NEW st, TextSoFar(p, n - 1, st),
         NEW c, ~InWord(p.text[n])
  PROVE  TextSoFar(p, n, AtBreak(st, c, p.meta, IsAscii(p.text)))
<1> DEFINE ascii == IsAscii(p.text)
           list  == IF st.inside THEN EndWord(st.list, st.word, p.meta, ascii) ELSE st.list
           bumped == IF c = BUMP THEN [list EXCEPT !.pos = @ + 1] ELSE list
           new   == AtBreak(st, c, p.meta, ascii)
<1>0. n - 1 \in 0..Len(p.text) /\ Before(p) /\ ascii \in BOOLEAN
  BY DEF OfText, IsAscii
<1>1. Fine(p, st.list) /\ st.word \in Seq(Char) /\ st.inside \in BOOLEAN
  BY DEF TextSoFar
<1>2. Fine(p, list)
  <2>1. CASE st.inside
    <3>1. p.ended /\ ~ascii /\ st.word # << >> => st.word[1] \notin Marks
      BY <1>0, <2>1, WordBegins DEF Placed
    <3> HIDE DEF ascii
    <3>2. Fine(p, EndWord(st.list, st.word, p.meta, ascii))
      BY <1>0, <1>1, <3>1, FineEnd
    <3> QED BY <2>1, <3>2
  <2>2. CASE ~st.inside
    BY <1>1, <2>2
  <2> QED BY <2>1, <2>2
<1>3. Fine(p, bumped)
  <2> HIDE DEF list
  <2> QED BY <1>0, <1>2, FineBump
<1>4. new = [list |-> bumped, word |-> << >>, inside |-> FALSE]
  BY DEF AtBreak
<1> HIDE DEF new, bumped, ascii
<1>5. Place(p.text, n, new)
  BY <1>4 DEF Place
<1>6. << >> \in Seq(Char)
  OBVIOUS
<1>7. TextSoFar(p, n, new)
  BY <1>3, <1>4, <1>5, <1>6 DEF TextSoFar
<1> QED BY <1>7 DEF new, ascii

LEMMA TerminatedBytes ==
  ASSUME NEW body \in Seq(Char \cup {Cont})
  PROVE  Append(body, NUL) \in Seq(Byte) /\ Append(body, NUL) # << >> /\ EndsIn(Append(body, NUL))
<1> DEFINE bytes == Append(body, NUL)
<1>1. NUL \notin Char \cup {Cont}
  BY CharAssumption DEF NUL, Cont
<1>l. PICK k : k = Len(body)
  OBVIOUS
<1>2. k \in Nat /\ body \in Seq(Byte) /\ NUL \in Byte /\ \A i \in 1..k : body[i] # NUL
  BY <1>1, <1>l DEF Byte
<1>3. bytes \in Seq(Byte) /\ Len(bytes) = k + 1 /\ bytes[k + 1] = NUL
      /\ \A i \in 1..k : bytes[i] = body[i]
  BY <1>2, <1>l
<1> HIDE DEF bytes
<1>4. EndsIn(bytes)
  BY <1>2, <1>3 DEF EndsIn
<1>5. bytes # << >>
  BY <1>2, <1>3
<1> QED BY <1>3, <1>4, <1>5 DEF bytes

LEMMA StartStep ==
  ASSUME NEW p, OfText(p), NEW n \in 1..Len(p.text), NEW st, TextSoFar(p, n - 1, st),
         InWord(p.text[n]), ~st.inside
  PROVE  TextSoFar(p, n, AtStart(st, Low(p.text[n]), n = Len(p.text), p.meta))
<1> DEFINE c    == Low(p.text[n])
           last == n = Len(p.text)
           new  == AtStart(st, c, last, p.meta)
<1>0. n \in DOMAIN p.text /\ p.text[n] \in Char /\ n \in Nat /\ Before(p) /\ p.text \in Seq(Char)
  BY DEF OfText
<1>1. Fine(p, st.list) /\ c \in Char
  BY <1>0, LowIsLike DEF TextSoFar
<1>2. CASE last /\ MinWordLen = 1
  <2> DEFINE body  == Bytes(<<c>>)
             bytes == Append(body, NUL)
  <2>0. <<c>> \in Seq(Char) /\ NUL \notin Char \cup {Cont}
    BY <1>1, CharAssumption DEF NUL, Cont
  <2>1. body \in Seq(Char \cup {Cont})
    <3> HIDE DEF c
    <3> QED BY <2>0, BytesType DEF BytesSoFar
  <2> HIDE DEF body
  <2>2. bytes \in Seq(Byte) /\ bytes # << >> /\ EndsIn(bytes)
    BY <2>1, TerminatedBytes
  <2> HIDE DEF bytes
  <2>3. Fine(p, AddToken(st.list, bytes, p.meta))
    BY <1>0, <1>1, <2>2, FineAdd
  <2>4. new = [list |-> AddToken(st.list, bytes, p.meta), word |-> << >>, inside |-> FALSE]
    BY <1>2 DEF AtStart, bytes, body
  <2>5. Place(p.text, n, new)
    <3> HIDE DEF new
    <3> QED BY <1>2, <2>4 DEF Place
  <2>6. << >> \in Seq(Char)
    OBVIOUS
  <2> HIDE DEF new
  <2>7. TextSoFar(p, n, new)
    BY <2>3, <2>4, <2>5, <2>6 DEF TextSoFar
  <2> QED BY <2>7 DEF new
<1>3. CASE ~(last /\ MinWordLen = 1)
  <2>1. st = [list |-> st.list, word |-> st.word, inside |-> st.inside]
    BY DEF TextSoFar
  <2>2. new = [st EXCEPT !.word = <<c>>, !.inside = TRUE]
    BY <1>3 DEF AtStart
  <2>3. new = [list |-> st.list, word |-> <<c>>, inside |-> TRUE]
    <3> HIDE DEF new, c
    <3> QED BY <2>1, <2>2
  <2>4. Placed(p) => Place(p.text, n, new)
    <3> SUFFICES ASSUME Placed(p) PROVE Place(p.text, n, new)
      OBVIOUS
    <3>1. n - 1 = 0 \/ n - 1 = Len(p.text) \/ ~InWord(p.text[n - 1]) \/ ~InWord(p.text[(n - 1) + 1])
      BY DEF TextSoFar, Place
    <3>2. (n - 1) + 1 = n /\ n - 1 # Len(p.text)
      BY <1>0
    <3>3. RunFrom(p.text, n, n)
      BY <1>0, <3>1, <3>2 DEF RunFrom
    <3>4. n \in 1..n /\ n \in n..Len(p.text) /\ (n - n) + 1 = 1
      BY <1>0
    <3>5. Lowered(p.text, <<n, n>>) = <<c>>
      <4> DEFINE w == Lowered(p.text, <<n, n>>)
      <4>1. w \in Seq(Char) /\ Len(w) = (n - n) + 1
            /\ \A i \in 1..((n - n) + 1) : w[i] = Low(p.text[n + i - 1])
        BY <1>0, <3>4, LoweredType
      <4>2. n + 1 - 1 = n /\ 1 \in 1..1
        BY <1>0
      <4> HIDE DEF w
      <4>3. Len(w) = 1 /\ w[1] = c
        BY <3>4, <4>1, <4>2
      <4> HIDE DEF c
      <4>4. w = <<c>>
        BY <4>1, <4>3
      <4> QED BY <4>4 DEF w
    <3> HIDE DEF new, c
    <3>6. new.inside /\ new.word = Lowered(p.text, <<n, n>>)
      BY <2>3, <3>5
    <3> QED BY <3>3, <3>4, <3>6 DEF Place
  <2>5. <<c>> \in Seq(Char)
    BY <1>1
  <2> HIDE DEF new, c
  <2>6. TextSoFar(p, n, new)
    BY <1>1, <2>3, <2>4, <2>5 DEF TextSoFar
  <2> QED BY <2>6 DEF new, c
<1> QED BY <1>2, <1>3

LEMMA InsideStep ==
  ASSUME NEW p, OfText(p), NEW n \in 1..Len(p.text), NEW st, TextSoFar(p, n - 1, st),
         InWord(p.text[n]), st.inside
  PROVE  TextSoFar(p, n, Inside(st, Low(p.text[n]), n = Len(p.text), p.meta, IsAscii(p.text)))
<1> DEFINE c     == Low(p.text[n])
           last  == n = Len(p.text)
           ascii == IsAscii(p.text)
           word  == Append(st.word, c)
           new   == Inside(st, c, last, p.meta, ascii)
<1>0. p.text[n] \in Char /\ n \in Nat /\ n - 1 \in 0..Len(p.text) /\ Before(p) /\ p.text \in Seq(Char)
      /\ ascii \in BOOLEAN
  BY DEF OfText, IsAscii
<1>1. /\ Fine(p, st.list) /\ c \in Char /\ st.word \in Seq(Char)
      /\ st = [list |-> st.list, word |-> st.word, inside |-> st.inside]
  BY <1>0, LowIsLike DEF TextSoFar
<1>2. word \in Seq(Char)
  <2> HIDE DEF c
  <2> QED BY <1>1
\* Where the word begins.
<1>3. ASSUME Placed(p)
      PROVE  \E s \in 1..n : /\ RunFrom(p.text, s, n) /\ word = Lowered(p.text, <<s, n>>)
                             /\ word[1] \notin Marks
  <2>1. PICK s \in 1..(n - 1) :
          /\ RunFrom(p.text, s, n - 1) /\ st.word = Lowered(p.text, <<s, n - 1>>)
          /\ st.word[1] \notin Marks /\ Len(st.word) = (n - 1 - s) + 1
    BY <1>0, <1>3, WordBegins
  <2>2. s \in 1..Len(p.text) /\ n \in s..Len(p.text) /\ n - 1 \in s..Len(p.text) /\ s \in 1..n
    BY <1>0
  <2>3. RunFrom(p.text, s, n)
    <3>1. \A i \in s..n : i = n \/ i \in s..(n - 1)
      BY <1>0
    <3> QED BY <2>1, <3>1 DEF RunFrom
  <2> DEFINE v == Lowered(p.text, <<s, n>>)
             u == Lowered(p.text, <<s, n - 1>>)
  <2>4. v \in Seq(Char) /\ Len(v) = (n - s) + 1 /\ \A i \in 1..((n - s) + 1) : v[i] = Low(p.text[s + i - 1])
    BY <1>0, <2>2, LoweredType
  <2>5. u \in Seq(Char) /\ Len(u) = (n - 1 - s) + 1
        /\ \A i \in 1..((n - 1 - s) + 1) : u[i] = Low(p.text[s + i - 1])
    BY <1>0, <2>2, LoweredType
  <2>6. u = st.word
    BY <2>1
  <2> HIDE DEF u, v
  <2>7. Len(word) = (n - s) + 1 /\ (n - s) + 1 \in Nat
        /\ (\A i \in 1..(n - s) : word[i] = u[i]) /\ word[(n - s) + 1] = c
    <3>1. (n - 1 - s) + 1 = n - s /\ n - s \in Nat
      BY <1>0, <2>2
    <3> HIDE DEF c
    <3> QED BY <1>1, <2>5, <2>6, <3>1
  <2>8. ASSUME NEW i \in 1..((n - s) + 1) PROVE word[i] = v[i]
    <3>1. CASE i = (n - s) + 1
      <4>1. s + i - 1 = n
        BY <1>0, <2>2, <3>1
      <4> QED BY <2>4, <2>7, <3>1, <4>1
    <3>2. CASE i # (n - s) + 1
      <4>1. i \in 1..(n - s) /\ i \in 1..((n - 1 - s) + 1)
        BY <1>0, <2>2, <3>2
      <4> QED BY <2>4, <2>5, <2>7, <4>1
    <3> QED BY <3>1, <3>2
  <2>9. word = v
    <3>1. \A a, b \in Seq(Char) : Len(a) = Len(b) /\ (\A i \in 1..Len(a) : a[i] = b[i]) => a = b
      OBVIOUS
    <3> HIDE DEF word
    <3>2. Len(word) = Len(v) /\ \A i \in 1..Len(word) : word[i] = v[i]
      BY <2>4, <2>7, <2>8
    <3> QED BY <1>2, <2>4, <3>1, <3>2
  <2>10. word[1] = st.word[1]
    <3>1. 1 \in 1..Len(st.word)
      BY <1>0, <2>1
    <3> HIDE DEF c
    <3> QED BY <1>1, <3>1
  <2> QED BY <2>1, <2>2, <2>3, <2>9, <2>10 DEF v
<1>4. ASSUME Placed(p)
      PROVE  Width(word) <= MaxWordLen /\ (Width(word) = MaxWordLen /\ n < Len(p.text) => ~InWord(p.text[n + 1]))
  <2>1. PICK s \in 1..n : RunFrom(p.text, s, n) /\ word = Lowered(p.text, <<s, n>>)
    BY <1>3, <1>4
  <2>2. s \in 1..Len(p.text) /\ n \in s..Len(p.text)
    BY <1>0
  <2>3. Gentle(p.text) /\ ~IsAscii(p.text)
    BY <1>4 DEF OfText, Placed
  <2> HIDE DEF word
  <2> QED BY <1>0, <2>1, <2>2, <2>3, GentleRun
<1>5. Width(word) \in Nat /\ MaxWordLen \in Nat
  <2>1. BytesSoFar(word, Len(word), Bytes(word))
    <3> HIDE DEF word
    <3> QED BY <1>2, BytesType
  <2> HIDE DEF word
  <2> QED BY <2>1, CharAssumption DEF BytesSoFar, Width
<1>6. CASE Width(word) > MaxWordLen
  <2>1. new = st
    BY <1>6 DEF Inside
  <2>2. ~Placed(p)
    <3> HIDE DEF word
    <3> QED BY <1>4, <1>5, <1>6
  <2>3. TextSoFar(p, n, st)
    BY <2>2 DEF TextSoFar
  <2> QED BY <2>1, <2>3
<1>7. CASE ~(Width(word) > MaxWordLen) /\ (Width(word) = MaxWordLen \/ last)
  <2>1. new = [list |-> EndWord(st.list, word, p.meta, ascii), word |-> << >>, inside |-> FALSE]
    BY <1>7 DEF Inside
  <2>2. p.ended /\ ~ascii /\ word # << >> => word[1] \notin Marks
    BY <1>3 DEF Placed
  <2>3. Fine(p, EndWord(st.list, word, p.meta, ascii))
    <3> HIDE DEF word, ascii
    <3> QED BY <1>0, <1>1, <1>2, <2>2, FineEnd
  <2>4. Placed(p) => Place(p.text, n, new)
    <3>1. CASE last
      BY <2>1, <3>1 DEF Place
    <3>2. CASE ~last
      <4>1. n < Len(p.text)
        BY <3>2
      <4> HIDE DEF word, new, last
      <4> QED BY <1>4, <1>7, <2>1, <3>2, <4>1 DEF Place
    <3> QED BY <3>1, <3>2
  <2>5. << >> \in Seq(Char)
    OBVIOUS
  <2> HIDE DEF new, word, ascii
  <2>6. TextSoFar(p, n, new)
    BY <2>1, <2>3, <2>4, <2>5 DEF TextSoFar
  <2> QED BY <2>6 DEF new, ascii
<1>8. CASE ~(Width(word) > MaxWordLen) /\ ~(Width(word) = MaxWordLen \/ last)
  <2>1. new = [st EXCEPT !.word = word]
    BY <1>8 DEF Inside
  <2>2. new = [list |-> st.list, word |-> word, inside |-> st.inside]
    <3> HIDE DEF new, word
    <3> QED BY <1>1, <2>1
  <2>3. Placed(p) => Place(p.text, n, new)
    <3> HIDE DEF new, word
    <3> QED BY <1>3, <2>2 DEF Place
  <2> HIDE DEF new, word, ascii
  <2>4. st.inside \in BOOLEAN
    BY DEF TextSoFar
  <2>5. TextSoFar(p, n, new)
    BY <1>1, <1>2, <2>2, <2>3, <2>4 DEF TextSoFar
  <2> QED BY <2>5 DEF new, ascii
<1> QED BY <1>6, <1>7, <1>8

\* What swish_tokenize_ascii and swish_tokenize_utf8 make of a sound list is sound
\* whatever the text: it holds the old tokens and behind them new ones of this
\* metaname, one behind the other in the buffer, with growing positions.  If the
\* text is Gentle, every token ends at the first NUL after its start.
THEOREM TokenizeSound ==
  ASSUME NEW list, Sound(list), NEW text \in Seq(Char), NEW meta \in Nat
  PROVE  /\ Sound(Tokenize(list, text, meta))
         /\ Extends(list, Tokenize(list, text, meta), {meta})
         /\ Ended(list) /\ Gentle(text) => Ended(Tokenize(list, text, meta))
<1> DEFINE p    == [list |-> list, meta |-> meta, ended |-> Ended(list) /\ Gentle(text), text |-> text]
           base == [list |-> list, word |-> << >>, inside |-> FALSE]
           seq  == Met(text, meta)
<1>1. OfText(p) /\ Before(p)
  <2>1. (Ended(list) /\ Gentle(text)) \in BOOLEAN
    BY DEF Ended, Gentle, EndedAt
  <2> QED BY <2>1 DEF OfText, Before
<1>2. TextSoFar(p, 0, base)
  <2>1. Fine(p, list)
    BY <1>1, FineAtFirst
  <2>2. << >> \in Seq(Char)
    OBVIOUS
  <2> HIDE DEF p
  <2> QED BY <2>1, <2>2 DEF TextSoFar, Place
<1>3. /\ DOMAIN seq = 1..Len(text) /\ Len(text) \in Nat
      /\ \A i \in 1..Len(text) :
           /\ seq[i].c = Low(text[i]) /\ seq[i].last = (i = Len(text)) /\ seq[i].meta = meta
           /\ seq[i].ascii = IsAscii(text)
  BY DEF Met
<1>4. p.text = text /\ p.meta = meta
  OBVIOUS
<1> HIDE DEF p, seq, base
<1>5. ASSUME NEW i \in 1..Len(text), NEW st, TextSoFar(p, i - 1, st)
      PROVE  TextSoFar(p, i, Stepped(st, seq[i]))
  <2>1. i \in 1..Len(p.text) /\ text[i] \in Char
    BY <1>4
  <2>2. InWord(seq[i].c) <=> InWord(text[i])
    BY <1>3, <2>1, LowIsLike
  <2>3. CASE ~InWord(text[i])
    <3>1. Stepped(st, seq[i]) = AtBreak(st, seq[i].c, p.meta, IsAscii(p.text))
      BY <1>3, <1>4, <2>2, <2>3, SteppedIsStep DEF Step
    <3> QED BY <1>1, <1>4, <1>5, <2>1, <2>3, <3>1, BreakStep
  <2>4. CASE InWord(text[i]) /\ ~st.inside
    <3>1. Stepped(st, seq[i]) = AtStart(st, Low(p.text[i]), i = Len(p.text), p.meta)
      BY <1>3, <1>4, <2>2, <2>4, SteppedIsStep DEF Step
    <3> QED BY <1>1, <1>4, <1>5, <2>1, <2>4, <3>1, StartStep
  <2>5. CASE InWord(text[i]) /\ st.inside
    <3>1. Stepped(st, seq[i]) = Inside(st, Low(p.text[i]), i = Len(p.text), p.meta, IsAscii(p.text))
      BY <1>3, <1>4, <2>2, <2>5, SteppedIsStep DEF Step
    <3> QED BY <1>1, <1>4, <1>5, <2>1, <2>5, <3>1, InsideStep
  <2> QED BY <2>3, <2>4, <2>5
<1>6. TextSoFar(p, Len(text), T!Folded(base, seq))
  <2> HIDE DEF TextSoFar, Stepped
  <2> QED BY <1>2, <1>3, <1>5, T!FoldInduction
<1>7. Tokenize(list, text, meta) = T!Folded(base, seq).list
  BY TokenizeFolded DEF Tokenize, base, seq
<1>8. Fine(p, Tokenize(list, text, meta))
  BY <1>6, <1>7 DEF TextSoFar
<1> QED BY <1>8 DEF Fine, p

-----------------------------------------------------------------------------
(* The words of a text: the pieces that its runs are cut into hold every   *)
(* letter and mark once, and end where a word is full or a break follows.  *)

Holds(q, i) == q[1] <= i /\ i <= q[2]

LEMMA RunFacts ==
  ASSUME NEW text \in Seq(Char), NEW r \in WordRuns(text)
  PROVE  /\ r = <<r[1], r[2]>> /\ r[1] \in 1..Len(text) /\ r[2] \in r[1]..Len(text)
         /\ \A i \in r[1]..r[2] : InWord(text[i])
         /\ r[1] > 1 => ~InWord(text[r[1] - 1])
         /\ r[2] < Len(text) => ~InWord(text[r[2] + 1])
<1>1. r \in (1..Len(text)) \X (1..Len(text)) /\ r[1] <= r[2]
  BY DEF WordRuns
<1>2. r = <<r[1], r[2]>> /\ r[1] \in 1..Len(text) /\ r[2] \in r[1]..Len(text)
  BY <1>1
<1> QED BY <1>2 DEF WordRuns

LEMMA RunAt ==
  ASSUME NEW text \in Seq(Char), NEW i \in 1..Len(text), InWord(text[i])
  PROVE  \E r \in WordRuns(text) : Holds(r, i)
<1> DEFINE S == {s \in 1..i : \A j \in s..i : InWord(text[j])}
           Back == {(i + 1) - s : s \in S}
<1>1. Back \in SUBSET (1..i) /\ i \in Nat
  OBVIOUS
<1>2. i \in S
  <2>1. \A j \in i..i : j = i
    OBVIOUS
  <2> QED BY <2>1
<1>3. PICK m \in Back : \A j \in Back : m >= j
  <2>1. Back # {}
    BY <1>2
  <2>2. B!Max(Back) \in Back /\ \A j \in Back : B!Max(Back) >= j
    <3> HIDE DEF Back
    <3> QED BY <1>1, <2>1, B!MaxOfNonEmpty
  <2> HIDE DEF Back
  <2> QED BY <2>2
<1>4. PICK s \in S : m = (i + 1) - s
  BY <1>3
<1>5. s \in 1..Len(text) /\ i \in s..Len(text) /\ s <= i
  BY <1>4
<1>6. s > 1 => ~InWord(text[s - 1])
  <2> SUFFICES ASSUME s > 1, InWord(text[s - 1]) PROVE FALSE
    OBVIOUS
  <2>1. s - 1 \in 1..i /\ \A j \in (s - 1)..i : j = s - 1 \/ j \in s..i
    BY <1>5
  <2>2. s - 1 \in S
    BY <1>4, <2>1
  <2>3. (i + 1) - (s - 1) \in Back
    BY <2>2
  <2>4. m >= (i + 1) - (s - 1)
    <3> HIDE DEF Back
    <3> QED BY <1>3, <2>3
  <2> QED BY <1>4, <1>5, <2>4
<1>7. RunFrom(text, s, i)
  BY <1>4, <1>6 DEF RunFrom
<1>8. PICK e \in i..Len(text) : <<s, e>> \in WordRuns(text)
  BY <1>5, <1>7, RunGoesOn
<1>9. Holds(<<s, e>>, i)
  BY <1>5, <1>8 DEF Holds
<1> QED BY <1>8, <1>9

LEMMA RunOnly ==
  ASSUME NEW text \in Seq(Char), NEW q \in WordRuns(text), NEW r \in WordRuns(text),
         NEW i \in 1..Len(text), Holds(q, i), Holds(r, i)
  PROVE  q = r
<1>1. ASSUME NEW a \in WordRuns(text), NEW b \in WordRuns(text), Holds(a, i), Holds(b, i)
      PROVE  ~(a[1] < b[1]) /\ ~(a[2] > b[2])
  <2>1. /\ a[1] \in 1..Len(text) /\ a[2] \in a[1]..Len(text)
        /\ b[1] \in 1..Len(text) /\ b[2] \in b[1]..Len(text)
    BY RunFacts
  <2>2. /\ \A j \in a[1]..a[2] : InWord(text[j])
        /\ b[1] > 1 => ~InWord(text[b[1] - 1])
        /\ b[2] < Len(text) => ~InWord(text[b[2] + 1])
    BY RunFacts
  <2>3. a[1] <= i /\ i <= a[2] /\ b[1] <= i /\ i <= b[2]
    BY <1>1 DEF Holds
  <2>4. a[1] < b[1] => b[1] - 1 \in a[1]..a[2] /\ b[1] > 1
    BY <2>1, <2>3
  <2>5. a[2] > b[2] => b[2] + 1 \in a[1]..a[2] /\ b[2] < Len(text)
    BY <2>1, <2>3
  <2> QED BY <2>2, <2>4, <2>5
<1>2. /\ q = <<q[1], q[2]>> /\ q[1] \in 1..Len(text) /\ q[2] \in q[1]..Len(text)
      /\ r = <<r[1], r[2]>> /\ r[1] \in 1..Len(text) /\ r[2] \in r[1]..Len(text)
  BY RunFacts
<1>3. q[1] = r[1] /\ q[2] = r[2]
  BY <1>1, <1>2
<1> QED BY <1>2, <1>3

LEMMA Multiples ==
  /\ \A k \in Nat : k * MaxWordLen \in Nat /\ (k + 1) * MaxWordLen = k * MaxWordLen + MaxWordLen
  /\ \A j, k \in Nat : j < k => j * MaxWordLen + MaxWordLen <= k * MaxWordLen
  /\ \A d \in Nat : /\ d \div MaxWordLen \in Nat /\ (d \div MaxWordLen) * MaxWordLen <= d
                    /\ d < (d \div MaxWordLen) * MaxWordLen + MaxWordLen
<1>1. MaxWordLen \in Nat /\ MaxWordLen > 0
  BY CharAssumption
<1>2. \A m \in Nat : m > 0 =>
        \A k \in Nat : k * m \in Nat /\ (k + 1) * m = k * m + m
  OBVIOUS
<1>3. \A m \in Nat : m > 0 =>
        \A j, k \in Nat : j < k => j * m + m <= k * m
  <2> TAKE m \in Nat
  <2> HAVE m > 0
  <2> TAKE j, k \in Nat
  <2> HAVE j < k
  <2>1. PICK d \in Nat : k = (j + 1) + d
    <3>1. k - (j + 1) \in Nat /\ k = (j + 1) + (k - (j + 1))
      OBVIOUS
    <3> QED BY <3>1
  <2>2. k * m = (j * m + m) + d * m
    BY <2>1
  <2>3. d * m \in Nat /\ j * m \in Nat
    BY <1>2
  <2> QED BY <2>2, <2>3
<1>4. \A m \in Nat : m > 0 =>
        \A d \in Nat : d \div m \in Nat /\ (d \div m) * m <= d /\ d < (d \div m) * m + m
  OBVIOUS
<1> QED BY <1>1, <1>2, <1>3, <1>4

\* A piece, with the place n of its run that it begins before: MaxWordLen times k.
LEMMA PieceOf ==
  ASSUME NEW text \in Seq(Char), NEW q \in Pieces(text)
  PROVE  \E r \in WordRuns(text), k \in Nat :
           /\ q = <<q[1], q[2]>> /\ q[1] = r[1] + k * MaxWordLen /\ q[1] <= r[2]
           /\ q[2] = IF (r[1] + k * MaxWordLen) + MaxWordLen - 1 < r[2]
                     THEN (r[1] + k * MaxWordLen) + MaxWordLen - 1 ELSE r[2]
<1>0. PICK r \in WordRuns(text) : q \in {Piece(r, k) : k \in 0..((r[2] - r[1]) \div MaxWordLen)}
  BY DEF Pieces
<1>1. PICK k \in 0..((r[2] - r[1]) \div MaxWordLen) : q = Piece(r, k)
  BY <1>0
<1>2. r[1] \in 1..Len(text) /\ r[2] \in r[1]..Len(text) /\ r[2] - r[1] \in Nat
  <2>1. r[1] \in 1..Len(text) /\ r[2] \in r[1]..Len(text)
    BY RunFacts
  <2> QED BY <2>1
<1>3. PICK d : d = (r[2] - r[1]) \div MaxWordLen
  OBVIOUS
<1>4. d \in Nat /\ d * MaxWordLen <= r[2] - r[1]
  BY <1>2, <1>3, Multiples
<1>5. k \in Nat /\ k <= d
  BY <1>1, <1>3, <1>4
<1>6. PICK a : a = k * MaxWordLen
  OBVIOUS
<1>7. a \in Nat /\ (k + 1) * MaxWordLen = a + MaxWordLen /\ MaxWordLen \in Nat
  BY <1>5, <1>6, Multiples, CharAssumption
<1>8. a <= r[2] - r[1]
  <2>1. CASE k = d
    BY <1>4, <1>6, <2>1
  <2>2. CASE k # d
    <3>1. k < d
      BY <1>4, <1>5, <2>2
    <3>2. PICK c : c = d * MaxWordLen
      OBVIOUS
    <3>3. a + MaxWordLen <= c /\ c \in Nat
      BY <1>4, <1>5, <1>6, <3>1, <3>2, Multiples
    <3> QED BY <1>2, <1>4, <1>7, <3>2, <3>3
  <2> QED BY <2>1, <2>2
<1>9. r[1] + (k + 1) * MaxWordLen - 1 = (r[1] + a) + MaxWordLen - 1
  <2>1. PICK c, m, x : c = (k + 1) * MaxWordLen /\ m = MaxWordLen /\ x = r[1]
    OBVIOUS
  <2>2. c = a + m /\ m \in Nat /\ x \in Nat /\ a \in Nat
    BY <1>2, <1>7, <2>1
  <2>3. x + c - 1 = (x + a) + m - 1
    BY <2>2
  <2> QED BY <2>1, <2>3
<1>10. q = <<r[1] + a, IF (r[1] + a) + MaxWordLen - 1 < r[2]
                       THEN (r[1] + a) + MaxWordLen - 1 ELSE r[2]>>
  BY <1>1, <1>6, <1>9 DEF Piece
<1>11. r[1] + a <= r[2]
  BY <1>2, <1>7, <1>8
<1> QED BY <1>5, <1>6, <1>10, <1>11

LEMMA PieceFacts ==
  ASSUME NEW text \in Seq(Char), NEW q \in Pieces(text)
  PROVE  /\ q = <<q[1], q[2]>> /\ q[1] \in 1..Len(text) /\ q[2] \in q[1]..Len(text)
         /\ \A i \in q[1]..q[2] : InWord(text[i])
         /\ q[2] - q[1] < MaxWordLen
         /\ (q[2] - q[1]) + 1 = MaxWordLen \/ q[2] = Len(text) \/ ~InWord(text[q[2] + 1])
<1>1. PICK r \in WordRuns(text), k \in Nat :
        /\ q = <<q[1], q[2]>> /\ q[1] = r[1] + k * MaxWordLen /\ q[1] <= r[2]
        /\ q[2] = IF (r[1] + k * MaxWordLen) + MaxWordLen - 1 < r[2]
                  THEN (r[1] + k * MaxWordLen) + MaxWordLen - 1 ELSE r[2]
  BY PieceOf
<1>2. PICK a, m : a = k * MaxWordLen /\ m = MaxWordLen
  OBVIOUS
<1>3. a \in Nat /\ m \in Nat /\ m >= 2
  BY <1>2, Multiples, CharAssumption
<1>4. /\ r[1] \in 1..Len(text) /\ r[2] \in r[1]..Len(text)
      /\ \A i \in r[1]..r[2] : InWord(text[i])
      /\ r[2] < Len(text) => ~InWord(text[r[2] + 1])
  BY RunFacts
<1>5. q[1] = r[1] + a /\ q[1] <= r[2] /\ q[2] = IF (r[1] + a) + m - 1 < r[2] THEN (r[1] + a) + m - 1 ELSE r[2]
  BY <1>1, <1>2
<1>6. PICK b, e : b = q[1] /\ e = q[2]
  OBVIOUS
<1>7. /\ b \in 1..Len(text) /\ e \in b..Len(text) /\ b >= r[1] /\ e <= r[2]
      /\ e - b < m /\ ((e - b) + 1 = m \/ e = r[2])
  <2>1. PICK x, y, n : x = r[1] /\ y = r[2] /\ n = Len(text)
    OBVIOUS
  <2>2. x \in Nat /\ x >= 1 /\ y \in Nat /\ y <= n /\ n \in Nat
    BY <1>4, <2>1
  <2>3. b = x + a /\ b <= y /\ e = IF (x + a) + m - 1 < y THEN (x + a) + m - 1 ELSE y
    BY <1>5, <1>6, <2>1
  <2>4. /\ b \in Nat /\ e \in Nat /\ 1 <= b /\ b <= e /\ e <= n /\ b >= x /\ e <= y
        /\ e - b < m /\ ((e - b) + 1 = m \/ e = y)
    <3>1. CASE (x + a) + m - 1 < y
      BY <1>3, <2>2, <2>3, <3>1
    <3>2. CASE ~((x + a) + m - 1 < y)
      BY <1>3, <2>2, <2>3, <3>2
    <3> QED BY <3>1, <3>2
  <2>5. b \in 1..n /\ e \in b..n
    BY <2>2, <2>4
  <2> QED BY <2>1, <2>4, <2>5
<1>8. \A i \in b..e : i \in r[1]..r[2]
  BY <1>4, <1>7
<1>9. e = r[2] => e = Len(text) \/ ~InWord(text[e + 1])
  BY <1>4
<1> QED BY <1>1, <1>2, <1>4, <1>6, <1>7, <1>8, <1>9

LEMMA PieceOnly ==
  ASSUME NEW text \in Seq(Char), NEW p \in Pieces(text), NEW q \in Pieces(text),
         NEW i \in 1..Len(text), Holds(p, i), Holds(q, i)
  PROVE  p = q
<1>1. PICK r \in WordRuns(text), j \in Nat :
        /\ p = <<p[1], p[2]>> /\ p[1] = r[1] + j * MaxWordLen /\ p[1] <= r[2]
        /\ p[2] = IF (r[1] + j * MaxWordLen) + MaxWordLen - 1 < r[2]
                  THEN (r[1] + j * MaxWordLen) + MaxWordLen - 1 ELSE r[2]
  BY PieceOf
<1>2. PICK s \in WordRuns(text), k \in Nat :
        /\ q = <<q[1], q[2]>> /\ q[1] = s[1] + k * MaxWordLen /\ q[1] <= s[2]
        /\ q[2] = IF (s[1] + k * MaxWordLen) + MaxWordLen - 1 < s[2]
                  THEN (s[1] + k * MaxWordLen) + MaxWordLen - 1 ELSE s[2]
  BY PieceOf
<1>3. PICK a, b, m : a = j * MaxWordLen /\ b = k * MaxWordLen /\ m = MaxWordLen
  OBVIOUS
<1>4. a \in Nat /\ b \in Nat /\ m \in Nat /\ (j < k => a + m <= b) /\ (k < j => b + m <= a)
  BY <1>3, Multiples, CharAssumption
<1>5. /\ p[1] = r[1] + a /\ p[2] = IF (r[1] + a) + m - 1 < r[2] THEN (r[1] + a) + m - 1 ELSE r[2]
      /\ q[1] = s[1] + b /\ q[2] = IF (s[1] + b) + m - 1 < s[2] THEN (s[1] + b) + m - 1 ELSE s[2]
  BY <1>1, <1>2, <1>3
<1>6. r[1] \in Nat /\ r[2] \in Nat /\ s[1] \in Nat /\ s[2] \in Nat
  <2>1. r[1] \in 1..Len(text) /\ r[2] \in r[1]..Len(text)
    BY RunFacts
  <2>2. s[1] \in 1..Len(text) /\ s[2] \in s[1]..Len(text)
    BY RunFacts
  <2> QED BY <2>1, <2>2
<1>7. p[1] <= i /\ i <= p[2] /\ q[1] <= i /\ i <= q[2]
  BY DEF Holds
<1>8. r = s
  <2>a. PICK w, x, y, z : w = r[1] /\ x = r[2] /\ y = s[1] /\ z = s[2]
    OBVIOUS
  <2>b. w \in Nat /\ x \in Nat /\ y \in Nat /\ z \in Nat /\ i \in Nat
    BY <1>6, <2>a
  <2>c. w + a <= i /\ i <= IF (w + a) + m - 1 < x THEN (w + a) + m - 1 ELSE x
    BY <1>5, <1>7, <2>a
  <2>d. y + b <= i /\ i <= IF (y + b) + m - 1 < z THEN (y + b) + m - 1 ELSE z
    BY <1>5, <1>7, <2>a
  <2>1. w <= i /\ i <= x /\ y <= i /\ i <= z
    <3>1. w <= i /\ i <= x
      BY <1>4, <2>b, <2>c
    <3>2. y <= i /\ i <= z
      BY <1>4, <2>b, <2>d
    <3> QED BY <3>1, <3>2
  <2>2. Holds(r, i) /\ Holds(s, i)
    BY <2>1, <2>a DEF Holds
  <2> QED BY <2>2, RunOnly
<1>9. ~(j < k) /\ ~(k < j)
  <2>1. PICK x, y : x = r[1] /\ y = r[2]
    OBVIOUS
  <2>2. x \in Nat /\ y \in Nat /\ i \in Nat /\ a \in Nat /\ b \in Nat /\ m \in Nat
    BY <1>4, <1>6, <2>1
  <2>3. x + a <= i /\ i <= IF (x + a) + m - 1 < y THEN (x + a) + m - 1 ELSE y
    BY <1>5, <1>7, <2>1
  <2>4. x + b <= i /\ i <= IF (x + b) + m - 1 < y THEN (x + b) + m - 1 ELSE y
    BY <1>5, <1>7, <1>8, <2>1
  <2>5. i <= (x + a) + m - 1 /\ i <= (x + b) + m - 1
    <3>1. i <= (x + a) + m - 1
      BY <2>2, <2>3
    <3>2. i <= (x + b) + m - 1
      BY <2>2, <2>4
    <3> QED BY <3>1, <3>2
  <2>6. ~(a + m <= b) /\ ~(b + m <= a)
    BY <2>2, <2>3, <2>4, <2>5
  <2> QED BY <1>4, <2>6
<1>10. j = k
  BY <1>9
<1> QED BY <1>1, <1>2, <1>8, <1>10

LEMMA PieceAt ==
  ASSUME NEW text \in Seq(Char), NEW i \in 1..Len(text), InWord(text[i])
  PROVE  \E q \in Pieces(text) : Holds(q, i)
<1>1. PICK r \in WordRuns(text) : Holds(r, i)
  BY RunAt
<1>2. r[1] \in 1..Len(text) /\ r[2] \in r[1]..Len(text) /\ r[1] <= i /\ i <= r[2]
  <2>1. r[1] \in 1..Len(text) /\ r[2] \in r[1]..Len(text)
    BY RunFacts
  <2> QED BY <1>1, <2>1 DEF Holds
<1>3. PICK k, d : k = (i - r[1]) \div MaxWordLen /\ d = (r[2] - r[1]) \div MaxWordLen
  OBVIOUS
<1>4. PICK a, m : a = k * MaxWordLen /\ m = MaxWordLen
  OBVIOUS
<1>5. i - r[1] \in Nat /\ r[2] - r[1] \in Nat /\ m \in Nat
  BY <1>2, <1>4, CharAssumption
<1>6. k \in Nat /\ a \in Nat /\ a <= i - r[1] /\ i - r[1] < a + m /\ (k + 1) * MaxWordLen = a + m
  BY <1>3, <1>4, <1>5, Multiples
<1>7. k <= d /\ d \in Nat
  <2>1. PICK c : c = d * MaxWordLen
    OBVIOUS
  <2>2. d \in Nat /\ c \in Nat /\ r[2] - r[1] < c + m
    BY <1>3, <1>4, <1>5, <2>1, Multiples
  <2>3. d < k => c + m <= a
    BY <1>4, <1>6, <2>1, <2>2, Multiples
  <2> QED BY <1>2, <1>5, <1>6, <2>2, <2>3
<1>8. Piece(r, k) \in Pieces(text)
  <2>1. k \in 0..((r[2] - r[1]) \div MaxWordLen)
    BY <1>3, <1>6, <1>7
  <2> QED BY <2>1 DEF Pieces
<1>9. Piece(r, k)[1] = r[1] + a
      /\ Piece(r, k)[2] = IF r[1] + (a + m) - 1 < r[2] THEN r[1] + (a + m) - 1 ELSE r[2]
  BY <1>4, <1>6 DEF Piece
<1>10. r[1] + a <= i /\ i <= r[2] /\ i <= r[1] + (a + m) - 1
  BY <1>2, <1>5, <1>6
<1>11. Holds(Piece(r, k), i)
  BY <1>9, <1>10 DEF Holds
<1> QED BY <1>8, <1>11

\* Of a Gentle text that is not ASCII, the pieces are the runs.
LEMMA PieceGentle ==
  ASSUME NEW text \in Seq(Char), Gentle(text), ~IsAscii(text), NEW q \in Pieces(text)
  PROVE  text[q[1]] \notin Marks /\ Width(Lowered(text, q)) <= MaxWordLen
<1>1. PICK r \in WordRuns(text), k \in Nat :
        /\ q = <<q[1], q[2]>> /\ q[1] = r[1] + k * MaxWordLen /\ q[1] <= r[2]
        /\ q[2] = IF (r[1] + k * MaxWordLen) + MaxWordLen - 1 < r[2]
                  THEN (r[1] + k * MaxWordLen) + MaxWordLen - 1 ELSE r[2]
  BY PieceOf
<1>2. text[r[1]] \notin Marks /\ Width(Lowered(text, r)) <= MaxWordLen
  BY DEF Gentle
<1>3. r = <<r[1], r[2]>> /\ r[1] \in 1..Len(text) /\ r[2] \in r[1]..Len(text)
  BY RunFacts
<1>4. PICK w : w = Lowered(text, r)
  OBVIOUS
<1>5. w \in Seq(Char) /\ Len(w) = (r[2] - r[1]) + 1
  <2>1. Lowered(text, <<r[1], r[2]>>) \in Seq(Char) /\ Len(Lowered(text, <<r[1], r[2]>>)) = (r[2] - r[1]) + 1
    BY <1>3, LoweredType
  <2> QED BY <1>3, <1>4, <2>1
<1>6. Len(w) <= Width(w) /\ Width(w) \in Nat
  BY <1>5, BytesType DEF BytesSoFar, Width
<1>7. PICK a, m : a = k * MaxWordLen /\ m = MaxWordLen
  OBVIOUS
<1>8. a \in Nat /\ m \in Nat /\ (k > 0 => m <= a)
  <2>1. a \in Nat /\ m \in Nat /\ (0 < k => 0 * MaxWordLen + m <= a)
    BY <1>7, Multiples, CharAssumption
  <2> QED BY <2>1, <1>7
<1>9. (r[2] - r[1]) + 1 <= m
  BY <1>2, <1>4, <1>5, <1>6, <1>7, <1>8
<1>10. k = 0
  <2>1. r[1] + a <= r[2]
    BY <1>1, <1>7
  <2> QED BY <1>3, <1>8, <1>9, <2>1
<1>11. a = 0
  BY <1>7, <1>8, <1>10, CharAssumption
<1>12. q[1] = r[1] /\ q[2] = r[2]
  <2>1. PICK x, y : x = r[1] /\ y = r[2]
    OBVIOUS
  <2>2. x \in Nat /\ y \in Nat /\ (y - x) + 1 <= m
    BY <1>3, <1>9, <2>1
  <2>3. q[1] = x + a /\ q[2] = IF (x + a) + m - 1 < y THEN (x + a) + m - 1 ELSE y
    BY <1>1, <1>7, <2>1
  <2>4. x + a = x /\ ~((x + a) + m - 1 < y)
    BY <1>8, <1>11, <2>2
  <2> QED BY <2>1, <2>3, <2>4
<1>13. q = r
  BY <1>1, <1>3, <1>12
<1> QED BY <1>2, <1>13

LEMMA SameSeq ==
  ASSUME NEW S, NEW s \in Seq(S), NEW t \in Seq(S), Len(s) = Len(t), \A i \in 1..Len(s) : s[i] = t[i]
  PROVE  s = t
OBVIOUS

LEMMA JoinedSeq ==
  ASSUME NEW S, NEW s \in Seq(S), NEW t \in Seq(S)
  PROVE  /\ s \o t \in Seq(S) /\ Len(s \o t) = Len(s) + Len(t)
         /\ \A i \in 1..Len(s) : (s \o t)[i] = s[i]
         /\ \A i \in 1..Len(t) : (s \o t)[Len(s) + i] = t[i]
OBVIOUS

LEMMA SamePart ==
  ASSUME NEW S, NEW s \in Seq(S), NEW t \in Seq(S), NEW a \in Nat, NEW b \in Nat,
         a >= 1, b <= Len(s), b <= Len(t), \A j \in a..b : s[j] = t[j]
  PROVE  SubSeq(s, a, b) = SubSeq(t, a, b)
OBVIOUS

\* The last but one part of a sequence.
LEMMA EndPart ==
  ASSUME NEW S, NEW s \in Seq(S), NEW t \in Seq(S), NEW m \in Nat, NEW k \in Nat,
         Len(t) = k, Len(s) = m + (k + 1), \A i \in 1..k : s[m + i] = t[i]
  PROVE  SubSeq(s, m + 1, m + k) = t
<1> DEFINE u == SubSeq(s, m + 1, m + k)
<1>1. CASE k = 0
  <2>1. u = << >> /\ t = << >>
    BY <1>1
  <2> QED BY <2>1
<1>2. CASE k > 0
  <2>1. m + 1 \in 1..Len(s) /\ m + k \in 1..Len(s) /\ m + 1 <= m + k
    BY <1>2
  <2>a. PICK a, b : a = m + 1 /\ b = m + k
    OBVIOUS
  <2>b. a \in 1..Len(s) /\ b \in 1..Len(s) /\ a <= b
    BY <2>1, <2>a
  <2>c. /\ SubSeq(s, a, b) \in Seq(S) /\ Len(SubSeq(s, a, b)) = (b - a) + 1
        /\ \A i \in 1..Len(SubSeq(s, a, b)) : SubSeq(s, a, b)[i] = s[a + i - 1]
    BY <2>b, PartOfSeq
  <2>2. u \in Seq(S) /\ Len(u) = ((m + k) - (m + 1)) + 1 /\ \A i \in 1..Len(u) : u[i] = s[m + 1 + i - 1]
    BY <2>a, <2>c
  <2>e. ((m + k) - (m + 1)) + 1 = k /\ \A i \in 1..k : m + 1 + i - 1 = m + i
    OBVIOUS
  <2>3. Len(u) = k /\ \A i \in 1..k : m + 1 + i - 1 = m + i
    <3> HIDE DEF u
    <3> QED BY <2>2, <2>e
  <2> HIDE DEF u
  <2>4. Len(u) = Len(t) /\ \A i \in 1..Len(u) : u[i] = t[i]
    BY <2>2, <2>3
  <2>5. u = t
    BY <2>2, <2>4, SameSeq
  <2> QED BY <2>5 DEF u
<1> QED BY <1>1, <1>2

-----------------------------------------------------------------------------
(* The words that end at or before a place b that no piece extends over.   *)

Clear(text, b) == \A q \in Pieces(text) : ~(q[1] <= b /\ b < q[2])
DoneWords(text, b) == {q \in WordsAt(text) : q[2] <= b}
Bumpers(text, b)   == {i \in 1..b : text[i] = BUMP}

LEMMA WordFacts ==
  ASSUME NEW text \in Seq(Char), NEW b \in Nat
  PROVE  /\ WordsAt(text) \subseteq Pieces(text)
         /\ IsFiniteSet(WordsAt(text)) /\ IsFiniteSet(DoneWords(text, b)) /\ IsFiniteSet(Bumpers(text, b))
         /\ Cardinality(DoneWords(text, b)) \in Nat /\ Cardinality(Bumpers(text, b)) \in Nat
<1>1. WordsAt(text) \subseteq Pieces(text)
  BY DEF WordsAt
<1>2. IsFiniteSet(WordsAt(text))
  <2> DEFINE n == Len(text)
  <2>1. n \in Nat
    OBVIOUS
  <2>2. IsFiniteSet(1..n)
    BY <2>1, FS_Interval
  <2>3. IsFiniteSet((1..n) \X (1..n))
    BY <2>2, FS_Product
  <2>4. ASSUME NEW q \in WordsAt(text) PROVE q \in (1..n) \X (1..n)
    <3>1. q = <<q[1], q[2]>> /\ q[1] \in 1..Len(text) /\ q[2] \in q[1]..Len(text)
      BY <1>1, PieceFacts
    <3> QED BY <3>1
  <2> HIDE DEF n
  <2> QED BY <2>3, <2>4, FS_Subset
<1>3. IsFiniteSet(DoneWords(text, b))
  <2>1. DoneWords(text, b) \subseteq WordsAt(text)
    BY DEF DoneWords
  <2> QED BY <1>2, <2>1, FS_Subset
<1>4. IsFiniteSet(Bumpers(text, b))
  <2>1. Bumpers(text, b) \subseteq 1..b
    BY DEF Bumpers
  <2>2. IsFiniteSet(1..b)
    BY FS_Interval
  <2> QED BY <2>1, <2>2, FS_Subset
<1> QED BY <1>1, <1>2, <1>3, <1>4, FS_CardinalityType

\* What the word at the next piece adds to the words before, and its position.
LEMMA PieceNext ==
  ASSUME NEW text \in Seq(Char), NEW b \in 0..Len(text), Clear(text, b),
         NEW e \in Nat, <<b + 1, e>> \in Pieces(text)
  PROVE  /\ Clear(text, e) /\ e \in (b + 1)..Len(text)
         /\ Bumpers(text, e) = Bumpers(text, b)
         /\ <<b + 1, e>> \notin WordsAt(text) => DoneWords(text, e) = DoneWords(text, b)
         /\ <<b + 1, e>> \in WordsAt(text) =>
              /\ DoneWords(text, e) = DoneWords(text, b) \cup {<<b + 1, e>>}
              /\ Cardinality(DoneWords(text, e)) = Cardinality(DoneWords(text, b)) + 1
              /\ PositionOf(text, <<b + 1, e>>) =
                   Cardinality(DoneWords(text, b)) + 1 + Cardinality(Bumpers(text, b))
<1> DEFINE q == <<b + 1, e>>
<1>0. q[1] = b + 1 /\ q[2] = e /\ q \in Pieces(text)
  OBVIOUS
<1>1. e \in (b + 1)..Len(text) /\ \A i \in (b + 1)..e : InWord(text[i])
  BY <1>0, PieceFacts
<1>2. ASSUME NEW p \in Pieces(text), NEW i \in 1..Len(text), Holds(p, i), b + 1 <= i, i <= e
      PROVE  p = q
  <2>1. Holds(q, i)
    BY <1>0, <1>2 DEF Holds
  <2> QED BY <1>0, <1>2, <2>1, PieceOnly
<1>3. \A p \in Pieces(text) : /\ p[1] \in 1..Len(text) /\ p[2] \in p[1]..Len(text)
                              /\ Holds(p, p[1]) /\ Holds(p, p[2])
  <2> TAKE p \in Pieces(text)
  <2>1. p[1] \in 1..Len(text) /\ p[2] \in p[1]..Len(text)
    BY PieceFacts
  <2> QED BY <2>1 DEF Holds
<1> HIDE DEF q
<1>4. Clear(text, e)
  <2> SUFFICES ASSUME NEW p \in Pieces(text), p[1] <= e, e < p[2] PROVE FALSE
    BY DEF Clear
  <2>1. Holds(p, e)
    <3>1. p[2] \in Nat
      <4>1. p[1] \in 1..Len(text) /\ p[2] \in p[1]..Len(text)
        BY <1>3
      <4> QED BY <4>1
    <3> QED BY <3>1 DEF Holds
  <2>2. p = q
    BY <1>1, <1>2, <2>1
  <2> QED BY <1>0, <1>1, <2>2
\* A piece ends at or before e if it ends at or before b, or is the next one.
<1>5. \A p \in Pieces(text) : p[2] <= e <=> p[2] <= b \/ p = q
  <2> TAKE p \in Pieces(text)
  <2>1. p[2] \in Nat
    BY <1>3
  <2>2. ASSUME p[2] <= e, ~(p[2] <= b) PROVE p = q
    <3>1. b + 1 <= p[2] /\ p[2] \in 1..Len(text) /\ Holds(p, p[2])
      <4>1. p[2] \in p[1]..Len(text) /\ p[1] \in 1..Len(text) /\ Holds(p, p[2])
        BY <1>3
      <4> QED BY <2>2, <4>1
    <3> QED BY <1>2, <2>2, <3>1
  <2>3. p[2] <= b => p[2] <= e
    BY <1>1, <2>1
  <2>4. p = q => p[2] <= e
    BY <1>0, <1>1
  <2> QED BY <2>2, <2>3, <2>4
\* It begins at or before b + 1 if it ends at or before e.
<1>6. \A p \in Pieces(text) : p[1] <= b + 1 <=> p[2] <= e
  <2> TAKE p \in Pieces(text)
  <2>1. p[1] \in 1..Len(text) /\ p[2] \in p[1]..Len(text) /\ Holds(p, p[1])
    BY <1>3
  <2>2. ASSUME p[1] <= b + 1 PROVE p[2] <= b \/ p = q
    <3>1. CASE p[1] <= b
      <4>1. ~(b < p[2])
        BY <3>1 DEF Clear
      <4> QED BY <2>1, <4>1
    <3>2. CASE p[1] = b + 1
      BY <1>1, <1>2, <2>1, <3>2
    <3> QED BY <2>1, <2>2, <3>1, <3>2
  <2>3. p[2] <= b => p[1] <= b + 1
    BY <2>1
  <2>4. p = q => p[1] <= b + 1
    BY <1>0
  <2> QED BY <1>5, <2>2, <2>3, <2>4
<1>7. ~InWord(BUMP)
  BY CharAssumption DEF InWord
<1>8. \A j \in (b + 1)..e : Bumpers(text, j) = Bumpers(text, b)
  <2> TAKE j \in (b + 1)..e
  <2>1. Bumpers(text, b) \subseteq Bumpers(text, j)
    <3>1. \A i \in 1..b : i \in 1..j
      OBVIOUS
    <3> QED BY <3>1 DEF Bumpers
  <2>2. ASSUME NEW i \in Bumpers(text, j) PROVE i \in Bumpers(text, b)
    <3>1. i \in 1..j /\ text[i] = BUMP
      BY DEF Bumpers
    <3>2. i \notin (b + 1)..e
      BY <1>1, <1>7, <3>1
    <3>3. i \in 1..b
      BY <3>1, <3>2
    <3> QED BY <3>1, <3>3 DEF Bumpers
  <2> QED BY <2>1, <2>2
<1>9. Bumpers(text, e) = Bumpers(text, b) /\ Bumpers(text, b + 1) = Bumpers(text, b)
  <2>1. e \in (b + 1)..e /\ b + 1 \in (b + 1)..e
    BY <1>1
  <2> QED BY <1>8, <2>1
<1>10. WordsAt(text) \subseteq Pieces(text)
  BY DEF WordsAt
<1>11. q \notin WordsAt(text) => DoneWords(text, e) = DoneWords(text, b)
  BY <1>5, <1>10 DEF DoneWords
<1>12. ASSUME q \in WordsAt(text)
       PROVE  /\ DoneWords(text, e) = DoneWords(text, b) \cup {q}
              /\ Cardinality(DoneWords(text, e)) = Cardinality(DoneWords(text, b)) + 1
              /\ PositionOf(text, q) = Cardinality(DoneWords(text, b)) + 1 + Cardinality(Bumpers(text, b))
  <2>1. DoneWords(text, e) = DoneWords(text, b) \cup {q}
    BY <1>5, <1>10, <1>12 DEF DoneWords
  <2>2. q \notin DoneWords(text, b)
    BY <1>0, <1>1 DEF DoneWords
  <2>3. IsFiniteSet(DoneWords(text, b))
    BY WordFacts
  <2>4. Cardinality(DoneWords(text, e)) = Cardinality(DoneWords(text, b)) + 1
    BY <2>1, <2>2, <2>3, FS_AddElement
  <2>5. {p \in WordsAt(text) : p[1] <= q[1]} = DoneWords(text, e)
    BY <1>0, <1>6, <1>10 DEF DoneWords
  <2>6. {i \in 1..q[1] : text[i] = BUMP} = Bumpers(text, b)
    BY <1>0, <1>9 DEF Bumpers
  <2> QED BY <2>1, <2>4, <2>5, <2>6 DEF PositionOf
<1> QED BY <1>1, <1>4, <1>9, <1>11, <1>12 DEF q

LEMMA BreakNext ==
  ASSUME NEW text \in Seq(Char), NEW n \in 1..Len(text), ~InWord(text[n]), Clear(text, n - 1)
  PROVE  /\ Clear(text, n) /\ DoneWords(text, n) = DoneWords(text, n - 1)
         /\ Cardinality(Bumpers(text, n)) =
              Cardinality(Bumpers(text, n - 1)) + (IF text[n] = BUMP THEN 1 ELSE 0)
<1>1. \A q \in Pieces(text) : q[1] \in Nat /\ q[2] \in Nat /\ q[1] <= q[2] /\ ~(q[1] <= n /\ n <= q[2])
  <2> TAKE q \in Pieces(text)
  <2>1. q[1] \in 1..Len(text) /\ q[2] \in q[1]..Len(text) /\ \A i \in q[1]..q[2] : InWord(text[i])
    BY PieceFacts
  <2> QED BY <2>1
<1>2. Clear(text, n)
  BY <1>1 DEF Clear
<1>3. DoneWords(text, n) = DoneWords(text, n - 1)
  <2>1. \A q \in Pieces(text) : q[2] <= n <=> q[2] <= n - 1
    BY <1>1
  <2>2. WordsAt(text) \subseteq Pieces(text)
    BY DEF WordsAt
  <2> QED BY <2>1, <2>2 DEF DoneWords
<1>4. \A i : i \in 1..n <=> i \in 1..(n - 1) \/ i = n
  OBVIOUS
<1>5. n - 1 \in Nat
  OBVIOUS
<1>6. CASE text[n] = BUMP
  <2>1. Bumpers(text, n) = Bumpers(text, n - 1) \cup {n}
    BY <1>4, <1>6 DEF Bumpers
  <2>2. n \notin Bumpers(text, n - 1) /\ IsFiniteSet(Bumpers(text, n - 1))
    BY <1>5, WordFacts DEF Bumpers
  <2> QED BY <1>2, <1>3, <1>6, <2>1, <2>2, FS_AddElement
<1>7. CASE text[n] # BUMP
  <2>1. Bumpers(text, n) = Bumpers(text, n - 1)
    BY <1>4, <1>7 DEF Bumpers
  <2>2. Cardinality(Bumpers(text, n - 1)) \in Nat
    BY <1>5, WordFacts
  <2> QED BY <1>2, <1>3, <1>7, <2>1, <2>2
<1> QED BY <1>6, <1>7

-----------------------------------------------------------------------------
(* The list, as far as the words of a text are in it.                      *)

NewOnes(p, list)   == (Len(p.list.tokens) + 1)..Len(list.tokens)
Shown(p, list, t)  == [word |-> TokenBytes(list, t), pos |-> t.pos - p.list.pos]
ShownAll(p, list)  == {Shown(p, list, list.tokens[i]) : i \in NewOnes(p, list)}
WordWanted(text, q)    == [word |-> Bytes(PieceWord(text, q)), pos |-> PositionOf(text, q)]
Yields(p, list, b) ==
  /\ ShownAll(p, list) = {WordWanted(p.text, q) : q \in DoneWords(p.text, b)}
  /\ list.pos = p.list.pos + (Cardinality(DoneWords(p.text, b)) + Cardinality(Bumpers(p.text, b)))

LEMMA TokenAdded ==
  ASSUME NEW p, Before(p), NEW list, Fine(p, list), NEW body \in Seq(Char \cup {Cont})
  PROVE  /\ ShownAll(p, AddToken(list, Append(body, NUL), p.meta)) =
              ShownAll(p, list) \cup {[word |-> body, pos |-> (list.pos + 1) - p.list.pos]}
         /\ AddToken(list, Append(body, NUL), p.meta).pos = list.pos + 1
<1> DEFINE bytes == Append(body, NUL)
           new   == AddToken(list, bytes, p.meta)
           t     == [n |-> list.made + 1, meta |-> p.meta, offset |-> Len(list.buf),
                     len |-> Len(bytes) - 1, pos |-> list.pos + 1]
<1>1. list \in Lists /\ list.tokens \in Seq(Tokens) /\ list.buf \in Seq(Byte) /\ list.pos \in Nat
  BY DEF Fine, Sound, Lists
<1>l. PICK n, m, k, o : /\ n = Len(list.tokens) /\ m = Len(list.buf) /\ k = Len(body)
                        /\ o = Len(p.list.tokens)
  OBVIOUS
<1>2. n \in Nat /\ m \in Nat /\ k \in Nat /\ o \in Nat /\ o <= n
  <2>1. o \in Nat
    BY <1>l, LengthsOf DEF Before
  <2> QED BY <1>1, <1>l, <2>1 DEF Fine, Extends
<1>3. bytes \in Seq(Byte) /\ Len(bytes) = k + 1 /\ \A i \in 1..k : bytes[i] = body[i]
  <2>1. body \in Seq(Byte) /\ NUL \in Byte
    BY DEF Byte
  <2> QED BY <1>l, <2>1
<1> HIDE DEF bytes
<1>4. new.buf = list.buf \o bytes /\ new.pos = list.pos + 1 /\ new.tokens = Append(list.tokens, t)
  BY DEF AddToken
<1>5. t.offset = m /\ t.len = k /\ t.pos = list.pos + 1
  BY <1>2, <1>3, <1>l
<1>a. t \in Tokens
  <2>1. list.made \in Nat /\ p.meta \in Nat
    BY <1>1 DEF Lists, Before
  <2> QED BY <1>1, <1>2, <1>3, <1>l, <2>1 DEF Tokens
<1>6. /\ Len(new.tokens) = n + 1 /\ new.tokens[n + 1] = t
      /\ \A i \in 1..n : new.tokens[i] = list.tokens[i]
  <2> HIDE DEF t, new
  <2> QED BY <1>1, <1>2, <1>4, <1>a, <1>l
<1>7. /\ new.buf \in Seq(Byte) /\ Len(new.buf) = m + (k + 1)
      /\ \A i \in 1..m : new.buf[i] = list.buf[i]
      /\ \A i \in 1..(k + 1) : new.buf[m + i] = bytes[i]
  <2>a. PICK x, y : x = list.buf /\ y = bytes
    OBVIOUS
  <2>b. x \in Seq(Byte) /\ y \in Seq(Byte)
    BY <1>1, <1>3, <2>a
  <2>1. /\ x \o y \in Seq(Byte) /\ Len(x \o y) = Len(x) + Len(y)
        /\ \A i \in 1..Len(x) : (x \o y)[i] = x[i]
        /\ \A i \in 1..Len(y) : (x \o y)[Len(x) + i] = y[i]
    BY <2>b, JoinedSeq
  <2> HIDE DEF new
  <2> QED BY <1>3, <1>4, <1>l, <2>a, <2>1
<1> HIDE DEF t, new
<1>8. ASSUME NEW i \in 1..n PROVE TokenBytes(new, list.tokens[i]) = TokenBytes(list, list.tokens[i])
  <2>1. list.tokens[i] \in Tokens /\ After(list.tokens[i]) <= m
    BY <1>1, <1>2, <1>l DEF Fine, Sound
  <2>2. PICK a, c : a = list.tokens[i].offset /\ c = list.tokens[i].len
    OBVIOUS
  <2>3. a \in Nat /\ c \in Nat /\ a + c + 1 <= m
    BY <2>1, <2>2 DEF Tokens, After
  <2>4. SubSeq(new.buf, a + 1, a + c) = SubSeq(list.buf, a + 1, a + c)
    <3>1. \A j \in (a + 1)..(a + c) : j \in 1..m /\ new.buf[j] = list.buf[j]
      BY <1>2, <1>7, <2>3
    <3>2. a + 1 \in Nat /\ a + c \in Nat
      BY <2>3
    <3> QED BY <1>1, <1>2, <1>7, <1>l, <2>3, <3>1, <3>2, SamePart
  <2> QED BY <2>2, <2>4 DEF TokenBytes
<1>9. TokenBytes(new, t) = body
  <2>1. TokenBytes(new, t) = SubSeq(new.buf, m + 1, m + k)
    BY <1>5 DEF TokenBytes
  <2>2. \A i \in 1..k : new.buf[m + i] = body[i]
    BY <1>2, <1>3, <1>7
  <2>3. body \in Seq(Byte)
    BY DEF Byte
  <2>4. PICK buf : buf = new.buf
    OBVIOUS
  <2>5. buf \in Seq(Byte) /\ Len(buf) = m + (k + 1) /\ \A i \in 1..k : buf[m + i] = body[i]
    BY <1>7, <2>2, <2>4
  <2>c. Len(body) = k
    BY <1>l
  <2>6. SubSeq(buf, m + 1, m + k) = body
    BY <1>2, <2>3, <2>5, <2>c, EndPart
  <2> QED BY <2>1, <2>4, <2>6
<1>10. \A i \in 1..n : Shown(p, new, new.tokens[i]) = Shown(p, list, list.tokens[i])
  BY <1>6, <1>8 DEF Shown
<1>11. Shown(p, new, new.tokens[n + 1]) = [word |-> body, pos |-> (list.pos + 1) - p.list.pos]
  BY <1>5, <1>6, <1>9 DEF Shown
<1>12. NewOnes(p, list) = (o + 1)..n /\ NewOnes(p, new) = (o + 1)..(n + 1)
  BY <1>6, <1>l DEF NewOnes
<1>13. /\ \A i \in (o + 1)..(n + 1) : i \in (o + 1)..n \/ i = n + 1
       /\ \A i \in (o + 1)..n : i \in (o + 1)..(n + 1) /\ i \in 1..n
       /\ n + 1 \in (o + 1)..(n + 1)
  BY <1>2
<1>14. ShownAll(p, new) = ShownAll(p, list) \cup {[word |-> body, pos |-> (list.pos + 1) - p.list.pos]}
  <2> DEFINE x == [word |-> body, pos |-> (list.pos + 1) - p.list.pos]
  <2>1. x \in ShownAll(p, new)
    BY <1>11, <1>12, <1>13 DEF ShownAll
  <2>2. ASSUME NEW i \in (o + 1)..n PROVE Shown(p, list, list.tokens[i]) \in ShownAll(p, new)
    BY <1>10, <1>12, <1>13, <2>2 DEF ShownAll
  <2>3. ASSUME NEW i \in (o + 1)..(n + 1) PROVE Shown(p, new, new.tokens[i]) \in ShownAll(p, list) \cup {x}
    <3>1. CASE i = n + 1
      BY <1>11, <3>1
    <3>2. CASE i \in (o + 1)..n
      BY <1>10, <1>12, <1>13, <3>2 DEF ShownAll
    <3> QED BY <1>13, <3>1, <3>2
  <2> HIDE DEF x
  <2>4. \A y \in ShownAll(p, list) : y \in ShownAll(p, new)
    BY <1>12, <2>2 DEF ShownAll
  <2>5. \A y \in ShownAll(p, new) : y \in ShownAll(p, list) \cup {x}
    BY <1>12, <2>3 DEF ShownAll
  <2> QED BY <2>1, <2>4, <2>5 DEF x
<1> QED BY <1>4, <1>14 DEF new, bytes

\* The word of the next piece.
LEMMA WordTaken ==
  ASSUME NEW p, OfText(p), NEW list, Fine(p, list), NEW b \in 0..Len(p.text), Clear(p.text, b),
         NEW e \in Nat, <<b + 1, e>> \in Pieces(p.text), Yields(p, list, b),
         NEW w \in Seq(Char), w = PieceWord(p.text, <<b + 1, e>>)
  PROVE  /\ Clear(p.text, e) /\ e \in (b + 1)..Len(p.text)
         /\ Yields(p, IF w = << >> THEN list ELSE AddToken(list, Append(Bytes(w), NUL), p.meta), e)
<1> DEFINE q == <<b + 1, e>>
<1>0. p.text \in Seq(Char) /\ Before(p)
  BY DEF OfText
<1>1. /\ Clear(p.text, e) /\ e \in (b + 1)..Len(p.text)
      /\ Bumpers(p.text, e) = Bumpers(p.text, b)
      /\ q \notin WordsAt(p.text) => DoneWords(p.text, e) = DoneWords(p.text, b)
      /\ q \in WordsAt(p.text) =>
           /\ DoneWords(p.text, e) = DoneWords(p.text, b) \cup {q}
           /\ Cardinality(DoneWords(p.text, e)) = Cardinality(DoneWords(p.text, b)) + 1
           /\ PositionOf(p.text, q) =
                Cardinality(DoneWords(p.text, b)) + 1 + Cardinality(Bumpers(p.text, b))
  BY <1>0, PieceNext
<1>2. q \in WordsAt(p.text) <=> w # << >>
  BY DEF WordsAt
<1>3. CASE w = << >>
  <2>1. Yields(p, list, e)
    BY <1>1, <1>2, <1>3 DEF Yields
  <2> QED BY <1>1, <1>3, <2>1
<1>4. CASE w # << >>
  <2>1. PICK body : body = Bytes(w)
    OBVIOUS
  <2>2. body \in Seq(Char \cup {Cont})
    BY <2>1, BytesType DEF BytesSoFar
  <2>3. PICK new : new = AddToken(list, Append(body, NUL), p.meta)
    OBVIOUS
  <2>4. /\ ShownAll(p, new) =
             ShownAll(p, list) \cup {[word |-> body, pos |-> (list.pos + 1) - p.list.pos]}
        /\ new.pos = list.pos + 1
    BY <1>0, <2>2, <2>3, TokenAdded
  <2>5. PICK c, d, o : /\ c = Cardinality(DoneWords(p.text, b)) /\ d = Cardinality(Bumpers(p.text, b))
                       /\ o = p.list.pos
    OBVIOUS
  <2>6. c \in Nat /\ d \in Nat /\ o \in Nat
    <3>1. c \in Nat /\ d \in Nat
      <4>1. b \in Nat
        OBVIOUS
      <4> QED BY <1>0, <2>5, <4>1, WordFacts
    <3>2. o \in Nat
      BY <1>0, <2>5 DEF Before, Sound, Lists
    <3> QED BY <3>1, <3>2
  <2>7. list.pos = o + (c + d)
    BY <2>5 DEF Yields
  <2>8. (list.pos + 1) - o = c + 1 + d /\ list.pos + 1 = o + ((c + 1) + d)
    BY <2>6, <2>7
  <2>9. [word |-> body, pos |-> (list.pos + 1) - p.list.pos] = WordWanted(p.text, q)
    BY <1>1, <1>2, <1>4, <2>1, <2>5, <2>8 DEF WordWanted
  <2>10. {WordWanted(p.text, r) : r \in DoneWords(p.text, e)}
           = {WordWanted(p.text, r) : r \in DoneWords(p.text, b)} \cup {WordWanted(p.text, q)}
    <3>1. DoneWords(p.text, e) = DoneWords(p.text, b) \cup {q}
      BY <1>1, <1>2, <1>4
    <3> HIDE DEF q
    <3> QED BY <3>1
  <2>11. ShownAll(p, new) = {WordWanted(p.text, r) : r \in DoneWords(p.text, e)}
    BY <2>4, <2>9, <2>10 DEF Yields
  <2>12. new.pos = p.list.pos + (Cardinality(DoneWords(p.text, e)) + Cardinality(Bumpers(p.text, e)))
    BY <1>1, <1>2, <1>4, <2>4, <2>5, <2>8
  <2>13. Yields(p, new, e)
    BY <2>11, <2>12 DEF Yields
  <2> QED BY <1>1, <1>4, <2>1, <2>3, <2>13
<1> QED BY <1>3, <1>4

\* A break, and the bumper's position.
LEMMA BreakTaken ==
  ASSUME NEW p, OfText(p), NEW list, Fine(p, list), NEW n \in 1..Len(p.text), ~InWord(p.text[n]),
         Clear(p.text, n - 1), Yields(p, list, n - 1)
  PROVE  /\ Clear(p.text, n)
         /\ Yields(p, IF p.text[n] = BUMP THEN [list EXCEPT !.pos = @ + 1] ELSE list, n)
<1>0. p.text \in Seq(Char) /\ Before(p) /\ n - 1 \in Nat
  BY DEF OfText
<1>1. /\ Clear(p.text, n) /\ DoneWords(p.text, n) = DoneWords(p.text, n - 1)
      /\ Cardinality(Bumpers(p.text, n)) =
           Cardinality(Bumpers(p.text, n - 1)) + (IF p.text[n] = BUMP THEN 1 ELSE 0)
  BY <1>0, BreakNext
<1>2. PICK c, d, o : /\ c = Cardinality(DoneWords(p.text, n - 1))
                     /\ d = Cardinality(Bumpers(p.text, n - 1)) /\ o = p.list.pos
  OBVIOUS
<1>3. c \in Nat /\ d \in Nat /\ o \in Nat
  <2>1. c \in Nat /\ d \in Nat
    BY <1>0, <1>2, WordFacts
  <2>2. o \in Nat
    BY <1>0, <1>2 DEF Before, Sound, Lists
  <2> QED BY <2>1, <2>2
<1>4. list.pos = o + (c + d)
  BY <1>2 DEF Yields
<1>5. CASE p.text[n] # BUMP
  BY <1>1, <1>2, <1>3, <1>5 DEF Yields
<1>6. CASE p.text[n] = BUMP
  <2>1. PICK new : new = [list EXCEPT !.pos = @ + 1]
    OBVIOUS
  <2>2. new.tokens = list.tokens /\ new.buf = list.buf /\ new.pos = list.pos + 1
    BY <2>1 DEF Fine, Sound, Lists
  <2>3. ShownAll(p, new) = ShownAll(p, list)
    BY <2>2 DEF ShownAll, NewOnes, Shown, TokenBytes
  <2>4. list.pos + 1 = o + (c + (d + 1))
    BY <1>3, <1>4
  <2>5. Yields(p, new, n)
    BY <1>1, <1>2, <1>6, <2>2, <2>3, <2>4 DEF Yields
  <2> QED BY <1>1, <1>6, <2>1, <2>5
<1> QED BY <1>5, <1>6

-----------------------------------------------------------------------------
(* How wide a word is, and what is left of it at its end.                  *)

\* What tolower makes of an ASCII letter is an ASCII letter.
AsciiStays == \A c \in DOMAIN LowerChar : c \notin Wide => LowerChar[c] \notin Wide

NarrowSoFar(s, n, bytes) ==
  (\A i \in 1..Len(s) : s[i] \notin Wide) => bytes \in Seq(Char) /\ Len(bytes) = n

NB == INSTANCE FoldProofs WITH Op <- Encoded, Inv <- NarrowSoFar

LEMMA BytesFoldedNarrow ==
  ASSUME NEW s PROVE Bytes(s) = NB!Folded(<< >>, s)
BY DEF Bytes, NB!Folded, FoldLeft, MapThenFoldSet, NB!FoldLeft, NB!MapThenFoldSet, Max, NB!Max

LEMMA NarrowWidth ==
  ASSUME NEW s \in Seq(Char), \A i \in 1..Len(s) : s[i] \notin Wide
  PROVE  Width(s) = Len(s)
<1>1. NarrowSoFar(s, 0, << >>)
  BY DEF NarrowSoFar
<1>2. ASSUME NEW i \in 1..Len(s), NEW b, NarrowSoFar(s, i - 1, b)
      PROVE  NarrowSoFar(s, i, Encoded(b, s[i]))
  <2>1. b \in Seq(Char) /\ Len(b) = i - 1 /\ s[i] \in Char /\ s[i] \notin Wide
    BY <1>2 DEF NarrowSoFar
  <2>2. <<s[i]>> \in Seq(Char) /\ Len(<<s[i]>>) = 1
    BY <2>1
  <2>3. b \o <<s[i]>> \in Seq(Char) /\ Len(b \o <<s[i]>>) = i
    BY <2>1, <2>2
  <2>4. Encoded(b, s[i]) = b \o <<s[i]>>
    BY <2>1 DEF Encoded
  <2> QED BY <2>3, <2>4 DEF NarrowSoFar
<1>3. DOMAIN s = 1..Len(s) /\ Len(s) \in Nat
  OBVIOUS
<1>4. NarrowSoFar(s, Len(s), Bytes(s))
  <2> HIDE DEF NarrowSoFar, Encoded
  <2> QED BY <1>1, <1>2, <1>3, BytesFoldedNarrow, NB!FoldInduction
<1> QED BY <1>4 DEF NarrowSoFar, Width

LEMMA AsciiWidth ==
  ASSUME AsciiStays, NEW text \in Seq(Char), IsAscii(text),
         NEW s \in 1..Len(text), NEW e \in s..Len(text)
  PROVE  Width(Lowered(text, <<s, e>>)) = (e - s) + 1
<1> DEFINE w == Lowered(text, <<s, e>>)
<1>1. /\ w \in Seq(Char) /\ Len(w) = (e - s) + 1
      /\ \A i \in 1..((e - s) + 1) : w[i] = Low(text[s + i - 1])
  BY LoweredType
<1>2. ASSUME NEW i \in 1..((e - s) + 1) PROVE w[i] \notin Wide
  <2>1. s + i - 1 \in 1..Len(text)
    OBVIOUS
  <2>2. text[s + i - 1] \in Char /\ text[s + i - 1] \notin Wide
    BY <2>1 DEF IsAscii
  <2>3. Low(text[s + i - 1]) \notin Wide
    BY <2>2 DEF AsciiStays, Low
  <2> HIDE DEF w
  <2> QED BY <1>1, <2>3
<1> HIDE DEF w
<1>3. Width(w) = Len(w)
  BY <1>1, <1>2, NarrowWidth
<1> QED BY <1>1, <1>3 DEF w

LEMMA NoBytes ==
  ASSUME NEW w \in Seq(Char)
  PROVE  /\ Bytes(w) \in Seq(Char \cup {Cont}) /\ (Bytes(w) = << >> <=> w = << >>)
         /\ w # << >> => Bytes(w)[1] = w[1]
<1>1. BytesSoFar(w, Len(w), Bytes(w))
  BY BytesType
<1>2. Len(w) \in Nat /\ (Len(w) = 0 <=> w = << >>)
  OBVIOUS
<1>3. CASE w = << >>
  <2>1. Len(w) = 0
    BY <1>3
  <2> QED BY <1>1, <1>3, <2>1 DEF BytesSoFar
<1>4. CASE w # << >>
  <2>1. Bytes(w) \in Seq(Char \cup {Cont}) /\ Len(Bytes(w)) >= 1 /\ Bytes(w)[1] = w[1]
    BY <1>1, <1>2, <1>4 DEF BytesSoFar
  <2> QED BY <1>4, <2>1
<1> QED BY <1>3, <1>4

\* A word that begins with no mark is stripped at its end only.
LEMMA SameStripped ==
  ASSUME NEW word \in Seq(Char), word # << >>, word[1] \notin Marks
  PROVE  WithoutEnd(word) = Stripped(word) /\ Stripped(word) # << >>
<1>1. 1 \in Kept(word) /\ Kept(word) \in SUBSET (1..Len(word)) /\ Len(word) \in Nat
  BY DEF Kept
<1>2. Least(Kept(word)) \in Kept(word) /\ Most(Kept(word)) \in Kept(word)
  <2>1. \A n \in Nat : \A S \in SUBSET (1..n) : S # {} => Least(S) \in S /\ Most(S) \in S
    BY ExtremesOfNonEmpty
  <2> QED BY <1>1, <2>1
<1>3. Least(Kept(word)) = 1
  <2> DEFINE K == Kept(word)
  <2>1. \E i \in K : \A j \in K : i <= j
    <3>1. \A j \in K : 1 <= j
      BY <1>1
    <3> QED BY <1>1, <3>1
  <2> HIDE DEF K
  <2>2. \A j \in K : Least(K) <= j
    BY <2>1 DEF Least
  <2>3. Least(Kept(word)) <= 1 /\ Least(Kept(word)) \in 1..Len(word)
    BY <1>1, <1>2, <2>2 DEF K
  <2> QED BY <2>3
<1>4. WithoutEnd(word) = Stripped(word) /\ Stripped(word) = SubSeq(word, 1, Most(Kept(word)))
  BY <1>1, <1>3 DEF WithoutEnd, Stripped
<1>5. PICK b : b = Most(Kept(word))
  OBVIOUS
<1>6. b \in 1..Len(word) /\ 1 \in 1..Len(word)
  BY <1>1, <1>2, <1>5
<1>7. SubSeq(word, 1, b) \in Seq(Char) /\ Len(SubSeq(word, 1, b)) = IF 1 <= b THEN (b - 1) + 1 ELSE 0
  BY <1>6, PartOfSeq
<1>8. SubSeq(word, 1, b) # << >>
  BY <1>6, <1>7
<1> QED BY <1>4, <1>5, <1>8

\* The end of a word: what is stripped and added, when a word may be short.
LEMMA EndedWord ==
  ASSUME MinWordLen = 1, NEW list, NEW word \in Seq(Char), NEW meta, NEW ascii \in BOOLEAN,
         ascii \/ (word # << >> /\ word[1] \notin Marks)
  PROVE  EndWord(list, word, meta, ascii) =
           IF Stripped(word) = << >> THEN list
           ELSE AddToken(list, Append(Bytes(Stripped(word)), NUL), meta)
<1>1. PICK w : w = Stripped(word)
  OBVIOUS
<1>2. w \in Seq(Char) /\ (IF ascii THEN Stripped(word) ELSE WithoutEnd(word)) = w
  BY <1>1, StrippedTypes, SameStripped
<1>3. PICK body, k : body = Bytes(w) /\ k = Len(body)
  OBVIOUS
<1>4. body \in Seq(Char \cup {Cont}) /\ (body = << >> <=> w = << >>) /\ k \in Nat
      /\ (w # << >> => body[1] = w[1])
  BY <1>2, <1>3, NoBytes
<1>5. PICK bytes : bytes = Append(body, NUL)
  OBVIOUS
<1>6. /\ Len(bytes) = k + 1 /\ SubSeq(bytes, 1, k) = body /\ SubSeq(bytes, 1, k + 1) = bytes
      /\ (bytes = <<NUL>> <=> body = << >>)
  <2>1. body \in Seq(Byte) /\ NUL \in Byte
    BY <1>4 DEF Byte
  <2>2. \A s \in Seq(Byte) : \A x \in Byte :
          /\ Append(s, x) \in Seq(Byte) /\ Len(Append(s, x)) = Len(s) + 1
          /\ SubSeq(Append(s, x), 1, Len(s)) = s
    OBVIOUS
  <2>3. \A s \in Seq(Byte) : SubSeq(s, 1, Len(s)) = s
    OBVIOUS
  <2>4. bytes \in Seq(Byte) /\ Len(bytes) = k + 1 /\ SubSeq(bytes, 1, k) = body
    BY <1>3, <1>5, <2>1, <2>2
  <2>5. SubSeq(bytes, 1, k + 1) = bytes
    BY <2>3, <2>4
  <2>6. bytes = <<NUL>> <=> body = << >>
    <3>1. ASSUME bytes = <<NUL>> PROVE body = << >>
      <4>1. Len(bytes) = 1
        BY <3>1
      <4>2. Len(body) = 0
        BY <1>3, <1>4, <2>4, <4>1
      <4> QED BY <1>4, <4>2
    <3>2. ASSUME body = << >> PROVE bytes = <<NUL>>
      BY <1>5, <3>2
    <3> QED BY <3>1, <3>2
  <2> QED BY <2>4, <2>5, <2>6
<1>7. ~ascii => Skipped(body) = 0
  <2>1. ~ascii => w # << >> /\ w[1] = word[1] /\ word[1] \notin Marks
    <3> SUFFICES ASSUME ~ascii PROVE w # << >> /\ w[1] = word[1] /\ word[1] \notin Marks
      OBVIOUS
    <3>1. WithoutEnd(word) = w /\ w # << >> /\ word[1] \notin Marks
      BY <1>1, SameStripped
    <3>2. WithoutEnd(word)[1] = word[1]
      BY <3>1, StrippedTypes
    <3> QED BY <3>1, <3>2
  <2> QED BY <1>4, <2>1, SkippedType
<1>8. Len(bytes) - 1 = k /\ Len(bytes) - 0 = k + 1 /\ ~(k + 1 < MinWordLen)
  <2>1. PICK l : l = Len(bytes)
    OBVIOUS
  <2>2. l - 1 = k /\ l - 0 = k + 1 /\ ~(k + 1 < MinWordLen)
    BY <1>4, <1>6, <2>1
  <2> QED BY <2>1, <2>2
<1>9. PICK skip : skip = IF ascii THEN 0 ELSE Skipped(SubSeq(bytes, 1, Len(bytes) - 1))
  OBVIOUS
<1>10. skip = 0
  <2>1. SubSeq(bytes, 1, Len(bytes) - 1) = body
    BY <1>6, <1>8
  <2> QED BY <1>7, <1>9, <2>1
<1>11. EndWord(list, word, meta, ascii) =
         IF bytes = <<NUL>> \/ Len(bytes) - skip < MinWordLen THEN list
         ELSE AddToken(list, SubSeq(bytes, 1, Len(bytes) - skip), meta)
  BY <1>2, <1>3, <1>5, <1>9 DEF EndWord
<1>12. EndWord(list, word, meta, ascii) =
         IF bytes = <<NUL>> THEN list ELSE AddToken(list, bytes, meta)
  <2>1. Len(bytes) - skip = k + 1
    BY <1>8, <1>10
  <2> QED BY <1>6, <1>8, <1>11, <2>1
<1> QED BY <1>1, <1>3, <1>4, <1>5, <1>6, <1>12

-----------------------------------------------------------------------------
(* The tokenizers, word by word, of a text that is Gentle.                 *)

\* The pieces that end at or before b have been taken.  If a word is being read,
\* it is as much of the next piece as has been met.
AtPiece(p, n, st, b) ==
  /\ Clear(p.text, b) /\ Yields(p, st.list, b)
  /\ IF st.inside
     THEN /\ b < n /\ n < Len(p.text) /\ n - b < MaxWordLen
          /\ st.word = Lowered(p.text, <<b + 1, n>>)
          /\ \E e \in n..Len(p.text) : <<b + 1, e>> \in Pieces(p.text)
     ELSE b = n

WordsSoFar(p, n, st) == TextSoFar(p, n, st) /\ \E b \in 0..n : AtPiece(p, n, st, b)

WS == INSTANCE FoldProofs WITH Op <- Stepped, Inv <- WordsSoFar

LEMMA TokenizeFoldedToo ==
  ASSUME NEW base, NEW seq PROVE Fold(Step, base, seq) = WS!Folded(base, seq)
BY DEF Fold, Stepped, WS!Folded, FoldLeft, MapThenFoldSet, WS!FoldLeft, WS!MapThenFoldSet, Max, WS!Max

OfWords(p) == OfText(p) /\ Gentle(p.text) /\ MinWordLen = 1 /\ AsciiStays

\* A word that has been read is what its piece says.
LEMMA WordOfPiece ==
  ASSUME NEW p, OfWords(p), NEW b \in Nat, NEW e \in Nat, b + 1 < Len(p.text), b + 1 <= e,
         e <= Len(p.text), <<b + 1, e>> \in Pieces(p.text),
         NEW list, NEW word \in Seq(Char), word = Lowered(p.text, <<b + 1, e>>)
  PROVE  /\ IsAscii(p.text) \/ (word # << >> /\ word[1] \notin Marks)
         /\ PieceWord(p.text, <<b + 1, e>>) = Stripped(word)
         /\ EndWord(list, word, p.meta, IsAscii(p.text)) =
              IF Stripped(word) = << >> THEN list
              ELSE AddToken(list, Append(Bytes(Stripped(word)), NUL), p.meta)
<1>0. p.text \in Seq(Char) /\ Gentle(p.text) /\ MinWordLen = 1 /\ IsAscii(p.text) \in BOOLEAN
  BY DEF OfWords, OfText, IsAscii
<1>1. b + 1 \in 1..Len(p.text) /\ e \in (b + 1)..Len(p.text)
  BY <1>0
<1>2. PieceWord(p.text, <<b + 1, e>>) = Stripped(word)
  BY <1>1 DEF PieceWord
<1>3. IsAscii(p.text) \/ (word # << >> /\ word[1] \notin Marks)
  <2> SUFFICES ASSUME ~IsAscii(p.text) PROVE word # << >> /\ word[1] \notin Marks
    OBVIOUS
  <2>1. p.text[b + 1] \notin Marks
    BY <1>0, PieceGentle
  <2>2. p.text[b + 1] \in Char
    BY <1>0, <1>1
  <2>3. Len(word) = (e - (b + 1)) + 1
        /\ \A i \in 1..((e - (b + 1)) + 1) : word[i] = Low(p.text[b + 1 + i - 1])
    BY <1>0, <1>1, LoweredType
  <2>4. 1 \in 1..((e - (b + 1)) + 1) /\ b + 1 + 1 - 1 = b + 1 /\ Len(word) >= 1
    BY <1>1, <2>3
  <2>5. word[1] = Low(p.text[b + 1])
    BY <2>3, <2>4
  <2> QED BY <2>1, <2>2, <2>4, <2>5, LowIsLike
<1> QED BY <1>0, <1>2, <1>3, EndedWord

\* A piece that goes on to where a character of a word follows goes on further, if
\* it is not full.
LEMMA PieceGoesOn ==
  ASSUME NEW text \in Seq(Char), NEW n \in 1..Len(text), NEW b \in 0..(n - 1),
         NEW e \in (n - 1)..Len(text), b < n - 1, (n - 1) - b < MaxWordLen,
         <<b + 1, e>> \in Pieces(text), InWord(text[n])
  PROVE  e \in n..Len(text)
<1> DEFINE q == <<b + 1, e>>
<1>1. q[1] = b + 1 /\ q[2] = e
  OBVIOUS
<1>2. (q[2] - q[1]) + 1 = MaxWordLen \/ q[2] = Len(text) \/ ~InWord(text[q[2] + 1])
  BY PieceFacts
<1>3. (e - (b + 1)) + 1 = MaxWordLen \/ e = Len(text) \/ ~InWord(text[e + 1])
  BY <1>1, <1>2
<1>4. ASSUME e = n - 1 PROVE FALSE
  <2>1. e + 1 = n /\ e # Len(text)
    BY <1>4
  <2>2. (e - (b + 1)) + 1 = MaxWordLen
    BY <1>3, <2>1
  <2>3. MaxWordLen \in Nat
    BY CharAssumption
  <2> QED BY <1>4, <2>2, <2>3
<1> QED BY <1>4

\* The width of a piece that is being read.
LEMMA PieceFits ==
  ASSUME NEW p, OfWords(p), NEW b \in Nat, NEW e \in Nat, NEW n \in Nat,
         b + 1 <= n, n <= e, e <= Len(p.text), <<b + 1, e>> \in Pieces(p.text),
         NEW word \in Seq(Char), word = Lowered(p.text, <<b + 1, n>>)
  PROVE  /\ Width(word) \in Nat /\ Width(word) <= MaxWordLen /\ n - b <= Width(word)
         /\ Width(word) = MaxWordLen => e = n
<1>0. p.text \in Seq(Char) /\ Gentle(p.text) /\ AsciiStays /\ MaxWordLen \in Nat
  BY CharAssumption DEF OfWords, OfText
<1>1. b + 1 \in 1..Len(p.text) /\ n \in (b + 1)..Len(p.text) /\ e \in (b + 1)..Len(p.text)
  BY <1>0
<1>2. Len(word) = (n - (b + 1)) + 1 /\ \A i \in 1..((n - (b + 1)) + 1) : word[i] = Low(p.text[b + 1 + i - 1])
  BY <1>0, <1>1, LoweredType
<1>3. Width(word) \in Nat /\ n - b <= Width(word)
  <2>1. BytesSoFar(word, Len(word), Bytes(word))
    BY BytesType
  <2>2. Width(word) \in Nat /\ Len(word) <= Width(word)
    BY <2>1 DEF BytesSoFar, Width
  <2> QED BY <1>1, <1>2, <2>2
<1>4. e - (b + 1) < MaxWordLen
  <2> DEFINE q == <<b + 1, e>>
  <2>1. q[2] - q[1] < MaxWordLen
    BY <1>0, PieceFacts
  <2> QED BY <2>1
<1>5. CASE IsAscii(p.text)
  <2>1. Width(word) = (n - (b + 1)) + 1
    BY <1>0, <1>1, <1>5, AsciiWidth
  <2> QED BY <1>0, <1>1, <1>3, <1>4, <2>1
<1>6. CASE ~IsAscii(p.text)
  <2>1. PICK v : v = Lowered(p.text, <<b + 1, e>>)
    OBVIOUS
  <2>2. Width(v) <= MaxWordLen
    BY <1>0, <1>6, <2>1, PieceGentle
  <2>3. /\ v \in Seq(Char) /\ Len(v) = (e - (b + 1)) + 1
        /\ \A i \in 1..((e - (b + 1)) + 1) : v[i] = Low(p.text[b + 1 + i - 1])
    BY <1>0, <1>1, <2>1, LoweredType
  <2>4. PICK k : k = (n - (b + 1)) + 1
    OBVIOUS
  <2>5. k \in 0..Len(v) /\ Len(word) = k
    BY <1>1, <1>2, <2>3, <2>4
  <2>6. \A i \in 1..k : word[i] = v[i]
    <3>1. \A i \in 1..k : i \in 1..((e - (b + 1)) + 1)
      BY <1>1, <2>4
    <3> QED BY <1>2, <2>3, <2>4, <3>1
  <2>7. Width(v) \in Nat /\ Width(word) + (Len(v) - k) <= Width(v)
    BY <2>3, <2>5, <2>6, WidthOfPrefix
  <2>8. Len(v) - k = e - n
    BY <1>1, <2>3, <2>4
  <2>9. Width(word) + (e - n) <= MaxWordLen
    BY <1>0, <1>1, <1>3, <2>2, <2>7, <2>8
  <2> QED BY <1>0, <1>1, <1>3, <2>9
<1> QED BY <1>5, <1>6

LEMMA LowOfBreak ==
  ASSUME NEW c \in Char, ~InWord(c) PROVE Low(c) = c
BY CharAssumption DEF Low, InWord

LEMMA BreakTakes ==
  ASSUME NEW p, OfWords(p), NEW n \in 1..Len(p.text), NEW st, WordsSoFar(p, n - 1, st),
         ~InWord(p.text[n])
  PROVE  WordsSoFar(p, n, AtBreak(st, Low(p.text[n]), p.meta, IsAscii(p.text)))
<1> DEFINE c     == Low(p.text[n])
           ascii == IsAscii(p.text)
           list  == IF st.inside THEN EndWord(st.list, st.word, p.meta, ascii) ELSE st.list
           bumped == IF p.text[n] = BUMP THEN [list EXCEPT !.pos = @ + 1] ELSE list
           new   == AtBreak(st, c, p.meta, ascii)
<1>0. /\ p.text \in Seq(Char) /\ OfText(p) /\ Before(p) /\ p.text[n] \in Char /\ n \in Nat
      /\ ascii \in BOOLEAN /\ Len(p.text) \in Nat
  BY DEF OfWords, OfText, IsAscii
<1>1. TextSoFar(p, n - 1, st) /\ Fine(p, st.list) /\ st.word \in Seq(Char) /\ st.inside \in BOOLEAN
  BY DEF WordsSoFar, TextSoFar
<1>2. TextSoFar(p, n, new)
  <2> HIDE DEF c
  <2> QED BY <1>0, <1>1, BreakStep
<1>3. c = p.text[n]
  BY <1>0, LowOfBreak
<1>4. PICK b \in 0..(n - 1) : AtPiece(p, n - 1, st, b)
  BY DEF WordsSoFar
<1>5. Clear(p.text, b) /\ Yields(p, st.list, b)
  BY <1>4 DEF AtPiece
<1>6. Fine(p, list) /\ Clear(p.text, n - 1) /\ Yields(p, list, n - 1)
  <2>1. CASE ~st.inside
    <3>1. b = n - 1
      BY <1>4, <2>1 DEF AtPiece
    <3> QED BY <1>1, <1>5, <2>1, <3>1
  <2>2. CASE st.inside
    <3>1. /\ b < n - 1 /\ (n - 1) - b < MaxWordLen
          /\ st.word = Lowered(p.text, <<b + 1, n - 1>>)
      BY <1>4, <2>2 DEF AtPiece
    <3>2. PICK e \in (n - 1)..Len(p.text) : <<b + 1, e>> \in Pieces(p.text)
      BY <1>4, <2>2 DEF AtPiece
    <3>3. e = n - 1
      <4> DEFINE q == <<b + 1, e>>
      <4>1. \A i \in q[1]..q[2] : InWord(p.text[i])
        BY <1>0, <3>2, PieceFacts
      <4>2. ~(n \in (b + 1)..e)
        BY <4>1
      <4> QED BY <1>0, <3>1, <3>2, <4>2
    <3>4. <<b + 1, n - 1>> \in Pieces(p.text)
      BY <3>2, <3>3
    <3>5. b \in Nat /\ n - 1 \in Nat /\ b + 1 < Len(p.text) /\ b + 1 <= n - 1 /\ n - 1 <= Len(p.text)
      BY <1>0, <3>1
    <3>6. PICK m : m = n - 1
      OBVIOUS
    <3>7. /\ ascii \/ (st.word # << >> /\ st.word[1] \notin Marks)
          /\ PieceWord(p.text, <<b + 1, m>>) = Stripped(st.word)
          /\ EndWord(st.list, st.word, p.meta, ascii) =
               IF Stripped(st.word) = << >> THEN st.list
               ELSE AddToken(st.list, Append(Bytes(Stripped(st.word)), NUL), p.meta)
      <4>1. m \in Nat /\ b + 1 <= m /\ m <= Len(p.text) /\ <<b + 1, m>> \in Pieces(p.text)
            /\ st.word = Lowered(p.text, <<b + 1, m>>)
        BY <3>1, <3>4, <3>5, <3>6
      <4>2. PICK v, l : v = st.word /\ l = st.list
        OBVIOUS
      <4>3. v \in Seq(Char) /\ v = Lowered(p.text, <<b + 1, m>>)
        BY <1>1, <4>1, <4>2
      <4>4. /\ IsAscii(p.text) \/ (v # << >> /\ v[1] \notin Marks)
            /\ PieceWord(p.text, <<b + 1, m>>) = Stripped(v)
            /\ EndWord(l, v, p.meta, IsAscii(p.text)) =
                 IF Stripped(v) = << >> THEN l
                 ELSE AddToken(l, Append(Bytes(Stripped(v)), NUL), p.meta)
        BY <3>5, <4>1, <4>3, WordOfPiece
      <4> QED BY <4>2, <4>4
    <3>8. Fine(p, EndWord(st.list, st.word, p.meta, ascii))
      <4> HIDE DEF ascii
      <4> QED BY <1>0, <1>1, <3>7, FineEnd
    <3>9. b \in 0..Len(p.text) /\ Stripped(st.word) \in Seq(Char)
      BY <1>0, <1>1, <3>5, StrippedTypes
    <3>10. PICK w : w = Stripped(st.word)
      OBVIOUS
    <3>11. /\ Clear(p.text, m)
           /\ Yields(p, IF w = << >> THEN st.list
                        ELSE AddToken(st.list, Append(Bytes(w), NUL), p.meta), m)
      BY <1>0, <1>1, <1>5, <3>4, <3>5, <3>6, <3>7, <3>9, <3>10, WordTaken
    <3> QED BY <2>2, <3>6, <3>7, <3>8, <3>10, <3>11
  <2> QED BY <1>1, <2>1, <2>2
<1>7. Clear(p.text, n) /\ Yields(p, bumped, n)
  <2> HIDE DEF list
  <2> QED BY <1>0, <1>6, BreakTaken
<1>8. new = [list |-> bumped, word |-> << >>, inside |-> FALSE]
  BY <1>3 DEF AtBreak
<1> HIDE DEF new, bumped
<1>9. AtPiece(p, n, new, n) /\ n \in 0..n
  BY <1>0, <1>7, <1>8 DEF AtPiece
<1>10. WordsSoFar(p, n, new)
  BY <1>2, <1>9 DEF WordsSoFar
<1> QED BY <1>10 DEF new

\* The piece at a character that a word begins with.
LEMMA PieceStarts ==
  ASSUME NEW text \in Seq(Char), NEW n \in 1..Len(text), InWord(text[n]), Clear(text, n - 1)
  PROVE  \E e \in n..Len(text) : <<n, e>> \in Pieces(text)
<1>1. PICK q \in Pieces(text) : Holds(q, n)
  BY PieceAt
<1>2. q = <<q[1], q[2]>> /\ q[1] \in 1..Len(text) /\ q[2] \in q[1]..Len(text)
  BY PieceFacts
<1>3. q[1] <= n /\ n <= q[2]
  BY <1>1 DEF Holds
<1>4. ~(q[1] <= n - 1 /\ n - 1 < q[2])
  BY <1>1 DEF Clear
<1>5. q[1] = n /\ q[2] \in n..Len(text)
  BY <1>2, <1>3, <1>4
<1> QED BY <1>1, <1>2, <1>5

LEMMA LoweredOne ==
  ASSUME NEW text \in Seq(Char), NEW n \in 1..Len(text)
  PROVE  Lowered(text, <<n, n>>) = <<Low(text[n])>> /\ <<Low(text[n])>> \in Seq(Char)
<1>1. PICK c, w : c = Low(text[n]) /\ w = Lowered(text, <<n, n>>)
  OBVIOUS
<1>2. text[n] \in Char /\ n \in n..Len(text)
  OBVIOUS
<1>3. w \in Seq(Char) /\ Len(w) = (n - n) + 1 /\ \A i \in 1..((n - n) + 1) : w[i] = Low(text[n + i - 1])
  BY <1>1, <1>2, LoweredType
<1>4. (n - n) + 1 = 1 /\ n + 1 - 1 = n
  OBVIOUS
<1>5. Len(w) = 1 /\ w[1] = c
  BY <1>1, <1>3, <1>4
<1>6. w = <<c>>
  BY <1>3, <1>5
<1>7. c \in Char
  BY <1>1, <1>2, LowIsLike
<1> QED BY <1>1, <1>6, <1>7

LEMMA StartTakes ==
  ASSUME NEW p, OfWords(p), NEW n \in 1..Len(p.text), NEW st, WordsSoFar(p, n - 1, st),
         InWord(p.text[n]), ~st.inside
  PROVE  WordsSoFar(p, n, AtStart(st, Low(p.text[n]), n = Len(p.text), p.meta))
<1> DEFINE c    == Low(p.text[n])
           last == n = Len(p.text)
           new  == AtStart(st, c, last, p.meta)
<1>0. /\ p.text \in Seq(Char) /\ OfText(p) /\ n \in Nat /\ Len(p.text) \in Nat /\ MinWordLen = 1
      /\ MaxWordLen \in Nat /\ MaxWordLen >= 2
  BY CharAssumption DEF OfWords, OfText
<1>1. TextSoFar(p, n - 1, st) /\ Fine(p, st.list)
      /\ st = [list |-> st.list, word |-> st.word, inside |-> st.inside]
  BY DEF WordsSoFar, TextSoFar
<1>2. TextSoFar(p, n, new)
  BY <1>0, <1>1, StartStep
<1>3. Clear(p.text, n - 1) /\ Yields(p, st.list, n - 1)
  <2>1. PICK b \in 0..(n - 1) : AtPiece(p, n - 1, st, b)
    BY DEF WordsSoFar
  <2>2. b = n - 1
    BY <2>1 DEF AtPiece
  <2> QED BY <2>1, <2>2 DEF AtPiece
<1>4. PICK e \in n..Len(p.text) : <<n, e>> \in Pieces(p.text)
  BY <1>0, <1>3, PieceStarts
<1>5. Lowered(p.text, <<n, n>>) = <<c>> /\ <<c>> \in Seq(Char)
  BY <1>0, LoweredOne
<1>6. (n - 1) + 1 = n /\ n - 1 \in 0..n /\ n - 1 \in 0..Len(p.text) /\ n - (n - 1) = 1 /\ n - 1 < n
  BY <1>0
<1> HIDE DEF c
<1>7. CASE last
  <2>1. e = n
    BY <1>0, <1>7
  <2>2. PieceWord(p.text, <<n, n>>) = <<c>>
    <3>1. <<n, n>>[1] = Len(p.text)
      BY <1>7
    <3> QED BY <1>0, <1>5, <3>1 DEF PieceWord
  <2>3. PICK w, b : w = <<c>> /\ b = n - 1
    OBVIOUS
  <2>4. /\ w \in Seq(Char) /\ b \in 0..Len(p.text) /\ b + 1 = n /\ w # << >>
        /\ Clear(p.text, b) /\ Yields(p, st.list, b) /\ <<b + 1, n>> \in Pieces(p.text)
        /\ w = PieceWord(p.text, <<b + 1, n>>)
    BY <1>3, <1>4, <1>5, <1>6, <2>1, <2>2, <2>3
  <2>5. /\ Clear(p.text, n)
        /\ Yields(p, IF w = << >> THEN st.list
                     ELSE AddToken(st.list, Append(Bytes(w), NUL), p.meta), n)
    BY <1>0, <1>1, <2>4, WordTaken
  <2>6. new = [list |-> AddToken(st.list, Append(Bytes(w), NUL), p.meta), word |-> << >>,
               inside |-> FALSE]
    BY <1>0, <1>7, <2>3 DEF AtStart
  <2> HIDE DEF new
  <2>7. AtPiece(p, n, new, n) /\ n \in 0..n
    BY <1>0, <2>4, <2>5, <2>6 DEF AtPiece
  <2>8. WordsSoFar(p, n, new)
    BY <1>2, <2>7 DEF WordsSoFar
  <2> QED BY <2>8 DEF new, c
<1>8. CASE ~last
  <2>1. new = [st EXCEPT !.word = <<c>>, !.inside = TRUE]
    BY <1>8 DEF AtStart
  <2>2. new = [list |-> st.list, word |-> <<c>>, inside |-> TRUE]
    <3> HIDE DEF new
    <3> QED BY <1>1, <2>1
  <2> HIDE DEF new
  <2>3. PICK b : b = n - 1
    OBVIOUS
  <2>4. /\ Clear(p.text, b) /\ Yields(p, new.list, b) /\ new.inside
        /\ b < n /\ n < Len(p.text) /\ n - b < MaxWordLen
        /\ new.word = Lowered(p.text, <<b + 1, n>>)
        /\ <<b + 1, e>> \in Pieces(p.text) /\ b \in 0..n
    <3>1. n < Len(p.text)
      BY <1>0, <1>8
    <3>2. n - b = 1 /\ 1 < MaxWordLen /\ b + 1 = n
      BY <1>0, <1>6, <2>3
    <3>3. <<b + 1, e>> \in Pieces(p.text) /\ Lowered(p.text, <<b + 1, n>>) = <<c>>
      BY <1>4, <1>5, <3>2
    <3> QED BY <1>3, <1>6, <2>2, <2>3, <3>1, <3>2, <3>3
  <2>5. AtPiece(p, n, new, b)
    BY <1>4, <2>4 DEF AtPiece
  <2>6. WordsSoFar(p, n, new)
    BY <1>2, <2>4, <2>5 DEF WordsSoFar
  <2> QED BY <2>6 DEF new, c
<1> QED BY <1>7, <1>8

\* The word with one more character.
LEMMA LoweredMore ==
  ASSUME NEW text \in Seq(Char), NEW s \in 1..Len(text), NEW n \in 1..Len(text), s <= n - 1
  PROVE  Lowered(text, <<s, n>>) = Append(Lowered(text, <<s, n - 1>>), Low(text[n]))
<1>1. PICK m, c, u, v : m = n - 1 /\ c = Low(text[n]) /\ u = Lowered(text, <<s, m>>)
                        /\ v = Lowered(text, <<s, n>>)
  OBVIOUS
<1>2. n \in s..Len(text) /\ m \in s..Len(text)
  BY <1>1
<1>3. /\ v \in Seq(Char) /\ Len(v) = (n - s) + 1
      /\ \A i \in 1..((n - s) + 1) : v[i] = Low(text[s + i - 1])
  BY <1>1, <1>2, LoweredType
<1>4. /\ u \in Seq(Char) /\ Len(u) = (m - s) + 1
      /\ \A i \in 1..((m - s) + 1) : u[i] = Low(text[s + i - 1])
  BY <1>1, <1>2, LoweredType
<1>5. PICK k : k = n - s
  OBVIOUS
<1>6. k \in Nat /\ (m - s) + 1 = k /\ (n - s) + 1 = k + 1 /\ s + (k + 1) - 1 = n
  BY <1>1, <1>2, <1>5
<1>7. c \in Char
  BY <1>1, LowIsLike
<1>8. /\ Append(u, c) \in Seq(Char) /\ Len(Append(u, c)) = k + 1 /\ Append(u, c)[k + 1] = c
      /\ \A i \in 1..k : Append(u, c)[i] = u[i]
  BY <1>4, <1>6, <1>7
<1>9. ASSUME NEW i \in 1..(k + 1) PROVE Append(u, c)[i] = v[i]
  <2>1. CASE i = k + 1
    <3>1. k + 1 \in 1..((n - s) + 1)
      BY <1>6
    <3>2. v[k + 1] = Low(text[s + (k + 1) - 1])
      BY <1>3, <3>1
    <3> QED BY <1>1, <1>6, <1>8, <2>1, <3>2
  <2>2. CASE i # k + 1
    <3>1. i \in 1..k
      BY <1>6, <2>2
    <3> QED BY <1>3, <1>4, <1>6, <1>8, <3>1
  <2> QED BY <2>1, <2>2
<1>10. v = Append(u, c)
  <2>1. PICK w : w = Append(u, c)
    OBVIOUS
  <2>2. w \in Seq(Char) /\ Len(w) = Len(v) /\ \A i \in 1..Len(w) : w[i] = v[i]
    BY <1>3, <1>6, <1>8, <1>9, <2>1
  <2>3. w = v
    BY <1>3, <2>2, SameSeq
  <2> QED BY <2>1, <2>3
<1> QED BY <1>1, <1>10

LEMMA InsideTakes ==
  ASSUME NEW p, OfWords(p), NEW n \in 1..Len(p.text), NEW st, WordsSoFar(p, n - 1, st),
         InWord(p.text[n]), st.inside
  PROVE  WordsSoFar(p, n, Inside(st, Low(p.text[n]), n = Len(p.text), p.meta, IsAscii(p.text)))
<1> DEFINE c     == Low(p.text[n])
           last  == n = Len(p.text)
           ascii == IsAscii(p.text)
           word  == Append(st.word, c)
           new   == Inside(st, c, last, p.meta, ascii)
<1>0. /\ p.text \in Seq(Char) /\ OfText(p) /\ p.text[n] \in Char /\ n \in Nat /\ Len(p.text) \in Nat
      /\ MinWordLen = 1 /\ MaxWordLen \in Nat /\ ascii \in BOOLEAN
  BY CharAssumption DEF OfWords, OfText, IsAscii
<1>1. /\ TextSoFar(p, n - 1, st) /\ Fine(p, st.list) /\ st.word \in Seq(Char)
      /\ st = [list |-> st.list, word |-> st.word, inside |-> st.inside]
  BY DEF WordsSoFar, TextSoFar
<1>2. TextSoFar(p, n, new)
  BY <1>0, <1>1, InsideStep
<1>3. PICK b \in 0..(n - 1) : AtPiece(p, n - 1, st, b)
  BY DEF WordsSoFar
<1>4. /\ Clear(p.text, b) /\ Yields(p, st.list, b) /\ b < n - 1 /\ (n - 1) - b < MaxWordLen
      /\ st.word = Lowered(p.text, <<b + 1, n - 1>>)
      /\ \E e \in (n - 1)..Len(p.text) : <<b + 1, e>> \in Pieces(p.text)
  BY <1>3 DEF AtPiece
<1>5. PICK e \in (n - 1)..Len(p.text) : <<b + 1, e>> \in Pieces(p.text)
  BY <1>4
<1>6. e \in n..Len(p.text)
  BY <1>0, <1>4, <1>5, PieceGoesOn
<1>7. b \in Nat /\ b + 1 \in 1..Len(p.text) /\ b + 1 <= n - 1 /\ b + 1 < Len(p.text) /\ b \in 0..n
      /\ e \in Nat /\ e <= Len(p.text) /\ n <= e /\ b + 1 <= n /\ b \in 0..Len(p.text)
  BY <1>0, <1>4, <1>6
<1>8. word = Lowered(p.text, <<b + 1, n>>) /\ word \in Seq(Char)
  <2>1. c \in Char
    BY <1>0, LowIsLike
  <2>2. Lowered(p.text, <<b + 1, n>>) = Append(Lowered(p.text, <<b + 1, n - 1>>), Low(p.text[n]))
    BY <1>0, <1>7, LoweredMore
  <2>3. word = Lowered(p.text, <<b + 1, n>>)
    BY <1>4, <2>2
  <2>4. word \in Seq(Char)
    <3> HIDE DEF c
    <3>1. \A s \in Seq(Char) : \A x \in Char : Append(s, x) \in Seq(Char)
      OBVIOUS
    <3> QED BY <1>1, <2>1, <3>1
  <2> QED BY <2>3, <2>4
<1>9. PICK w : w = word
  OBVIOUS
<1>10. w = Lowered(p.text, <<b + 1, n>>) /\ w \in Seq(Char)
  BY <1>8, <1>9
<1>11. /\ Width(w) \in Nat /\ Width(w) <= MaxWordLen /\ n - b <= Width(w)
       /\ Width(w) = MaxWordLen => e = n
  BY <1>0, <1>5, <1>7, <1>10, PieceFits
<1>12. ~(Width(w) > MaxWordLen)
  BY <1>0, <1>11
<1>13. new = IF Width(w) = MaxWordLen \/ last
             THEN [list |-> EndWord(st.list, w, p.meta, ascii), word |-> << >>, inside |-> FALSE]
             ELSE [st EXCEPT !.word = w]
  BY <1>9, <1>12 DEF Inside
<1> HIDE DEF new, word
<1>14. CASE Width(w) = MaxWordLen \/ last
  <2>1. e = n
    BY <1>0, <1>6, <1>11, <1>14
  <2>2. <<b + 1, n>> \in Pieces(p.text)
    BY <1>5, <2>1
  <2>3. PICK l : l = st.list
    OBVIOUS
  <2>4. /\ PieceWord(p.text, <<b + 1, n>>) = Stripped(w)
        /\ EndWord(l, w, p.meta, IsAscii(p.text)) =
             IF Stripped(w) = << >> THEN l
             ELSE AddToken(l, Append(Bytes(Stripped(w)), NUL), p.meta)
    <3>1. b \in Nat /\ n \in Nat /\ b + 1 < Len(p.text) /\ b + 1 <= n /\ n <= Len(p.text)
      BY <1>0, <1>7
    <3>2. PieceWord(p.text, <<b + 1, n>>) = Stripped(w)
      <4>1. b + 1 # Len(p.text) /\ <<b + 1, n>>[1] = b + 1
        BY <3>1
      <4> QED BY <1>10, <4>1 DEF PieceWord
    <3>3. EndWord(l, w, p.meta, IsAscii(p.text)) =
            IF Stripped(w) = << >> THEN l
            ELSE AddToken(l, Append(Bytes(Stripped(w)), NUL), p.meta)
      BY <1>10, <2>2, <3>1, WordOfPiece
    <3> QED BY <3>2, <3>3
  <2>5. PICK v : v = Stripped(w)
    OBVIOUS
  <2>6. v \in Seq(Char) /\ v = PieceWord(p.text, <<b + 1, n>>) /\ Fine(p, l) /\ Yields(p, l, b)
    BY <1>1, <1>4, <1>10, <2>3, <2>4, <2>5, StrippedTypes
  <2>7. /\ Clear(p.text, n)
        /\ Yields(p, IF v = << >> THEN l ELSE AddToken(l, Append(Bytes(v), NUL), p.meta), n)
    BY <1>0, <1>4, <1>7, <2>2, <2>6, WordTaken
  <2>8. new = [list |-> EndWord(l, w, p.meta, ascii), word |-> << >>, inside |-> FALSE]
    BY <1>13, <1>14, <2>3
  <2>9. new.list = (IF v = << >> THEN l ELSE AddToken(l, Append(Bytes(v), NUL), p.meta))
        /\ new.inside = FALSE
    BY <2>4, <2>5, <2>8
  <2>10. AtPiece(p, n, new, n) /\ n \in 0..n
    BY <1>0, <2>7, <2>9 DEF AtPiece
  <2>11. WordsSoFar(p, n, new)
    BY <1>2, <2>10 DEF WordsSoFar
  <2> QED BY <2>11 DEF new
<1>15. CASE ~(Width(w) = MaxWordLen \/ last)
  <2>1. new = [st EXCEPT !.word = w]
    BY <1>13, <1>15
  <2>2. new = [list |-> st.list, word |-> w, inside |-> st.inside]
    BY <1>1, <2>1
  <2>3. n < Len(p.text) /\ n - b < MaxWordLen /\ b < n
    BY <1>0, <1>7, <1>11, <1>15
  <2>4. /\ Clear(p.text, b) /\ Yields(p, new.list, b) /\ new.inside
        /\ new.word = Lowered(p.text, <<b + 1, n>>)
    BY <1>4, <1>10, <2>2
  <2>5. AtPiece(p, n, new, b)
    BY <1>5, <1>6, <2>3, <2>4 DEF AtPiece
  <2>6. WordsSoFar(p, n, new)
    BY <1>2, <1>7, <2>5 DEF WordsSoFar
  <2> QED BY <2>6 DEF new
<1> QED BY <1>14, <1>15

LEMMA WordsAtFirst ==
  ASSUME NEW p, OfText(p)
  PROVE  Clear(p.text, 0) /\ Yields(p, p.list, 0)
<1>0. p.text \in Seq(Char) /\ Before(p)
  BY DEF OfText
<1>1. \A q \in Pieces(p.text) : q[1] \in Nat /\ q[2] \in Nat /\ q[1] >= 1 /\ q[2] >= 1
  <2> TAKE q \in Pieces(p.text)
  <2>1. q[1] \in 1..Len(p.text) /\ q[2] \in q[1]..Len(p.text)
    BY <1>0, PieceFacts
  <2> QED BY <2>1
<1>2. Clear(p.text, 0)
  BY <1>1 DEF Clear
<1>3. DoneWords(p.text, 0) = {}
  BY <1>1 DEF DoneWords, WordsAt
<1>4. Bumpers(p.text, 0) = {}
  BY DEF Bumpers
<1>5. Len(p.list.tokens) \in Nat /\ p.list.pos \in Nat
  BY <1>0 DEF Before, Sound, Lists
<1>6. ShownAll(p, p.list) = {}
  <2>1. NewOnes(p, p.list) = {}
    <3>1. PICK n : n = Len(p.list.tokens)
      OBVIOUS
    <3>2. (n + 1)..n = {}
      BY <1>5, <3>1
    <3> QED BY <3>1, <3>2 DEF NewOnes
  <2> QED BY <2>1 DEF ShownAll
<1>7. Cardinality({}) = 0
  BY FS_EmptySet
<1>8. {WordWanted(p.text, q) : q \in DoneWords(p.text, 0)} = {}
  BY <1>3
<1>9. p.list.pos = p.list.pos + (0 + 0)
  BY <1>5
<1> QED BY <1>2, <1>3, <1>4, <1>6, <1>7, <1>8, <1>9 DEF Yields

\* What the tokenizers make of a text that is Gentle, whatever is in the list
\* already: the new tokens are the words of the text, stripped of marks and cut at
\* MaxWordLen, each at its place among the words and bumpers.  So it is when words of
\* one byte are kept, which is the default of the analyzer, and when tolower
\* leaves ASCII letters ASCII.  No word of such a text overruns chr[5] of
\* strip_utf8_chrs; of one whose NULs overrun the buffer of a word (BufferOverrun),
\* it is said what becomes of it where they do no harm.
THEOREM TokenizeWords ==
  ASSUME MinWordLen = 1, AsciiStays, NEW list, Sound(list), NEW text \in Seq(Char), Gentle(text),
         NEW meta \in Nat
  PROVE  {[word |-> TokenBytes(Tokenize(list, text, meta), Tokenize(list, text, meta).tokens[i]),
           pos  |-> Tokenize(list, text, meta).tokens[i].pos - list.pos] :
             i \in (Len(list.tokens) + 1)..Len(Tokenize(list, text, meta).tokens)}
           = Expected(text)
<1> DEFINE p    == [list |-> list, meta |-> meta, ended |-> FALSE, text |-> text]
           base == [list |-> list, word |-> << >>, inside |-> FALSE]
           seq  == Met(text, meta)
<1>1. OfWords(p)
  BY DEF OfText, Before, OfWords
<1>2. OfText(p) /\ Before(p)
  BY <1>1 DEF OfWords, OfText
<1>3. p.text = text /\ p.meta = meta /\ p.list = list /\ p.ended = FALSE
  OBVIOUS
<1>4. base.list = list /\ base.word = << >> /\ base.inside = FALSE
      /\ base = [list |-> base.list, word |-> base.word, inside |-> base.inside]
  OBVIOUS
<1>5. /\ DOMAIN seq = 1..Len(text) /\ Len(text) \in Nat
      /\ \A i \in 1..Len(text) :
           /\ seq[i].c = Low(text[i]) /\ seq[i].last = (i = Len(text)) /\ seq[i].meta = meta
           /\ seq[i].ascii = IsAscii(text)
  BY DEF Met
<1> HIDE DEF p, seq, base
<1>6. WordsSoFar(p, 0, base)
  <2>1. Fine(p, list)
    BY <1>2, <1>3, FineAtFirst
  <2>2. << >> \in Seq(Char)
    OBVIOUS
  <2>3. TextSoFar(p, 0, base)
    BY <1>3, <1>4, <2>1, <2>2 DEF TextSoFar, Placed
  <2>4. Clear(p.text, 0) /\ Yields(p, p.list, 0)
    BY <1>2, WordsAtFirst
  <2>5. AtPiece(p, 0, base, 0) /\ 0 \in 0..0
    BY <1>3, <1>4, <2>4 DEF AtPiece
  <2> QED BY <2>3, <2>5 DEF WordsSoFar
<1>7. ASSUME NEW i \in 1..Len(text), NEW st, WordsSoFar(p, i - 1, st)
      PROVE  WordsSoFar(p, i, Stepped(st, seq[i]))
  <2>1. i \in 1..Len(p.text) /\ text[i] \in Char
    BY <1>3
  <2>2. InWord(seq[i].c) <=> InWord(text[i])
    BY <1>5, <2>1, LowIsLike
  <2>3. CASE ~InWord(text[i])
    <3>1. Stepped(st, seq[i]) = AtBreak(st, Low(p.text[i]), p.meta, IsAscii(p.text))
      BY <1>3, <1>5, <2>2, <2>3, SteppedIsStep DEF Step
    <3> QED BY <1>1, <1>3, <1>7, <2>1, <2>3, <3>1, BreakTakes
  <2>4. CASE InWord(text[i]) /\ ~st.inside
    <3>1. Stepped(st, seq[i]) = AtStart(st, Low(p.text[i]), i = Len(p.text), p.meta)
      BY <1>3, <1>5, <2>2, <2>4, SteppedIsStep DEF Step
    <3> QED BY <1>1, <1>3, <1>7, <2>1, <2>4, <3>1, StartTakes
  <2>5. CASE InWord(text[i]) /\ st.inside
    <3>1. Stepped(st, seq[i]) = Inside(st, Low(p.text[i]), i = Len(p.text), p.meta, IsAscii(p.text))
      BY <1>3, <1>5, <2>2, <2>5, SteppedIsStep DEF Step
    <3> QED BY <1>1, <1>3, <1>7, <2>1, <2>5, <3>1, InsideTakes
  <2> QED BY <2>3, <2>4, <2>5
<1>8. WordsSoFar(p, Len(text), WS!Folded(base, seq))
  <2> HIDE DEF WordsSoFar, Stepped
  <2> QED BY <1>5, <1>6, <1>7, WS!FoldInduction
<1>9. PICK end : end = WS!Folded(base, seq)
  OBVIOUS
<1>10. Tokenize(list, text, meta) = end.list
  BY <1>9, TokenizeFoldedToo DEF Tokenize, base, seq
<1>11. PICK b \in 0..Len(text) : AtPiece(p, Len(text), end, b)
  BY <1>8, <1>9 DEF WordsSoFar
<1>12. ~end.inside /\ b = Len(text)
  <2>1. ~(Len(text) < Len(text))
    BY <1>5
  <2> QED BY <1>3, <1>11, <2>1 DEF AtPiece
<1>13. ShownAll(p, end.list) = {WordWanted(text, q) : q \in DoneWords(text, Len(text))}
  BY <1>3, <1>11, <1>12 DEF AtPiece, Yields
<1>14. DoneWords(text, Len(text)) = WordsAt(text)
  <2>1. \A q \in Pieces(text) : q[2] <= Len(text)
    <3> TAKE q \in Pieces(text)
    <3>1. q[1] \in 1..Len(text) /\ q[2] \in q[1]..Len(text)
      BY PieceFacts
    <3> QED BY <3>1
  <2> QED BY <2>1 DEF DoneWords, WordsAt
<1>15. ShownAll(p, end.list) = Expected(text)
  BY <1>13, <1>14 DEF Expected, WordWanted
<1> QED BY <1>3, <1>10, <1>15 DEF ShownAll, Shown, NewOnes
=============================================================================
