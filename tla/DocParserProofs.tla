--------------------------- MODULE DocParserProofs ---------------------------
(***************************************************************************)
(* Proofs about DocParser for every configuration, document and bound.     *)
(***************************************************************************)
EXTENDS DocParserProps, SequenceTheorems, FiniteSetTheorems, WellFoundedInduction, TLAPS

(***************************************************************************)
(* Sequences built by a function, by Append and by Pop.                    *)
(***************************************************************************)
LEMMA FcnIsSeq ==
  ASSUME NEW S, NEW n \in Nat, NEW f \in [1..n -> S]
  PROVE  f \in Seq(S) /\ Len(f) = n
<1>1. f \in Seq(S)
  BY SeqDef
<1>2. DOMAIN f = 1..Len(f) /\ DOMAIN f = 1..n
  BY <1>1, LenProperties
<1> QED
  BY <1>1, <1>2, LenProperties

LEMMA PopType ==
  ASSUME NEW S, NEW s \in Seq(S)
  PROVE  /\ Pop(s) \in Seq(S)
         /\ Len(s) >= 1 => Len(Pop(s)) = Len(s) - 1
         /\ \A i \in 1..Len(s) - 1 : Pop(s)[i] = s[i]
<1>1. \A i \in 1..Len(s) - 1 : s[i] \in S
  BY ElementOfSeq, LenProperties
<1>2. Len(s) \in Nat /\ 1 \in Int /\ Len(s) - 1 \in Int
  BY LenProperties
<1> DEFINE n == Len(s) - 1
<1>3. /\ SubSeq(s, 1, n) \in Seq(S)
      /\ Len(SubSeq(s, 1, n)) = IF 1 <= n THEN n - 1 + 1 ELSE 0
      /\ \A i \in 1..n - 1 + 1 : SubSeq(s, 1, n)[i] = s[1 + i - 1]
  <2> HIDE DEF n
  <2>1. n \in Int /\ \A i \in 1..n : s[i] \in S
    BY <1>1, <1>2 DEF n
  <2> QED
    BY <2>1, SubSeqProperties
<1>4. n - 1 + 1 = Len(s) - 1 /\ \A i \in 1..n : 1 + i - 1 = i
  BY <1>2
<1> QED
  BY <1>2, <1>3, <1>4 DEF Pop

LEMMA TopType ==
  ASSUME NEW S, NEW s \in Seq(S), s # << >>
  PROVE  Len(s) \in 1..Len(s) /\ Top(s) = s[Len(s)] /\ Top(s) \in S
BY EmptySeq, ElementOfSeq, LenProperties DEF Top

(***************************************************************************)
(* Names.                                                                  *)
(***************************************************************************)
LEMMA ConfigFacts == ASSUME DocType PROVE WellFormed(config)
BY ConfigAssumption DEF DocType

LEMMA LowerNameType ==
  ASSUME DocType, NEW n \in Name
  PROVE  LowerName(n) \in Name /\ Len(LowerName(n)) = Len(n)
<1>1. \A w \in Word : LowerWord(w) \in Word
  BY ConfigFacts DEF WellFormed, LowerWord, Lower
<1>2. Len(n) \in Nat /\ \A i \in 1..Len(n) : n[i] \in Word
  BY ElementOfSeq, LenProperties DEF Name
<1>3. LowerName(n) \in [1..Len(n) -> Word]
  BY <1>1, <1>2 DEF LowerName
<1> QED
  BY <1>2, <1>3, FcnIsSeq DEF Name

LEMMA QualifyType ==
  ASSUME DocType, NEW prefix \in Word, NEW raw \in Name
  PROVE  Qualify(prefix, raw) \in Name /\ Len(Qualify(prefix, raw)) >= Len(raw)
<1>1. LowerName(raw) \in Name /\ Len(LowerName(raw)) = Len(raw) /\ Len(raw) \in Nat
  BY LowerNameType, LenProperties DEF Name
<1>2. <<LowerWord(prefix)>> \in Seq(Word)
  BY ConfigFacts DEF WellFormed, LowerWord, Lower
<1>3. /\ <<LowerWord(prefix)>> \o LowerName(raw) \in Name
      /\ Len(<<LowerWord(prefix)>> \o LowerName(raw)) = 1 + Len(raw)
  BY <1>1, <1>2, ConcatProperties DEF Name
<1> QED
  BY <1>1, <1>3 DEF Qualify

\* What the recursion of bake_tag needs of the elements of a document.
LEMMA ElementFacts ==
  ASSUME DocType, NEW e \in Elements
  PROVE  /\ e.raw \in Name \ Reserved /\ e.prefix \in Word /\ Len(e.raw) >= 1
         /\ e.attr # NoAttr => e.attr \in Attribute /\ <<e.attr.name>> \notin Reserved
<1>1. /\ e \in Element /\ e.raw \notin Reserved
      /\ e.attr # NoAttr => <<e.attr.name>> \notin Reserved
  BY ConfigFacts DEF WellFormed, Elements
<1>2. e.raw \in Name /\ e.raw # << >>
  BY <1>1 DEF Element, Reserved, NoTag
<1>3. Len(e.raw) >= 1
  BY <1>2, EmptySeq DEF Name
<1> QED
  BY <1>1, <1>3 DEF Element

LEMMA SwishTagType ==
  ASSUME DocType, NEW e \in Elements
  PROVE  SwishTag(e) \in Name /\ Len(SwishTag(e)) >= 1
<1>1. Qualify(e.prefix, e.raw) \in Name /\ Len(Qualify(e.prefix, e.raw)) >= 1
  <2>1. e.raw \in Name /\ e.prefix \in Word /\ Len(e.raw) >= 1
    BY ElementFacts
  <2>2. /\ Qualify(e.prefix, e.raw) \in Name
        /\ Len(Qualify(e.prefix, e.raw)) >= Len(e.raw)
    BY <2>1, QualifyType
  <2>3. Len(e.raw) \in Nat /\ Len(Qualify(e.prefix, e.raw)) \in Nat
    BY <2>1, <2>2, LenProperties DEF Name
  <2> QED
    BY <2>1, <2>2, <2>3
<1>2. CASE e.attr # NoAttr
  <2>1. LowerWord(e.attr.value) \in Word
    BY <1>2, ElementFacts, ConfigFacts
       DEF WellFormed, LowerWord, Lower, Attribute
  <2> QED
    BY <1>1, <2>1, AppendProperties, LenProperties DEF SwishTag, Name
<1>3. CASE e.attr = NoAttr
  BY <1>1, <1>3 DEF SwishTag
<1> QED
  BY <1>2, <1>3

LEMMA ReservedNames ==
  /\ NoTag \in Name /\ Len(NoTag) = 0
  /\ SwishDefault \in Name /\ Len(SwishDefault) = 1
  /\ DomStr \in Name /\ Len(DomStr) = 1
<1>1. \A w : w \in Word => <<w>> \in Name /\ Len(<<w>>) = 1
  BY DEF Name
<1>2. "swishdefault" \in Word /\ "/" \in Word
  BY WordAssumption
<1>3. SwishDefault \in Name /\ Len(SwishDefault) = 1
  BY <1>1, <1>2, Zenon DEF SwishDefault
<1>4. DomStr \in Name /\ Len(DomStr) = 1
  BY <1>1, <1>2, Zenon DEF DomStr
<1>5. NoTag \in Name /\ Len(NoTag) = 0
  BY EmptySeq DEF NoTag, Name
<1> QED
  BY <1>3, <1>4, <1>5

LEMMA LongName ==
  ASSUME NEW n \in Name, Len(n) >= 2
  PROVE  n \notin Reserved
<1>1. Len(n) \in Nat
  BY LenProperties DEF Name
<1>2. Len(n) # 0 /\ Len(n) # 1
  BY <1>1
<1>3. n # NoTag /\ n # SwishDefault /\ n # DomStr
  BY <1>2, ReservedNames, Zenon
<1> QED
  BY <1>3 DEF Reserved

LEMMA AttrTagType ==
  ASSUME DocType, NEW e \in Elements, e.attr # NoAttr
  PROVE  AttrTag(e) \in Name \ Reserved
<1>1. e.attr.name \in Word /\ LowerWord(e.attr.name) \in Word
  BY ElementFacts, ConfigFacts DEF WellFormed, LowerWord, Lower, Attribute
<1>2. CASE IsHTML
  BY <1>1, <1>2, ElementFacts DEF AttrTag, Name
<1>3. CASE ~IsHTML
  <2>1. AttrTag(e) = Append(SwishTag(e), LowerWord(e.attr.name))
    BY <1>3 DEF AttrTag
  <2>2. AttrTag(e) \in Name /\ Len(AttrTag(e)) >= 2
    BY <1>1, <2>1, SwishTagType, AppendProperties, LenProperties DEF Name
  <2> QED
    BY <2>2, LongName
<1> QED
  BY <1>2, <1>3

LEMMA AliasedType ==
  ASSUME DocType, StackType, NEW raw \in Name, NEW bare \in Name
  PROVE  DomContext \in Name /\ Aliased(bare) \in Name /\ DomPath(raw, bare) \in Name
<1>1. DomContext \in Name
  <2>1. CASE domstack = << >>
    BY <2>1 DEF DomContext, Name
  <2>2. CASE domstack # << >>
    <3>1. Top(domstack) \in [raw: Name, baked: Name, context: Name]
      BY <2>2, TopType DEF StackType
    <3> QED
      BY <2>2, <3>1 DEF DomContext
  <2> QED
    BY <2>1, <2>2
<1>2. Aliased(bare) \in Name
  BY ConfigFacts DEF WellFormed, Aliased, TagAliases, NoTag, Name
<1>3. DomPath(raw, bare) \in Name
  BY <1>1, <1>2, ConcatProperties DEF DomPath, Name
<1> QED
  BY <1>1, <1>2, <1>3
(***************************************************************************)
(* Buffers.                                                                *)
(***************************************************************************)
LEMMA ChunksType ==
  ASSUME NEW bufs, BufsOK(bufs), NEW n
  PROVE  Chunks(bufs, n) \in Seq(Chunk)
BY EmptySeq DEF BufsOK, Chunks

LEMMA GrowType ==
  ASSUME NEW bufs, BufsOK(bufs), NEW names \in SUBSET Name
  PROVE  BufsOK(Grow(bufs, names))
BY ChunksType DEF BufsOK, Grow

LEMMA CopiesType ==
  ASSUME NEW chunk \in Chunk, NEW k \in Nat
  PROVE  Copies(chunk, k) \in Seq(Chunk)
BY FcnIsSeq DEF Copies

\* A function that says how often a chunk goes where.
TimesOK(times) == \A n \in DOMAIN times : n \in Name /\ times[n] \in Nat

LEMMA AddChunkType ==
  ASSUME NEW bufs, BufsOK(bufs), NEW chunk \in Chunk, NEW times, TimesOK(times)
  PROVE  BufsOK(AddChunk(bufs, chunk, times))
<1> DEFINE names == DOMAIN bufs \cup {m \in DOMAIN times : times[m] > 0}
           item(n) == Chunks(bufs, n) \o
                        Copies(chunk, IF n \in DOMAIN times THEN times[n] ELSE 0)
<1>1. \A n \in names : n \in Name
  BY DEF BufsOK, TimesOK
<1>2. \A n : item(n) \in Seq(Chunk)
  <2> TAKE n
  <2>1. (IF n \in DOMAIN times THEN times[n] ELSE 0) \in Nat
    BY DEF TimesOK
  <2> QED
    BY <2>1, ChunksType, CopiesType, ConcatProperties
<1> HIDE DEF names, item
<1>3. BufsOK([n \in names |-> item(n)])
  BY <1>1, <1>2 DEF BufsOK
<1> QED
  BY <1>3 DEF AddChunk, names, item

LEMMA TimesOnType ==
  ASSUME NEW stack \in Seq(Entries), NEW n
  PROVE  TimesOn(stack, n) \in Nat
<1>1. IsFiniteSet(1..Len(stack))
  BY FS_Interval, LenProperties
<1>2. {i \in 1..Len(stack) : stack[i].baked = n} \in SUBSET (1..Len(stack))
  OBVIOUS
<1> QED
  BY <1>1, <1>2, FS_Subset, FS_CardinalityType DEF TimesOn

LEMMA BakedInType ==
  ASSUME NEW stack \in Seq(Entries) PROVE BakedIn(stack) \subseteq Name
<1>1. \A i \in 1..Len(stack) : stack[i] \in Entries
  BY ElementOfSeq
<1>2. \A i \in 1..Len(stack) : stack[i].baked \in Name
  BY <1>1 DEF Entries
<1> QED
  BY <1>2 DEF BakedIn

LEMMA MetaTimesType ==
  ASSUME DocType, NEW name \in Name, NEW stack \in Seq(Entries)
  PROVE  MetaStoredAs(name) \in Name /\ TimesOK(MetaTimes(name, stack))
<1>1. MetaStoredAs(name) \in Name
  BY ConfigFacts DEF WellFormed, MetaStoredAs, MetaAlias, Name
<1> QED
  BY <1>1, TimesOnType, BakedInType DEF MetaTimes, TimesOK

LEMMA PropTimesType ==
  ASSUME DocType, NEW name \in Name, NEW stack \in Seq(Entries)
  PROVE  TimesOK(PropTimes(name, stack))
<1>1. PropStoredAs(name) \in Name
  BY ConfigFacts DEF WellFormed, PropStoredAs, PropAlias, Name
<1> DEFINE own == IF name = NoTag THEN {} ELSE {PropStoredAs(name)}
<1>2. own \subseteq Name /\ BakedIn(stack) \subseteq Name
  BY <1>1, BakedInType
<1>3. \A n : TimesOn(stack, n) + (IF n \in own THEN 1 ELSE 0) \in Nat
  <2> HIDE DEF own
  <2> QED
    BY TimesOnType
<1> QED
  BY <1>2, <1>3 DEF PropTimes, TimesOK
(***************************************************************************)
(* The innermost watched element.                                          *)
(***************************************************************************)
LEMMA LargestIndex ==
  ASSUME NEW n \in Nat, NEW S \in SUBSET (1..n), S # {}
  PROVE  \E i \in S : \A j \in S : j <= i
<1> DEFINE T == {n - i : i \in S}
<1>1. T \in SUBSET Nat /\ T # {}
  <2>1. \A i \in S : n - i \in Nat
    OBVIOUS
  <2> QED
    BY <2>1
<1>2. PICK m \in T : \A k \in T : m <= k
  <2>1. \E m \in T : \A k \in T : ~ (<<k, m>> \in OpToRel(<, Nat))
    <3> HIDE DEF T
    <3> QED
      BY <1>1, NatLessThanWellFounded, WFMin, Zenon
  <2>2. \A k, m \in Nat : k < m => <<k, m>> \in OpToRel(<, Nat)
    BY DEF OpToRel
  <2>3. \A k, m \in Nat : ~ (k < m) => m <= k
    OBVIOUS
  <2> HIDE DEF T
  <2> QED
    BY <1>1, <2>1, <2>2, <2>3
<1>3. PICK i \in S : m = n - i
  OBVIOUS
<1>4. \A j \in S : n - i <= n - j
  BY <1>2, <1>3
<1> QED
  BY <1>4

\* Which element InnermostMeta names.
LEMMA InnermostIndex ==
  ASSUME DocType, Watching # {}
  PROVE  \E i \in Watching : InnermostMeta = open[i].meta /\ \A j \in Watching : j <= i
<1>1. Watching \in SUBSET (1..Len(open)) /\ Len(open) \in Nat
  BY LenProperties DEF Watching, DocType
<1>2. \E i \in Watching : \A j \in Watching : j <= i
  BY <1>1, LargestIndex
<1> DEFINE k == CHOOSE i \in Watching : \A j \in Watching : j <= i
<1>3. k \in Watching /\ \A j \in Watching : j <= k
  BY <1>2
<1>4. InnermostMeta = open[k].meta
  BY DEF InnermostMeta
<1> QED
  BY <1>3, <1>4

LEMMA InnermostType ==
  ASSUME DocType
  PROVE  InnermostMeta \in Name /\ OpenProps \in Seq(Name) /\ OpenMetas \in Seq(Name)
<1>1. \A i \in 1..Len(open) : open[i].meta \in Name /\ open[i].prop \in Name
  <2>1. \A i \in 1..Len(open) : open[i] \in OpenElement
    BY ElementOfSeq DEF DocType
  <2> QED
    BY <2>1 DEF OpenElement
<1>2. InnermostMeta \in Name
  <2>1. CASE Watching = {}
    BY <2>1, ReservedNames DEF InnermostMeta
  <2>2. CASE Watching # {}
    <3>1. PICK i \in Watching : InnermostMeta = open[i].meta
      BY <2>2, InnermostIndex
    <3>2. i \in 1..Len(open)
      BY DEF Watching
    <3> QED
      BY <1>1, <3>1, <3>2
  <2> QED
    BY <2>1, <2>2
<1>3. OpenProps \in [1..Len(open) -> Name] /\ Len(open) \in Nat
  BY <1>1, LenProperties DEF OpenProps, DocType
<1>4. OpenMetas \in [1..Len(open) -> Name]
  BY <1>1 DEF OpenMetas
<1> QED
  BY <1>2, <1>3, <1>4, FcnIsSeq

(***************************************************************************)
(* What the helpers of the handlers do to the parser's state.              *)
(***************************************************************************)
TokenType == [meta: Name, text: Runs, pos: Nat]

LEMMA TokensFromType ==
  ASSUME DocType, BufferType, OutType, NEW name \in Name
  PROVE  TokensFrom(name) \subseteq TokenType
<1>1. MetaStoredAs(name) \in Name
  BY ConfigFacts DEF WellFormed, MetaStoredAs, MetaAlias, Name
<1>2. ASSUME NEW i \in 1..Len(meta_buf), meta_buf[i] # BUMP
      PROVE  meta_buf[i] \in Runs /\ pos + i \in Nat
  <2>1. meta_buf[i] \in {BUMP} \cup Runs
    BY ElementOfSeq DEF BufferType, Waiting
  <2>2. i \in Nat /\ pos \in Nat
    BY LenProperties DEF BufferType, Waiting, OutType
  <2> QED
    BY <1>2, <2>1, <2>2
<1> QED
  BY <1>1, <1>2 DEF TokensFrom, TokenType

LEMMA FlushToType ==
  ASSUME DocType, BufferType, OutType, NEW name \in Name,
         NEW stack \in Seq(Entries), NEW learnt \in SUBSET Name,
         FlushTo(name, stack, learnt)
  PROVE  /\ BufsOK(metabufs') /\ tokens' \subseteq TokenType /\ pos' \in Nat
         /\ meta_buf' \in Waiting
<1>1. BufsOK(metabufs')
  <2>1. BufsOK(Grow(metabufs, learnt))
    BY GrowType DEF OutType
  <2>2. meta_buf \in Chunk
    BY SeqMonotonic DEF BufferType, Waiting, Chunk
  <2>3. TimesOK(MetaTimes(name, stack))
    BY MetaTimesType
  <2>4. metabufs' = AddChunk(Grow(metabufs, learnt), meta_buf, MetaTimes(name, stack))
    BY DEF FlushTo
  <2> QED
    BY <2>1, <2>2, <2>3, <2>4, AddChunkType
<1>2. tokens' \subseteq TokenType
  BY TokensFromType DEF FlushTo, OutType, TokenType
<1>3. pos' \in Nat
  <2>1. Len(meta_buf) \in Nat /\ pos \in Nat
    BY LenProperties DEF BufferType, Waiting, OutType
  <2> QED
    BY <2>1 DEF FlushTo
<1>4. meta_buf' \in Waiting
  BY EmptySeq DEF FlushTo, Waiting
<1> QED
  BY <1>1, <1>2, <1>3, <1>4

LEMMA NoFlushType ==
  ASSUME DocType, BufferType, OutType, NEW learnt \in SUBSET Name, NoFlush(learnt)
  PROVE  /\ BufsOK(metabufs') /\ tokens' \subseteq TokenType /\ pos' \in Nat
         /\ meta_buf' \in Waiting
BY GrowType DEF NoFlush, OutType, BufferType, TokenType

LEMMA CleanedType ==
  ASSUME BufferType, NEW name
  PROVE  Cleaned(name) \in Chunk
<1>1. CASE name \in Verbatim
  BY <1>1, SeqMonotonic DEF Cleaned, BufferType, Waiting, Chunk
<1>2. CASE name \notin Verbatim
  <2>1. Len(prop_buf) \in Nat /\ \A i \in 1..Len(prop_buf) : prop_buf[i] \in {BUMP} \cup Runs
    BY ElementOfSeq, LenProperties DEF BufferType, Waiting
  <2>2. Cleaned(name) \in [1..Len(prop_buf) -> {SPACE, BUMP} \cup Runs]
    BY <1>2, <2>1 DEF Cleaned
  <2> QED
    BY <2>1, <2>2, FcnIsSeq DEF Chunk
<1> QED
  BY <1>1, <1>2

LEMMA FlushPropsType ==
  ASSUME DocType, BufferType, OutType, NEW name \in Name,
         NEW stack \in Seq(Entries), NEW learnt \in SUBSET Name,
         FlushProps(name, stack, learnt) \/ KeepProps(learnt)
  PROVE  BufsOK(propbufs') /\ prop_buf' \in Waiting
<1>1. BufsOK(Grow(propbufs, learnt))
  BY GrowType DEF OutType
<1>2. CASE FlushProps(name, stack, learnt)
  <2>1. Cleaned(name) \in Chunk /\ TimesOK(PropTimes(name, stack))
    BY CleanedType, PropTimesType
  <2>2. BufsOK(AddChunk(Grow(propbufs, learnt), Cleaned(name), PropTimes(name, stack)))
    BY <1>1, <2>1, AddChunkType
  <2>3. prop_buf' \in Waiting
    BY <1>2, EmptySeq DEF FlushProps, Waiting
  <2> QED
    BY <1>2, <2>2, <2>3 DEF FlushProps
<1>3. CASE KeepProps(learnt)
  BY <1>1, <1>3 DEF KeepProps, BufferType
<1> QED
  BY <1>2, <1>3

LEMMA BufferCharactersType ==
  ASSUME DocType, BufferType, HistoryType, Len(texts) < MaxText,
         NEW bump \in BOOLEAN, BufferCharacters(bump)
  PROVE  /\ meta_buf' \in Waiting /\ prop_buf' \in Waiting
         /\ texts' \in Seq(Text) /\ Len(texts') <= MaxText
<1> DEFINE run == Len(texts) + 1
<1>1. Len(texts) \in Nat /\ run \in Runs
  BY LenProperties, BoundAssumption DEF HistoryType, Runs
<1>2. \A buf \in Waiting : Buffered(buf, run, bump) \in Waiting
  <2> HIDE DEF run
  <2>1. run \in {BUMP} \cup Runs /\ BUMP \in {BUMP} \cup Runs
    BY <1>1
  <2>2. <<BUMP, run>> \in Waiting
    BY <2>1 DEF Waiting
  <2> QED
    BY <2>1, <2>2, ConcatProperties, AppendProperties DEF Buffered, Waiting
<1>3. meta_buf' \in Waiting /\ prop_buf' \in Waiting
  BY <1>2 DEF BufferCharacters, BufferType
<1>4. [owner |-> InnermostMeta, props |-> OpenProps, metas |-> OpenMetas,
                      segment |-> segment, noindex |-> noindex,
                      kept |-> ignore_content = 0] \in Text
  BY InnermostType DEF Text, HistoryType
<1>5. texts' \in Seq(Text) /\ Len(texts') = run
  BY <1>4, AppendProperties DEF BufferCharacters, HistoryType
<1> QED
  BY <1>1, <1>3, <1>5 DEF Runs

(***************************************************************************)
(* The inductive invariant behind TypeOK.  PhaseFacts is what a start tag  *)
(* has established when bake_tag recurses; Bases keeps the bottom entries  *)
(* of the two stacks, which no end tag pops because no tag has their name. *)
(***************************************************************************)
PhaseFacts ==
  /\ phase \in {"attr", "open", "push"} => Len(open) < MaxDepth
  /\ phase \in {"value", "close"} => open # << >>
  /\ phase # "sax" => pending \in Elements
  /\ phase \in {"attr", "open", "value", "close"} => pending.attr # NoAttr
  /\ phase \in {"attr", "open", "value"} => Len(texts) < MaxText

Bases ==
  /\ metastack # << >> /\ metastack[1].raw = SwishDefault /\ metastack[1].baked = SwishDefault
  /\ propstack # << >> /\ propstack[1].raw = DomStr /\ propstack[1].baked = DomStr

TypeInv == TypeOK /\ PhaseFacts /\ Bases

LEMMA LearnType ==
  ASSUME NamesType, NEW bare \in Name
  PROVE  /\ MetaNames \subseteq MetasAfter(bare) /\ MetasAfter(bare) \subseteq Name
         /\ Properties \subseteq PropsAfter(bare) /\ PropsAfter(bare) \subseteq Name
         /\ metanames \subseteq MetasAfter(bare) /\ properties \subseteq PropsAfter(bare)
BY DEF NamesType, MetasAfter, PropsAfter, Learn

\* What a tag pushes on a stack, and what it leaves at its base.
LEMMA PushType ==
  ASSUME NEW stack \in Seq(Entries), stack # << >>, NEW raw \in Name, NEW baked \in Name,
         Len(open) \in Nat
  PROVE  /\ Append(stack, Entry(raw, baked)) \in Seq(Entries)
         /\ Append(stack, Entry(raw, baked)) # << >>
         /\ Append(stack, Entry(raw, baked))[1] = stack[1]
<1>1. Entry(raw, baked) \in Entries
  BY DEF Entry, Entries
<1>2. Len(stack) \in Nat /\ Len(stack) >= 1
  BY EmptySeq, LenProperties
<1> QED
  BY <1>1, <1>2, AppendProperties

\* The pieces of TypeOK and Bases that open_tag and close_tag change.
TagOutcome ==
  /\ open' \in Seq(OpenElement)
  /\ MetaNames \subseteq metanames' /\ metanames' \subseteq Name
  /\ Properties \subseteq properties' /\ properties' \subseteq Name
  /\ StackType' /\ Bases'
  /\ meta_buf' \in Waiting /\ prop_buf' \in Waiting /\ ignore_content' \in Nat
  /\ BufsOK(metabufs') /\ BufsOK(propbufs')
  /\ tokens' \subseteq TokenType /\ pos' \in Nat

LEMMA OpenTagType ==
  ASSUME TypeOK, Bases, NEW raw \in Name \ Reserved, NEW prefix \in Word,
         NEW bare \in Name, OpenTag(raw, prefix, bare)
  PROVE  TagOutcome /\ Len(open') = Len(open) + 1
<1> USE DEF TypeOK
<1> DEFINE tag     == Aliased(bare)
           path    == DomPath(raw, bare)
           metas   == MetasAfter(bare)
           props   == PropsAfter(bare)
           isProp  == Watched(props, raw, bare)
           isMeta  == Watched(metas, raw, bare)
           propKey == PropKey(tag, path, props)
           metaKey == MetaKey(tag, path, metas, props)
<1>1. tag \in Name /\ path \in Name /\ propKey \in Name /\ metaKey \in Name
  BY AliasedType DEF PropKey, MetaKey
<1>2. /\ MetaNames \subseteq metas /\ metas \subseteq Name
      /\ Properties \subseteq props /\ props \subseteq Name
  BY LearnType
<1>3. Top(metastack) \in Entries /\ NoTag \in Name /\ Len(open) \in Nat
  BY TopType, ReservedNames, LenProperties DEF StackType, Bases, DocType
<1>4. open' \in Seq(OpenElement) /\ Len(open') = Len(open) + 1
  <2> DEFINE opened == [raw |-> raw, prefix |-> prefix,
                        meta |-> IF isMeta THEN metaKey ELSE NoTag,
                        prop |-> IF isProp THEN propKey ELSE NoTag]
  <2>1. opened \in OpenElement
    <3> HIDE DEF isMeta, isProp, metaKey, propKey
    <3> QED
      BY <1>1, <1>3 DEF OpenElement
  <2>2. open' = Append(open, opened)
    BY DEF OpenTag
  <2> HIDE DEF opened
  <2> QED
    BY <2>1, <2>2, AppendProperties DEF DocType
<1>5. metanames' = metas /\ properties' = props
  BY DEF OpenTag
<1>6. domstack' \in Seq([raw: Name, baked: Name, context: Name])
  <2> DEFINE entry == [raw |-> raw, baked |-> IF tag = NoTag THEN raw ELSE tag,
                       context |-> path]
  <2>1. entry \in [raw: Name, baked: Name, context: Name]
    BY <1>1
  <2>2. domstack' = Append(domstack, entry)
    BY DEF OpenTag
  <2> HIDE DEF entry
  <2> QED
    BY <2>1, <2>2, AppendProperties DEF StackType
<1>7. /\ propstack' \in Seq(Entries) /\ propstack' # << >>
      /\ propstack'[1].raw = DomStr /\ propstack'[1].baked = DomStr
  <2>1. propstack' = propstack \/ propstack' = Append(propstack, Entry(raw, propKey))
    BY DEF OpenTag
  <2> DEFINE pushed == Append(propstack, Entry(raw, propKey))
  <2>2. propstack \in Seq(Entries) /\ propstack # << >> /\ propstack[1].raw = DomStr /\ propstack[1].baked = DomStr
    BY DEF StackType, Bases
  <2> HIDE DEF propKey
  <2>3. pushed \in Seq(Entries) /\ pushed # << >> /\ pushed[1] = propstack[1]
    BY <1>1, <1>3, <2>2, PushType
  <2> HIDE DEF pushed
  <2>4. propstack' = propstack \/ propstack' = pushed
    BY <2>1 DEF pushed
  <2> QED
    BY <2>2, <2>3, <2>4
<1>8. /\ metastack' \in Seq(Entries) /\ metastack' # << >>
      /\ metastack'[1].raw = SwishDefault /\ metastack'[1].baked = SwishDefault
  <2>1. metastack' = metastack \/ metastack' = Append(metastack, Entry(raw, metaKey))
    BY DEF OpenTag
  <2> DEFINE pushed == Append(metastack, Entry(raw, metaKey))
  <2>2. metastack \in Seq(Entries) /\ metastack # << >> /\ metastack[1].raw = SwishDefault /\ metastack[1].baked = SwishDefault
    BY DEF StackType, Bases
  <2> HIDE DEF metaKey
  <2>3. pushed \in Seq(Entries) /\ pushed # << >> /\ pushed[1] = metastack[1]
    BY <1>1, <1>3, <2>2, PushType
  <2> HIDE DEF pushed
  <2>4. metastack' = metastack \/ metastack' = pushed
    BY <2>1 DEF pushed
  <2> QED
    BY <2>2, <2>3, <2>4
<1>9. BufsOK(propbufs') /\ prop_buf' \in Waiting
  <2>1. \/ FlushProps(NoTag, propstack, props \ properties)
        \/ KeepProps(props \ properties)
    BY DEF OpenTag
  <2>2. props \ properties \in SUBSET Name
    BY <1>2
  <2> HIDE DEF props
  <2> QED
    BY <1>3, <2>1, <2>2, FlushPropsType DEF StackType
<1>10. /\ BufsOK(metabufs') /\ tokens' \subseteq TokenType /\ pos' \in Nat
       /\ meta_buf' \in Waiting
  <2>1. \/ FlushTo(Top(metastack).baked, metastack, metas \ metanames)
        \/ NoFlush(metas \ metanames)
    BY DEF OpenTag
  <2>2. metas \ metanames \in SUBSET Name /\ Top(metastack).baked \in Name
    BY <1>2, <1>3 DEF Entries
  <2> HIDE DEF metas
  <2> QED
    BY <2>1, <2>2, FlushToType, NoFlushType DEF StackType
<1>11. ignore_content' \in Nat
  BY DEF OpenTag, IgnoreAfter, BufferType
<1> QED
  BY <1>2, <1>4, <1>5, <1>6, <1>7, <1>8, <1>9, <1>10, <1>11
     DEF TagOutcome, StackType, Bases

\* No tag has the name of a stack's base, so an end tag that pops leaves it.
LEMMA PopsOnType ==
  ASSUME NEW stack \in Seq(Entries), stack # << >>, stack[1].raw \in Reserved,
         NEW raw \in Name \ Reserved, PopsOn(stack, raw)
  PROVE  /\ Pop(stack) \in Seq(Entries) /\ Pop(stack) # << >>
         /\ Pop(stack)[1] = stack[1]
<1>1. Len(stack) \in Nat /\ Len(stack) >= 1
  BY EmptySeq, LenProperties
<1>2. stack[Len(stack)].raw = raw
  BY DEF PopsOn, Top
<1>3. Len(stack) # 1
  BY <1>2
<1>4. Len(Pop(stack)) = Len(stack) - 1 /\ Pop(stack) \in Seq(Entries)
  BY <1>1, PopType
<1>5. 1 \in 1..Len(stack) - 1 /\ Len(Pop(stack)) # 0
  BY <1>1, <1>3, <1>4
<1>6. Pop(stack)[1] = stack[1]
  BY <1>5, PopType
<1> QED
  BY <1>4, <1>5, <1>6, EmptySeq

LEMMA CloseTagType ==
  ASSUME TypeOK, Bases, NEW raw \in Name \ Reserved, NEW prefix \in Word,
         CloseTag(raw, prefix)
  PROVE  TagOutcome /\ (open # << >> => Len(open') = Len(open) - 1)
<1> USE DEF TypeOK
<1> DEFINE bare  == Qualify(prefix, raw)
           metas == MetasAfter(bare)
           props == PropsAfter(bare)
<1>1. bare \in Name
  BY QualifyType
<1>2. /\ MetaNames \subseteq metas /\ metas \subseteq Name
      /\ Properties \subseteq props /\ props \subseteq Name
  <2> HIDE DEF bare
  <2> QED
    BY <1>1, LearnType
<1>3. Top(metastack) \in Entries /\ Top(propstack) \in Entries
  BY TopType DEF StackType, Bases
<1>4. open' \in Seq(OpenElement) /\ (open # << >> => Len(open') = Len(open) - 1)
  <2>1. open' = Pop(open) /\ open \in Seq(OpenElement)
    BY DEF CloseTag, DocType
  <2>2. open # << >> => Len(open) >= 1
    BY <2>1, EmptySeq, LenProperties
  <2> QED
    BY <2>1, <2>2, PopType
<1>5. metanames' = metas /\ properties' = props
  BY DEF CloseTag
<1>6. domstack' \in Seq([raw: Name, baked: Name, context: Name])
  BY PopType DEF CloseTag, StackType
<1>7. /\ propstack' \in Seq(Entries) /\ propstack' # << >>
      /\ propstack'[1].raw = DomStr /\ propstack'[1].baked = DomStr
  <2>1. propstack' = propstack \/ (PopsOn(propstack, raw) /\ propstack' = Pop(propstack))
    BY DEF CloseTag
  <2>2. propstack \in Seq(Entries) /\ propstack # << >> /\ propstack[1].raw = DomStr /\ propstack[1].baked = DomStr
    BY DEF StackType, Bases
  <2>3. PopsOn(propstack, raw) =>
          /\ Pop(propstack) \in Seq(Entries) /\ Pop(propstack) # << >>
          /\ Pop(propstack)[1] = propstack[1]
    BY <2>2, PopsOnType DEF Reserved
  <2> QED
    BY <2>1, <2>2, <2>3
<1>8. /\ metastack' \in Seq(Entries) /\ metastack' # << >>
      /\ metastack'[1].raw = SwishDefault /\ metastack'[1].baked = SwishDefault
  <2>1. metastack' = metastack \/ (PopsOn(metastack, raw) /\ metastack' = Pop(metastack))
    BY DEF CloseTag
  <2>2. metastack \in Seq(Entries) /\ metastack # << >> /\ metastack[1].raw = SwishDefault /\ metastack[1].baked = SwishDefault
    BY DEF StackType, Bases
  <2>3. PopsOn(metastack, raw) =>
          /\ Pop(metastack) \in Seq(Entries) /\ Pop(metastack) # << >>
          /\ Pop(metastack)[1] = metastack[1]
    BY <2>2, PopsOnType DEF Reserved
  <2> QED
    BY <2>1, <2>2, <2>3
<1>9. BufsOK(propbufs') /\ prop_buf' \in Waiting
  <2>1. \/ FlushProps(Top(propstack).baked, Pop(propstack), props \ properties)
        \/ KeepProps(props \ properties)
    BY DEF CloseTag
  <2>2. props \ properties \in SUBSET Name /\ Top(propstack).baked \in Name
    BY <1>2, <1>3 DEF Entries
  <2>3. Pop(propstack) \in Seq(Entries)
    BY PopType DEF StackType
  <2> HIDE DEF props
  <2> QED
    BY <2>1, <2>2, <2>3, FlushPropsType
<1>10. /\ BufsOK(metabufs') /\ tokens' \subseteq TokenType /\ pos' \in Nat
       /\ meta_buf' \in Waiting
  <2>1. \/ FlushTo(Top(metastack).baked, Pop(metastack), metas \ metanames)
        \/ NoFlush(metas \ metanames)
    BY DEF CloseTag
  <2>2. metas \ metanames \in SUBSET Name /\ Top(metastack).baked \in Name
    BY <1>2, <1>3 DEF Entries
  <2>3. Pop(metastack) \in Seq(Entries)
    BY PopType DEF StackType
  <2> HIDE DEF metas
  <2> QED
    BY <2>1, <2>2, <2>3, FlushToType, NoFlushType
<1>11. ignore_content' \in Nat
  BY DEF CloseTag, IgnoreAfter, BufferType
<1> QED
  BY <1>2, <1>4, <1>5, <1>6, <1>7, <1>8, <1>9, <1>10, <1>11
     DEF TagOutcome, StackType, Bases

\* How TagOutcome gives back TypeOK and Bases.
LEMMA TagOutcomeType ==
  ASSUME TypeOK, TagOutcome, config' = config, Len(open') <= MaxDepth,
         events' = events, status' \in {"parsing"},
         phase' \in {"sax", "value", "push"}, pending' \in Elements \cup {NoAttr},
         bump_word' \in BOOLEAN, texts' = texts, noindex' = noindex, segment' \in Nat
  PROVE  TypeOK' /\ Bases'
<1> USE DEF TypeOK, TagOutcome
<1>1. DocType'
  BY DEF DocType, Elements
<1>2. NamesType'
  BY DEF NamesType, MetaNames, Properties
<1>3. BufferType' /\ OutType'
  BY DEF BufferType, OutType, TokenType
<1>4. HistoryType'
  BY DEF HistoryType
<1> QED
  BY <1>1, <1>2, <1>3, <1>4

\* A step that ends the parse changes nothing else.
LEMMA DieType ==
  ASSUME TypeInv, Die("croaked") \/ Die("crashed")
  PROVE  TypeInv'
BY DEF TypeInv, TypeOK, PhaseFacts, Bases, Die, bakeVars, configVars, stackVars, bufVars,
       flagVars, outVars, histVars, DocType, NamesType, StackType, BufferType, OutType,
       HistoryType, Elements, MetaNames, Properties

(***************************************************************************)
(* TypeInv is inductive.                                                   *)
(***************************************************************************)
LEMMA TypeInit == Init => TypeInv
<1> SUFFICES ASSUME Init PROVE TypeInv
  OBVIOUS
<1> USE DEF Init
<1>1. config \in Configs /\ WellFormed(config)
  BY ConfigAssumption
<1>2. DocType
  <2>1. open \in Seq(OpenElement) /\ Len(open) = 0
    BY EmptySeq
  <2> QED
    BY <1>1, <2>1, BoundAssumption DEF DocType
<1>3. NamesType
  BY <1>1 DEF NamesType, MetaNames, Properties, WellFormed
<1>4. StackType /\ Bases
  <2>1. [raw |-> SwishDefault, baked |-> SwishDefault, by |-> 0] \in Entries
    BY ReservedNames DEF Entries
  <2>2. [raw |-> DomStr, baked |-> DomStr, by |-> 0] \in Entries
    BY ReservedNames DEF Entries
  <2> QED
    BY <2>1, <2>2, EmptySeq DEF StackType, Bases
<1>5. BufferType
  BY EmptySeq DEF BufferType, Waiting
<1>6. OutType
  <2>1. \A n \in MetaNames \cup Properties : n \in Name
    BY <1>3 DEF NamesType
  <2> QED
    BY <2>1, EmptySeq DEF OutType, BufsOK
<1>7. HistoryType
  <2>1. texts \in Seq(Text) /\ Len(texts) = 0
    BY EmptySeq
  <2> QED
    BY <2>1, BoundAssumption DEF HistoryType
<1>8. PhaseFacts
  BY DEF PhaseFacts
<1> QED
  BY <1>2, <1>3, <1>4, <1>5, <1>6, <1>7, <1>8 DEF TypeInv, TypeOK

\* The tag of the attribute that bake_tag has in hand, as a start or end tag.
LEMMA PendingAttrType ==
  ASSUME TypeOK, PhaseFacts, phase \in {"attr", "open", "value", "close"}
  PROVE  /\ pending \in Elements /\ pending.prefix \in Word
         /\ AttrTag(pending) \in Name \ Reserved
         /\ Qualify(pending.prefix, AttrTag(pending)) \in Name
<1>1. pending \in Elements /\ pending.attr # NoAttr
  BY DEF PhaseFacts
<1>2. pending.prefix \in Word /\ AttrTag(pending) \in Name \ Reserved
  BY <1>1, ElementFacts, AttrTagType DEF TypeOK
<1> QED
  BY <1>1, <1>2, QualifyType DEF TypeOK

LEMMA BumpAtType ==
  ASSUME BufferType, NEW bare
  PROVE  BumpAt(bare) \in BOOLEAN
<1>1. bump_word \in BOOLEAN
  BY DEF BufferType
<1> QED
  BY <1>1, Zenon DEF BumpAt

LEMMA EventType ==
  ASSUME DocType, Event
  PROVE  events' \in 0..MaxEvents
BY BoundAssumption DEF DocType, Event

LEMMA StartElementType ==
  ASSUME TypeInv, NEW e \in Elements, StartElement(e)
  PROVE  TypeInv'
<1> USE DEF TypeInv, TypeOK
<1>0. /\ UNCHANGED <<config, open, status, metanames, properties, metastack, propstack,
                     domstack, meta_buf, prop_buf, ignore_content, metabufs, propbufs,
                     tokens, pos, texts, noindex>>
      /\ pending' = e /\ phase' \in {"push", "attr"}
  BY DEF StartElement, configVars, stackVars, bufVars, outVars
<1>1. events' \in 0..MaxEvents /\ bump_word' \in BOOLEAN
  BY EventType, BumpAtType DEF StartElement
<1>2. segment' \in Nat
  BY DEF StartElement, SegmentAfter, HistoryType
<1>3. TypeOK'
  BY <1>0, <1>1, <1>2 DEF DocType, NamesType, StackType, BufferType, OutType, HistoryType,
                          Elements, MetaNames, Properties
<1>4. PhaseFacts'
  <2>1. /\ Len(open) < MaxDepth /\ (e.attr # NoAttr => Len(texts) < MaxText)
        /\ phase' = IF e.attr = NoAttr THEN "push" ELSE "attr"
    BY DEF StartElement
  <2> QED
    BY <1>0, <2>1 DEF PhaseFacts, Elements
<1>5. Bases'
  BY <1>0 DEF Bases
<1> QED
  BY <1>3, <1>4, <1>5

LEMMA XmlAttributeType ==
  ASSUME TypeInv, XmlAttribute
  PROVE  TypeInv'
<1> DEFINE tag   == AttrTag(pending)
           undef == tag \notin metanames
           metas == Learn(metanames,
                      undef /\ UndefinedXMLAttributes \in {"auto", "autoall"}, tag)
           props == Learn(properties, undef /\ UndefinedXMLAttributes = "autoall", tag)
<1>1. CASE undef /\ UndefinedXMLAttributes = "error"
  BY <1>1, DieType DEF XmlAttribute
<1>2. CASE ~(undef /\ UndefinedXMLAttributes = "error")
  <2>0. /\ UNCHANGED <<config, open, events, status, pending, metastack, propstack, domstack,
                       ignore_content, bump_word, tokens, pos, noindex, segment>>
        /\ metanames' = metas /\ properties' = props
        /\ metabufs' = Grow(metabufs, metas \ metanames)
        /\ propbufs' = Grow(propbufs, props \ properties)
        /\ phase = "attr"
    BY <1>2 DEF XmlAttribute, At, docVars, stackVars, flagVars
  <2>1. tag \in Name
    BY <2>0, PendingAttrType DEF TypeInv
  <2>2. /\ MetaNames \subseteq metas /\ metas \subseteq Name
        /\ Properties \subseteq props /\ props \subseteq Name
    BY <2>1 DEF Learn, TypeInv, TypeOK, NamesType
  <2>3. BufsOK(metabufs') /\ BufsOK(propbufs')
    <3>1. metas \ metanames \in SUBSET Name /\ props \ properties \in SUBSET Name
      BY <2>2
    <3> HIDE DEF metas, props
    <3> QED
      BY <2>0, <3>1, GrowType DEF TypeInv, TypeOK, OutType
  <2>4. \/ BufferCharacters(TRUE) /\ phase' = "push"
        \/ UNCHANGED <<texts, meta_buf, prop_buf>> /\ phase' \in {"open", "push"}
    BY <1>2 DEF XmlAttribute, Learn, bufVars
  <2>5. Len(texts) < MaxText
    BY <2>0 DEF TypeInv, PhaseFacts
  <2>6. /\ meta_buf' \in Waiting /\ prop_buf' \in Waiting
        /\ texts' \in Seq(Text) /\ Len(texts') <= MaxText
    BY <2>4, <2>5, BufferCharactersType DEF TypeInv, TypeOK, BufferType, HistoryType
  <2>7. phase' \in {"open", "push"} /\ (phase' = "open" => Len(texts') < MaxText)
    BY <2>4, <2>5
  <2> HIDE DEF metas, props
  <2>8. TypeOK'
    BY <2>0, <2>2, <2>3, <2>6, <2>7
       DEF TypeInv, TypeOK, DocType, NamesType, StackType, BufferType, OutType, HistoryType,
           Elements, MetaNames, Properties
  <2>9. PhaseFacts' /\ Bases'
    BY <2>0, <2>7 DEF TypeInv, PhaseFacts, Bases, Elements
  <2> QED
    BY <2>8, <2>9 DEF TypeInv
<1> QED
  BY <1>1, <1>2

LEMMA HtmlMetaType ==
  ASSUME TypeInv, HtmlMeta
  PROVE  TypeInv'
<1> DEFINE name  == AttrTag(pending)
           undef == ~Known(name)
           metas == Learn(metanames, undef /\ UndefinedMetaTags \in {"auto", "autoall"}, name)
           props == Learn(properties, undef /\ UndefinedMetaTags = "autoall", name)
<1>1. CASE undef /\ UndefinedMetaTags = "error"
  BY <1>1, DieType DEF HtmlMeta
<1>2. CASE ~(undef /\ UndefinedMetaTags = "error")
  <2>0. /\ UNCHANGED <<config, open, events, status, pending, metastack, propstack, domstack,
                       meta_buf, prop_buf, bump_word, tokens, pos, texts, noindex, segment>>
        /\ metanames' = metas /\ properties' = props
        /\ metabufs' = Grow(metabufs, metas \ metanames)
        /\ propbufs' = Grow(propbufs, props \ properties)
        /\ phase = "attr" /\ phase' \in {"open", "push"}
        /\ ignore_content' \in {ignore_content, ignore_content + 1}
    BY <1>2 DEF HtmlMeta, At, docVars, stackVars, bufVars, histVars
  <2>1. name \in Name
    BY <2>0, PendingAttrType DEF TypeInv
  <2>2. /\ MetaNames \subseteq metas /\ metas \subseteq Name
        /\ Properties \subseteq props /\ props \subseteq Name
    BY <2>1 DEF Learn, TypeInv, TypeOK, NamesType
  <2>3. BufsOK(metabufs') /\ BufsOK(propbufs')
    <3>1. metas \ metanames \in SUBSET Name /\ props \ properties \in SUBSET Name
      BY <2>2
    <3> HIDE DEF metas, props
    <3> QED
      BY <2>0, <3>1, GrowType DEF TypeInv, TypeOK, OutType
  <2> HIDE DEF metas, props
  <2>4. TypeOK'
    BY <2>0, <2>2, <2>3
       DEF TypeInv, TypeOK, DocType, NamesType, StackType, BufferType, OutType, HistoryType,
           Elements, MetaNames, Properties
  <2>5. PhaseFacts' /\ Bases'
    BY <2>0 DEF TypeInv, PhaseFacts, Bases, Elements
  <2> QED
    BY <2>4, <2>5 DEF TypeInv
<1> QED
  BY <1>1, <1>2

LEMMA OpenValueType ==
  ASSUME TypeInv, OpenValue
  PROVE  TypeInv'
<1> DEFINE raw  == AttrTag(pending)
           bare == Qualify(pending.prefix, raw)
<1>1. CASE OpenFails(raw, bare)
  BY <1>1, DieType DEF OpenFails
<1>2. CASE OpenTag(raw, pending.prefix, bare) /\ ~OpenFails(raw, bare)
  <2>0. /\ UNCHANGED <<config, events, status, pending, texts, noindex>>
        /\ phase = "open" /\ phase' = "value" /\ bump_word' \in BOOLEAN
        /\ segment' = segment + 1 /\ status = "parsing"
    BY <1>2 DEF OpenValue, At
  <2>1. pending.prefix \in Word /\ raw \in Name \ Reserved /\ bare \in Name
    BY <2>0, PendingAttrType DEF TypeInv
  <2>2. TagOutcome /\ Len(open') = Len(open) + 1
    <3> HIDE DEF raw, bare
    <3> QED
      BY <1>2, <2>1, OpenTagType DEF TypeInv
  <2>3. Len(open) < MaxDepth /\ Len(open) \in Nat /\ open' \in Seq(OpenElement)
    BY <2>0, <2>2, LenProperties DEF TypeInv, TypeOK, DocType, PhaseFacts, TagOutcome
  <2>4. Len(open') <= MaxDepth /\ open' # << >>
    BY <2>2, <2>3, BoundAssumption, EmptySeq
  <2>5. segment' \in Nat /\ pending' \in Elements \cup {NoAttr}
    BY <2>0 DEF TypeInv, TypeOK, HistoryType, DocType
  <2>6. TypeOK' /\ Bases'
    BY <2>0, <2>2, <2>4, <2>5, TagOutcomeType DEF TypeInv
  <2>7. PhaseFacts'
    BY <2>0, <2>4 DEF TypeInv, PhaseFacts, Elements
  <2> QED
    BY <2>6, <2>7 DEF TypeInv
<1> QED
  BY <1>1, <1>2 DEF OpenValue

LEMMA BufferValueType ==
  ASSUME TypeInv, BufferValue
  PROVE  TypeInv'
<1>0. /\ UNCHANGED <<config, open, events, status, pending, metanames, properties,
                     metastack, propstack, domstack, ignore_content, metabufs, propbufs,
                     tokens, pos, noindex, segment>>
      /\ phase = "value" /\ phase' = "close" /\ BufferCharacters(bump_word)
  BY DEF BufferValue, At, docVars, configVars, stackVars, outVars
<1>1. bump_word' \in BOOLEAN
  BY DEF BufferValue, BumpAfterText, TypeInv, TypeOK, BufferType
<1>2. Len(texts) < MaxText
  BY <1>0 DEF TypeInv, PhaseFacts
<1>3. /\ meta_buf' \in Waiting /\ prop_buf' \in Waiting
      /\ texts' \in Seq(Text) /\ Len(texts') <= MaxText
  BY <1>0, <1>2, BufferCharactersType DEF TypeInv, TypeOK, BufferType
<1>4. TypeOK'
  BY <1>0, <1>1, <1>3
     DEF TypeInv, TypeOK, DocType, NamesType, StackType, BufferType, OutType, HistoryType,
         Elements, MetaNames, Properties
<1>5. PhaseFacts' /\ Bases'
  BY <1>0 DEF TypeInv, PhaseFacts, Bases, Elements
<1> QED
  BY <1>4, <1>5 DEF TypeInv

LEMMA CloseValueType ==
  ASSUME TypeInv, CloseValue
  PROVE  TypeInv'
<1> DEFINE raw == AttrTag(pending)
<1>1. CASE CloseFails(raw, pending.prefix)
  BY <1>1, DieType DEF CloseFails
<1>2. CASE CloseTag(raw, pending.prefix) /\ ~CloseFails(raw, pending.prefix)
  <2>0. /\ UNCHANGED <<config, events, status, pending, texts, noindex>>
        /\ phase = "close" /\ phase' = "push" /\ bump_word' \in BOOLEAN
        /\ segment' = segment + 1 /\ status = "parsing"
    BY <1>2 DEF CloseValue, At
  <2>1. pending \in Elements /\ pending.prefix \in Word /\ raw \in Name \ Reserved
    BY <2>0, PendingAttrType DEF TypeInv
  <2>2. TagOutcome /\ Len(open') = Len(open) - 1
    <3> HIDE DEF raw
    <3>1. open # << >>
      BY <2>0 DEF TypeInv, PhaseFacts
    <3> QED
      BY <1>2, <2>1, <3>1, CloseTagType DEF TypeInv
  <2>3. Len(open) <= MaxDepth /\ Len(open) \in Nat
    BY LenProperties DEF TypeInv, TypeOK, DocType
  <2>4. Len(open') <= MaxDepth /\ Len(open') < MaxDepth
    BY <2>2, <2>3, BoundAssumption
  <2>5. segment' \in Nat /\ pending' \in Elements \cup {NoAttr}
    BY <2>0 DEF TypeInv, TypeOK, HistoryType, DocType
  <2>6. TypeOK' /\ Bases'
    BY <2>0, <2>2, <2>4, <2>5, TagOutcomeType DEF TypeInv
  <2>7. PhaseFacts'
    BY <2>0, <2>1, <2>4 DEF PhaseFacts, Elements
  <2> QED
    BY <2>6, <2>7 DEF TypeInv
<1> QED
  BY <1>1, <1>2 DEF CloseValue

LEMMA PushElementType ==
  ASSUME TypeInv, PushElement
  PROVE  TypeInv'
<1> DEFINE dealtWith == IsHTML /\ pending.attr # NoAttr /\ pending.attr.value # NoContent
           bare      == IF dealtWith THEN NoTag ELSE SwishTag(pending)
<1>1. CASE OpenFails(pending.raw, bare)
  BY <1>1, DieType DEF OpenFails
<1>2. CASE OpenTag(pending.raw, pending.prefix, bare) /\ ~OpenFails(pending.raw, bare)
  <2>0. /\ UNCHANGED <<config, events, status, bump_word, texts, noindex, segment>>
        /\ phase = "push" /\ phase' = "sax" /\ pending' = NoAttr /\ status = "parsing"
    BY <1>2 DEF PushElement, At, histVars
  <2>1. pending \in Elements
    BY <2>0 DEF TypeInv, PhaseFacts
  <2>2. pending.raw \in Name \ Reserved /\ pending.prefix \in Word /\ bare \in Name
    BY <2>1, ElementFacts, SwishTagType, ReservedNames DEF TypeInv, TypeOK
  <2>3. TagOutcome /\ Len(open') = Len(open) + 1
    <3> HIDE DEF bare
    <3> QED
      BY <1>2, <2>2, OpenTagType DEF TypeInv
  <2>4. Len(open) < MaxDepth /\ Len(open) \in Nat
    BY <2>0, LenProperties DEF TypeInv, TypeOK, DocType, PhaseFacts
  <2>5. Len(open') <= MaxDepth
    BY <2>3, <2>4, BoundAssumption
  <2>6. bump_word' \in BOOLEAN /\ segment' \in Nat
    BY <2>0 DEF TypeInv, TypeOK, HistoryType, BufferType
  <2>7. TypeOK' /\ Bases'
    BY <2>0, <2>3, <2>5, <2>6, TagOutcomeType DEF TypeInv
  <2>8. PhaseFacts'
    BY <2>0 DEF PhaseFacts
  <2> QED
    BY <2>7, <2>8 DEF TypeInv
<1> QED
  BY <1>1, <1>2 DEF PushElement

LEMMA EndElementType ==
  ASSUME TypeInv, EndElement
  PROVE  TypeInv'
<1> DEFINE raw    == Top(open).raw
           prefix == Top(open).prefix
<1>1. CASE CloseFails(raw, prefix)
  BY <1>1, DieType DEF CloseFails
<1>2. CASE CloseTag(raw, prefix) /\ ~CloseFails(raw, prefix)
  <2>0. /\ UNCHANGED <<config, events, status, phase, pending, texts, noindex>>
        /\ phase = "sax" /\ status = "parsing" /\ open # << >>
        /\ bump_word' = BumpAt(Qualify(prefix, raw))
        /\ segment' \in {segment, segment + 1}
    BY <1>2 DEF EndElement, At, SegmentAfter, bakeVars
  <2>1. Top(open) \in OpenElement
    BY <2>0, TopType DEF TypeInv, TypeOK, DocType
  <2>2. raw \in Name \ Reserved /\ prefix \in Word
    BY <2>1 DEF OpenElement
  <2>3. TagOutcome /\ Len(open') = Len(open) - 1
    <3> HIDE DEF raw, prefix
    <3> QED
      BY <1>2, <2>0, <2>2, CloseTagType DEF TypeInv
  <2>4. Len(open) <= MaxDepth /\ Len(open) \in Nat
    BY LenProperties DEF TypeInv, TypeOK, DocType
  <2>5. Len(open') <= MaxDepth
    BY <2>3, <2>4, BoundAssumption
  <2>6. bump_word' \in BOOLEAN /\ segment' \in Nat /\ pending' \in Elements \cup {NoAttr}
    BY <2>0, BumpAtType DEF TypeInv, TypeOK, HistoryType, DocType
  <2>7. TypeOK' /\ Bases'
    BY <2>0, <2>3, <2>5, <2>6, TagOutcomeType DEF TypeInv
  <2>8. PhaseFacts'
    BY <2>0 DEF PhaseFacts
  <2> QED
    BY <2>7, <2>8 DEF TypeInv
<1> QED
  BY <1>1, <1>2 DEF EndElement

LEMMA CharactersType ==
  ASSUME TypeInv, Characters
  PROVE  TypeInv'
<1>0. /\ UNCHANGED <<config, open, status, phase, pending, metanames, properties,
                     metastack, propstack, domstack, ignore_content, metabufs, propbufs,
                     tokens, pos, noindex, segment>>
      /\ phase = "sax" /\ BufferCharacters(bump_word) /\ Len(texts) < MaxText
  BY DEF Characters, At, bakeVars, configVars, stackVars, outVars
<1>1. bump_word' \in BOOLEAN /\ events' \in 0..MaxEvents
  BY EventType DEF Characters, BumpAfterText, TypeInv, TypeOK, BufferType
<1>2. /\ meta_buf' \in Waiting /\ prop_buf' \in Waiting
      /\ texts' \in Seq(Text) /\ Len(texts') <= MaxText
  BY <1>0, BufferCharactersType DEF TypeInv, TypeOK, BufferType
<1>3. TypeOK'
  BY <1>0, <1>1, <1>2
     DEF TypeInv, TypeOK, DocType, NamesType, StackType, BufferType, OutType, HistoryType,
         Elements, MetaNames, Properties
<1>4. PhaseFacts' /\ Bases'
  BY <1>0 DEF TypeInv, PhaseFacts, Bases, Elements
<1> QED
  BY <1>3, <1>4 DEF TypeInv

LEMMA CommentType ==
  ASSUME TypeInv, CommentNoindex \/ CommentIndex \/ CommentOther
  PROVE  TypeInv'
<1> USE DEF CommentNoindex, CommentIndex, CommentOther
<1>0. /\ UNCHANGED <<config, open, status, phase, pending, metanames, properties,
                     metastack, propstack, domstack, meta_buf, prop_buf, metabufs, propbufs,
                     tokens, pos, texts>>
      /\ phase = "sax"
  BY DEF At, bakeVars, configVars, stackVars, bufVars, outVars
<1>1. bump_word' \in BOOLEAN /\ events' \in 0..MaxEvents /\ segment' \in Nat
  <2>1. events' \in 0..MaxEvents
    BY EventType DEF TypeInv, TypeOK
  <2>2. bump_word' \in BOOLEAN
    BY DEF TypeInv, TypeOK, BufferType
  <2>3. segment' \in Nat
    BY DEF TypeInv, TypeOK, HistoryType
  <2> QED
    BY <2>1, <2>2, <2>3
<1>2. ignore_content' \in Nat /\ noindex' \in Nat
  BY DEF Unignore, TypeInv, TypeOK, BufferType, HistoryType
<1> USE <1>0, <1>1, <1>2
<1>3. TypeOK'
  BY DEF TypeInv, TypeOK, DocType, NamesType, StackType, BufferType, OutType, HistoryType,
         Elements, MetaNames, Properties
<1>4. PhaseFacts' /\ Bases'
  BY DEF TypeInv, PhaseFacts, Bases, Elements
<1> QED
  BY <1>3, <1>4 DEF TypeInv

LEMMA EndDocumentType ==
  ASSUME TypeInv, EndDocument
  PROVE  TypeInv'
<1>0. /\ UNCHANGED <<config, open, events, phase, pending, metanames, properties,
                     metastack, propstack, domstack, prop_buf, ignore_content, bump_word,
                     propbufs, texts, noindex, segment>>
      /\ phase = "sax" /\ status' = "done"
  BY DEF EndDocument, At, bakeVars, configVars, stackVars, flagVars, histVars
<1>1. /\ BufsOK(metabufs') /\ tokens' \subseteq TokenType /\ pos' \in Nat
      /\ meta_buf' \in Waiting
  <2>1. FlushTo(SwishDefault, metastack, {}) /\ {} \in SUBSET Name
    BY DEF EndDocument
  <2> QED
    BY <2>1, FlushToType, ReservedNames DEF TypeInv, TypeOK, StackType
<1>2. TypeOK'
  BY <1>0, <1>1
     DEF TypeInv, TypeOK, DocType, NamesType, StackType, BufferType, OutType, HistoryType,
         Elements, MetaNames, Properties, TokenType
<1>3. PhaseFacts' /\ Bases'
  BY <1>0 DEF TypeInv, PhaseFacts, Bases, Elements
<1> QED
  BY <1>2, <1>3 DEF TypeInv

LEMMA TypeStutter == ASSUME TypeInv, UNCHANGED vars PROVE TypeInv'
BY DEF vars, docVars, bakeVars, configVars, stackVars, bufVars, flagVars, outVars, histVars,
       TypeInv, TypeOK, PhaseFacts, Bases, DocType, NamesType, StackType, BufferType,
       OutType, HistoryType, Elements, MetaNames, Properties

LEMMA TypeNext == TypeInv /\ [Next]_vars => TypeInv'
<1> SUFFICES ASSUME TypeInv, [Next]_vars PROVE TypeInv'
  OBVIOUS
<1>1. ASSUME NEW e \in Elements, StartElement(e) PROVE TypeInv'
  BY <1>1, StartElementType
<1>2. CASE XmlAttribute
  BY <1>2, XmlAttributeType
<1>3. CASE HtmlMeta
  BY <1>3, HtmlMetaType
<1>4. CASE OpenValue
  BY <1>4, OpenValueType
<1>5. CASE BufferValue
  BY <1>5, BufferValueType
<1>6. CASE CloseValue
  BY <1>6, CloseValueType
<1>7. CASE PushElement
  BY <1>7, PushElementType
<1>8. CASE EndElement
  BY <1>8, EndElementType
<1>9. CASE Characters
  BY <1>9, CharactersType
<1>10. CASE CommentNoindex \/ CommentIndex \/ CommentOther
  BY <1>10, CommentType
<1>11. CASE EndDocument
  BY <1>11, EndDocumentType
<1>12. CASE UNCHANGED vars
  BY <1>12, TypeStutter
<1> QED
  BY <1>1, <1>2, <1>3, <1>4, <1>5, <1>6, <1>7, <1>8, <1>9, <1>10, <1>11, <1>12
     DEF Next, Finished

\* Whatever the configuration, and whatever it is taught by the document, the
\* parser's state has its types: no bound is passed, no start or end tag pops
\* the base of a stack, no word that is tokenized lies outside the document.
THEOREM TypeCorrect == Spec => []TypeOK
<1>1. TypeInv => TypeOK
  BY DEF TypeInv
<1> QED
  BY <1>1, TypeInit, TypeNext, PTL DEF Spec

-----------------------------------------------------------------------------
(* The words of a document: none is lost, none is doubled, and the         *)
(* positions of their tokens follow the document; for every configuration, *)
(* for HTML and XML.                                                       *)

(***************************************************************************)
(* The chunks of a named buffer.                                           *)
(***************************************************************************)

Count(times, n) == IF n \in DOMAIN times THEN times[n] ELSE 0

LEMMA NoCopies ==
  ASSUME NEW chunk PROVE Copies(chunk, 0) = << >>
BY EmptySeq DEF Copies

LEMMA ChunksGrown ==
  ASSUME NEW bufs, NEW names, NEW n
  PROVE  Chunks(Grow(bufs, names), n) = Chunks(bufs, n)
<1>1. CASE n \in DOMAIN bufs \cup names
  <2>1. Grow(bufs, names)[n] = Chunks(bufs, n) /\ n \in DOMAIN Grow(bufs, names)
    BY <1>1 DEF Grow
  <2> QED BY <2>1 DEF Chunks
<1>2. CASE n \notin DOMAIN bufs \cup names
  BY <1>2 DEF Grow, Chunks
<1> QED BY <1>1, <1>2

LEMMA ChunksAdded ==
  ASSUME NEW bufs, BufsOK(bufs), NEW chunk, NEW times, TimesOK(times), NEW n
  PROVE  Chunks(AddChunk(bufs, chunk, times), n) =
           IF chunk = << >> THEN Chunks(bufs, n)
           ELSE Chunks(bufs, n) \o Copies(chunk, Count(times, n))
<1>1. CASE chunk = << >>
  BY <1>1 DEF AddChunk
<1>2. CASE chunk # << >>
  <2> DEFINE new == AddChunk(bufs, chunk, times)
  <2>1. /\ DOMAIN new = DOMAIN bufs \cup {m \in DOMAIN times : times[m] > 0}
        /\ \A m \in DOMAIN new : new[m] = Chunks(bufs, m) \o Copies(chunk, Count(times, m))
    BY <1>2 DEF AddChunk, Count
  <2> SUFFICES Chunks(new, n) = Chunks(bufs, n) \o Copies(chunk, Count(times, n))
    BY <1>2
  <2> HIDE DEF new
  <2>2. CASE n \in DOMAIN new
    <3>1. Chunks(new, n) = new[n]
      BY <2>2 DEF Chunks
    <3> QED BY <2>1, <2>2, <3>1
  <2>3. CASE n \notin DOMAIN new
    <3>1. Chunks(new, n) = << >> /\ Chunks(bufs, n) = << >>
      BY <2>1, <2>3 DEF Chunks
    <3>2. Count(times, n) = 0
      BY <2>1, <2>3 DEF Count, TimesOK
    <3>3. << >> \o << >> = << >>
      BY EmptySeq, ConcatProperties
    <3>4. Copies(chunk, 0) = << >>
      BY NoCopies
    <3> QED BY <3>1, <3>2, <3>3, <3>4
  <2> QED BY <2>2, <2>3
<1> QED BY <1>1, <1>2

(***************************************************************************)
(* What a step can do to the words and to the named buffers of metanames.  *)
(***************************************************************************)
SameChunks == \A n : Chunks(metabufs', n) = Chunks(metabufs, n)

MetaFlushed ==
  /\ \E name \in Name, stack \in Seq(Entries), learnt \in SUBSET Name :
       /\ stack # << >> /\ stack[1].baked = SwishDefault
       /\ FlushTo(name, stack, learnt)
  /\ texts' = texts

MetaRead ==
  /\ \E bump \in BOOLEAN : BufferCharacters(bump)
  /\ SameChunks /\ UNCHANGED <<tokens, pos>>
  /\ status = "parsing" /\ status' = "parsing"

MetaKept ==
  /\ SameChunks /\ UNCHANGED <<meta_buf, tokens, pos, texts>>
  /\ status' = "done" => status = "done"

MetaStep == config' = config /\ (MetaFlushed \/ MetaRead \/ MetaKept)

\* What is left of this when only the words matter.
WordsFlushed ==
  /\ \E name \in Name : tokens' = tokens \cup TokensFrom(name)
  /\ pos' = IF Tokenize THEN pos + Len(meta_buf) ELSE pos
  /\ meta_buf' = << >> /\ texts' = texts

WordRead ==
  /\ \E bump \in BOOLEAN : BufferCharacters(bump)
  /\ UNCHANGED <<tokens, pos>>
  /\ status = "parsing" /\ status' = "parsing"

WordsKept ==
  /\ UNCHANGED <<meta_buf, tokens, pos, texts>>
  /\ status' = "done" => status = "done"

WordStep == config' = config /\ (WordsFlushed \/ WordRead \/ WordsKept)

LEMMA TopBakedType == ASSUME TypeInv PROVE Top(metastack).baked \in Name
<1>1. Top(metastack) \in Entries
  BY TopType DEF TypeInv, TypeOK, StackType, Bases
<1> QED
  BY <1>1 DEF Entries

LEMMA NoFlushSame ==
  ASSUME NEW learnt, NoFlush(learnt) PROVE SameChunks /\ UNCHANGED <<meta_buf, tokens, pos>>
BY ChunksGrown DEF NoFlush, SameChunks

LEMMA DieStores ==
  ASSUME Die("croaked") \/ Die("crashed") PROVE MetaStep
BY DEF Die, bufVars, outVars, histVars, MetaStep, MetaKept, SameChunks

LEMMA OpenTagStores ==
  ASSUME TypeInv, NEW raw, NEW prefix, NEW bare \in Name, OpenTag(raw, prefix, bare),
         texts' = texts, status' = "parsing"
  PROVE  MetaFlushed \/ MetaKept
<1> DEFINE learnt == MetasAfter(bare) \ metanames
<1>1. /\ Top(metastack).baked \in Name /\ metastack \in Seq(Entries) /\ learnt \in SUBSET Name
      /\ metastack # << >> /\ metastack[1].baked = SwishDefault
  BY TopBakedType, LearnType DEF TypeInv, TypeOK, StackType, Bases
<1>2. FlushTo(Top(metastack).baked, metastack, learnt) \/ NoFlush(learnt)
  BY DEF OpenTag
<1> HIDE DEF learnt
<1>3. CASE FlushTo(Top(metastack).baked, metastack, learnt)
  BY <1>1, <1>3 DEF MetaFlushed
<1>4. CASE NoFlush(learnt)
  BY <1>4, NoFlushSame DEF MetaKept
<1> QED BY <1>2, <1>3, <1>4

LEMMA CloseTagStores ==
  ASSUME TypeInv, NEW raw \in Name \ Reserved, NEW prefix \in Word, CloseTag(raw, prefix),
         texts' = texts, status' = "parsing"
  PROVE  MetaFlushed \/ MetaKept
<1> DEFINE learnt == MetasAfter(Qualify(prefix, raw)) \ metanames
<1>1. Top(metastack).baked \in Name /\ learnt \in SUBSET Name
  BY TopBakedType, QualifyType, LearnType DEF TypeInv, TypeOK
<1>2. \/ PopsOn(metastack, raw) /\ FlushTo(Top(metastack).baked, Pop(metastack), learnt)
      \/ NoFlush(learnt)
  BY DEF CloseTag
<1> HIDE DEF learnt
<1>3. CASE PopsOn(metastack, raw) /\ FlushTo(Top(metastack).baked, Pop(metastack), learnt)
  <2>1. /\ metastack \in Seq(Entries) /\ metastack # << >> /\ metastack[1].raw \in Reserved
        /\ metastack[1].baked = SwishDefault
    BY DEF TypeInv, TypeOK, StackType, Bases, Reserved
  <2>2. Pop(metastack) \in Seq(Entries) /\ Pop(metastack) # << >>
        /\ Pop(metastack)[1] = metastack[1]
    BY <1>3, <2>1, PopsOnType
  <2> QED BY <1>1, <1>3, <2>1, <2>2 DEF MetaFlushed
<1>4. CASE NoFlush(learnt)
  BY <1>4, NoFlushSame DEF MetaKept
<1> QED BY <1>2, <1>3, <1>4

LEMMA MetaSteps == TypeInv /\ [Next]_vars => MetaStep
<1> SUFFICES ASSUME TypeInv, [Next]_vars PROVE MetaStep
  OBVIOUS
<1>1. ASSUME NEW e \in Elements, StartElement(e) PROVE MetaStep
  BY <1>1 DEF StartElement, bufVars, outVars, MetaStep, MetaKept, SameChunks
<1>2. CASE XmlAttribute
  <2>1. CASE Die("croaked")
    BY <2>1, DieStores
  <2>2. CASE ~Die("croaked")
    <3>1. /\ BufferCharacters(TRUE) \/ UNCHANGED <<texts, meta_buf>>
          /\ UNCHANGED <<config, status, tokens, pos>> /\ status = "parsing"
          /\ \E names : metabufs' = Grow(metabufs, names)
      BY <1>2, <2>2 DEF XmlAttribute, At, docVars, bufVars
    <3>2. SameChunks
      BY <3>1, ChunksGrown DEF SameChunks
    <3> QED
      BY <3>1, <3>2 DEF MetaStep, MetaRead, MetaKept
  <2> QED
    BY <2>1, <2>2
<1>3. CASE HtmlMeta
  <2>1. CASE Die("croaked")
    BY <2>1, DieStores
  <2>2. CASE ~Die("croaked")
    <3>1. /\ UNCHANGED <<config, status, meta_buf, tokens, pos, texts>>
          /\ \E names : metabufs' = Grow(metabufs, names)
      BY <1>3, <2>2 DEF HtmlMeta, docVars, bufVars, histVars
    <3>2. SameChunks
      BY <3>1, ChunksGrown DEF SameChunks
    <3> QED
      BY <3>1, <3>2 DEF MetaStep, MetaKept
  <2> QED
    BY <2>1, <2>2
<1>4. CASE OpenValue
  <2> DEFINE raw  == AttrTag(pending)
             bare == Qualify(pending.prefix, raw)
  <2>1. CASE OpenFails(raw, bare)
    BY <2>1, DieStores DEF OpenFails
  <2>2. CASE ~OpenFails(raw, bare)
    <3>1. OpenTag(raw, pending.prefix, bare) /\ UNCHANGED <<config, texts>> /\ status' = "parsing"
      BY <1>4, <2>2 DEF OpenValue, At
    <3>2. bare \in Name
      BY <1>4, PendingAttrType DEF OpenValue, At, TypeInv
    <3> HIDE DEF raw, bare
    <3> QED
      BY <3>1, <3>2, OpenTagStores DEF MetaStep
  <2> QED
    BY <2>1, <2>2
<1>5. CASE BufferValue \/ Characters
  BY <1>5 DEF BufferValue, Characters, At, docVars, outVars, TypeInv, TypeOK, BufferType,
              MetaStep, MetaRead, SameChunks
<1>6. CASE CloseValue
  <2>1. CASE CloseFails(AttrTag(pending), pending.prefix)
    BY <2>1, DieStores DEF CloseFails
  <2>2. CASE ~CloseFails(AttrTag(pending), pending.prefix)
    <3>1. /\ CloseTag(AttrTag(pending), pending.prefix) /\ UNCHANGED <<config, texts>>
          /\ status' = "parsing"
      BY <1>6, <2>2 DEF CloseValue, At
    <3>2. AttrTag(pending) \in Name \ Reserved /\ pending.prefix \in Word
      BY <1>6, PendingAttrType DEF CloseValue, At, TypeInv
    <3> QED
      BY <3>1, <3>2, CloseTagStores DEF MetaStep
  <2> QED
    BY <2>1, <2>2
<1>7. CASE PushElement
  <2>1. pending \in Elements
    BY <1>7 DEF PushElement, At, TypeInv, PhaseFacts
  <2>2. SwishTag(pending) \in Name /\ NoTag \in Name
    BY <2>1, SwishTagType, ReservedNames DEF TypeInv, TypeOK
  <2>3. PICK bare \in Name : \/ OpenFails(pending.raw, bare)
                             \/ /\ OpenTag(pending.raw, pending.prefix, bare)
                                /\ UNCHANGED <<config, status, texts>> /\ status = "parsing"
    BY <1>7, <2>2 DEF PushElement, At, histVars
  <2>4. CASE OpenFails(pending.raw, bare)
    BY <2>4, DieStores DEF OpenFails
  <2>5. CASE ~OpenFails(pending.raw, bare)
    BY <2>3, <2>5, OpenTagStores DEF MetaStep
  <2> QED
    BY <2>4, <2>5
<1>8. CASE EndElement
  <2> DEFINE raw    == Top(open).raw
             prefix == Top(open).prefix
  <2>1. CASE CloseFails(raw, prefix)
    BY <2>1, DieStores DEF CloseFails
  <2>2. CASE ~CloseFails(raw, prefix)
    <3>1. CloseTag(raw, prefix) /\ UNCHANGED <<config, texts>> /\ status' = "parsing"
      BY <1>8, <2>2 DEF EndElement, At
    <3>2. Top(open) \in OpenElement
      BY <1>8, TopType DEF EndElement, TypeInv, TypeOK, DocType
    <3>3. raw \in Name \ Reserved /\ prefix \in Word
      BY <3>2 DEF OpenElement
    <3> HIDE DEF raw, prefix
    <3> QED
      BY <3>1, <3>3, CloseTagStores DEF MetaStep
  <2> QED
    BY <2>1, <2>2
<1>9. CASE CommentNoindex \/ CommentIndex \/ CommentOther
  BY <1>9 DEF CommentNoindex, CommentIndex, CommentOther, bufVars, outVars, MetaStep, MetaKept,
              SameChunks
<1>10. CASE EndDocument
  <2>1. /\ SwishDefault \in Name /\ metastack \in Seq(Entries) /\ {} \in SUBSET Name
        /\ metastack # << >> /\ metastack[1].baked = SwishDefault
    BY ReservedNames DEF TypeInv, TypeOK, StackType, Bases
  <2>2. FlushTo(SwishDefault, metastack, {}) /\ UNCHANGED <<config, texts>>
    BY <1>10 DEF EndDocument, histVars
  <2> QED
    BY <2>1, <2>2 DEF MetaStep, MetaFlushed
<1>11. CASE UNCHANGED vars
  BY <1>11 DEF vars, docVars, bufVars, outVars, histVars, MetaStep, MetaKept, SameChunks
<1> QED
  BY <1>1, <1>2, <1>3, <1>4, <1>5, <1>6, <1>7, <1>8, <1>9, <1>10, <1>11 DEF Next, Finished

LEMMA WordSteps == TypeInv /\ [Next]_vars => WordStep
<1> SUFFICES ASSUME TypeInv, [Next]_vars PROVE WordStep
  OBVIOUS
<1>1. MetaFlushed => WordsFlushed
  BY DEF MetaFlushed, FlushTo, WordsFlushed
<1>2. (MetaRead => WordRead) /\ (MetaKept => WordsKept)
  BY DEF MetaRead, WordRead, MetaKept, WordsKept
<1> QED BY <1>1, <1>2, MetaSteps DEF MetaStep, WordStep

(***************************************************************************)
(* The inductive invariant.  A word waits in meta_buf or has its token;    *)
(* the waiting words are in order and behind all tokens.                   *)
(***************************************************************************)
WaitingInOrder ==
  /\ \A i \in 1..Len(meta_buf) : meta_buf[i] # BUMP => meta_buf[i] \in KeptTexts
  /\ \A i, j \in 1..Len(meta_buf) :
       meta_buf[i] # BUMP /\ meta_buf[j] # BUMP /\ i < j => meta_buf[i] < meta_buf[j]

TokensInOrder ==
  /\ \A t \in tokens : t.text \in KeptTexts /\ t.pos <= pos
  /\ \A t, u \in tokens :
       /\ t.text < u.text => t.pos < u.pos
       /\ t.text = u.text => t = u

WaitingBehindTokens ==
  \A t \in tokens, i \in 1..Len(meta_buf) : meta_buf[i] # BUMP => t.text < meta_buf[i]

NoneLost ==
  /\ Tokenize => \A r \in KeptTexts :
       \/ \E i \in 1..Len(meta_buf) : meta_buf[i] = r
       \/ \E t \in tokens : t.text = r
  /\ status = "done" => meta_buf = << >>

WordInv == WaitingInOrder /\ TokensInOrder /\ WaitingBehindTokens /\ NoneLost

LEMMA WordInit == Init => WordInv
BY EmptySeq DEF Init, WordInv, WaitingInOrder, TokensInOrder, WaitingBehindTokens, NoneLost,
                KeptTexts

\* A flush turns the waiting words into tokens behind all others.
LEMMA FlushedWords ==
  ASSUME TypeOK, WordInv, WordsFlushed, config' = config
  PROVE  WordInv'
<1>1. PICK name \in Name : tokens' = tokens \cup TokensFrom(name)
  BY DEF WordsFlushed
<1>2. /\ pos' = IF Tokenize THEN pos + Len(meta_buf) ELSE pos
      /\ meta_buf' = << >> /\ texts' = texts /\ KeptTexts' = KeptTexts
  BY DEF WordsFlushed, KeptTexts
<1>3. Len(meta_buf) \in Nat /\ pos \in Nat /\ Len(meta_buf') = 0 /\ pos' \in Nat /\ pos <= pos'
  <2>1. Len(meta_buf) \in Nat /\ pos \in Nat
    BY LenProperties DEF TypeOK, BufferType, Waiting, OutType
  <2> QED
    BY <1>2, <2>1, EmptySeq
<1>4. \A t \in TokensFrom(name) :
        /\ Tokenize
        /\ \E i \in 1..Len(meta_buf) :
             /\ meta_buf[i] # BUMP
             /\ t = [meta |-> MetaStoredAs(name), text |-> meta_buf[i], pos |-> pos + i]
  BY DEF TokensFrom
<1>5. \A t \in tokens : t.pos \in Nat /\ t.text \in Nat
  BY DEF TypeOK, OutType, Runs
<1>6. \A i \in 1..Len(meta_buf) : meta_buf[i] # BUMP => meta_buf[i] \in Nat
  BY DEF WordInv, WaitingInOrder, KeptTexts
<1>7. TokensInOrder'
  <2>1. ASSUME NEW t \in tokens' PROVE t.text \in KeptTexts /\ t.pos <= pos'
    <3>1. CASE t \in tokens
      BY <1>3, <1>5, <3>1 DEF WordInv, TokensInOrder
    <3>2. CASE t \in TokensFrom(name)
      <4>1. PICK i \in 1..Len(meta_buf) :
              /\ meta_buf[i] # BUMP
              /\ t = [meta |-> MetaStoredAs(name), text |-> meta_buf[i], pos |-> pos + i]
        BY <1>4, <3>2
      <4>2. Tokenize
        BY <1>4, <3>2
      <4>3. t.text \in KeptTexts /\ t.pos = pos + i
        BY <4>1 DEF WordInv, WaitingInOrder
      <4> QED
        BY <1>2, <1>3, <4>2, <4>3
    <3> QED
      BY <1>1, <3>1, <3>2
  <2>2. ASSUME NEW t \in tokens', NEW u \in tokens'
        PROVE  (t.text < u.text => t.pos < u.pos) /\ (t.text = u.text => t = u)
    <3>1. CASE t \in tokens /\ u \in tokens
      BY <3>1 DEF WordInv, TokensInOrder
    <3>2. CASE t \in tokens /\ u \in TokensFrom(name)
      <4>1. PICK i \in 1..Len(meta_buf) :
              /\ meta_buf[i] # BUMP
              /\ u = [meta |-> MetaStoredAs(name), text |-> meta_buf[i], pos |-> pos + i]
        BY <1>4, <3>2
      <4>2. t.text < u.text /\ t.pos <= pos /\ u.pos = pos + i
        BY <3>2, <4>1 DEF WordInv, WaitingBehindTokens, TokensInOrder
      <4> QED
        BY <1>3, <1>5, <1>6, <3>2, <4>1, <4>2
    <3>3. CASE t \in TokensFrom(name) /\ u \in tokens
      <4>1. PICK i \in 1..Len(meta_buf) :
              /\ meta_buf[i] # BUMP
              /\ t = [meta |-> MetaStoredAs(name), text |-> meta_buf[i], pos |-> pos + i]
        BY <1>4, <3>3
      <4>2. u.text < t.text
        BY <3>3, <4>1 DEF WordInv, WaitingBehindTokens
      <4> QED
        BY <1>5, <1>6, <3>3, <4>1, <4>2
    <3>4. CASE t \in TokensFrom(name) /\ u \in TokensFrom(name)
      <4>1. PICK i \in 1..Len(meta_buf) :
              /\ meta_buf[i] # BUMP
              /\ t = [meta |-> MetaStoredAs(name), text |-> meta_buf[i], pos |-> pos + i]
        BY <1>4, <3>4
      <4>2. PICK j \in 1..Len(meta_buf) :
              /\ meta_buf[j] # BUMP
              /\ u = [meta |-> MetaStoredAs(name), text |-> meta_buf[j], pos |-> pos + j]
        BY <1>4, <3>4
      <4>3. t.text = meta_buf[i] /\ u.text = meta_buf[j] /\ t.pos = pos + i /\ u.pos = pos + j
        BY <4>1, <4>2
      <4>4. meta_buf[i] \in Nat /\ meta_buf[j] \in Nat /\ i \in Nat /\ j \in Nat
        BY <1>3, <1>6, <4>1, <4>2
      <4>5. /\ i < j => meta_buf[i] < meta_buf[j]
            /\ j < i => meta_buf[j] < meta_buf[i]
        BY <4>1, <4>2 DEF WordInv, WaitingInOrder
      <4>6. CASE i < j
        BY <1>3, <4>3, <4>4, <4>5, <4>6
      <4>7. CASE j < i
        BY <1>3, <4>3, <4>4, <4>5, <4>7
      <4>8. CASE i = j
        BY <4>1, <4>2, <4>4, <4>8
      <4> QED
        BY <4>4, <4>6, <4>7, <4>8
    <3> QED
      BY <1>1, <3>1, <3>2, <3>3, <3>4
  <2> QED
    BY <1>2, <2>1, <2>2 DEF TokensInOrder
<1>8. WaitingInOrder' /\ WaitingBehindTokens'
  BY <1>3 DEF WaitingInOrder, WaitingBehindTokens
<1>9. NoneLost'
  <2>1. ASSUME Tokenize, NEW r \in KeptTexts PROVE \E t \in tokens' : t.text = r
    <3>1. CASE \E t \in tokens : t.text = r
      BY <1>1, <3>1
    <3>2. CASE \E i \in 1..Len(meta_buf) : meta_buf[i] = r
      <4>1. PICK i \in 1..Len(meta_buf) : meta_buf[i] = r
        BY <3>2
      <4>2. meta_buf[i] # BUMP
        <5>1. r \in 1..Len(texts) /\ Len(texts) \in Nat
          BY LenProperties DEF KeptTexts, TypeOK, HistoryType
        <5> QED
          BY <4>1, <5>1 DEF BUMP
      <4>3. [meta |-> MetaStoredAs(name), text |-> meta_buf[i], pos |-> pos + i]
              \in TokensFrom(name)
        BY <2>1, <4>2 DEF TokensFrom
      <4> QED
        BY <1>1, <4>1, <4>3
    <3> QED
      BY <2>1, <3>1, <3>2 DEF WordInv, NoneLost
  <2>2. Tokenize' = Tokenize
    BY DEF Tokenize
  <2> QED
    BY <1>2, <2>1, <2>2 DEF NoneLost
<1> QED
  BY <1>7, <1>8, <1>9 DEF WordInv

\* buffer_characters puts the next word, if it is kept, behind the waiting ones.
LEMMA ReadWords ==
  ASSUME TypeOK, WordInv, WordRead, config' = config
  PROVE  WordInv'
<1> DEFINE run == Len(texts) + 1
<1>1. PICK bump \in BOOLEAN : BufferCharacters(bump)
  BY DEF WordRead
<1>2. PICK text \in Text : texts' = Append(texts, text) /\ text.kept = (ignore_content = 0)
  <2> DEFINE text == [owner |-> InnermostMeta, props |-> OpenProps, metas |-> OpenMetas,
                      segment |-> segment, noindex |-> noindex,
                      kept |-> ignore_content = 0]
  <2>1. text \in Text
    BY InnermostType DEF Text, TypeOK, HistoryType
  <2>2. texts' = Append(texts, text)
    BY <1>1 DEF BufferCharacters
  <2> QED
    BY <2>1, <2>2
<1>3. /\ Len(texts) \in Nat /\ Len(texts') = run /\ texts'[run] = text
      /\ \A r \in 1..Len(texts) : texts'[r] = texts[r]
  BY <1>2, AppendProperties, LenProperties DEF TypeOK, HistoryType
<1>4. KeptTexts' = IF ignore_content = 0 THEN KeptTexts \cup {run} ELSE KeptTexts
  <2>1. 1..Len(texts') = 1..Len(texts) \cup {run} /\ run \notin 1..Len(texts)
    BY <1>3
  <2>2. \A r \in 1..Len(texts) : texts'[r].kept = texts[r].kept
    BY <1>3
  <2>3. texts'[run].kept = (ignore_content = 0)
    BY <1>2, <1>3
  <2> HIDE DEF run
  <2> QED
    BY <2>1, <2>2, <2>3, Zenon DEF KeptTexts
<1>5. \A r \in KeptTexts : r \in Nat /\ r < run
  BY <1>3 DEF KeptTexts
<1>6. tokens' = tokens /\ pos' = pos /\ Tokenize' = Tokenize /\ status' # "done"
  BY DEF WordRead, Tokenize
<1>7. TokensInOrder'
  BY <1>4, <1>6 DEF WordInv, TokensInOrder
<1>8. CASE ignore_content > 0
  <2>1. meta_buf' = meta_buf /\ KeptTexts' = KeptTexts
    BY <1>1, <1>4, <1>8 DEF BufferCharacters
  <2> QED
    BY <1>6, <1>7, <2>1
       DEF WordInv, WaitingInOrder, WaitingBehindTokens, NoneLost
<1>9. CASE ~(ignore_content > 0)
  <2>0. KeptTexts' = KeptTexts \cup {run}
    BY <1>4, <1>9 DEF TypeOK, BufferType
  <2>1. /\ meta_buf \in Seq({BUMP} \cup Runs) /\ Len(meta_buf) \in Nat
        /\ meta_buf' = Buffered(meta_buf, run, bump)
    BY <1>1, <1>9, LenProperties DEF BufferCharacters, TypeOK, BufferType, Waiting
  <2>2. PICK n \in Nat :
          /\ Len(meta_buf') = n + 1 /\ n >= Len(meta_buf)
          /\ meta_buf'[n + 1] = run
          /\ \A i \in 1..Len(meta_buf) : meta_buf'[i] = meta_buf[i]
          /\ \A i \in 1..n : i > Len(meta_buf) => meta_buf'[i] = BUMP
    <3>1. CASE bump /\ meta_buf # << >>
      <4>1. meta_buf' = meta_buf \o <<BUMP, run>>
        BY <2>1, <3>1 DEF Buffered
      <4>2. /\ Len(meta_buf') = Len(meta_buf) + 2
            /\ meta_buf'[Len(meta_buf) + 1] = BUMP /\ meta_buf'[Len(meta_buf) + 2] = run
            /\ \A i \in 1..Len(meta_buf) : meta_buf'[i] = meta_buf[i]
        <5> HIDE DEF run
        <5> QED
          BY <2>1, <4>1
      <4> QED
        BY <2>1, <4>2
    <3>2. CASE ~(bump /\ meta_buf # << >>)
      <4>1. meta_buf' = Append(meta_buf, run)
        BY <2>1, <3>2 DEF Buffered
      <4>2. /\ Len(meta_buf') = Len(meta_buf) + 1 /\ meta_buf'[Len(meta_buf) + 1] = run
            /\ \A i \in 1..Len(meta_buf) : meta_buf'[i] = meta_buf[i]
        <5> HIDE DEF run
        <5> QED
          BY <2>1, <4>1
      <4> QED
        BY <2>1, <4>2
    <3> QED
      BY <3>1, <3>2
  <2>3. ASSUME NEW i \in 1..Len(meta_buf'), meta_buf'[i] # BUMP
        PROVE  \/ i \in 1..Len(meta_buf) /\ meta_buf'[i] = meta_buf[i]
                                          /\ meta_buf[i] \in KeptTexts
               \/ i = n + 1 /\ meta_buf'[i] = run
    <3>1. i \in 1..Len(meta_buf) \/ (i \in 1..n /\ i > Len(meta_buf)) \/ i = n + 1
      BY <2>1, <2>2
    <3> QED
      BY <2>2, <2>3, <3>1 DEF WordInv, WaitingInOrder
  <2>4. WaitingInOrder'
    <3>1. ASSUME NEW i \in 1..Len(meta_buf'), meta_buf'[i] # BUMP
          PROVE  meta_buf'[i] \in KeptTexts'
      BY <2>0, <2>3, <3>1
    <3>2. ASSUME NEW i \in 1..Len(meta_buf'), NEW j \in 1..Len(meta_buf'),
                 meta_buf'[i] # BUMP, meta_buf'[j] # BUMP, i < j
          PROVE  meta_buf'[i] < meta_buf'[j]
      <4>1. i \in 1..Len(meta_buf) /\ meta_buf'[i] = meta_buf[i] /\ meta_buf[i] \in KeptTexts
        <5>1. i # n + 1
          BY <2>2, <3>2
        <5> QED
          BY <2>3, <3>2, <5>1
      <4>2. CASE j \in 1..Len(meta_buf)
        BY <2>2, <3>2, <4>1, <4>2 DEF WordInv, WaitingInOrder
      <4>3. CASE j = n + 1
        BY <1>5, <2>2, <4>1, <4>3
      <4> QED
        BY <2>3, <3>2, <4>2, <4>3
    <3> QED
      BY <3>1, <3>2 DEF WaitingInOrder
  <2>5. WaitingBehindTokens'
    <3>1. ASSUME NEW t \in tokens, NEW i \in 1..Len(meta_buf'), meta_buf'[i] # BUMP
          PROVE  t.text < meta_buf'[i]
      <4>1. t.text \in KeptTexts
        BY DEF WordInv, TokensInOrder
      <4>2. CASE i \in 1..Len(meta_buf) /\ meta_buf'[i] = meta_buf[i]
        BY <3>1, <4>2 DEF WordInv, WaitingBehindTokens
      <4>3. CASE i = n + 1
        BY <1>5, <2>2, <4>1, <4>3
      <4> QED
        BY <2>3, <3>1, <4>2, <4>3
    <3> QED
      BY <1>6, <3>1 DEF WaitingBehindTokens
  <2>6. NoneLost'
    <3>1. ASSUME Tokenize, NEW r \in KeptTexts'
          PROVE  \/ \E i \in 1..Len(meta_buf') : meta_buf'[i] = r
                 \/ \E t \in tokens : t.text = r
      <4>1. CASE r = run
        BY <2>2, <4>1
      <4>2. CASE r \in KeptTexts
        <5>1. CASE \E i \in 1..Len(meta_buf) : meta_buf[i] = r
          <6>1. PICK i \in 1..Len(meta_buf) : meta_buf[i] = r
            BY <5>1
          <6>2. i \in 1..Len(meta_buf') /\ meta_buf'[i] = r
            BY <2>1, <2>2, <6>1
          <6> QED
            BY <6>2
        <5> QED
          BY <3>1, <4>2, <5>1 DEF WordInv, NoneLost
      <4> QED
        BY <2>0, <3>1, <4>1, <4>2
    <3> QED
      BY <1>6, <3>1 DEF NoneLost
  <2> QED
    BY <1>7, <2>4, <2>5, <2>6 DEF WordInv
<1> QED
  BY <1>8, <1>9

LEMMA WordNext == TypeInv /\ WordInv /\ [Next]_vars => WordInv'
<1> SUFFICES ASSUME TypeInv, WordInv, [Next]_vars PROVE WordInv'
  OBVIOUS
<1>1. config' = config /\ (WordsFlushed \/ WordRead \/ WordsKept)
  BY WordSteps DEF WordStep
<1>2. CASE WordsFlushed
  BY <1>1, <1>2, FlushedWords DEF TypeInv
<1>3. CASE WordRead
  BY <1>1, <1>3, ReadWords DEF TypeInv
<1>4. CASE WordsKept
  BY <1>1, <1>4 DEF WordsKept, WordInv, WaitingInOrder, TokensInOrder, WaitingBehindTokens,
                    NoneLost, KeptTexts, Tokenize
<1> QED
  BY <1>1, <1>2, <1>3, <1>4

LEMMA WordInvariant == Spec => [](TypeInv /\ WordInv)
BY TypeInit, TypeNext, WordInit, WordNext, PTL DEF Spec

\* tokenize numbers the words of all metanames in document order, whatever is
\* flushed when: no flush_buffer takes a position back or gives one twice.
THEOREM PositionsCorrect == Spec => []PositionsFollowDocument
<1>1. WordInv => PositionsFollowDocument
  BY DEF WordInv, TokensInOrder, PositionsFollowDocument
<1> QED
  BY <1>1, WordInvariant, PTL

LEMMA OncePlaced == TypeInv /\ WordInv => EveryWordOnce
<1> SUFFICES ASSUME TypeInv, WordInv PROVE EveryWordOnce
  OBVIOUS
<1>1. \A r \in KeptTexts : r \in Nat /\ r # BUMP
  <2>1. Len(texts) \in Nat
    BY LenProperties DEF TypeInv, TypeOK, HistoryType
  <2> QED
    BY <2>1 DEF KeptTexts, BUMP
<1>2. ASSUME Tokenize, NEW r \in KeptTexts
      PROVE  Uses(meta_buf, r) + Cardinality(TokensOf(r)) = 1
  <2> DEFINE places == {i \in 1..Len(meta_buf) : meta_buf[i] = r}
  <2>1. CASE \E i \in 1..Len(meta_buf) : meta_buf[i] = r
    <3>1. PICK i \in 1..Len(meta_buf) : meta_buf[i] = r
      BY <2>1
    <3>2. TokensOf(r) = {}
      BY <1>1, <3>1 DEF TokensOf, WordInv, WaitingBehindTokens
    <3>3. \A j \in places : j = i
      <4>1. Len(meta_buf) \in Nat
        BY LenProperties DEF TypeInv, TypeOK, BufferType, Waiting
      <4>2. \A j \in places : ~(i < j) /\ ~(j < i)
        BY <1>1, <3>1 DEF WordInv, WaitingInOrder
      <4> QED
        BY <4>1, <4>2
    <3>4. places = {i}
      BY <3>1, <3>3
    <3>5. Uses(meta_buf, r) = 1
      BY <3>4, FS_Singleton DEF Uses
    <3> QED
      BY <3>2, <3>5, FS_EmptySet
  <2>2. CASE \E t \in tokens : t.text = r
    <3>1. PICK t \in tokens : t.text = r
      BY <2>2
    <3>2. \A u \in TokensOf(r) : u = t
      BY <3>1 DEF TokensOf, WordInv, TokensInOrder
    <3>3. TokensOf(r) = {t}
      BY <3>1, <3>2 DEF TokensOf
    <3>4. places = {}
      BY <1>1, <3>1 DEF WordInv, WaitingBehindTokens
    <3>5. Uses(meta_buf, r) = 0
      BY <3>4, FS_EmptySet DEF Uses
    <3> QED
      BY <3>3, <3>5, FS_Singleton
  <2> QED
    BY <1>2, <2>1, <2>2 DEF WordInv, NoneLost
<1>3. \A t \in tokens : t.text \in KeptTexts
  BY DEF WordInv, TokensInOrder
<1> QED
  BY <1>2, <1>3 DEF EveryWordOnce, WordInv, NoneLost

\* Every word that buffer_characters lets in becomes exactly one token, in HTML
\* and XML and under every configuration, a truncated document included.
THEOREM WordsCorrect == Spec => []EveryWordOnce
BY WordInvariant, OncePlaced, PTL

(***************************************************************************)
(* What a document teaches the configuration.                              *)
(***************************************************************************)
\* How the names and their buffers grow together.
NamesGrow ==
  /\ metanames \subseteq metanames' /\ properties \subseteq properties'
  /\ DOMAIN metabufs \cup (metanames' \ metanames) \subseteq DOMAIN metabufs'
  /\ DOMAIN propbufs \cup (properties' \ properties) \subseteq DOMAIN propbufs'

LEMMA GrowDomain ==
  ASSUME NEW bufs, NEW names, NEW chunk, NEW times
  PROVE  /\ DOMAIN Grow(bufs, names) = DOMAIN bufs \cup names
         /\ DOMAIN Grow(bufs, names) \subseteq DOMAIN AddChunk(Grow(bufs, names), chunk, times)
<1> DEFINE grown == Grow(bufs, names)
<1>1. DOMAIN grown = DOMAIN bufs \cup names
  BY DEF Grow
<1> HIDE DEF grown
<1>2. DOMAIN grown \subseteq DOMAIN AddChunk(grown, chunk, times)
  BY DEF AddChunk
<1> QED
  BY <1>1, <1>2 DEF grown

LEMMA GrownDomain ==
  ASSUME NEW bufs, NEW names, NEW new,
         \/ \E chunk, times : new = AddChunk(Grow(bufs, names), chunk, times)
         \/ new = Grow(bufs, names)
  PROVE  DOMAIN bufs \cup names \subseteq DOMAIN new
<1>1. DOMAIN Grow(bufs, names) = DOMAIN bufs \cup names
  BY GrowDomain
<1>2. CASE new = Grow(bufs, names)
  BY <1>1, <1>2
<1>3. CASE new # Grow(bufs, names)
  <2>1. PICK chunk, times : new = AddChunk(Grow(bufs, names), chunk, times)
    BY <1>3
  <2>2. DOMAIN Grow(bufs, names) \subseteq DOMAIN AddChunk(Grow(bufs, names), chunk, times)
    BY GrowDomain
  <2> QED
    BY <1>1, <2>1, <2>2
<1> QED
  BY <1>2, <1>3

LEMMA DieNames == ASSUME Die("croaked") \/ Die("crashed") PROVE NamesGrow
BY DEF Die, configVars, outVars, NamesGrow

LEMMA OpenTagNames ==
  ASSUME TypeInv, NEW raw, NEW prefix, NEW bare \in Name, OpenTag(raw, prefix, bare)
  PROVE  NamesGrow
<1> DEFINE metas == MetasAfter(bare) \ metanames
           props == PropsAfter(bare) \ properties
<1>1. metanames \subseteq MetasAfter(bare) /\ properties \subseteq PropsAfter(bare)
  BY LearnType DEF TypeInv, TypeOK
<1>2. metanames' = MetasAfter(bare) /\ properties' = PropsAfter(bare)
  BY DEF OpenTag
<1>3. \/ FlushTo(Top(metastack).baked, metastack, metas)
      \/ NoFlush(metas)
  BY DEF OpenTag
<1>4. FlushProps(NoTag, propstack, props) \/ KeepProps(props)
  BY DEF OpenTag
<1> HIDE DEF metas, props
<1>5. DOMAIN metabufs \cup metas \subseteq DOMAIN metabufs'
  <2>1. \/ \E chunk, times : metabufs' = AddChunk(Grow(metabufs, metas), chunk, times)
        \/ metabufs' = Grow(metabufs, metas)
    BY <1>3, Zenon DEF FlushTo, NoFlush
  <2> QED
    BY <2>1, GrownDomain
<1>6. DOMAIN propbufs \cup props \subseteq DOMAIN propbufs'
  <2>1. \/ \E chunk, times : propbufs' = AddChunk(Grow(propbufs, props), chunk, times)
        \/ propbufs' = Grow(propbufs, props)
    BY <1>4, Zenon DEF FlushProps, KeepProps
  <2> QED
    BY <2>1, GrownDomain
<1> QED
  BY <1>1, <1>2, <1>5, <1>6 DEF NamesGrow, metas, props

LEMMA CloseTagNames ==
  ASSUME TypeInv, NEW raw \in Name, NEW prefix \in Word, CloseTag(raw, prefix)
  PROVE  NamesGrow
<1> DEFINE bare  == Qualify(prefix, raw)
           metas == MetasAfter(bare) \ metanames
           props == PropsAfter(bare) \ properties
<1>1. metanames \subseteq MetasAfter(bare) /\ properties \subseteq PropsAfter(bare)
  BY QualifyType, LearnType DEF TypeInv, TypeOK
<1>2. metanames' = MetasAfter(bare) /\ properties' = PropsAfter(bare)
  BY DEF CloseTag
<1>3. \/ FlushTo(Top(metastack).baked, Pop(metastack), metas)
      \/ NoFlush(metas)
  BY DEF CloseTag
<1>4. FlushProps(Top(propstack).baked, Pop(propstack), props) \/ KeepProps(props)
  BY DEF CloseTag
<1> HIDE DEF metas, props
<1>5. DOMAIN metabufs \cup metas \subseteq DOMAIN metabufs'
  <2>1. \/ \E chunk, times : metabufs' = AddChunk(Grow(metabufs, metas), chunk, times)
        \/ metabufs' = Grow(metabufs, metas)
    BY <1>3, Zenon DEF FlushTo, NoFlush
  <2> QED
    BY <2>1, GrownDomain
<1>6. DOMAIN propbufs \cup props \subseteq DOMAIN propbufs'
  <2>1. \/ \E chunk, times : propbufs' = AddChunk(Grow(propbufs, props), chunk, times)
        \/ propbufs' = Grow(propbufs, props)
    BY <1>4, Zenon DEF FlushProps, KeepProps
  <2> QED
    BY <2>1, GrownDomain
<1> QED
  BY <1>1, <1>2, <1>5, <1>6 DEF NamesGrow, metas, props

LEMMA NamesNext == TypeInv /\ [Next]_vars => NamesGrow
<1> SUFFICES ASSUME TypeInv, [Next]_vars PROVE NamesGrow
  OBVIOUS
<1>1. ASSUME NEW e \in Elements, StartElement(e) PROVE NamesGrow
  BY <1>1 DEF StartElement, configVars, outVars, NamesGrow
<1>2. CASE XmlAttribute \/ HtmlMeta
  <2>1. CASE Die("croaked")
    BY <2>1, DieNames
  <2>2. CASE ~Die("croaked")
    <3>1. PICK metas, props :
            /\ metanames' = metas /\ properties' = props
            /\ metanames \subseteq metas /\ properties \subseteq props
            /\ metabufs' = Grow(metabufs, metas \ metanames)
            /\ propbufs' = Grow(propbufs, props \ properties)
      BY <1>2, <2>2 DEF XmlAttribute, HtmlMeta, Learn
    <3> QED
      BY <3>1, GrowDomain DEF NamesGrow
  <2> QED
    BY <2>1, <2>2
<1>3. CASE OpenValue
  <2>1. /\ pending.prefix \in Word /\ AttrTag(pending) \in Name
        /\ Qualify(pending.prefix, AttrTag(pending)) \in Name
    BY <1>3, PendingAttrType DEF OpenValue, At, TypeInv
  <2> QED
    BY <1>3, <2>1, DieNames, OpenTagNames DEF OpenValue, OpenFails
<1>4. CASE BufferValue \/ Characters
  BY <1>4 DEF BufferValue, Characters, configVars, outVars, NamesGrow
<1>5. CASE CloseValue
  <2>1. pending.prefix \in Word /\ AttrTag(pending) \in Name
    BY <1>5, PendingAttrType DEF CloseValue, At, TypeInv
  <2> QED
    BY <1>5, <2>1, DieNames, CloseTagNames DEF CloseValue, CloseFails
<1>6. CASE PushElement
  <2>1. pending \in Elements
    BY <1>6 DEF PushElement, At, TypeInv, PhaseFacts
  <2>2. SwishTag(pending) \in Name /\ NoTag \in Name
    BY <2>1, SwishTagType, ReservedNames DEF TypeInv, TypeOK
  <2>3. \E bare \in Name : \/ OpenFails(pending.raw, bare)
                            \/ OpenTag(pending.raw, pending.prefix, bare)
    BY <1>6, <2>2 DEF PushElement
  <2> QED
    BY <2>3, DieNames, OpenTagNames DEF OpenFails
<1>7. CASE EndElement
  <2>1. Top(open) \in OpenElement
    BY <1>7, TopType DEF EndElement, TypeInv, TypeOK, DocType
  <2>2. Top(open).raw \in Name /\ Top(open).prefix \in Word
    BY <2>1 DEF OpenElement
  <2> QED
    BY <1>7, <2>2, DieNames, CloseTagNames DEF EndElement, CloseFails
<1>8. CASE CommentNoindex \/ CommentIndex \/ CommentOther
  BY <1>8 DEF CommentNoindex, CommentIndex, CommentOther, configVars, outVars, NamesGrow
<1>9. CASE EndDocument
  BY <1>9, GrowDomain DEF EndDocument, FlushTo, configVars, NamesGrow
<1>10. CASE UNCHANGED vars
  BY <1>10 DEF vars, configVars, outVars, NamesGrow
<1> QED
  BY <1>1, <1>2, <1>3, <1>4, <1>5, <1>6, <1>7, <1>8, <1>9, <1>10 DEF Next, Finished

\* Each name that the undefined-tag switches add to the configuration has its
\* NamedBuffer at once, so no later flush_buffer misses one.
THEOREM LearntNamesCorrect == Spec => []LearntNamesHaveBuffers
<1>1. Init => LearntNamesHaveBuffers
  BY DEF Init, LearntNamesHaveBuffers
<1>2. LearntNamesHaveBuffers /\ NamesGrow => LearntNamesHaveBuffers'
  BY DEF LearntNamesHaveBuffers, NamesGrow
<1> QED
  BY <1>1, <1>2, TypeInit, TypeNext, NamesNext, PTL DEF Spec

\* While a document is parsed nothing is taken from the configuration's names,
\* no token is changed or removed and no position is used again.
THEOREM GrowthCorrect == Spec => OnlyGrows
<1>1. TypeInv /\ TypeInv' /\ [Next]_vars =>
        [/\ metanames \subseteq metanames' /\ properties \subseteq properties'
         /\ tokens \subseteq tokens' /\ pos <= pos']_vars
  <2> SUFFICES ASSUME TypeInv, [Next]_vars
               PROVE  /\ metanames \subseteq metanames' /\ properties \subseteq properties'
                      /\ tokens \subseteq tokens' /\ pos <= pos'
    OBVIOUS
  <2>1. metanames \subseteq metanames' /\ properties \subseteq properties'
    BY NamesNext DEF NamesGrow
  <2>2. pos \in Nat /\ Len(meta_buf) \in Nat
    BY LenProperties DEF TypeInv, TypeOK, OutType, BufferType, Waiting
  <2>3. WordsFlushed \/ WordRead \/ WordsKept
    BY WordSteps DEF WordStep
  <2>4. tokens \subseteq tokens' /\ pos <= pos'
    BY <2>2, <2>3 DEF WordsFlushed, WordRead, WordsKept
  <2> QED
    BY <2>1, <2>4
<1> QED
  BY <1>1, TypeInit, TypeNext, PTL DEF Spec, OnlyGrows

-----------------------------------------------------------------------------
(* Hidden text.                                                            *)

\* What a step does to the counter the parser hides text by and to the count of
\* the comments that the document has opened.
CountersStep ==
  \/ UNCHANGED <<ignore_content, noindex>>
  \/ /\ UndefinedMetaTags = "ignore"
     /\ ignore_content' = ignore_content + 1 /\ noindex' = noindex
  \/ /\ ~IsHTML /\ UndefinedMetaTags = "index"
     /\ ignore_content' = 0 /\ noindex' = noindex
  \/ ignore_content' = ignore_content + 1 /\ noindex' = noindex + 1
  \/ /\ ignore_content' = Unignore(ignore_content)
     /\ noindex' = IF noindex > 0 THEN noindex - 1 ELSE 0

LEMMA IgnoreAfterStep ==
  ASSUME NEW bare, ignore_content' = IgnoreAfter(bare), noindex' = noindex
  PROVE  CountersStep
BY DEF IgnoreAfter, Undefined, CountersStep

LEMMA DieCounters ==
  ASSUME Die("croaked") \/ Die("crashed") PROVE CountersStep
BY DEF Die, flagVars, histVars, CountersStep

LEMMA CountersNext == [Next]_vars => CountersStep
<1> SUFFICES ASSUME [Next]_vars PROVE CountersStep
  OBVIOUS
<1>1. ASSUME NEW e \in Elements, StartElement(e) PROVE CountersStep
  BY <1>1 DEF StartElement, CountersStep
<1>2. CASE XmlAttribute
  BY <1>2, DieCounters DEF XmlAttribute, flagVars, CountersStep
<1>3. CASE HtmlMeta
  BY <1>3, DieCounters DEF HtmlMeta, histVars, CountersStep
<1>4. CASE OpenValue
  <2> DEFINE raw  == AttrTag(pending)
             bare == Qualify(pending.prefix, raw)
  <2>1. CASE OpenFails(raw, bare)
    BY <2>1, DieCounters DEF OpenFails
  <2>2. CASE ~OpenFails(raw, bare)
    BY <1>4, <2>2, IgnoreAfterStep DEF OpenValue, OpenTag
  <2> QED BY <2>1, <2>2
<1>5. CASE BufferValue \/ Characters
  BY <1>5 DEF BufferValue, Characters, CountersStep
<1>6. CASE CloseValue
  <2>1. CASE CloseFails(AttrTag(pending), pending.prefix)
    BY <2>1, DieCounters DEF CloseFails
  <2>2. CASE ~CloseFails(AttrTag(pending), pending.prefix)
    BY <1>6, <2>2, IgnoreAfterStep DEF CloseValue, CloseTag
  <2> QED BY <2>1, <2>2
<1>7. CASE PushElement
  <2>1. PICK bare : \/ OpenFails(pending.raw, bare)
                    \/ OpenTag(pending.raw, pending.prefix, bare) /\ noindex' = noindex
    BY <1>7 DEF PushElement, histVars
  <2>2. CASE OpenFails(pending.raw, bare)
    BY <2>2, DieCounters DEF OpenFails
  <2>3. CASE ~OpenFails(pending.raw, bare)
    BY <2>1, <2>3, IgnoreAfterStep DEF OpenTag
  <2> QED BY <2>2, <2>3
<1>8. CASE EndElement
  <2>1. CASE CloseFails(Top(open).raw, Top(open).prefix)
    BY <2>1, DieCounters DEF CloseFails
  <2>2. CASE ~CloseFails(Top(open).raw, Top(open).prefix)
    BY <1>8, <2>2, IgnoreAfterStep DEF EndElement, CloseTag
  <2> QED BY <2>1, <2>2
<1>9. CASE CommentNoindex \/ CommentIndex \/ CommentOther
  BY <1>9 DEF CommentNoindex, CommentIndex, CommentOther, CountersStep
<1>10. CASE EndDocument
  BY <1>10 DEF EndDocument, flagVars, histVars, CountersStep
<1>11. CASE UNCHANGED vars
  BY <1>11 DEF vars, flagVars, histVars, CountersStep
<1> QED
  BY <1>1, <1>2, <1>3, <1>4, <1>5, <1>6, <1>7, <1>8, <1>9, <1>10, <1>11 DEF Next, Finished

\* What a step does to the history of the texts.
LEMMA TextsNext ==
  ASSUME TypeInv, [Next]_vars
  PROVE  \/ texts' = texts
         \/ \E text \in Text : /\ texts' = Append(texts, text)
                               /\ text.noindex = noindex /\ text.kept = (ignore_content = 0)
<1>1. CASE WordRead
  <2> DEFINE text == [owner |-> InnermostMeta, props |-> OpenProps, metas |-> OpenMetas,
                      segment |-> segment, noindex |-> noindex,
                      kept |-> ignore_content = 0]
  <2>1. text \in Text
    BY InnermostType DEF TypeInv, Text, TypeOK, HistoryType
  <2>2. texts' = Append(texts, text)
    BY <1>1 DEF WordRead, BufferCharacters
  <2> QED BY <2>1, <2>2
<1>2. CASE ~WordRead
  BY <1>2, WordSteps DEF WordStep, WordsFlushed, WordsKept
<1> QED BY <1>1, <1>2

\* The parser's counter is never behind the document's, unless an undefined tag
\* resets it; and never ahead of it, unless an undefined tag raises it.
NeverBehind ==
  IsHTML \/ UndefinedMetaTags # "index" =>
    noindex <= ignore_content /\ HiddenTextStaysHidden
NeverAhead ==
  UndefinedMetaTags # "ignore" =>
    ignore_content <= noindex /\ VisibleTextIsKept

LEMMA CountersInit == Init => NeverBehind /\ NeverAhead
BY EmptySeq DEF Init, NeverBehind, NeverAhead, HiddenTextStaysHidden, VisibleTextIsKept

LEMMA CountersKept ==
  TypeInv /\ NeverBehind /\ NeverAhead /\ [Next]_vars => NeverBehind' /\ NeverAhead'
<1> SUFFICES ASSUME TypeInv, NeverBehind, NeverAhead, [Next]_vars
             PROVE  NeverBehind' /\ NeverAhead'
  OBVIOUS
<1>1. config' = config
  BY WordSteps DEF WordStep
<1>2. ignore_content \in Nat /\ noindex \in Nat
  BY DEF TypeInv, TypeOK, BufferType, HistoryType
<1>3. CountersStep
  BY CountersNext
<1>4. /\ IsHTML' = IsHTML /\ UndefinedMetaTags' = UndefinedMetaTags
  BY <1>1 DEF IsHTML, UndefinedMetaTags
<1>5. /\ IsHTML \/ UndefinedMetaTags # "index" => noindex' <= ignore_content'
      /\ UndefinedMetaTags # "ignore" => ignore_content' <= noindex'
  BY <1>2, <1>3 DEF CountersStep, Unignore, NeverBehind, NeverAhead
<1>6. ASSUME NEW r \in 1..Len(texts')
      PROVE  \/ r \in 1..Len(texts) /\ texts'[r] = texts[r]
             \/ texts'[r].noindex = noindex /\ texts'[r].kept = (ignore_content = 0)
  <2>1. CASE texts' = texts
    BY <2>1
  <2>2. CASE texts' # texts
    <3>1. PICK text \in Text : /\ texts' = Append(texts, text)
                               /\ text.noindex = noindex /\ text.kept = (ignore_content = 0)
      BY <2>2, TextsNext
    <3>2. /\ Len(texts) \in Nat /\ Len(texts') = Len(texts) + 1
          /\ texts'[Len(texts) + 1] = text /\ \A i \in 1..Len(texts) : texts'[i] = texts[i]
      BY <3>1, AppendProperties, LenProperties DEF TypeInv, TypeOK, HistoryType
    <3>3. r \in 1..Len(texts) \/ r = Len(texts) + 1
      BY <3>2
    <3> QED BY <3>1, <3>2, <3>3
  <2> QED BY <2>1, <2>2
<1>7. IsHTML \/ UndefinedMetaTags # "index" => HiddenTextStaysHidden'
  <2> SUFFICES ASSUME IsHTML \/ UndefinedMetaTags # "index",
                      NEW r \in 1..Len(texts'), texts'[r].noindex > 0
               PROVE  ~texts'[r].kept
    BY DEF HiddenTextStaysHidden
  <2>1. noindex <= ignore_content /\ HiddenTextStaysHidden
    BY DEF NeverBehind
  <2>2. CASE r \in 1..Len(texts) /\ texts'[r] = texts[r]
    BY <2>1, <2>2 DEF HiddenTextStaysHidden
  <2>3. CASE texts'[r].noindex = noindex /\ texts'[r].kept = (ignore_content = 0)
    <3>1. ignore_content # 0
      BY <1>2, <2>1, <2>3
    <3> QED BY <2>3, <3>1, Zenon
  <2> QED BY <1>6, <2>2, <2>3
<1>8. UndefinedMetaTags # "ignore" => VisibleTextIsKept'
  <2> SUFFICES ASSUME UndefinedMetaTags # "ignore",
                      NEW r \in 1..Len(texts'), texts'[r].noindex = 0
               PROVE  texts'[r].kept
    BY DEF VisibleTextIsKept
  <2>1. ignore_content <= noindex /\ VisibleTextIsKept
    BY DEF NeverAhead
  <2>2. CASE r \in 1..Len(texts) /\ texts'[r] = texts[r]
    BY <2>1, <2>2 DEF VisibleTextIsKept
  <2>3. CASE texts'[r].noindex = noindex /\ texts'[r].kept = (ignore_content = 0)
    <3>1. ignore_content = 0
      BY <1>2, <2>1, <2>3
    <3> QED BY <2>3, <3>1, Zenon
  <2> QED BY <1>6, <2>2, <2>3
<1> QED BY <1>4, <1>5, <1>7, <1>8 DEF NeverBehind, NeverAhead

LEMMA CountersAlways == Spec => [](NeverBehind /\ NeverAhead)
BY TypeInit, TypeNext, CountersInit, CountersKept, PTL DEF Spec

\* Between the comments noindex and index buffer_characters never lets a word in,
\* however deep they nest.  In XML with UndefinedMetaTags "index" an undefined
\* tag resets ignore_content inside such a region: that case is excepted, and the
\* run DocParserNoindex shows it.
THEOREM HiddenCorrect ==
  Spec => [](IsHTML \/ UndefinedMetaTags # "index" => HiddenTextStaysHidden)
<1>1. NeverBehind => (IsHTML \/ UndefinedMetaTags # "index" => HiddenTextStaysHidden)
  BY DEF NeverBehind
<1> QED BY <1>1, CountersAlways, PTL

\* Outside of such a region no word is dropped.  With UndefinedMetaTags "ignore"
\* the text of an undefined element is dropped by design, and the run
\* DocParserIgnoreMeta shows what else is: that case is excepted.
THEOREM VisibleCorrect ==
  Spec => [](UndefinedMetaTags # "ignore" => VisibleTextIsKept)
<1>1. NeverAhead => (UndefinedMetaTags # "ignore" => VisibleTextIsKept)
  BY DEF NeverAhead
<1> QED BY <1>1, CountersAlways, PTL

-----------------------------------------------------------------------------
(* Phrases: what stands side by side in a buffer.                          *)

\* A chunk of a named buffer.
Within(bufs, x) == \E n \in Name : \E c \in 1..Len(Chunks(bufs, n)) : Chunks(bufs, n)[c] = x

LEMMA ConcatElement ==
  ASSUME NEW S, NEW s \in Seq(S), NEW t \in Seq(S), NEW i \in 1..Len(s \o t)
  PROVE  \/ \E j \in 1..Len(s) : (s \o t)[i] = s[j]
         \/ \E j \in 1..Len(t) : (s \o t)[i] = t[j]
<1>1. Len(s) \in Nat /\ Len(t) \in Nat /\ Len(s \o t) = Len(s) + Len(t)
  BY LenProperties, ConcatProperties
<1>2. CASE i <= Len(s)
  <2>1. (s \o t)[i] = s[i] /\ i \in 1..Len(s)
    BY <1>1, <1>2, ConcatProperties
  <2> QED BY <2>1
<1>3. CASE ~(i <= Len(s))
  <2>1. (s \o t)[i] = t[i - Len(s)] /\ i - Len(s) \in 1..Len(t)
    BY <1>1, <1>3, ConcatProperties
  <2> QED BY <2>1
<1> QED BY <1>2, <1>3

LEMMA CopiesForm ==
  ASSUME NEW chunk, NEW k \in Nat
  PROVE  Len(Copies(chunk, k)) = k /\ \A i \in 1..Len(Copies(chunk, k)) : Copies(chunk, k)[i] = chunk
BY DEF Copies

\* The chunks of the named buffers of metanames after a flush: where they were
\* before, with the flushed buffer behind them.
LEMMA FlushedChunks ==
  ASSUME TypeInv, NEW name \in Name, NEW stack \in Seq(Entries), NEW learnt \in SUBSET Name,
         FlushTo(name, stack, learnt), NEW n
  PROVE  /\ Chunks(metabufs', n) =
              IF meta_buf = << >> THEN Chunks(metabufs, n)
              ELSE Chunks(metabufs, n) \o Copies(meta_buf, Count(MetaTimes(name, stack), n))
         /\ Chunks(metabufs, n) \in Seq(Chunk) /\ meta_buf \in Chunk
         /\ Count(MetaTimes(name, stack), n) \in Nat
<1>1. BufsOK(Grow(metabufs, learnt)) /\ BufsOK(metabufs)
  BY GrowType DEF TypeInv, TypeOK, OutType
<1>2. meta_buf \in Chunk
  BY SeqMonotonic DEF TypeInv, TypeOK, BufferType, Waiting, Chunk
<1>3. TimesOK(MetaTimes(name, stack))
  BY MetaTimesType DEF TypeInv, TypeOK
<1>4. metabufs' = AddChunk(Grow(metabufs, learnt), meta_buf, MetaTimes(name, stack))
  BY DEF FlushTo
<1>5. Chunks(Grow(metabufs, learnt), n) = Chunks(metabufs, n)
  BY ChunksGrown
<1>6. Count(MetaTimes(name, stack), n) \in Nat
  BY <1>3 DEF Count, TimesOK
<1>7. Chunks(metabufs, n) \in Seq(Chunk)
  BY <1>1, ChunksType
<1> DEFINE times == MetaTimes(name, stack)
<1> HIDE DEF times
<1>8. Chunks(AddChunk(Grow(metabufs, learnt), meta_buf, times), n) =
        IF meta_buf = << >> THEN Chunks(Grow(metabufs, learnt), n)
        ELSE Chunks(Grow(metabufs, learnt), n) \o Copies(meta_buf, Count(times, n))
  BY <1>1, <1>2, <1>3, ChunksAdded DEF times
<1> QED BY <1>2, <1>4, <1>5, <1>6, <1>7, <1>8 DEF times

LEMMA ChunksKept ==
  ASSUME TypeInv, MetaStep, NEW x, Within(metabufs', x)
  PROVE  Within(metabufs, x) \/ x = meta_buf
<1>1. PICK n \in Name : \E c \in 1..Len(Chunks(metabufs', n)) : Chunks(metabufs', n)[c] = x
  BY DEF Within
<1>2. CASE SameChunks
  BY <1>1, <1>2 DEF SameChunks, Within
<1>3. CASE MetaFlushed
  <2>1. PICK name \in Name, stack \in Seq(Entries), learnt \in SUBSET Name :
          FlushTo(name, stack, learnt)
    BY <1>3 DEF MetaFlushed
  <2> DEFINE old  == Chunks(metabufs, n)
             more == Copies(meta_buf, Count(MetaTimes(name, stack), n))
  <2>2. /\ Chunks(metabufs', n) = IF meta_buf = << >> THEN old ELSE old \o more
        /\ old \in Seq(Chunk) /\ more \in Seq(Chunk)
    BY <2>1, FlushedChunks, CopiesType
  <2>3. \A c \in 1..Len(more) : more[c] = meta_buf
    BY <2>1, FlushedChunks, CopiesForm
  <2>4. \A c \in 1..Len(old) : Within(metabufs, old[c])
    BY DEF Within
  <2> HIDE DEF old, more
  <2>5. CASE meta_buf = << >>
    BY <1>1, <2>2, <2>4, <2>5
  <2>6. CASE meta_buf # << >>
    <3>1. PICK c \in 1..Len(old \o more) : (old \o more)[c] = x
      BY <1>1, <2>2, <2>6
    <3>2. (\E j \in 1..Len(old) : x = old[j]) \/ (\E j \in 1..Len(more) : x = more[j])
      BY <2>2, <3>1, ConcatElement
    <3> QED BY <2>3, <2>4, <3>2
  <2> QED BY <2>5, <2>6
<1> QED BY <1>2, <1>3 DEF MetaStep, MetaRead, MetaKept

BufsPassed == meta_buf' \in {meta_buf, << >>} /\ prop_buf' \in {prop_buf, << >>}

LEMMA TagBufs ==
  ASSUME NEW raw, NEW prefix,
         CloseTag(raw, prefix) \/ \E bare : OpenTag(raw, prefix, bare)
  PROVE  BufsPassed
BY DEF OpenTag, CloseTag, FlushTo, NoFlush, FlushProps, KeepProps, BufsPassed

\* Nothing is read, and if a boundary is passed the next text is to be separated.
BoundaryPassed ==
  /\ texts' = texts /\ BufsPassed
  /\ bump_word' = TRUE \/ UNCHANGED <<bump_word, segment>>

\* A text is read, separated from what waits unless bump_word says otherwise.
TextRead ==
  /\ \E bump \in {bump_word, TRUE} : BufferCharacters(bump)
  /\ segment' = segment
  /\ ignore_content > 0 => bump_word' = bump_word

LEMMA DieBoundary ==
  ASSUME Die("croaked") \/ Die("crashed") PROVE BoundaryPassed
BY DEF Die, bufVars, flagVars, outVars, histVars, BoundaryPassed, BufsPassed

LEMMA PhraseSteps ==
  ASSUME ~IsHTML, [Next]_vars
  PROVE  BoundaryPassed \/ TextRead
<1>1. ASSUME NEW e \in Elements, StartElement(e) PROVE BoundaryPassed
  BY <1>1 DEF StartElement, bufVars, BumpAt, BoundaryPassed, BufsPassed
<1>2. CASE XmlAttribute
  <2>1. CASE Die("croaked")
    BY <2>1, DieBoundary
  <2>2. CASE ~Die("croaked")
    <3>1. /\ UNCHANGED <<bump_word, segment>>
          /\ BufferCharacters(TRUE) \/ UNCHANGED <<texts, meta_buf, prop_buf>>
      BY <1>2, <2>2 DEF XmlAttribute, bufVars, flagVars
    <3> QED BY <3>1 DEF BoundaryPassed, BufsPassed, TextRead
  <2> QED BY <2>1, <2>2
<1>3. CASE HtmlMeta
  BY <1>3 DEF HtmlMeta
<1>4. CASE OpenValue
  <2> DEFINE raw  == AttrTag(pending)
             bare == Qualify(pending.prefix, raw)
  <2>1. CASE OpenFails(raw, bare)
    BY <2>1, DieBoundary DEF OpenFails
  <2>2. CASE ~OpenFails(raw, bare)
    <3>1. OpenTag(raw, pending.prefix, bare) /\ bump_word' = TRUE /\ texts' = texts
      BY <1>4, <2>2 DEF OpenValue
    <3> HIDE DEF raw, bare
    <3> QED BY <3>1, TagBufs DEF BoundaryPassed
  <2> QED BY <2>1, <2>2
<1>5. CASE BufferValue \/ Characters
  <2>1. /\ BufferCharacters(bump_word) /\ bump_word' = BumpAfterText(bump_word)
        /\ segment' = segment
    BY <1>5 DEF BufferValue, Characters
  <2> QED BY <2>1 DEF TextRead, BumpAfterText
<1>6. CASE CloseValue
  <2>1. CASE CloseFails(AttrTag(pending), pending.prefix)
    BY <2>1, DieBoundary DEF CloseFails
  <2>2. CASE ~CloseFails(AttrTag(pending), pending.prefix)
    <3>1. CloseTag(AttrTag(pending), pending.prefix) /\ bump_word' = TRUE /\ texts' = texts
      BY <1>6, <2>2 DEF CloseValue
    <3> QED BY <3>1, TagBufs DEF BoundaryPassed
  <2> QED BY <2>1, <2>2
<1>7. CASE PushElement
  <2>1. PICK bare : \/ OpenFails(pending.raw, bare)
                    \/ /\ OpenTag(pending.raw, pending.prefix, bare)
                       /\ UNCHANGED <<bump_word, texts, segment>>
    BY <1>7 DEF PushElement, histVars
  <2>2. CASE OpenFails(pending.raw, bare)
    BY <2>2, DieBoundary DEF OpenFails
  <2>3. CASE ~OpenFails(pending.raw, bare)
    BY <2>1, <2>3, TagBufs DEF BoundaryPassed
  <2> QED BY <2>2, <2>3
<1>8. CASE EndElement
  <2> DEFINE raw    == Top(open).raw
             prefix == Top(open).prefix
  <2>1. CASE CloseFails(raw, prefix)
    BY <2>1, DieBoundary DEF CloseFails
  <2>2. CASE ~CloseFails(raw, prefix)
    <3>1. CloseTag(raw, prefix) /\ bump_word' = TRUE /\ texts' = texts
      BY <1>8, <2>2 DEF EndElement, BumpAt
    <3> HIDE DEF raw, prefix
    <3> QED BY <3>1, TagBufs DEF BoundaryPassed
  <2> QED BY <2>1, <2>2
<1>9. CASE CommentNoindex \/ CommentIndex \/ CommentOther
  BY <1>9 DEF CommentNoindex, CommentIndex, CommentOther, bufVars, BoundaryPassed, BufsPassed
<1>10. CASE EndDocument
  BY <1>10 DEF EndDocument, FlushTo, flagVars, histVars, BoundaryPassed, BufsPassed
<1>11. CASE UNCHANGED vars
  BY <1>11 DEF vars, bufVars, flagVars, histVars, BoundaryPassed, BufsPassed
<1> QED
  BY <1>1, <1>2, <1>3, <1>4, <1>5, <1>6, <1>7, <1>8, <1>9, <1>10, <1>11 DEF Next, Finished

\* The words in a buffer are words of the document; two of them side by side
\* have no boundary between them.
Phrase(buf) ==
  /\ \A i \in 1..Len(buf) : buf[i] # BUMP => buf[i] \in 1..Len(texts)
  /\ Barriered(buf)

\* The buffer ends in a word behind which there has been no boundary yet.
EndsHere(buf) == buf # << >> => Top(buf) # BUMP /\ texts[Top(buf)].segment = segment

PhraseInv ==
  /\ Phrase(meta_buf) /\ Phrase(prop_buf)
  /\ ~bump_word => EndsHere(meta_buf) /\ EndsHere(prop_buf)
  /\ \A x : Within(metabufs, x) => x \in Waiting /\ Phrase(x)

LEMMA PhraseInit == Init => PhraseInv
<1> SUFFICES ASSUME Init PROVE PhraseInv
  OBVIOUS
<1>1. meta_buf = << >> /\ prop_buf = << >> /\ bump_word = TRUE
      /\ \A n \in DOMAIN metabufs : metabufs[n] = << >>
  BY DEF Init
<1>2. \A x : ~Within(metabufs, x)
  BY <1>1, EmptySeq DEF Within, Chunks
<1>3. Phrase(<< >>)
  BY EmptySeq DEF Phrase, Barriered
<1> QED BY <1>1, <1>2, <1>3 DEF PhraseInv

\* More texts change nothing for the words there are.
LEMMA PhraseStays ==
  ASSUME TypeInv, NEW buf \in Waiting, Phrase(buf),
         Len(texts) <= Len(texts'), Len(texts') \in Nat,
         \A r \in 1..Len(texts) : texts'[r] = texts[r]
  PROVE  Phrase(buf)'
<1>1. Len(texts) \in Nat /\ Len(buf) \in Nat
  BY LenProperties DEF TypeInv, TypeOK, HistoryType, Waiting
<1>2. \A i \in 1..Len(buf) : buf[i] # BUMP => buf[i] \in 1..Len(texts')
  BY <1>1 DEF Phrase
<1>3. ASSUME NEW i \in 1..Len(buf) - 1, buf[i] # BUMP, buf[i + 1] # BUMP
      PROVE  texts'[buf[i]].segment = texts'[buf[i + 1]].segment
  <2>1. i \in 1..Len(buf) /\ i + 1 \in 1..Len(buf)
    BY <1>1
  <2>2. buf[i] \in 1..Len(texts) /\ buf[i + 1] \in 1..Len(texts)
    BY <1>3, <2>1 DEF Phrase
  <2>3. texts[buf[i]].segment = texts[buf[i + 1]].segment
    BY <1>3 DEF Phrase, Barriered
  <2> QED BY <2>2, <2>3
<1> QED BY <1>2, <1>3 DEF Phrase, Barriered

\* buffer_characters on one of the two buffers.
LEMMA BufferedPhrase ==
  ASSUME TypeInv, NEW buf \in Waiting, Phrase(buf), NEW bump \in {bump_word, TRUE},
         ~bump_word => EndsHere(buf), NEW text \in Text, text.segment = segment,
         texts' = Append(texts, text), segment' = segment,
         NEW new, new = Buffered(buf, Len(texts) + 1, bump)
  PROVE  Phrase(new)' /\ EndsHere(new)'
<1>1. /\ Len(texts) \in Nat /\ Len(texts') = Len(texts) + 1 /\ texts'[Len(texts) + 1] = text
      /\ \A r \in 1..Len(texts) : texts'[r] = texts[r]
  BY AppendProperties, LenProperties DEF TypeInv, TypeOK, HistoryType
<1>l. PICK run, k : run = Len(texts) + 1 /\ k = Len(buf)
  OBVIOUS
<1>2. /\ run \in Nat /\ run # BUMP /\ run \in 1..Len(texts') /\ texts'[run].segment = segment
      /\ k \in Nat
  BY <1>1, <1>l, LenProperties DEF BUMP, Waiting
<1>3. Phrase(buf)'
  BY <1>1, PhraseStays
<1>4. \A i \in 1..k : buf[i] # BUMP => buf[i] \in 1..Len(texts')
  BY <1>3, <1>l DEF Phrase
<1>5. \A i \in 1..(k - 1) : buf[i] # BUMP /\ buf[i + 1] # BUMP =>
                              texts'[buf[i]].segment = texts'[buf[i + 1]].segment
  BY <1>3, <1>l DEF Phrase, Barriered
<1>6. CASE bump /\ buf # << >>
  <2>1. new = buf \o <<BUMP, run>>
    BY <1>6, <1>l DEF Buffered
  <2>2. /\ Len(new) = k + 2 /\ \A i \in 1..k : new[i] = buf[i]
        /\ new[k + 1] = BUMP /\ new[k + 2] = run
    BY <1>2, <1>l, <2>1 DEF Waiting
  <2>3. \A i \in 1..Len(new) : new[i] # BUMP => new[i] \in 1..Len(texts')
    <3>1. \A i \in 1..Len(new) : i \in 1..k \/ i = k + 1 \/ i = k + 2
      BY <1>2, <2>2
    <3> QED BY <1>2, <1>4, <2>2, <3>1
  <2>4. ASSUME NEW i \in 1..(Len(new) - 1), new[i] # BUMP, new[i + 1] # BUMP
        PROVE  texts'[new[i]].segment = texts'[new[i + 1]].segment
    <3>1. i # k + 1 /\ i + 1 # k + 1
      BY <2>2, <2>4
    <3>2. i \in 1..(k - 1) /\ i \in 1..k /\ i + 1 \in 1..k
      BY <1>2, <2>2, <3>1
    <3> QED BY <1>5, <2>2, <2>4, <3>2
  <2>5. Top(new) = run
    BY <2>2 DEF Top
  <2> QED BY <1>2, <2>3, <2>4, <2>5 DEF Phrase, Barriered, EndsHere
<1>7. CASE ~(bump /\ buf # << >>)
  <2>1. new = Append(buf, run)
    BY <1>7, <1>l DEF Buffered
  <2>2. Len(new) = k + 1 /\ (\A i \in 1..k : new[i] = buf[i]) /\ new[k + 1] = run
    BY <1>2, <1>l, <2>1, AppendProperties DEF Waiting
  <2>3. \A i \in 1..Len(new) : new[i] # BUMP => new[i] \in 1..Len(texts')
    <3>1. \A i \in 1..Len(new) : i \in 1..k \/ i = k + 1
      BY <1>2, <2>2
    <3> QED BY <1>2, <1>4, <2>2, <3>1
  <2>4. ASSUME NEW i \in 1..(Len(new) - 1), new[i] # BUMP, new[i + 1] # BUMP
        PROVE  texts'[new[i]].segment = texts'[new[i + 1]].segment
    <3>1. CASE i = k
      <4>1. buf # << >>
        BY <1>l, <2>4, <3>1, EmptySeq
      <4>2. ~bump_word
        BY <1>7, <4>1
      <4>3. Top(buf) = buf[k] /\ Top(buf) # BUMP /\ texts[buf[k]].segment = segment
        BY <1>l, <4>1, <4>2 DEF EndsHere, Top
      <4>4. k \in 1..Len(buf)
        BY <1>2, <1>l, <3>1
      <4>5. buf[k] \in 1..Len(texts)
        BY <4>3, <4>4 DEF Phrase
      <4>6. texts'[new[k]].segment = segment
        BY <1>1, <1>l, <2>2, <4>3, <4>4, <4>5
      <4> QED BY <1>2, <2>2, <3>1, <4>6
    <3>2. CASE i # k
      <4>1. i \in 1..(k - 1) /\ i \in 1..k /\ i + 1 \in 1..k
        BY <1>2, <2>2, <3>2
      <4> QED BY <1>5, <2>2, <2>4, <4>1
    <3> QED BY <3>1, <3>2
  <2>5. Top(new) = run
    BY <2>2 DEF Top
  <2> QED BY <1>2, <2>3, <2>4, <2>5 DEF Phrase, Barriered, EndsHere
<1> QED BY <1>6, <1>7

LEMMA PhraseNext == TypeInv /\ ~IsHTML /\ PhraseInv /\ [Next]_vars => PhraseInv'
<1> SUFFICES ASSUME TypeInv, ~IsHTML, PhraseInv, [Next]_vars PROVE PhraseInv'
  OBVIOUS
<1>0. MetaStep
  BY MetaSteps
<1>1. meta_buf \in Waiting /\ prop_buf \in Waiting /\ bump_word \in BOOLEAN /\ Len(texts) \in Nat
  BY LenProperties DEF TypeInv, TypeOK, BufferType, HistoryType
<1>2. Phrase(meta_buf) /\ Phrase(prop_buf) /\ \A x : Within(metabufs, x) => x \in Waiting /\ Phrase(x)
  BY DEF PhraseInv
<1>3. BoundaryPassed \/ TextRead
  BY PhraseSteps
<1>4. ASSUME Len(texts) <= Len(texts'), Len(texts') \in Nat,
             \A r \in 1..Len(texts) : texts'[r] = texts[r], NEW x, Within(metabufs', x)
      PROVE  x \in Waiting /\ Phrase(x)'
  <2>1. x \in Waiting /\ Phrase(x)
    BY <1>1, <1>2, <1>4, <1>0, ChunksKept
  <2> QED BY <1>4, <2>1, PhraseStays
<1>5. CASE BoundaryPassed
  <2>1. texts' = texts
        /\ meta_buf' \in {meta_buf, << >>} /\ prop_buf' \in {prop_buf, << >>}
    BY <1>5 DEF BoundaryPassed, BufsPassed
  <2>2. \A b : Phrase(b) => Phrase(b)'
    BY <2>1 DEF Phrase, Barriered
  <2>3. Phrase(<< >>)
    BY EmptySeq DEF Phrase, Barriered
  <2>4. PICK m, p : m = meta_buf' /\ p = prop_buf'
    OBVIOUS
  <2>5. Phrase(m)' /\ Phrase(p)'
    BY <1>2, <2>1, <2>2, <2>3, <2>4
  <2>6. (Phrase(meta_buf) /\ Phrase(prop_buf))'
    BY <2>4, <2>5 DEF Phrase, Barriered
  <2>7. ASSUME ~bump_word' PROVE (EndsHere(meta_buf) /\ EndsHere(prop_buf))'
    <3>1. ~bump_word /\ segment' = segment
      BY <1>5, <2>7 DEF BoundaryPassed
    <3> QED BY <2>1, <3>1 DEF PhraseInv, EndsHere
  <2>8. \A x : Within(metabufs', x) => x \in Waiting /\ Phrase(x)'
    BY <1>1, <1>4, <2>1
  <2> QED BY <2>7, <2>8, <2>6 DEF PhraseInv, Within, Chunks
<1>6. CASE TextRead
  <2>1. PICK bump \in {bump_word, TRUE} : BufferCharacters(bump)
    BY <1>6 DEF TextRead
  <2> DEFINE text == [owner |-> InnermostMeta, props |-> OpenProps, metas |-> OpenMetas,
                      segment |-> segment, noindex |-> noindex,
                      kept |-> ignore_content = 0]
  <2>2. text \in Text /\ text.segment = segment
    BY InnermostType DEF TypeInv, Text, TypeOK, HistoryType
  <2>3. texts' = Append(texts, text) /\ segment' = segment
    BY <1>6, <2>1 DEF BufferCharacters, TextRead
  <2> HIDE DEF text
  <2>4. /\ Len(texts') = Len(texts) + 1 /\ texts'[Len(texts) + 1] = text
        /\ \A r \in 1..Len(texts) : texts'[r] = texts[r]
    BY <2>2, <2>3, AppendProperties, LenProperties DEF TypeInv, TypeOK, HistoryType
  <2>5. \A x : Within(metabufs', x) => x \in Waiting /\ Phrase(x)'
    BY <1>1, <1>4, <2>3, <2>4
  <2>6. CASE ignore_content > 0
    <3>1. meta_buf' = meta_buf /\ prop_buf' = prop_buf /\ bump_word' = bump_word
      BY <1>6, <2>1, <2>6 DEF BufferCharacters, TextRead
    <3>2. Phrase(meta_buf)' /\ Phrase(prop_buf)'
      <4>1. \A b \in Waiting : Phrase(b) => Phrase(b)'
        BY <1>1, <2>4, PhraseStays
      <4> QED BY <1>1, <1>2, <3>1, <4>1 DEF Phrase, Barriered
    <3>3. ASSUME ~bump_word' PROVE EndsHere(meta_buf)' /\ EndsHere(prop_buf)'
      <4>1. \A b \in Waiting : Phrase(b) /\ EndsHere(b) => EndsHere(b)'
        <5> SUFFICES ASSUME NEW b \in Waiting, Phrase(b), EndsHere(b), b # << >>
                     PROVE  Top(b) # BUMP /\ texts'[Top(b)].segment = segment
          BY <2>3 DEF EndsHere
        <5>1. Len(b) \in 1..Len(b)
          BY TopType DEF Waiting
        <5>2. Top(b) \in 1..Len(texts)
          BY <5>1 DEF Phrase, EndsHere, Top
        <5> QED BY <2>4, <5>2 DEF EndsHere
      <4>2. EndsHere(meta_buf) /\ EndsHere(prop_buf)
        BY <3>1, <3>3 DEF PhraseInv
      <4> QED BY <1>1, <1>2, <3>1, <4>1, <4>2 DEF EndsHere
    <3> QED BY <2>5, <3>2, <3>3 DEF PhraseInv, Within, Chunks
  <2>7. CASE ~(ignore_content > 0)
    <3>1. /\ meta_buf' = Buffered(meta_buf, Len(texts) + 1, bump)
          /\ prop_buf' = Buffered(prop_buf, Len(texts) + 1, bump)
      BY <2>1, <2>7 DEF BufferCharacters
    <3>2. ~bump_word => EndsHere(meta_buf) /\ EndsHere(prop_buf)
      BY DEF PhraseInv
    <3>3. ASSUME NEW b \in Waiting, Phrase(b), ~bump_word => EndsHere(b),
                 NEW new, new = Buffered(b, Len(texts) + 1, bump)
          PROVE  Phrase(new)' /\ EndsHere(new)'
      BY <2>2, <2>3, <3>3, BufferedPhrase
    <3>4. PICK m, p : m = meta_buf' /\ p = prop_buf'
      OBVIOUS
    <3>5. Phrase(m)' /\ EndsHere(m)' /\ Phrase(p)' /\ EndsHere(p)'
      BY <1>1, <1>2, <3>1, <3>2, <3>3, <3>4
    <3>6. (Phrase(meta_buf) /\ Phrase(prop_buf) /\ EndsHere(meta_buf) /\ EndsHere(prop_buf))'
      BY <3>4, <3>5 DEF Phrase, Barriered, EndsHere
    <3> QED BY <2>5, <3>6 DEF PhraseInv, Within, Chunks
  <2> QED BY <2>6, <2>7
<1> QED BY <1>3, <1>5, <1>6

LEMMA PhraseAlways == Spec => [](TypeInv /\ (~IsHTML => PhraseInv))
<1>1. Init => (~IsHTML => PhraseInv)
  BY PhraseInit
<1>2. TypeInv /\ (~IsHTML => PhraseInv) /\ [Next]_vars => (~IsHTML => PhraseInv)'
  <2> SUFFICES ASSUME TypeInv, ~IsHTML => PhraseInv, [Next]_vars, ~IsHTML'
               PROVE  PhraseInv'
    OBVIOUS
  <2>1. IsHTML' = IsHTML
    BY WordSteps DEF WordStep, IsHTML
  <2>2. ~IsHTML
    BY <2>1
  <2> QED BY <2>2, PhraseNext
<1> QED BY <1>1, <1>2, TypeInit, TypeNext, PTL DEF Spec

\* In XML every start tag, end tag, attribute and comment sets bump_word, but the
\* comments noindex and index, which return before they would (parser.c 1362 and
\* 1372, although 1380 says "always"); so buffer_characters writes a TOKENPOS_BUMPER
\* between what stands on its two sides: in no chunk do two words stand side by
\* side that such a boundary separates in the document.  HTML is excepted: its
\* inline tags clear bump_word.
THEOREM PhrasesCorrect == Spec => [](~IsHTML => NoPhraseAcrossBoundary)
<1>1. TypeInv /\ (~IsHTML => PhraseInv) => (~IsHTML => NoPhraseAcrossBoundary)
  <2> SUFFICES ASSUME TypeInv, PhraseInv PROVE NoPhraseAcrossBoundary
    OBVIOUS
  <2>1. Barriered(meta_buf) /\ Barriered(prop_buf)
    BY DEF PhraseInv, Phrase
  <2>2. ASSUME NEW n \in DOMAIN metabufs, NEW c \in 1..Len(metabufs[n])
        PROVE  Barriered(metabufs[n][c])
    <3>1. Within(metabufs, metabufs[n][c])
      BY DEF Within, Chunks, TypeInv, TypeOK, OutType, BufsOK
    <3> QED BY <3>1 DEF PhraseInv, Phrase
  <2> QED BY <2>1, <2>2 DEF NoPhraseAcrossBoundary
<1> QED BY <1>1, PhraseAlways, PTL

=============================================================================
