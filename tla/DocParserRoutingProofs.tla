------------------------- MODULE DocParserRoutingProofs -------------------------
(***************************************************************************)
(* Proofs about the stacks and the routing of words.  An end tag pops by   *)
(* the name of the tag, so they need that no unwatched element stands      *)
(* inside a watched one of the same name (NoClash).  Under that condition, *)
(* and under no other, the stacks follow the document and every word gets  *)
(* the metaname of the innermost watched element.                          *)
(***************************************************************************)
EXTENDS DocParserProofs

(***************************************************************************)
(* Pushing and popping.                                                    *)
(***************************************************************************)
Pushed(stack, raw, baked, n) == Append(stack, [raw |-> raw, baked |-> baked, by |-> n])

LEMMA FollowsSkip ==
  ASSUME NEW opened, NEW opened2, NEW names, NEW names2, NEW stack,
         Len(opened) \in Nat, Len(opened2) = Len(opened) + 1,
         \A k \in 1..Len(opened) : opened2[k].raw = opened[k].raw /\ names2[k] = names[k],
         names2[Len(opened) + 1] = NoTag, Follows(opened, stack, names)
  PROVE  Follows(opened2, stack, names2)
<1> DEFINE n == Len(opened)
<1>1. \A k \in 1..n + 1 : k \in 1..n \/ k = n + 1
  OBVIOUS
<1>2. 1..n \subseteq 1..n + 1
  OBVIOUS
<1> QED
  BY <1>1, <1>2 DEF Follows

LEMMA FollowsPush ==
  ASSUME NEW opened, NEW opened2, NEW names, NEW names2, NEW raw \in Name,
         NEW stack \in Seq(Entries), Len(opened) \in Nat, Len(opened2) = Len(opened) + 1,
         \A k \in 1..Len(opened) : opened2[k].raw = opened[k].raw /\ names2[k] = names[k],
         opened2[Len(opened) + 1].raw = raw, names2[Len(opened) + 1] \in Name \ {NoTag},
         Follows(opened, stack, names)
  PROVE  Follows(opened2, Pushed(stack, raw, names2[Len(opened) + 1], Len(opened) + 1), names2)
<1> DEFINE n == Len(opened)
           m == Len(stack)
           stack2 == Pushed(stack, raw, names2[Len(opened) + 1], Len(opened) + 1)
<1>1. m \in Nat /\ m >= 1
  BY EmptySeq, LenProperties DEF Follows
<1>2. \A i \in 1..m : stack[i].by \in 0..n
  <2>1. \A i \in 1..m : i = 1 \/ i \in 2..m
    BY <1>1
  <2> QED
    BY <2>1 DEF Follows
<1> DEFINE baked == names2[n + 1]
           entry == [raw |-> raw, baked |-> baked, by |-> n + 1]
<1>3. entry \in Entries /\ entry.raw = raw /\ entry.baked = baked /\ entry.by = n + 1
  BY DEF Entries
<1>4. stack2 = Append(stack, entry)
  BY DEF Pushed
<1> HIDE DEF entry, stack2
<1>5. /\ stack2 \in Seq(Entries) /\ Len(stack2) = m + 1 /\ stack2[m + 1] = entry
      /\ \A i \in 1..m : stack2[i] = stack[i]
  BY <1>3, <1>4, AppendProperties
<1>6. stack2 # << >> /\ stack2[1] = stack[1] /\ stack2[1].by = 0
  BY <1>1, <1>5, EmptySeq DEF Follows
<1>7. ASSUME NEW i \in 2..Len(stack2)
      PROVE  /\ stack2[i].by \in 1..Len(opened2)
             /\ stack2[i].raw = opened2[stack2[i].by].raw
             /\ stack2[i].baked = names2[stack2[i].by] /\ names2[stack2[i].by] # NoTag
  <2>1. CASE i = m + 1
    BY <1>3, <1>5, <2>1
  <2>2. CASE i \in 2..m
    <3>1. /\ stack[i].by \in 1..n /\ stack[i].raw = opened[stack[i].by].raw
          /\ stack[i].baked = names[stack[i].by] /\ names[stack[i].by] # NoTag
      BY <2>2 DEF Follows
    <3>2. stack2[i] = stack[i]
      BY <1>1, <1>5, <2>2
    <3>3. stack[i].by \in 1..n + 1
      BY <3>1
    <3> QED
      BY <3>1, <3>2, <3>3
  <2> QED
    BY <1>1, <1>5, <2>1, <2>2
<1>8. ASSUME NEW i \in 1..Len(stack2), NEW j \in 1..Len(stack2), i < j
      PROVE  stack2[i].by < stack2[j].by
  <2>1. i \in 1..m /\ stack2[i] = stack[i] /\ stack[i].by \in 0..n
    <3>1. i \in 1..m
      BY <1>1, <1>5, <1>8
    <3> QED
      BY <1>2, <1>5, <3>1
  <2>2. CASE j \in 1..m
    BY <1>5, <1>8, <2>1, <2>2 DEF Follows
  <2>3. CASE j = m + 1
    BY <1>3, <1>5, <2>1, <2>3
  <2> QED
    BY <1>1, <1>5, <2>2, <2>3
<1>9. ASSUME NEW k \in 1..Len(opened2), names2[k] # NoTag
      PROVE  \E i \in 2..Len(stack2) : stack2[i].by = k
  <2>1. CASE k = n + 1
    <3>1. m + 1 \in 2..Len(stack2) /\ stack2[m + 1].by = k
      BY <1>1, <1>3, <1>5, <2>1
    <3> QED
      BY <3>1
  <2>2. CASE k \in 1..n
    <3>1. PICK i \in 2..m : stack[i].by = k
      BY <1>9, <2>2 DEF Follows
    <3>2. i \in 2..Len(stack2) /\ stack2[i] = stack[i]
      BY <1>1, <1>5
    <3> QED
      BY <3>1, <3>2
  <2> QED
    BY <2>1, <2>2
<1>10. Follows(opened2, stack2, names2)
  BY <1>6, <1>7, <1>8, <1>9 DEF Follows
<1> QED
  BY <1>10 DEF stack2

\* What an end tag does: it pops the entry of the element that ends, if that is
\* watched, and otherwise nothing, provided no unwatched element stands inside
\* a watched one of the same name.
LEMMA FollowsPop ==
  ASSUME NEW opened, NEW opened2, NEW names, NEW names2, NEW stack \in Seq(Entries),
         Len(opened) \in Nat, Len(opened) >= 1, Len(opened2) = Len(opened) - 1,
         \A k \in 1..Len(opened) - 1 : opened2[k].raw = opened[k].raw /\ names2[k] = names[k],
         Follows(opened, stack, names),
         stack[1].raw # opened[Len(opened)].raw,
         \A b \in 1..Len(opened) :
           opened[b].raw = opened[Len(opened)].raw /\ names[b] # NoTag
             => names[Len(opened)] # NoTag
  PROVE  LET stack2 == IF PopsOn(stack, opened[Len(opened)].raw) THEN Pop(stack) ELSE stack
         IN  Follows(opened2, stack2, names2) /\ stack2[1] = stack[1]
<1> DEFINE n == Len(opened)
           m == Len(stack)
<1>0. Top(stack) = stack[m]
  BY DEF Top
<1>1. m \in Nat /\ m >= 1
  BY EmptySeq, LenProperties DEF Follows
<1>2. CASE names[n] # NoTag
  <2>1. PICK i \in 2..m : stack[i].by = n
    BY <1>2 DEF Follows
  <2>2. i = m
    <3>1. SUFFICES ASSUME i # m PROVE FALSE
      OBVIOUS
    <3>2. m \in 2..m /\ i \in 1..m /\ m \in 1..m /\ i < m
      BY <1>1, <3>1
    <3>3. stack[m].by \in 1..n /\ stack[i].by < stack[m].by
      BY <3>2 DEF Follows
    <3> QED
      BY <2>1, <3>3
  <2>3. PopsOn(stack, opened[n].raw)
    BY <1>0, <2>1, <2>2 DEF Follows, PopsOn
  <2>4. /\ Pop(stack) \in Seq(Entries) /\ Len(Pop(stack)) = m - 1
        /\ \A j \in 1..m - 1 : Pop(stack)[j] = stack[j]
    BY <1>1, PopType
  <2>5. m - 1 >= 1 /\ Pop(stack) # << >> /\ Pop(stack)[1] = stack[1]
    <3>1. m - 1 >= 1
      BY <1>1, <2>1
    <3>2. 1 \in 1..m - 1
      BY <1>1, <3>1
    <3> QED
      BY <2>4, <3>1, <3>2, EmptySeq
  <2>6. ASSUME NEW j \in 2..m - 1
        PROVE  /\ stack[j].by \in 1..n - 1 /\ stack[j].raw = opened2[stack[j].by].raw
               /\ stack[j].baked = names2[stack[j].by] /\ names2[stack[j].by] # NoTag
    <3>1. j \in 2..m /\ j \in 1..m /\ m \in 1..m /\ j < m
      BY <1>1
    <3>2. /\ stack[j].by \in 1..n /\ stack[j].by < stack[m].by
          /\ stack[j].raw = opened[stack[j].by].raw
          /\ stack[j].baked = names[stack[j].by] /\ names[stack[j].by] # NoTag
      BY <3>1 DEF Follows
    <3>3. stack[j].by \in 1..n - 1
      BY <2>1, <2>2, <3>2
    <3> QED
      BY <3>2, <3>3
  <2>7. ASSUME NEW k \in 1..n - 1, names2[k] # NoTag
        PROVE  \E j \in 2..m - 1 : stack[j].by = k
    <3>1. k \in 1..n /\ names[k] # NoTag
      BY <2>7
    <3>2. PICK j \in 2..m : stack[j].by = k
      BY <3>1 DEF Follows
    <3>3. j # m
      BY <2>1, <2>2, <3>2
    <3>4. j \in 2..m - 1
      BY <1>1, <3>3
    <3> QED
      BY <3>2, <3>4
  <2>8. \A i2, j \in 1..m - 1 : i2 < j => stack[i2].by < stack[j].by
    <3>1. 1..m - 1 \subseteq 1..m
      BY <1>1
    <3> QED
      BY <3>1 DEF Follows
  <2>9. Follows(opened2, Pop(stack), names2)
    <3> DEFINE popped == Pop(stack)
    <3> HIDE DEF popped
    <3>1. /\ popped # << >> /\ Len(popped) = m - 1 /\ popped[1] = stack[1]
          /\ \A j \in 1..m - 1 : popped[j] = stack[j]
      BY <2>4, <2>5 DEF popped
    <3>2. 2..m - 1 \subseteq 1..m - 1 /\ popped[1].by = 0
      BY <1>1, <3>1 DEF Follows
    <3>3. \A i2 \in 2..Len(popped) :
            /\ popped[i2].by \in 1..Len(opened2)
            /\ popped[i2].raw = opened2[popped[i2].by].raw
            /\ popped[i2].baked = names2[popped[i2].by] /\ names2[popped[i2].by] # NoTag
      BY <2>6, <3>1, <3>2
    <3>4. \A i2, j \in 1..Len(popped) : i2 < j => popped[i2].by < popped[j].by
      BY <2>8, <3>1
    <3>5. \A k \in 1..Len(opened2) : names2[k] # NoTag =>
            \E j \in 2..Len(popped) : popped[j].by = k
      <4> SUFFICES ASSUME NEW k \in 1..n - 1, names2[k] # NoTag
                   PROVE  \E j \in 2..Len(popped) : popped[j].by = k
        OBVIOUS
      <4>1. PICK j \in 2..m - 1 : stack[j].by = k
        BY <2>7
      <4> QED
        BY <3>1, <3>2, <4>1
    <3>6. Follows(opened2, popped, names2)
      BY <3>1, <3>2, <3>3, <3>4, <3>5 DEF Follows
    <3> QED
      BY <3>6 DEF popped
  <2> QED
    BY <2>3, <2>5, <2>9
<1>3. CASE names[n] = NoTag
  <2>1. ASSUME NEW j \in 2..m
        PROVE  /\ stack[j].by \in 1..n - 1 /\ stack[j].raw = opened[stack[j].by].raw
               /\ stack[j].baked = names[stack[j].by] /\ names[stack[j].by] # NoTag
    <3>1. /\ stack[j].by \in 1..n /\ stack[j].raw = opened[stack[j].by].raw
          /\ stack[j].baked = names[stack[j].by] /\ names[stack[j].by] # NoTag
      BY DEF Follows
    <3>2. stack[j].by # n
      BY <1>3, <3>1
    <3>3. stack[j].by \in 1..n - 1
      BY <3>1, <3>2
    <3> QED
      BY <3>1, <3>3
  <2>2. ~PopsOn(stack, opened[n].raw)
    <3>1. CASE m = 1
      BY <1>0, <3>1 DEF PopsOn
    <3>2. CASE m # 1
      <4>1. m \in 2..m
        <5> HIDE DEF m
        <5> QED
          BY <1>1, <3>2
      <4>2. stack[m].by \in 1..n /\ stack[m].raw = opened[stack[m].by].raw
            /\ names[stack[m].by] # NoTag
        BY <4>1 DEF Follows
      <4>3. stack[m].by \in 1..Len(opened)
        BY <4>2
      <4>4. opened[stack[m].by].raw # opened[n].raw
        BY <1>3, <4>2, <4>3
      <4> QED
        BY <1>0, <4>2, <4>4 DEF PopsOn
    <3> QED
      BY <3>1, <3>2
  <2>3. Follows(opened2, stack, names2)
    <3>1. \A k \in 1..n - 1 : k \in 1..n
      OBVIOUS
    <3>2. \A k \in 1..n - 1 : names2[k] # NoTag => \E i \in 2..m : stack[i].by = k
      BY <3>1 DEF Follows
    <3>3. \A i \in 2..m : /\ stack[i].by \in 1..Len(opened2)
                          /\ stack[i].raw = opened2[stack[i].by].raw
                          /\ stack[i].baked = names2[stack[i].by]
                          /\ names2[stack[i].by] # NoTag
      BY <2>1
    <3> QED
      BY <3>2, <3>3 DEF Follows
  <2> QED
    BY <2>2, <2>3
<1> QED
  BY <1>2, <1>3

(***************************************************************************)
(* The inductive invariant: the waiting words all belong to the entry on   *)
(* top of the metastack, which is the innermost watched element.           *)
(***************************************************************************)
\* No unwatched element inside a watched one of the same name.
NoClash ==
  \A b, k \in 1..Len(open) : b < k /\ open[b].raw = open[k].raw =>
    /\ open[b].meta # NoTag => open[k].meta # NoTag
    /\ open[b].prop # NoTag => open[k].prop # NoTag

StacksFollow ==
  /\ MetastackFollowsDocument /\ metastack[1].baked = SwishDefault
  /\ PropstackFollowsDocument /\ NoTag \notin properties

WaitingOwner ==
  \A i \in 1..Len(meta_buf) : meta_buf[i] # BUMP =>
    texts[meta_buf[i]].owner = Top(metastack).baked

\* While bake_tag reads an attribute, the innermost element stands for it.
ValueOnTop == phase \in {"value", "close"} => open # << >> /\ Top(open).raw = AttrTag(pending)

RouteInv == StacksFollow /\ WaitingOwner /\ RoutedToInnermost

LEMMA TopIsInnermost ==
  ASSUME TypeInv, StacksFollow
  PROVE  InnermostMeta = Top(metastack).baked
<1> DEFINE m == Len(metastack)
<1>0. Top(metastack) = metastack[m]
  BY DEF Top
<1>1. m \in Nat /\ m >= 1 /\ Len(open) \in Nat
  BY EmptySeq, LenProperties DEF StacksFollow, MetastackFollowsDocument, Follows,
                                 TypeInv, TypeOK, StackType, DocType
<1>2. \A k \in 1..Len(open) : OpenMetas[k] = open[k].meta
  BY DEF OpenMetas
<1>3. CASE m = 1
  <2>1. \A k \in 1..Len(open) : ~(OpenMetas[k] # NoTag)
    <3>1. ~ \E i \in 2..m : TRUE
      BY <1>3
    <3> QED
      BY <3>1 DEF StacksFollow, MetastackFollowsDocument, Follows
  <2>2. Watching = {}
    BY <1>2, <2>1 DEF Watching
  <2> QED
    BY <1>0, <1>3, <2>2 DEF InnermostMeta, StacksFollow
<1>4. CASE m # 1
  <2>1. m \in 2..m
    <3> HIDE DEF m
    <3> QED
      BY <1>1, <1>4
  <2> DEFINE b == metastack[m].by
  <2>2. b \in 1..Len(open) /\ metastack[m].baked = OpenMetas[b] /\ OpenMetas[b] # NoTag
    BY <2>1 DEF StacksFollow, MetastackFollowsDocument, Follows
  <2>3. b \in Watching
    BY <1>2, <2>2 DEF Watching
  <2>4. PICK i \in Watching : InnermostMeta = open[i].meta /\ \A j \in Watching : j <= i
    BY <2>3, InnermostIndex DEF TypeInv, TypeOK
  <2>5. i \in 1..Len(open) /\ OpenMetas[i] # NoTag
    BY <1>2, <2>4 DEF Watching
  <2>6. PICK j \in 2..m : metastack[j].by = i
    BY <2>5 DEF StacksFollow, MetastackFollowsDocument, Follows
  <2>7. i <= b
    <3>1. CASE j = m
      BY <2>2, <2>5, <2>6, <3>1
    <3>2. CASE j # m
      <4>1. j \in 1..m /\ m \in 1..m /\ j < m
        BY <1>1, <3>2
      <4>2. metastack[j].by < metastack[m].by
        BY <4>1 DEF StacksFollow, MetastackFollowsDocument, Follows
      <4> QED
        BY <2>2, <2>5, <2>6, <4>2
    <3> QED
      BY <3>1, <3>2
  <2>8. b <= i
    BY <2>3, <2>4
  <2>9. i = b
    BY <2>2, <2>5, <2>7, <2>8
  <2> QED
    BY <1>0, <1>2, <2>2, <2>4, <2>9
<1> QED
  BY <1>3, <1>4

\* A flush under the top of the metastack files each waiting word where it belongs.
LEMMA FlushRoutes ==
  ASSUME TypeInv, WordInv, RouteInv, status = "parsing", NEW name, NEW stack, NEW learnt,
         FlushTo(name, stack, learnt), name = Top(metastack).baked,
         config' = config, texts' = texts
  PROVE  RoutedToInnermost' /\ WaitingOwner'
<1>1. \A t \in tokens : t.meta = MetaStoredAs(texts[t.text].owner)
  BY DEF RouteInv, RoutedToInnermost
<1>2. ASSUME NEW t \in TokensFrom(name) PROVE t.meta = MetaStoredAs(texts[t.text].owner)
  <2>1. PICK i \in 1..Len(meta_buf) :
          /\ meta_buf[i] # BUMP
          /\ t = [meta |-> MetaStoredAs(name), text |-> meta_buf[i], pos |-> pos + i]
    BY DEF TokensFrom
  <2>2. texts[meta_buf[i]].owner = name
    BY <2>1 DEF RouteInv, WaitingOwner
  <2> QED
    BY <2>1, <2>2
<1>3. tokens' = tokens \cup TokensFrom(name) /\ meta_buf' = << >>
  BY DEF FlushTo
<1>4. \A n : MetaStoredAs(n)' = MetaStoredAs(n)
  BY DEF MetaStoredAs, MetaAlias
<1>5. \A t \in tokens' : t.meta = MetaStoredAs(texts[t.text].owner)
  BY <1>1, <1>2, <1>3
<1>6. RoutedToInnermost'
  BY <1>4, <1>5 DEF RoutedToInnermost
<1>7. WaitingOwner'
  <2>1. Len(meta_buf') = 0
    BY <1>3, EmptySeq
  <2> QED
    BY <2>1 DEF WaitingOwner
<1> QED
  BY <1>6, <1>7

\* A step that neither flushes nor reads nor moves the metastack.
LEMMA KeepRoutes ==
  ASSUME RouteInv, status = "parsing", config' = config,
         UNCHANGED <<meta_buf, tokens, texts, metastack>>
  PROVE  RoutedToInnermost' /\ WaitingOwner'
<1>1. \A t \in tokens : t.meta = MetaStoredAs(texts[t.text].owner)
  BY DEF RouteInv, RoutedToInnermost
<1>2. \A n : MetaStoredAs(n)' = MetaStoredAs(n)
  BY DEF MetaStoredAs, MetaAlias
<1>3. RoutedToInnermost'
  BY <1>1, <1>2 DEF RoutedToInnermost
<1>4. WaitingOwner'
  BY DEF RouteInv, WaitingOwner, Top
<1> QED
  BY <1>3, <1>4

\* A word that is read belongs to the innermost watched element.
LEMMA ReadRoutes ==
  ASSUME TypeInv, WordInv, RouteInv, status = "parsing", config' = config,
         NEW bump \in BOOLEAN, BufferCharacters(bump), UNCHANGED <<tokens, metastack>>
  PROVE  RoutedToInnermost' /\ WaitingOwner'
<1> DEFINE run == Len(texts) + 1
           top == Top(metastack).baked
<1>1. PICK text \in Text : texts' = Append(texts, text) /\ text.owner = top
  <2> DEFINE text == [owner |-> InnermostMeta, props |-> OpenProps, metas |-> OpenMetas,
                      segment |-> segment, noindex |-> noindex,
                      kept |-> ignore_content = 0]
  <2>1. text \in Text
    BY InnermostType DEF Text, TypeInv, TypeOK, HistoryType
  <2>2. texts' = Append(texts, text) /\ text.owner = InnermostMeta
    BY DEF BufferCharacters
  <2>3. InnermostMeta = top
    BY TopIsInnermost DEF RouteInv
  <2> HIDE DEF text, top
  <2> QED
    BY <2>1, <2>2, <2>3
<1>2. /\ Len(texts) \in Nat /\ texts'[run] = text
      /\ \A r \in 1..Len(texts) : texts'[r] = texts[r]
  BY <1>1, AppendProperties, LenProperties DEF TypeInv, TypeOK, HistoryType
<1>3. KeptTexts \subseteq 1..Len(texts)
  BY DEF KeptTexts
<1>4. RoutedToInnermost'
  <2>1. \A t \in tokens : t.meta = MetaStoredAs(texts[t.text].owner)
    BY DEF RouteInv, RoutedToInnermost
  <2>2. \A t \in tokens : texts'[t.text] = texts[t.text]
    BY <1>2, <1>3 DEF WordInv, TokensInOrder
  <2>3. \A n : MetaStoredAs(n)' = MetaStoredAs(n)
    BY DEF MetaStoredAs, MetaAlias
  <2> QED
    BY <2>1, <2>2, <2>3 DEF RoutedToInnermost
<1>5. WaitingOwner'
  <2> DEFINE new == Buffered(meta_buf, run, bump)
  <2>1. meta_buf' = meta_buf \/ meta_buf' = new
    BY DEF BufferCharacters
  <2>2. ASSUME NEW i \in 1..Len(meta_buf'), meta_buf'[i] # BUMP
        PROVE  \/ i \in 1..Len(meta_buf) /\ meta_buf'[i] = meta_buf[i]
               \/ meta_buf'[i] = run
    <3>1. meta_buf \in Seq({BUMP} \cup Runs) /\ Len(meta_buf) \in Nat
      BY LenProperties DEF TypeInv, TypeOK, BufferType, Waiting
    <3>2. CASE meta_buf' = meta_buf
      BY <2>2, <3>2
    <3>3. CASE meta_buf' = meta_buf \o <<BUMP, run>>
      <4> HIDE DEF run
      <4> QED
        BY <2>2, <3>1, <3>3
    <3>4. CASE meta_buf' = Append(meta_buf, run)
      <4> HIDE DEF run
      <4> QED
        BY <2>2, <3>1, <3>4
    <3> QED
      BY <2>1, <3>2, <3>3, <3>4 DEF Buffered
  <2>3. ASSUME NEW i \in 1..Len(meta_buf), meta_buf[i] # BUMP
        PROVE  texts'[meta_buf[i]].owner = top
    <3>1. meta_buf[i] \in KeptTexts
      BY <2>3 DEF WordInv, WaitingInOrder
    <3>2. texts'[meta_buf[i]] = texts[meta_buf[i]]
      BY <1>2, <1>3, <3>1
    <3> QED
      BY <2>3, <3>2 DEF RouteInv, WaitingOwner
  <2>4. texts'[run].owner = top
    BY <1>1, <1>2
  <2>5. Top(metastack)' = Top(metastack)
    BY DEF Top
  <2> HIDE DEF run, top
  <2>6. ASSUME NEW i \in 1..Len(meta_buf'), meta_buf'[i] # BUMP
        PROVE  texts'[meta_buf'[i]].owner = top
    BY <2>2, <2>3, <2>4, <2>6
  <2> QED
    BY <2>5, <2>6 DEF WaitingOwner, top
<1> QED
  BY <1>4, <1>5

\* Start tags.
LEMMA OpenTagRoutes ==
  ASSUME TypeInv, WordInv, RouteInv, status = "parsing", config' = config, texts' = texts,
         NEW raw \in Name \ Reserved, NEW prefix \in Word, NEW bare \in Name,
         bare = NoTag => IsHTML, OpenTag(raw, prefix, bare)
  PROVE  RouteInv' /\ open' # << >> /\ Top(open').raw = raw
<1> DEFINE tag     == Aliased(bare)
           path    == DomPath(raw, bare)
           metas   == MetasAfter(bare)
           props   == PropsAfter(bare)
           isProp  == Watched(props, raw, bare)
           isMeta  == Watched(metas, raw, bare)
           propKey == PropKey(tag, path, props)
           metaKey == MetaKey(tag, path, metas, props)
           n       == Len(open)
           opened  == [raw |-> raw, prefix |-> prefix,
                       meta |-> IF isMeta THEN metaKey ELSE NoTag,
                       prop |-> IF isProp THEN propKey ELSE NoTag]
<1>1. tag \in Name /\ path \in Name /\ propKey \in Name /\ metaKey \in Name
  BY AliasedType DEF PropKey, MetaKey, TypeInv, TypeOK
<1>2. NoTag \notin props
  BY DEF PropsAfter, Learn, Undefined, RouteInv, StacksFollow
<1>3. isProp => propKey # NoTag
  BY <1>2 DEF Watched, PropKey
<1>4. isMeta => metaKey # NoTag
  BY <1>2 DEF OpenTag, Nameless, MetaKey
<1>5. n \in Nat /\ open \in Seq(OpenElement)
  BY LenProperties DEF TypeInv, TypeOK, DocType
<1>6. /\ opened.raw = raw /\ opened.meta = (IF isMeta THEN metaKey ELSE NoTag)
      /\ opened.prop = (IF isProp THEN propKey ELSE NoTag)
  <2> HIDE DEF isMeta, isProp, metaKey, propKey
  <2> QED
    OBVIOUS
<1>7. opened \in OpenElement
  <2> HIDE DEF isMeta, isProp, metaKey, propKey
  <2> QED
    BY <1>1, ReservedNames DEF OpenElement
<1>8. open' = Append(open, opened)
  BY DEF OpenTag
<1>9. /\ Len(open') = n + 1 /\ open'[n + 1] = opened /\ open' # << >> /\ Top(open') = opened
      /\ \A k \in 1..n : open'[k] = open[k]
  <2> HIDE DEF opened
  <2>1. Len(open') = n + 1 /\ open'[n + 1] = opened /\ \A k \in 1..n : open'[k] = open[k]
    BY <1>5, <1>7, <1>8, AppendProperties
  <2>2. open' # << >>
    BY <1>5, <2>1, EmptySeq
  <2> QED
    BY <2>1, <2>2 DEF Top
<1>10. /\ \A k \in 1..n : OpenMetas'[k] = OpenMetas[k] /\ OpenProps'[k] = OpenProps[k]
       /\ OpenMetas'[n + 1] = opened.meta /\ OpenProps'[n + 1] = opened.prop
  <2> HIDE DEF opened
  <2>1. n + 1 \in 1..Len(open') /\ \A k \in 1..n : k \in 1..Len(open')
    BY <1>5, <1>9
  <2> QED
    BY <1>9, <2>1 DEF OpenMetas, OpenProps
<1>11. \A k \in 1..n : open'[k].raw = open[k].raw
  BY <1>9
<1> HIDE DEF opened
<1>12. MetastackFollowsDocument' /\ metastack'[1].baked = SwishDefault
  <2>1. metastack \in Seq(Entries) /\ Follows(open, metastack, OpenMetas)
    BY DEF TypeInv, TypeOK, StackType, RouteInv, StacksFollow, MetastackFollowsDocument
  <2>2. \/ /\ OpenMetas'[n + 1] = metaKey /\ metaKey # NoTag
           /\ metastack' = Pushed(metastack, raw, metaKey, n + 1)
        \/ OpenMetas'[n + 1] = NoTag /\ metastack' = metastack
    BY <1>4, <1>6, <1>10 DEF OpenTag, Entry, Pushed
  <2> HIDE DEF metaKey
  <2>3. /\ Len(open') = Len(open) + 1 /\ open'[Len(open) + 1].raw = raw
        /\ \A k \in 1..Len(open) : open'[k].raw = open[k].raw /\ OpenMetas'[k] = OpenMetas[k]
    BY <1>6, <1>9, <1>10, <1>11
  <2>4. ASSUME OpenMetas'[n + 1] = metaKey, metaKey # NoTag,
               metastack' = Pushed(metastack, raw, metaKey, n + 1)
        PROVE  Follows(open', metastack', OpenMetas') /\ metastack'[1] = metastack[1]
    <3>1. Follows(open', metastack', OpenMetas')
      BY <1>1, <1>5, <2>1, <2>3, <2>4, FollowsPush
    <3>2. metastack'[1] = metastack[1]
      BY <1>1, <1>5, <2>1, <2>4, PushType DEF Pushed, Entry, Follows
    <3> QED
      BY <3>1, <3>2
  <2>5. ASSUME OpenMetas'[n + 1] = NoTag, metastack' = metastack
        PROVE  Follows(open', metastack', OpenMetas') /\ metastack'[1] = metastack[1]
    BY <1>1, <1>5, <2>1, <2>3, <2>5, FollowsSkip
  <2> QED
    BY <2>2, <2>4, <2>5 DEF MetastackFollowsDocument, RouteInv, StacksFollow
<1>13. PropstackFollowsDocument'
  <2>1. propstack \in Seq(Entries) /\ Follows(open, propstack, OpenProps)
    BY DEF TypeInv, TypeOK, StackType, RouteInv, StacksFollow, PropstackFollowsDocument
  <2>2. \/ /\ OpenProps'[n + 1] = propKey /\ propKey # NoTag
           /\ propstack' = Pushed(propstack, raw, propKey, n + 1)
        \/ OpenProps'[n + 1] = NoTag /\ propstack' = propstack
    BY <1>3, <1>6, <1>10 DEF OpenTag, Entry, Pushed
  <2> HIDE DEF propKey
  <2>3. /\ Len(open') = Len(open) + 1 /\ open'[Len(open) + 1].raw = raw
        /\ \A k \in 1..Len(open) : open'[k].raw = open[k].raw /\ OpenProps'[k] = OpenProps[k]
    BY <1>6, <1>9, <1>10, <1>11
  <2>4. ASSUME OpenProps'[n + 1] = propKey, propKey # NoTag,
               propstack' = Pushed(propstack, raw, propKey, n + 1)
        PROVE  Follows(open', propstack', OpenProps')
    BY <1>1, <1>5, <2>1, <2>3, <2>4, FollowsPush
  <2>5. ASSUME OpenProps'[n + 1] = NoTag, propstack' = propstack
        PROVE  Follows(open', propstack', OpenProps')
    BY <1>1, <1>5, <2>1, <2>3, <2>5, FollowsSkip
  <2> QED
    BY <2>2, <2>4, <2>5 DEF PropstackFollowsDocument
<1>14. NoTag \notin properties'
  BY <1>2 DEF OpenTag
<1>15. RoutedToInnermost' /\ WaitingOwner'
  <2>1. CASE isMeta
    <3>1. FlushTo(Top(metastack).baked, metastack, metas \ metanames)
      BY <2>1 DEF OpenTag
    <3> HIDE DEF metas
    <3> QED
      BY <3>1, FlushRoutes
  <2>2. CASE ~isMeta
    <3>1. UNCHANGED <<meta_buf, tokens, texts, metastack>>
      BY <2>2 DEF OpenTag, NoFlush
    <3> QED
      BY <3>1, KeepRoutes
  <2> QED
    BY <2>1, <2>2
<1> QED
  BY <1>6, <1>9, <1>12, <1>13, <1>14, <1>15 DEF RouteInv, StacksFollow

\* End tags, of the innermost open element.
LEMMA CloseTagRoutes ==
  ASSUME TypeInv, WordInv, RouteInv, NoClash, status = "parsing",
         config' = config, texts' = texts, open # << >>,
         NEW raw \in Name \ Reserved, NEW prefix \in Word, raw = Top(open).raw,
         CloseTag(raw, prefix)
  PROVE  RouteInv'
<1> DEFINE n     == Len(open)
           bare  == Qualify(prefix, raw)
           metas == MetasAfter(bare)
<1>1. n \in Nat /\ n >= 1 /\ open \in Seq(OpenElement) /\ raw = open[n].raw
  BY EmptySeq, LenProperties DEF TypeInv, TypeOK, DocType, Top
<1>2. /\ open' = Pop(open) /\ Len(open') = n - 1
      /\ \A k \in 1..n - 1 : open'[k] = open[k]
  BY <1>1, PopType DEF CloseTag
<1>3. \A k \in 1..n - 1 : /\ open'[k].raw = open[k].raw
                          /\ OpenMetas'[k] = OpenMetas[k] /\ OpenProps'[k] = OpenProps[k]
  <2>1. \A k \in 1..n - 1 : k \in 1..n /\ k \in 1..Len(open')
    BY <1>1, <1>2
  <2> QED
    BY <1>2, <2>1 DEF OpenMetas, OpenProps
<1>4. n \in 1..n /\ \A b \in 1..n : OpenMetas[b] = open[b].meta /\ OpenProps[b] = open[b].prop
  BY <1>1 DEF OpenMetas, OpenProps
<1>5. \A b \in 1..n : open[b].raw = open[n].raw =>
        /\ OpenMetas[b] # NoTag => OpenMetas[n] # NoTag
        /\ OpenProps[b] # NoTag => OpenProps[n] # NoTag
  <2>1. \A b \in 1..n : b = n \/ b < n
    BY <1>1
  <2> QED
    BY <1>4, <2>1 DEF NoClash
<1>6. MetastackFollowsDocument' /\ metastack'[1].baked = SwishDefault
  <2>1. metastack \in Seq(Entries) /\ Follows(open, metastack, OpenMetas)
    BY DEF TypeInv, TypeOK, StackType, RouteInv, StacksFollow, MetastackFollowsDocument
  <2>2. metastack[1].raw # open[n].raw
    BY <1>1 DEF TypeInv, Bases, Reserved
  <2>3. metastack' = IF PopsOn(metastack, open[n].raw) THEN Pop(metastack) ELSE metastack
    BY <1>1 DEF CloseTag
  <2>4. Follows(open', metastack', OpenMetas') /\ metastack'[1] = metastack[1]
    BY <1>1, <1>2, <1>3, <1>5, <2>1, <2>2, <2>3, FollowsPop
  <2> QED
    BY <2>4 DEF MetastackFollowsDocument, RouteInv, StacksFollow
<1>7. PropstackFollowsDocument'
  <2>1. propstack \in Seq(Entries) /\ Follows(open, propstack, OpenProps)
    BY DEF TypeInv, TypeOK, StackType, RouteInv, StacksFollow, PropstackFollowsDocument
  <2>2. propstack[1].raw # open[n].raw
    BY <1>1 DEF TypeInv, Bases, Reserved
  <2>3. propstack' = IF PopsOn(propstack, open[n].raw) THEN Pop(propstack) ELSE propstack
    BY <1>1 DEF CloseTag
  <2>4. Follows(open', propstack', OpenProps')
    BY <1>1, <1>2, <1>3, <1>5, <2>1, <2>2, <2>3, FollowsPop
  <2> QED
    BY <2>4 DEF PropstackFollowsDocument
<1>8. NoTag \notin properties'
  <2>1. bare \in Name /\ Len(bare) >= Len(raw)
    BY QualifyType DEF TypeInv, TypeOK
  <2>2. Len(raw) \in Nat /\ Len(raw) # 0
    BY EmptySeq, LenProperties DEF Name, Reserved, NoTag
  <2>3. bare # NoTag
    BY <2>1, <2>2, ReservedNames
  <2>4. properties' = PropsAfter(bare)
    BY DEF CloseTag
  <2> HIDE DEF bare
  <2> QED
    BY <2>3, <2>4 DEF PropsAfter, Learn, RouteInv, StacksFollow
<1>9. RoutedToInnermost' /\ WaitingOwner'
  <2>1. CASE PopsOn(metastack, raw)
    <3>1. FlushTo(Top(metastack).baked, Pop(metastack), metas \ metanames)
      BY <2>1 DEF CloseTag
    <3> HIDE DEF metas
    <3> QED
      BY <3>1, FlushRoutes
  <2>2. CASE ~PopsOn(metastack, raw)
    <3>1. UNCHANGED <<meta_buf, tokens, texts, metastack>>
      BY <2>2 DEF CloseTag, NoFlush
    <3> QED
      BY <3>1, KeepRoutes
  <2> QED
    BY <2>1, <2>2
<1> QED
  BY <1>6, <1>7, <1>8, <1>9 DEF RouteInv, StacksFollow

LEMMA DieRoutes ==
  ASSUME RouteInv, status = "parsing", Die("croaked") \/ Die("crashed")
  PROVE  RouteInv'
<1>1. /\ UNCHANGED <<config, open, metastack, propstack, properties, meta_buf, tokens, texts>>
      /\ \A m : MetaStoredAs(m)' = MetaStoredAs(m)
  BY DEF Die, configVars, stackVars, bufVars, outVars, histVars, MetaStoredAs, MetaAlias
<1>2. StacksFollow'
  BY <1>1 DEF RouteInv, StacksFollow, MetastackFollowsDocument, PropstackFollowsDocument,
              OpenMetas, OpenProps
<1>3. RoutedToInnermost' /\ WaitingOwner'
  BY <1>1, KeepRoutes
<1> QED
  BY <1>2, <1>3 DEF RouteInv

\* The end of the document: all words that still wait go to swishdefault, which
\* is where they belong unless the document was cut off.
LEMMA EndDocumentRoutes ==
  ASSUME TypeInv, WordInv, RouteInv, EndDocument
  PROVE  RouteInv'
<1>1. /\ UNCHANGED <<config, open, metastack, propstack, properties, texts>>
      /\ status = "parsing" /\ status' = "done"
      /\ FlushTo(SwishDefault, metastack, {})
      /\ \A m : MetaStoredAs(m)' = MetaStoredAs(m)
  BY DEF EndDocument, At, configVars, stackVars, histVars, MetaStoredAs, MetaAlias
<1>2. StacksFollow'
  BY <1>1 DEF RouteInv, StacksFollow, MetastackFollowsDocument, PropstackFollowsDocument,
              OpenMetas, OpenProps
<1>3. CASE open = << >>
  <2>1. Len(open) = 0 /\ metastack # << >> /\ Len(metastack) \in Nat
    BY <1>3, EmptySeq, LenProperties
       DEF TypeInv, TypeOK, StackType, RouteInv, StacksFollow, MetastackFollowsDocument, Follows
  <2>2. Len(metastack) # 0
    BY <2>1, EmptySeq DEF TypeInv, TypeOK, StackType
  <2>3. ASSUME Len(metastack) # 1 PROVE FALSE
    <3>0. \A m \in Nat : m # 0 /\ m # 1 => m \in 2..m
      OBVIOUS
    <3>1. Len(metastack) \in 2..Len(metastack)
      BY <2>1, <2>2, <2>3, <3>0
    <3>2. metastack[Len(metastack)].by \in 1..Len(open)
      BY <3>1 DEF RouteInv, StacksFollow, MetastackFollowsDocument, Follows
    <3> QED
      BY <2>1, <3>2
  <2>4. SwishDefault = Top(metastack).baked
    BY <2>3 DEF Top, RouteInv, StacksFollow
  <2>5. RoutedToInnermost' /\ WaitingOwner'
    BY <1>1, <2>4, FlushRoutes
  <2> QED
    BY <1>2, <2>5 DEF RouteInv
<1>4. CASE open # << >>
  <2>1. \A t \in tokens : t.meta = MetaStoredAs(texts[t.text].owner)
    BY <1>1 DEF RouteInv, RoutedToInnermost
  <2>2. \A t \in TokensFrom(SwishDefault) : t.meta = MetaStoredAs(SwishDefault)
    BY DEF TokensFrom
  <2>3. tokens' = tokens \cup TokensFrom(SwishDefault) /\ meta_buf' = << >>
    BY <1>1 DEF FlushTo
  <2>4. \A t \in tokens' : \/ t.meta = MetaStoredAs(texts[t.text].owner)
                           \/ t.meta = MetaStoredAs(SwishDefault)
    BY <2>1, <2>2, <2>3
  <2>5. RoutedToInnermost'
    BY <1>1, <1>4, <2>4 DEF RoutedToInnermost
  <2>6. WaitingOwner'
    BY <2>3, EmptySeq DEF WaitingOwner
  <2> QED
    BY <1>2, <2>5, <2>6 DEF RouteInv
<1> QED
  BY <1>3, <1>4

(***************************************************************************)
(* RouteInv, with the attribute in hand, is inductive under NoClash.       *)
(***************************************************************************)
AllInv == TypeInv /\ WordInv /\ RouteInv /\ ValueOnTop

LEMMA RouteInit == Init => RouteInv /\ ValueOnTop
<1> SUFFICES ASSUME Init PROVE RouteInv /\ ValueOnTop
  OBVIOUS
<1>1. Len(open) = 0 /\ Len(metastack) = 1 /\ Len(propstack) = 1 /\ Len(meta_buf) = 0
  BY EmptySeq DEF Init
<1>2. /\ metastack[1] = [raw |-> SwishDefault, baked |-> SwishDefault, by |-> 0]
      /\ propstack[1] = [raw |-> DomStr, baked |-> DomStr, by |-> 0]
      /\ metastack # << >> /\ propstack # << >>
  BY DEF Init
<1>3. \A stack, names :
        stack # << >> /\ Len(stack) = 1 /\ stack[1].by = 0 => Follows(open, stack, names)
  <2> SUFFICES ASSUME NEW stack, NEW names, stack # << >>, Len(stack) = 1, stack[1].by = 0
               PROVE  Follows(open, stack, names)
    OBVIOUS
  <2>1. \A i, j \in 1..Len(stack) : ~(i < j)
    OBVIOUS
  <2>2. 2..Len(stack) = {} /\ 1..Len(open) = {}
    BY <1>1
  <2> QED
    BY <2>1, <2>2 DEF Follows
<1>4. NoTag \notin properties
  BY ConfigAssumption DEF Init, WellFormed, Properties
<1>5. StacksFollow
  BY <1>1, <1>2, <1>3, <1>4 DEF StacksFollow, MetastackFollowsDocument, PropstackFollowsDocument
<1>6. WaitingOwner /\ RoutedToInnermost /\ ValueOnTop
  BY <1>1 DEF Init, WaitingOwner, RoutedToInnermost, ValueOnTop
<1> QED
  BY <1>5, <1>6 DEF RouteInv

LEMMA RouteNext == AllInv /\ NoClash /\ [Next]_vars => RouteInv' /\ ValueOnTop'
<1> SUFFICES ASSUME AllInv, NoClash, [Next]_vars PROVE RouteInv' /\ ValueOnTop'
  OBVIOUS
<1> USE DEF AllInv
<1>0. ASSUME status = "parsing",
             UNCHANGED <<config, open, metastack, propstack, meta_buf, tokens, texts>>,
             NoTag \notin properties'
      PROVE  RouteInv'
  <2>1. StacksFollow'
    BY <1>0 DEF RouteInv, StacksFollow, MetastackFollowsDocument, PropstackFollowsDocument,
                OpenMetas, OpenProps
  <2> QED
    BY <1>0, <2>1, KeepRoutes DEF RouteInv
<1>00. ASSUME status = "parsing", NEW bump \in BOOLEAN, BufferCharacters(bump),
              UNCHANGED <<config, open, metastack, propstack, tokens>>, NoTag \notin properties'
       PROVE  RouteInv'
  <2>1. StacksFollow'
    BY <1>00 DEF RouteInv, StacksFollow, MetastackFollowsDocument, PropstackFollowsDocument,
                 OpenMetas, OpenProps
  <2> QED
    BY <1>00, <2>1, ReadRoutes DEF RouteInv
<1>01. NoTag \notin properties
  BY DEF RouteInv, StacksFollow
<1>02. \A how \in {"croaked", "crashed"} : status = "parsing" /\ Die(how) => RouteInv' /\ ValueOnTop'
  <2>1. \A how : Die(how) => UNCHANGED <<config, open, phase, pending>>
    BY DEF Die, bakeVars
  <2>2. UNCHANGED <<config, open, phase, pending>> => ValueOnTop'
    BY DEF ValueOnTop, AttrTag, SwishTag, Qualify, LowerName, LowerWord, IsHTML,
           IgnoreXMLNameSpaces, ClassAttributes, Lower, Top
  <2> QED
    BY <2>1, <2>2, DieRoutes
<1>1. ASSUME NEW e \in Elements, StartElement(e) PROVE RouteInv' /\ ValueOnTop'
  BY <1>0, <1>01, <1>1 DEF StartElement, At, configVars, stackVars, bufVars, outVars, ValueOnTop
<1>2. CASE XmlAttribute
  <2>1. CASE Die("croaked")
    BY <1>2, <2>1, <1>02 DEF XmlAttribute, At
  <2>2. CASE ~Die("croaked")
    <3>1. /\ UNCHANGED <<config, open, status, metastack, propstack, tokens>>
          /\ phase = "attr" /\ phase' \in {"open", "push"} /\ status = "parsing"
          /\ BufferCharacters(TRUE) \/ UNCHANGED <<texts, meta_buf>>
      BY <1>2, <2>2 DEF XmlAttribute, At, docVars, stackVars, bufVars
    <3>2. AttrTag(pending) # NoTag
      BY <3>1, PendingAttrType DEF TypeInv, Reserved
    <3>3. NoTag \notin properties'
      <4>1. \E cond : properties' = Learn(properties, cond, AttrTag(pending))
        BY <1>2, <2>2 DEF XmlAttribute
      <4> QED
        BY <1>01, <3>2, <4>1 DEF Learn
    <3> QED
      BY <1>0, <1>00, <3>1, <3>3 DEF ValueOnTop
  <2> QED
    BY <2>1, <2>2
<1>3. CASE HtmlMeta
  <2>1. CASE Die("croaked")
    BY <1>3, <2>1, <1>02 DEF HtmlMeta, At
  <2>2. CASE ~Die("croaked")
    <3>1. /\ UNCHANGED <<config, open, status, metastack, propstack, tokens, texts, meta_buf>>
          /\ phase = "attr" /\ phase' \in {"open", "push"} /\ status = "parsing"
      BY <1>3, <2>2 DEF HtmlMeta, At, docVars, stackVars, bufVars, histVars
    <3>2. AttrTag(pending) # NoTag
      BY <3>1, PendingAttrType DEF TypeInv, Reserved
    <3>3. NoTag \notin properties'
      BY <1>3, <1>01, <2>2, <3>2 DEF HtmlMeta, Learn
    <3> QED
      BY <1>0, <3>1, <3>3 DEF ValueOnTop
  <2> QED
    BY <2>1, <2>2
<1>4. CASE OpenValue
  <2> DEFINE raw  == AttrTag(pending)
             bare == Qualify(pending.prefix, raw)
  <2>0. phase = "open" /\ status = "parsing"
    BY <1>4 DEF OpenValue, At
  <2>1. CASE OpenFails(raw, bare)
    BY <1>02, <2>0, <2>1 DEF OpenFails
  <2>2. CASE OpenTag(raw, pending.prefix, bare) /\ UNCHANGED <<config, pending, texts>>
    <3>1. raw \in Name \ Reserved /\ pending.prefix \in Word /\ bare \in Name
      BY <2>0, PendingAttrType DEF TypeInv
    <3>2. bare # NoTag
      <4>1. Len(bare) >= Len(raw) /\ Len(raw) \in Nat /\ Len(raw) # 0
        BY <3>1, QualifyType, EmptySeq, LenProperties DEF TypeInv, TypeOK, Name, Reserved, NoTag
      <4> QED
        BY <4>1, ReservedNames
    <3>3. raw = AttrTag(pending) /\ raw' = raw
      BY <2>2 DEF AttrTag, SwishTag, Qualify, LowerName, LowerWord, IsHTML,
                  IgnoreXMLNameSpaces, ClassAttributes, Lower
    <3> HIDE DEF raw, bare
    <3>4. RouteInv' /\ open' # << >> /\ Top(open').raw = raw
      BY <2>0, <2>2, <3>1, <3>2, OpenTagRoutes
    <3>5. raw' = AttrTag(pending)'
      BY DEF raw
    <3> QED
      BY <3>3, <3>4, <3>5 DEF ValueOnTop, Top
  <2> QED
    BY <1>4, <2>1, <2>2 DEF OpenValue
<1>5. CASE BufferValue
  <2>1. /\ UNCHANGED <<config, open, metastack, propstack, tokens, properties, pending>>
        /\ phase = "value" /\ status = "parsing" /\ bump_word \in BOOLEAN
        /\ BufferCharacters(bump_word)
    BY <1>5 DEF BufferValue, At, docVars, configVars, stackVars, outVars, TypeInv, TypeOK,
                BufferType
  <2>2. ValueOnTop'
    BY <2>1 DEF ValueOnTop, AttrTag, SwishTag, Qualify, LowerName, LowerWord, IsHTML,
                IgnoreXMLNameSpaces, ClassAttributes, Lower, Top
  <2> QED
    BY <1>00, <1>01, <2>1, <2>2
<1>6. CASE CloseValue
  <2> DEFINE raw == AttrTag(pending)
  <2>0. phase = "close" /\ status = "parsing" /\ open # << >> /\ raw = Top(open).raw
    BY <1>6 DEF CloseValue, At, ValueOnTop
  <2>1. CASE CloseFails(raw, pending.prefix)
    BY <1>02, <2>0, <2>1 DEF CloseFails
  <2>2. CASE /\ CloseTag(raw, pending.prefix) /\ phase' = "push"
             /\ UNCHANGED <<config, texts>>
    <3>1. raw \in Name \ Reserved /\ pending.prefix \in Word
      BY <2>0, PendingAttrType DEF TypeInv
    <3> HIDE DEF raw
    <3> QED
      BY <2>0, <2>2, <3>1, CloseTagRoutes DEF ValueOnTop
  <2> QED
    BY <1>6, <2>1, <2>2 DEF CloseValue
<1>7. CASE PushElement
  <2> DEFINE dealtWith == IsHTML /\ pending.attr # NoAttr /\ pending.attr.value # NoContent
             bare      == IF dealtWith THEN NoTag ELSE SwishTag(pending)
  <2>0. phase = "push" /\ status = "parsing"
    BY <1>7 DEF PushElement, At
  <2>1. CASE OpenFails(pending.raw, bare)
    BY <1>02, <2>0, <2>1 DEF OpenFails
  <2>2. CASE /\ OpenTag(pending.raw, pending.prefix, bare) /\ phase' = "sax"
             /\ UNCHANGED <<config, texts>>
    <3>1. pending \in Elements
      BY <2>0 DEF TypeInv, PhaseFacts
    <3>2. pending.raw \in Name \ Reserved /\ pending.prefix \in Word /\ bare \in Name
      BY <3>1, ElementFacts, SwishTagType, ReservedNames DEF TypeInv, TypeOK
    <3>3. bare = NoTag => IsHTML
      <4>1. SwishTag(pending) # NoTag
        BY <3>1, SwishTagType, ReservedNames DEF TypeInv, TypeOK
      <4> QED
        BY <4>1
    <3> HIDE DEF bare
    <3> QED
      BY <2>0, <2>2, <3>2, <3>3, OpenTagRoutes DEF ValueOnTop
  <2> QED
    BY <1>7, <2>1, <2>2 DEF PushElement, histVars
<1>8. CASE EndElement
  <2> DEFINE raw    == Top(open).raw
             prefix == Top(open).prefix
  <2>0. phase = "sax" /\ status = "parsing" /\ open # << >>
    BY <1>8 DEF EndElement, At
  <2>1. CASE CloseFails(raw, prefix)
    BY <1>02, <2>0, <2>1 DEF CloseFails
  <2>2. CASE CloseTag(raw, prefix) /\ UNCHANGED <<config, texts, phase>>
    <3>1. Top(open) \in OpenElement
      BY <2>0, TopType DEF TypeInv, TypeOK, DocType
    <3>2. raw \in Name \ Reserved /\ prefix \in Word /\ raw = Top(open).raw
      BY <3>1 DEF OpenElement
    <3> HIDE DEF raw, prefix
    <3> QED
      BY <2>0, <2>2, <3>2, CloseTagRoutes DEF ValueOnTop
  <2> QED
    BY <1>8, <2>1, <2>2 DEF EndElement, bakeVars
<1>9. CASE Characters
  <2>1. /\ UNCHANGED <<config, open, metastack, propstack, tokens, properties, phase>>
        /\ phase = "sax" /\ status = "parsing" /\ bump_word \in BOOLEAN
        /\ BufferCharacters(bump_word)
    BY <1>9 DEF Characters, At, bakeVars, configVars, stackVars, outVars, TypeInv, TypeOK,
                BufferType
  <2> QED
    BY <1>00, <1>01, <2>1 DEF ValueOnTop
<1>10. CASE CommentNoindex \/ CommentIndex \/ CommentOther
  <2>1. /\ UNCHANGED <<config, open, metastack, propstack, meta_buf, tokens, texts, properties,
                       phase>>
        /\ phase = "sax" /\ status = "parsing"
    BY <1>10 DEF CommentNoindex, CommentIndex, CommentOther, At, bakeVars, configVars,
                 stackVars, bufVars, outVars
  <2> QED
    BY <1>0, <1>01, <2>1 DEF ValueOnTop
<1>11. CASE EndDocument
  <2>1. phase' = "sax"
    BY <1>11 DEF EndDocument, At, bakeVars
  <2> QED
    BY <1>11, <2>1, EndDocumentRoutes DEF ValueOnTop
<1>12. CASE UNCHANGED vars
  BY <1>12 DEF vars, docVars, bakeVars, configVars, stackVars, bufVars, outVars, histVars,
       RouteInv, StacksFollow, MetastackFollowsDocument, PropstackFollowsDocument, OpenMetas,
       OpenProps, WaitingOwner, RoutedToInnermost, MetaStoredAs, MetaAlias, ValueOnTop, Top,
       AttrTag, SwishTag, Qualify, LowerName, LowerWord, IsHTML, IgnoreXMLNameSpaces,
       ClassAttributes, Lower
<1> QED
  BY <1>1, <1>2, <1>3, <1>4, <1>5, <1>6, <1>7, <1>8, <1>9, <1>10, <1>11, <1>12
     DEF Next, Finished

LEMMA RouteAlways == Spec /\ []NoClash => [](TypeInv /\ RouteInv)
<1>1. Init => AllInv
  BY TypeInit, WordInit, RouteInit DEF AllInv
<1>2. AllInv /\ NoClash /\ [Next]_vars => AllInv'
  BY TypeNext, WordNext, RouteNext DEF AllInv
<1>3. AllInv => TypeInv /\ RouteInv
  BY DEF AllInv
<1> QED
  BY <1>1, <1>2, <1>3, PTL DEF Spec

\* As long as no unwatched element stands inside a watched one of the same name,
\* pop_tag_stack_on_match pops from the metastack what the start tag pushed.
THEOREM MetastackCorrect == Spec /\ []NoClash => []MetastackFollowsDocument
<1>1. RouteInv => MetastackFollowsDocument
  BY DEF RouteInv, StacksFollow
<1> QED
  BY <1>1, RouteAlways, PTL

\* The same for the property stack.
THEOREM PropstackCorrect == Spec /\ []NoClash => []PropstackFollowsDocument
<1>1. RouteInv => PropstackFollowsDocument
  BY DEF RouteInv, StacksFollow
<1> QED
  BY <1>1, RouteAlways, PTL

\* Under the same condition flush_buffer, which asks only for the top of the
\* metastack, gives every word to the innermost watched element it stood in.
THEOREM RoutingCorrect == Spec /\ []NoClash => []RoutedToInnermost
<1>1. RouteInv => RoutedToInnermost
  BY DEF RouteInv
<1> QED
  BY <1>1, RouteAlways, PTL

-----------------------------------------------------------------------------
(* The named buffers of metanames.                                         *)

\* The places at which a run of characters stands in the chunks of a buffer, as
\* Occurs counts them.
PlacesIn(s, r) ==
  {ci \in {<<c, i>> : c \in 1..Len(s), i \in 1..MaxText * 2} :
     ci[2] \in 1..Len(s[ci[1]]) /\ s[ci[1]][ci[2]] = r}

StandsAt(s, r, c, i) ==
  c \in 1..Len(s) /\ i \in 1..MaxText * 2 /\ i \in 1..Len(s[c]) /\ s[c][i] = r

LEMMA PlacesForm ==
  ASSUME NEW s, NEW r
  PROVE  /\ \A c, i : StandsAt(s, r, c, i) => <<c, i>> \in PlacesIn(s, r)
         /\ \A x \in PlacesIn(s, r) : \E c, i : x = <<c, i>> /\ StandsAt(s, r, c, i)
BY DEF PlacesIn, StandsAt

LEMMA PlacesJoined ==
  ASSUME NEW s \in Seq(Chunk), NEW chunk \in Chunk, NEW k \in Nat, NEW r, NEW c, NEW i,
         NEW new, new = s \o Copies(chunk, k)
  PROVE  StandsAt(new, r, c, i) <=>
           \/ StandsAt(s, r, c, i)
           \/ /\ c \in (Len(s) + 1)..(Len(s) + k)
              /\ i \in 1..MaxText * 2 /\ i \in 1..Len(chunk) /\ chunk[i] = r
<1>1. Copies(chunk, k) \in Seq(Chunk) /\ Len(Copies(chunk, k)) = k /\ Len(s) \in Nat
      /\ \A j \in 1..k : Copies(chunk, k)[j] = chunk
  BY CopiesType, CopiesForm, LenProperties
<1> DEFINE more == Copies(chunk, k)
<1> HIDE DEF more
<1>2. /\ Len(new) = Len(s) + k
      /\ \A j \in 1..(Len(s) + k) : new[j] = IF j <= Len(s) THEN s[j] ELSE more[j - Len(s)]
  BY <1>1, ConcatProperties DEF more
<1>3. \A j \in 1..Len(s) : j \in 1..(Len(s) + k) /\ new[j] = s[j]
  BY <1>1, <1>2
<1>4. \A j \in (Len(s) + 1)..(Len(s) + k) : j \in 1..(Len(s) + k) /\ new[j] = chunk
  <2> SUFFICES ASSUME NEW j \in (Len(s) + 1)..(Len(s) + k)
               PROVE  j \in 1..(Len(s) + k) /\ new[j] = chunk
    OBVIOUS
  <2>1. j \in 1..(Len(s) + k) /\ ~(j <= Len(s)) /\ j - Len(s) \in 1..k
    BY <1>1
  <2> QED BY <1>1, <1>2, <2>1 DEF more
<1>5. \A j \in 1..(Len(s) + k) : j \in 1..Len(s) \/ j \in (Len(s) + 1)..(Len(s) + k)
  BY <1>1
<1> QED BY <1>2, <1>3, <1>4, <1>5 DEF StandsAt

\* Adding a chunk no times.
LEMMA NoneAdded ==
  ASSUME NEW s \in Seq(Chunk), NEW chunk
  PROVE  s \o Copies(chunk, 0) = s
<1>1. Copies(chunk, 0) = << >>
  BY NoCopies
<1> QED BY <1>1, ConcatSimplifications, EmptySeq

\* Without CascadeMetaContext a word stands once in the buffer of its token's
\* metaname, and nowhere else.
HasToken(r, n) == \E t \in tokens : t.text = r /\ t.meta = n
Waits(r) == \E i \in 1..Len(meta_buf) : meta_buf[i] = r
Stored ==
  \A n \in Name, r \in Runs :
    /\ HasToken(r, n) => \E p : PlacesIn(Chunks(metabufs, n), r) = {p}
    /\ ~HasToken(r, n) => PlacesIn(Chunks(metabufs, n), r) = {}
StoreInv ==
  /\ Len(meta_buf) <= 2 * Len(texts)
  /\ Tokenize /\ ~CascadeMetaContext => Stored

LEMMA StoreInit == Init => StoreInv
<1> SUFFICES ASSUME Init PROVE StoreInv
  OBVIOUS
<1>1. meta_buf = << >> /\ texts = << >> /\ tokens = {} /\ Len(meta_buf) = 0 /\ Len(texts) = 0
  BY EmptySeq DEF Init
<1>2. \A n : Chunks(metabufs, n) = << >>
  BY DEF Init, Chunks
<1>3. \A r : PlacesIn(<< >>, r) = {}
  BY EmptySeq DEF PlacesIn
<1> QED BY <1>1, <1>2, <1>3 DEF StoreInv, Stored, HasToken, KeptTexts

LEMMA FlushStores ==
  ASSUME TypeInv, WordInv, StoreInv, MetaFlushed, config' = config
  PROVE  StoreInv'
<1>1. PICK name \in Name, stack \in Seq(Entries), learnt \in SUBSET Name :
        /\ stack # << >> /\ stack[1].baked = SwishDefault
        /\ FlushTo(name, stack, learnt)
  BY DEF MetaFlushed
<1> DEFINE times == MetaTimes(name, stack)
           stored == MetaStoredAs(name)
<1>2. /\ tokens' = tokens \cup TokensFrom(name) /\ meta_buf' = << >> /\ texts' = texts
      /\ KeptTexts' = KeptTexts /\ Len(meta_buf') = 0
  BY <1>1, EmptySeq DEF FlushTo, MetaFlushed, KeptTexts
<1>3. /\ Len(texts) \in Nat /\ Len(texts) <= MaxText /\ Len(meta_buf) \in Nat /\ MaxText \in Nat
      /\ Len(meta_buf) <= MaxText * 2
  <2>1. /\ Len(texts) \in Nat /\ Len(texts) <= MaxText /\ Len(meta_buf) \in Nat /\ MaxText \in Nat
    BY LenProperties, BoundAssumption DEF TypeInv, TypeOK, HistoryType, BufferType, Waiting
  <2>2. Len(meta_buf) <= 2 * Len(texts)
    BY DEF StoreInv
  <2>3. \A x, y, z \in Nat : z <= 2 * x /\ x <= y => z <= y * 2
    OBVIOUS
  <2> QED BY <2>1, <2>2, <2>3
<1>4. ASSUME NEW n
      PROVE  /\ Chunks(metabufs, n) \in Seq(Chunk) /\ meta_buf \in Chunk /\ Count(times, n) \in Nat
             /\ meta_buf = << >> => Chunks(metabufs', n) = Chunks(metabufs, n)
             /\ meta_buf # << >> =>
                  Chunks(metabufs', n) = Chunks(metabufs, n) \o Copies(meta_buf, Count(times, n))
  BY <1>1, FlushedChunks
<1>5. Tokenize' = Tokenize /\ CascadeMetaContext' = CascadeMetaContext
  BY DEF Tokenize, CascadeMetaContext
<1>6. ASSUME Tokenize, ~CascadeMetaContext PROVE Stored'
  <2> SUFFICES ASSUME NEW n \in Name, NEW r \in Runs
               PROVE  /\ HasToken(r, n)' => \E p : PlacesIn(Chunks(metabufs', n), r) = {p}
                      /\ ~HasToken(r, n)' => PlacesIn(Chunks(metabufs', n), r) = {}
    BY DEF Stored, Chunks
  <2> DEFINE s == Chunks(metabufs, n)
             new == Chunks(metabufs', n)
  <2>1. /\ HasToken(r, n) => \E p : PlacesIn(s, r) = {p}
        /\ ~HasToken(r, n) => PlacesIn(s, r) = {}
    BY <1>6 DEF StoreInv, Stored
  <2>2. r \in Nat /\ r # BUMP
    BY <1>3 DEF Runs, BUMP
  <2>3. HasToken(r, n)' <=> HasToken(r, n) \/ (Waits(r) /\ n = stored)
    <3>1. TokensFrom(name) = {[meta |-> stored, text |-> meta_buf[i], pos |-> pos + i] :
                                i \in {j \in 1..Len(meta_buf) : meta_buf[j] # BUMP}}
      BY <1>6 DEF TokensFrom
    <3> HIDE DEF stored
    <3>2. ASSUME NEW t \in TokensFrom(name), t.text = r, t.meta = n PROVE Waits(r) /\ n = stored
      <4>1. PICK i \in 1..Len(meta_buf) : t = [meta |-> stored, text |-> meta_buf[i], pos |-> pos + i]
        BY <3>1, <3>2
      <4>2. t.text = meta_buf[i] /\ t.meta = stored
        BY <4>1
      <4> QED BY <3>2, <4>2 DEF Waits
    <3>3. ASSUME Waits(r), n = stored PROVE \E t \in TokensFrom(name) : t.text = r /\ t.meta = n
      <4>1. PICK i \in 1..Len(meta_buf) : meta_buf[i] = r
        BY <3>3 DEF Waits
      <4> DEFINE t == [meta |-> stored, text |-> meta_buf[i], pos |-> pos + i]
      <4>2. t \in TokensFrom(name)
        BY <2>2, <3>1, <4>1
      <4>3. t.text = r /\ t.meta = n
        BY <3>3, <4>1
      <4> QED BY <4>2, <4>3
    <3> QED BY <1>2, <3>2, <3>3 DEF HasToken, stored
  <2>4. CASE meta_buf = << >>
    <3>1. ~Waits(r)
      BY <2>4, EmptySeq DEF Waits
    <3> QED BY <1>4, <2>1, <2>3, <2>4, <3>1
  <2>5. CASE meta_buf # << >> /\ n # stored
    <3>1. Count(times, n) = 0
      BY <1>6, <2>5 DEF Count, MetaTimes
    <3>2. new = s
      BY <1>4, <2>5, <3>1, NoneAdded
    <3> QED BY <2>1, <2>3, <2>5, <3>2
  <2>6. CASE meta_buf # << >> /\ n = stored
    <3>1. Count(times, n) = 1
      BY <1>6, <2>6 DEF Count, MetaTimes
    <3>2. s \in Seq(Chunk) /\ meta_buf \in Chunk /\ new = s \o Copies(meta_buf, 1)
      BY <1>4, <2>6, <3>1
    <3>l. PICK k : k = Len(s) + 1
      OBVIOUS
    <3>3. \A c, i : StandsAt(new, r, c, i) <=>
                      \/ StandsAt(s, r, c, i)
                      \/ c = k /\ i \in 1..MaxText * 2 /\ i \in 1..Len(meta_buf) /\ meta_buf[i] = r
      <4> HIDE DEF s, new
      <4>1. Len(s) \in Nat /\ 1 \in Nat
        BY <3>2, LenProperties
      <4>2. \A c : c \in (Len(s) + 1)..(Len(s) + 1) <=> c = k
        BY <3>l, <4>1
      <4> SUFFICES ASSUME NEW c, NEW i
                   PROVE  StandsAt(new, r, c, i) <=>
                            \/ StandsAt(s, r, c, i)
                            \/ c = k /\ i \in 1..MaxText * 2 /\ i \in 1..Len(meta_buf) /\ meta_buf[i] = r
        OBVIOUS
      <4>3. StandsAt(new, r, c, i) <=>
              \/ StandsAt(s, r, c, i)
              \/ /\ c \in (Len(s) + 1)..(Len(s) + 1)
                 /\ i \in 1..MaxText * 2 /\ i \in 1..Len(meta_buf) /\ meta_buf[i] = r
        <5>1. PICK u, v, b : u = s /\ v = new /\ b = meta_buf
          OBVIOUS
        <5>2. u \in Seq(Chunk) /\ b \in Chunk /\ v = u \o Copies(b, 1)
          BY <3>2, <5>1
        <5>3. StandsAt(v, r, c, i) <=>
                \/ StandsAt(u, r, c, i)
                \/ /\ c \in (Len(u) + 1)..(Len(u) + 1)
                   /\ i \in 1..MaxText * 2 /\ i \in 1..Len(b) /\ b[i] = r
          <6>1. PICK one \in Nat : one = 1
            OBVIOUS
          <6>2. v = u \o Copies(b, one)
            BY <5>2, <6>1
          <6>3. StandsAt(v, r, c, i) <=>
                \/ StandsAt(u, r, c, i)
                \/ /\ c \in (Len(u) + 1)..(Len(u) + one)
                   /\ i \in 1..MaxText * 2 /\ i \in 1..Len(b) /\ b[i] = r
            BY <5>2, <6>2, PlacesJoined
          <6> QED BY <6>1, <6>3
        <5> QED BY <5>1, <5>3
      <4> QED BY <4>2, <4>3, Zenon
    <3> HIDE DEF s, new
    <3>4. CASE Waits(r)
      <4>1. PICK i \in 1..Len(meta_buf) : meta_buf[i] = r
        BY <3>4 DEF Waits
      <4>2. ~HasToken(r, n)
        BY <2>2, <4>1 DEF HasToken, WordInv, WaitingBehindTokens
      <4>3. \A j \in 1..Len(meta_buf) : meta_buf[j] = r => j = i
        BY <1>3, <2>2, <4>1 DEF WordInv, WaitingInOrder
      <4>4. i \in 1..MaxText * 2
        BY <1>3
      <4>5. \A c, j : ~StandsAt(s, r, c, j)
        BY <2>1, <4>2, PlacesForm
      <4>6. StandsAt(new, r, k, i) /\ \A c, j : StandsAt(new, r, c, j) => c = k /\ j = i
        BY <3>3, <4>1, <4>3, <4>4, <4>5
      <4>7. PlacesIn(new, r) = {<<k, i>>}
        BY <4>6, PlacesForm
      <4> QED BY <2>3, <2>6, <3>4, <4>7 DEF new
    <3>5. CASE ~Waits(r)
      <4>1. \A c, i : StandsAt(new, r, c, i) <=> StandsAt(s, r, c, i)
        BY <3>3, <3>5 DEF Waits
      <4>2. \A x \in PlacesIn(new, r) : x \in PlacesIn(s, r)
        BY <4>1, PlacesForm
      <4>3. \A x \in PlacesIn(s, r) : x \in PlacesIn(new, r)
        BY <4>1, PlacesForm
      <4>4. PlacesIn(new, r) = PlacesIn(s, r)
        BY <4>2, <4>3
      <4> QED BY <2>1, <2>3, <3>5, <4>4 DEF new
    <3> QED BY <3>4, <3>5
  <2> QED BY <2>4, <2>5, <2>6
<1> QED BY <1>2, <1>3, <1>5, <1>6 DEF StoreInv

LEMMA StoredStays ==
  ASSUME tokens' = tokens, \A n : Chunks(metabufs', n) = Chunks(metabufs, n), Stored
  PROVE  Stored'
<1> SUFFICES ASSUME NEW n \in Name, NEW r \in Runs
             PROVE  /\ HasToken(r, n)' => \E p : PlacesIn(Chunks(metabufs', n), r) = {p}
                    /\ ~HasToken(r, n)' => PlacesIn(Chunks(metabufs', n), r) = {}
  BY DEF Stored, Chunks
<1>1. HasToken(r, n)' <=> HasToken(r, n)
  BY DEF HasToken
<1>2. Chunks(metabufs', n) = Chunks(metabufs, n)
  OBVIOUS
<1> QED BY <1>1, <1>2 DEF Stored

LEMMA StoreNext == TypeInv /\ WordInv /\ StoreInv /\ [Next]_vars => StoreInv'
<1> SUFFICES ASSUME TypeInv, WordInv, StoreInv, [Next]_vars PROVE StoreInv'
  OBVIOUS
<1>1. MetaStep
  BY MetaSteps
<1>2. Tokenize' = Tokenize /\ CascadeMetaContext' = CascadeMetaContext
  BY <1>1 DEF MetaStep, Tokenize, CascadeMetaContext
<1>3. CASE MetaFlushed
  BY <1>1, <1>3, FlushStores DEF MetaStep
<1>4. CASE MetaKept
  <2>1. UNCHANGED <<meta_buf, tokens, texts>> /\ \A n : Chunks(metabufs', n) = Chunks(metabufs, n)
    BY <1>4 DEF MetaKept, SameChunks
  <2>2. Stored => Stored'
    BY <2>1, StoredStays
  <2> QED BY <1>2, <2>1, <2>2 DEF StoreInv
<1>5. CASE MetaRead
  <2>1. tokens' = tokens /\ \A n : Chunks(metabufs', n) = Chunks(metabufs, n)
    BY <1>5 DEF MetaRead, SameChunks
  <2>2. Stored => Stored'
    BY <2>1, StoredStays
  <2>3. PICK bump \in BOOLEAN : BufferCharacters(bump)
    BY <1>5 DEF MetaRead
  <2> DEFINE text == [owner |-> InnermostMeta, props |-> OpenProps, metas |-> OpenMetas,
                      segment |-> segment, noindex |-> noindex,
                      kept |-> ignore_content = 0]
  <2>4. text \in Text /\ texts' = Append(texts, text) /\ text.kept = (ignore_content = 0)
    BY <2>3, InnermostType DEF TypeInv, Text, TypeOK, HistoryType, BufferCharacters
  <2> HIDE DEF text
  <2>5. /\ Len(texts) \in Nat /\ Len(texts') = Len(texts) + 1 /\ texts'[Len(texts) + 1] = text
        /\ \A r \in 1..Len(texts) : texts'[r] = texts[r]
    BY <2>4, AppendProperties, LenProperties DEF TypeInv, TypeOK, HistoryType
  <2>6. meta_buf \in Waiting /\ Len(meta_buf) \in Nat /\ ignore_content \in Nat
    BY LenProperties DEF TypeInv, TypeOK, BufferType, Waiting
  <2>l. PICK run, k : run = Len(texts) + 1 /\ k = Len(meta_buf)
    OBVIOUS
  <2>7. \/ meta_buf' = meta_buf /\ ignore_content # 0
        \/ /\ Len(meta_buf') <= k + 2 /\ Len(meta_buf') \in Nat
           /\ \E i \in 1..Len(meta_buf') : meta_buf'[i] = run
           /\ \A i \in 1..k : i \in 1..Len(meta_buf') /\ meta_buf'[i] = meta_buf[i]
    <3>1. CASE ignore_content > 0
      BY <2>3, <3>1 DEF BufferCharacters
    <3>2. CASE ~(ignore_content > 0) /\ bump /\ meta_buf # << >>
      <4>1. meta_buf' = meta_buf \o <<BUMP, run>>
        BY <2>3, <2>l, <3>2 DEF BufferCharacters, Buffered
      <4>2. /\ Len(meta_buf') = k + 2 /\ meta_buf'[k + 2] = run
            /\ \A i \in 1..k : meta_buf'[i] = meta_buf[i]
        BY <2>6, <2>l, <4>1 DEF Waiting
      <4> QED BY <2>6, <2>l, <4>2
    <3>3. CASE ~(ignore_content > 0) /\ ~(bump /\ meta_buf # << >>)
      <4>1. meta_buf' = Append(meta_buf, run)
        BY <2>3, <2>l, <3>3 DEF BufferCharacters, Buffered
      <4>2. /\ Len(meta_buf') = k + 1 /\ meta_buf'[k + 1] = run
            /\ \A i \in 1..k : meta_buf'[i] = meta_buf[i]
        BY <2>6, <2>l, <4>1, AppendProperties DEF Waiting
      <4> QED BY <2>6, <2>l, <4>2
    <3> QED BY <3>1, <3>2, <3>3
  <2>8. Len(meta_buf') <= 2 * Len(texts')
    BY <2>5, <2>6, <2>7, <2>l DEF StoreInv
  <2> QED BY <1>2, <2>2, <2>8 DEF StoreInv
<1> QED BY <1>1, <1>3, <1>4, <1>5 DEF MetaStep

LEMMA StoreAlways == Spec => [](TypeInv /\ WordInv /\ StoreInv)
BY TypeInit, TypeNext, WordInit, WordNext, StoreInit, StoreNext, PTL DEF Spec

LEMMA OccursPlaces ==
  ASSUME TypeInv, NEW n, NEW r
  PROVE  /\ Occurs(metabufs, n, r) = Cardinality(PlacesIn(Chunks(metabufs, n), r))
         /\ IsFiniteSet(PlacesIn(Chunks(metabufs, n), r))
<1> DEFINE s == Chunks(metabufs, n)
           rectangle == (1..Len(s)) \X (1..MaxText * 2)
<1>1. Occurs(metabufs, n, r) = Cardinality(PlacesIn(s, r))
  <2>1. CASE n \in DOMAIN metabufs
    BY <2>1 DEF Occurs, PlacesIn, Chunks
  <2>2. CASE n \notin DOMAIN metabufs
    <3>1. s = << >> /\ 1..Len(s) = {}
      BY <2>2, EmptySeq DEF Chunks
    <3>2. PlacesIn(s, r) = {}
      BY <3>1 DEF PlacesIn
    <3> DEFINE counted ==
          {ci \in {<<c, i>> : c \in 1..Len(s), i \in 1..MaxText * 2} :
             ci[2] \in 1..Len(metabufs[n][ci[1]]) /\ metabufs[n][ci[1]][ci[2]] = r}
    <3>3. counted = {}
      BY <3>1
    <3>4. Occurs(metabufs, n, r) = Cardinality(counted)
      BY DEF Occurs
    <3> HIDE DEF s, counted
    <3> QED BY <3>2, <3>3, <3>4
  <2> QED BY <2>1, <2>2
<1>2. Len(s) \in Nat /\ MaxText * 2 \in Nat
  <2>1. s \in Seq(Chunk)
    BY ChunksType DEF TypeInv, TypeOK, OutType
  <2> QED BY <2>1, LenProperties, BoundAssumption
<1>3. IsFiniteSet(1..Len(s)) /\ IsFiniteSet(1..MaxText * 2)
  BY <1>2, FS_Interval
<1>4. IsFiniteSet(rectangle)
  BY <1>3, FS_Product
<1>5. PlacesIn(s, r) \subseteq rectangle
  BY DEF PlacesIn
<1> HIDE DEF s, rectangle
<1>6. IsFiniteSet(PlacesIn(s, r))
  BY <1>4, <1>5, FS_Subset
<1> QED BY <1>1, <1>6 DEF s

\* Without CascadeMetaContext flush_buffer writes a word into the named buffer of
\* the metaname it gives its token, once, and into no other.
THEOREM BuffersCorrect == Spec => []BuffersMatchTokens
<1>1. TypeInv /\ WordInv /\ StoreInv => BuffersMatchTokens
  <2> SUFFICES ASSUME TypeInv, WordInv, StoreInv, Tokenize, ~CascadeMetaContext,
                      NEW n \in DOMAIN metabufs, NEW r \in KeptTexts
               PROVE  Occurs(metabufs, n, r) = Cardinality({t \in TokensOf(r) : t.meta = n})
    BY DEF BuffersMatchTokens
  <2> DEFINE placed == PlacesIn(Chunks(metabufs, n), r)
             mine   == {t \in TokensOf(r) : t.meta = n}
  <2>1. n \in Name /\ r \in Runs
    <3>1. n \in Name
      BY DEF TypeInv, TypeOK, OutType, BufsOK
    <3>2. Len(texts) \in Nat /\ Len(texts) <= MaxText /\ MaxText \in Nat /\ r \in 1..Len(texts)
      BY LenProperties, BoundAssumption DEF TypeInv, TypeOK, HistoryType, KeptTexts
    <3> QED BY <3>1, <3>2 DEF Runs
  <2>2. /\ HasToken(r, n) => \E p : placed = {p}
        /\ ~HasToken(r, n) => placed = {}
    BY <2>1 DEF StoreInv, Stored
  <2>3. Occurs(metabufs, n, r) = Cardinality(placed)
    BY OccursPlaces
  <2> HIDE DEF placed
  <2>4. CASE HasToken(r, n)
    <3>1. PICK t \in tokens : t.text = r /\ t.meta = n
      BY <2>4 DEF HasToken
    <3>2. \A u \in tokens : u.text = r => u = t
      BY <3>1 DEF WordInv, TokensInOrder
    <3>3. mine = {t}
      BY <3>1, <3>2 DEF TokensOf
    <3>4. Cardinality(placed) = 1
      BY <2>2, <2>4, FS_Singleton
    <3>5. Cardinality(mine) = 1
      BY <3>3, FS_Singleton
    <3> QED BY <2>3, <3>4, <3>5
  <2>5. CASE ~HasToken(r, n)
    <3>1. mine = {}
      BY <2>5 DEF HasToken, TokensOf
    <3> QED BY <2>2, <2>3, <2>5, <3>1
  <2> QED BY <2>4, <2>5
<1> QED BY <1>1, StoreAlways, PTL

-----------------------------------------------------------------------------
(* Tags and names: what opens and closes an element, and what comes between. *)

\* A step that opens no element and closes none.
Between ==
  /\ UNCHANGED <<config, open, metastack, domstack>>
  /\ metanames \subseteq metanames' /\ NoTag \notin metanames' \ metanames
  /\ status' = status \/ status' = "done" \/ (status' = "croaked" /\ phase = "attr")
  /\ UNCHANGED <<phase, pending>> \/ (status = "parsing" /\ status' = status)
  /\ phase' \in {"value", "close"} => phase \in {"value", "close"} /\ pending' = pending
  /\ phase' = "open" =>
       \/ UNCHANGED <<phase, pending>>
       \/ /\ pending' = pending
          /\ IsHTML /\ UndefinedMetaTags \in {"auto", "autoall"} =>
               AttrTag(pending) \in metanames' \cup DOMAIN TagAliases

\* open_tag, for an element or for an attribute of it.
Opens(raw, bare) ==
  /\ status = "parsing"
  /\ \/ phase = "open" /\ raw = AttrTag(pending) /\ bare = Qualify(pending.prefix, raw)
     \/ /\ phase = "push" /\ raw = pending.raw
        /\ bare = SwishTag(pending) \/ (IsHTML /\ bare = NoTag)
  /\ \/ OpenFails(raw, bare)
     \/ /\ OpenTag(raw, pending.prefix, bare) /\ config' = config /\ status' = status
        /\ phase = "open" => phase' = "value" /\ pending' = pending
        /\ phase = "push" => phase' = "sax"

\* close_tag, for what open_tag has pushed.
Closes(raw, prefix) ==
  /\ status = "parsing" /\ open # << >>
  /\ \/ phase = "close" /\ raw = AttrTag(pending) /\ prefix = pending.prefix
     \/ phase = "sax" /\ raw = Top(open).raw /\ prefix = Top(open).prefix
  /\ \/ CloseFails(raw, prefix)
     \/ /\ CloseTag(raw, prefix) /\ config' = config /\ status' = status
        /\ phase' \in {"push", "sax"}

LEMMA NoTagEmpty == \A n \in Name : n # NoTag <=> Len(n) >= 1
BY EmptySeq, LenProperties DEF Name, NoTag

LEMMA TagSteps ==
  TypeInv /\ [Next]_vars =>
    Between \/ (\E raw, bare : Opens(raw, bare)) \/ (\E raw, prefix : Closes(raw, prefix))
<1> SUFFICES ASSUME TypeInv, [Next]_vars
             PROVE  Between \/ (\E raw, bare : Opens(raw, bare))
                    \/ (\E raw, prefix : Closes(raw, prefix))
  OBVIOUS
<1>1. ASSUME NEW e \in Elements, StartElement(e) PROVE Between
  BY <1>1 DEF StartElement, At, configVars, stackVars, Between
<1>2. CASE XmlAttribute
  <2> DEFINE tag == AttrTag(pending)
  <2>1. tag \in Name \ Reserved
    BY <1>2, PendingAttrType DEF XmlAttribute, At, TypeInv
  <2>2. NoTag # tag
    BY <2>1 DEF Reserved
  <2>3. CASE Die("croaked")
    BY <1>2, <2>3 DEF XmlAttribute, At, Die, Between, configVars, stackVars, bakeVars
  <2>4. CASE ~Die("croaked")
    <3>1. /\ ~IsHTML /\ phase = "attr" /\ status = "parsing"
          /\ UNCHANGED <<config, open, metastack, domstack, status, pending>>
          /\ metanames' \in {metanames, metanames \cup {tag}}
          /\ phase' \in {"open", "push"}
      BY <1>2, <2>4 DEF XmlAttribute, At, docVars, stackVars, Learn
    <3> HIDE DEF tag
    <3> QED BY <2>2, <3>1 DEF Between
  <2> QED BY <2>3, <2>4
<1>3. CASE HtmlMeta
  <2> DEFINE name == AttrTag(pending)
  <2>1. name \in Name \ Reserved
    BY <1>3, PendingAttrType DEF HtmlMeta, At, TypeInv
  <2>2. NoTag # name
    BY <2>1 DEF Reserved
  <2>3. CASE Die("croaked")
    BY <1>3, <2>3 DEF HtmlMeta, At, Die, Between, configVars, stackVars, bakeVars
  <2>4. CASE ~Die("croaked")
    <3>1. /\ IsHTML /\ phase = "attr" /\ status = "parsing"
          /\ UNCHANGED <<config, open, metastack, domstack, status, pending>>
          /\ metanames' = Learn(metanames, ~Known(name) /\ UndefinedMetaTags \in {"auto", "autoall"}, name)
          /\ phase' \in {"open", "push"}
      BY <1>3, <2>4 DEF HtmlMeta, At, docVars, stackVars
    <3> HIDE DEF name
    <3>2. metanames' \in {metanames, metanames \cup {name}}
      BY <3>1 DEF Learn
    <3>3. UndefinedMetaTags \in {"auto", "autoall"} => name \in metanames' \cup DOMAIN TagAliases
      BY <3>1 DEF Learn, Known
    <3> QED BY <2>2, <3>1, <3>2, <3>3 DEF Between, name
  <2> QED BY <2>3, <2>4
<1>4. CASE OpenValue
  <2>1. Opens(AttrTag(pending), Qualify(pending.prefix, AttrTag(pending)))
    BY <1>4 DEF OpenValue, At, Opens
  <2> QED BY <2>1
<1>5. CASE BufferValue
  BY <1>5 DEF BufferValue, At, docVars, configVars, stackVars, Between
<1>6. CASE CloseValue
  <2>1. Closes(AttrTag(pending), pending.prefix)
    BY <1>6 DEF CloseValue, At, Closes, TypeInv, PhaseFacts
  <2> QED BY <2>1
<1>7. CASE PushElement
  <2>1. PICK bare : /\ bare = SwishTag(pending) \/ (IsHTML /\ bare = NoTag)
                    /\ \/ OpenFails(pending.raw, bare)
                       \/ /\ OpenTag(pending.raw, pending.prefix, bare)
                          /\ phase' = "sax" /\ UNCHANGED <<config, status>>
    BY <1>7 DEF PushElement
  <2>2. phase = "push" /\ status = "parsing"
    BY <1>7 DEF PushElement, At
  <2>3. Opens(pending.raw, bare)
    BY <2>1, <2>2 DEF Opens
  <2> QED BY <2>3
<1>8. CASE EndElement
  <2>1. Closes(Top(open).raw, Top(open).prefix)
    BY <1>8 DEF EndElement, At, Closes, bakeVars
  <2> QED BY <2>1
<1>9. CASE Characters
  BY <1>9 DEF Characters, At, bakeVars, configVars, stackVars, Between
<1>10. CASE CommentNoindex \/ CommentIndex \/ CommentOther
  BY <1>10 DEF CommentNoindex, CommentIndex, CommentOther, At, bakeVars, configVars,
               stackVars, Between
<1>11. CASE EndDocument
  BY <1>11 DEF EndDocument, At, bakeVars, configVars, stackVars, Between
<1>12. CASE UNCHANGED vars
  BY <1>12 DEF vars, docVars, bakeVars, configVars, stackVars, Between
<1> QED
  BY <1>1, <1>2, <1>3, <1>4, <1>5, <1>6, <1>7, <1>8, <1>9, <1>10, <1>11, <1>12 DEF Next, Finished

\* The names that open_tag and close_tag are given.
LEMMA OpensType ==
  ASSUME TypeInv, NEW raw, NEW bare, Opens(raw, bare)
  PROVE  /\ pending \in Elements /\ pending.prefix \in Word /\ raw \in Name \ Reserved
         /\ bare \in Name /\ (~IsHTML \/ phase = "open" => bare # NoTag)
         /\ Len(open) \in Nat
<1>1. pending \in Elements
  BY DEF Opens, TypeInv, PhaseFacts
<1>2. pending.prefix \in Word /\ pending.raw \in Name \ Reserved
  BY <1>1, ElementFacts DEF TypeInv, TypeOK
<1>3. Len(open) \in Nat
  BY LenProperties DEF TypeInv, TypeOK, DocType
<1>4. CASE phase = "open"
  <2>1. raw \in Name \ Reserved /\ bare = Qualify(pending.prefix, raw)
    BY <1>4, PendingAttrType DEF Opens, TypeInv
  <2>2. bare \in Name /\ Len(bare) >= Len(raw)
    BY <1>2, <2>1, QualifyType DEF TypeInv, TypeOK
  <2>3. Len(raw) \in Nat /\ Len(bare) \in Nat /\ Len(raw) >= 1
    BY <2>1, <2>2, NoTagEmpty, LenProperties DEF Reserved, Name
  <2>4. bare # NoTag
    BY <2>2, <2>3, NoTagEmpty
  <2> QED BY <1>1, <1>2, <1>3, <2>1, <2>2, <2>4
<1>5. CASE phase = "push"
  <2>1. SwishTag(pending) \in Name /\ SwishTag(pending) # NoTag
    BY <1>1, SwishTagType, NoTagEmpty DEF TypeInv, TypeOK
  <2>2. raw = pending.raw /\ (bare = SwishTag(pending) \/ (IsHTML /\ bare = NoTag))
    BY <1>5 DEF Opens
  <2> QED BY <1>1, <1>2, <1>3, <1>5, <2>1, <2>2, ReservedNames
<1> QED BY <1>4, <1>5 DEF Opens

LEMMA ClosedName ==
  ASSUME TypeInv, NEW raw \in Name \ Reserved, NEW prefix \in Word
  PROVE  Qualify(prefix, raw) \in Name /\ Qualify(prefix, raw) # NoTag
<1>1. Qualify(prefix, raw) \in Name /\ Len(Qualify(prefix, raw)) >= Len(raw)
  BY QualifyType DEF TypeInv, TypeOK
<1>2. Len(raw) \in Nat /\ Len(Qualify(prefix, raw)) \in Nat /\ Len(raw) >= 1
  BY <1>1, NoTagEmpty, LenProperties DEF Reserved, Name
<1>3. Len(Qualify(prefix, raw)) >= 1
  BY <1>1, <1>2
<1> QED BY <1>1, <1>3, NoTagEmpty

LEMMA ClosesType ==
  ASSUME TypeInv, NEW raw, NEW prefix, Closes(raw, prefix)
  PROVE  /\ raw \in Name \ Reserved /\ prefix \in Word
         /\ Qualify(prefix, raw) \in Name /\ Qualify(prefix, raw) # NoTag
<1>1. CASE phase = "close"
  <2>1. raw \in Name \ Reserved /\ prefix \in Word
    BY <1>1, PendingAttrType DEF Closes, TypeInv
  <2> QED BY <2>1, ClosedName
<1>2. CASE phase = "sax"
  <2>1. Top(open) \in OpenElement
    BY TopType DEF Closes, TypeInv, TypeOK, DocType
  <2>2. raw \in Name \ Reserved /\ prefix \in Word
    BY <1>2, <2>1 DEF Closes, OpenElement
  <2> QED BY <2>2, ClosedName
<1> QED BY <1>1, <1>2 DEF Closes

\* What a tag may teach the configuration.
LEMMA LearntNames ==
  ASSUME NEW bare
  PROVE  MetasAfter(bare) \in {metanames, metanames \cup {bare}}
BY DEF MetasAfter, Learn

LEMMA DieKeeps ==
  ASSUME NEW how, Die(how)
  PROVE  /\ status' = how /\ UNCHANGED <<config, open, phase, pending, metanames, properties,
                                         metastack, domstack>>
BY DEF Die, bakeVars, configVars, stackVars

LEMMA NamesAsTheyAre ==
  ASSUME config' = config
  PROVE  /\ IsHTML' = IsHTML /\ UndefinedMetaTags' = UndefinedMetaTags
         /\ Elements' = Elements /\ MetaNames' = MetaNames /\ TagAliases' = TagAliases
         /\ \A prefix, raw : Qualify(prefix, raw)' = Qualify(prefix, raw)
         /\ \A e : SwishTag(e)' = SwishTag(e) /\ AttrTag(e)' = AttrTag(e)
BY DEF IsHTML, UndefinedMetaTags, Elements, MetaNames, TagAliases, Qualify, SwishTag, AttrTag,
       LowerName, LowerWord, Lower, ClassAttributes, IgnoreXMLNameSpaces

-----------------------------------------------------------------------------
(* Undefined tags: what is let in is let out.                              *)

\* No element of the document has an attribute that XMLClassAttributes joins to
\* its tag: bake_tag looks for one at start tags only.
NoClassTags == \A e \in Elements : SwishTag(e) = Qualify(e.prefix, e.raw)

AllKnown == \A i \in 1..Len(open) : Known(Qualify(open[i].prefix, open[i].raw))
ValueIsTop ==
  phase \in {"value", "close"} =>
    open # << >> /\ Top(open).raw = AttrTag(pending) /\ Top(open).prefix = pending.prefix
RefuseInv ==
  /\ NoClassTags => OnlyStartTagsAreRefused
  /\ ValueIsTop
  /\ NoClassTags /\ ~IsHTML /\ UndefinedMetaTags = "error" => AllKnown

LEMMA RefuseInit == Init => RefuseInv
<1> SUFFICES ASSUME Init PROVE RefuseInv
  OBVIOUS
<1>1. open = << >> /\ Len(open) = 0 /\ phase = "sax" /\ status = "parsing"
  BY EmptySeq DEF Init
<1> QED BY <1>1 DEF RefuseInv, OnlyStartTagsAreRefused, ValueIsTop, AllKnown

LEMMA KnownStays ==
  ASSUME config' = config, metanames \subseteq metanames', NEW prefix, NEW raw,
         Known(Qualify(prefix, raw))
  PROVE  Known(Qualify(prefix, raw))'
<1>1. Qualify(prefix, raw)' = Qualify(prefix, raw) /\ TagAliases' = TagAliases
  BY NamesAsTheyAre
<1> QED BY <1>1 DEF Known

LEMMA OpenedElement ==
  ASSUME TypeInv, NEW raw, NEW bare, Opens(raw, bare), OpenTag(raw, pending.prefix, bare)
  PROVE  \E element \in OpenElement :
           /\ open' = Append(open, element)
           /\ element.raw = raw /\ element.prefix = pending.prefix
           /\ element.meta = IF Watched(MetasAfter(bare), raw, bare)
                             THEN MetaKey(Aliased(bare), DomPath(raw, bare), MetasAfter(bare), PropsAfter(bare))
                             ELSE NoTag
<1> DEFINE metaKey == MetaKey(Aliased(bare), DomPath(raw, bare), MetasAfter(bare), PropsAfter(bare))
           propKey == PropKey(Aliased(bare), DomPath(raw, bare), PropsAfter(bare))
           element == [raw |-> raw, prefix |-> pending.prefix,
                       meta |-> IF Watched(MetasAfter(bare), raw, bare) THEN metaKey ELSE NoTag,
                       prop |-> IF Watched(PropsAfter(bare), raw, bare) THEN propKey ELSE NoTag]
<1>1. pending.prefix \in Word /\ raw \in Name \ Reserved /\ bare \in Name
  BY OpensType
<1>2. Aliased(bare) \in Name /\ DomPath(raw, bare) \in Name /\ NoTag \in Name
  BY <1>1, AliasedType, ReservedNames DEF TypeInv, TypeOK
<1>3. metaKey \in Name /\ propKey \in Name
  BY <1>2 DEF MetaKey, PropKey
<1>4. open' = Append(open, element)
  BY DEF OpenTag
<1> HIDE DEF metaKey, propKey
<1>5. element \in OpenElement
  BY <1>1, <1>2, <1>3 DEF OpenElement
<1> QED BY <1>4, <1>5 DEF metaKey

LEMMA RefuseNext == TypeInv /\ RefuseInv /\ [Next]_vars => RefuseInv'
<1> SUFFICES ASSUME TypeInv, RefuseInv, [Next]_vars PROVE RefuseInv'
  OBVIOUS
<1>0. /\ open \in Seq(OpenElement) /\ Len(open) \in Nat
  BY LenProperties DEF TypeInv, TypeOK, DocType
<1>1. CASE Between
  <2>1. config' = config /\ open' = open /\ metanames \subseteq metanames'
    BY <1>1 DEF Between
  <2>2. NoClassTags' = NoClassTags
    BY <2>1, NamesAsTheyAre DEF NoClassTags
  <2>3. OnlyStartTagsAreRefused => OnlyStartTagsAreRefused'
    BY <1>1 DEF Between, OnlyStartTagsAreRefused
  <2>4. ValueIsTop'
    <3>1. phase' \in {"value", "close"} => phase \in {"value", "close"} /\ pending' = pending
      BY <1>1 DEF Between
    <3>2. \A e : AttrTag(e)' = AttrTag(e)
      BY <2>1, NamesAsTheyAre
    <3>3. PICK e : e = pending
      OBVIOUS
    <3>4. AttrTag(e)' = AttrTag(e)
      BY <3>2
    <3>5. pending' = pending => AttrTag(pending)' = AttrTag(pending)
      BY <2>1, NamesAsTheyAre DEF AttrTag, SwishTag, Qualify, IsHTML, ClassAttributes,
         IgnoreXMLNameSpaces, LowerName, LowerWord, Lower
    <3> QED BY <2>1, <3>1, <3>5 DEF RefuseInv, ValueIsTop, Top
  <2>5. AllKnown => AllKnown'
    BY <2>1, KnownStays DEF AllKnown
  <2>6. IsHTML' = IsHTML /\ UndefinedMetaTags' = UndefinedMetaTags
    BY <2>1, NamesAsTheyAre
  <2> QED BY <2>2, <2>3, <2>4, <2>5, <2>6 DEF RefuseInv
<1>2. ASSUME NEW raw, NEW bare, Opens(raw, bare) PROVE RefuseInv'
  <2>0. /\ pending.prefix \in Word /\ raw \in Name \ Reserved /\ pending \in Elements
        /\ status = "parsing"
    BY <1>2, OpensType DEF Opens
  <2>1. CASE OpenFails(raw, bare)
    <3>1. PICK how \in {"croaked", "crashed"} : Die(how)
      BY <2>1 DEF OpenFails
    <3>2. /\ status' \in {"croaked", "crashed"}
          /\ UNCHANGED <<config, open, phase, pending, metanames>> /\ phase \in {"open", "push"}
      BY <1>2, <3>1, DieKeeps DEF Opens
    <3>3. OnlyStartTagsAreRefused'
      BY <3>2 DEF OnlyStartTagsAreRefused
    <3>4. ValueIsTop'
      BY <3>2 DEF ValueIsTop
    <3>5. AllKnown => AllKnown'
      BY <3>2, KnownStays DEF AllKnown
    <3>6. IsHTML' = IsHTML /\ UndefinedMetaTags' = UndefinedMetaTags /\ NoClassTags' = NoClassTags
      BY <3>2, NamesAsTheyAre DEF NoClassTags
    <3> QED BY <3>3, <3>4, <3>5, <3>6 DEF RefuseInv
  <2>2. CASE ~OpenFails(raw, bare)
    <3>1. /\ OpenTag(raw, pending.prefix, bare) /\ config' = config /\ status' = status
          /\ phase = "open" => phase' = "value" /\ pending' = pending
          /\ phase = "push" => phase' = "sax"
          /\ phase \in {"open", "push"}
      BY <1>2, <2>2 DEF Opens
    <3>2. PICK element \in OpenElement :
            /\ open' = Append(open, element)
            /\ element.raw = raw /\ element.prefix = pending.prefix
      BY <1>2, <3>1, OpenedElement
    <3>3. /\ Len(open') = Len(open) + 1 /\ open'[Len(open) + 1] = element
          /\ \A i \in 1..Len(open) : open'[i] = open[i]
      BY <1>0, <3>2, AppendProperties
    <3>4. OnlyStartTagsAreRefused'
      BY <2>0, <3>1 DEF OnlyStartTagsAreRefused
    <3>5. ValueIsTop'
      <4> SUFFICES ASSUME phase' \in {"value", "close"}
                   PROVE  /\ open' # << >> /\ Top(open').raw = AttrTag(pending)'
                          /\ Top(open').prefix = pending'.prefix
        BY DEF ValueIsTop, Top
      <4>1. phase = "open" /\ pending' = pending
        BY <3>1
      <4>2. AttrTag(pending)' = AttrTag(pending)
        BY <3>1, <4>1 DEF AttrTag, SwishTag, Qualify, IsHTML, ClassAttributes,
           IgnoreXMLNameSpaces, LowerName, LowerWord, Lower
      <4>3. raw = AttrTag(pending)
        BY <1>2, <4>1 DEF Opens
      <4>4. Len(open') # 0 /\ Top(open') = element
        BY <1>0, <3>3 DEF Top
      <4> QED BY <3>2, <4>1, <4>2, <4>3, <4>4, EmptySeq
    <3>6. ASSUME NoClassTags, ~IsHTML, UndefinedMetaTags = "error" PROVE AllKnown'
      <4>1. bare = Qualify(pending.prefix, raw)
        BY <1>2, <2>0, <3>6 DEF Opens, NoClassTags
      <4>2. Known(Qualify(element.prefix, element.raw))
        BY <3>1, <3>2, <3>6, <4>1 DEF OpenTag, Refused, Undefined
      <4>3. metanames \subseteq metanames'
        BY <3>1, LearntNames DEF OpenTag
      <4>4. \A i \in 1..Len(open) + 1 : i \in 1..Len(open) \/ i = Len(open) + 1
        BY <1>0
      <4>5. AllKnown
        BY <3>6 DEF RefuseInv
      <4>6. \A i \in 1..Len(open) + 1 : Known(Qualify(open'[i].prefix, open'[i].raw))
        BY <3>3, <4>2, <4>4, <4>5 DEF AllKnown
      <4>7. PICK opened : opened = open'
        OBVIOUS
      <4>8. \A i \in 1..Len(opened) : Known(Qualify(opened[i].prefix, opened[i].raw))'
        BY <3>1, <3>3, <4>3, <4>6, <4>7, KnownStays
      <4> QED BY <4>7, <4>8 DEF AllKnown, Known, Qualify
    <3>7. IsHTML' = IsHTML /\ UndefinedMetaTags' = UndefinedMetaTags /\ NoClassTags' = NoClassTags
      BY <3>1, NamesAsTheyAre DEF NoClassTags
    <3> QED BY <3>4, <3>5, <3>6, <3>7 DEF RefuseInv
  <2> QED BY <2>1, <2>2
<1>3. ASSUME NEW raw, NEW prefix, Closes(raw, prefix) PROVE RefuseInv'
  <2> DEFINE bare == Qualify(prefix, raw)
  <2>0. /\ status = "parsing" /\ open # << >> /\ Len(open) \in 1..Len(open)
        /\ raw = Top(open).raw /\ prefix = Top(open).prefix
    <3>1. open # << >> /\ status = "parsing"
      BY <1>3 DEF Closes
    <3>2. Len(open) \in 1..Len(open)
      BY <1>0, <3>1, TopType
    <3> QED BY <1>3, <3>1, <3>2 DEF Closes, RefuseInv, ValueIsTop
  <2>1. NoClassTags => ~Refused(bare)
    <3> SUFFICES ASSUME NoClassTags, ~IsHTML, UndefinedMetaTags = "error" PROVE Known(bare)
      BY DEF Refused, Undefined
    <3>1. AllKnown
      BY DEF RefuseInv
    <3> QED BY <2>0, <3>1 DEF AllKnown, Top
  <2>2. CASE CloseFails(raw, prefix)
    <3>1. \/ Refused(bare) /\ Die("croaked")
          \/ Die("crashed")
      BY <2>2 DEF CloseFails
    <3>2. /\ status' = "crashed" \/ (Refused(bare) /\ status' = "croaked")
          /\ UNCHANGED <<config, open, phase, pending, metanames>>
      BY <3>1, DieKeeps
    <3>3. NoClassTags => OnlyStartTagsAreRefused'
      BY <2>1, <3>2 DEF OnlyStartTagsAreRefused
    <3>4. ValueIsTop'
      BY <3>2, NamesAsTheyAre DEF RefuseInv, ValueIsTop, Top, AttrTag, SwishTag, Qualify, IsHTML,
           ClassAttributes, IgnoreXMLNameSpaces, LowerName, LowerWord, Lower
    <3>5. AllKnown => AllKnown'
      BY <3>2, KnownStays DEF AllKnown
    <3>6. IsHTML' = IsHTML /\ UndefinedMetaTags' = UndefinedMetaTags /\ NoClassTags' = NoClassTags
      BY <3>2, NamesAsTheyAre DEF NoClassTags
    <3> QED BY <3>3, <3>4, <3>5, <3>6 DEF RefuseInv
  <2>3. CASE ~CloseFails(raw, prefix)
    <3>1. /\ CloseTag(raw, prefix) /\ config' = config /\ status' = status
          /\ phase' \in {"push", "sax"}
      BY <1>3, <2>3 DEF Closes
    <3>2. open' = Pop(open) /\ metanames \subseteq metanames'
      BY <3>1, LearntNames DEF CloseTag
    <3>3. Len(open') = Len(open) - 1 /\ \A i \in 1..(Len(open) - 1) : open'[i] = open[i]
      BY <1>0, <2>0, <3>2, PopType
    <3>4. OnlyStartTagsAreRefused' /\ ValueIsTop'
      BY <2>0, <3>1 DEF OnlyStartTagsAreRefused, ValueIsTop
    <3>5. AllKnown => AllKnown'
      <4> SUFFICES ASSUME AllKnown PROVE AllKnown'
        OBVIOUS
      <4>1. PICK opened : opened = open'
        OBVIOUS
      <4>2. \A i \in 1..Len(opened) : i \in 1..Len(open) /\ opened[i] = open[i]
        BY <1>0, <3>3, <4>1
      <4>3. \A i \in 1..Len(opened) : Known(Qualify(opened[i].prefix, opened[i].raw))
        BY <4>2 DEF AllKnown
      <4>4. \A i \in 1..Len(opened) : Known(Qualify(opened[i].prefix, opened[i].raw))'
        BY <3>1, <3>2, <4>3, KnownStays
      <4> QED BY <4>1, <4>4 DEF AllKnown, Known, Qualify
    <3>6. IsHTML' = IsHTML /\ UndefinedMetaTags' = UndefinedMetaTags /\ NoClassTags' = NoClassTags
      BY <3>1, NamesAsTheyAre DEF NoClassTags
    <3> QED BY <3>4, <3>5, <3>6 DEF RefuseInv
  <2> QED BY <2>2, <2>3
<1> QED BY <1>1, <1>2, <1>3, TagSteps

\* UndefinedMetaTags "error" stops the parser at start tags only: an element that
\* bake_tag let in is let out, whatever the document has taught the configuration
\* in between.  XMLClassAttributes are excepted: the run DocParserClass shows why.
THEOREM RefusalCorrect == Spec => [](NoClassTags => OnlyStartTagsAreRefused)
<1>1. RefuseInv => (NoClassTags => OnlyStartTagsAreRefused)
  BY DEF RefuseInv
<1> QED BY <1>1, TypeInit, TypeNext, RefuseInit, RefuseNext, PTL DEF Spec

-----------------------------------------------------------------------------
(* Metanames on the stack: what flush_buffer looks up.                     *)

\* No open element has a DOM path that is the name of a metaname and of no
\* property, or of a property and of no metaname: open_tag asks the properties
\* under which name a metaname is pushed.
PathsAgree ==
  \A i \in 1..Len(domstack) :
    domstack[i].context # domstack[i].baked =>
      (domstack[i].context \in metanames <=> domstack[i].context \in properties)

LookupInv ==
  /\ NoTag \notin metanames
  /\ \A i \in 1..Len(metastack) : metastack[i].baked \in metanames
  /\ NoFailedLookup

LEMMA LookupInit == Init => LookupInv
<1> SUFFICES ASSUME Init PROVE LookupInv
  OBVIOUS
<1>1. WellFormed(config) /\ metanames = MetaNames /\ status = "parsing"
  BY ConfigAssumption DEF Init
<1>2. NoTag \notin metanames /\ SwishDefault \in metanames
  BY <1>1 DEF WellFormed, MetaNames
<1>3. Len(metastack) = 1 /\ metastack[1].baked = SwishDefault
  BY DEF Init
<1> QED BY <1>1, <1>2, <1>3 DEF LookupInv, NoFailedLookup

LEMMA TopWatched == TypeInv /\ LookupInv => Top(metastack).baked \in metanames
BY TopType DEF TypeInv, TypeOK, StackType, Bases, LookupInv

\* The name under which open_tag pushes a metaname is one.
LEMMA PushedIsName ==
  ASSUME TypeInv, LookupInv, PathsAgree', NEW raw, NEW bare, Opens(raw, bare),
         OpenTag(raw, pending.prefix, bare), Watched(MetasAfter(bare), raw, bare)
  PROVE  MetaKey(Aliased(bare), DomPath(raw, bare), MetasAfter(bare), PropsAfter(bare))
           \in MetasAfter(bare)
<1> DEFINE tag   == Aliased(bare)
           path  == DomPath(raw, bare)
           metas == MetasAfter(bare)
           props == PropsAfter(bare)
<1>1. /\ bare \in Name /\ (~IsHTML => bare # NoTag) /\ raw \in Name \ Reserved
  BY OpensType
<1>2. tag \in metas \/ path \in metas
  BY DEF Watched
<1>3. NoTag \notin metas
  <2>1. CASE bare # NoTag
    BY <2>1, LearntNames DEF LookupInv
  <2>2. CASE bare = NoTag
    <3>1. metas = metanames
      BY <1>1, <2>2 DEF MetasAfter, Learn, Undefined
    <3> QED BY <3>1 DEF LookupInv
  <2> QED BY <2>1, <2>2
<1>4. metanames' = metas /\ properties' = props /\ ~Nameless(raw, bare)
  BY DEF OpenTag
<1>5. CASE tag = NoTag
  <2>1. path \in metas
    BY <1>2, <1>3, <1>5
  <2>2. path \in props
    BY <1>4, <1>5 DEF Nameless
  <2> QED BY <2>1, <2>2 DEF MetaKey
<1>6. CASE tag # NoTag /\ path = tag
  BY <1>2, <1>6 DEF MetaKey
<1>7. CASE tag # NoTag /\ path # tag
  <2> DEFINE level == [raw |-> raw, baked |-> tag, context |-> path]
  <2>1. domstack' = Append(domstack, level)
    BY <1>7 DEF OpenTag
  <2> HIDE DEF level
  <2>2. domstack \in Seq([raw: Name, baked: Name, context: Name]) /\ level \in [raw: Name, baked: Name, context: Name]
    BY <1>1, AliasedType DEF TypeInv, TypeOK, StackType, level
  <2>3. Len(domstack) \in Nat /\ Len(domstack') = Len(domstack) + 1 /\ domstack'[Len(domstack) + 1] = level
    BY <2>1, <2>2, AppendProperties, LenProperties
  <2>4. Len(domstack) + 1 \in 1..Len(domstack')
    BY <2>3
  <2>5. level.context # level.baked => (level.context \in metanames' <=> level.context \in properties')
    BY <2>3, <2>4 DEF PathsAgree
  <2>6. path \in metas <=> path \in props
    BY <1>4, <1>7, <2>5 DEF level
  <2> QED BY <1>2, <2>6 DEF MetaKey
<1> QED BY <1>5, <1>6, <1>7

LEMMA LookupNext == TypeInv /\ LookupInv /\ PathsAgree' /\ [Next]_vars => LookupInv'
<1> SUFFICES ASSUME TypeInv, LookupInv, PathsAgree', [Next]_vars PROVE LookupInv'
  OBVIOUS
<1>0. /\ metastack \in Seq(Entries) /\ Len(metastack) \in Nat /\ metastack # << >>
      /\ Top(metastack).baked \in metanames
  BY TopWatched, LenProperties DEF TypeInv, TypeOK, StackType, Bases
<1>1. CASE Between
  <2>1. metastack' = metastack /\ metanames \subseteq metanames' /\ NoTag \notin metanames'
        /\ (status' = status \/ status' \in {"done", "croaked"})
    BY <1>1 DEF Between, LookupInv
  <2> QED BY <2>1 DEF LookupInv, NoFailedLookup
<1>d. ASSUME Die("croaked") PROVE LookupInv'
  BY <1>d, DieKeeps DEF LookupInv, NoFailedLookup
<1>2. ASSUME NEW raw, NEW bare, Opens(raw, bare) PROVE LookupInv'
  <2>0. MetasAfter(bare) \in {metanames, metanames \cup {bare}} /\ bare \in Name
        /\ Len(open) \in Nat /\ raw \in Name \ Reserved
    BY <1>2, LearntNames, OpensType
  <2>1. CASE OpenFails(raw, bare)
    BY <1>0, <1>d, <2>0, <2>1 DEF OpenFails
  <2>2. CASE ~OpenFails(raw, bare)
    <3>1. OpenTag(raw, pending.prefix, bare) /\ status' = "parsing"
      BY <1>2, <2>2 DEF Opens
    <3> DEFINE metaKey == MetaKey(Aliased(bare), DomPath(raw, bare), MetasAfter(bare), PropsAfter(bare))
    <3>2. metanames' = MetasAfter(bare)
      BY <3>1 DEF OpenTag
    <3>3. NoTag \notin metanames'
      <4>1. CASE bare # NoTag
        BY <2>0, <3>2, <4>1 DEF LookupInv
      <4>2. CASE bare = NoTag
        <5>1. IsHTML
          BY <1>2, <4>2, OpensType
        <5>2. metanames' = metanames
          BY <3>2, <5>1 DEF MetasAfter, Learn, Undefined
        <5> QED BY <5>2 DEF LookupInv
      <4> QED BY <4>1, <4>2
    <3>4. CASE Watched(MetasAfter(bare), raw, bare)
      <4>1. metaKey \in metanames'
        BY <1>2, <3>1, <3>2, <3>4, PushedIsName
      <4>2. metastack' = Append(metastack, Entry(raw, metaKey))
        BY <3>1, <3>4 DEF OpenTag
      <4>3. Entry(raw, metaKey).baked = metaKey /\ Entry(raw, metaKey) \in Entries
        <5>1. metaKey \in Name
          BY <2>0, AliasedType DEF MetaKey, TypeInv, TypeOK
        <5> QED BY <2>0, <5>1 DEF Entry, Entries
      <4> HIDE DEF metaKey
      <4>4. /\ Len(metastack') = Len(metastack) + 1
            /\ metastack'[Len(metastack) + 1] = Entry(raw, metaKey)
            /\ \A i \in 1..Len(metastack) : metastack'[i] = metastack[i]
        BY <1>0, <4>2, <4>3, AppendProperties
      <4>5. \A i \in 1..Len(metastack') : i \in 1..Len(metastack) \/ i = Len(metastack) + 1
        BY <1>0, <4>4
      <4>6. \A i \in 1..Len(metastack) : metastack[i].baked \in metanames'
        BY <2>0, <3>2 DEF LookupInv
      <4>7. \A i \in 1..Len(metastack') : metastack'[i].baked \in metanames'
        BY <4>1, <4>3, <4>4, <4>5, <4>6
      <4> QED BY <3>1, <3>3, <4>7 DEF LookupInv, NoFailedLookup
    <3>5. CASE ~Watched(MetasAfter(bare), raw, bare)
      <4>1. metastack' = metastack
        BY <3>1, <3>5 DEF OpenTag
      <4> QED BY <2>0, <3>1, <3>2, <3>3, <4>1 DEF LookupInv, NoFailedLookup
    <3> QED BY <3>4, <3>5
  <2> QED BY <2>1, <2>2
<1>3. ASSUME NEW raw, NEW prefix, Closes(raw, prefix) PROVE LookupInv'
  <2> DEFINE bare == Qualify(prefix, raw)
  <2>0. MetasAfter(bare) \in {metanames, metanames \cup {bare}} /\ bare # NoTag
    BY <1>3, LearntNames, ClosesType
  <2>1. CASE CloseFails(raw, prefix)
    BY <1>0, <1>d, <2>0, <2>1 DEF CloseFails
  <2>2. CASE ~CloseFails(raw, prefix)
    <3>1. CloseTag(raw, prefix) /\ status' = "parsing"
      BY <1>3, <2>2 DEF Closes
    <3>2. metanames' = MetasAfter(bare) /\ metastack' \in {metastack, Pop(metastack)}
      BY <3>1 DEF CloseTag
    <3>3. \A i \in 1..Len(metastack') : i \in 1..Len(metastack) /\ metastack'[i] = metastack[i]
      <4>1. CASE metastack' = metastack
        BY <4>1
      <4>2. CASE metastack' = Pop(metastack)
        <5>1. Len(metastack) >= 1
          BY <1>0, EmptySeq
        <5>2. Len(metastack') = Len(metastack) - 1 /\ \A i \in 1..Len(metastack) - 1 : metastack'[i] = metastack[i]
          BY <1>0, <4>2, <5>1, PopType
        <5> QED BY <1>0, <5>2
      <4> QED BY <3>2, <4>1, <4>2
    <3> HIDE DEF bare
    <3> QED BY <2>0, <3>1, <3>2, <3>3 DEF LookupInv, NoFailedLookup
  <2> QED BY <2>1, <2>2
<1> QED BY <1>1, <1>2, <1>3, TagSteps

\* flush_buffer finds the metaname it is given, so long as no DOM path is a name
\* to one half of the configuration and not to the other.  The condition is
\* needed: the run DocParserDomMeta breaks it, and the lookup fails.
THEOREM LookupCorrect == Spec /\ []PathsAgree => []NoFailedLookup
<1>1. LookupInv => NoFailedLookup
  BY DEF LookupInv
<1> QED BY <1>1, TypeInit, TypeNext, LookupInit, LookupNext, PTL DEF Spec

-----------------------------------------------------------------------------
(* Auto: every element has a metaname.                                     *)

\* The tag aliases stand for metanames, and the names of <meta> elements are
\* written as bake_tag looks them up: in lower case and without a prefix.
TargetsWatched == \A n \in DOMAIN TagAliases : TagAliases[n] \in MetaNames
MetaAsWritten ==
  IsHTML => \A e \in Elements : e.attr # NoAttr => Qualify(e.prefix, AttrTag(e)) = AttrTag(e)
AutoOn == UndefinedMetaTags \in {"auto", "autoall"} /\ TargetsWatched /\ MetaAsWritten

AttrWatched ==
  IsHTML /\ phase = "open" => AttrTag(pending) \in metanames \cup DOMAIN TagAliases
AutoInv == AutoOn => AutoWatchesEveryElement /\ AttrWatched

LEMMA AutoInit == Init => AutoInv
<1> SUFFICES ASSUME Init PROVE AutoInv
  OBVIOUS
<1>1. Len(open) = 0 /\ phase = "sax"
  BY EmptySeq DEF Init
<1> QED BY <1>1 DEF AutoInv, AutoWatchesEveryElement, AttrWatched

LEMMA AutoSame == ASSUME config' = config PROVE AutoOn' = AutoOn
BY NamesAsTheyAre DEF AutoOn, TargetsWatched, MetaAsWritten

\* An element whose tag is known gets a metaname.
LEMMA WatchedElement ==
  ASSUME TypeInv, AutoOn, NEW raw \in Name \ Reserved, NEW bare \in Name, bare # NoTag,
         bare \in MetasAfter(bare) \cup DOMAIN TagAliases
  PROVE  /\ Watched(MetasAfter(bare), raw, bare)
         /\ MetaKey(Aliased(bare), DomPath(raw, bare), MetasAfter(bare), PropsAfter(bare)) # NoTag
<1> DEFINE tag  == Aliased(bare)
           path == DomPath(raw, bare)
<1>1. tag \in Name /\ path \in Name /\ DomContext \in Name
  BY AliasedType DEF TypeInv, TypeOK
<1>2. MetaNames \subseteq MetasAfter(bare)
  BY LearnType DEF TypeInv, TypeOK
<1>3. tag \in MetasAfter(bare) /\ tag # NoTag
  <2>1. CASE bare \in DOMAIN TagAliases
    BY <1>2, <2>1, ConfigFacts DEF Aliased, AutoOn, TargetsWatched, WellFormed, TypeInv, TypeOK, TagAliases
  <2>2. CASE bare \notin DOMAIN TagAliases /\ DomContext \o bare \in DOMAIN TagAliases
    BY <1>2, <2>2, ConfigFacts DEF Aliased, AutoOn, TargetsWatched, WellFormed, TypeInv, TypeOK, TagAliases
  <2>3. CASE bare \notin DOMAIN TagAliases /\ DomContext \o bare \notin DOMAIN TagAliases
    BY <2>3 DEF Aliased
  <2> QED BY <2>1, <2>2, <2>3
<1>4. path # NoTag
  <2>1. path = DomContext \o tag
    BY <1>3 DEF DomPath
  <2>2. Len(path) = Len(DomContext) + Len(tag) /\ Len(tag) >= 1
    BY <1>1, <1>3, <2>1, ConcatProperties, NoTagEmpty DEF Name
  <2>3. Len(DomContext) \in Nat /\ Len(tag) \in Nat
    BY <1>1, LenProperties DEF Name
  <2>4. Len(path) >= 1
    BY <2>2, <2>3
  <2> QED BY <1>1, <2>4, NoTagEmpty
<1> QED BY <1>3, <1>4 DEF Watched, MetaKey

LEMMA AutoNext == TypeInv /\ AutoInv /\ [Next]_vars => AutoInv'
<1> SUFFICES ASSUME TypeInv, AutoInv, [Next]_vars, AutoOn'
             PROVE  (AutoWatchesEveryElement /\ AttrWatched)'
  BY DEF AutoInv
<1>0. open \in Seq(OpenElement) /\ Len(open) \in Nat
  BY LenProperties DEF TypeInv, TypeOK, DocType
<1>00. config' = config
  BY WordSteps DEF WordStep
<1>01. AutoOn /\ AutoWatchesEveryElement /\ AttrWatched
  BY <1>00, AutoSame DEF AutoInv
<1>02. /\ IsHTML' = IsHTML /\ UndefinedMetaTags' = UndefinedMetaTags
       /\ UndefinedMetaTags \in {"auto", "autoall"} /\ TagAliases' = TagAliases
  BY <1>00, <1>01, NamesAsTheyAre DEF AutoOn
<1>03. pending' = pending => AttrTag(pending)' = AttrTag(pending)
  BY <1>00 DEF AttrTag, SwishTag, Qualify, IsHTML, ClassAttributes,
     IgnoreXMLNameSpaces, LowerName, LowerWord, Lower
<1>1. CASE Between
  <2>1. open' = open /\ metanames \subseteq metanames'
        /\ (phase' \in {"value", "close"} => phase \in {"value", "close"})
    BY <1>1 DEF Between
  <2>2. AutoWatchesEveryElement'
    BY <1>01, <1>02, <2>1 DEF AutoWatchesEveryElement, Top
  <2>3. AttrWatched'
    BY <1>01, <1>02, <1>03, <1>1 DEF AttrWatched, Between
  <2> QED BY <2>2, <2>3
<1>d. ASSUME NEW how, Die(how) PROVE (AutoWatchesEveryElement /\ AttrWatched)'
  <2>1. UNCHANGED <<open, phase, pending, metanames>>
    BY <1>d, DieKeeps
  <2> QED BY <1>01, <1>02, <1>03, <2>1 DEF AutoWatchesEveryElement, AttrWatched, Top
<1>2. ASSUME NEW raw, NEW bare, Opens(raw, bare) PROVE (AutoWatchesEveryElement /\ AttrWatched)'
  <2>1. CASE OpenFails(raw, bare)
    BY <1>d, <2>1 DEF OpenFails
  <2>2. CASE ~OpenFails(raw, bare)
    <3>1. /\ OpenTag(raw, pending.prefix, bare)
          /\ phase = "open" => phase' = "value"
          /\ phase = "push" => phase' = "sax"
          /\ phase \in {"open", "push"}
      BY <1>2, <2>2 DEF Opens
    <3>2. PICK element \in OpenElement :
            /\ open' = Append(open, element)
            /\ element.meta = IF Watched(MetasAfter(bare), raw, bare)
                              THEN MetaKey(Aliased(bare), DomPath(raw, bare), MetasAfter(bare), PropsAfter(bare))
                              ELSE NoTag
      BY <1>2, <3>1, OpenedElement
    <3>3. /\ Len(open') = Len(open) + 1 /\ open'[Len(open) + 1] = element
          /\ \A i \in 1..Len(open) : open'[i] = open[i]
      BY <1>0, <3>2, AppendProperties
    <3>4. raw \in Name \ Reserved /\ bare \in Name /\ (~IsHTML \/ phase = "open" => bare # NoTag)
      BY <1>2, OpensType
    <3>5. ~IsHTML \/ phase = "open" => element.meta # NoTag
      <4> SUFFICES ASSUME ~IsHTML \/ phase = "open" PROVE element.meta # NoTag
        OBVIOUS
      <4>1. bare \in MetasAfter(bare) \cup DOMAIN TagAliases
        <5>1. CASE IsHTML
          <6>1. pending \in Elements /\ pending.attr # NoAttr /\ phase = "open"
            BY <5>1 DEF TypeInv, PhaseFacts
          <6>2. bare = AttrTag(pending)
            BY <1>01, <1>2, <5>1, <6>1 DEF Opens, AutoOn, MetaAsWritten
          <6> QED BY <1>01, <5>1, <6>1, <6>2, LearntNames DEF AttrWatched
        <5>2. CASE ~IsHTML
          BY <1>02, <5>2 DEF MetasAfter, Learn, Undefined, Known
        <5> QED BY <5>1, <5>2
      <4> QED BY <1>01, <3>2, <3>4, <4>1, WatchedElement
    <3>6. AttrWatched'
      BY <3>1 DEF AttrWatched
    <3>7. AutoWatchesEveryElement'
      <4>1. CASE IsHTML
        <5>1. phase' \in {"value", "close"} => phase = "open"
          BY <3>1
        <5>2. Top(open') = element
          BY <3>3 DEF Top
        <5> QED BY <1>02, <3>5, <4>1, <5>1, <5>2 DEF AutoWatchesEveryElement, Top
      <4>2. CASE ~IsHTML
        <5>1. \A i \in 1..Len(open') : i \in 1..Len(open) \/ i = Len(open) + 1
          BY <1>0, <3>3
        <5> QED BY <1>01, <1>02, <3>3, <3>5, <4>2, <5>1 DEF AutoWatchesEveryElement
      <4> QED BY <4>1, <4>2
    <3> QED BY <3>6, <3>7
  <2> QED BY <2>1, <2>2
<1>3. ASSUME NEW raw, NEW prefix, Closes(raw, prefix) PROVE (AutoWatchesEveryElement /\ AttrWatched)'
  <2>1. CASE CloseFails(raw, prefix)
    BY <1>d, <2>1 DEF CloseFails
  <2>2. CASE ~CloseFails(raw, prefix)
    <3>1. open' = Pop(open) /\ phase' \in {"push", "sax"} /\ open # << >>
      BY <1>3, <2>2 DEF Closes, CloseTag
    <3>2. Len(open') = Len(open) - 1 /\ \A i \in 1..(Len(open) - 1) : open'[i] = open[i]
      BY <1>0, <3>1, EmptySeq, PopType
    <3>3. \A i \in 1..Len(open') : i \in 1..Len(open) /\ open'[i] = open[i]
      BY <1>0, <3>2
    <3> QED BY <1>01, <1>02, <3>1, <3>3 DEF AutoWatchesEveryElement, AttrWatched
  <2> QED BY <2>1, <2>2
<1> QED BY <1>1, <1>2, <1>3, TagSteps

\* With UndefinedMetaTags auto and autoall bake_tag teaches the configuration
\* every tag before open_tag asks for it, so every element and every attribute
\* is pushed, if what the tag aliases stand for is watched too.
THEOREM AutoCorrect ==
  Spec => [](TargetsWatched /\ MetaAsWritten => AutoWatchesEveryElement)
<1>1. AutoInv => (TargetsWatched /\ MetaAsWritten => AutoWatchesEveryElement)
  BY DEF AutoInv, AutoOn, AutoWatchesEveryElement
<1> QED BY <1>1, TypeInit, TypeNext, AutoInit, AutoNext, PTL DEF Spec

-----------------------------------------------------------------------------
(* The named buffers of properties.                                        *)

\* Sets between which a function is one to one have the same size.
LEMMA SameSize ==
  ASSUME NEW S, NEW T, NEW f \in [S -> T], IsFiniteSet(S),
         \A x, y \in S : f[x] = f[y] => x = y, \A y \in T : \E x \in S : f[x] = y
  PROVE  IsFiniteSet(T) /\ Cardinality(T) = Cardinality(S)
<1>1. f \in Bijection(S, T)
  BY DEF Bijection, Injection, IsInjective, Surjection
<1>2. ExistsBijection(S, T)
  BY <1>1 DEF ExistsBijection
<1> QED BY <1>2, FS_Bijection

\* How often a name stands in a list of names.
TimesIn(names, n) == Cardinality({k \in 1..Len(names) : names[k] = n})

\* How often the properties a word was in call for it in the buffer of n.
OwedIn(names, n) ==
  Cardinality({k \in 1..Len(names) : names[k] # NoTag /\ PropStoredAs(names[k]) = n})

\* Above its base a stack holds each name as often as open elements have it.
LEMMA FollowsCount ==
  ASSUME NEW opened, NEW names, NEW stack, Follows(opened, stack, names),
         Len(opened) \in Nat, Len(names) = Len(opened), Len(stack) \in Nat,
         NEW n, n # NoTag, stack[1].baked # n
  PROVE  TimesIn(names, n) = TimesOn(stack, n)
<1> DEFINE S == {i \in 1..Len(stack) : stack[i].baked = n}
           T == {k \in 1..Len(names) : names[k] = n}
           f == [i \in S |-> stack[i].by]
<1>1. IsFiniteSet(S)
  <2>1. IsFiniteSet(1..Len(stack)) /\ S \subseteq 1..Len(stack)
    BY FS_Interval
  <2> QED BY <2>1, FS_Subset
<1>2. \A i \in S : i \in 2..Len(stack)
  OBVIOUS
<1>3. f \in [S -> T]
  BY <1>2 DEF Follows
<1>4. ASSUME NEW x \in S, NEW y \in S, f[x] = f[y] PROVE x = y
  <2>1. x \in 1..Len(stack) /\ y \in 1..Len(stack) /\ stack[x].by = stack[y].by
    BY <1>4
  <2>2. stack[x].by \in Nat
    BY <1>2 DEF Follows
  <2>3. ~(x < y) /\ ~(y < x)
    BY <2>1, <2>2 DEF Follows
  <2> QED BY <2>1, <2>3
<1>5. ASSUME NEW k \in T PROVE \E i \in S : f[i] = k
  <2>1. k \in 1..Len(opened) /\ names[k] = n
    OBVIOUS
  <2>2. PICK i \in 2..Len(stack) : stack[i].by = k
    BY <2>1 DEF Follows
  <2>3. stack[i].baked = n /\ i \in 1..Len(stack)
    BY <2>1, <2>2 DEF Follows
  <2> QED BY <2>2, <2>3
<1> HIDE DEF S, T, f
<1>6. Cardinality(T) = Cardinality(S)
  BY <1>1, <1>3, <1>4, <1>5, SameSize
<1> QED BY <1>6 DEF TimesIn, TimesOn, S, T

LEMMA PopCount ==
  ASSUME NEW stack \in Seq(Entries), stack # << >>, NEW n
  PROVE  TimesOn(stack, n) = TimesOn(Pop(stack), n) + (IF Top(stack).baked = n THEN 1 ELSE 0)
<1> DEFINE S == {i \in 1..Len(stack) : stack[i].baked = n}
           T == {i \in 1..Len(Pop(stack)) : Pop(stack)[i].baked = n}
<1>1. /\ Len(stack) \in Nat /\ Len(stack) >= 1 /\ Len(Pop(stack)) = Len(stack) - 1
      /\ \A i \in 1..Len(stack) - 1 : Pop(stack)[i] = stack[i]
  <2>1. Len(stack) \in Nat /\ Len(stack) >= 1
    BY EmptySeq, LenProperties
  <2> QED BY <2>1, PopType
<1>2. IsFiniteSet(T)
  <2>1. Len(Pop(stack)) \in Int /\ 1 \in Int
    BY <1>1
  <2>2. IsFiniteSet(1..Len(Pop(stack))) /\ T \subseteq 1..Len(Pop(stack))
    BY <2>1, FS_Interval
  <2> QED BY <2>2, FS_Subset
<1>3. CASE Top(stack).baked = n
  <2>1. S = T \cup {Len(stack)} /\ Len(stack) \notin T
    BY <1>1, <1>3 DEF Top
  <2>2. Cardinality(S) = Cardinality(T) + 1
    BY <1>2, <2>1, FS_AddElement
  <2> QED BY <1>3, <2>2 DEF TimesOn
<1>4. CASE Top(stack).baked # n
  <2>1. S = T
    BY <1>1, <1>4 DEF Top
  <2>2. Cardinality(T) \in Nat
    BY <1>2, FS_CardinalityType
  <2>3. TimesOn(stack, n) = Cardinality(S) /\ TimesOn(Pop(stack), n) = Cardinality(T)
    BY DEF TimesOn
  <2> HIDE DEF S, T
  <2> QED BY <1>4, <2>1, <2>2, <2>3
<1> QED BY <1>3, <1>4

\* A word that stands once in a chunk, and not yet in the buffer.
LEMMA PlacesCount ==
  ASSUME NEW s \in Seq(Chunk), NEW chunk \in Chunk, NEW k \in Nat, NEW r,
         NEW i \in 1..Len(chunk), NEW new, new = s \o Copies(chunk, k),
         PlacesIn(s, r) = {}, chunk[i] = r, i \in 1..MaxText * 2,
         \A j \in 1..Len(chunk) : chunk[j] = r => j = i
  PROVE  Cardinality(PlacesIn(new, r)) = k
<1> DEFINE S == (Len(s) + 1)..(Len(s) + k)
           T == PlacesIn(new, r)
           f == [c \in S |-> <<c, i>>]
<1>1. Len(s) \in Nat
  BY LenProperties
<1>2. IsFiniteSet(S) /\ Cardinality(S) = k
  <2>l. PICK a, b \in Int : a = Len(s) + 1 /\ b = Len(s) + k
    BY <1>1
  <2>1. IsFiniteSet(a..b) /\ Cardinality(a..b) = IF a > b THEN 0 ELSE b - a + 1
    BY FS_Interval
  <2>2. (IF a > b THEN 0 ELSE b - a + 1) = k
    BY <1>1, <2>l
  <2> QED BY <2>l, <2>1, <2>2
<1>3. \A c, j : ~StandsAt(s, r, c, j)
  BY PlacesForm
<1>4. ASSUME NEW c, NEW j PROVE StandsAt(new, r, c, j) <=> c \in S /\ j = i
  <2>1. StandsAt(new, r, c, j) <=>
          \/ StandsAt(s, r, c, j)
          \/ /\ c \in (Len(s) + 1)..(Len(s) + k)
             /\ j \in 1..MaxText * 2 /\ j \in 1..Len(chunk) /\ chunk[j] = r
    BY PlacesJoined
  <2> QED BY <1>3, <2>1
<1> HIDE DEF S
<1>5. \A c \in S : <<c, i>> \in T
  BY <1>4, PlacesForm
<1>6. \A x \in T : \E c \in S : x = <<c, i>>
  BY <1>4, PlacesForm
<1> HIDE DEF T
<1>7. f \in [S -> T]
  BY <1>5
<1>8. \A x, y \in S : f[x] = f[y] => x = y
  OBVIOUS
<1>9. \A y \in T : \E x \in S : f[x] = y
  BY <1>6
<1> HIDE DEF f
<1>10. Cardinality(T) = Cardinality(S)
  BY <1>2, <1>7, <1>8, <1>9, SameSize
<1> QED BY <1>2, <1>10 DEF T

\* Buffers in which a word stands at the same places.
LEMMA SamePlaces ==
  ASSUME NEW s, NEW new, NEW r, \A c, i : StandsAt(new, r, c, i) <=> StandsAt(s, r, c, i)
  PROVE  PlacesIn(new, r) = PlacesIn(s, r)
<1>1. \A x \in PlacesIn(new, r) : x \in PlacesIn(s, r)
  BY PlacesForm
<1>2. \A x \in PlacesIn(s, r) : x \in PlacesIn(new, r)
  BY PlacesForm
<1> QED BY <1>1, <1>2

-----------------------------------------------------------------------------
(* What a step does to the named buffers of properties.                    *)

SamePropChunks == \A n : Chunks(propbufs', n) = Chunks(propbufs, n)

PropsOpened ==
  /\ \E learnt \in SUBSET Name : FlushProps(NoTag, propstack, learnt)
  /\ \E entry \in Entries : propstack' = Append(propstack, entry) /\ entry.baked \in properties'
  /\ texts' = texts

PropsClosed ==
  /\ \E learnt \in SUBSET Name : FlushProps(Top(propstack).baked, Pop(propstack), learnt)
  /\ propstack' = Pop(propstack) /\ Pop(propstack) # << >>
  /\ texts' = texts

PropsRead ==
  /\ \E bump \in BOOLEAN : BufferCharacters(bump)
  /\ SamePropChunks /\ propstack' = propstack

PropsKept == SamePropChunks /\ UNCHANGED <<prop_buf, propstack, texts>>

PropStep == config' = config /\ (PropsOpened \/ PropsClosed \/ PropsRead \/ PropsKept)

LEMMA DieProps ==
  ASSUME Die("croaked") \/ Die("crashed") PROVE PropStep
BY DEF Die, bufVars, outVars, histVars, stackVars, PropStep, PropsKept, SamePropChunks

LEMMA KeepPropsSame ==
  ASSUME NEW learnt, KeepProps(learnt) PROVE SamePropChunks /\ prop_buf' = prop_buf
BY ChunksGrown DEF KeepProps, SamePropChunks

LEMMA OpenTagProps ==
  ASSUME TypeInv, NEW raw \in Name, NEW prefix, NEW bare \in Name, OpenTag(raw, prefix, bare),
         texts' = texts
  PROVE  PropsOpened \/ PropsKept
<1> DEFINE learnt == PropsAfter(bare) \ properties
           key    == PropKey(Aliased(bare), DomPath(raw, bare), PropsAfter(bare))
<1>1. learnt \in SUBSET Name /\ Len(open) \in Nat
  BY LearnType, LenProperties DEF TypeInv, TypeOK, DocType
<1>2. CASE Watched(PropsAfter(bare), raw, bare)
  <2>1. FlushProps(NoTag, propstack, learnt) /\ propstack' = Append(propstack, Entry(raw, key))
        /\ properties' = PropsAfter(bare)
    BY <1>2 DEF OpenTag
  <2>2. key \in PropsAfter(bare)
    BY <1>2 DEF Watched, PropKey
  <2>3. key \in Name
    BY <2>2, LearnType DEF TypeInv, TypeOK
  <2> HIDE DEF key, learnt
  <2>4. Entry(raw, key) \in Entries /\ Entry(raw, key).baked = key
    BY <1>1, <2>3 DEF Entry, Entries
  <2> QED BY <1>1, <2>1, <2>2, <2>4 DEF PropsOpened
<1>3. CASE ~Watched(PropsAfter(bare), raw, bare)
  <2>1. KeepProps(learnt) /\ propstack' = propstack
    BY <1>3 DEF OpenTag
  <2> QED BY <2>1, KeepPropsSame DEF PropsKept
<1> QED BY <1>2, <1>3

LEMMA CloseTagProps ==
  ASSUME TypeInv, NEW raw \in Name \ Reserved, NEW prefix \in Word, CloseTag(raw, prefix),
         texts' = texts
  PROVE  PropsClosed \/ PropsKept
<1> DEFINE learnt == PropsAfter(Qualify(prefix, raw)) \ properties
<1>1. learnt \in SUBSET Name
  BY QualifyType, LearnType DEF TypeInv, TypeOK
<1>2. \/ /\ PopsOn(propstack, raw) /\ propstack' = Pop(propstack)
         /\ FlushProps(Top(propstack).baked, Pop(propstack), learnt)
      \/ KeepProps(learnt) /\ propstack' = propstack
  BY DEF CloseTag
<1> HIDE DEF learnt
<1>3. CASE /\ PopsOn(propstack, raw) /\ propstack' = Pop(propstack)
           /\ FlushProps(Top(propstack).baked, Pop(propstack), learnt)
  <2>1. propstack \in Seq(Entries) /\ propstack # << >> /\ propstack[1].raw \in Reserved
    BY DEF TypeInv, TypeOK, StackType, Bases, Reserved
  <2>2. Pop(propstack) # << >>
    BY <1>3, <2>1, PopsOnType
  <2> QED BY <1>1, <1>3, <2>2 DEF PropsClosed
<1>4. CASE KeepProps(learnt) /\ propstack' = propstack
  BY <1>4, KeepPropsSame DEF PropsKept
<1> QED BY <1>2, <1>3, <1>4

LEMMA PropSteps == TypeInv /\ [Next]_vars => PropStep
<1> SUFFICES ASSUME TypeInv, [Next]_vars PROVE PropStep
  OBVIOUS
<1>1. ASSUME NEW e \in Elements, StartElement(e) PROVE PropStep
  BY <1>1 DEF StartElement, bufVars, outVars, stackVars, PropStep, PropsKept, SamePropChunks
<1>2. CASE XmlAttribute
  <2>1. CASE Die("croaked")
    BY <2>1, DieProps
  <2>2. CASE ~Die("croaked")
    <3>1. /\ BufferCharacters(TRUE) \/ UNCHANGED <<texts, prop_buf>>
          /\ UNCHANGED <<config, propstack>>
          /\ \E names : propbufs' = Grow(propbufs, names)
      BY <1>2, <2>2 DEF XmlAttribute, docVars, stackVars, bufVars
    <3>2. SamePropChunks
      BY <3>1, ChunksGrown DEF SamePropChunks
    <3> QED
      BY <3>1, <3>2 DEF PropStep, PropsRead, PropsKept
  <2> QED
    BY <2>1, <2>2
<1>3. CASE HtmlMeta
  <2>1. CASE Die("croaked")
    BY <2>1, DieProps
  <2>2. CASE ~Die("croaked")
    <3>1. /\ UNCHANGED <<config, prop_buf, propstack, texts>>
          /\ \E names : propbufs' = Grow(propbufs, names)
      BY <1>3, <2>2 DEF HtmlMeta, docVars, stackVars, bufVars, histVars
    <3>2. SamePropChunks
      BY <3>1, ChunksGrown DEF SamePropChunks
    <3> QED
      BY <3>1, <3>2 DEF PropStep, PropsKept
  <2> QED
    BY <2>1, <2>2
<1>4. CASE OpenValue
  <2> DEFINE raw  == AttrTag(pending)
             bare == Qualify(pending.prefix, raw)
  <2>1. CASE OpenFails(raw, bare)
    BY <2>1, DieProps DEF OpenFails
  <2>2. CASE ~OpenFails(raw, bare)
    <3>1. OpenTag(raw, pending.prefix, bare) /\ UNCHANGED <<config, texts>>
      BY <1>4, <2>2 DEF OpenValue
    <3>2. bare \in Name /\ raw \in Name
      BY <1>4, PendingAttrType DEF OpenValue, At, TypeInv
    <3> HIDE DEF raw, bare
    <3> QED
      BY <3>1, <3>2, OpenTagProps DEF PropStep
  <2> QED
    BY <2>1, <2>2
<1>5. CASE BufferValue \/ Characters
  BY <1>5 DEF BufferValue, Characters, docVars, outVars, stackVars, TypeInv, TypeOK, BufferType,
              PropStep, PropsRead, SamePropChunks
<1>6. CASE CloseValue
  <2>1. CASE CloseFails(AttrTag(pending), pending.prefix)
    BY <2>1, DieProps DEF CloseFails
  <2>2. CASE ~CloseFails(AttrTag(pending), pending.prefix)
    <3>1. CloseTag(AttrTag(pending), pending.prefix) /\ UNCHANGED <<config, texts>>
      BY <1>6, <2>2 DEF CloseValue
    <3>2. AttrTag(pending) \in Name \ Reserved /\ pending.prefix \in Word
      BY <1>6, PendingAttrType DEF CloseValue, At, TypeInv
    <3> QED
      BY <3>1, <3>2, CloseTagProps DEF PropStep
  <2> QED
    BY <2>1, <2>2
<1>7. CASE PushElement
  <2>1. pending \in Elements
    BY <1>7 DEF PushElement, At, TypeInv, PhaseFacts
  <2>2. SwishTag(pending) \in Name /\ NoTag \in Name /\ pending.raw \in Name
    BY <2>1, SwishTagType, ReservedNames, ElementFacts DEF TypeInv, TypeOK
  <2>3. PICK bare \in Name : \/ OpenFails(pending.raw, bare)
                             \/ /\ OpenTag(pending.raw, pending.prefix, bare)
                                /\ UNCHANGED <<config, texts>>
    BY <1>7, <2>2 DEF PushElement, histVars
  <2>4. CASE OpenFails(pending.raw, bare)
    BY <2>4, DieProps DEF OpenFails
  <2>5. CASE ~OpenFails(pending.raw, bare)
    BY <2>2, <2>3, <2>5, OpenTagProps DEF PropStep
  <2> QED
    BY <2>4, <2>5
<1>8. CASE EndElement
  <2> DEFINE raw    == Top(open).raw
             prefix == Top(open).prefix
  <2>1. CASE CloseFails(raw, prefix)
    BY <2>1, DieProps DEF CloseFails
  <2>2. CASE ~CloseFails(raw, prefix)
    <3>1. CloseTag(raw, prefix) /\ UNCHANGED <<config, texts>>
      BY <1>8, <2>2 DEF EndElement
    <3>2. Top(open) \in OpenElement
      BY <1>8, TopType DEF EndElement, TypeInv, TypeOK, DocType
    <3>3. raw \in Name \ Reserved /\ prefix \in Word
      BY <3>2 DEF OpenElement
    <3> HIDE DEF raw, prefix
    <3> QED
      BY <3>1, <3>3, CloseTagProps DEF PropStep
  <2> QED
    BY <2>1, <2>2
<1>9. CASE CommentNoindex \/ CommentIndex \/ CommentOther
  BY <1>9 DEF CommentNoindex, CommentIndex, CommentOther, bufVars, outVars, stackVars, PropStep,
              PropsKept, SamePropChunks
<1>10. CASE EndDocument
  BY <1>10 DEF EndDocument, stackVars, histVars, PropStep, PropsKept, SamePropChunks
<1>11. CASE UNCHANGED vars
  BY <1>11 DEF vars, docVars, bufVars, outVars, histVars, stackVars, PropStep, PropsKept,
               SamePropChunks
<1> QED
  BY <1>1, <1>2, <1>3, <1>4, <1>5, <1>6, <1>7, <1>8, <1>9, <1>10, <1>11 DEF Next, Finished

-----------------------------------------------------------------------------
(* What a flush of prop_buf is worth to each word in it.                   *)

LEMMA TimesOnNone ==
  ASSUME NEW stack, NEW n, \A i \in 1..Len(stack) : stack[i].baked # n
  PROVE  TimesOn(stack, n) = 0
<1>1. {i \in 1..Len(stack) : stack[i].baked = n} = {}
  OBVIOUS
<1> QED BY <1>1, FS_EmptySet DEF TimesOn

LEMMA PropTimesCount ==
  ASSUME NEW name, NEW stack, NEW n
  PROVE  /\ n = DomStr => Count(PropTimes(name, stack), n) = 0
         /\ n # DomStr => Count(PropTimes(name, stack), n) =
              TimesOn(stack, n) + (IF name # NoTag /\ n = PropStoredAs(name) THEN 1 ELSE 0)
<1> DEFINE own == IF name = NoTag THEN {} ELSE {PropStoredAs(name)}
           more == IF name # NoTag /\ n = PropStoredAs(name) THEN 1 ELSE 0
<1>1. PropTimes(name, stack) = [m \in (own \cup BakedIn(stack)) \ {DomStr} |->
                                  TimesOn(stack, m) + (IF m \in own THEN 1 ELSE 0)]
  BY DEF PropTimes
<1>2. more = IF n \in own THEN 1 ELSE 0
  OBVIOUS
<1> HIDE DEF own, more
<1>3. CASE n \in own \cup BakedIn(stack)
  BY <1>1, <1>2, <1>3 DEF Count, more
<1>4. CASE n \notin own \cup BakedIn(stack)
  <2>1. TimesOn(stack, n) = 0
    BY <1>4, TimesOnNone DEF BakedIn
  <2> QED BY <1>1, <1>2, <1>4, <2>1 DEF Count, more
<1> QED BY <1>3, <1>4

LEMMA TimesInType ==
  ASSUME NEW names \in Seq(Name), NEW n
  PROVE  IsFiniteSet({k \in 1..Len(names) : names[k] = n}) /\ TimesIn(names, n) \in Nat
<1> DEFINE T == {k \in 1..Len(names) : names[k] = n}
<1>1. IsFiniteSet(1..Len(names)) /\ T \subseteq 1..Len(names)
  BY LenProperties, FS_Interval
<1>2. IsFiniteSet(T)
  BY <1>1, FS_Subset
<1>3. Cardinality(T) \in Nat
  BY <1>2, FS_CardinalityType
<1> QED BY <1>2, <1>3 DEF TimesIn

\* A name that stands in a list has an entry on a stack that holds it as often.
LEMMA OnStack ==
  ASSUME NEW names \in Seq(Name), NEW stack, NEW k \in 1..Len(names),
         TimesIn(names, names[k]) = TimesOn(stack, names[k])
  PROVE  \E i \in 1..Len(stack) : stack[i].baked = names[k]
<1> SUFFICES ASSUME \A i \in 1..Len(stack) : stack[i].baked # names[k] PROVE FALSE
  OBVIOUS
<1> DEFINE T == {j \in 1..Len(names) : names[j] = names[k]}
<1>1. IsFiniteSet(T) /\ Cardinality(T) = 0
  BY TimesInType, TimesOnNone DEF TimesIn
<1>2. k \in T
  OBVIOUS
<1> HIDE DEF T
<1> QED BY <1>1, <1>2, FS_EmptySet

\* Names without an alias are owed under themselves.
LEMMA OwedPlain ==
  ASSUME NEW names \in Seq(Name), NEW n, n # NoTag,
         \A k \in 1..Len(names) : names[k] # NoTag => PropStoredAs(names[k]) = names[k]
  PROVE  OwedIn(names, n) = TimesIn(names, n)
<1>1. {k \in 1..Len(names) : names[k] # NoTag /\ PropStoredAs(names[k]) = n} =
        {k \in 1..Len(names) : names[k] = n}
  OBVIOUS
<1> QED BY <1>1 DEF OwedIn, TimesIn

LEMMA OwedNone ==
  ASSUME NEW names, NEW n,
         \A k \in 1..Len(names) : names[k] # NoTag => PropStoredAs(names[k]) # n
  PROVE  OwedIn(names, n) = 0
<1>1. {k \in 1..Len(names) : names[k] # NoTag /\ PropStoredAs(names[k]) = n} = {}
  OBVIOUS
<1> QED BY <1>1, FS_EmptySet DEF OwedIn

\* One name with an alias, all others without.
LEMMA OwedAliased ==
  ASSUME NEW names \in Seq(Name), NEW n, n # NoTag, NEW a \in Name, a # NoTag,
         TimesIn(names, a) = 1,
         \A k \in 1..Len(names) :
           names[k] # NoTag /\ names[k] # a => PropStoredAs(names[k]) = names[k]
  PROVE  OwedIn(names, n) =
           (IF n = a THEN 0 ELSE TimesIn(names, n)) + (IF n = PropStoredAs(a) THEN 1 ELSE 0)
<1> DEFINE S == {k \in 1..Len(names) : names[k] # NoTag /\ PropStoredAs(names[k]) = n}
           A == {k \in 1..Len(names) : names[k] = a}
           T == {k \in 1..Len(names) : names[k] = n}
           O == IF n = a THEN {} ELSE T
<1>1. PICK one : A = {one}
  <2>1. IsFiniteSet(A) /\ Cardinality(A) = 1
    BY TimesInType DEF TimesIn
  <2> HIDE DEF A
  <2> QED BY <2>1, FS_Singleton
<1>2. IsFiniteSet(O) /\ Cardinality(O) = IF n = a THEN 0 ELSE TimesIn(names, n)
  <2>1. IsFiniteSet(T) /\ TimesIn(names, n) = Cardinality(T)
    BY TimesInType DEF TimesIn
  <2>2. IsFiniteSet({}) /\ Cardinality({}) = 0
    BY FS_EmptySet
  <2> QED BY <2>1, <2>2, Zenon
<1>3. one \in 1..Len(names) /\ names[one] = a /\ \A k \in 1..Len(names) : names[k] = a => k = one
  BY <1>1
<1>4. one \notin O
  BY <1>3
<1>5. CASE n = PropStoredAs(a)
  <2>1. S = O \cup {one}
    BY <1>3, <1>5
  <2> HIDE DEF S, O
  <2>2. Cardinality(S) = Cardinality(O) + 1
    BY <1>2, <1>4, <2>1, FS_AddElement
  <2> QED BY <1>2, <1>5, <2>2 DEF OwedIn, S
<1>6. CASE n # PropStoredAs(a)
  <2>1. S = O
    BY <1>3, <1>6
  <2>2. Cardinality(O) \in Nat
    BY <1>2, FS_CardinalityType
  <2>3. OwedIn(names, n) = Cardinality(S)
    BY DEF OwedIn
  <2>4. PICK x \in Nat : x = (IF n = a THEN 0 ELSE TimesIn(names, n))
    BY <1>2, <2>2
  <2> HIDE DEF S, O
  <2>5. OwedIn(names, n) = x
    BY <1>2, <2>1, <2>3, <2>4
  <2> QED BY <1>6, <2>4, <2>5
<1> QED BY <1>5, <1>6

\* What all words in prop_buf have in common with the property stack: each name
\* as often in the properties they were read in as on the stack.
Matches(names, stack) ==
  /\ \A n \in Name \ {NoTag, DomStr} : TimesIn(names, n) = TimesOn(stack, n)
  /\ \A k \in 1..Len(names) : names[k] # DomStr

StackOK(stack) ==
  /\ stack \in Seq(Entries) /\ stack # << >> /\ stack[1].baked = DomStr
  /\ \A i \in 2..Len(stack) : stack[i].baked \notin {NoTag, DomStr}
AliasesOK == \A m \in DOMAIN PropAlias : PropAlias[m] \notin {NoTag, DomStr}

LEMMA NamedOnStack ==
  ASSUME NEW names \in Seq(Name), NEW stack, StackOK(stack), Matches(names, stack),
         NEW k \in 1..Len(names), names[k] # NoTag
  PROVE  names[k] \in Name \ {NoTag, DomStr} /\ \E i \in 2..Len(stack) : stack[i].baked = names[k]
<1>1. names[k] \in Name \ {NoTag, DomStr}
  BY ElementOfSeq DEF Matches
<1>2. PICK i \in 1..Len(stack) : stack[i].baked = names[k]
  <2>1. TimesIn(names, names[k]) = TimesOn(stack, names[k])
    BY <1>1 DEF Matches
  <2> QED BY <2>1, OnStack
<1>3. Len(stack) \in Nat /\ i # 1
  BY <1>1, <1>2, LenProperties DEF StackOK
<1>4. i \in 2..Len(stack)
  BY <1>3
<1> QED BY <1>1, <1>2, <1>4

LEMMA NoTagOnStack ==
  ASSUME NEW stack, StackOK(stack) PROVE TimesOn(stack, NoTag) = 0
<1>1. DomStr # NoTag
  BY ReservedNames
<1>2. \A i \in 1..Len(stack) : i = 1 \/ i \in 2..Len(stack)
  BY LenProperties DEF StackOK
<1>3. \A i \in 1..Len(stack) : stack[i].baked # NoTag
  BY <1>1, <1>2 DEF StackOK
<1> QED BY <1>3, TimesOnNone

\* A flush at a start tag: no property on the stack has an alias.
LEMMA OwedAtOpen ==
  ASSUME NEW names \in Seq(Name), NEW stack, StackOK(stack), AliasesOK, Matches(names, stack),
         \A i \in 2..Len(stack) : stack[i].baked \notin DOMAIN PropAlias, NEW n \in Name
  PROVE  Count(PropTimes(NoTag, stack), n) = OwedIn(names, n)
<1>1. \A k \in 1..Len(names) : names[k] # NoTag => PropStoredAs(names[k]) = names[k]
  BY NamedOnStack DEF PropStoredAs
<1>2. \A k \in 1..Len(names) : names[k] # DomStr
  BY DEF Matches
<1>3. CASE n = DomStr
  <2>1. OwedIn(names, n) = 0
    BY <1>1, <1>2, <1>3, OwedNone
  <2> QED BY <1>3, <2>1, PropTimesCount
<1>4. CASE n # DomStr
  <2>1. Count(PropTimes(NoTag, stack), n) = TimesOn(stack, n)
    <3>1. Count(PropTimes(NoTag, stack), n) =
            TimesOn(stack, n) + (IF NoTag # NoTag /\ n = PropStoredAs(NoTag) THEN 1 ELSE 0)
      BY <1>4, PropTimesCount
    <3>2. TimesOn(stack, n) \in Nat
      BY TimesOnType DEF StackOK
    <3> QED BY <3>1, <3>2
  <2>2. CASE n = NoTag
    <3>1. OwedIn(names, n) = 0
      BY <1>1, <2>2, OwedNone
    <3> QED BY <2>1, <2>2, <3>1, NoTagOnStack
  <2>3. CASE n # NoTag
    <3>1. OwedIn(names, n) = TimesIn(names, n)
      BY <1>1, <2>3, OwedPlain
    <3>2. TimesIn(names, n) = TimesOn(stack, n)
      BY <1>4, <2>3 DEF Matches
    <3> QED BY <2>1, <3>1, <3>2
  <2> QED BY <2>2, <2>3
<1> QED BY <1>3, <1>4

\* A flush at the end tag of the property on top: no other has an alias.
LEMMA OwedAtClose ==
  ASSUME NEW names \in Seq(Name), NEW stack, StackOK(stack), AliasesOK, Matches(names, stack),
         Pop(stack) # << >>,
         \A i \in 2..Len(stack) - 1 : stack[i].baked \notin DOMAIN PropAlias, NEW n \in Name
  PROVE  Count(PropTimes(Top(stack).baked, Pop(stack)), n) = OwedIn(names, n)
<1> DEFINE a == Top(stack).baked
           rest == Pop(stack)
           times == PropTimes(a, rest)
           one(m) == IF m = a THEN 1 ELSE 0
           own(m) == IF m = PropStoredAs(a) THEN 1 ELSE 0
<1>1. /\ Len(stack) \in Nat /\ Len(stack) >= 2 /\ rest \in Seq(Entries) /\ Len(rest) = Len(stack) - 1
      /\ \A i \in 1..Len(stack) - 1 : rest[i] = stack[i]
  <2>1. stack \in Seq(Entries) /\ Len(stack) \in Nat /\ Len(stack) >= 1
    BY EmptySeq, LenProperties DEF StackOK
  <2>2. rest \in Seq(Entries) /\ Len(rest) = Len(stack) - 1
        /\ \A i \in 1..Len(stack) - 1 : rest[i] = stack[i]
    BY <2>1, PopType
  <2>3. Len(rest) # 0
    BY <2>2, EmptySeq
  <2> QED BY <2>1, <2>2, <2>3
<1>2. a \in Name /\ a \notin {NoTag, DomStr}
  <2>1. Len(stack) \in 2..Len(stack)
    BY <1>1
  <2>2. stack[Len(stack)] \in Entries
    BY <1>1, <2>1, ElementOfSeq DEF StackOK
  <2> QED BY <2>1, <2>2 DEF Top, StackOK, Entries
<1>3. StackOK(rest)
  <2>1. rest # << >> /\ rest[1] = stack[1]
    BY <1>1
  <2>2. \A i \in 2..Len(rest) : i \in 2..Len(stack) /\ rest[i] = stack[i]
    BY <1>1
  <2> QED BY <1>1, <2>1, <2>2 DEF StackOK
<1>4. \A m : TimesOn(stack, m) = TimesOn(rest, m) + one(m)
  BY PopCount DEF StackOK
<1>5. \A m : TimesOn(rest, m) \in Nat
  BY <1>1, TimesOnType
<1>6. PropStoredAs(a) \notin {NoTag, DomStr}
  BY <1>2 DEF PropStoredAs, AliasesOK
<1>7. n # DomStr => Count(times, n) = TimesOn(rest, n) + own(n)
  BY <1>2, PropTimesCount
<1>8. ASSUME NEW k \in 1..Len(names), names[k] # NoTag, names[k] # a
      PROVE  PropStoredAs(names[k]) = names[k]
  <2>1. PICK i \in 2..Len(stack) : stack[i].baked = names[k]
    BY <1>8, NamedOnStack
  <2>2. i # Len(stack)
    BY <1>8, <2>1 DEF Top
  <2>3. i \in 2..Len(stack) - 1
    BY <1>1, <2>1, <2>2
  <2> QED BY <2>1, <2>3 DEF PropStoredAs
<1>9. \A m \in Name \ {NoTag, DomStr} : TimesIn(names, m) = TimesOn(rest, m) + one(m)
  BY <1>4 DEF Matches
<1>10. \A k \in 1..Len(names) : names[k] # NoTag => PropStoredAs(names[k]) \notin {NoTag, DomStr}
  BY <1>6, <1>8 DEF Matches
<1>11. CASE n = DomStr
  <2>1. OwedIn(names, n) = 0
    BY <1>10, <1>11, OwedNone
  <2> QED BY <1>11, <2>1, PropTimesCount
<1>12. CASE n = NoTag
  <2>1. OwedIn(names, n) = 0
    BY <1>10, <1>12, OwedNone
  <2>2. TimesOn(rest, n) = 0 /\ n # DomStr
    BY <1>3, <1>12, NoTagOnStack, ReservedNames
  <2>3. own(n) = 0
    BY <1>6, <1>12
  <2> HIDE DEF own, times
  <2>4. Count(times, n) = 0
    BY <1>7, <2>2, <2>3
  <2> QED BY <2>1, <2>4 DEF times
<1>13. CASE n \notin {NoTag, DomStr}
  <2>1. CASE a \notin DOMAIN PropAlias
    <3>1. PropStoredAs(a) = a
      BY <2>1 DEF PropStoredAs
    <3>2. \A k \in 1..Len(names) : names[k] # NoTag => PropStoredAs(names[k]) = names[k]
      BY <1>8, <3>1
    <3>3. OwedIn(names, n) = TimesIn(names, n)
      BY <1>13, <3>2, OwedPlain
    <3>4. own(n) = one(n)
      BY <3>1
    <3> HIDE DEF own, one, times
    <3>5. OwedIn(names, n) = Count(times, n)
      BY <1>7, <1>9, <1>13, <3>3, <3>4
    <3> QED BY <3>5 DEF times
  <2>2. CASE a \in DOMAIN PropAlias
    <3>1. TimesOn(rest, a) = 0
      <4>1. \A i \in 1..Len(rest) : i = 1 \/ i \in 2..Len(stack) - 1
        BY <1>1
      <4>2. \A i \in 1..Len(rest) : rest[i].baked # a
        BY <1>1, <1>2, <2>2, <4>1 DEF StackOK
      <4> QED BY <4>2, TimesOnNone
    <3>2. TimesIn(names, a) = 1
      BY <1>2, <1>9, <3>1
    <3>3. OwedIn(names, n) = (IF n = a THEN 0 ELSE TimesIn(names, n)) + own(n)
      BY <1>2, <1>8, <1>13, <3>2, OwedAliased
    <3>4. (IF n = a THEN 0 ELSE TimesIn(names, n)) = TimesOn(rest, n)
      <4>1. CASE n = a
        BY <3>1, <4>1
      <4>2. CASE n # a
        <5>1. TimesIn(names, n) = TimesOn(rest, n) + 0
          BY <1>9, <1>13, <4>2
        <5>2. TimesOn(rest, n) \in Nat
          BY <1>5
        <5> HIDE DEF rest, a
        <5> QED BY <4>2, <5>1, <5>2
      <4> QED BY <4>1, <4>2
    <3> HIDE DEF own, times, rest, a
    <3>5. OwedIn(names, n) = Count(times, n)
      BY <1>7, <1>13, <3>3, <3>4
    <3> QED BY <3>5 DEF times, rest, a
  <2> QED BY <2>1, <2>2
<1> QED BY <1>11, <1>12, <1>13

-----------------------------------------------------------------------------
(* The invariant of the property buffers.                                  *)

PropWaits(r) == \E i \in 1..Len(prop_buf) : prop_buf[i] = r

PropsInOrder ==
  /\ Len(prop_buf) <= 2 * Len(texts)
  /\ \A i \in 1..Len(prop_buf) : prop_buf[i] # BUMP => prop_buf[i] \in KeptTexts
  /\ \A i, j \in 1..Len(prop_buf) :
       prop_buf[i] # BUMP /\ prop_buf[j] # BUMP /\ i < j => prop_buf[i] < prop_buf[j]
WaitingMatch == \A r \in KeptTexts : PropWaits(r) => Matches(texts[r].props, propstack)
StackIsWatched ==
  /\ propstack[1].baked = DomStr
  /\ \A i \in 2..Len(propstack) : propstack[i].baked \in properties
PropsStored ==
  \A n \in Name, r \in Runs :
    IF r \in KeptTexts /\ ~PropWaits(r)
    THEN Cardinality(PlacesIn(Chunks(propbufs, n), r)) = OwedIn(texts[r].props, n)
    ELSE PlacesIn(Chunks(propbufs, n), r) = {}
PropInv == PropsInOrder /\ WaitingMatch /\ StackIsWatched /\ PropsStored

LEMMA PropInit == Init => PropInv
<1> SUFFICES ASSUME Init PROVE PropInv
  OBVIOUS
<1>1. prop_buf = << >> /\ texts = << >> /\ Len(prop_buf) = 0 /\ Len(texts) = 0
  BY EmptySeq DEF Init
<1>2. \A n : Chunks(propbufs, n) = << >>
  BY DEF Init, Chunks
<1>3. \A r : PlacesIn(<< >>, r) = {}
  BY EmptySeq DEF PlacesIn
<1>4. PropsInOrder /\ WaitingMatch
  BY <1>1 DEF PropsInOrder, WaitingMatch, KeptTexts
<1>5. StackIsWatched
  BY DEF Init, StackIsWatched
<1>6. PropsStored
  BY <1>1, <1>2, <1>3 DEF PropsStored, KeptTexts
<1> QED BY <1>4, <1>5, <1>6 DEF PropInv

\* The characters of a flushed chunk.
LEMMA CleanedForm ==
  ASSUME BufferType, NEW name
  PROVE  /\ Cleaned(name) \in Chunk /\ Len(Cleaned(name)) = Len(prop_buf)
         /\ \A i \in 1..Len(prop_buf), r \in Runs : Cleaned(name)[i] = r <=> prop_buf[i] = r
<1>1. Cleaned(name) \in Chunk /\ Len(prop_buf) \in Nat
  BY CleanedType, LenProperties DEF BufferType, Waiting
<1>2. \A r \in Runs : r # SPACE /\ r # BUMP
  BY BoundAssumption DEF Runs, SPACE, BUMP
<1>3. CASE name \in Verbatim
  BY <1>1, <1>3 DEF Cleaned
<1>4. CASE name \notin Verbatim
  <2>1. Cleaned(name) = [i \in 1..Len(prop_buf) |-> IF prop_buf[i] = BUMP THEN SPACE ELSE prop_buf[i]]
    BY <1>4 DEF Cleaned
  <2>2. Len(Cleaned(name)) = Len(prop_buf)
    BY <1>1, <2>1, LenProperties
  <2> QED BY <1>1, <1>2, <2>1, <2>2
<1> QED BY <1>3, <1>4

\* A flush of prop_buf that gives every word in it what it owes.
LEMMA FlushedProps ==
  ASSUME TypeInv, PropInv, NEW name \in Name, NEW stack \in Seq(Entries),
         NEW learnt \in SUBSET Name, FlushProps(name, stack, learnt), texts' = texts,
         config' = config,
         \A r \in KeptTexts : PropWaits(r) =>
           \A n \in Name : Count(PropTimes(name, stack), n) = OwedIn(texts[r].props, n)
  PROVE  PropsStored' /\ PropsInOrder' /\ prop_buf' = << >>
<1> DEFINE times == PropTimes(name, stack)
           chunk == Cleaned(name)
<1>1. /\ propbufs' = AddChunk(Grow(propbufs, learnt), chunk, times) /\ prop_buf' = << >>
      /\ Len(prop_buf') = 0 /\ KeptTexts' = KeptTexts
  BY EmptySeq DEF FlushProps, KeptTexts
<1>2. /\ chunk \in Chunk /\ Len(chunk) = Len(prop_buf) /\ Len(prop_buf) \in Nat
      /\ \A i \in 1..Len(prop_buf), r \in Runs : chunk[i] = r <=> prop_buf[i] = r
  BY CleanedForm, LenProperties DEF TypeInv, TypeOK, BufferType, Waiting
<1>3. TimesOK(times) /\ \A n : Count(times, n) \in Nat
  <2>1. TimesOK(times)
    BY PropTimesType DEF TypeInv, TypeOK
  <2> QED BY <2>1 DEF TimesOK, Count
<1>4. /\ Len(texts) \in Nat /\ Len(texts) <= MaxText /\ MaxText \in Nat
      /\ Len(prop_buf) <= MaxText * 2
  <2>1. /\ Len(texts) \in Nat /\ Len(texts) <= MaxText /\ MaxText \in Nat
    BY LenProperties, BoundAssumption DEF TypeInv, TypeOK, HistoryType
  <2>2. Len(prop_buf) <= 2 * Len(texts)
    BY DEF PropInv, PropsInOrder
  <2>3. \A x, y, z \in Nat : z <= 2 * x /\ x <= y => z <= y * 2
    OBVIOUS
  <2> QED BY <1>2, <2>1, <2>2, <2>3
<1>5. ASSUME NEW n
      PROVE  /\ Chunks(propbufs, n) \in Seq(Chunk)
             /\ chunk = << >> => Chunks(propbufs', n) = Chunks(propbufs, n)
             /\ chunk # << >> =>
                  Chunks(propbufs', n) = Chunks(propbufs, n) \o Copies(chunk, Count(times, n))
  <2>1. BufsOK(propbufs) /\ BufsOK(Grow(propbufs, learnt))
    BY GrowType DEF TypeInv, TypeOK, OutType
  <2>2. Chunks(Grow(propbufs, learnt), n) = Chunks(propbufs, n)
    BY ChunksGrown
  <2> HIDE DEF chunk, times
  <2>3. Chunks(propbufs, n) \in Seq(Chunk)
    BY <2>1, ChunksType
  <2>4. Chunks(AddChunk(Grow(propbufs, learnt), chunk, times), n) =
           IF chunk = << >> THEN Chunks(Grow(propbufs, learnt), n)
           ELSE Chunks(Grow(propbufs, learnt), n) \o Copies(chunk, Count(times, n))
    BY <1>3, <2>1, ChunksAdded
  <2> QED BY <1>1, <2>2, <2>3, <2>4
<1> HIDE DEF times, chunk
<1>6. \A r : ~PropWaits(r)'
  BY <1>1 DEF PropWaits
<1>7. ASSUME NEW n \in Name, NEW r \in Runs
      PROVE  IF r \in KeptTexts
             THEN Cardinality(PlacesIn(Chunks(propbufs', n), r)) = OwedIn(texts[r].props, n)
             ELSE PlacesIn(Chunks(propbufs', n), r) = {}
  <2>0. Count(times, n) \in Nat /\ chunk \in Chunk /\ Chunks(propbufs, n) \in Seq(Chunk)
    BY <1>2, <1>3, <1>5
  <2>l. PICK s \in Seq(Chunk), k \in Nat, ch \in Chunk :
          s = Chunks(propbufs, n) /\ k = Count(times, n) /\ ch = chunk
    BY <2>0
  <2>m. PICK new : new = Chunks(propbufs', n)
    OBVIOUS
  <2>1. IF r \in KeptTexts /\ ~PropWaits(r)
        THEN Cardinality(PlacesIn(s, r)) = OwedIn(texts[r].props, n)
        ELSE PlacesIn(s, r) = {}
    BY <2>l DEF PropInv, PropsStored
  <2>3. r \in Nat /\ r # BUMP
    BY <1>4 DEF Runs, BUMP
  <2>4. CASE ~PropWaits(r)
    <3>1. PlacesIn(new, r) = PlacesIn(s, r)
      <4>1. CASE chunk = << >>
        BY <1>5, <2>l, <2>m, <4>1
      <4>2. CASE chunk # << >>
        <5>1. new = s \o Copies(ch, k)
          BY <1>5, <2>l, <2>m, <4>2
        <5>2. \A j \in 1..Len(ch) : ch[j] # r
          BY <1>2, <2>4, <2>l DEF PropWaits
        <5>3. \A c, i : StandsAt(new, r, c, i) <=> StandsAt(s, r, c, i)
          BY <5>1, <5>2, PlacesJoined
        <5> QED BY <5>3, SamePlaces
      <4> QED BY <4>1, <4>2
    <3> QED BY <2>1, <2>4, <2>l, <2>m, <3>1
  <2>5. CASE PropWaits(r)
    <3>1. PICK i \in 1..Len(prop_buf) : prop_buf[i] = r
      BY <2>5 DEF PropWaits
    <3>2. r \in KeptTexts
      BY <2>3, <3>1 DEF PropInv, PropsInOrder
    <3>3. i \in 1..Len(ch) /\ ch[i] = r /\ i \in 1..MaxText * 2 /\ ch \in Chunk
      BY <1>2, <1>4, <2>l, <3>1
    <3>4. \A j \in 1..Len(prop_buf) : prop_buf[j] = r => j = i
      BY <1>2, <2>3, <3>1 DEF PropInv, PropsInOrder
    <3>5. \A j \in 1..Len(ch) : ch[j] = r => j = i
      BY <1>2, <2>l, <3>4
    <3>6. ch # << >>
      BY <3>3, EmptySeq
    <3>7. new = s \o Copies(ch, k)
      BY <1>5, <2>l, <2>m, <3>6
    <3>8. Cardinality(PlacesIn(new, r)) = k
      <4>1. PlacesIn(s, r) = {}
        BY <2>1, <2>5
      <4> QED BY <3>3, <3>5, <3>7, <4>1, PlacesCount
    <3>9. k = OwedIn(texts[r].props, n)
      BY <2>5, <2>l, <3>2 DEF times
    <3> QED BY <2>m, <3>2, <3>8, <3>9
  <2> QED BY <2>4, <2>5
<1>8. PropsStored'
  <2>1. \A names, n : OwedIn(names, n)' = OwedIn(names, n)
    BY DEF OwedIn, PropStoredAs, PropAlias
  <2> SUFFICES ASSUME NEW n \in Name, NEW r \in Runs
               PROVE  IF r \in KeptTexts' /\ ~PropWaits(r)'
                      THEN Cardinality(PlacesIn(Chunks(propbufs', n), r)) = OwedIn(texts'[r].props, n)
                      ELSE PlacesIn(Chunks(propbufs', n), r) = {}
    BY <2>1 DEF PropsStored, Chunks
  <2> QED BY <1>1, <1>6, <1>7
<1>9. PropsInOrder'
  BY <1>1, <1>4 DEF PropsInOrder
<1> QED BY <1>1, <1>8, <1>9

LEMMA BufferedForm ==
  ASSUME NEW buf \in Waiting, NEW run, NEW bump, NEW new, new = Buffered(buf, run, bump)
  PROVE  \E n \in Nat :
           /\ Len(new) = n + 1 /\ n >= Len(buf) /\ n <= Len(buf) + 1
           /\ new[n + 1] = run
           /\ \A i \in 1..Len(buf) : new[i] = buf[i]
           /\ \A i \in 1..n : i > Len(buf) => new[i] = BUMP
<1>1. buf \in Seq({BUMP} \cup Runs) /\ Len(buf) \in Nat
  BY LenProperties DEF Waiting
<1>2. CASE bump /\ buf # << >>
  <2>1. new = buf \o <<BUMP, run>>
    BY <1>2 DEF Buffered
  <2>2. /\ Len(new) = Len(buf) + 2
        /\ new[Len(buf) + 1] = BUMP /\ new[Len(buf) + 2] = run
        /\ \A i \in 1..Len(buf) : new[i] = buf[i]
    BY <1>1, <2>1
  <2> QED BY <1>1, <2>2
<1>3. CASE ~(bump /\ buf # << >>)
  <2>1. new = Append(buf, run)
    BY <1>3 DEF Buffered
  <2>2. /\ Len(new) = Len(buf) + 1 /\ new[Len(buf) + 1] = run
        /\ \A i \in 1..Len(buf) : new[i] = buf[i]
    BY <1>1, <2>1
  <2> QED BY <1>1, <2>2
<1> QED BY <1>2, <1>3

LEMMA PropStackOK ==
  ASSUME TypeInv, StacksFollow, StackIsWatched, DomStr \notin properties
  PROVE  StackOK(propstack) /\ AliasesOK
<1>1. propstack \in Seq(Entries) /\ propstack # << >>
  BY DEF TypeInv, TypeOK, StackType, Bases
<1>2. \A i \in 2..Len(propstack) : propstack[i].baked \notin {NoTag, DomStr}
  BY DEF StackIsWatched, StacksFollow
<1>3. StackOK(propstack)
  BY <1>1, <1>2 DEF StackOK, StackIsWatched
<1>4. WellFormed(config) /\ Properties \subseteq properties
  BY ConfigFacts DEF TypeInv, TypeOK, NamesType
<1>5. \A m \in DOMAIN PropAlias : PropAlias[m] \in Properties
  BY <1>4 DEF WellFormed, PropAlias, Properties
<1>6. AliasesOK
  BY <1>4, <1>5 DEF AliasesOK, StacksFollow
<1> QED BY <1>3, <1>6

\* The properties a word is read in are those on the stack.
LEMMA ReadMatches ==
  ASSUME TypeInv, StacksFollow, StackIsWatched, DomStr \notin properties
  PROVE  OpenProps \in Seq(Name) /\ Matches(OpenProps, propstack)
<1>1. Follows(open, propstack, OpenProps)
  BY DEF StacksFollow, PropstackFollowsDocument
<1>2. open \in Seq(OpenElement) /\ Len(open) \in Nat /\ propstack \in Seq(Entries)
      /\ Len(propstack) \in Nat
  BY LenProperties DEF TypeInv, TypeOK, DocType, StackType
<1>3. /\ OpenProps = [k \in 1..Len(open) |-> open[k].prop]
      /\ \A k \in 1..Len(open) : open[k].prop \in Name
  <2>1. \A k \in 1..Len(open) : open[k] \in OpenElement
    BY <1>2, ElementOfSeq
  <2> QED BY <2>1 DEF OpenProps, OpenElement
<1>4. OpenProps \in Seq(Name) /\ Len(OpenProps) = Len(open)
  <2>1. OpenProps \in [1..Len(open) -> Name]
    BY <1>3
  <2> QED BY <1>2, <2>1, FcnIsSeq, LenProperties
<1>5. ASSUME NEW n \in Name \ {NoTag, DomStr}
      PROVE  TimesIn(OpenProps, n) = TimesOn(propstack, n)
  <2>1. propstack[1].baked # n
    BY DEF StackIsWatched
  <2>2. PICK o, names, st : o = open /\ names = OpenProps /\ st = propstack
    OBVIOUS
  <2>3. /\ Follows(o, st, names) /\ Len(o) \in Nat /\ Len(names) = Len(o) /\ Len(st) \in Nat
        /\ st[1].baked # n /\ n # NoTag
    BY <1>1, <1>2, <1>4, <2>1, <2>2
  <2>4. TimesIn(names, n) = TimesOn(st, n)
    BY <2>3, FollowsCount
  <2> QED BY <2>2, <2>4
<1>6. ASSUME NEW k \in 1..Len(OpenProps) PROVE OpenProps[k] # DomStr
  <2>1. CASE OpenProps[k] = NoTag
    BY <2>1, ReservedNames
  <2>2. CASE OpenProps[k] # NoTag
    <3>1. PICK i \in 2..Len(propstack) : propstack[i].by = k
      BY <1>1, <1>4, <2>2 DEF Follows
    <3>2. propstack[i].baked = OpenProps[k]
      BY <1>1, <3>1 DEF Follows
    <3> QED BY <3>2 DEF StackIsWatched
  <2> QED BY <2>1, <2>2
<1> QED BY <1>4, <1>5, <1>6 DEF Matches

LEMMA ReadProps ==
  ASSUME TypeInv, StacksFollow, PropInv, DomStr \notin properties, PropsRead, config' = config
  PROVE  PropsInOrder' /\ WaitingMatch' /\ PropsStored'
<1> DEFINE run == Len(texts) + 1
           text == [owner |-> InnermostMeta, props |-> OpenProps, metas |-> OpenMetas,
                      segment |-> segment, noindex |-> noindex,
                      kept |-> ignore_content = 0]
<1>1. PICK bump \in BOOLEAN : BufferCharacters(bump)
  BY DEF PropsRead
<1>2. /\ texts' = Append(texts, text) /\ text \in Text /\ text.props = OpenProps
      /\ text.kept = (ignore_content = 0)
  BY <1>1, InnermostType DEF BufferCharacters, Text, TypeInv, TypeOK, HistoryType
<1> HIDE DEF text
<1>3. /\ Len(texts) \in Nat /\ Len(texts') = run /\ texts'[run] = text
      /\ \A r \in 1..Len(texts) : texts'[r] = texts[r]
  BY <1>2, AppendProperties, LenProperties DEF TypeInv, TypeOK, HistoryType
<1>4. KeptTexts' = IF ignore_content = 0 THEN KeptTexts \cup {run} ELSE KeptTexts
  <2>1. 1..Len(texts') = 1..Len(texts) \cup {run} /\ run \notin 1..Len(texts)
    BY <1>3
  <2>2. \A r \in 1..Len(texts) : texts'[r].kept = texts[r].kept
    BY <1>3
  <2>3. texts'[run].kept = (ignore_content = 0)
    BY <1>2, <1>3
  <2> HIDE DEF run
  <2> QED BY <2>1, <2>2, <2>3, Zenon DEF KeptTexts
<1>5. \A r \in KeptTexts : r \in Nat /\ r < run /\ texts'[r] = texts[r]
  BY <1>3 DEF KeptTexts
<1>6. /\ propstack' = propstack /\ \A n : Chunks(propbufs', n) = Chunks(propbufs, n)
      /\ prop_buf \in Waiting /\ Len(prop_buf) \in Nat /\ ignore_content \in Nat
  BY LenProperties DEF PropsRead, SamePropChunks, TypeInv, TypeOK, BufferType, Waiting
<1>7. \A names, n : OwedIn(names, n)' = OwedIn(names, n)
  BY DEF OwedIn, PropStoredAs, PropAlias
<1>8. CASE ignore_content # 0
  <2>1. prop_buf' = prop_buf /\ KeptTexts' = KeptTexts
    BY <1>1, <1>4, <1>6, <1>8 DEF BufferCharacters
  <2>2. Len(prop_buf) <= 2 * Len(texts')
    BY <1>3, <1>6 DEF PropInv, PropsInOrder
  <2>3. PropsInOrder'
    BY <2>1, <2>2 DEF PropInv, PropsInOrder
  <2>4. \A r : PropWaits(r)' = PropWaits(r)
    BY <2>1 DEF PropWaits
  <2>5. WaitingMatch'
    BY <1>5, <1>6, <2>1, <2>4 DEF PropInv, WaitingMatch
  <2>6. PropsStored'
    <3> SUFFICES ASSUME NEW n \in Name, NEW r \in Runs
                 PROVE  IF r \in KeptTexts /\ ~PropWaits(r)
                        THEN Cardinality(PlacesIn(Chunks(propbufs', n), r)) = OwedIn(texts'[r].props, n)
                        ELSE PlacesIn(Chunks(propbufs', n), r) = {}
      BY <1>7, <2>1, <2>4 DEF PropsStored, Chunks
    <3> QED BY <1>5, <1>6 DEF PropInv, PropsStored
  <2> QED BY <2>3, <2>5, <2>6
<1>9. CASE ignore_content = 0
  <2>1. prop_buf' = Buffered(prop_buf, run, bump) /\ KeptTexts' = KeptTexts \cup {run}
    BY <1>1, <1>4, <1>9 DEF BufferCharacters
  <2>2. PICK m \in Nat :
          /\ Len(prop_buf') = m + 1 /\ m >= Len(prop_buf) /\ m <= Len(prop_buf) + 1
          /\ prop_buf'[m + 1] = run
          /\ \A i \in 1..Len(prop_buf) : prop_buf'[i] = prop_buf[i]
          /\ \A i \in 1..m : i > Len(prop_buf) => prop_buf'[i] = BUMP
    <3>1. PICK b, new, x : b = prop_buf /\ new = prop_buf' /\ x = run
      OBVIOUS
    <3> HIDE DEF run
    <3>2. b \in Waiting /\ new = Buffered(b, x, bump)
      BY <1>6, <2>1, <3>1
    <3>3. \E n \in Nat :
           /\ Len(new) = n + 1 /\ n >= Len(b) /\ n <= Len(b) + 1
           /\ new[n + 1] = x
           /\ \A i \in 1..Len(b) : new[i] = b[i]
           /\ \A i \in 1..n : i > Len(b) => new[i] = BUMP
      BY <3>2, BufferedForm
    <3> QED BY <3>1, <3>3
  <2>3. ASSUME NEW i \in 1..Len(prop_buf'), prop_buf'[i] # BUMP
        PROVE  \/ i \in 1..Len(prop_buf) /\ prop_buf'[i] = prop_buf[i]
                                          /\ prop_buf[i] \in KeptTexts
               \/ i = m + 1 /\ prop_buf'[i] = run
    <3>1. i \in 1..Len(prop_buf) \/ (i \in 1..m /\ i > Len(prop_buf)) \/ i = m + 1
      BY <1>6, <2>2
    <3> QED BY <2>2, <2>3, <3>1 DEF PropInv, PropsInOrder
  <2>4. PropsInOrder'
    <3>1. ASSUME NEW i \in 1..Len(prop_buf'), prop_buf'[i] # BUMP
          PROVE  prop_buf'[i] \in KeptTexts'
      BY <2>1, <2>3, <3>1
    <3>2. ASSUME NEW i \in 1..Len(prop_buf'), NEW j \in 1..Len(prop_buf'),
                 prop_buf'[i] # BUMP, prop_buf'[j] # BUMP, i < j
          PROVE  prop_buf'[i] < prop_buf'[j]
      <4>1. i \in 1..Len(prop_buf) /\ prop_buf'[i] = prop_buf[i] /\ prop_buf[i] \in KeptTexts
        <5>1. i # m + 1
          BY <2>2, <3>2
        <5> QED BY <2>3, <3>2, <5>1
      <4>2. CASE j \in 1..Len(prop_buf)
        BY <2>2, <3>2, <4>1, <4>2 DEF PropInv, PropsInOrder
      <4>3. CASE j = m + 1
        BY <1>5, <2>2, <4>1, <4>3
      <4> QED BY <2>3, <3>2, <4>2, <4>3
    <3>3. Len(prop_buf') <= 2 * Len(texts')
      BY <1>3, <1>6, <2>2 DEF PropInv, PropsInOrder
    <3> QED BY <3>1, <3>2, <3>3 DEF PropsInOrder
  <2>x. PICK x : x = run
    OBVIOUS
  <2>5. /\ PropWaits(x)' /\ \A r \in KeptTexts : PropWaits(r)' <=> PropWaits(r)
    <3>1. m + 1 \in 1..Len(prop_buf')
      BY <2>2
    <3>2. PropWaits(x)'
      BY <2>2, <2>x, <3>1 DEF PropWaits
    <3>3. ASSUME NEW r \in KeptTexts, PropWaits(r) PROVE PropWaits(r)'
      <4>1. PICK i \in 1..Len(prop_buf) : prop_buf[i] = r
        BY <3>3 DEF PropWaits
      <4>2. i \in 1..Len(prop_buf') /\ prop_buf'[i] = r
        BY <1>6, <2>2, <4>1
      <4> QED BY <4>2 DEF PropWaits
    <3>4. ASSUME NEW r \in KeptTexts, PropWaits(r)' PROVE PropWaits(r)
      <4>1. PICK i \in 1..Len(prop_buf') : prop_buf'[i] = r
        BY <3>4 DEF PropWaits
      <4>2. r # BUMP /\ r # run
        BY <1>3, <1>5 DEF KeptTexts, BUMP
      <4>3. i \in 1..Len(prop_buf) /\ prop_buf[i] = r
        BY <2>3, <4>1, <4>2
      <4> QED BY <4>3 DEF PropWaits
    <3> QED BY <3>2, <3>3, <3>4
  <2>6. WaitingMatch'
    <3> SUFFICES ASSUME NEW r \in KeptTexts', PropWaits(r)'
                 PROVE  Matches(texts'[r].props, propstack)
      BY <1>6 DEF WaitingMatch
    <3>1. CASE r = run
      BY <1>2, <1>3, <3>1, ReadMatches DEF PropInv
    <3>2. CASE r \in KeptTexts
      <4>1. PropWaits(r)
        BY <2>5, <3>2
      <4>2. Matches(texts[r].props, propstack)
        BY <3>2, <4>1 DEF PropInv, WaitingMatch
      <4> QED BY <1>5, <3>2, <4>2
    <3> QED BY <2>1, <3>1, <3>2
  <2>7. PropsStored'
    <3> SUFFICES ASSUME NEW n \in Name, NEW r \in Runs
                 PROVE  IF r \in KeptTexts' /\ ~PropWaits(r)'
                        THEN Cardinality(PlacesIn(Chunks(propbufs', n), r)) = OwedIn(texts'[r].props, n)
                        ELSE PlacesIn(Chunks(propbufs', n), r) = {}
      BY <1>7 DEF PropsStored, Chunks
    <3>1. IF r \in KeptTexts /\ ~PropWaits(r)
          THEN Cardinality(PlacesIn(Chunks(propbufs', n), r)) = OwedIn(texts[r].props, n)
          ELSE PlacesIn(Chunks(propbufs', n), r) = {}
      BY <1>6 DEF PropInv, PropsStored
    <3>2. CASE r \in KeptTexts
      <4>1. texts'[r] = texts[r] /\ r \in KeptTexts'
        BY <1>5, <2>1, <3>2
      <4>2. PropWaits(r)' <=> PropWaits(r)
        BY <2>5, <3>2
      <4> QED BY <3>1, <3>2, <4>1, <4>2
    <3>3. CASE r \notin KeptTexts
      <4>1. r \in KeptTexts' => PropWaits(r)'
        BY <2>1, <2>5, <2>x, <3>3
      <4> QED BY <3>1, <3>3, <4>1
    <3> QED BY <3>2, <3>3
  <2> QED BY <2>4, <2>6, <2>7
<1> QED BY <1>8, <1>9

\* An element that is a property under an alias holds no other property.
AliasOnTop ==
  \A i \in 2..Len(propstack) - 1 : propstack[i].baked \notin DOMAIN PropAlias

LEMMA TextProps ==
  ASSUME TypeInv, NEW r \in KeptTexts PROVE texts[r].props \in Seq(Name)
<1>1. texts \in Seq(Text) /\ r \in 1..Len(texts)
  BY DEF TypeInv, TypeOK, HistoryType, KeptTexts
<1>2. texts[r] \in Text
  BY <1>1, ElementOfSeq
<1> QED BY <1>2 DEF Text

LEMMA OpenedProps ==
  ASSUME TypeInv, StacksFollow, PropInv, DomStr \notin properties, AliasOnTop', PropsOpened,
         config' = config, properties \subseteq properties'
  PROVE  PropInv'
<1>1. PICK learnt \in SUBSET Name : FlushProps(NoTag, propstack, learnt)
  BY DEF PropsOpened
<1>2. PICK entry \in Entries : propstack' = Append(propstack, entry) /\ entry.baked \in properties'
  BY DEF PropsOpened
<1>3. /\ propstack \in Seq(Entries) /\ propstack # << >> /\ Len(propstack) \in Nat
      /\ Len(propstack) >= 1 /\ texts' = texts
  BY EmptySeq, LenProperties DEF TypeInv, TypeOK, StackType, Bases, PropsOpened
<1>4. /\ Len(propstack') = Len(propstack) + 1 /\ propstack'[Len(propstack) + 1] = entry
      /\ \A i \in 1..Len(propstack) : propstack'[i] = propstack[i]
  BY <1>2, <1>3, AppendProperties
<1>5. StackIsWatched /\ PropsInOrder /\ WaitingMatch
  BY DEF PropInv
<1>6. StackIsWatched'
  <2>1. propstack'[1].baked = DomStr
    BY <1>3, <1>4, <1>5 DEF StackIsWatched
  <2>2. \A i \in 2..Len(propstack') : propstack'[i].baked \in properties'
    <3> SUFFICES ASSUME NEW i \in 2..Len(propstack') PROVE propstack'[i].baked \in properties'
      OBVIOUS
    <3>1. i \in 2..Len(propstack) \/ i = Len(propstack) + 1
      BY <1>3, <1>4
    <3> QED BY <1>2, <1>3, <1>4, <1>5, <3>1 DEF StackIsWatched
  <2> QED BY <2>1, <2>2 DEF StackIsWatched
<1>7. StackOK(propstack) /\ AliasesOK
  BY <1>5, PropStackOK
<1>8. \A i \in 2..Len(propstack) : propstack[i].baked \notin DOMAIN PropAlias
  <2>1. PropAlias' = PropAlias
    BY DEF PropAlias
  <2>2. \A i \in 2..Len(propstack) : i \in 2..Len(propstack') - 1 /\ propstack'[i] = propstack[i]
    BY <1>3, <1>4
  <2> QED BY <2>1, <2>2 DEF AliasOnTop
<1>9. \A r \in KeptTexts : PropWaits(r) =>
        \A n \in Name : Count(PropTimes(NoTag, propstack), n) = OwedIn(texts[r].props, n)
  <2> SUFFICES ASSUME NEW r \in KeptTexts, PropWaits(r), NEW n \in Name
               PROVE  Count(PropTimes(NoTag, propstack), n) = OwedIn(texts[r].props, n)
    OBVIOUS
  <2>1. Matches(texts[r].props, propstack)
    BY <1>5 DEF WaitingMatch
  <2>2. texts[r].props \in Seq(Name)
    BY TextProps
  <2>3. PICK p, st : p = texts[r].props /\ st = propstack
    OBVIOUS
  <2>4. Count(PropTimes(NoTag, st), n) = OwedIn(p, n)
    BY <1>7, <1>8, <2>1, <2>2, <2>3, OwedAtOpen
  <2> QED BY <2>3, <2>4
<1>10. PropsStored' /\ PropsInOrder' /\ prop_buf' = << >>
  <2>1. NoTag \in Name
    BY ReservedNames
  <2> QED BY <1>1, <1>3, <1>9, <2>1, FlushedProps
<1>11. WaitingMatch'
  <2>1. \A r : ~PropWaits(r)'
    BY <1>10, EmptySeq DEF PropWaits
  <2> QED BY <2>1 DEF WaitingMatch
<1> QED BY <1>6, <1>10, <1>11 DEF PropInv

LEMMA ClosedProps ==
  ASSUME TypeInv, StacksFollow, PropInv, DomStr \notin properties, AliasOnTop, PropsClosed,
         config' = config, properties \subseteq properties'
  PROVE  PropInv'
<1>1. PICK learnt \in SUBSET Name : FlushProps(Top(propstack).baked, Pop(propstack), learnt)
  BY DEF PropsClosed
<1>2. propstack' = Pop(propstack) /\ Pop(propstack) # << >> /\ texts' = texts
  BY DEF PropsClosed
<1>3. propstack \in Seq(Entries) /\ propstack # << >> /\ Len(propstack) \in Nat /\ Len(propstack) >= 1
  BY EmptySeq, LenProperties DEF TypeInv, TypeOK, StackType, Bases
<1>4. /\ Pop(propstack) \in Seq(Entries) /\ Len(Pop(propstack)) = Len(propstack) - 1
      /\ \A i \in 1..Len(propstack) - 1 : Pop(propstack)[i] = propstack[i]
  BY <1>3, PopType
<1>5. StackIsWatched /\ PropsInOrder /\ WaitingMatch
  BY DEF PropInv
<1>6. StackIsWatched'
  <2>1. Len(propstack') # 0 /\ Len(propstack') = Len(propstack) - 1
    BY <1>2, <1>4, EmptySeq
  <2>2. \A i \in 1..Len(propstack') : i \in 1..Len(propstack) /\ propstack'[i] = propstack[i]
    BY <1>2, <1>3, <1>4
  <2>3. 1 \in 1..Len(propstack') /\ \A i \in 2..Len(propstack') : i \in 1..Len(propstack') /\ i \in 2..Len(propstack)
    BY <1>3, <2>1
  <2> QED BY <1>5, <2>2, <2>3 DEF StackIsWatched
<1>7. StackOK(propstack) /\ AliasesOK
  BY <1>5, PropStackOK
<1>8. \A r \in KeptTexts : PropWaits(r) =>
        \A n \in Name :
          Count(PropTimes(Top(propstack).baked, Pop(propstack)), n) = OwedIn(texts[r].props, n)
  <2> SUFFICES ASSUME NEW r \in KeptTexts, PropWaits(r), NEW n \in Name
               PROVE  Count(PropTimes(Top(propstack).baked, Pop(propstack)), n) =
                        OwedIn(texts[r].props, n)
    OBVIOUS
  <2>1. Matches(texts[r].props, propstack)
    BY <1>5 DEF WaitingMatch
  <2>2. texts[r].props \in Seq(Name)
    BY TextProps
  <2>3. PICK p, st : p = texts[r].props /\ st = propstack
    OBVIOUS
  <2>4. Pop(st) # << >> /\ \A i \in 2..Len(st) - 1 : st[i].baked \notin DOMAIN PropAlias
    BY <1>2, <2>3 DEF AliasOnTop
  <2>5. Count(PropTimes(Top(st).baked, Pop(st)), n) = OwedIn(p, n)
    BY <1>7, <2>1, <2>2, <2>3, <2>4, OwedAtClose
  <2> QED BY <2>3, <2>5
<1>9. PropsStored' /\ PropsInOrder' /\ prop_buf' = << >>
  <2>1. Top(propstack) \in Entries
    BY <1>3, TopType
  <2>2. Top(propstack).baked \in Name
    BY <2>1 DEF Entries
  <2> QED BY <1>1, <1>2, <1>4, <1>8, <2>2, FlushedProps
<1>10. WaitingMatch'
  <2>1. \A r : ~PropWaits(r)'
    BY <1>9, EmptySeq DEF PropWaits
  <2> QED BY <2>1 DEF WaitingMatch
<1> QED BY <1>6, <1>9, <1>10 DEF PropInv

LEMMA PropNext ==
  /\ TypeInv /\ RouteInv /\ PropInv /\ DomStr \notin properties
  /\ AliasOnTop /\ AliasOnTop' /\ [Next]_vars
  => PropInv'
<1> SUFFICES ASSUME TypeInv, RouteInv, PropInv, DomStr \notin properties, AliasOnTop, AliasOnTop',
                    [Next]_vars
             PROVE  PropInv'
  OBVIOUS
<1>1. config' = config /\ (PropsOpened \/ PropsClosed \/ PropsRead \/ PropsKept)
  BY PropSteps DEF PropStep
<1>2. properties \subseteq properties' /\ StacksFollow
  BY NamesNext DEF NamesGrow, RouteInv
<1>3. CASE PropsOpened
  BY <1>1, <1>2, <1>3, OpenedProps
<1>4. CASE PropsClosed
  BY <1>1, <1>2, <1>4, ClosedProps
<1>5. CASE PropsRead \/ PropsKept
  <2>1. StackIsWatched'
    <3>1. propstack' = propstack
      BY <1>5 DEF PropsRead, PropsKept
    <3> QED BY <1>2, <3>1 DEF PropInv, StackIsWatched
  <2>2. CASE PropsRead
    BY <1>1, <1>2, <2>1, <2>2, ReadProps DEF PropInv
  <2>3. CASE PropsKept
    <3>1. /\ UNCHANGED <<prop_buf, propstack, texts>>
          /\ \A n : Chunks(propbufs', n) = Chunks(propbufs, n)
      BY <2>3 DEF PropsKept, SamePropChunks
    <3>2. PropsInOrder' /\ WaitingMatch'
      BY <3>1 DEF PropInv, PropsInOrder, WaitingMatch, PropWaits, KeptTexts
    <3>3. \A names, n : OwedIn(names, n)' = OwedIn(names, n)
      BY <1>1 DEF OwedIn, PropStoredAs, PropAlias
    <3>4. KeptTexts' = KeptTexts /\ \A r : PropWaits(r)' = PropWaits(r)
      BY <3>1 DEF KeptTexts, PropWaits
    <3>5. PropsStored'
      <4> SUFFICES ASSUME NEW n \in Name, NEW r \in Runs
                   PROVE  IF r \in KeptTexts /\ ~PropWaits(r)
                          THEN Cardinality(PlacesIn(Chunks(propbufs', n), r)) = OwedIn(texts[r].props, n)
                          ELSE PlacesIn(Chunks(propbufs', n), r) = {}
        BY <3>1, <3>3, <3>4 DEF PropsStored, Chunks
      <4> QED BY <3>1 DEF PropInv, PropsStored
    <3> QED BY <2>1, <3>2, <3>5 DEF PropInv
  <2> QED BY <1>5, <2>2, <2>3
<1> QED BY <1>1, <1>3, <1>4, <1>5

LEMMA PropsComplete ==
  ASSUME TypeInv, StacksFollow, PropInv, DomStr \notin properties
  PROVE  PropertiesHoldTheirText
<1> SUFFICES ASSUME Complete, NEW n \in DOMAIN propbufs, NEW r \in KeptTexts
             PROVE  Occurs(propbufs, n, r) = OwedIn(texts[r].props, n)
  BY DEF PropertiesHoldTheirText, OwedIn
<1>1. n \in Name /\ r \in Runs /\ texts[r].props \in Seq(Name)
  <2>1. n \in Name
    BY DEF TypeInv, TypeOK, OutType, BufsOK
  <2>2. Len(texts) \in Nat /\ Len(texts) <= MaxText /\ MaxText \in Nat /\ r \in 1..Len(texts)
    BY LenProperties, BoundAssumption DEF TypeInv, TypeOK, HistoryType, KeptTexts
  <2>3. texts[r].props \in Seq(Name)
    BY TextProps
  <2> QED BY <2>1, <2>2, <2>3 DEF Runs
<1>2. Occurs(propbufs, n, r) = Cardinality(PlacesIn(Chunks(propbufs, n), r))
  BY DEF Occurs, PlacesIn, Chunks
<1>3. CASE ~PropWaits(r)
  BY <1>1, <1>2, <1>3 DEF PropInv, PropsStored
<1>4. CASE PropWaits(r)
  <2>1. Matches(texts[r].props, propstack)
    BY <1>4 DEF PropInv, WaitingMatch
  <2>2. StackOK(propstack)
    BY PropStackOK DEF PropInv
  <2>3. 2..Len(propstack) = {}
    <3>1. 1..Len(open) = {}
      BY EmptySeq DEF Complete
    <3> QED BY <3>1 DEF StacksFollow, PropstackFollowsDocument, Follows
  <2>4. \A k \in 1..Len(texts[r].props) : texts[r].props[k] = NoTag
    <3>1. PICK p, st : p = texts[r].props /\ st = propstack
      OBVIOUS
    <3>2. \A k \in 1..Len(p) : p[k] = NoTag
      BY <1>1, <2>1, <2>2, <2>3, <3>1, NamedOnStack
    <3> QED BY <3>1, <3>2
  <2>5. OwedIn(texts[r].props, n) = 0
    <3>1. PICK p : p = texts[r].props
      OBVIOUS
    <3>2. OwedIn(p, n) = 0
      BY <2>4, <3>1, OwedNone
    <3> QED BY <3>1, <3>2
  <2>6. PlacesIn(Chunks(propbufs, n), r) = {}
    BY <1>1, <1>4 DEF PropInv, PropsStored
  <2> QED BY <1>2, <2>5, <2>6, FS_EmptySet
<1> QED BY <1>3, <1>4

\* add_stack_to_prop_buf and alias_for together: at the end of a document each word
\* stands in the buffer of a property as often as it was in open elements of that
\* property, as long as no property with an alias holds another property, no name of
\* a property is that of the stack's base, and NoClash.
THEOREM PropertyTextCorrect ==
  Spec /\ []NoClash /\ [](DomStr \notin properties) /\ []AliasOnTop => []PropertiesHoldTheirText
<1> DEFINE DomFree == DomStr \notin properties
<1>1. Init => PropInv
  BY PropInit
<1>2. TypeInv /\ RouteInv /\ PropInv /\ DomFree /\ AliasOnTop /\ AliasOnTop' /\ [Next]_vars
        => PropInv'
  BY PropNext
<1>3. TypeInv /\ RouteInv /\ PropInv /\ DomFree => PropertiesHoldTheirText
  BY PropsComplete DEF RouteInv
<1> HIDE DEF DomFree
<1>4. Spec /\ []NoClash /\ []DomFree /\ []AliasOnTop => []PropertiesHoldTheirText
  BY <1>1, <1>2, <1>3, RouteAlways, PTL DEF Spec
<1> QED BY <1>4 DEF DomFree

-----------------------------------------------------------------------------
(* CascadeMetaContext: every metaname around a word gets it.               *)

LEMMA DefaultIsTag == SwishDefault # NoTag
<1>1. Len(SwishDefault) # Len(NoTag)
  <2> DEFINE some == Len(SwishDefault)
             none == Len(NoTag)
  <2>1. some = 1 /\ none = 0
    BY ReservedNames
  <2> HIDE DEF some, none
  <2>2. some # none
    BY <2>1
  <2> QED BY <2>2 DEF some, none
<1> QED BY <1>1, Zenon

\* The metastack holds each name as often as swishdefault and the open elements
\* around bear it: the place of an element among them is that of its entry.
LEMMA AroundCount ==
  ASSUME NEW opened, NEW names \in Seq(Name), NEW stack, Follows(opened, stack, names),
         Len(names) = Len(opened), Len(stack) \in Nat, stack[1].baked = SwishDefault,
         NEW around, around = <<SwishDefault>> \o names, NEW n
  PROVE  Cardinality({k \in 1..Len(around) : around[k] = n /\ n # NoTag}) = TimesOn(stack, n)
<1> DEFINE S == {i \in 1..Len(stack) : stack[i].baked = n}
           T == {k \in 1..Len(around) : around[k] = n /\ n # NoTag}
           f == [i \in S |-> stack[i].by + 1]
<1>1. IsFiniteSet(S)
  <2>1. IsFiniteSet(1..Len(stack)) /\ S \subseteq 1..Len(stack)
    BY FS_Interval
  <2> QED BY <2>1, FS_Subset
<1>2. /\ Len(names) \in Nat /\ Len(around) = Len(names) + 1 /\ around[1] = SwishDefault
      /\ \A k \in 1..Len(names) : around[k + 1] = names[k]
  <2>1. SwishDefault \in Name
    BY ReservedNames
  <2> QED BY <2>1, LenProperties
<1>3. SwishDefault # NoTag
  BY DefaultIsTag
<1>4. \A i \in S : i = 1 \/ i \in 2..Len(stack)
  OBVIOUS
<1>5. ASSUME NEW i \in S PROVE f[i] \in T /\ stack[i].by \in Nat
  <2>1. CASE i = 1
    <3>1. stack[i].by = 0 /\ stack[i].baked = n /\ f[i] = 1
      BY <2>1 DEF Follows
    <3> QED BY <1>2, <1>3, <2>1, <3>1
  <2>2. CASE i \in 2..Len(stack)
    <3>1. PICK k \in 1..Len(names) : stack[i].by = k /\ stack[i].baked = names[k] /\ names[k] # NoTag
      BY <2>2 DEF Follows
    <3>2. f[i] = k + 1 /\ names[k] = n
      BY <3>1
    <3> QED BY <1>2, <3>1, <3>2
  <2> QED BY <1>4, <2>1, <2>2
<1>6. f \in [S -> T]
  BY <1>5
<1>7. ASSUME NEW x \in S, NEW y \in S, f[x] = f[y] PROVE x = y
  <2>1. x \in 1..Len(stack) /\ y \in 1..Len(stack) /\ stack[x].by \in Nat /\ stack[y].by \in Nat
    BY <1>5
  <2>2. stack[x].by = stack[y].by
    BY <1>7, <2>1
  <2>3. ~(x < y) /\ ~(y < x)
    BY <2>1, <2>2 DEF Follows
  <2> QED BY <2>1, <2>3
<1>8. ASSUME NEW k \in T PROVE \E i \in S : f[i] = k
  <2>1. k \in 1..Len(around) /\ around[k] = n /\ n # NoTag
    OBVIOUS
  <2>2. CASE k = 1
    <3>1. 1 \in 1..Len(stack)
      <4>1. Len(stack) # 0
        BY EmptySeq DEF Follows
      <4> QED BY <4>1
    <3>2. 1 \in S /\ f[1] = 1
      BY <1>2, <2>1, <2>2, <3>1 DEF Follows
    <3> QED BY <2>2, <3>2
  <2>3. CASE k # 1
    <3>1. PICK j \in 1..Len(names) : k = j + 1
      BY <1>2, <2>1, <2>3
    <3>2. names[j] = n
      BY <1>2, <2>1, <3>1
    <3>3. PICK i \in 2..Len(stack) : stack[i].by = j
      BY <2>1, <3>1, <3>2 DEF Follows
    <3>4. i \in S
      BY <3>2, <3>3 DEF Follows
    <3> QED BY <3>1, <3>3, <3>4
  <2> QED BY <2>2, <2>3
<1> HIDE DEF S, T, f
<1>9. Cardinality(T) = Cardinality(S)
  BY <1>1, <1>6, <1>7, <1>8, SameSize
<1> QED BY <1>9 DEF TimesOn, S, T

\* How often flush_buffer writes to a name.
LEMMA MetaTimesCount ==
  ASSUME NEW name, NEW stack, CascadeMetaContext, NEW n
  PROVE  Count(MetaTimes(name, stack), n) =
           IF n = MetaStoredAs(name) THEN 1 ELSE TimesOn(stack, n)
<1> DEFINE times == MetaTimes(name, stack)
<1>1. /\ DOMAIN times = {MetaStoredAs(name)} \cup BakedIn(stack)
      /\ \A m \in DOMAIN times : times[m] = IF m = MetaStoredAs(name) THEN 1 ELSE TimesOn(stack, m)
  BY DEF MetaTimes
<1> HIDE DEF times
<1>2. CASE n \in DOMAIN times
  BY <1>1, <1>2 DEF Count, times
<1>3. CASE n \notin DOMAIN times
  <2>1. \A i \in 1..Len(stack) : stack[i].baked # n
    BY <1>1, <1>3 DEF BakedIn
  <2>2. TimesOn(stack, n) = 0
    BY <2>1, TimesOnNone
  <2> QED BY <1>1, <1>3, <2>2 DEF Count, times
<1> QED BY <1>2, <1>3

\* What a step does to the named buffers of metanames: it flushes the waiting words
\* under the top of the metastack, which it may have popped, reads words or keeps
\* the buffers.  In a document that is cut off the last flush is another.
Whole == status = "done" => open = << >>

MetasFlushed ==
  /\ \E name \in Name, stack \in {metastack, Pop(metastack)}, learnt \in SUBSET Name :
       /\ FlushTo(name, stack, learnt)
       /\ Whole' => name = Top(metastack).baked
  /\ texts' = texts /\ Whole

MetasRead ==
  /\ \E bump \in BOOLEAN : BufferCharacters(bump)
  /\ SameChunks /\ metastack' = metastack /\ Whole

MetasKept == SameChunks /\ UNCHANGED <<meta_buf, metastack, texts>> /\ (Whole' => Whole)

CascadeStep == config' = config /\ (MetasFlushed \/ MetasRead \/ MetasKept)

LEMMA DieMetas ==
  ASSUME Die("croaked") \/ Die("crashed"), status = "parsing" PROVE CascadeStep
BY DEF Die, bufVars, outVars, histVars, stackVars, CascadeStep, MetasKept, SameChunks, Whole

LEMMA OpenTagMetas ==
  ASSUME TypeInv, NEW raw \in Name, NEW prefix, NEW bare \in Name, OpenTag(raw, prefix, bare),
         texts' = texts, config' = config, status = "parsing"
  PROVE  CascadeStep
<1> DEFINE learnt == MetasAfter(bare) \ metanames
<1>1. learnt \in SUBSET Name /\ Top(metastack).baked \in Name
  BY LearnType, TopBakedType DEF TypeInv, TypeOK
<1>2. \/ FlushTo(Top(metastack).baked, metastack, learnt)
      \/ NoFlush(learnt) /\ metastack' = metastack
  BY DEF OpenTag
<1> HIDE DEF learnt
<1>3. CASE FlushTo(Top(metastack).baked, metastack, learnt)
  BY <1>1, <1>3 DEF MetasFlushed, CascadeStep, Whole
<1>4. CASE NoFlush(learnt) /\ metastack' = metastack
  BY <1>4, NoFlushSame DEF MetasKept, CascadeStep, Whole
<1> QED BY <1>2, <1>3, <1>4

LEMMA CloseTagMetas ==
  ASSUME TypeInv, NEW raw \in Name \ Reserved, NEW prefix \in Word, CloseTag(raw, prefix),
         texts' = texts, config' = config, status = "parsing"
  PROVE  CascadeStep
<1> DEFINE learnt == MetasAfter(Qualify(prefix, raw)) \ metanames
<1>1. learnt \in SUBSET Name /\ Top(metastack).baked \in Name
  BY QualifyType, LearnType, TopBakedType DEF TypeInv, TypeOK
<1>2. \/ FlushTo(Top(metastack).baked, Pop(metastack), learnt)
      \/ NoFlush(learnt) /\ metastack' = metastack
  BY DEF CloseTag
<1> HIDE DEF learnt
<1>3. CASE FlushTo(Top(metastack).baked, Pop(metastack), learnt)
  BY <1>1, <1>3 DEF MetasFlushed, CascadeStep, Whole
<1>4. CASE NoFlush(learnt) /\ metastack' = metastack
  BY <1>4, NoFlushSame DEF MetasKept, CascadeStep, Whole
<1> QED BY <1>2, <1>3, <1>4

LEMMA CascadeSteps == TypeInv /\ RouteInv /\ [Next]_vars => CascadeStep
<1> SUFFICES ASSUME TypeInv, RouteInv, [Next]_vars PROVE CascadeStep
  OBVIOUS
<1>1. ASSUME NEW e \in Elements, StartElement(e) PROVE CascadeStep
  BY <1>1 DEF StartElement, At, bufVars, outVars, stackVars, histVars, CascadeStep, MetasKept,
              SameChunks, Whole
<1>2. CASE XmlAttribute
  <2>1. CASE Die("croaked")
    BY <1>2, <2>1, DieMetas DEF XmlAttribute, At
  <2>2. CASE ~Die("croaked")
    <3>1. /\ BufferCharacters(TRUE) \/ UNCHANGED <<texts, meta_buf>>
          /\ UNCHANGED <<config, metastack, status>> /\ status = "parsing"
          /\ \E names : metabufs' = Grow(metabufs, names)
      BY <1>2, <2>2 DEF XmlAttribute, At, docVars, stackVars, bufVars
    <3>2. SameChunks
      BY <3>1, ChunksGrown DEF SameChunks
    <3> QED
      BY <3>1, <3>2 DEF CascadeStep, MetasRead, MetasKept, Whole
  <2> QED
    BY <2>1, <2>2
<1>3. CASE HtmlMeta
  <2>1. CASE Die("croaked")
    BY <1>3, <2>1, DieMetas DEF HtmlMeta, At
  <2>2. CASE ~Die("croaked")
    <3>1. /\ UNCHANGED <<config, meta_buf, metastack, texts, status>> /\ status = "parsing"
          /\ \E names : metabufs' = Grow(metabufs, names)
      BY <1>3, <2>2 DEF HtmlMeta, At, docVars, stackVars, bufVars, histVars
    <3>2. SameChunks
      BY <3>1, ChunksGrown DEF SameChunks
    <3> QED
      BY <3>1, <3>2 DEF CascadeStep, MetasKept, Whole
  <2> QED
    BY <2>1, <2>2
<1>4. CASE OpenValue
  <2> DEFINE raw  == AttrTag(pending)
             bare == Qualify(pending.prefix, raw)
  <2>0. status = "parsing"
    BY <1>4 DEF OpenValue, At
  <2>1. CASE OpenFails(raw, bare)
    BY <2>0, <2>1, DieMetas DEF OpenFails
  <2>2. CASE ~OpenFails(raw, bare)
    <3>1. OpenTag(raw, pending.prefix, bare) /\ UNCHANGED <<config, texts>>
      BY <1>4, <2>2 DEF OpenValue
    <3>2. bare \in Name /\ raw \in Name
      BY <1>4, PendingAttrType DEF OpenValue, At, TypeInv
    <3> HIDE DEF raw, bare
    <3> QED
      BY <2>0, <3>1, <3>2, OpenTagMetas
  <2> QED
    BY <2>1, <2>2
<1>5. CASE BufferValue \/ Characters
  BY <1>5 DEF BufferValue, Characters, At, docVars, outVars, stackVars, TypeInv, TypeOK,
              BufferType, CascadeStep, MetasRead, SameChunks, Whole
<1>6. CASE CloseValue
  <2>0. status = "parsing"
    BY <1>6 DEF CloseValue, At
  <2>1. CASE CloseFails(AttrTag(pending), pending.prefix)
    BY <2>0, <2>1, DieMetas DEF CloseFails
  <2>2. CASE ~CloseFails(AttrTag(pending), pending.prefix)
    <3>1. CloseTag(AttrTag(pending), pending.prefix) /\ UNCHANGED <<config, texts>>
      BY <1>6, <2>2 DEF CloseValue
    <3>2. AttrTag(pending) \in Name \ Reserved /\ pending.prefix \in Word
      BY <1>6, PendingAttrType DEF CloseValue, At, TypeInv
    <3> QED
      BY <2>0, <3>1, <3>2, CloseTagMetas
  <2> QED
    BY <2>1, <2>2
<1>7. CASE PushElement
  <2>1. pending \in Elements /\ status = "parsing"
    BY <1>7 DEF PushElement, At, TypeInv, PhaseFacts
  <2>2. SwishTag(pending) \in Name /\ NoTag \in Name /\ pending.raw \in Name
    BY <2>1, SwishTagType, ReservedNames, ElementFacts DEF TypeInv, TypeOK
  <2>3. PICK bare \in Name : \/ OpenFails(pending.raw, bare)
                             \/ /\ OpenTag(pending.raw, pending.prefix, bare)
                                /\ UNCHANGED <<config, texts>>
    BY <1>7, <2>2 DEF PushElement, histVars
  <2>4. CASE OpenFails(pending.raw, bare)
    BY <2>1, <2>4, DieMetas DEF OpenFails
  <2>5. CASE ~OpenFails(pending.raw, bare)
    BY <2>1, <2>2, <2>3, <2>5, OpenTagMetas
  <2> QED
    BY <2>4, <2>5
<1>8. CASE EndElement
  <2> DEFINE raw    == Top(open).raw
             prefix == Top(open).prefix
  <2>0. status = "parsing"
    BY <1>8 DEF EndElement, At
  <2>1. CASE CloseFails(raw, prefix)
    BY <2>0, <2>1, DieMetas DEF CloseFails
  <2>2. CASE ~CloseFails(raw, prefix)
    <3>1. CloseTag(raw, prefix) /\ UNCHANGED <<config, texts>>
      BY <1>8, <2>2 DEF EndElement
    <3>2. Top(open) \in OpenElement
      BY <1>8, TopType DEF EndElement, TypeInv, TypeOK, DocType
    <3>3. raw \in Name \ Reserved /\ prefix \in Word
      BY <3>2 DEF OpenElement
    <3> HIDE DEF raw, prefix
    <3> QED
      BY <2>0, <3>1, <3>3, CloseTagMetas
  <2> QED
    BY <2>1, <2>2
<1>9. CASE CommentNoindex \/ CommentIndex \/ CommentOther
  BY <1>9 DEF CommentNoindex, CommentIndex, CommentOther, At, bufVars, outVars, stackVars,
              CascadeStep, MetasKept, SameChunks, Whole
<1>10. CASE EndDocument
  <2>1. /\ UNCHANGED <<config, open, metastack, texts>> /\ status = "parsing" /\ status' = "done"
        /\ FlushTo(SwishDefault, metastack, {}) /\ {} \in SUBSET Name /\ SwishDefault \in Name
    BY <1>10, ReservedNames DEF EndDocument, At, stackVars, histVars
  <2>2. open = << >> => SwishDefault = Top(metastack).baked
    <3> SUFFICES ASSUME open = << >> PROVE SwishDefault = Top(metastack).baked
      OBVIOUS
    <3>1. InnermostMeta = Top(metastack).baked
      BY TopIsInnermost DEF RouteInv
    <3>2. 1..Len(open) = {}
      BY EmptySeq
    <3> QED BY <3>1, <3>2 DEF InnermostMeta, Watching
  <2> QED BY <2>1, <2>2 DEF CascadeStep, MetasFlushed, Whole
<1>11. CASE UNCHANGED vars
  BY <1>11 DEF vars, docVars, bufVars, outVars, histVars, stackVars, CascadeStep, MetasKept,
               SameChunks, Whole
<1> QED
  BY <1>1, <1>2, <1>3, <1>4, <1>5, <1>6, <1>7, <1>8, <1>9, <1>10, <1>11 DEF Next, Finished

(***************************************************************************)
(* The invariant: a word that waits stands in just the metanames on the    *)
(* stack; one that has been flushed is where it should be.                 *)
(***************************************************************************)
Due(r, n) == IF n = MetaStoredAs(texts[r].owner) THEN 1 ELSE TimesAround(r, n)

WaitingAround ==
  \A r \in KeptTexts : Waits(r) => \A n \in Name : TimesAround(r, n) = TimesOn(metastack, n)
CascadeStored ==
  \A n \in Name, r \in Runs :
    IF r \in KeptTexts /\ ~Waits(r)
    THEN n \notin Replaced(r) => Cardinality(PlacesIn(Chunks(metabufs, n), r)) = Due(r, n)
    ELSE PlacesIn(Chunks(metabufs, n), r) = {}
CascadeInv == CascadeMetaContext => WaitingAround /\ (Whole => CascadeStored)

LEMMA CascadeInit == Init => CascadeInv
<1> SUFFICES ASSUME Init PROVE CascadeInv
  OBVIOUS
<1>1. texts = << >> /\ Len(texts) = 0 /\ KeptTexts = {}
  BY EmptySeq DEF Init, KeptTexts
<1>2. \A n : Chunks(metabufs, n) = << >>
  BY DEF Init, Chunks
<1>3. \A r : PlacesIn(<< >>, r) = {}
  BY EmptySeq DEF PlacesIn
<1> QED BY <1>1, <1>2, <1>3 DEF CascadeInv, WaitingAround, CascadeStored

LEMMA SameDue ==
  ASSUME config' = config, NEW r, texts'[r] = texts[r]
  PROVE  /\ Replaced(r)' = Replaced(r)
         /\ \A n : TimesAround(r, n)' = TimesAround(r, n) /\ Due(r, n)' = Due(r, n)
<1>1. \A n : MetaStoredAs(n)' = MetaStoredAs(n)
  BY DEF MetaStoredAs, MetaAlias
<1>2. MetasAround(r)' = MetasAround(r)
  BY DEF MetasAround
<1>3. \A n : TimesAround(r, n)' = TimesAround(r, n)
  BY <1>2 DEF TimesAround
<1> QED BY <1>1, <1>3 DEF Replaced, Due

\* What a flush writes of a waiting word.
LEMMA FlushedDue ==
  ASSUME TypeInv, RouteInv, WaitingAround, CascadeMetaContext,
         NEW stack \in {metastack, Pop(metastack)}, NEW r \in KeptTexts, Waits(r), r # BUMP,
         NEW n \in Name \ Replaced(r)
  PROVE  Count(MetaTimes(Top(metastack).baked, stack), n) = Due(r, n)
<1> DEFINE name == Top(metastack).baked
<1>1. texts[r].owner = name
  BY DEF Waits, RouteInv, WaitingOwner
<1>2. Count(MetaTimes(name, stack), n) = IF n = MetaStoredAs(name) THEN 1 ELSE TimesOn(stack, n)
  BY MetaTimesCount
<1>3. TimesAround(r, n) = TimesOn(metastack, n)
  BY DEF WaitingAround
<1>4. CASE n = MetaStoredAs(name)
  BY <1>1, <1>2, <1>4 DEF Due
<1>5. CASE n # MetaStoredAs(name)
  <2>1. n # name
    BY <1>1, <1>5 DEF Replaced
  <2>2. TimesOn(stack, n) = TimesOn(metastack, n)
    <3>1. CASE stack = metastack
      BY <3>1
    <3>2. CASE stack = Pop(metastack)
      <4>1. metastack \in Seq(Entries) /\ metastack # << >>
        BY DEF TypeInv, TypeOK, StackType, Bases
      <4>2. TimesOn(metastack, n) = TimesOn(Pop(metastack), n) + 0
        BY <2>1, <4>1, PopCount
      <4>3. TimesOn(Pop(metastack), n) \in Nat
        <5> DEFINE rest == Pop(metastack)
                   S == {i \in 1..Len(rest) : rest[i].baked = n}
        <5>1. Len(rest) \in Nat
          BY <4>1, PopType, LenProperties
        <5>2. IsFiniteSet(1..Len(rest)) /\ S \subseteq 1..Len(rest)
          BY <5>1, FS_Interval
        <5>3. Cardinality(S) \in Nat
          BY <5>2, FS_Subset, FS_CardinalityType
        <5> QED BY <5>3 DEF TimesOn
      <4> QED BY <3>2, <4>2, <4>3
    <3> QED BY <3>1, <3>2
  <2> QED BY <1>1, <1>2, <1>3, <1>5, <2>2 DEF Due
<1> QED BY <1>4, <1>5

LEMMA FlushedMetas ==
  ASSUME TypeInv, WordInv, StoreInv, RouteInv, CascadeInv, CascadeMetaContext, MetasFlushed,
         config' = config, Whole'
  PROVE  CascadeStored'
<1>1. PICK stack \in {metastack, Pop(metastack)}, learnt \in SUBSET Name :
        FlushTo(Top(metastack).baked, stack, learnt)
  BY DEF MetasFlushed
<1> DEFINE times == MetaTimes(Top(metastack).baked, stack)
<1>2. /\ meta_buf' = << >> /\ Len(meta_buf') = 0 /\ texts' = texts /\ KeptTexts' = KeptTexts
      /\ WaitingAround /\ CascadeStored
  BY <1>1, EmptySeq DEF FlushTo, MetasFlushed, KeptTexts, CascadeInv
<1>3. stack \in Seq(Entries) /\ Top(metastack).baked \in Name
  <2>1. metastack \in Seq(Entries)
    BY DEF TypeInv, TypeOK, StackType
  <2> QED BY <2>1, PopType, TopBakedType
<1>4. /\ Len(texts) \in Nat /\ Len(texts) <= MaxText /\ MaxText \in Nat /\ Len(meta_buf) \in Nat
      /\ Len(meta_buf) <= MaxText * 2
  <2>1. /\ Len(texts) \in Nat /\ Len(texts) <= MaxText /\ Len(meta_buf) \in Nat /\ MaxText \in Nat
    BY LenProperties, BoundAssumption DEF TypeInv, TypeOK, HistoryType, BufferType, Waiting
  <2>2. Len(meta_buf) <= 2 * Len(texts)
    BY DEF StoreInv
  <2>3. \A x, y, z \in Nat : z <= 2 * x /\ x <= y => z <= y * 2
    OBVIOUS
  <2> QED BY <2>1, <2>2, <2>3
<1>5. ASSUME NEW n
      PROVE  /\ Chunks(metabufs, n) \in Seq(Chunk) /\ meta_buf \in Chunk /\ Count(times, n) \in Nat
             /\ meta_buf = << >> => Chunks(metabufs', n) = Chunks(metabufs, n)
             /\ meta_buf # << >> =>
                  Chunks(metabufs', n) = Chunks(metabufs, n) \o Copies(meta_buf, Count(times, n))
  BY <1>1, <1>3, FlushedChunks
<1> HIDE DEF times
<1>6. \A r : ~Waits(r)'
  BY <1>2 DEF Waits
<1>7. ASSUME NEW n \in Name, NEW r \in Runs
      PROVE  IF r \in KeptTexts
             THEN n \notin Replaced(r) => Cardinality(PlacesIn(Chunks(metabufs', n), r)) = Due(r, n)
             ELSE PlacesIn(Chunks(metabufs', n), r) = {}
  <2>l. PICK s \in Seq(Chunk), k \in Nat, ch \in Chunk :
          s = Chunks(metabufs, n) /\ k = Count(times, n) /\ ch = meta_buf
    BY <1>5
  <2>m. PICK new : new = Chunks(metabufs', n)
    OBVIOUS
  <2>1. IF r \in KeptTexts /\ ~Waits(r)
        THEN n \notin Replaced(r) => Cardinality(PlacesIn(s, r)) = Due(r, n)
        ELSE PlacesIn(s, r) = {}
    BY <1>2, <2>l DEF CascadeStored
  <2>2. r \in Nat /\ r # BUMP
    BY <1>4 DEF Runs, BUMP
  <2>3. CASE ~Waits(r)
    <3>1. PlacesIn(new, r) = PlacesIn(s, r)
      <4>1. CASE meta_buf = << >>
        BY <1>5, <2>l, <2>m, <4>1
      <4>2. CASE meta_buf # << >>
        <5>1. new = s \o Copies(ch, k)
          BY <1>5, <2>l, <2>m, <4>2
        <5>2. \A j \in 1..Len(ch) : ch[j] # r
          BY <2>3, <2>l DEF Waits
        <5>3. \A c, i : StandsAt(new, r, c, i) <=> StandsAt(s, r, c, i)
          BY <5>1, <5>2, PlacesJoined
        <5> QED BY <5>3, SamePlaces
      <4> QED BY <4>1, <4>2
    <3> QED BY <2>1, <2>3, <2>m, <3>1
  <2>4. CASE Waits(r)
    <3>1. PICK i \in 1..Len(meta_buf) : meta_buf[i] = r
      BY <2>4 DEF Waits
    <3>2. r \in KeptTexts
      BY <2>2, <3>1 DEF WordInv, WaitingInOrder
    <3>3. \A j \in 1..Len(meta_buf) : meta_buf[j] = r => j = i
      BY <1>4, <2>2, <3>1 DEF WordInv, WaitingInOrder
    <3>4. i \in 1..Len(ch) /\ ch[i] = r /\ i \in 1..MaxText * 2
          /\ \A j \in 1..Len(ch) : ch[j] = r => j = i
      BY <1>4, <2>l, <3>1, <3>3
    <3>5. new = s \o Copies(ch, k)
      <4>1. ch # << >>
        BY <3>4, EmptySeq
      <4> QED BY <1>5, <2>l, <2>m, <4>1
    <3>6. PlacesIn(s, r) = {}
      BY <2>1, <2>4
    <3>7. Cardinality(PlacesIn(new, r)) = k
      BY <3>4, <3>5, <3>6, PlacesCount
    <3>8. n \notin Replaced(r) => k = Due(r, n)
      BY <1>2, <2>2, <2>4, <2>l, <3>2, FlushedDue DEF times
    <3> QED BY <2>m, <3>2, <3>7, <3>8
  <2> QED BY <2>3, <2>4
<1> SUFFICES ASSUME NEW n \in Name, NEW r \in Runs
             PROVE  IF r \in KeptTexts
                    THEN n \notin Replaced(r)' =>
                           Cardinality(PlacesIn(Chunks(metabufs', n), r)) = Due(r, n)'
                    ELSE PlacesIn(Chunks(metabufs', n), r) = {}
  BY <1>2, <1>6 DEF CascadeStored, Chunks
<1>8. Replaced(r)' = Replaced(r) /\ Due(r, n)' = Due(r, n)
  BY <1>2, SameDue
<1> QED BY <1>7, <1>8

\* The metanames a word is read in are those on the stack.
LEMMA ReadAround ==
  ASSUME TypeInv, StacksFollow, NEW around, around = <<SwishDefault>> \o OpenMetas, NEW n
  PROVE  Cardinality({k \in 1..Len(around) : around[k] = n /\ n # NoTag}) = TimesOn(metastack, n)
<1>1. Follows(open, metastack, OpenMetas) /\ metastack[1].baked = SwishDefault
  BY DEF StacksFollow, MetastackFollowsDocument
<1>2. OpenMetas \in Seq(Name) /\ Len(open) \in Nat /\ Len(metastack) \in Nat
  BY InnermostType, LenProperties DEF TypeInv, TypeOK, DocType, StackType
<1>3. Len(OpenMetas) = Len(open)
  BY <1>2, LenProperties DEF OpenMetas
<1>4. PICK o, names, st : o = open /\ names = OpenMetas /\ st = metastack
  OBVIOUS
<1>5. Cardinality({k \in 1..Len(around) : around[k] = n /\ n # NoTag}) = TimesOn(st, n)
  BY <1>1, <1>2, <1>3, <1>4, AroundCount
<1> QED BY <1>4, <1>5

LEMMA ReadMetas ==
  ASSUME TypeInv, WordInv, RouteInv, CascadeInv, CascadeMetaContext, MetasRead, config' = config
  PROVE  WaitingAround' /\ CascadeStored'
<1> DEFINE run == Len(texts) + 1
           text == [owner |-> InnermostMeta, props |-> OpenProps, metas |-> OpenMetas,
                    segment |-> segment, noindex |-> noindex,
                    kept |-> ignore_content = 0]
<1>1. PICK bump \in BOOLEAN : BufferCharacters(bump)
  BY DEF MetasRead
<1>2. /\ texts' = Append(texts, text) /\ text \in Text /\ text.metas = OpenMetas
      /\ text.kept = (ignore_content = 0)
  BY <1>1, InnermostType DEF BufferCharacters, Text, TypeInv, TypeOK, HistoryType
<1> HIDE DEF text
<1>3. /\ Len(texts) \in Nat /\ Len(texts') = run /\ texts'[run] = text
      /\ \A r \in 1..Len(texts) : texts'[r] = texts[r]
  BY <1>2, AppendProperties, LenProperties DEF TypeInv, TypeOK, HistoryType
<1>4. KeptTexts' = IF ignore_content = 0 THEN KeptTexts \cup {run} ELSE KeptTexts
  <2>1. 1..Len(texts') = 1..Len(texts) \cup {run} /\ run \notin 1..Len(texts)
    BY <1>3
  <2>2. \A r \in 1..Len(texts) : texts'[r].kept = texts[r].kept
    BY <1>3
  <2>3. texts'[run].kept = (ignore_content = 0)
    BY <1>2, <1>3
  <2> HIDE DEF run
  <2> QED BY <2>1, <2>2, <2>3, Zenon DEF KeptTexts
<1>5. \A r \in KeptTexts : r \in Nat /\ r < run /\ texts'[r] = texts[r]
  BY <1>3 DEF KeptTexts
<1>6. /\ metastack' = metastack /\ \A n : Chunks(metabufs', n) = Chunks(metabufs, n)
      /\ meta_buf \in Waiting /\ Len(meta_buf) \in Nat /\ ignore_content \in Nat
      /\ WaitingAround /\ CascadeStored
  BY LenProperties DEF MetasRead, SameChunks, TypeInv, TypeOK, BufferType, Waiting, CascadeInv
<1>x. PICK x : x = run
  OBVIOUS
<1>7. /\ ignore_content = 0 => Waits(x)'
      /\ \A r \in KeptTexts : Waits(r)' <=> Waits(r)
  <2>1. CASE ignore_content # 0
    <3>1. meta_buf' = meta_buf
      BY <1>1, <1>6, <2>1 DEF BufferCharacters
    <3> QED BY <2>1, <3>1 DEF Waits
  <2>2. CASE ignore_content = 0
    <3>1. PICK m \in Nat :
            /\ Len(meta_buf') = m + 1 /\ m >= Len(meta_buf) /\ m <= Len(meta_buf) + 1
            /\ meta_buf'[m + 1] = x
            /\ \A i \in 1..Len(meta_buf) : meta_buf'[i] = meta_buf[i]
            /\ \A i \in 1..m : i > Len(meta_buf) => meta_buf'[i] = BUMP
      <4>1. PICK b, new : b = meta_buf /\ new = meta_buf'
        OBVIOUS
      <4>2. b \in Waiting /\ new = Buffered(b, x, bump)
        BY <1>1, <1>6, <1>x, <2>2, <4>1 DEF BufferCharacters
      <4>3. \E n \in Nat :
              /\ Len(new) = n + 1 /\ n >= Len(b) /\ n <= Len(b) + 1
              /\ new[n + 1] = x
              /\ \A i \in 1..Len(b) : new[i] = b[i]
              /\ \A i \in 1..n : i > Len(b) => new[i] = BUMP
        BY <4>2, BufferedForm
      <4> QED BY <4>1, <4>3
    <3>2. Waits(x)'
      <4>1. m + 1 \in 1..Len(meta_buf')
        BY <3>1
      <4> QED BY <3>1, <4>1 DEF Waits
    <3>3. ASSUME NEW r \in KeptTexts, Waits(r) PROVE Waits(r)'
      <4>1. PICK i \in 1..Len(meta_buf) : meta_buf[i] = r
        BY <3>3 DEF Waits
      <4>2. i \in 1..Len(meta_buf') /\ meta_buf'[i] = r
        BY <1>6, <3>1, <4>1
      <4> QED BY <4>2 DEF Waits
    <3>4. ASSUME NEW r \in KeptTexts, Waits(r)' PROVE Waits(r)
      <4>1. PICK i \in 1..Len(meta_buf') : meta_buf'[i] = r
        BY <3>4 DEF Waits
      <4>2. r # BUMP /\ r # x
        BY <1>3, <1>5, <1>x DEF KeptTexts, BUMP
      <4>3. i \in 1..Len(meta_buf) \/ (i \in 1..m /\ i > Len(meta_buf)) \/ i = m + 1
        BY <1>6, <3>1
      <4>4. i \in 1..Len(meta_buf) /\ meta_buf[i] = r
        BY <3>1, <4>1, <4>2, <4>3
      <4> QED BY <4>4 DEF Waits
    <3> QED BY <3>2, <3>3, <3>4
  <2> QED BY <2>1, <2>2
<1>8. WaitingAround'
  <2> SUFFICES ASSUME NEW r \in KeptTexts', Waits(r)', NEW n \in Name
               PROVE  TimesAround(r, n)' = TimesOn(metastack, n)
    BY <1>6 DEF WaitingAround, TimesOn
  <2>1. CASE r = run
    <3>1. MetasAround(r)' = <<SwishDefault>> \o OpenMetas
      BY <1>2, <1>3, <2>1 DEF MetasAround
    <3>2. PICK around : around = MetasAround(r)'
      OBVIOUS
    <3>3. Cardinality({k \in 1..Len(around) : around[k] = n /\ n # NoTag}) = TimesOn(metastack, n)
      BY <3>1, <3>2, ReadAround DEF RouteInv
    <3> QED BY <3>2, <3>3 DEF TimesAround
  <2>2. CASE r \in KeptTexts
    <3>1. TimesAround(r, n) = TimesOn(metastack, n)
      BY <1>6, <1>7, <2>2 DEF WaitingAround
    <3>2. TimesAround(r, n)' = TimesAround(r, n)
      BY <1>5, <2>2, SameDue
    <3> QED BY <3>1, <3>2
  <2> QED BY <1>4, <2>1, <2>2
<1>9. CascadeStored'
  <2> SUFFICES ASSUME NEW n \in Name, NEW r \in Runs
               PROVE  IF r \in KeptTexts' /\ ~Waits(r)'
                      THEN n \notin Replaced(r)' =>
                             Cardinality(PlacesIn(Chunks(metabufs', n), r)) = Due(r, n)'
                      ELSE PlacesIn(Chunks(metabufs', n), r) = {}
    BY DEF CascadeStored, Chunks
  <2>1. IF r \in KeptTexts /\ ~Waits(r)
        THEN n \notin Replaced(r) => Cardinality(PlacesIn(Chunks(metabufs', n), r)) = Due(r, n)
        ELSE PlacesIn(Chunks(metabufs', n), r) = {}
    BY <1>6 DEF CascadeStored
  <2>2. CASE r \in KeptTexts
    <3>1. r \in KeptTexts' /\ (Waits(r)' <=> Waits(r))
      BY <1>4, <1>7, <2>2
    <3>2. Replaced(r)' = Replaced(r) /\ Due(r, n)' = Due(r, n)
      BY <1>5, <2>2, SameDue
    <3> QED BY <2>1, <2>2, <3>1, <3>2
  <2>3. CASE r \notin KeptTexts
    <3>1. r \in KeptTexts' => Waits(r)'
      BY <1>4, <1>7, <1>x, <2>3
    <3> QED BY <2>1, <2>3, <3>1
  <2> QED BY <2>2, <2>3
<1> QED BY <1>8, <1>9

LEMMA CascadeNext ==
  TypeInv /\ WordInv /\ StoreInv /\ RouteInv /\ CascadeInv /\ [Next]_vars => CascadeInv'
<1> SUFFICES ASSUME TypeInv, WordInv, StoreInv, RouteInv, CascadeInv, [Next]_vars,
                    CascadeMetaContext'
             PROVE  WaitingAround' /\ (Whole' => CascadeStored')
  BY DEF CascadeInv
<1>1. config' = config /\ (MetasFlushed \/ MetasRead \/ MetasKept)
  BY CascadeSteps DEF CascadeStep
<1>2. CascadeMetaContext
  BY <1>1 DEF CascadeMetaContext
<1>3. CASE MetasFlushed
  <2>1. meta_buf' = << >>
    BY <1>3 DEF MetasFlushed, FlushTo
  <2>2. \A r : ~Waits(r)'
    BY <2>1, EmptySeq DEF Waits
  <2> QED BY <1>1, <1>2, <1>3, <2>2, FlushedMetas DEF WaitingAround
<1>4. CASE MetasRead
  BY <1>1, <1>2, <1>4, ReadMetas
<1>5. CASE MetasKept
  <2>1. /\ UNCHANGED <<meta_buf, metastack, texts>> /\ (Whole' => Whole)
        /\ \A n : Chunks(metabufs', n) = Chunks(metabufs, n)
        /\ WaitingAround /\ (Whole => CascadeStored)
    BY <1>2, <1>5 DEF MetasKept, SameChunks, CascadeInv
  <2>2. KeptTexts' = KeptTexts /\ \A r : Waits(r)' = Waits(r)
    BY <2>1 DEF KeptTexts, Waits
  <2>3. \A r, n : /\ Replaced(r)' = Replaced(r) /\ Due(r, n)' = Due(r, n)
                  /\ TimesAround(r, n)' = TimesAround(r, n)
    BY <1>1, <2>1, SameDue
  <2>4. WaitingAround'
    BY <2>1, <2>2, <2>3 DEF WaitingAround, TimesOn
  <2>5. ASSUME Whole' PROVE CascadeStored'
    <3> SUFFICES ASSUME NEW n \in Name, NEW r \in Runs
                 PROVE  IF r \in KeptTexts /\ ~Waits(r)
                        THEN n \notin Replaced(r) =>
                               Cardinality(PlacesIn(Chunks(metabufs', n), r)) = Due(r, n)
                        ELSE PlacesIn(Chunks(metabufs', n), r) = {}
      BY <2>2, <2>3 DEF CascadeStored, Chunks
    <3> QED BY <2>1, <2>5 DEF CascadeStored
  <2> QED BY <2>4, <2>5
<1> QED BY <1>1, <1>3, <1>4, <1>5

LEMMA CascadeHolds ==
  ASSUME TypeInv, CascadeInv PROVE CascadeFollowsDocument
<1> SUFFICES ASSUME CascadeMetaContext, Whole, NEW r \in KeptTexts, Uses(meta_buf, r) = 0,
                    NEW n \in DOMAIN metabufs \ Replaced(r)
             PROVE  Occurs(metabufs, n, r) = Due(r, n)
  BY DEF CascadeFollowsDocument, Whole, Due
<1>1. n \in Name /\ r \in Runs
  <2>1. n \in Name
    BY DEF TypeInv, TypeOK, OutType, BufsOK
  <2>2. Len(texts) \in Nat /\ Len(texts) <= MaxText /\ MaxText \in Nat /\ r \in 1..Len(texts)
    BY LenProperties, BoundAssumption DEF TypeInv, TypeOK, HistoryType, KeptTexts
  <2> QED BY <2>1, <2>2 DEF Runs
<1>2. ~Waits(r)
  <2> DEFINE uses == {i \in 1..Len(meta_buf) : meta_buf[i] = r}
  <2>1. Len(meta_buf) \in Nat
    BY LenProperties DEF TypeInv, TypeOK, BufferType, Waiting
  <2>2. IsFiniteSet(1..Len(meta_buf)) /\ uses \subseteq 1..Len(meta_buf)
    BY <2>1, FS_Interval
  <2>3. IsFiniteSet(uses) /\ Cardinality(uses) = 0
    BY <2>2, FS_Subset DEF Uses
  <2>4. uses = {}
    BY <2>3, FS_EmptySet
  <2> QED BY <2>4 DEF Waits
<1>3. Occurs(metabufs, n, r) = Cardinality(PlacesIn(Chunks(metabufs, n), r))
  BY OccursPlaces
<1> QED BY <1>1, <1>2, <1>3 DEF CascadeInv, CascadeStored

\* With CascadeMetaContext flush_buffer writes a word into the buffer of every metaname
\* around it, as often as that name is around it, and into no other, whatever was
\* flushed under which stack; as long as pop_tag_stack_on_match pops what was pushed.
THEOREM CascadeCorrect == Spec /\ []NoClash => []CascadeFollowsDocument
<1>1. Init => CascadeInv
  BY CascadeInit
<1>2. TypeInv /\ WordInv /\ StoreInv /\ RouteInv /\ CascadeInv /\ [Next]_vars => CascadeInv'
  BY CascadeNext
<1>3. TypeInv /\ CascadeInv => CascadeFollowsDocument
  BY CascadeHolds
<1> QED BY <1>1, <1>2, <1>3, RouteAlways, StoreAlways, PTL DEF Spec

=============================================================================
