--------------------------- MODULE DocParserProps ---------------------------
(***************************************************************************)
(* What the SAX handlers of DocParser owe the document: no word lost or    *)
(* doubled, each word under the metaname and the properties it stands in,  *)
(* no phrase across a tag boundary, noindex regions and nothing else       *)
(* hidden, and no metaname lookup that fails.                              *)
(***************************************************************************)
EXTENDS DocParser

Runs    == 1..MaxText                    \* the numbers of the runs of characters
Chunk   == Seq({SPACE, BUMP} \cup Runs)
Waiting == Seq({BUMP} \cup Runs)
Entries == [raw: Name, baked: Name, by: Nat]
OpenElement == [raw: Name \ Reserved, prefix: Word, meta: Name, prop: Name]
Text == [owner: Name, props: Seq(Name), metas: Seq(Name), segment: Nat,
         noindex: Nat, kept: BOOLEAN]

DocType ==
  /\ config \in Configs
  /\ open \in Seq(OpenElement) /\ Len(open) <= MaxDepth
  /\ events \in 0..MaxEvents
  /\ status \in {"parsing", "done", "croaked", "crashed"}
  /\ phase \in {"sax", "attr", "open", "value", "close", "push"}
  /\ pending \in Elements \cup {NoAttr}

NamesType ==
  /\ MetaNames \subseteq metanames /\ metanames \subseteq Name
  /\ Properties \subseteq properties /\ properties \subseteq Name

StackType ==
  /\ metastack \in Seq(Entries) /\ propstack \in Seq(Entries)
  /\ domstack \in Seq([raw: Name, baked: Name, context: Name])

BufferType ==
  /\ meta_buf \in Waiting /\ prop_buf \in Waiting
  /\ ignore_content \in Nat /\ bump_word \in BOOLEAN

BufsOK(bufs) == \A n \in DOMAIN bufs : n \in Name /\ bufs[n] \in Seq(Chunk)

OutType ==
  /\ BufsOK(metabufs) /\ BufsOK(propbufs)
  /\ tokens \subseteq [meta: Name, text: Runs, pos: Nat] /\ pos \in Nat

HistoryType ==
  /\ texts \in Seq(Text) /\ Len(texts) <= MaxText
  /\ noindex \in Nat /\ segment \in Nat

\* The parser's state has its types: the bounds of the document and the
\* reserved names included, whatever a document teaches the configuration.
TypeOK ==
  DocType /\ NamesType /\ StackType /\ BufferType /\ OutType /\ HistoryType

-----------------------------------------------------------------------------
(* The stacks.                                                             *)

\* Above its base a stack holds, in document order, exactly the open elements
\* that were pushed on it, under the names they were given.
Follows(opened, stack, names) ==
  /\ stack # << >> /\ stack[1].by = 0
  /\ \A i \in 2..Len(stack) :
       /\ stack[i].by \in 1..Len(opened) /\ stack[i].raw = opened[stack[i].by].raw
       /\ stack[i].baked = names[stack[i].by] /\ names[stack[i].by] # NoTag
  /\ \A i, j \in 1..Len(stack) : i < j => stack[i].by < stack[j].by
  /\ \A k \in 1..Len(opened) : names[k] # NoTag => \E i \in 2..Len(stack) : stack[i].by = k

\* Each end tag pops from the metastack what its own start tag pushed and
\* nothing else (pop_tag_stack_on_match).
MetastackFollowsDocument == Follows(open, metastack, OpenMetas)

\* The same for the property stack.
PropstackFollowsDocument == Follows(open, propstack, OpenProps)

\* flush_buffer never follows a metaname that the configuration does not
\* hold: every name it is given was pushed because it is one.
NoFailedLookup == status # "crashed"

-----------------------------------------------------------------------------
(* Routing of the words.                                                   *)

KeptTexts == {r \in 1..Len(texts) : texts[r].kept}
Uses(chunk, r) == Cardinality({i \in 1..Len(chunk) : chunk[i] = r})
Occurs(bufs, n, r) ==
  Cardinality({ci \in {<<c, i>> : c \in 1..Len(Chunks(bufs, n)), i \in 1..MaxText * 2} :
     ci[2] \in 1..Len(bufs[n][ci[1]]) /\ bufs[n][ci[1]][ci[2]] = r})
TokensOf(r) == {t \in tokens : t.text = r}
Complete == status = "done" /\ open = << >>

\* Every word that buffer_characters accepts is at any time in exactly one
\* place, waiting in meta_buf or in the token list, once; and none waits after
\* the end of the document.
EveryWordOnce ==
  /\ Tokenize => \A r \in KeptTexts : Uses(meta_buf, r) + Cardinality(TokensOf(r)) = 1
  /\ \A t \in tokens : t.text \in KeptTexts
  /\ status = "done" => meta_buf = << >>

\* The token of a word bears the metaname of the innermost watched element
\* open when the word was read (its alias_for, if it has one).  Words cut off
\* by a truncated document go to swishdefault.
RoutedToInnermost ==
  \A t \in tokens :
    \/ t.meta = MetaStoredAs(texts[t.text].owner)
    \/ status = "done" /\ open # << >> /\ t.meta = MetaStoredAs(SwishDefault)

\* At the end of a well-formed document a word stands in the buffer of a
\* property once for every open element of that property it was in: each time
\* under the alias_for target of the property, if it has one.
PropertiesHoldTheirText ==
  Complete => \A n \in DOMAIN propbufs, r \in KeptTexts :
    Occurs(propbufs, n, r) =
      Cardinality({i \in 1..Len(texts[r].props) :
        texts[r].props[i] # NoTag /\ PropStoredAs(texts[r].props[i]) = n})

\* The named buffer and the token list agree on the metanames of a word.
BuffersMatchTokens ==
  Tokenize /\ ~CascadeMetaContext => \A n \in DOMAIN metabufs, r \in KeptTexts :
    Occurs(metabufs, n, r) = Cardinality({t \in TokensOf(r) : t.meta = n})

\* With CascadeMetaContext a flushed word is in the buffer of every metaname it
\* stood in, and in no other: once in that of the innermost one (or of its
\* alias_for), and in each other as often as open elements of that name, or
\* swishdefault, were around it, so twice in that of a name that occurs twice.
\* Left out: the name that an alias_for replaces, which an end tag has popped
\* already, and truncated documents.
MetasAround(r) == <<SwishDefault>> \o texts[r].metas
TimesAround(r, n) ==
  Cardinality({k \in 1..Len(MetasAround(r)) : MetasAround(r)[k] = n /\ n # NoTag})
Replaced(r) == {texts[r].owner} \ {MetaStoredAs(texts[r].owner)}
CascadeFollowsDocument ==
  CascadeMetaContext /\ (status = "done" => open = << >>) =>
    \A r \in KeptTexts : Uses(meta_buf, r) = 0 =>
      \A n \in DOMAIN metabufs \ Replaced(r) :
        Occurs(metabufs, n, r) =
          IF n = MetaStoredAs(texts[r].owner) THEN 1 ELSE TimesAround(r, n)

-----------------------------------------------------------------------------
(* Positions and phrases.                                                  *)

\* Token positions follow the order of the words in the document and never
\* repeat, whatever is flushed when.
PositionsFollowDocument ==
  \A t, u \in tokens : t.text < u.text => t.pos < u.pos

\* Two words side by side in one chunk, with no BUMP between them, are not
\* separated in the document by a tag, nor by a comment, unless it is noindex or
\* index: mycomments returns from those two before it sets bump_word.
Barriered(chunk) ==
  \A i \in 1..Len(chunk) - 1 :
    chunk[i] # BUMP /\ chunk[i + 1] # BUMP =>
      texts[chunk[i]].segment = texts[chunk[i + 1]].segment

\* No phrase in a named buffer or in a waiting buffer crosses a tag, an attribute
\* or an ordinary comment.  Over noindex and index comments words do stand side by
\* side, although mycomments calls its bump "always done to prevent phrase matching".
NoPhraseAcrossBoundary ==
  /\ Barriered(meta_buf) /\ Barriered(prop_buf)
  /\ \A n \in DOMAIN metabufs : \A c \in 1..Len(metabufs[n]) : Barriered(metabufs[n][c])

-----------------------------------------------------------------------------
(* Hidden text.                                                            *)

\* The words between <!-- noindex --> and its matching <!-- index --> are
\* never buffered.
HiddenTextStaysHidden ==
  \A r \in 1..Len(texts) : texts[r].noindex > 0 => ~texts[r].kept

\* No word outside such a region is dropped.
VisibleTextIsKept ==
  \A r \in 1..Len(texts) : texts[r].noindex = 0 => texts[r].kept

\* In HTML nothing but these comments hides text, once a <meta> is dealt with:
\* bake_tag remembers ignore_content before its content and restores it.
OnlyCommentsHide == IsHTML /\ phase = "sax" => ignore_content = noindex

-----------------------------------------------------------------------------
(* The undefined-tag switches.                                             *)

\* With UndefinedMetaTags auto or autoall every open XML element has a metaname
\* of its own, an attribute's pseudo element too, and so has the content of an
\* HTML <meta> while it is read.
AutoWatchesEveryElement ==
  UndefinedMetaTags \in {"auto", "autoall"} =>
    IF IsHTML THEN phase \in {"value", "close"} => Top(open).meta # NoTag
              ELSE \A i \in 1..Len(open) : open[i].meta # NoTag

\* UndefinedMetaTags error stops the parser at start tags: an element that was
\* let in is let out again, its end tag names nothing undefined.
OnlyStartTagsAreRefused == status = "croaked" => phase \in {"attr", "open", "push"}

\* A metaname or property that a document taught the configuration has its
\* named buffer by the time a tag is pushed under it.
LearntNamesHaveBuffers ==
  metanames \subseteq DOMAIN metabufs /\ properties \subseteq DOMAIN propbufs

\* The configuration only grows, and nothing already tokenized is changed.
OnlyGrows ==
  [][/\ metanames \subseteq metanames' /\ properties \subseteq properties'
     /\ tokens \subseteq tokens' /\ pos <= pos']_vars
=============================================================================
