------------------------------ MODULE DocParser ------------------------------
(***************************************************************************)
(* The SAX handlers of src/libswish3/parser.c: how one XML or HTML         *)
(* document becomes a token list and two sets of named buffers (metanames  *)
(* and properties).  libxml2 is the environment: it delivers properly      *)
(* nested start and end events, runs of characters, comments and one end   *)
(* of document.                                                            *)
(*                                                                         *)
(* A tag name is the sequence of its dot-separated parts ("div.class" is   *)
(* <<"div", "class">>), so the code's flatten_tag_stack and its snprintf   *)
(* of "%s.%s" are concatenation.  A run of characters is one word and is   *)
(* named by its number in the document; BUMP is SWISH_TOKENPOS_BUMPER.     *)
(* The top of a stack is its last element.                                 *)
(***************************************************************************)
EXTENDS Integers, Sequences, FiniteSets

CONSTANTS
  Word,                          \* the parts of names, and attribute values
  Configs,                       \* the configurations to parse under
  NoAttr,                        \* an element without attributes
  MaxDepth, MaxText, MaxEvents   \* bounds: open elements, runs, SAX events

Name == Seq(Word)
NoTag == << >>                       \* the NULL that bake_tag returns
SwishDefault == <<"swishdefault">>   \* SWISH_DEFAULT_METANAME
DomStr == <<"/">>                    \* SWISH_DOM_STR, base of the property stack
NoPrefix == ""
NoContent == ""                      \* a <meta> without content attribute
BUMP == 0
SPACE == -1                          \* what swish_str_ctrl_to_ws writes

VARIABLES
  config,          \* the configuration, its aliases and flags; never changes
  \* the document, as libxml2 walks it
  open,            \* elements begun and not ended; meta and prop are history:
                   \* the names open_tag gave them, NoTag if not watched
  events,          \* SAX events so far
  status,          \* "parsing", "done", "croaked" (SWISH_CROAK) or "crashed"
  \* progress inside one start tag: bake_tag calls open_tag for an attribute
  phase, pending,
  \* the names in the configuration, which the undefined-tag switches extend
  metanames, properties,
  \* swish_ParserData
  metastack, propstack, domstack,
  meta_buf, prop_buf, ignore_content, bump_word,
  metabufs, propbufs,    \* its two NamedBuffers: name -> chunks, joined by BUMP
  tokens, pos,           \* the TokenList
  \* history, for the properties only
  texts,           \* what the document said of each run of characters
  noindex,         \* <!-- noindex --> comments not yet matched by <!-- index -->
  segment          \* boundaries so far: tags, and comments but noindex and index

IsHTML                 == config.is_html
MetaNames              == config.metanames     \* before any document
Properties             == config.properties
MetaAlias              == config.meta_alias    \* alias_for, where there is one
PropAlias              == config.prop_alias
TagAliases             == config.tag_aliases
UndefinedMetaTags      == config.undef_metas
UndefinedXMLAttributes == config.undef_attrs
CascadeMetaContext     == config.cascade_meta_context
IgnoreXMLNameSpaces    == config.ignore_xmlns
ClassAttributes        == config.class_attributes  \* XMLClassAttributes
Tokenize               == config.tokenize          \* analyzer->tokenize
Verbatim               == config.verbatim      \* properties with verbatim set
Block                  == config.block         \* libxml2's HTML element table:
Inline                 == config.inline        \*   not inline (and br, img), inline
Lower                  == config.lower         \* swish_str_tolower on words
Elements               == config.elements      \* the start tags a document may hold

Attribute == [name: Word, value: Word]
Element   == [raw: Name, prefix: Word, attr: Attribute \cup {NoAttr}]
Reserved  == {NoTag, SwishDefault, DomStr}   \* never the name of a tag

WellFormed(c) ==
  /\ {c.is_html, c.cascade_meta_context, c.ignore_xmlns, c.tokenize} \subseteq BOOLEAN
  /\ c.metanames \subseteq Name \ {NoTag} /\ SwishDefault \in c.metanames
  /\ c.properties \subseteq Name \ {NoTag} /\ c.verbatim \subseteq c.properties
  /\ \A n \in DOMAIN c.meta_alias : n \in c.metanames /\ c.meta_alias[n] \in c.metanames
  /\ \A n \in DOMAIN c.prop_alias : n \in c.properties /\ c.prop_alias[n] \in c.properties
  /\ \A n \in DOMAIN c.tag_aliases : n \in Name /\ c.tag_aliases[n] \in Name \ {NoTag}
  /\ c.undef_metas \in {"index", "error", "ignore", "auto", "autoall"}
  /\ c.undef_attrs \in {"disable", "index", "error", "ignore", "auto", "autoall"}
  /\ c.class_attributes \subseteq Word
  /\ c.block \subseteq Name /\ c.inline \subseteq Name
  /\ \A w \in DOMAIN c.lower : w \in Word /\ c.lower[w] \in Word
  /\ c.elements \subseteq Element
  /\ \A e \in c.elements :
       e.raw \notin Reserved /\ (e.attr # NoAttr => <<e.attr.name>> \notin Reserved)

ASSUME WordAssumption == {"swishdefault", "/", NoPrefix, NoContent} \subseteq Word
ASSUME ConfigAssumption == \A c \in Configs : WellFormed(c)
ASSUME BoundAssumption == MaxDepth \in Nat /\ MaxText \in Nat /\ MaxEvents \in Nat

docVars    == <<config, open, events, status>>
bakeVars   == <<phase, pending>>
configVars == <<metanames, properties>>
stackVars  == <<metastack, propstack, domstack>>
bufVars    == <<meta_buf, prop_buf>>
flagVars   == <<ignore_content, bump_word>>
outVars    == <<metabufs, propbufs, tokens, pos>>
histVars   == <<texts, noindex, segment>>
vars == <<docVars, bakeVars, configVars, stackVars, bufVars, flagVars,
          outVars, histVars>>

-----------------------------------------------------------------------------
(* Names: the first half of bake_tag.                                      *)

Top(s) == s[Len(s)]
Pop(s) == SubSeq(s, 1, Len(s) - 1)

LowerWord(w) == IF w \in DOMAIN Lower THEN Lower[w] ELSE w
LowerName(n) == [i \in 1..Len(n) |-> LowerWord(n[i])]

\* The lower-case tag, with its namespace prefix unless those are ignored.
Qualify(prefix, raw) ==
  IF prefix = NoPrefix \/ IgnoreXMLNameSpaces
  THEN LowerName(raw)
  ELSE <<LowerWord(prefix)>> \o LowerName(raw)

\* <foo class="bar"> is the tag foo.bar when class is in XMLClassAttributes.
SwishTag(e) ==
  IF ~IsHTML /\ e.attr # NoAttr /\ e.attr.name \in ClassAttributes
  THEN Append(Qualify(e.prefix, e.raw), LowerWord(e.attr.value))
  ELSE Qualify(e.prefix, e.raw)

\* The pseudo element an attribute stands for: <meta name="foo"> is foo,
\* an XML attribute class of foo is foo.class.
AttrTag(e) ==
  IF IsHTML THEN <<e.attr.name>> ELSE Append(SwishTag(e), LowerWord(e.attr.name))

DomContext == IF domstack = << >> THEN << >> ELSE Top(domstack).context

\* config->tag_aliases, by the simple tag and then by the whole DOM path.
Aliased(bare) ==
  IF bare = NoTag THEN NoTag
  ELSE IF bare \in DOMAIN TagAliases THEN TagAliases[bare]
  ELSE IF DomContext \o bare \in DOMAIN TagAliases
  THEN TagAliases[DomContext \o bare]
  ELSE bare

\* What a start or end tag does to bump_word.
BumpAt(bare) ==
  IF ~IsHTML \/ bare \in Block THEN TRUE
  ELSE IF bare \in Inline THEN FALSE
  ELSE bump_word

-----------------------------------------------------------------------------
(* The UndefinedMetaTags switch of bake_tag, for XML start and end tags.   *)

\* Fault: the alias is looked up by the DOM path, which at an end tag already
\* ends in the tag itself.
KnownByPath(bare) == bare \in metanames \/ DomContext \o bare \in DOMAIN TagAliases

Known(bare) == bare \in metanames \/ bare \in DOMAIN TagAliases
Undefined(bare) == ~IsHTML /\ ~Known(bare)
Refused(bare) == Undefined(bare) /\ UndefinedMetaTags = "error"

\* Fault: the document teaches nothing.
LearnNothing(names, cond, n) == names

Learn(names, cond, n) == IF cond THEN names \cup {n} ELSE names

MetasAfter(bare) ==
  Learn(metanames, Undefined(bare) /\ UndefinedMetaTags \in {"auto", "autoall"}, bare)
PropsAfter(bare) ==
  Learn(properties, Undefined(bare) /\ UndefinedMetaTags = "autoall", bare)
IgnoreAfter(bare) ==
  IF ~Undefined(bare) THEN ignore_content
  ELSE IF UndefinedMetaTags = "ignore" THEN ignore_content + 1
  ELSE IF UndefinedMetaTags = "index" THEN 0
  ELSE ignore_content

-----------------------------------------------------------------------------
(* Named buffers, the token list, flush_buffer and add_stack_to_prop_buf.  *)

Chunks(bufs, n) == IF n \in DOMAIN bufs THEN bufs[n] ELSE << >>
Copies(chunk, k) == [i \in 1..k |-> chunk]

\* Fault: a learnt name gets no buffer.
GrowNot(bufs, names) == bufs

\* swish_nb_new for the names learnt in this step.
Grow(bufs, names) == [n \in DOMAIN bufs \cup names |-> Chunks(bufs, n)]

\* swish_nb_add_buf: times[n] says how often the chunk goes to name n.  An
\* empty chunk is skipped before the buffer is looked up.
AddChunk(bufs, chunk, times) ==
  IF chunk = << >> THEN bufs
  ELSE [n \in DOMAIN bufs \cup {m \in DOMAIN times : times[m] > 0} |->
          Chunks(bufs, n) \o Copies(chunk, IF n \in DOMAIN times THEN times[n] ELSE 0)]

MetaStoredAs(n) == IF n \in DOMAIN MetaAlias THEN MetaAlias[n] ELSE n
PropStoredAs(n) == IF n \in DOMAIN PropAlias THEN PropAlias[n] ELSE n

BakedIn(stack) == {stack[i].baked : i \in 1..Len(stack)}
TimesOn(stack, n) == Cardinality({i \in 1..Len(stack) : stack[i].baked = n})

\* Fault: a name that is on the stack twice is written to once.
MetaTimesDistinct(name, stack) ==
  [n \in {MetaStoredAs(name)} \cup (IF CascadeMetaContext THEN BakedIn(stack) ELSE {}) |-> 1]

\* flush_buffer: once to the name itself, and with CascadeMetaContext once for
\* every other entry of the stack.
MetaTimes(name, stack) ==
  LET stored == MetaStoredAs(name)
  IN [n \in {stored} \cup (IF CascadeMetaContext THEN BakedIn(stack) ELSE {}) |->
        IF n = stored THEN 1 ELSE TimesOn(stack, n)]

\* add_stack_to_prop_buf: to the property just closed, if any, and once for
\* every entry of the stack but its base.
PropTimes(name, stack) ==
  LET own == IF name = NoTag THEN {} ELSE {PropStoredAs(name)}
  IN [n \in (own \cup BakedIn(stack)) \ {DomStr} |->
        TimesOn(stack, n) + (IF n \in own THEN 1 ELSE 0)]

\* Control characters, BUMP too, become spaces unless a verbatim property closes.
Cleaned(name) ==
  IF name \in Verbatim THEN prop_buf
  ELSE [i \in 1..Len(prop_buf) |-> IF prop_buf[i] = BUMP THEN SPACE ELSE prop_buf[i]]

\* Faults: positions start again with every buffer; alias_for is not followed.
TokensFromOne(name) ==
  {[meta |-> MetaStoredAs(name), text |-> meta_buf[i], pos |-> i] :
     i \in {j \in 1..Len(meta_buf) : meta_buf[j] # BUMP}}
TokensUnaliased(name) ==
  {[meta |-> name, text |-> meta_buf[i], pos |-> pos + i] :
     i \in {j \in 1..Len(meta_buf) : meta_buf[j] # BUMP}}

\* tokenize: every word and every BUMP of the buffer takes one position.
TokensFrom(name) ==
  IF ~Tokenize THEN {}
  ELSE {[meta |-> MetaStoredAs(name), text |-> meta_buf[i], pos |-> pos + i] :
          i \in {j \in 1..Len(meta_buf) : meta_buf[j] # BUMP}}

\* Faults: the buffer is not emptied; the position counter starts again.
FlushToKeep(name, stack, learnt) ==
  /\ metabufs' = AddChunk(Grow(metabufs, learnt), meta_buf, MetaTimes(name, stack))
  /\ tokens' = tokens \cup TokensFrom(name)
  /\ pos' = pos + Len(meta_buf)
  /\ UNCHANGED meta_buf
FlushToAfresh(name, stack, learnt) ==
  /\ metabufs' = AddChunk(Grow(metabufs, learnt), meta_buf, MetaTimes(name, stack))
  /\ tokens' = tokens \cup TokensFrom(name)
  /\ pos' = Len(meta_buf)
  /\ meta_buf' = << >>

FlushTo(name, stack, learnt) ==
  /\ metabufs' = AddChunk(Grow(metabufs, learnt), meta_buf, MetaTimes(name, stack))
  /\ tokens' = tokens \cup TokensFrom(name)
  /\ pos' = IF Tokenize THEN pos + Len(meta_buf) ELSE pos
  /\ meta_buf' = << >>

NoFlush(learnt) ==
  /\ metabufs' = Grow(metabufs, learnt)
  /\ UNCHANGED <<tokens, pos, meta_buf>>

FlushProps(name, stack, learnt) ==
  /\ propbufs' = AddChunk(Grow(propbufs, learnt), Cleaned(name),
                          PropTimes(name, stack))
  /\ prop_buf' = << >>

KeepProps(learnt) ==
  /\ propbufs' = Grow(propbufs, learnt)
  /\ UNCHANGED prop_buf

-----------------------------------------------------------------------------
(* buffer_characters.                                                      *)

\* Fault: text is appended whatever came between.
BufferedJoined(buf, run, bump) == Append(buf, run)

Buffered(buf, run, bump) ==
  IF bump /\ buf # << >> THEN buf \o <<BUMP, run>> ELSE Append(buf, run)

Watching == {i \in 1..Len(open) : open[i].meta # NoTag}
InnermostMeta ==
  IF Watching = {} THEN SwishDefault
  ELSE open[CHOOSE i \in Watching : \A j \in Watching : j <= i].meta
OpenProps == [i \in 1..Len(open) |-> open[i].prop]
OpenMetas == [i \in 1..Len(open) |-> open[i].meta]

\* A run of characters reaches buffer_characters, with bump_word as given.
BufferCharacters(bump) ==
  LET run == Len(texts) + 1
  IN /\ texts' = Append(texts, [owner |-> InnermostMeta, props |-> OpenProps,
                                metas |-> OpenMetas, segment |-> segment,
                                noindex |-> noindex,
                                kept |-> ignore_content = 0])
     /\ IF ignore_content > 0
        THEN UNCHANGED <<meta_buf, prop_buf>>
        ELSE /\ meta_buf' = Buffered(meta_buf, run, bump)
             /\ prop_buf' = Buffered(prop_buf, run, bump)

BumpAfterText(bump) == IF ignore_content > 0 THEN bump ELSE FALSE

-----------------------------------------------------------------------------
(* open_tag and close_tag.                                                 *)

Die(how) == /\ status' = how
            /\ UNCHANGED <<config, open, events, bakeVars, configVars, stackVars, bufVars,
                           flagVars, outVars, histVars>>

\* The names under which open_tag pushes a tag.  The metaname entry too asks
\* config->properties for the DOM path.
PropKey(tag, context, props) == IF context \in props THEN context ELSE tag
\* Fault: the metastack entry always bears the simple name.
MetaKeySimple(tag, context, metas, props) == tag
MetaKey(tag, context, metas, props) == IF context \in props THEN context ELSE tag

DomPath(raw, bare) == DomContext \o (IF Aliased(bare) = NoTag THEN raw ELSE Aliased(bare))
Watched(names, raw, bare) == Aliased(bare) \in names \/ DomPath(raw, bare) \in names

\* A <meta> that bake_tag has dealt with has no tag: on the metastack it can
\* only be pushed by its DOM path.
Nameless(raw, bare) ==
  /\ Aliased(bare) = NoTag /\ DomPath(raw, bare) \notin PropsAfter(bare)
  /\ Watched(MetasAfter(bare), raw, bare)

OpenFails(raw, bare) ==
  \/ Refused(bare) /\ Die("croaked")
  \/ \* swish_xstrdup of the NULL tag
     /\ Nameless(raw, bare) /\ Top(metastack).baked \in MetasAfter(bare)
     /\ Die("croaked")
  \/ \* flush_buffer looks up the metaname of the stack's top and follows it
     /\ ~Refused(bare) /\ Watched(MetasAfter(bare), raw, bare)
     /\ Top(metastack).baked \notin MetasAfter(bare)
     /\ Die("crashed")

\* Fault: the tag is pushed as it is written.
EntryRaw(raw, baked) == [raw |-> raw, baked |-> raw, by |-> Len(open) + 1]

\* push_tag_stack; "by" is history: the place in open of the element that pushed.
Entry(raw, baked) == [raw |-> raw, baked |-> baked, by |-> Len(open) + 1]

OpenTag(raw, prefix, bare) ==
  LET tag     == Aliased(bare)
      path    == DomPath(raw, bare)
      metas   == MetasAfter(bare)
      props   == PropsAfter(bare)
      isProp  == Watched(props, raw, bare)
      isMeta  == Watched(metas, raw, bare)
      propKey == PropKey(tag, path, props)
      metaKey == MetaKey(tag, path, metas, props)
  IN /\ ~Refused(bare) /\ ~Nameless(raw, bare)
     /\ isMeta => Top(metastack).baked \in metas
     /\ metanames' = metas /\ properties' = props
     /\ ignore_content' = IgnoreAfter(bare)
     /\ domstack' = Append(domstack,
                      [raw |-> raw, baked |-> IF tag = NoTag THEN raw ELSE tag,
                       context |-> path])
     /\ IF isProp
        THEN /\ FlushProps(NoTag, propstack, props \ properties)
             /\ propstack' = Append(propstack, Entry(raw, propKey))
        ELSE KeepProps(props \ properties) /\ UNCHANGED propstack
     /\ IF isMeta
        THEN /\ FlushTo(Top(metastack).baked, metastack, metas \ metanames)
             /\ metastack' = Append(metastack, Entry(raw, metaKey))
        ELSE NoFlush(metas \ metanames) /\ UNCHANGED metastack
     /\ open' = Append(open, [raw |-> raw, prefix |-> prefix,
                              meta |-> IF isMeta THEN metaKey ELSE NoTag,
                              prop |-> IF isProp THEN propKey ELSE NoTag])

\* Faults: every end tag pops; the name pushed is compared, not the tag.
PopsAlways(stack, raw) == Len(stack) > 1
PopsOnBaked(stack, raw) == Top(stack).baked = raw

\* pop_tag_stack_on_match compares the tag as written in the document.
PopsOn(stack, raw) == Top(stack).raw = raw

CloseFails(raw, prefix) ==
  LET bare == Qualify(prefix, raw)
  IN \/ Refused(bare) /\ Die("croaked")
     \/ /\ ~Refused(bare) /\ PopsOn(metastack, raw)
        /\ Top(metastack).baked \notin MetasAfter(bare)
        /\ Die("crashed")

\* The end of the innermost open element.
CloseTag(raw, prefix) ==
  LET bare    == Qualify(prefix, raw)
      metas   == MetasAfter(bare)
      props   == PropsAfter(bare)
      popProp == PopsOn(propstack, raw)
      popMeta == PopsOn(metastack, raw)
  IN /\ ~Refused(bare)
     /\ popMeta => Top(metastack).baked \in metas
     /\ metanames' = metas /\ properties' = props
     /\ ignore_content' = IgnoreAfter(bare)
     /\ IF popProp
        THEN /\ FlushProps(Top(propstack).baked, Pop(propstack), props \ properties)
             /\ propstack' = Pop(propstack)
        ELSE KeepProps(props \ properties) /\ UNCHANGED propstack
     /\ IF popMeta
        THEN /\ FlushTo(Top(metastack).baked, Pop(metastack), metas \ metanames)
             /\ metastack' = Pop(metastack)
        ELSE NoFlush(metas \ metanames) /\ UNCHANGED metastack
     /\ domstack' = Pop(domstack)
     /\ open' = Pop(open)

-----------------------------------------------------------------------------
(* The SAX callbacks.                                                      *)

Init ==
  /\ config \in Configs
  /\ open = << >> /\ events = 0 /\ status = "parsing"
  /\ phase = "sax" /\ pending = NoAttr
  /\ metanames = MetaNames /\ properties = Properties
  /\ metastack = <<[raw |-> SwishDefault, baked |-> SwishDefault, by |-> 0]>>
  /\ propstack = <<[raw |-> DomStr, baked |-> DomStr, by |-> 0]>>
  /\ domstack = << >>
  /\ meta_buf = << >> /\ prop_buf = << >>
  /\ ignore_content = 0 /\ bump_word = TRUE
  /\ metabufs = [n \in MetaNames |-> << >>]
  /\ propbufs = [n \in Properties |-> << >>]
  /\ tokens = {} /\ pos = 0
  /\ texts = << >> /\ noindex = 0 /\ segment = 0

At(p) == status = "parsing" /\ phase = p
Event == events < MaxEvents /\ events' = events + 1

\* Does a start or end tag of this name separate the text around it?
Separates(bare) == ~IsHTML \/ bare \in Block
SegmentAfter(bare) == IF Separates(bare) THEN segment + 1 ELSE segment

\* mystartElement, mystartElementNs: open_tag enters bake_tag.
StartElement(e) ==
  /\ At("sax") /\ Event /\ Len(open) < MaxDepth
  /\ e.attr # NoAttr => Len(texts) < MaxText
  /\ pending' = e
  /\ phase' = IF e.attr = NoAttr THEN "push" ELSE "attr"
  /\ bump_word' = BumpAt(Qualify(e.prefix, e.raw))
  /\ segment' = SegmentAfter(Qualify(e.prefix, e.raw))
  /\ UNCHANGED <<config, open, status, configVars, stackVars, bufVars, ignore_content,
                 outVars, texts, noindex>>

\* bake_tag, an XML attribute: the UndefinedXMLAttributes switch, then the
\* attribute is parsed like an element if its name is (now) a metaname.
XmlAttribute ==
  LET tag   == AttrTag(pending)
      undef == tag \notin metanames
      metas == Learn(metanames,
                 undef /\ UndefinedXMLAttributes \in {"auto", "autoall"}, tag)
      props == Learn(properties,
                 undef /\ UndefinedXMLAttributes = "autoall", tag)
  IN /\ At("attr") /\ ~IsHTML
     /\ IF undef /\ UndefinedXMLAttributes = "error"
        THEN Die("croaked")
        ELSE /\ metanames' = metas /\ properties' = props
             /\ metabufs' = Grow(metabufs, metas \ metanames)
             /\ propbufs' = Grow(propbufs, props \ properties)
             /\ IF undef /\ UndefinedXMLAttributes = "index"
                THEN BufferCharacters(TRUE)
                ELSE UNCHANGED <<texts, bufVars>>
             /\ phase' = IF tag \in metas THEN "open" ELSE "push"
             /\ UNCHANGED <<docVars, pending, stackVars, flagVars, tokens, pos,
                            noindex, segment>>

\* bake_tag, an HTML <meta name="..." content="...">: the UndefinedMetaTags
\* switch on the name as it is written.  Without content, ignore_content is
\* restored and there is nothing to parse.
HtmlMeta ==
  LET name  == AttrTag(pending)
      undef == ~Known(name)
      content == pending.attr.value # NoContent
      metas == Learn(metanames, undef /\ UndefinedMetaTags \in {"auto", "autoall"}, name)
      props == Learn(properties, undef /\ UndefinedMetaTags = "autoall", name)
  IN /\ At("attr") /\ IsHTML
     /\ IF undef /\ UndefinedMetaTags = "error"
        THEN Die("croaked")
        ELSE /\ metanames' = metas /\ properties' = props
             /\ metabufs' = Grow(metabufs, metas \ metanames)
             /\ propbufs' = Grow(propbufs, props \ properties)
             /\ ignore_content' =
                  IF undef /\ UndefinedMetaTags = "ignore" /\ content
                  THEN ignore_content + 1 ELSE ignore_content
             /\ phase' = IF content THEN "open" ELSE "push"
             /\ UNCHANGED <<docVars, pending, stackVars, bufVars, bump_word,
                            tokens, pos, histVars>>

\* The recursive open_tag, buffer_characters and close_tag for an attribute.
OpenValue ==
  LET raw  == AttrTag(pending)
      bare == Qualify(pending.prefix, raw)
  IN /\ At("open")
     /\ \/ OpenFails(raw, bare)
        \/ /\ OpenTag(raw, pending.prefix, bare)
           /\ phase' = "value"
           /\ bump_word' = (~IsHTML \/ bare \notin Inline)
           /\ segment' = segment + 1
           /\ UNCHANGED <<config, events, status, pending, texts, noindex>>

BufferValue ==
  /\ At("value")
  /\ BufferCharacters(bump_word)
  /\ bump_word' = BumpAfterText(bump_word)
  /\ phase' = "close"
  /\ UNCHANGED <<docVars, pending, configVars, stackVars, ignore_content,
                 outVars, noindex, segment>>

\* Afterwards bump_word is what it was before the attribute: TRUE, since <meta>
\* is a block element and every XML tag sets it.
CloseValue ==
  /\ At("close")
  /\ \/ CloseFails(AttrTag(pending), pending.prefix)
     \/ /\ CloseTag(AttrTag(pending), pending.prefix)
        /\ phase' = "push"
        /\ bump_word' = TRUE
        /\ segment' = segment + 1
        /\ UNCHANGED <<config, events, status, pending, texts, noindex>>

\* bake_tag is back in open_tag, with NULL for a <meta> it has dealt with.
PushElement ==
  LET dealtWith == IsHTML /\ pending.attr # NoAttr /\ pending.attr.value # NoContent
      bare      == IF dealtWith THEN NoTag ELSE SwishTag(pending)
  IN /\ At("push")
     /\ \/ OpenFails(pending.raw, bare)
        \/ /\ OpenTag(pending.raw, pending.prefix, bare)
           /\ phase' = "sax" /\ pending' = NoAttr
           /\ UNCHANGED <<config, events, status, bump_word, histVars>>

\* myendElement, myendElementNs.
EndElement ==
  LET raw    == Top(open).raw
      prefix == Top(open).prefix
  IN /\ At("sax") /\ open # << >>
     /\ \/ CloseFails(raw, prefix)
        \/ /\ CloseTag(raw, prefix)
           /\ bump_word' = BumpAt(Qualify(prefix, raw))
           /\ segment' = SegmentAfter(Qualify(prefix, raw))
           /\ UNCHANGED <<config, events, status, bakeVars, texts, noindex>>

\* mycharacters.
Characters ==
  /\ At("sax") /\ Event /\ Len(texts) < MaxText
  /\ BufferCharacters(bump_word)
  /\ bump_word' = BumpAfterText(bump_word)
  /\ UNCHANGED <<config, open, status, bakeVars, configVars, stackVars, ignore_content,
                 outVars, noindex, segment>>

\* Faults of mycomments: the counter is not kept from falling below zero;
\* one <!-- index --> ends all regions; it ends none.
UnignoreUnchecked(n) == n - 1
UnignoreAll(n) == 0
UnignoreNone(n) == n

\* mycomments.
Unignore(n) == IF n > 0 THEN n - 1 ELSE 0

CommentNoindex ==
  /\ At("sax") /\ Event
  /\ ignore_content' = ignore_content + 1
  /\ noindex' = noindex + 1
  /\ UNCHANGED <<config, open, status, bakeVars, configVars, stackVars, bufVars, bump_word,
                 outVars, texts, segment>>

CommentIndex ==
  /\ At("sax") /\ Event
  /\ ignore_content' = Unignore(ignore_content)
  /\ noindex' = (IF noindex > 0 THEN noindex - 1 ELSE 0)
  /\ UNCHANGED <<config, open, status, bakeVars, configVars, stackVars, bufVars, bump_word,
                 outVars, texts, segment>>

CommentOther ==
  /\ At("sax") /\ Event
  /\ bump_word' = TRUE
  /\ segment' = segment + 1
  /\ UNCHANGED <<config, open, status, bakeVars, configVars, stackVars, bufVars,
                 ignore_content, outVars, texts, noindex>>

\* myendDocument.  libxml2 sends it too when the input stops short of the end
\* tags (open is then not empty).
EndDocument ==
  /\ At("sax")
  /\ FlushTo(SwishDefault, metastack, {})
  /\ status' = "done"
  /\ UNCHANGED <<config, open, events, bakeVars, configVars, stackVars, prop_buf, flagVars,
                 propbufs, histVars>>

Finished == status # "parsing" /\ UNCHANGED vars

Next ==
  \/ \E e \in Elements : StartElement(e)
  \/ XmlAttribute \/ HtmlMeta
  \/ OpenValue \/ BufferValue \/ CloseValue
  \/ PushElement
  \/ EndElement
  \/ Characters
  \/ CommentNoindex \/ CommentIndex \/ CommentOther
  \/ EndDocument
  \/ Finished

Spec == Init /\ [][Next]_vars
=============================================================================
