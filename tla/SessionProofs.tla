---------------------------- MODULE SessionProofs ----------------------------
(***************************************************************************)
(* Session's invariants, for all files and programs: the token lists are   *)
(* sound and hold the words of the texts, and every reference count is the *)
(* number of those who are counted at the object.                          *)
(***************************************************************************)
EXTENDS SessionWorldProofs

-----------------------------------------------------------------------------
(* The inductive invariant.  The properties name only the counts and the   *)
(* lists; to keep them, a step has to know as well in which phase which    *)
(* object may be there, what the outer documents set aside (StackFits),    *)
(* which objects a handler may hold on to (HeldFits), that what a handler  *)
(* has been given is in the list (CurrentFits), and that every count is    *)
(* what the ledger of its users says, with no token in two lists (World).  *)

UpNow   == IF phase \in {"none", "freed"} THEN 0 ELSE 1
ConfNow == IF UpNow = 1 \/ Config \in held THEN 1 ELSE 0

PhaseFits ==
  /\ phase \in {"none", "idle", "parsing", "handler", "freed", "dead"}
  /\ phase \in {"parsing", "handler"} => stack # << >>
  /\ stack # << >> => phase \in {"parsing", "handler", "dead"}
  /\ phase = "handler" => Depth = 1
  /\ phase = "none" => held = {}
SettingsFit ==
  /\ setup.tokenize \in BOOLEAN /\ setup.keeps \in Nat /\ mangled \in BOOLEAN
  /\ Learnt(names) /\ (phase # "none" => Default \in Range(names))
\* Of the outer parsers process_xinclude has what s3->stash was before.
StackFits ==
  /\ stash = (IF Depth = 0 THEN 0 ELSE Depth - 1) /\ Depth <= MaxDepth
  /\ \A i \in 1..Depth : /\ stack[i].saved = IF i = 1 THEN 0 ELSE i - 2
                         /\ phase # "handler" => stack[i].next = 1
HeldFits ==
  /\ IsFiniteSet(held) /\ Cardinality(held) <= setup.keeps
  /\ \A d \in Nat : Iterator(d) \in held => phase = "handler" /\ d = 1
CurrentFits ==
  \A i \in DOMAIN current :
    phase = "handler" /\ \E a \in 1..Len(stack[1].list.tokens) : current[i] = stack[1].list.tokens[a]
CountsFit ==
  World(held, UpNow, ConfNow, stack, ref_cnt, Range(names), setup.tokenize, mangled, made)

SessionInv == PhaseFits /\ SettingsFit /\ StackFits /\ HeldFits /\ CurrentFits /\ CountsFit

LEMMA EmptyWorld ==
  ASSUME NEW refs, refs = [o \in {} |-> 0], NEW tokenize, NEW bad
  PROVE  World({}, 0, 0, << >>, refs, {}, tokenize, bad, 0)
<1>1. Parsers(<< >>, {}, tokenize, bad, 0)
  BY DEF Parsers, Distinct
<1>2. ListedIn(<< >>) = {} /\ Len(<< >>) = 0
  BY DEF ListedIn
<1> DEFINE base == Ledger({}, 0, 0, {}, 0, {})
<1>3. base \in [Objects -> Nat] /\ \A o \in Objects : base[o] = 0
  <2>1. base \in [Objects -> Nat]
    BY LedgerType
  <2>2. \A o \in Objects : Own(0, 0, {}, 0, {}, o) = 0
    BY DEF Own
  <2> QED BY <2>1, <2>2 DEF Ledger
<1> HIDE DEF base
<1>4. DOMAIN refs = {} /\ refs = [o \in DOMAIN refs |-> refs[o]] /\ IsFiniteSet(DOMAIN refs)
  BY FS_EmptySet
<1>5. ASSUME NEW o \in Objects PROVE Owed(refs, base, o) = 0
  <2>1. Holding(refs, o.n) = {}
    BY <1>4 DEF Holding
  <2>2. Cardinality(Holding(refs, o.n)) = 0
    BY <2>1, FS_EmptySet
  <2> QED BY <1>3, <2>2 DEF Owed
<1>6. Exact(refs, base)
  BY <1>3, <1>4, <1>5 DEF Exact
<1> QED BY <1>1, <1>2, <1>6 DEF World, base

LEMMA InitSession == Init => SessionInv
<1> SUFFICES ASSUME Init PROVE SessionInv
  OBVIOUS
<1>1. UpNow = 0 /\ ConfNow = 0 /\ Range(names) = {}
  BY DEF Init, UpNow, ConfNow, Range
<1>2. setup.tokenize \in BOOLEAN /\ setup.keeps \in Nat
  BY FileAssumption DEF Init
<1>3. PhaseFits
  BY DEF Init, PhaseFits
<1>4. SettingsFit
  <2>1. Learnt(names)
    BY DEF Init, Learnt
  <2> QED BY <1>2, <2>1 DEF Init, SettingsFit
<1>5. StackFits
  BY FileAssumption DEF Init, StackFits, Depth
<1>6. HeldFits
  BY <1>2, FS_EmptySet DEF Init, HeldFits
<1>7. CurrentFits
  BY DEF Init, CurrentFits
<1>8. CountsFit
  BY <1>1, EmptyWorld DEF Init, CountsFit
<1> QED BY <1>3, <1>4, <1>5, <1>6, <1>7, <1>8 DEF SessionInv

\* The parser in front goes on.
LEMMA ParserStep ==
  ASSUME SessionInv, phase = "parsing", Same, NEW d, NEW refs, Continue(d, refs), stash' = stash,
         Learnt(names'), Range(names) \subseteq Range(names'),
         World(held, 1, 1, stack, refs, Range(names'), setup.tokenize, mangled, made),
         mangled' \in BOOLEAN, mangled => mangled',
         NEW top2, Grows(Top.list, d.list, Range(names'), made, top2),
         Good(d, Range(names'), setup.tokenize, mangled', top2),
         Len(d.list.tokens) > Len(Top.list.tokens) => d.list.made = top2,
         d.saved = Top.saved, d.next = Top.next
  PROVE  SessionInv'
<1>1. stack \in Seq(Range(stack)) /\ Len(stack) \in Nat /\ stack # << >> /\ made \in Nat
  BY DEF SessionInv, PhaseFits, World, Parsers
<1>2. Depth \in 1..Len(stack) /\ stack' = [stack EXCEPT ![Depth] = d] /\ Len(stack') = Len(stack)
      /\ Depth' = Depth
  BY <1>1 DEF Continue, Depth
<1>3. made' = top2
  <2>1. Len(d.list.tokens) \in Nat /\ Len(Top.list.tokens) \in Nat
    <3>1. Good(Top, Range(names'), setup.tokenize, mangled, made)
      BY <1>2 DEF World, Parsers, Top
    <3>2. Sound(Top.list) /\ Sound(d.list)
      BY <3>1 DEF Good
    <3> QED BY <3>2 DEF Sound
  <2>2. PICK x, y \in Nat : x = Len(d.list.tokens) /\ y = Len(Top.list.tokens)
    BY <2>1
  <2>3. y <= x /\ top2 = made + (x - y) /\ made' = (IF x > y THEN d.list.made ELSE made)
        /\ (x > y => d.list.made = top2)
    BY <2>2 DEF Continue, Grows
  <2> QED BY <1>1, <2>3
<1>4. World(held, 1, 1, [stack EXCEPT ![Depth] = d],
            CountTokens(refs, d.list, Len(stack[Depth].list.tokens) + 1),
            Range(names'), setup.tokenize, mangled', top2)
  <2>1. PICK nm, bad, bad2, k : nm = Range(names') /\ bad = mangled /\ bad2 = mangled' /\ k = Depth
    OBVIOUS
  <2>2. World(held, 1, 1, stack, refs, nm, setup.tokenize, bad, made) /\ k \in 1..Len(stack)
        /\ (bad => bad2) /\ Grows(stack[k].list, d.list, nm, made, top2)
        /\ Good(d, nm, setup.tokenize, bad2, top2)
    BY <1>2, <2>1 DEF Top
  <2>3. World(held, 1, 1, [stack EXCEPT ![k] = d], CountTokens(refs, d.list, Len(stack[k].list.tokens) + 1),
              nm, setup.tokenize, bad2, top2)
    BY <2>2, GrowWorld
  <2> QED BY <2>1, <2>3
<1>5. PhaseFits'
  BY <1>1, <1>2 DEF SessionInv, PhaseFits, Same
<1>6. SettingsFit'
  BY DEF SessionInv, SettingsFit, Same
<1>7. StackFits'
  BY <1>1, <1>2 DEF SessionInv, StackFits, Same, Top
<1>8. HeldFits'
  BY DEF SessionInv, HeldFits, Same
<1>9. CurrentFits'
  BY DEF SessionInv, CurrentFits, Same
<1>10. CountsFit'
  <2>1. UpNow' = 1 /\ ConfNow' = 1
    BY DEF Same, UpNow, ConfNow
  <2>2. ref_cnt' = CountTokens(refs, d.list, Len(stack[Depth].list.tokens) + 1)
    BY DEF Continue, Top
  <2>3. World(held, 1, 1, stack', ref_cnt', Range(names'), setup.tokenize, mangled', made')
    BY <1>2, <1>3, <1>4, <2>2
  <2> QED BY <2>1, <2>3 DEF CountsFit, Same
<1> QED BY <1>5, <1>6, <1>7, <1>8, <1>9, <1>10 DEF SessionInv

\* What is known while a parser is at work.
LEMMA AtWork ==
  ASSUME SessionInv, phase = "parsing"
  PROVE  /\ stack \in Seq(Range(stack)) /\ stack # << >> /\ Depth = Len(stack) /\ Depth \in 1..Len(stack)
         /\ World(held, 1, 1, stack, ref_cnt, Range(names), setup.tokenize, mangled, made)
         /\ Good(Top, Range(names), setup.tokenize, mangled, made) /\ made \in Nat
         /\ Range(names) \subseteq Nat /\ Learnt(names) /\ Default \in Range(names)
         /\ setup.tokenize \in BOOLEAN /\ mangled \in BOOLEAN /\ Top.next = 1
<1>1. UpNow = 1 /\ ConfNow = 1
  BY DEF UpNow, ConfNow
<1>2. World(held, 1, 1, stack, ref_cnt, Range(names), setup.tokenize, mangled, made)
  BY <1>1 DEF SessionInv, CountsFit
<1>3. stack \in Seq(Range(stack)) /\ stack # << >> /\ Depth = Len(stack) /\ made \in Nat
      /\ Range(names) \subseteq Nat
  BY <1>2 DEF SessionInv, PhaseFits, World, Parsers, Depth
<1>4. Depth \in 1..Len(stack)
  BY <1>3
<1>5. Good(Top, Range(names), setup.tokenize, mangled, made)
  BY <1>2, <1>4 DEF World, Parsers, Top
<1>6. Top.next = 1
  BY <1>4 DEF SessionInv, StackFits, Top, Depth
<1>7. Learnt(names) /\ Default \in Range(names) /\ setup.tokenize \in BOOLEAN /\ mangled \in BOOLEAN
  BY DEF SessionInv, SettingsFit
<1> QED BY <1>2, <1>3, <1>4, <1>5, <1>6, <1>7

\* The event that comes next, and those after it.
LEMMA HereType ==
  ASSUME NEW nm, NEW tokenize, NEW bad, NEW top, Good(Top, nm, tokenize, bad, top), Top.left # << >>
  PROVE  /\ Here \in AllEvents /\ Here.meta \in Nat /\ Here.chars \in Seq(Char)
         /\ Tail(Top.left) \in Seq(AllEvents)
<1>1. Top.left \in Seq(AllEvents)
  BY DEF Good
<1>2. Here \in AllEvents /\ Tail(Top.left) \in Seq(AllEvents)
  BY <1>1 DEF Here
<1> QED BY <1>2 DEF AllEvents

\* What a parser does without a new token.
LEMMA GoodEdited ==
  ASSUME NEW d, NEW nm, NEW tokenize, NEW bad, NEW top, Good(d, nm, tokenize, bad, top),
         NEW e, DOMAIN e = DataFields, e.left \in Seq(AllEvents), e.meta_buf \in Seq(Char),
         e.metastack \in Seq(nm), e.metastack # << >>,
         e.nwords = d.nwords, e.list = d.list, e.next = d.next
  PROVE  Good(e, nm, tokenize, bad, top)
BY DEF Good

LEMMA GrowsNot ==
  ASSUME NEW d, NEW nm, NEW tokenize, NEW bad, NEW top, Good(d, nm, tokenize, bad, top), top \in Nat
  PROVE  Grows(d.list, d.list, nm, top, top) /\ Len(d.list.tokens) \in Nat
<1>1. Len(d.list.tokens) \in Nat
  BY DEF Good, Sound, Lists
<1>2. PICK n \in Nat : n = Len(d.list.tokens)
  BY <1>1
<1>3. n <= n /\ (n + 1)..n = {} /\ top = top + (n - n)
  OBVIOUS
<1> QED BY <1>2, <1>3 DEF Grows

LEMMA PlainStep ==
  ASSUME SessionInv, phase = "parsing", Same, NEW d, Continue(d, ref_cnt),
         UNCHANGED <<names, stash, mangled>>,
         DOMAIN d = DataFields, d.left \in Seq(AllEvents), d.meta_buf \in Seq(Char),
         d.metastack = Top.metastack, d.nwords = Top.nwords, d.list = Top.list, d.next = Top.next,
         d.saved = Top.saved
  PROVE  SessionInv'
<1>1. Good(Top, Range(names), setup.tokenize, mangled, made) /\ made \in Nat
  BY AtWork
<1>2. Top.metastack \in Seq(Range(names)) /\ Top.metastack # << >>
  BY <1>1 DEF Good
<1>3. Good(d, Range(names), setup.tokenize, mangled, made)
  BY <1>1, <1>2, GoodEdited
<1>4. Grows(Top.list, d.list, Range(names), made, made) /\ Len(d.list.tokens) = Len(Top.list.tokens)
      /\ Len(d.list.tokens) \in Nat
  BY <1>1, GrowsNot
<1>5. names' = names /\ mangled' = mangled /\ stash' = stash
  OBVIOUS
<1>6. World(held, 1, 1, stack, ref_cnt, Range(names'), setup.tokenize, mangled, made)
      /\ Learnt(names') /\ mangled' \in BOOLEAN
  BY <1>5, AtWork
<1>7. Range(names) \subseteq Range(names') /\ Grows(Top.list, d.list, Range(names'), made, made)
      /\ Good(d, Range(names'), setup.tokenize, mangled', made)
  BY <1>3, <1>4, <1>5
<1>8. Len(d.list.tokens) > Len(Top.list.tokens) => d.list.made = made
  BY <1>4
<1> QED BY <1>5, <1>6, <1>7, <1>8, ParserStep

LEMMA CharactersStep == ASSUME SessionInv, Characters PROVE SessionInv'
<1>1. phase = "parsing" /\ Top.left # << >> /\ Same /\ UNCHANGED <<names, stash, mangled>>
  BY DEF Characters, Reading, Parsing
<1>2. Good(Top, Range(names), setup.tokenize, mangled, made)
  BY <1>1, AtWork
<1>3. Here.chars \in Seq(Char) /\ Tail(Top.left) \in Seq(AllEvents)
  BY <1>1, <1>2, HereType
<1>4. DOMAIN Top = DataFields /\ Top.meta_buf \in Seq(Char)
  BY <1>2 DEF Good
<1>5. PICK joint : joint = IF Top.bump_word /\ Top.meta_buf # << >> THEN <<BUMP>> ELSE << >>
  OBVIOUS
<1>6. joint \in Seq(Char)
  <2>1. BUMP \in Char
    BY CharAssumption
  <2> QED BY <1>5, <2>1
<1>7. PICK d : d = [Read(Top) EXCEPT !.meta_buf = @ \o joint \o Here.chars, !.bump_word = FALSE]
  OBVIOUS
<1>8. DOMAIN d = DataFields /\ d.left = Tail(Top.left) /\ d.meta_buf = Top.meta_buf \o joint \o Here.chars
      /\ d.metastack = Top.metastack /\ d.nwords = Top.nwords /\ d.list = Top.list /\ d.next = Top.next
      /\ d.saved = Top.saved
  BY <1>4, <1>7 DEF Read, DataFields
<1>9. d.meta_buf \in Seq(Char) /\ d.left \in Seq(AllEvents)
  BY <1>3, <1>4, <1>6, <1>8
<1>10. Continue(d, ref_cnt)
  BY <1>5, <1>7 DEF Characters
<1> QED BY <1>1, <1>8, <1>9, <1>10, PlainStep

LEMMA PlainTagStep == ASSUME SessionInv, PlainTag PROVE SessionInv'
<1>1. phase = "parsing" /\ Top.left # << >> /\ Same /\ UNCHANGED <<names, stash, mangled>>
  BY DEF PlainTag, Reading, Parsing
<1>2. Good(Top, Range(names), setup.tokenize, mangled, made)
  BY <1>1, AtWork
<1>3. Tail(Top.left) \in Seq(AllEvents)
  BY <1>1, <1>2, HereType
<1>4. DOMAIN Top = DataFields /\ Top.meta_buf \in Seq(Char)
  BY <1>2 DEF Good
<1>5. PICK d : d = [Read(Top) EXCEPT !.bump_word = TRUE]
  OBVIOUS
<1>6. DOMAIN d = DataFields /\ d.left = Tail(Top.left) /\ d.meta_buf = Top.meta_buf
      /\ d.metastack = Top.metastack /\ d.nwords = Top.nwords /\ d.list = Top.list /\ d.next = Top.next
      /\ d.saved = Top.saved
  BY <1>4, <1>5 DEF Read, DataFields
<1>7. Continue(d, ref_cnt)
  BY <1>5 DEF PlainTag
<1> QED BY <1>1, <1>3, <1>4, <1>6, <1>7, PlainStep

LEMMA Remembered ==
  ASSUME NEW d, Remember(d), setup.tokenize \in BOOLEAN, mangled \in BOOLEAN
  PROVE  /\ mangled' \in BOOLEAN /\ (mangled => mangled')
         /\ setup.tokenize /\ ~Gentle(Top.meta_buf) => mangled'
<1> HIDE DEF Gentle
<1>1. CASE setup.tokenize
  <2>1. mangled' = (mangled \/ ~Gentle(Top.meta_buf))
    BY <1>1 DEF Remember
  <2> QED BY <2>1
<1>2. CASE ~setup.tokenize
  <2>1. mangled' = mangled
    BY <1>2 DEF Remember
  <2> QED BY <1>2, <2>1
<1> QED BY <1>1, <1>2

\* The words of a text become tokens.
LEMMA FlushedTop ==
  ASSUME SessionInv, phase = "parsing", NEW nm, nm \subseteq Nat,
         Good(Top, nm, setup.tokenize, mangled, made),
         NEW meta \in nm, NEW f, f = Flushed(Top, meta), Remember(f)
  PROVE  \E bad2, top2 : /\ bad2 = mangled' /\ Good(f, nm, setup.tokenize, bad2, top2)
                         /\ Grows(Top.list, f.list, nm, made, top2)
                         /\ Keeps(Top, f) /\ NumberedTo(Top.list, f.list, top2)
<1>1. setup.tokenize \in BOOLEAN /\ mangled \in BOOLEAN /\ made \in Nat
  BY AtWork
<1>2. mangled' \in BOOLEAN /\ (mangled => mangled') /\ (setup.tokenize /\ ~Gentle(Top.meta_buf) => mangled')
  BY <1>1, Remembered
<1>3. PICK bad, bad2 : bad = mangled /\ bad2 = mangled'
  OBVIOUS
<1>4. PICK t, top2 : t = Top /\ Tally(made, t.list, f.list, top2)
  BY DEF Tally
<1>5. nm \subseteq Nat /\ meta \in nm /\ (bad => bad2)
  BY <1>2, <1>3
<1>6. Good(t, nm, setup.tokenize, bad, made) /\ (setup.tokenize /\ ~Gentle(t.meta_buf) => bad2)
      /\ f = Flushed(t, meta) /\ Tally(made, t.list, f.list, top2)
  BY <1>2, <1>3, <1>4
<1>7. Good(f, nm, setup.tokenize, bad2, top2)
  BY <1>1, <1>5, <1>6, FlushedGood
<1>8. Grows(t.list, f.list, nm, made, top2)
  BY <1>1, <1>5, <1>6, FlushedGood
<1>9. Keeps(t, f)
  BY <1>1, <1>5, <1>6, FlushedGood
<1>10. NumberedTo(t.list, f.list, top2)
  BY <1>1, <1>5, <1>6, FlushedGood
<1> QED BY <1>3, <1>4, <1>7, <1>8, <1>9, <1>10

\* ... and the parser goes on with d.
LEMMA FlushStep ==
  ASSUME SessionInv, phase = "parsing", Same, stash' = stash,
         Learnt(names'), Range(names) \subseteq Range(names'), NEW refs,
         World(held, 1, 1, stack, refs, Range(names'), setup.tokenize, mangled, made),
         NEW meta \in Range(names), NEW f, f = Flushed(Top, meta), Remember(f),
         NEW d, Continue(d, refs), DOMAIN d = DataFields, d.left \in Seq(AllEvents),
         d.meta_buf \in Seq(Char), d.metastack \in Seq(Range(names')), d.metastack # << >>,
         d.nwords = f.nwords, d.list = f.list, d.next = f.next, d.saved = f.saved
  PROVE  SessionInv'
<1>1. setup.tokenize \in BOOLEAN /\ mangled \in BOOLEAN /\ Depth \in 1..Len(stack)
  BY AtWork
<1>2. mangled' \in BOOLEAN /\ (mangled => mangled')
  BY <1>1, Remembered
<1>3. PICK nm : nm = Range(names')
  OBVIOUS
<1>4. World(held, 1, 1, stack, refs, nm, setup.tokenize, mangled, made)
  BY <1>3
<1>5. nm \subseteq Nat /\ Good(Top, nm, setup.tokenize, mangled, made) /\ meta \in nm
  BY <1>1, <1>3, <1>4 DEF World, Parsers, Top
<1>6. PICK bad2, top2 : /\ bad2 = mangled' /\ Good(f, nm, setup.tokenize, bad2, top2)
                        /\ Grows(Top.list, f.list, nm, made, top2)
                        /\ Keeps(Top, f) /\ NumberedTo(Top.list, f.list, top2)
  BY <1>5, FlushedTop
<1>12. Good(d, nm, setup.tokenize, bad2, top2)
  BY <1>3, <1>6, GoodEdited
<1>13. Len(d.list.tokens) > Len(Top.list.tokens) => d.list.made = top2
  BY <1>6 DEF NumberedTo
<1>14. Good(d, Range(names'), setup.tokenize, mangled', top2)
       /\ Grows(Top.list, d.list, Range(names'), made, top2)
       /\ d.saved = Top.saved /\ d.next = Top.next
  BY <1>3, <1>6, <1>12 DEF Keeps
<1> QED BY <1>2, <1>13, <1>14, ParserStep

\* The metaname of the text, and what is left of the parser when it is flushed.
LEMMA InnerKnown ==
  ASSUME SessionInv, phase = "parsing"
  PROVE  Inner \in Range(names) /\ Len(Top.metastack) \in Nat /\ Top.metastack \in Seq(Range(names))
<1>1. Top.metastack \in Seq(Range(names)) /\ Top.metastack # << >>
  BY AtWork DEF Good
<1> QED BY <1>1 DEF Inner

LEMMA FlushedFields ==
  ASSUME SessionInv, phase = "parsing", NEW meta, NEW f, f = Flushed(Top, meta)
  PROVE  /\ DOMAIN f = DataFields /\ f.left = Top.left /\ f.meta_buf = << >>
         /\ f.metastack = Top.metastack /\ f.left \in Seq(AllEvents)
<1>1. DOMAIN Top = DataFields /\ Top.left \in Seq(AllEvents)
  BY AtWork DEF Good
<1>2. PICK b, l : f = [Top EXCEPT !.buffers = b, !.list = l,
                                  !.nwords = @ + Len(l.tokens) - Len(Top.list.tokens), !.meta_buf = << >>]
  BY DEF Flushed
<1> QED BY <1>1, <1>2 DEF DataFields

LEMMA CloseTagStep == ASSUME SessionInv, CloseTag PROVE SessionInv'
<1>1. phase = "parsing" /\ Top.left # << >> /\ Same /\ names' = names /\ stash' = stash
      /\ Len(Top.metastack) > 1
  BY DEF CloseTag, Reading, Parsing
<1>2. World(held, 1, 1, stack, ref_cnt, Range(names), setup.tokenize, mangled, made) /\ Learnt(names)
      /\ Good(Top, Range(names), setup.tokenize, mangled, made)
  BY <1>1, AtWork
<1>3. PICK f : /\ f = Flushed(Top, Inner) /\ Remember(f)
               /\ Continue([Read(f) EXCEPT !.bump_word = TRUE, !.metastack = SubSeq(@, 1, Len(@) - 1)],
                           ref_cnt)
  BY DEF CloseTag
<1>4. PICK d : d = [Read(f) EXCEPT !.bump_word = TRUE, !.metastack = SubSeq(@, 1, Len(@) - 1)]
  OBVIOUS
<1>5. Inner \in Range(names) /\ Len(Top.metastack) \in Nat /\ Top.metastack \in Seq(Range(names))
  BY <1>1, InnerKnown
<1>6. DOMAIN f = DataFields /\ f.left = Top.left /\ f.meta_buf = << >> /\ f.metastack = Top.metastack
  BY <1>1, <1>3, FlushedFields
<1>7. DOMAIN d = DataFields /\ d.left = Tail(Top.left) /\ d.meta_buf = << >>
      /\ d.metastack = SubSeq(Top.metastack, 1, Len(Top.metastack) - 1)
      /\ d.nwords = f.nwords /\ d.list = f.list /\ d.next = f.next /\ d.saved = f.saved
  BY <1>4, <1>6 DEF Read, DataFields
<1>8. d.left \in Seq(AllEvents) /\ d.meta_buf \in Seq(Char)
  BY <1>1, <1>2, <1>7, HereType
<1>9. d.metastack \in Seq(Range(names')) /\ d.metastack # << >>
  <2>1. PICK n \in Nat : n = Len(Top.metastack)
    BY <1>5
  <2>2. n > 1 /\ n - 1 \in 1..n /\ d.metastack = SubSeq(Top.metastack, 1, n - 1)
    BY <1>1, <1>7, <2>1
  <2>3. d.metastack \in Seq(Range(names)) /\ Len(d.metastack) = n - 1
    BY <1>5, <2>1, <2>2
  <2> QED BY <1>1, <2>2, <2>3
<1>10. Continue(d, ref_cnt)
  BY <1>3, <1>4
<1>11. Learnt(names') /\ Range(names) \subseteq Range(names')
       /\ World(held, 1, 1, stack, ref_cnt, Range(names'), setup.tokenize, mangled, made)
  BY <1>1, <1>2
<1>12. PICK meta : meta = Inner
  OBVIOUS
<1>13. meta \in Range(names) /\ f = Flushed(Top, meta) /\ Remember(f)
  BY <1>3, <1>5, <1>12
<1>14. stash' = stash /\ Same /\ phase = "parsing"
  BY <1>1
<1> QED BY <1>7, <1>8, <1>9, <1>10, <1>11, <1>13, <1>14, FlushStep

LEMMA EndDocumentStep == ASSUME SessionInv, EndDocument PROVE SessionInv'
<1>1. phase = "parsing" /\ Same /\ names' = names /\ stash' = stash
  BY DEF EndDocument, Parsing
<1>2. World(held, 1, 1, stack, ref_cnt, Range(names), setup.tokenize, mangled, made) /\ Learnt(names)
      /\ Good(Top, Range(names), setup.tokenize, mangled, made) /\ Default \in Range(names)
  BY <1>1, AtWork
<1>3. PICK f : f = Flushed(Top, Default) /\ Remember(f) /\ Continue([f EXCEPT !.ended = TRUE], ref_cnt)
  BY DEF EndDocument
<1>4. PICK d : d = [f EXCEPT !.ended = TRUE]
  OBVIOUS
<1>6. DOMAIN f = DataFields /\ f.left = Top.left /\ f.meta_buf = << >> /\ f.metastack = Top.metastack
      /\ f.left \in Seq(AllEvents)
  BY <1>1, <1>3, FlushedFields
<1>7. DOMAIN d = DataFields /\ d.left = f.left /\ d.meta_buf = << >> /\ d.metastack = Top.metastack
      /\ d.nwords = f.nwords /\ d.list = f.list /\ d.next = f.next /\ d.saved = f.saved
  BY <1>4, <1>6 DEF DataFields
<1>8. d.left \in Seq(AllEvents) /\ d.meta_buf \in Seq(Char)
  BY <1>6, <1>7
<1>9. d.metastack \in Seq(Range(names')) /\ d.metastack # << >>
  BY <1>1, <1>2, <1>7 DEF Good
<1>10. Continue(d, ref_cnt)
  BY <1>3, <1>4
<1>11. Learnt(names') /\ Range(names) \subseteq Range(names')
       /\ World(held, 1, 1, stack, ref_cnt, Range(names'), setup.tokenize, mangled, made)
  BY <1>1, <1>2
<1>14. stash' = stash /\ Same /\ phase = "parsing"
  BY <1>1
<1> QED BY <1>2, <1>3, <1>7, <1>8, <1>9, <1>10, <1>11, <1>14, FlushStep

\* bake_tag learns a name.
LEMMA LearntName ==
  ASSUME Learnt(names), NEW m \in Nat, m \notin Range(names), NEW new, new = Append(names, m)
  PROVE  Learnt(new) /\ Range(new) = Range(names) \cup {m}
<1>1. names \in Seq(Nat) /\ \A i, j \in 1..Len(names) : names[i] = names[j] => i = j
  BY DEF Learnt
<1>2. PICK n \in Nat : n = Len(names)
  BY <1>1
<1>3. new \in Seq(Nat) /\ Len(new) = n + 1 /\ new[n + 1] = m /\ DOMAIN new = 1..(n + 1)
      /\ DOMAIN names = 1..n
  BY <1>1, <1>2
<1>4. \A i \in 1..n : new[i] = names[i]
  BY <1>1, <1>2
<1>5. \A i \in 1..n : names[i] # m
  BY <1>3 DEF Range
<1>6. \A i \in 1..(n + 1) : i \in 1..n \/ i = n + 1
  BY <1>2
<1>7. Learnt(new)
  <2>1. ASSUME NEW i \in 1..(n + 1), NEW j \in 1..(n + 1), new[i] = new[j] PROVE i = j
    BY <1>1, <1>2, <1>3, <1>4, <1>5, <1>6, <2>1
  <2> QED BY <1>3, <2>1 DEF Learnt
<1>8. \A x : x \in Range(new) <=> x \in Range(names) \/ x = m
  <2>1. ASSUME NEW x \in Range(new) PROVE x \in Range(names) \/ x = m
    <3>1. PICK i \in 1..(n + 1) : x = new[i]
      BY <1>3 DEF Range
    <3> QED BY <1>3, <1>4, <1>6, <3>1 DEF Range
  <2>2. ASSUME NEW x \in Range(names) PROVE x \in Range(new)
    <3>1. PICK i \in 1..n : x = names[i]
      BY <1>3 DEF Range
    <3>2. i \in 1..(n + 1) /\ new[i] = x
      BY <1>2, <1>4, <3>1
    <3> QED BY <1>3, <3>2 DEF Range
  <2>3. m \in Range(new)
    <3>1. n + 1 \in 1..(n + 1)
      BY <1>2
    <3> QED BY <1>3, <3>1 DEF Range
  <2> QED BY <2>1, <2>2, <2>3
<1> QED BY <1>7, <1>8

LEMMA OpenTagStep == ASSUME SessionInv, OpenTag PROVE SessionInv'
<1>1. phase = "parsing" /\ Top.left # << >> /\ Same /\ stash' = stash
  BY DEF OpenTag, Reading, Parsing
<1>2. World(held, 1, 1, stack, ref_cnt, Range(names), setup.tokenize, mangled, made) /\ Learnt(names)
      /\ Good(Top, Range(names), setup.tokenize, mangled, made)
  BY <1>1, AtWork
<1>3. PICK m, refs, f :
        /\ m = Here.meta /\ refs = (IF Known THEN ref_cnt ELSE Allocate(ref_cnt, Meta(m), 1))
        /\ f = Flushed(Top, Inner) /\ Remember(f) /\ names' = (IF Known THEN names ELSE Append(names, m))
        /\ Continue([Read(f) EXCEPT
                        !.bump_word = TRUE, !.metastack = Append(@, m),
                        !.buffers = IF m \in DOMAIN @ \/ Known THEN @
                                    ELSE [n \in DOMAIN @ \cup {m} |->
                                            IF n = m THEN << >> ELSE @[n]]], refs)
  BY DEF OpenTag
<1>4. PICK d, b : /\ d = [Read(f) EXCEPT !.bump_word = TRUE, !.metastack = Append(@, m), !.buffers = b]
                  /\ Continue(d, refs)
  BY <1>3
<1>5. Inner \in Range(names) /\ Top.metastack \in Seq(Range(names))
  BY <1>1, InnerKnown
<1>6. DOMAIN f = DataFields /\ f.left = Top.left /\ f.meta_buf = << >> /\ f.metastack = Top.metastack
  BY <1>1, <1>3, FlushedFields
<1>7. DOMAIN d = DataFields /\ d.left = Tail(Top.left) /\ d.meta_buf = << >>
      /\ d.metastack = Append(Top.metastack, m)
      /\ d.nwords = f.nwords /\ d.list = f.list /\ d.next = f.next /\ d.saved = f.saved
  BY <1>4, <1>6 DEF Read, DataFields
<1>8. d.left \in Seq(AllEvents) /\ d.meta_buf \in Seq(Char) /\ m \in Nat
  BY <1>1, <1>2, <1>3, <1>7, HereType
<1>9. /\ Learnt(names') /\ Range(names) \subseteq Range(names') /\ m \in Range(names')
      /\ World(held, 1, 1, stack, refs, Range(names'), setup.tokenize, mangled, made)
  <2>1. CASE Known
    <3>1. m \in Range(names) /\ names' = names /\ refs = ref_cnt
      BY <1>3, <2>1 DEF Known
    <3> QED BY <1>2, <3>1
  <2>2. CASE ~Known
    <3>1. m \notin Range(names) /\ names' = Append(names, m) /\ refs = Allocate(ref_cnt, Meta(m), 1)
      BY <1>3, <2>2 DEF Known
    <3>2. PICK new : new = names'
      OBVIOUS
    <3>3. Learnt(new) /\ Range(new) = Range(names) \cup {m}
      BY <1>2, <1>8, <3>1, <3>2, LearntName
    <3>4. World(held, 1, 1, stack, refs, Range(names) \cup {m}, setup.tokenize, mangled, made)
      BY <1>2, <1>8, <3>1, LearnWorld
    <3> QED BY <3>2, <3>3, <3>4
  <2> QED BY <2>1, <2>2
<1>10. d.metastack \in Seq(Range(names')) /\ d.metastack # << >>
  <2>1. PICK nm, ms : nm = Range(names') /\ ms = Top.metastack
    OBVIOUS
  <2>2. ms \in Seq(nm) /\ m \in nm
    <3>1. Range(names) \subseteq nm /\ ms \in Seq(Range(names)) /\ m \in nm
      BY <1>5, <1>9, <2>1
    <3> QED BY <3>1
  <2>3. Append(ms, m) \in Seq(nm) /\ Append(ms, m) # << >>
    <3>1. Append(ms, m) \in Seq(nm)
      BY <2>2
    <3>2. Len(Append(ms, m)) = Len(ms) + 1 /\ Len(ms) \in Nat
      BY <2>2
    <3>3. Len(Append(ms, m)) # 0
      BY <3>2
    <3>4. \A x \in Seq(nm) : x = << >> => Len(x) = 0
      OBVIOUS
    <3> QED BY <3>1, <3>3, <3>4
  <2> QED BY <1>7, <2>1, <2>3
<1>12. PICK meta : meta = Inner
  OBVIOUS
<1>13. meta \in Range(names) /\ f = Flushed(Top, meta) /\ Remember(f) /\ Continue(d, refs)
  BY <1>3, <1>4, <1>5, <1>12
<1>14. stash' = stash /\ Same /\ phase = "parsing"
  BY <1>1
<1> QED BY <1>7, <1>8, <1>9, <1>10, <1>13, <1>14, FlushStep

LEMMA PassIncludeStep == ASSUME SessionInv, PassInclude PROVE SessionInv'
<1>1. phase = "parsing" /\ Top.left # << >> /\ Same /\ names' = names /\ stash' = stash
  BY DEF PassInclude, Reading, Parsing
<1>2. World(held, 1, 1, stack, ref_cnt, Range(names), setup.tokenize, mangled, made) /\ Learnt(names)
      /\ Good(Top, Range(names), setup.tokenize, mangled, made)
  BY <1>1, AtWork
<1>3. Tail(Top.left) \in Seq(AllEvents)
  BY <1>1, <1>2, HereType
<1>4. CASE setup.follow
  <2>1. PICK f, d : f = Flushed(Top, Inner) /\ Remember(f) /\ d = Read(f) /\ Continue(d, ref_cnt)
    BY <1>4 DEF PassInclude
  <2>2. DOMAIN f = DataFields /\ f.left = Top.left /\ f.meta_buf = << >> /\ f.metastack = Top.metastack
    BY <1>1, <2>1, FlushedFields
  <2>3. DOMAIN d = DataFields /\ d.left = Tail(Top.left) /\ d.meta_buf = << >>
        /\ d.metastack = Top.metastack
        /\ d.nwords = f.nwords /\ d.list = f.list /\ d.next = f.next /\ d.saved = f.saved
    BY <2>1, <2>2 DEF Read, DataFields
  <2>4. d.left \in Seq(AllEvents) /\ d.meta_buf \in Seq(Char)
    BY <1>3, <2>3
  <2>5. d.metastack \in Seq(Range(names')) /\ d.metastack # << >>
    BY <1>1, <1>2, <2>3 DEF Good
  <2>6. Learnt(names') /\ Range(names) \subseteq Range(names')
        /\ World(held, 1, 1, stack, ref_cnt, Range(names'), setup.tokenize, mangled, made)
    BY <1>1, <1>2
  <2>7. PICK meta : meta = Inner
    OBVIOUS
  <2>8. meta \in Range(names) /\ f = Flushed(Top, meta) /\ Remember(f) /\ Continue(d, ref_cnt)
    BY <1>1, <2>1, <2>7, InnerKnown
  <2>9. stash' = stash /\ Same /\ phase = "parsing"
    BY <1>1
  <2> QED BY <2>3, <2>4, <2>5, <2>6, <2>8, <2>9, FlushStep
<1>5. CASE ~setup.follow
  <2>1. PICK d : d = Read(Top) /\ Continue(d, ref_cnt)
    BY <1>5 DEF PassInclude
  <2>2. DOMAIN Top = DataFields /\ Top.meta_buf \in Seq(Char)
    BY <1>2 DEF Good
  <2>3. DOMAIN d = DataFields /\ d.left = Tail(Top.left) /\ d.meta_buf = Top.meta_buf
        /\ d.metastack = Top.metastack /\ d.nwords = Top.nwords /\ d.list = Top.list
        /\ d.next = Top.next /\ d.saved = Top.saved
    BY <2>1, <2>2 DEF Read, DataFields
  <2>4. UNCHANGED <<names, stash, mangled>>
    BY <1>5 DEF PassInclude
  <2> QED BY <1>1, <1>3, <2>1, <2>2, <2>3, <2>4, PlainStep
<1> QED BY <1>4, <1>5

\* A file that is included is read as text, or not.
LEMMA ParserDataStarts ==
  ASSUME made \in Nat, Default \in Range(names), NEW u \in DOMAIN Files, NEW as_text,
         NEW saved, NEW tokenize, NEW bad, NEW d, d = ParserData(u, as_text, saved)
  PROVE  /\ Good(d, Range(names), tokenize, bad, made) /\ d.list.tokens = << >> /\ d.saved = saved
         /\ d.next = 1
<1>1. PICK b \in BOOLEAN : b = IF as_text \/ Files[u].parser = "TXT" THEN TRUE ELSE FALSE
  OBVIOUS
<1>2. EventsOf(u, as_text) = EventsOf(u, b)
  BY <1>1 DEF EventsOf
<1>3. d = ParserData(u, b, saved)
  BY <1>2 DEF ParserData
<1> QED BY <1>3, ParserDataGood

LEMMA EnterIncludeStep == ASSUME SessionInv, EnterInclude PROVE SessionInv'
<1>1. phase = "parsing" /\ Top.left # << >> /\ Same /\ names' = names /\ stash' = Depth
      /\ Here.uri \in DOMAIN Files /\ Depth < MaxDepth
  BY DEF EnterInclude, Reading, Parsing, Followed
<1>2. World(held, 1, 1, stack, ref_cnt, Range(names), setup.tokenize, mangled, made) /\ Learnt(names)
      /\ Good(Top, Range(names), setup.tokenize, mangled, made) /\ Default \in Range(names)
      /\ Range(names) \subseteq Nat /\ made \in Nat /\ setup.tokenize \in BOOLEAN /\ mangled \in BOOLEAN
      /\ stack \in Seq(Range(stack)) /\ Depth = Len(stack) /\ Depth \in 1..Len(stack) /\ Top.next = 1
  BY <1>1, AtWork
<1>3. PICK f, d, new :
        /\ f = Flushed(Top, Inner) /\ Remember(f) /\ d = Read(f)
        /\ new = ParserData(Here.uri, Here.as_text, stash)
        /\ stack' = Append([stack EXCEPT ![Depth] = d], new)
        /\ ref_cnt' = StartParser(CountTokens(ref_cnt, f.list, Len(Top.list.tokens) + 1), Depth + 1)
        /\ made' = IF f.list.made > made THEN f.list.made ELSE made
  BY DEF EnterInclude
<1>4. PICK t, nm, bad : t = Top /\ nm = Range(names) /\ bad = mangled
  OBVIOUS
<1>5. mangled' \in BOOLEAN /\ (mangled => mangled')
  BY <1>2, <1>3, Remembered
<1>6. PICK bad2, top2 : /\ bad2 = mangled' /\ Good(f, nm, setup.tokenize, bad2, top2)
                        /\ Grows(Top.list, f.list, nm, made, top2)
                        /\ Keeps(Top, f) /\ NumberedTo(Top.list, f.list, top2)
  <2>1. PICK meta : meta = Inner
    OBVIOUS
  <2>2. meta \in nm /\ f = Flushed(Top, meta) /\ Good(Top, nm, setup.tokenize, mangled, made) /\ nm \subseteq Nat
    BY <1>1, <1>2, <1>3, <1>4, <2>1, InnerKnown
  <2> QED BY <1>1, <1>3, <2>2, FlushedTop
<1>7. Good(t, nm, setup.tokenize, bad, made) /\ (bad => bad2)
  BY <1>2, <1>4, <1>5, <1>6
<1>11. DOMAIN f = DataFields /\ f.left = Top.left /\ f.meta_buf = << >> /\ f.metastack = Top.metastack
  BY <1>1, <1>3, FlushedFields
<1>12. DOMAIN d = DataFields /\ d.left = Tail(Top.left) /\ d.meta_buf = << >>
       /\ d.metastack = Top.metastack
       /\ d.nwords = f.nwords /\ d.list = f.list /\ d.next = f.next /\ d.saved = f.saved
  BY <1>3, <1>11 DEF Read, DataFields
<1>13. Good(d, nm, setup.tokenize, bad2, top2)
  <2>1. d.left \in Seq(AllEvents) /\ d.meta_buf \in Seq(Char)
    BY <1>1, <1>2, <1>12, HereType
  <2>2. d.metastack \in Seq(nm) /\ d.metastack # << >>
    BY <1>4, <1>7, <1>12 DEF Good
  <2> QED BY <1>6, <1>12, <2>1, <2>2, GoodEdited
<1>14. made' = top2 /\ top2 \in Nat /\ made <= top2
  <2>1. PICK x, y \in Nat : x = Len(f.list.tokens) /\ y = Len(t.list.tokens)
    <3>1. Sound(t.list) /\ Sound(f.list)
      BY <1>6, <1>7 DEF Good
    <3> QED BY <3>1 DEF Sound, Lists
  <2>2. PICK z \in Nat : z = f.list.made
    BY <1>6 DEF Good, Sound, Lists
  <2>3. y <= x /\ top2 = made + (x - y) /\ made' = (IF z > made THEN z ELSE made)
        /\ (x > y => z = top2) /\ z <= top2
    BY <1>3, <1>4, <1>6, <2>1, <2>2 DEF Grows, NumberedTo, Good
  <2>4. made \in Nat
    BY <1>2
  <2> QED BY <2>3, <2>4
<1>15. PICK st1, refs1 : /\ st1 = [stack EXCEPT ![Depth] = d]
                         /\ refs1 = CountTokens(ref_cnt, d.list, Len(stack[Depth].list.tokens) + 1)
  OBVIOUS
<1>16. World(held, 1, 1, st1, refs1, nm, setup.tokenize, bad2, top2)
  <2>1. PICK k : k = Depth
    OBVIOUS
  <2>2. World(held, 1, 1, stack, ref_cnt, nm, setup.tokenize, bad, made) /\ k \in 1..Len(stack)
        /\ (bad => bad2) /\ Grows(stack[k].list, d.list, nm, made, top2)
        /\ Good(d, nm, setup.tokenize, bad2, top2)
    BY <1>2, <1>4, <1>6, <1>7, <1>12, <1>13, <2>1 DEF Top
  <2>3. World(held, 1, 1, [stack EXCEPT ![k] = d],
              CountTokens(ref_cnt, d.list, Len(stack[k].list.tokens) + 1),
              nm, setup.tokenize, bad2, top2)
    BY <2>2, GrowWorld
  <2> QED BY <1>15, <2>1, <2>3
<1>17. Len(st1) = Depth /\ st1 \in Seq(Range(stack) \cup {d}) /\ Len(stack) \in Nat
  BY <1>2, <1>15
<1>18. Good(new, nm, setup.tokenize, bad2, top2) /\ new.list.tokens = << >> /\ new.saved = stash
       /\ new.next = 1
  <2>1. PICK text, u : text = Here.as_text /\ u = Here.uri
    OBVIOUS
  <2>2. u \in DOMAIN Files /\ new = ParserData(u, text, stash) /\ Default \in Range(names) /\ made \in Nat
    BY <1>1, <1>2, <1>3, <2>1
  <2>3. Good(new, Range(names), setup.tokenize, bad2, made)
    BY <2>2, ParserDataStarts
  <2>4. new.list.tokens = << >> /\ new.saved = stash /\ new.next = 1
    BY <2>2, ParserDataStarts
  <2>5. Good(new, nm, setup.tokenize, bad2, made) /\ nm \subseteq nm /\ (bad2 => bad2)
    BY <1>4, <2>3
  <2>6. Good(new, nm, setup.tokenize, bad2, top2)
    BY <1>2, <1>14, <2>5, GoodStays
  <2> QED BY <2>4, <2>6
<1>19. World(held, 1, 1, Append(st1, new), StartParser(refs1, Len(st1) + 1), nm, setup.tokenize, bad2, top2)
  <2>1. Iterator(Len(st1) + 1) \notin held
    BY <1>1, <1>17 DEF SessionInv, HeldFits
  <2> QED BY <1>16, <1>18, <2>1, PushWorld
<1>20. stack' = Append(st1, new) /\ ref_cnt' = StartParser(refs1, Len(st1) + 1)
  BY <1>3, <1>12, <1>15, <1>17 DEF Top
<1>21. Len(stack') = Depth + 1 /\ Depth' = Depth + 1 /\ stack' # << >> /\ stack'[Depth + 1] = new
       /\ \A i \in 1..Depth : stack'[i] = st1[i]
  BY <1>17, <1>20 DEF Depth
<1>22. PhaseFits'
  BY <1>1, <1>21 DEF SessionInv, PhaseFits, Same
<1>23. SettingsFit'
  BY <1>1, <1>5 DEF SessionInv, SettingsFit, Same
<1>24. StackFits'
  <2>1. PICK n \in Nat : n = Depth /\ n >= 1
    BY <1>2, <1>17
  <2>2. stash = n - 1 /\ \A i \in 1..n : stack[i].saved = (IF i = 1 THEN 0 ELSE i - 2) /\ stack[i].next = 1
    BY <1>1, <2>1 DEF SessionInv, StackFits
  <2>3. d.saved = stack[n].saved /\ d.next = 1
    BY <1>2, <1>4, <1>6, <1>12, <2>1 DEF Keeps, Top
  <2>4. \A i \in 1..n : st1[i].saved = (IF i = 1 THEN 0 ELSE i - 2) /\ st1[i].next = 1
    BY <1>2, <1>15, <2>1, <2>2, <2>3
  <2>5. new.saved = (n + 1) - 2 /\ n + 1 # 1
    BY <1>18, <2>1, <2>2
  <2>6. \A i \in 1..(n + 1) : i \in 1..n \/ i = n + 1
    BY <2>1
  <2>7. \A i \in 1..(n + 1) : stack'[i].saved = (IF i = 1 THEN 0 ELSE i - 2) /\ stack'[i].next = 1
    BY <1>18, <1>21, <2>1, <2>4, <2>5, <2>6
  <2>8. Depth' = n + 1 /\ stash' = n /\ n + 1 <= MaxDepth
    BY <1>1, <1>21, <2>1, FileAssumption
  <2>9. stash' = (IF Depth' = 0 THEN 0 ELSE Depth' - 1)
    BY <2>1, <2>8
  <2> QED BY <2>7, <2>8, <2>9 DEF StackFits
<1>25. HeldFits'
  BY <1>1 DEF SessionInv, HeldFits, Same
<1>26. CurrentFits'
  BY <1>1 DEF SessionInv, CurrentFits, Same
<1>27. CountsFit'
  <2>1. UpNow' = 1 /\ ConfNow' = 1
    BY <1>1 DEF Same, UpNow, ConfNow
  <2>2. World(held, 1, 1, stack', ref_cnt', Range(names'), setup.tokenize, mangled', made')
    BY <1>1, <1>4, <1>6, <1>14, <1>19, <1>20
  <2> QED BY <1>1, <2>1, <2>2 DEF CountsFit, Same
<1> QED BY <1>22, <1>23, <1>24, <1>25, <1>26, <1>27 DEF SessionInv

LEMMA LeaveIncludeStep == ASSUME SessionInv, LeaveInclude PROVE SessionInv'
<1>1. phase = "parsing" /\ Same /\ names' = names /\ mangled' = mangled /\ stash' = Top.saved /\ Depth > 1
  BY DEF LeaveInclude
<1>2. World(held, 1, 1, stack, ref_cnt, Range(names), setup.tokenize, mangled, made)
      /\ Good(Top, Range(names), setup.tokenize, mangled, made)
      /\ Range(names) \subseteq Nat /\ made \in Nat /\ setup.tokenize \in BOOLEAN
      /\ stack \in Seq(Range(stack)) /\ Depth = Len(stack) /\ Top.next = 1
  BY <1>1, AtWork
<1>3. PICK n \in Nat : n = Depth /\ n = Len(stack) /\ n > 1
  BY <1>1, <1>2
<1>4. stash = n - 1 /\ n <= MaxDepth
      /\ \A i \in 1..n : stack[i].saved = (IF i = 1 THEN 0 ELSE i - 2) /\ stack[i].next = 1
  BY <1>1, <1>3 DEF SessionInv, StackFits
<1>5. PICK k, p, t, nm : k = stash /\ p = stack[stash] /\ t = Top /\ nm = Range(names)
  OBVIOUS
<1>6. k \in 1..n /\ k = n - 1 /\ k # n /\ p = stack[k] /\ t = stack[n]
  <2>1. k = n - 1 /\ p = stack[k] /\ t = stack[n]
    BY <1>3, <1>4, <1>5 DEF Top
  <2>2. n - 1 \in 1..n /\ n - 1 # n
    BY <1>3
  <2> QED BY <2>1, <2>2
<1>7. Good(p, nm, setup.tokenize, mangled, made) /\ Good(t, nm, setup.tokenize, mangled, made) /\ t.next = 1
  BY <1>2, <1>3, <1>5, <1>6 DEF World, Parsers
<1>8. PICK q : /\ q = Merged(p, t)
               /\ stack' = SubSeq([stack EXCEPT ![stash] = q], 1, Depth - 1)
               /\ ref_cnt' = FreeParserData(
                                CountTokens(ref_cnt, q.list, Len(stack[stash].list.tokens) + 1),
                                Depth, Top.list)
               /\ made' = q.list.made
  BY <1>5 DEF LeaveInclude
<1>9. PICK bad, top2 : bad = mangled /\ Tally(made, p.list, q.list, top2)
  BY DEF Tally
<1>10. /\ setup.tokenize \in BOOLEAN /\ made \in Nat /\ nm \subseteq Nat
       /\ Good(p, nm, setup.tokenize, bad, made) /\ Good(t, nm, setup.tokenize, bad, made)
       /\ t.next = 1 /\ q = Merged(p, t) /\ Tally(made, p.list, q.list, top2)
  BY <1>2, <1>5, <1>7, <1>8, <1>9
<1>11. Good(q, nm, setup.tokenize, bad, top2)
  BY <1>10, MergedGood
<1>12. Grows(p.list, q.list, nm, made, top2)
  BY <1>10, MergedGood
<1>13. Keeps(p, q)
  BY <1>10, MergedGood
<1>14. q.list.made = top2
  <2>1. LastMade(q.list, top2)
    BY <1>10, MergedGood
  <2> QED BY <2>1 DEF LastMade
<1>15. PICK st1, refs1 : /\ st1 = [stack EXCEPT ![k] = q]
                         /\ refs1 = CountTokens(ref_cnt, q.list, Len(stack[k].list.tokens) + 1)
  OBVIOUS
<1>16. World(held, 1, 1, st1, refs1, nm, setup.tokenize, bad, top2)
  <2>1. World(held, 1, 1, stack, ref_cnt, nm, setup.tokenize, bad, made) /\ k \in 1..Len(stack)
        /\ (bad => bad) /\ Grows(stack[k].list, q.list, nm, made, top2)
        /\ Good(q, nm, setup.tokenize, bad, top2)
    BY <1>2, <1>3, <1>5, <1>6, <1>9, <1>11, <1>12
  <2>2. World(held, 1, 1, [stack EXCEPT ![k] = q],
              CountTokens(ref_cnt, q.list, Len(stack[k].list.tokens) + 1),
              nm, setup.tokenize, bad, top2)
    BY <2>1, GrowWorld
  <2> QED BY <1>15, <2>2
<1>17. Len(st1) = n /\ st1[n] = t /\ st1[k] = q /\ \A i \in 1..(n - 1) : i # k => st1[i] = stack[i]
  BY <1>2, <1>3, <1>6, <1>15
<1>18. World(held, 1, 1, SubSeq(st1, 1, Len(st1) - 1), FreeParserData(refs1, Len(st1), st1[Len(st1)].list),
             nm, setup.tokenize, bad, top2)
  <2>1. Iterator(Len(st1)) \notin held /\ Len(st1) > 0
    BY <1>1, <1>3, <1>17 DEF SessionInv, HeldFits
  <2> QED BY <1>16, <2>1, PopWorld
<1>19. stack' = SubSeq(st1, 1, n - 1)
       /\ ref_cnt' = FreeParserData(refs1, Len(st1), st1[Len(st1)].list)
  BY <1>3, <1>5, <1>8, <1>15, <1>17
<1>20. Len(stack') = n - 1 /\ Depth' = n - 1 /\ stack' # << >> /\ \A i \in 1..(n - 1) : stack'[i] = st1[i]
  <2>1. st1 \in Seq(Range(stack) \cup {q})
    <3>1. k \in 1..Len(stack) /\ stack \in Seq(Range(stack))
      BY <1>2, <1>3, <1>6
    <3> QED BY <1>15, <3>1
  <2>2. \A i \in 1..(n - 1) : i \in 1..n
    BY <1>3
  <2>3. Len(stack') = n - 1 /\ \A i \in 1..(n - 1) : stack'[i] = st1[i]
    BY <1>3, <1>17, <1>19, <2>1, <2>2
  <2>4. stack' # << >>
    BY <1>3, <2>3
  <2> QED BY <2>3, <2>4 DEF Depth
<1>21. PhaseFits'
  BY <1>1, <1>20 DEF SessionInv, PhaseFits, Same
<1>22. SettingsFit'
  BY <1>1 DEF SessionInv, SettingsFit, Same
<1>23. StackFits'
  <2>1. \A i \in 1..(n - 1) : i \in 1..n
    BY <1>3
  <2>2. \A i \in 1..(n - 1) : stack'[i].saved = stack[i].saved /\ stack'[i].next = stack[i].next
    BY <1>6, <1>13, <1>17, <1>20 DEF Keeps
  <2>3. \A i \in 1..(n - 1) : stack'[i].saved = (IF i = 1 THEN 0 ELSE i - 2) /\ stack'[i].next = 1
    BY <1>4, <2>1, <2>2
  <2>4. stash' = n - 2
    <3>1. n \in 1..n /\ n # 1
      BY <1>3
    <3> QED BY <1>1, <1>4, <1>5, <1>6, <3>1
  <2>5. stash' = (IF Depth' = 0 THEN 0 ELSE Depth' - 1) /\ Depth' <= MaxDepth
    BY <1>3, <1>4, <1>20, <2>4, FileAssumption
  <2> QED BY <1>20, <2>3, <2>5 DEF StackFits
<1>24. HeldFits'
  BY <1>1 DEF SessionInv, HeldFits, Same
<1>25. CurrentFits'
  BY <1>1 DEF SessionInv, CurrentFits, Same
<1>26. CountsFit'
  <2>1. UpNow' = 1 /\ ConfNow' = 1
    BY <1>1 DEF Same, UpNow, ConfNow
  <2>2. World(held, 1, 1, stack', ref_cnt', Range(names'), setup.tokenize, mangled', made')
    BY <1>1, <1>5, <1>8, <1>9, <1>14, <1>17, <1>18, <1>19
  <2> QED BY <1>1, <2>1, <2>2 DEF CountsFit, Same
<1> QED BY <1>21, <1>22, <1>23, <1>24, <1>25, <1>26 DEF SessionInv

-----------------------------------------------------------------------------
(* The program's steps.                                                    *)

LEMMA ParseFileStep == ASSUME SessionInv, ParseFile PROVE SessionInv'
<1>1. phase = "idle" /\ phase' = "parsing" /\ todo[1] \in DOMAIN Files
      /\ UNCHANGED <<setup, names, held, stash, made, current, flushed, mangled>>
      /\ ref_cnt' = StartParser(ref_cnt, 1)
  BY DEF ParseFile, Asked
<1>2. PICK d : d = ParserData(todo[1], FALSE, 0) /\ stack' = <<d>>
  BY DEF ParseFile
<1>3. UpNow = 1 /\ ConfNow = 1 /\ stack = << >> /\ Default \in Range(names) /\ Depth = 0
  BY <1>1 DEF SessionInv, PhaseFits, SettingsFit, UpNow, ConfNow, Depth
<1>4. World(held, 1, 1, << >>, ref_cnt, Range(names), setup.tokenize, mangled, made) /\ made \in Nat
  BY <1>3 DEF SessionInv, CountsFit, World, Parsers
<1>5. Good(d, Range(names), setup.tokenize, mangled, made) /\ d.list.tokens = << >> /\ d.saved = 0 /\ d.next = 1
  <2>1. PICK u, b : u = todo[1] /\ b = FALSE
    OBVIOUS
  <2>2. d = ParserData(u, b, 0) /\ u \in DOMAIN Files /\ made \in Nat
    BY <1>1, <1>2, <1>4, <2>1
  <2>3. Good(d, Range(names), setup.tokenize, mangled, made)
    BY <1>3, <2>2, ParserDataStarts
  <2>4. d.list.tokens = << >> /\ d.saved = 0 /\ d.next = 1
    BY <1>3, <2>2, ParserDataStarts
  <2> QED BY <2>3, <2>4
<1>6. World(held, 1, 1, <<d>>, StartParser(ref_cnt, 1), Range(names), setup.tokenize, mangled, made)
  <2>1. PICK st : st = << >>
    OBVIOUS
  <2>2. Len(st) = 0 /\ Len(st) + 1 = 1 /\ Append(st, d) = <<d>>
    BY <2>1
  <2>3. Iterator(Len(st) + 1) \notin held
    BY <1>1, <2>2 DEF SessionInv, HeldFits
  <2>4. World(held, 1, 1, st, ref_cnt, Range(names), setup.tokenize, mangled, made)
    BY <1>4, <2>1
  <2>5. World(held, 1, 1, Append(st, d), StartParser(ref_cnt, Len(st) + 1), Range(names),
              setup.tokenize, mangled, made)
    BY <1>5, <2>3, <2>4, PushWorld
  <2> QED BY <2>2, <2>5
<1>7. Depth' = 1 /\ stack' # << >> /\ stack'[1] = d
  BY <1>2 DEF Depth
<1>8. PhaseFits'
  BY <1>1, <1>7 DEF PhaseFits
<1>9. SettingsFit'
  BY <1>1, <1>3 DEF SessionInv, SettingsFit
<1>10. StackFits'
  BY <1>1, <1>3, <1>5, <1>7, FileAssumption DEF SessionInv, StackFits
<1>11. HeldFits'
  BY <1>1 DEF SessionInv, HeldFits
<1>12. CurrentFits'
  BY <1>1 DEF SessionInv, CurrentFits
<1>13. CountsFit'
  <2>1. UpNow' = 1 /\ ConfNow' = 1
    BY <1>1 DEF UpNow, ConfNow
  <2>2. World(held, 1, 1, stack', ref_cnt', Range(names'), setup.tokenize, mangled', made')
    BY <1>1, <1>2, <1>6
  <2> QED BY <1>1, <2>1, <2>2 DEF CountsFit
<1> QED BY <1>8, <1>9, <1>10, <1>11, <1>12, <1>13 DEF SessionInv

LEMMA SkipFileStep == ASSUME SessionInv, SkipFile PROVE SessionInv'
<1>1. phase = "idle"
      /\ UNCHANGED <<phase, setup, names, held, stack, stash, made, current, flushed, mangled>>
  BY DEF SkipFile
<1>2. UpNow = 1 /\ ConfNow = 1 /\ stack = << >>
  BY <1>1 DEF SessionInv, PhaseFits, UpNow, ConfNow
<1>3. World(held, 1, 1, << >>, ref_cnt, Range(names), setup.tokenize, mangled, made)
  BY <1>2 DEF SessionInv, CountsFit
<1>4. PICK list : list = NewList(made) /\ ref_cnt' = FreeParserData(StartParser(ref_cnt, 1), 1, list)
  BY DEF SkipFile
<1>5. list.tokens = << >>
  BY <1>4 DEF NewList
<1>6. Iterator(1) \notin held
  BY <1>1 DEF SessionInv, HeldFits
<1>7. World(held, 1, 1, << >>, ref_cnt', Range(names), setup.tokenize, mangled, made)
  BY <1>3, <1>4, <1>5, <1>6, VisitWorld
<1>8. PhaseFits' /\ SettingsFit' /\ StackFits' /\ HeldFits' /\ CurrentFits'
  BY <1>1 DEF SessionInv, PhaseFits, SettingsFit, StackFits, HeldFits, CurrentFits, Depth
<1>9. CountsFit'
  <2>1. UpNow' = 1 /\ ConfNow' = 1
    BY <1>1 DEF UpNow, ConfNow
  <2> QED BY <1>1, <1>2, <1>7, <2>1 DEF CountsFit
<1> QED BY <1>8, <1>9 DEF SessionInv

LEMMA ParseDirectoryStep == ASSUME SessionInv, ParseDirectory PROVE SessionInv'
<1>1. UNCHANGED <<phase, setup, names, ref_cnt, held, stack, stash, made, current, mangled>>
  BY DEF ParseDirectory
<1>2. UpNow' = UpNow /\ ConfNow' = ConfNow
  BY <1>1 DEF UpNow, ConfNow
<1>3. PhaseFits' /\ SettingsFit' /\ StackFits' /\ HeldFits' /\ CurrentFits'
  BY <1>1 DEF SessionInv, PhaseFits, SettingsFit, StackFits, HeldFits, CurrentFits, Depth
<1>4. CountsFit'
  BY <1>1, <1>2 DEF SessionInv, CountsFit
<1> QED BY <1>3, <1>4 DEF SessionInv

\* Only the phase changes.
LEMMA PhaseStep ==
  ASSUME SessionInv, phase \in {"idle", "parsing"}, phase' \in {"dead", "handler"},
         phase' = "handler" => phase = "parsing" /\ Depth = 1,
         UNCHANGED <<setup, names, ref_cnt, held, stack, stash, made, current, mangled>>
  PROVE  SessionInv'
<1>1. UpNow' = UpNow /\ ConfNow' = ConfNow
  BY DEF UpNow, ConfNow
<1>2. PhaseFits'
  BY DEF SessionInv, PhaseFits, Depth
<1>3. SettingsFit' /\ HeldFits' /\ CurrentFits'
  BY DEF SessionInv, SettingsFit, HeldFits, CurrentFits
<1>4. StackFits'
  BY DEF SessionInv, StackFits, Depth
<1>5. CountsFit'
  BY <1>1 DEF SessionInv, CountsFit
<1> QED BY <1>2, <1>3, <1>4, <1>5 DEF SessionInv

LEMMA UnknownFileStep == ASSUME SessionInv, UnknownFile PROVE SessionInv'
BY PhaseStep DEF UnknownFile, Asked

LEMMA OutOfStackStep == ASSUME SessionInv, OutOfStack PROVE SessionInv'
BY PhaseStep DEF OutOfStack, Reading, Parsing

LEMMA OverrunStep == ASSUME SessionInv, Overrun PROVE SessionInv'
BY PhaseStep DEF Overrun, Parsing

LEMMA CallHandlerStep == ASSUME SessionInv, CallHandler PROVE SessionInv'
BY PhaseStep DEF CallHandler

\* What is known in the handler.
LEMMA InHandler ==
  ASSUME SessionInv, phase = "handler"
  PROVE  /\ stack \in Seq(Range(stack)) /\ Len(stack) = 1 /\ Depth = 1 /\ Top = stack[1]
         /\ World(held, 1, 1, stack, ref_cnt, Range(names), setup.tokenize, mangled, made)
         /\ Good(stack[1], Range(names), setup.tokenize, mangled, made) /\ made \in Nat
<1>1. UpNow = 1 /\ ConfNow = 1
  BY DEF UpNow, ConfNow
<1>2. World(held, 1, 1, stack, ref_cnt, Range(names), setup.tokenize, mangled, made)
  BY <1>1 DEF SessionInv, CountsFit
<1>3. stack \in Seq(Range(stack)) /\ Depth = 1 /\ Len(stack) = 1 /\ made \in Nat
  BY <1>2 DEF SessionInv, PhaseFits, World, Parsers, Depth
<1>4. Good(stack[1], Range(names), setup.tokenize, mangled, made)
  BY <1>2, <1>3 DEF World, Parsers
<1> QED BY <1>2, <1>3, <1>4 DEF Top

LEMMA NextTokenStep == ASSUME SessionInv, NextToken PROVE SessionInv'
<1>1. phase = "handler" /\ Top.next <= Len(Top.list.tokens) /\ current' = <<Top.list.tokens[Top.next]>>
      /\ UNCHANGED <<phase, setup, names, ref_cnt, held, stash, made, mangled>>
  BY DEF NextToken
<1>2. /\ stack \in Seq(Range(stack)) /\ Len(stack) = 1 /\ Depth = 1 /\ Top = stack[1]
      /\ World(held, 1, 1, stack, ref_cnt, Range(names), setup.tokenize, mangled, made)
      /\ Good(stack[1], Range(names), setup.tokenize, mangled, made) /\ made \in Nat
  BY <1>1, InHandler
<1>3. PICK d, t, nm, bad, k :
        /\ t = stack[1] /\ d = [t EXCEPT !.next = @ + 1] /\ nm = Range(names) /\ bad = mangled /\ k = 1
  OBVIOUS
<1>4. stack' = [stack EXCEPT ![k] = d]
  BY <1>2, <1>3 DEF NextToken
<1>5. DOMAIN t = DataFields /\ t.next \in 1..(Len(t.list.tokens) + 1) /\ Len(t.list.tokens) \in Nat
  BY <1>2, <1>3 DEF Good, Sound, Lists
<1>6. /\ DOMAIN d = DataFields /\ d.next = t.next + 1 /\ d.list = t.list /\ d.left = t.left
      /\ d.meta_buf = t.meta_buf /\ d.metastack = t.metastack /\ d.nwords = t.nwords /\ d.saved = t.saved
  BY <1>3, <1>5 DEF DataFields
<1>7. t.next \in 1..Len(t.list.tokens) /\ d.next \in 1..(Len(d.list.tokens) + 1)
  BY <1>1, <1>2, <1>3, <1>5, <1>6
<1>8. Good(d, nm, setup.tokenize, bad, made) /\ Good(t, nm, setup.tokenize, bad, made)
  BY <1>2, <1>3, <1>6, <1>7 DEF Good
<1>9. Grows(t.list, d.list, nm, made, made) /\ (bad => bad) /\ k \in 1..Len(stack) /\ t = stack[k]
  BY <1>2, <1>3, <1>6, <1>8, GrowsNot
<1>10. Parsers(stack, nm, setup.tokenize, bad, made)
  BY <1>2, <1>3 DEF World
<1>11. Parsers(stack', nm, setup.tokenize, bad, made)
  BY <1>4, <1>8, <1>9, <1>10, GrowDistinct
<1>12. ListedIn(stack') = ListedIn(stack)
  <2>1. NewIn(d.list, Len(stack[k].list.tokens) + 1) = {}
    <3>1. PICK n \in Nat : n = Len(t.list.tokens)
      BY <1>5
    <3>2. (n + 1)..n = {}
      OBVIOUS
    <3> QED BY <1>6, <1>9, <3>1, <3>2 DEF NewIn
  <2>2. \A o : o \in ListedIn([stack EXCEPT ![k] = d])
                 <=> o \in ListedIn(stack) \/ o \in NewIn(d.list, Len(stack[k].list.tokens) + 1)
    BY <1>8, <1>9, <1>10, GrowListed
  <2>3. \A o : o \in ListedIn(stack') <=> o \in ListedIn(stack)
    BY <1>4, <2>1, <2>2
  <2>4. PICK x, y : x = ListedIn(stack') /\ y = ListedIn(stack)
    OBVIOUS
  <2>5. \A o : o \in x <=> o \in y
    BY <2>3, <2>4
  <2>6. x = y
    BY <2>5
  <2> QED BY <2>4, <2>6
<1>13. Len(stack') = 1 /\ Depth' = 1 /\ stack'[1] = d /\ stack' # << >>
  <2>1. Len(stack') = 1 /\ stack'[1] = d
    BY <1>2, <1>3, <1>4
  <2>2. stack' # << >>
    BY <2>1
  <2> QED BY <2>1, <2>2 DEF Depth
<1>14. PhaseFits'
  BY <1>1, <1>13 DEF SessionInv, PhaseFits
<1>15. SettingsFit' /\ HeldFits'
  BY <1>1 DEF SessionInv, SettingsFit, HeldFits
<1>16. StackFits'
  <2>1. stash = 0 /\ 1 <= MaxDepth /\ stack[1].saved = 0
    <3>1. 1 \in 1..Depth /\ Depth = 1
      BY <1>2
    <3> QED BY <3>1 DEF SessionInv, StackFits
  <2>2. \A i \in 1..1 : i = 1
    OBVIOUS
  <2>3. stack'[1].saved = 0 /\ stash' = 0 /\ phase' = "handler"
    BY <1>1, <1>3, <1>6, <1>13, <2>1
  <2> QED BY <1>13, <2>1, <2>2, <2>3 DEF StackFits
<1>17. CurrentFits'
  BY <1>1, <1>2, <1>3, <1>6, <1>7, <1>13 DEF CurrentFits
<1>18. CountsFit'
  <2>1. UpNow' = 1 /\ ConfNow' = 1
    BY <1>1 DEF UpNow, ConfNow
  <2>2. World(held, 1, 1, stack', ref_cnt, Range(names), setup.tokenize, mangled, made)
    BY <1>2, <1>3, <1>11, <1>12, <1>13 DEF World
  <2> QED BY <1>1, <2>1, <2>2 DEF CountsFit
<1> QED BY <1>14, <1>15, <1>16, <1>17, <1>18 DEF SessionInv

\* What somebody refers to is there.
LEMMA OwnIsThere ==
  ASSUME NEW h, NEW up, NEW n \in Nat, NEW L, NEW conf, NEW nm, NEW refs,
         Exact(refs, Ledger(h, up, n, L, conf, nm)),
         NEW o \in Objects, o \in h \/ Own(up, n, L, conf, nm, o) > 0
  PROVE  o \in DOMAIN refs
<1> DEFINE base == Ledger(h, up, n, L, conf, nm)
<1>1. Own(up, n, L, conf, nm, o) \in Nat
  BY LedgerType
<1>2. base[o] > 0
  BY <1>1 DEF Ledger
<1> HIDE DEF base
<1>3. Exact(refs, base)
  BY DEF base
<1>4. Owed(refs, base, o) >= base[o] /\ Owed(refs, base, o) \in Nat /\ base[o] \in Nat
  BY <1>3, OwedType
<1>5. Owed(refs, base, o) > 0
  BY <1>2, <1>4
<1> QED BY <1>3, <1>5 DEF Exact

LEMMA OfferedFits ==
  ASSUME SessionInv, phase = "handler", NEW o \in Offered
  PROVE  /\ o \in DOMAIN ref_cnt /\ Holdable(o, Range(names), made)
         /\ \A d \in Nat : o = Iterator(d) => d = 1
<1>1. /\ stack \in Seq(Range(stack)) /\ Len(stack) = 1
      /\ World(held, 1, 1, stack, ref_cnt, Range(names), setup.tokenize, mangled, made)
      /\ Good(stack[1], Range(names), setup.tokenize, mangled, made) /\ made \in Nat
  BY InHandler
<1>2. PICK nm, lst : nm = Range(names) /\ lst = ListedIn(stack)
  OBVIOUS
<1>3. Exact(ref_cnt, Ledger(held, 1, 1, lst, 1, nm)) /\ nm \subseteq Nat
  BY <1>1, <1>2 DEF World, Parsers
<1>4. ASSUME o \in Objects, Own(1, 1, lst, 1, nm, o) > 0 PROVE o \in DOMAIN ref_cnt
  <2>1. 1 \in Nat
    OBVIOUS
  <2> QED BY <1>3, <1>4, <2>1, OwnIsThere
<1>5. CASE o = Config
  <2>1. o \in Objects /\ o.kind = "config"
    BY <1>5, KindsOf
  <2>2. Own(1, 1, lst, 1, nm, o) > 0
    BY <2>1 DEF Own
  <2>3. o # S3 /\ o # Parser /\ \A d \in Nat : o # Iterator(d)
    BY <2>1, KindsOf
  <2> QED BY <1>4, <2>1, <2>2, <2>3 DEF Holdable
<1>6. CASE o = Analyzer
  <2>1. o \in Objects /\ o.kind = "analyzer"
    BY <1>6, KindsOf
  <2>2. Own(1, 1, lst, 1, nm, o) > 0
    BY <2>1 DEF Own
  <2>3. o # S3 /\ o # Parser /\ \A d \in Nat : o # Iterator(d)
    BY <2>1, KindsOf
  <2> QED BY <1>4, <2>1, <2>2, <2>3 DEF Holdable
<1>7. CASE o = Iterator(1)
  <2>1. o \in Objects /\ o.kind = "iterator" /\ o.n = 1
    BY <1>7, KindsOf
  <2>2. Own(1, 1, lst, 1, nm, o) > 0
    BY <2>1 DEF Own
  <2>3. o # S3 /\ o # Parser /\ \A d \in Nat : o = Iterator(d) => d = 1
    BY <2>1, KindsOf
  <2> QED BY <1>4, <2>1, <2>2, <2>3 DEF Holdable
<1>8. ASSUME NEW i \in DOMAIN current, o \in {Token(current[i]), Meta(current[i].meta)}
      PROVE  /\ o \in DOMAIN ref_cnt /\ Holdable(o, Range(names), made)
             /\ \A d \in Nat : o # Iterator(d)
  <2>1. PICK a \in 1..Len(stack[1].list.tokens) : current[i] = stack[1].list.tokens[a]
    BY <1>8 DEF SessionInv, CurrentFits
  <2>2. PICK t : t = stack[1].list.tokens[a]
    OBVIOUS
  <2>3. t \in Tokens /\ t.n \in Nat /\ t.n <= made /\ t.meta \in nm
    BY <1>1, <1>2, <2>2, GoodTokens
  <2>4. CASE o = Token(t)
    <3>1. o \in Objects /\ o.kind = "token" /\ o.n = t.n /\ o.meta = t.meta
      BY <2>3, <2>4, KindsOf
    <3>2. o \in Listing(stack[1])
      BY <2>1, <2>2, <2>4 DEF Listing, TokensUpTo
    <3>3. o \in lst
      BY <1>1, <1>2, <3>2 DEF ListedIn
    <3>4. Own(1, 1, lst, 1, nm, o) > 0
      BY <3>1, <3>3 DEF Own
    <3>5. o # S3 /\ o # Parser /\ \A d \in Nat : o # Iterator(d)
      BY <3>1, KindsOf
    <3> QED BY <1>2, <1>4, <2>3, <3>1, <3>4, <3>5 DEF Holdable
  <2>5. CASE o = Meta(t.meta)
    <3>0. t.meta \in Nat
      BY <1>3, <2>3
    <3>1. o \in Objects /\ o.kind = "meta" /\ o.n = t.meta
      BY <2>5, <3>0, KindsOf
    <3>4. Own(1, 1, lst, 1, nm, o) > 0
      BY <2>3, <3>1 DEF Own
    <3>5. o # S3 /\ o # Parser /\ \A d \in Nat : o # Iterator(d)
      BY <3>1, KindsOf
    <3> QED BY <1>2, <1>4, <2>3, <3>1, <3>4, <3>5 DEF Holdable
  <2> QED BY <1>8, <2>1, <2>2, <2>4, <2>5
<1>9. o \in {Config, Analyzer, Iterator(1)}
      \/ \E i \in DOMAIN current : o \in {Token(current[i]), Meta(current[i].meta)}
  BY DEF Offered
<1> QED BY <1>5, <1>6, <1>7, <1>8, <1>9

LEMMA KeepStep == ASSUME SessionInv, Keep PROVE SessionInv'
<1>1. phase = "handler" /\ Cardinality(held) < setup.keeps
      /\ UNCHANGED <<phase, setup, names, stack, stash, made, current, mangled>>
  BY DEF Keep
<1>2. PICK o : o \in Offered /\ o \notin held /\ held' = held \cup {o} /\ ref_cnt' = Inc(ref_cnt, o)
  BY DEF Keep
<1>3. o \in DOMAIN ref_cnt /\ Holdable(o, Range(names), made) /\ \A d \in Nat : o = Iterator(d) => d = 1
  BY <1>1, <1>2, OfferedFits
<1>4. World(held, 1, 1, stack, ref_cnt, Range(names), setup.tokenize, mangled, made)
  BY <1>1, InHandler
<1>5. World(held \cup {o}, 1, 1, stack, Inc(ref_cnt, o), Range(names), setup.tokenize, mangled, made)
  BY <1>2, <1>3, <1>4, KeepWorld
<1>6. PhaseFits' /\ SettingsFit' /\ StackFits' /\ CurrentFits'
  BY <1>1 DEF SessionInv, PhaseFits, SettingsFit, StackFits, CurrentFits, Depth
<1>7. HeldFits'
  <2>1. IsFiniteSet(held) /\ setup.keeps \in Nat
        /\ \A d \in Nat : Iterator(d) \in held => phase = "handler" /\ d = 1
    BY DEF SessionInv, HeldFits, SettingsFit
  <2>2. IsFiniteSet(held \cup {o}) /\ Cardinality(held \cup {o}) = Cardinality(held) + 1
        /\ Cardinality(held) \in Nat
    BY <1>2, <2>1, FS_AddElement, FS_CardinalityType
  <2>3. Cardinality(held') <= setup.keeps
    BY <1>1, <1>2, <2>1, <2>2
  <2>4. \A d \in Nat : Iterator(d) \in held' => phase' = "handler" /\ d = 1
    BY <1>1, <1>2, <1>3, <2>1
  <2> QED BY <1>1, <1>2, <2>2, <2>3, <2>4 DEF HeldFits
<1>8. CountsFit'
  <2>1. UpNow' = 1 /\ ConfNow' = 1
    BY <1>1 DEF UpNow, ConfNow
  <2> QED BY <1>1, <1>2, <1>5, <2>1 DEF CountsFit
<1> QED BY <1>6, <1>7, <1>8 DEF SessionInv

LEMMA DropStep == ASSUME SessionInv, Drop PROVE SessionInv'
<1>1. UNCHANGED <<phase, setup, names, stack, stash, made, current, mangled>>
  BY DEF Drop
<1>2. PICK o : o \in held /\ held' = held \ {o} /\ ref_cnt' = Release(ref_cnt, o)
  BY DEF Drop
<1>3. PhaseFits' /\ SettingsFit' /\ StackFits' /\ CurrentFits'
  BY <1>1, <1>2 DEF SessionInv, PhaseFits, SettingsFit, StackFits, CurrentFits, Depth
<1>4. HeldFits'
  <2>1. IsFiniteSet(held) /\ setup.keeps \in Nat /\ Cardinality(held) <= setup.keeps
        /\ \A d \in Nat : Iterator(d) \in held => phase = "handler" /\ d = 1
    BY DEF SessionInv, HeldFits, SettingsFit
  <2>2. IsFiniteSet(held \ {o}) /\ Cardinality(held \ {o}) = Cardinality(held) - 1
        /\ Cardinality(held) \in Nat
    BY <1>2, <2>1, FS_RemoveElement, FS_CardinalityType
  <2>3. Cardinality(held') <= setup.keeps
    BY <1>2, <2>1, <2>2
  <2>4. \A d \in Nat : Iterator(d) \in held' => phase' = "handler" /\ d = 1
    BY <1>1, <1>2, <2>1
  <2> QED BY <1>1, <1>2, <2>2, <2>3, <2>4 DEF HeldFits
<1>5. CountsFit'
  <2>1. CASE phase \notin {"none", "freed"}
    <3>1. UpNow = 1 /\ ConfNow = 1 /\ UpNow' = 1 /\ ConfNow' = 1
      BY <1>1, <2>1 DEF UpNow, ConfNow
    <3>2. World(held, 1, 1, stack, ref_cnt, Range(names), setup.tokenize, mangled, made)
      BY <3>1 DEF SessionInv, CountsFit
    <3>3. World(held \ {o}, 1, 1, stack, Release(ref_cnt, o), Range(names), setup.tokenize, mangled, made)
      BY <1>2, <3>2, DropWorld
    <3> QED BY <1>1, <1>2, <3>1, <3>3 DEF CountsFit
  <2>2. CASE phase = "freed"
    <3>1. UpNow = 0 /\ UpNow' = 0 /\ ConfNow = (IF Config \in held THEN 1 ELSE 0)
          /\ ConfNow' = (IF Config \in held' THEN 1 ELSE 0)
      BY <1>1, <2>2 DEF UpNow, ConfNow
    <3>2. stack = << >> /\ Learnt(names)
      BY <2>2 DEF SessionInv, PhaseFits, SettingsFit
    <3>3. PICK conf, conf2 : conf = ConfNow /\ conf2 = ConfNow'
      OBVIOUS
    <3>4. World(held, 0, conf, << >>, ref_cnt, Range(names), setup.tokenize, mangled, made)
          /\ conf = (IF Config \in held THEN 1 ELSE 0)
          /\ conf2 = (IF Config \in held \ {o} THEN 1 ELSE 0)
      BY <1>2, <3>1, <3>2, <3>3 DEF SessionInv, CountsFit
    <3>5. World(held \ {o}, 0, conf2, << >>, Release(ref_cnt, o), Range(names), setup.tokenize, mangled, made)
      BY <1>2, <3>2, <3>4, DropFreed
    <3> QED BY <1>1, <1>2, <3>1, <3>2, <3>3, <3>5 DEF CountsFit
  <2>3. CASE phase = "none"
    BY <1>2, <2>3 DEF SessionInv, PhaseFits
  <2> QED BY <2>1, <2>2, <2>3
<1> QED BY <1>3, <1>4, <1>5 DEF SessionInv

LEMMA ReturnStep == ASSUME SessionInv, Return PROVE SessionInv'
<1>1. phase = "handler" /\ phase' = "idle" /\ Iterator(1) \notin held
      /\ ref_cnt' = FreeParserData(ref_cnt, 1, Top.list) /\ stack' = << >> /\ current' = << >>
      /\ UNCHANGED <<setup, names, held, stash, made, mangled>>
  BY DEF Return
<1>2. /\ stack \in Seq(Range(stack)) /\ Len(stack) = 1 /\ Depth = 1 /\ Top = stack[1]
      /\ World(held, 1, 1, stack, ref_cnt, Range(names), setup.tokenize, mangled, made)
  BY <1>1, InHandler
<1>3. World(held, 1, 1, SubSeq(stack, 1, Len(stack) - 1),
            FreeParserData(ref_cnt, Len(stack), stack[Len(stack)].list),
            Range(names), setup.tokenize, mangled, made)
  <2>1. Len(stack) > 0 /\ Iterator(Len(stack)) \notin held
    BY <1>1, <1>2
  <2>2. PICK st : st = stack
    OBVIOUS
  <2>3. World(held, 1, 1, st, ref_cnt, Range(names), setup.tokenize, mangled, made)
        /\ Len(st) > 0 /\ Iterator(Len(st)) \notin held
    BY <1>2, <2>1, <2>2
  <2>4. World(held, 1, 1, SubSeq(st, 1, Len(st) - 1), FreeParserData(ref_cnt, Len(st), st[Len(st)].list),
              Range(names), setup.tokenize, mangled, made)
    BY <2>3, PopWorld
  <2> QED BY <2>2, <2>4
<1>4. SubSeq(stack, 1, Len(stack) - 1) = << >>
  BY <1>2
<1>5. Depth' = 0
  BY <1>1 DEF Depth
<1>6. PhaseFits'
  BY <1>1 DEF PhaseFits
<1>7. SettingsFit'
  BY <1>1 DEF SessionInv, SettingsFit
<1>8. StackFits'
  BY <1>1, <1>2, <1>5, FileAssumption DEF SessionInv, StackFits
<1>9. HeldFits'
  BY <1>1 DEF SessionInv, HeldFits
<1>10. CurrentFits'
  BY <1>1 DEF CurrentFits
<1>11. CountsFit'
  <2>1. UpNow' = 1 /\ ConfNow' = 1
    BY <1>1 DEF UpNow, ConfNow
  <2>2. World(held, 1, 1, stack', ref_cnt', Range(names), setup.tokenize, mangled, made)
    BY <1>1, <1>2, <1>3, <1>4
  <2> QED BY <1>1, <2>1, <2>2 DEF CountsFit
<1> QED BY <1>6, <1>7, <1>8, <1>9, <1>10, <1>11 DEF SessionInv

LEMMA FreeStep == ASSUME SessionInv, Free PROVE SessionInv'
<1>1. phase = "idle" /\ phase' = "freed"
      /\ ref_cnt' = ReleaseConfig(ReleasePlain(ReleasePlain(Dispose(ref_cnt, S3), Parser), Analyzer))
      /\ UNCHANGED <<setup, names, held, stack, stash, made, current, mangled>>
  BY DEF Free
<1>2. stack = << >> /\ Learnt(names) /\ UpNow = 1 /\ ConfNow = 1
  BY <1>1 DEF SessionInv, PhaseFits, SettingsFit, UpNow, ConfNow
<1>3. World(held, 1, 1, << >>, ref_cnt, Range(names), setup.tokenize, mangled, made)
  BY <1>2 DEF SessionInv, CountsFit
<1>4. UpNow' = 0 /\ ConfNow' = (IF Config \in held THEN 1 ELSE 0)
  BY <1>1 DEF UpNow, ConfNow
<1>5. PICK conf : conf = ConfNow' /\ conf = (IF Config \in held THEN 1 ELSE 0)
  BY <1>4
<1>6. World(held, 0, conf, << >>,
            ReleaseConfig(ReleasePlain(ReleasePlain(Dispose(ref_cnt, S3), Parser), Analyzer)),
            Range(names), setup.tokenize, mangled, made)
  BY <1>2, <1>3, <1>5, FreeWorld
<1>7. PhaseFits' /\ SettingsFit' /\ StackFits' /\ HeldFits' /\ CurrentFits'
  BY <1>1, <1>2 DEF SessionInv, PhaseFits, SettingsFit, StackFits, HeldFits, CurrentFits, Depth
<1>8. CountsFit'
  BY <1>1, <1>2, <1>4, <1>5, <1>6 DEF CountsFit
<1> QED BY <1>7, <1>8 DEF SessionInv

\* What swish_3_init leaves.
LEMMA NewWorld ==
  ASSUME NEW refs, NEW nm, nm = {0, 1, 2},
         refs = [o \in {Config, Analyzer, Parser, S3} \cup {Meta(m) : m \in Named} |->
                   IF o = S3 THEN 0 ELSE 1],
         NEW tokenize, NEW bad, NEW top \in Nat
  PROVE  World({}, 1, 1, << >>, refs, nm, tokenize, bad, top)
<1>1. Parsers(<< >>, nm, tokenize, bad, top)
  BY DEF Parsers, Distinct
<1>2. ListedIn(<< >>) = {} /\ Len(<< >>) = 0
  BY DEF ListedIn
<1> DEFINE base  == Ledger({}, 1, 0, {}, 1, nm)
           alive == {Config, Analyzer, Parser, S3} \cup {Meta(m) : m \in Named}
<1>3. DOMAIN refs = alive /\ refs = [o \in DOMAIN refs |-> refs[o]]
      /\ \A o \in alive : refs[o] = IF o = S3 THEN 0 ELSE 1
  OBVIOUS
<1>4. alive = {Config, Analyzer, Parser, S3, Meta(0), Meta(1), Meta(2)}
  BY DEF Named, Default, Title
<1>5. IsFiniteSet(alive)
  <2>1. PICK a, b, c, d, e, g, i : alive = {a, b, c, d, e, g, i}
    BY <1>4
  <2> HIDE DEF alive
  <2>2. IsFiniteSet({}) /\ IsFiniteSet({} \cup {a})
    BY FS_EmptySet, FS_AddElement
  <2>3. IsFiniteSet(({} \cup {a}) \cup {b})
    BY <2>2, FS_AddElement
  <2>4. IsFiniteSet((({} \cup {a}) \cup {b}) \cup {c})
    BY <2>3, FS_AddElement
  <2>5. IsFiniteSet(((({} \cup {a}) \cup {b}) \cup {c}) \cup {d})
    BY <2>4, FS_AddElement
  <2>6. IsFiniteSet((((({} \cup {a}) \cup {b}) \cup {c}) \cup {d}) \cup {e})
    BY <2>5, FS_AddElement
  <2>7. IsFiniteSet(((((({} \cup {a}) \cup {b}) \cup {c}) \cup {d}) \cup {e}) \cup {g})
    BY <2>6, FS_AddElement
  <2>8. IsFiniteSet((((((({} \cup {a}) \cup {b}) \cup {c}) \cup {d}) \cup {e}) \cup {g}) \cup {i})
    BY <2>7, FS_AddElement
  <2>9. (((((({} \cup {a}) \cup {b}) \cup {c}) \cup {d}) \cup {e}) \cup {g}) \cup {i} = alive
    BY <2>1
  <2> QED BY <2>8, <2>9
<1> HIDE DEF alive
<1>6. \A o \in Objects : o \in alive <=>
        o.kind \in {"config", "analyzer", "parser", "s3"} \/ (o.kind = "meta" /\ o.n \in nm)
  <2>1. 0 \in Nat /\ 1 \in Nat /\ 2 \in Nat
    OBVIOUS
  <2>2. Meta(0).kind = "meta" /\ Meta(0).n = 0 /\ Meta(1).kind = "meta" /\ Meta(1).n = 1
        /\ Meta(2).kind = "meta" /\ Meta(2).n = 2
    BY <2>1, KindsOf
  <2> QED BY <1>4, <2>2, ObjectKind, KindsOf
<1>7. alive \subseteq Objects
  <2>1. 0 \in Nat /\ 1 \in Nat /\ 2 \in Nat
    OBVIOUS
  <2> QED BY <1>4, <2>1, KindsOf
<1>8. base \in [Objects -> Nat]
  BY LedgerType
<1>9. ASSUME NEW o \in Objects PROVE Owed(refs, base, o) = IF o \in alive THEN 1 ELSE 0
  <2>1. base[o] = IF o \in alive THEN 1 ELSE 0
    <3>1. base[o] = Own(1, 0, {}, 1, nm, o)
      <4>1. Own(1, 0, {}, 1, nm, o) \in Nat
        BY LedgerType
      <4> QED BY <4>1 DEF Ledger
    <3>2. o.kind \in ObjectKinds /\ o.n \in Nat /\ o.n \notin 1..0
      BY ObjectKind
    <3> QED BY <1>6, <3>1, <3>2 DEF Own, ObjectKinds
  <2>2. Holding(refs, o.n) = {}
    <3>1. \A t \in alive : t.kind # "token"
      BY <1>6, <1>7
    <3> QED BY <1>3, <3>1 DEF Holding
  <2>3. Cardinality(Holding(refs, o.n)) = 0
    BY <2>2, FS_EmptySet
  <2> HIDE DEF base
  <2>4. base[o] \in Nat
    BY <2>1
  <2> QED BY <2>1, <2>3, <2>4 DEF Owed
<1> HIDE DEF base
<1>10. Exact(refs, base)
  <2>1. S3 \in alive
    BY <1>4
  <2>2. ASSUME NEW o \in Objects
        PROVE  /\ o \in DOMAIN refs <=> Owed(refs, base, o) > 0
               /\ o \in DOMAIN refs => refs[o] = Owed(refs, base, o) - (IF o = S3 THEN 1 ELSE 0)
    <3>1. CASE o \in alive
      <4>1. Owed(refs, base, o) = 1 /\ o \in DOMAIN refs /\ refs[o] = IF o = S3 THEN 0 ELSE 1
        BY <1>3, <1>9, <3>1
      <4> QED BY <4>1
    <3>2. CASE o \notin alive
      <4>1. Owed(refs, base, o) = 0 /\ o \notin DOMAIN refs
        BY <1>3, <1>9, <3>2
      <4> QED BY <4>1
    <3> QED BY <3>1, <3>2
  <2>3. DOMAIN refs \subseteq Objects /\ IsFiniteSet(DOMAIN refs)
    BY <1>3, <1>5, <1>7
  <2> QED BY <1>3, <1>8, <2>2, <2>3 DEF Exact
<1> QED BY <1>1, <1>2, <1>10 DEF World, base

LEMMA NewStep == ASSUME SessionInv, New PROVE SessionInv'
<1>1. phase = "none" /\ phase' = "idle" /\ names' = <<0, 1, 2>>
      /\ UNCHANGED <<setup, held, stack, stash, made, current, mangled>>
  BY DEF New
<1>2. held = {} /\ stack = << >>
  BY <1>1 DEF SessionInv, PhaseFits
<1>3. made \in Nat
  BY DEF SessionInv, CountsFit, World, Parsers
<1>4. Learnt(names') /\ Range(names') = {0, 1, 2}
  <2>1. PICK s : s = <<0, 1, 2>>
    OBVIOUS
  <2>2. s \in Seq(Nat) /\ Len(s) = 3 /\ s[1] = 0 /\ s[2] = 1 /\ s[3] = 2 /\ DOMAIN s = 1..3
    BY <2>1
  <2>3. \A i \in 1..3 : i = 1 \/ i = 2 \/ i = 3
    OBVIOUS
  <2>4. Learnt(s)
    BY <2>2, <2>3 DEF Learnt
  <2>5. 1 \in 1..3 /\ 2 \in 1..3 /\ 3 \in 1..3
    OBVIOUS
  <2>6. Range(s) = {0, 1, 2}
    BY <2>2, <2>3, <2>5 DEF Range
  <2> QED BY <1>1, <2>1, <2>4, <2>6
<1>5. PICK refs, nm : refs = ref_cnt' /\ nm = Range(names')
  OBVIOUS
<1>6. World({}, 1, 1, << >>, refs, nm, setup.tokenize, mangled, made)
  <2>1. refs = [o \in {Config, Analyzer, Parser, S3} \cup {Meta(m) : m \in Named} |->
                   IF o = S3 THEN 0 ELSE 1]
    BY <1>5 DEF New
  <2> QED BY <1>3, <1>4, <1>5, <2>1, NewWorld
<1>7. PhaseFits'
  BY <1>1, <1>2 DEF PhaseFits
<1>8. SettingsFit'
  BY <1>1, <1>4 DEF SessionInv, SettingsFit, Default
<1>9. StackFits' /\ HeldFits' /\ CurrentFits'
  BY <1>1, <1>2 DEF SessionInv, StackFits, HeldFits, CurrentFits, Depth
<1>10. CountsFit'
  <2>1. UpNow' = 1 /\ ConfNow' = 1
    BY <1>1 DEF UpNow, ConfNow
  <2> QED BY <1>1, <1>2, <1>5, <1>6, <2>1 DEF CountsFit
<1> QED BY <1>7, <1>8, <1>9, <1>10 DEF SessionInv

LEMMA NextSession == ASSUME SessionInv, [Next]_vars, ~Use PROVE SessionInv'
<1>1. CASE Library
  BY <1>1, CharactersStep, PlainTagStep, OpenTagStep, CloseTagStep, EndDocumentStep, PassIncludeStep,
     EnterIncludeStep, OutOfStackStep, OverrunStep, LeaveIncludeStep, CallHandlerStep DEF Library
<1>2. CASE UNCHANGED vars
  <2>1. UpNow' = UpNow /\ ConfNow' = ConfNow
    BY <1>2 DEF vars, UpNow, ConfNow
  <2>2. PhaseFits' /\ SettingsFit' /\ StackFits' /\ HeldFits' /\ CurrentFits'
    BY <1>2 DEF vars, SessionInv, PhaseFits, SettingsFit, StackFits, HeldFits, CurrentFits, Depth
  <2>3. CountsFit'
    BY <1>2, <2>1 DEF vars, SessionInv, CountsFit
  <2> QED BY <2>2, <2>3 DEF SessionInv
<1>3. CASE New \/ ParseDirectory \/ UnknownFile \/ SkipFile \/ ParseFile \/ NextToken
  BY <1>3, NewStep, ParseDirectoryStep, UnknownFileStep, SkipFileStep, ParseFileStep, NextTokenStep
<1>4. CASE Keep \/ Drop \/ Return \/ Free
  BY <1>4, KeepStep, DropStep, ReturnStep, FreeStep
<1> QED BY <1>1, <1>2, <1>3, <1>4 DEF Next

-----------------------------------------------------------------------------
(* The invariants.                                                         *)

LEMMA AnyWorld ==
  ASSUME SessionInv
  PROVE  /\ Exact(ref_cnt, Ledger(held, UpNow, Depth, ListedIn(stack), ConfNow, Range(names)))
         /\ Depth = Len(stack) /\ Depth \in Nat /\ UpNow \in {0, 1} /\ ConfNow \in {0, 1}
         /\ S3 \notin held /\ Parser \notin held
         /\ Parsers(stack, Range(names), setup.tokenize, mangled, made)
         /\ \A d \in 1..Depth : Good(stack[d], Range(names), setup.tokenize, mangled, made)
<1>1. World(held, UpNow, ConfNow, stack, ref_cnt, Range(names), setup.tokenize, mangled, made)
  BY DEF SessionInv, CountsFit
<1>2. UpNow \in {0, 1} /\ ConfNow \in {0, 1}
  BY DEF UpNow, ConfNow
<1>3. Depth = Len(stack) /\ Depth \in Nat
  BY <1>1 DEF World, Parsers, Depth
<1> QED BY <1>1, <1>2, <1>3 DEF World, Parsers, Holdable

LEMMA TypesFit == SessionInv => SessionTypeOK
<1> SUFFICES ASSUME SessionInv PROVE SessionTypeOK
  OBVIOUS
<1>1. phase \in {"none", "idle", "parsing", "handler", "freed", "dead"}
      /\ (phase \in {"parsing", "handler"} => stack # << >>)
      /\ (stack # << >> => phase \in {"parsing", "handler", "dead"})
  BY DEF SessionInv, PhaseFits
<1>2. stash = (IF Depth = 0 THEN 0 ELSE Depth - 1) /\ Depth <= MaxDepth /\ Cardinality(held) <= setup.keeps
  BY DEF SessionInv, StackFits, HeldFits
<1>3. PICK base, lst, nm : /\ base = Ledger(held, UpNow, Depth, lst, ConfNow, nm) /\ nm = Range(names)
                           /\ lst = ListedIn(stack) /\ Exact(ref_cnt, base)
  BY AnyWorld
<1>4. ASSUME NEW o \in DOMAIN ref_cnt PROVE o.kind \in ObjectKinds /\ ref_cnt[o] \in Nat
  <2>1. o \in Objects /\ Owed(ref_cnt, base, o) > 0
        /\ ref_cnt[o] = Owed(ref_cnt, base, o) - (IF o = S3 THEN 1 ELSE 0)
    BY <1>3 DEF Exact
  <2>2. Owed(ref_cnt, base, o) \in Nat
    BY <1>3, <2>1, OwedType
  <2> QED BY <2>1, <2>2, ObjectKind
<1>5. ASSUME phase \in {"none", "freed"} PROVE S3 \notin DOMAIN ref_cnt
  <2>1. UpNow = 0 /\ S3 \notin held /\ S3 \in Objects /\ S3.kind = "s3"
    BY <1>5, AnyWorld, KindsOf DEF UpNow
  <2>2. base[S3] = 0
    BY <1>3, <2>1 DEF Ledger, Own
  <2>3. Owed(ref_cnt, base, S3) = 0
    BY <1>3, <2>1, <2>2, OwedType
  <2> QED BY <1>3, <2>1, <2>3 DEF Exact
<1>6. \A i \in 1..Depth : stack[i].next \in 1..(Len(stack[i].list.tokens) + 1)
  BY AnyWorld DEF Good
<1> QED BY <1>1, <1>2, <1>4, <1>5, <1>6 DEF SessionTypeOK

LEMMA ListsFit == SessionInv => TokenListSound
<1> SUFFICES ASSUME SessionInv, NEW d \in 1..Depth
             PROVE  LET list == stack[d].list
                        toks == list.tokens
                        Ends(t) == t.offset + t.len + 1
                    IN /\ Len(toks) <= list.size /\ (setup.tokenize => stack[d].nwords = Len(toks))
                       /\ \A i \in 1..(Len(toks) - 1) :
                            Ends(toks[i]) = toks[i + 1].offset /\ toks[i].pos < toks[i + 1].pos
                       /\ toks # << >> => Ends(toks[Len(toks)]) = Len(list.buf)
                       /\ ~mangled => \A i \in DOMAIN toks : \A j \in 1..(toks[i].len + 1) :
                                        list.buf[toks[i].offset + j] = NUL <=> j = toks[i].len + 1
  BY DEF TokenListSound
<1>1. PICK list : list = stack[d].list
  OBVIOUS
<1>2. Sound(list) /\ (mangled \/ Ended(list)) /\ (setup.tokenize => stack[d].nwords = Len(list.tokens))
  BY <1>1, AnyWorld DEF Good
<1>3. DOMAIN list.tokens = 1..Len(list.tokens)
  BY <1>2 DEF Sound, Lists
<1>4. /\ Len(list.tokens) <= list.size
      /\ \A i \in 1..(Len(list.tokens) - 1) :
           /\ list.tokens[i].offset + list.tokens[i].len + 1 = list.tokens[i + 1].offset
           /\ list.tokens[i].pos < list.tokens[i + 1].pos
      /\ list.tokens # << >> =>
           LET t == list.tokens[Len(list.tokens)] IN t.offset + t.len + 1 = Len(list.buf)
  BY <1>2 DEF Sound, After
<1>5. ~mangled => \A i \in 1..Len(list.tokens) : \A j \in 1..(list.tokens[i].len + 1) :
                    list.buf[list.tokens[i].offset + j] = NUL <=> j = list.tokens[i].len + 1
  BY <1>2 DEF Ended, EndedAt
<1> QED BY <1>1, <1>2, <1>3, <1>4, <1>5

\* A token is in one list at most.
LEMMA ListsOfToken ==
  ASSUME SessionInv, NEW o
  PROVE  Cardinality({d \in 1..Depth : o \in TokensIn(d)}) = (IF o \in ListedIn(stack) THEN 1 ELSE 0)
<1>1. Depth = Len(stack) /\ Depth \in Nat /\ Distinct(stack)
      /\ \A d \in 1..Depth : Good(stack[d], Range(names), setup.tokenize, mangled, made)
  BY AnyWorld DEF Parsers
<1>2. ASSUME NEW d \in 1..Depth PROVE TokensIn(d) = Listing(stack[d])
  <2>1. DOMAIN stack[d].list.tokens = 1..Len(stack[d].list.tokens)
    BY <1>1 DEF Good, Sound, Lists
  <2> QED BY <2>1 DEF TokensIn, ListsOf, Listing, TokensUpTo
<1>3. CASE o \in ListedIn(stack)
  <2>1. PICK d \in 1..Depth : o \in Listing(stack[d])
    BY <1>1, <1>3 DEF ListedIn
  <2>2. ASSUME NEW e \in 1..Depth, o \in Listing(stack[e]) PROVE e = d
    <3>1. PICK a \in 1..Len(stack[d].list.tokens) : o = Token(stack[d].list.tokens[a])
      BY <2>1 DEF Listing, TokensUpTo
    <3>2. PICK b \in 1..Len(stack[e].list.tokens) : o = Token(stack[e].list.tokens[b])
      BY <2>2 DEF Listing, TokensUpTo
    <3>3. stack[d].list.tokens[a].n = stack[e].list.tokens[b].n
      <4>1. PICK x, y : x = stack[d].list.tokens[a] /\ y = stack[e].list.tokens[b]
        OBVIOUS
      <4>2. o = Token(x) /\ o = Token(y)
        BY <3>1, <3>2, <4>1
      <4>3. o.n = x.n /\ o.n = y.n
        BY <4>2 DEF Token
      <4> QED BY <4>1, <4>3
    <3> QED BY <1>1, <3>3 DEF Distinct
  <2>3. {x \in 1..Depth : o \in TokensIn(x)} = {d}
    BY <1>2, <2>1, <2>2
  <2> QED BY <1>3, <2>3, FS_Singleton
<1>4. CASE o \notin ListedIn(stack)
  <2>1. {x \in 1..Depth : o \in TokensIn(x)} = {}
    BY <1>1, <1>2, <1>4 DEF ListedIn
  <2> QED BY <1>4, <2>1, FS_EmptySet
<1> QED BY <1>3, <1>4

\* What is there, and how often it is counted.
LEMMA AliveIs ==
  ASSUME SessionInv, NEW o \in Objects, NEW own,
         own = Own(UpNow, Depth, ListedIn(stack), ConfNow, Range(names), o)
  PROVE  LET owed == (IF o \in held THEN 1 ELSE 0) + own
                       + (IF o.kind = "meta" THEN Cardinality(Holding(ref_cnt, o.n)) ELSE 0)
         IN /\ own \in Nat /\ Cardinality(Holding(ref_cnt, o.n)) \in Nat
            /\ o \in Alive <=> owed > 0
            /\ o \in Alive => ref_cnt[o] = owed - (IF o = S3 THEN 1 ELSE 0)
<1>1. PICK base, lst, nm : /\ base = Ledger(held, UpNow, Depth, lst, ConfNow, nm) /\ nm = Range(names)
                           /\ lst = ListedIn(stack) /\ Exact(ref_cnt, base)
  BY AnyWorld
<1>2. own \in Nat
  BY AnyWorld, LedgerType
<1>3. base[o] = (IF o \in held THEN 1 ELSE 0) + own
  BY <1>1 DEF Ledger
<1>4. Cardinality(Holding(ref_cnt, o.n)) \in Nat
  BY <1>1, HoldingFinite DEF Exact
<1>5. /\ o \in Alive <=> Owed(ref_cnt, base, o) > 0
      /\ o \in Alive => ref_cnt[o] = Owed(ref_cnt, base, o) - (IF o = S3 THEN 1 ELSE 0)
  BY <1>1 DEF Exact, Alive
<1>6. Owed(ref_cnt, base, o) = (IF o \in held THEN 1 ELSE 0) + own
                       + (IF o.kind = "meta" THEN Cardinality(Holding(ref_cnt, o.n)) ELSE 0)
  BY <1>3 DEF Owed
<1> QED BY <1>2, <1>4, <1>5, <1>6

LEMMA FirstAlive ==
  ASSUME SessionInv
  PROVE  (S3 \in Alive <=> UpNow = 1) /\ (Config \in Alive <=> ConfNow = 1)
<1>1. S3 \in Objects /\ S3.kind = "s3" /\ Config \in Objects /\ Config.kind = "config"
  BY KindsOf
<1>2. UpNow \in {0, 1} /\ S3 \notin held /\ Depth \in Nat
  BY AnyWorld
<1>3. PICK x, y : x = Own(UpNow, Depth, ListedIn(stack), ConfNow, Range(names), S3)
                  /\ y = Own(UpNow, Depth, ListedIn(stack), ConfNow, Range(names), Config)
  OBVIOUS
<1>4. x = (IF UpNow = 1 THEN Depth + 1 ELSE 0) /\ y = (IF UpNow = 1 THEN 1 ELSE 0)
  BY <1>1, <1>3 DEF Own
<1>5. S3 \in Alive <=> x > 0
  <2>1. S3 \in Alive <=> (IF S3 \in held THEN 1 ELSE 0) + x
                       + (IF S3.kind = "meta" THEN Cardinality(Holding(ref_cnt, S3.n)) ELSE 0) > 0
    BY <1>1, <1>3, AliveIs
  <2>2. x \in Nat
    BY <1>2, <1>4
  <2> QED BY <1>1, <1>2, <2>1, <2>2
<1>6. Config \in Alive <=> (IF Config \in held THEN 1 ELSE 0) + y > 0
  <2>1. Config \in Alive <=> (IF Config \in held THEN 1 ELSE 0) + y
                       + (IF Config.kind = "meta" THEN Cardinality(Holding(ref_cnt, Config.n)) ELSE 0) > 0
    BY <1>1, <1>3, AliveIs
  <2>2. y \in Nat
    BY <1>2, <1>4
  <2> QED BY <1>1, <2>1, <2>2
<1>7. ConfNow = 1 <=> UpNow = 1 \/ Config \in held
  BY DEF ConfNow
<1> QED BY <1>2, <1>4, <1>5, <1>6, <1>7

LEMMA CountsOf ==
  ASSUME SessionInv, NEW o \in Alive
  PROVE  ref_cnt[o] = Users(o) /\ (o # S3 => ref_cnt[o] > 0)
<1>1. o \in Objects
  BY AnyWorld DEF Exact, Alive
<1>2. PICK own, x, k : /\ own = Own(UpNow, Depth, ListedIn(stack), ConfNow, Range(names), o)
                       /\ x = (IF o \in held THEN 1 ELSE 0) /\ k = Cardinality(Holding(ref_cnt, o.n))
  OBVIOUS
<1>3. /\ own \in Nat /\ k \in Nat /\ x \in {0, 1}
      /\ x + own + (IF o.kind = "meta" THEN k ELSE 0) > 0
      /\ ref_cnt[o] = x + own + (IF o.kind = "meta" THEN k ELSE 0) - (IF o = S3 THEN 1 ELSE 0)
  <2>1. own \in Nat /\ k \in Nat
    BY <1>1, <1>2, AliveIs
  <2>2. x + own + (IF o.kind = "meta" THEN k ELSE 0) > 0
    BY <1>1, <1>2, AliveIs
  <2>3. ref_cnt[o] = x + own + (IF o.kind = "meta" THEN k ELSE 0) - (IF o = S3 THEN 1 ELSE 0)
    BY <1>1, <1>2, AliveIs
  <2> QED BY <1>2, <2>1, <2>2, <2>3
<1>4. /\ o.kind \in ObjectKinds /\ (o.kind = "s3" <=> o = S3) /\ (o.kind = "config" <=> o = Config)
      /\ (o.kind = "analyzer" <=> o = Analyzer) /\ (o.kind = "parser" <=> o = Parser)
  BY <1>1, ObjectKind
<1>5. /\ UpNow \in {0, 1} /\ ConfNow \in {0, 1} /\ Depth \in Nat /\ S3 \notin held
      /\ (S3 \in Alive <=> UpNow = 1) /\ (Config \in Alive <=> ConfNow = 1)
  BY AnyWorld, FirstAlive
<1>6. o # S3 => ref_cnt[o] > 0
  BY <1>3
<1>7. CASE o.kind = "s3"
  <2>1. own = Depth + 1 /\ x = 0
    BY <1>2, <1>4, <1>5, <1>7 DEF Own
  <2>2. Users(o) = x + Depth
    BY <1>2, <1>4, <1>7 DEF Users
  <2> QED BY <1>3, <1>4, <1>5, <1>6, <1>7, <2>1, <2>2
<1>8. CASE o.kind \in {"config", "parser"}
  <2>1. own = (IF S3 \in Alive THEN 1 ELSE 0)
    BY <1>2, <1>5, <1>8 DEF Own
  <2>2. o # S3 /\ o \in {Config, Parser} /\ o.kind # "meta"
    BY <1>4, <1>8
  <2>3. Users(o) = x + (IF S3 \in Alive THEN 1 ELSE 0)
    BY <1>2, <1>4, <1>8, <2>2 DEF Users
  <2> QED BY <1>3, <1>6, <2>1, <2>2, <2>3
<1>9. CASE o.kind = "analyzer"
  <2>1. own = Depth + (IF S3 \in Alive THEN 1 ELSE 0)
    BY <1>2, <1>5, <1>9 DEF Own
  <2>2. o # S3 /\ o = Analyzer /\ o # Config /\ o # Parser
    BY <1>4, <1>9
  <2>3. Users(o) = x + (Depth + (IF S3 \in Alive THEN 1 ELSE 0))
    BY <1>2, <1>4, <1>9, <2>2 DEF Users
  <2> QED BY <1>3, <1>5, <1>6, <1>9, <2>1, <2>2, <2>3
<1>10. CASE o.kind = "iterator"
  <2>1. own = (IF o.n \in 1..Depth THEN 1 ELSE 0)
    BY <1>2, <1>10 DEF Own
  <2>2. o # S3 /\ o # Config /\ o # Parser /\ o # Analyzer
    BY <1>4, <1>10
  <2>3. Users(o) = x + (IF o.n \in 1..Depth THEN 1 ELSE 0)
    BY <1>2, <1>10, <2>2 DEF Users
  <2> QED BY <1>3, <1>6, <1>10, <2>1, <2>2, <2>3
<1>11. CASE o.kind = "token"
  <2>1. own = (IF o \in ListedIn(stack) THEN 1 ELSE 0)
    BY <1>2, <1>11 DEF Own
  <2>2. o # S3 /\ o # Config /\ o # Parser /\ o # Analyzer
    BY <1>4, <1>11
  <2>3. Users(o) = x + Cardinality({d \in 1..Depth : o \in TokensIn(d)})
    BY <1>2, <1>11, <2>2 DEF Users
  <2>4. Cardinality({d \in 1..Depth : o \in TokensIn(d)}) = own
    BY <2>1, ListsOfToken
  <2> QED BY <1>3, <1>6, <1>11, <2>2, <2>3, <2>4
<1>12. CASE o.kind = "meta"
  <2>1. own = (IF Config \in Alive /\ o.n \in Range(names) THEN 1 ELSE 0)
    BY <1>2, <1>5, <1>12 DEF Own
  <2>2. o # S3 /\ o # Config /\ o # Parser /\ o # Analyzer
    BY <1>4, <1>12
  <2>3. {t \in Alive : t.kind = "token" /\ t.meta = o.n} = Holding(ref_cnt, o.n)
    BY DEF Alive, Holding
  <2>4. Users(o) = x + (k + (IF Config \in Alive /\ o.n \in Range(names) THEN 1 ELSE 0))
    BY <1>2, <1>12, <2>2, <2>3 DEF Users
  <2> QED BY <1>3, <1>6, <1>12, <2>1, <2>2, <2>4
<1> QED BY <1>4, <1>7, <1>8, <1>9, <1>10, <1>11, <1>12 DEF ObjectKinds

\* What is wanted, in its parts.
Iterators  == {Iterator(d) : d \in 1..Depth}
ListTokens == UNION {TokensIn(d) : d \in 1..Depth}
TokenNames == {Meta(t.meta) : t \in {o \in Alive : o.kind = "token"}}
OfProgram  == IF S3 \in Alive THEN {Config, Analyzer, Parser} ELSE {}
OfConfig   == IF Config \in Alive THEN {Meta(m) : m \in Range(names)} ELSE {}

LEMMA WantedIs ==
  Wanted = held \cup Iterators \cup ListTokens \cup TokenNames \cup OfProgram \cup OfConfig
BY DEF Wanted, Iterators, ListTokens, TokenNames, OfProgram, OfConfig

LEMMA WantedThere == SessionInv => Wanted \subseteq Alive
<1> SUFFICES ASSUME SessionInv, NEW o \in Wanted PROVE o \in Alive
  OBVIOUS
<1>1. /\ UpNow \in {0, 1} /\ ConfNow \in {0, 1} /\ Depth \in Nat /\ Depth = Len(stack)
      /\ (S3 \in Alive <=> UpNow = 1) /\ (Config \in Alive <=> ConfNow = 1)
      /\ (UpNow = 1 => ConfNow = 1)
  BY AnyWorld, FirstAlive DEF ConfNow
<1>2. PICK lst, nm : /\ nm = Range(names) /\ lst = ListedIn(stack)
                     /\ Exact(ref_cnt, Ledger(held, UpNow, Depth, lst, ConfNow, nm))
  BY AnyWorld
<1>3. ASSUME NEW q \in Objects, q \in held \/ Own(UpNow, Depth, lst, ConfNow, nm, q) > 0
      PROVE  q \in Alive
  <2>1. PICK up, conf, n : up = UpNow /\ conf = ConfNow /\ n = Depth
    OBVIOUS
  <2>2. n \in Nat /\ Exact(ref_cnt, Ledger(held, up, n, lst, conf, nm))
        /\ (q \in held \/ Own(up, n, lst, conf, nm, q) > 0)
    BY <1>1, <1>2, <1>3, <2>1
  <2>3. q \in DOMAIN ref_cnt
    BY <2>2, OwnIsThere
  <2> QED BY <2>3 DEF Alive
<1>4. CASE o \in held
  <2>1. o \in Objects
    BY <1>4 DEF SessionInv, CountsFit, World, Holdable
  <2> QED BY <1>3, <1>4, <2>1
<1>5. CASE o \in Iterators
  <2>1. PICK d \in 1..Depth : o = Iterator(d)
    BY <1>5 DEF Iterators
  <2>2. d \in Nat
    BY <1>1
  <2>3. o \in Objects /\ o.kind = "iterator" /\ o.n = d
    BY <2>1, <2>2, KindsOf
  <2>4. Own(UpNow, Depth, lst, ConfNow, nm, o) > 0
    BY <2>3 DEF Own
  <2> QED BY <1>3, <2>3, <2>4
<1>6. CASE o \in ListTokens
  <2>1. PICK d \in 1..Depth : o \in TokensIn(d)
    BY <1>6 DEF ListTokens
  <2>2. Good(stack[d], Range(names), setup.tokenize, mangled, made)
    BY AnyWorld
  <2>3. DOMAIN stack[d].list.tokens = 1..Len(stack[d].list.tokens)
    BY <2>2 DEF Good, Sound, Lists
  <2>4. o \in Listing(stack[d])
    BY <2>1, <2>3 DEF TokensIn, ListsOf, Listing, TokensUpTo
  <2>5. o \in ListedIn(stack)
    BY <1>1, <2>4 DEF ListedIn
  <2>6. o \in TokenObjects
    BY <2>5, AnyWorld, ListedHasNumber
  <2>7. o \in Objects /\ o.kind = "token"
    BY <2>6 DEF Objects, TokenObjects
  <2>8. Own(UpNow, Depth, lst, ConfNow, nm, o) > 0
    BY <1>2, <2>5, <2>7 DEF Own
  <2> QED BY <1>3, <2>7, <2>8
<1>7. CASE o \in TokenNames
  <2>1. PICK t \in Alive : t.kind = "token" /\ o = Meta(t.meta)
    BY <1>7 DEF TokenNames
  <2>2. t \in Objects /\ IsFiniteSet(DOMAIN ref_cnt)
    BY <1>2 DEF Exact, Alive
  <2>3. t \in TokenObjects
    BY <2>1, <2>2, ObjectKind
  <2>4. t.meta \in Nat
    BY <2>3 DEF TokenObjects
  <2>5. o \in Objects /\ o.kind = "meta" /\ o.n = t.meta
    BY <2>1, <2>4, KindsOf
  <2>6. t \in Holding(ref_cnt, o.n) /\ IsFiniteSet(Holding(ref_cnt, o.n))
        /\ Cardinality(Holding(ref_cnt, o.n)) \in Nat
    <3>1. t \in Holding(ref_cnt, o.n)
      BY <2>1, <2>5 DEF Holding, Alive
    <3>2. Holding(ref_cnt, o.n) \subseteq DOMAIN ref_cnt
      BY DEF Holding
    <3> QED BY <2>2, <3>1, <3>2, FS_Subset, FS_CardinalityType
  <2>7. Cardinality(Holding(ref_cnt, o.n)) > 0
    <3>1. Holding(ref_cnt, o.n) # {}
      BY <2>6
    <3>2. Cardinality(Holding(ref_cnt, o.n)) # 0
      BY <2>6, <3>1, FS_EmptySet
    <3> QED BY <2>6, <3>2
  <2>8. PICK own : own = Own(UpNow, Depth, ListedIn(stack), ConfNow, Range(names), o)
    OBVIOUS
  <2>9. own \in Nat
    BY <2>5, <2>8, AliveIs
  <2>10. o \in Alive <=> (IF o \in held THEN 1 ELSE 0) + own
                       + (IF o.kind = "meta" THEN Cardinality(Holding(ref_cnt, o.n)) ELSE 0) > 0
    BY <2>5, <2>8, AliveIs
  <2> QED BY <2>5, <2>6, <2>7, <2>9, <2>10
<1>8. CASE o \in OfProgram
  <2>1. UpNow = 1 /\ o \in {Config, Analyzer, Parser}
    BY <1>1, <1>8 DEF OfProgram
  <2>2. o \in Objects /\ o.kind \in {"config", "analyzer", "parser"}
    BY <2>1, KindsOf
  <2>3. Own(UpNow, Depth, lst, ConfNow, nm, o) > 0
    BY <1>1, <2>1, <2>2 DEF Own
  <2> QED BY <1>3, <2>2, <2>3
<1>9. CASE o \in OfConfig
  <2>1. PICK m \in Range(names) : o = Meta(m)
    BY <1>9 DEF OfConfig
  <2>2. ConfNow = 1
    BY <1>1, <1>9 DEF OfConfig
  <2>3. m \in Nat
    BY AnyWorld DEF Parsers
  <2>4. o \in Objects /\ o.kind = "meta" /\ o.n = m
    BY <2>1, <2>3, KindsOf
  <2>5. Own(UpNow, Depth, lst, ConfNow, nm, o) > 0
    BY <1>2, <2>1, <2>2, <2>4 DEF Own
  <2> QED BY <1>3, <2>4, <2>5
<1>10. o \in held \/ o \in Iterators \/ o \in ListTokens \/ o \in TokenNames \/ o \in OfProgram
       \/ o \in OfConfig
  BY WantedIs
<1> QED BY <1>4, <1>5, <1>6, <1>7, <1>8, <1>9, <1>10

LEMMA CountsFitUsers == SessionInv => CountsAreUsers
BY WantedThere, CountsOf DEF CountsAreUsers

\* A program that has died of a token it had kept: nothing changes any more.
Died == phase = "dead" /\ SessionTypeOK /\ TokenListSound /\ CountsAreUsers

LEMMA SameLists ==
  ASSUME UNCHANGED <<setup, names, ref_cnt, held, stack, mangled>>
  PROVE  /\ TokenListSound => TokenListSound'
         /\ CountsAreUsers => CountsAreUsers'
<1>1. TokenListSound => TokenListSound'
  BY DEF TokenListSound, Depth
<1>2. ASSUME NEW o PROVE Users(o)' = Users(o)
  BY DEF Users, Depth, TokensIn, ListsOf, Alive
<1>3. Wanted' = Wanted
  BY DEF Wanted, Depth, TokensIn, ListsOf, Alive
<1>4. Alive' = Alive /\ ref_cnt' = ref_cnt
  BY DEF Alive
<1> QED BY <1>1, <1>2, <1>3, <1>4 DEF CountsAreUsers

LEMMA UseStep == ASSUME SessionInv, Use PROVE Died'
<1>1. SessionTypeOK /\ TokenListSound /\ CountsAreUsers
  BY TypesFit, ListsFit, CountsFitUsers
<1>2. phase' = "dead" /\ UNCHANGED <<setup, names, ref_cnt, held, stack, stash, mangled>>
  BY DEF Use
<1>3. SessionTypeOK'
  BY <1>1, <1>2 DEF SessionTypeOK, Depth
<1> QED BY <1>1, <1>2, <1>3, SameLists DEF Died

LEMMA DeadStays == ASSUME phase = "dead", [Next]_vars PROVE UNCHANGED vars
<1>1. ~Library
  BY DEF Library, Characters, PlainTag, OpenTag, CloseTag, EndDocument, Overrun, PassInclude,
         EnterInclude, OutOfStack, LeaveInclude, CallHandler, Reading, Parsing
<1>2. ~(New \/ ParseDirectory \/ UnknownFile \/ SkipFile \/ ParseFile)
  BY DEF New, ParseDirectory, UnknownFile, SkipFile, ParseFile, Asked
<1>3. ~(NextToken \/ Keep \/ Drop \/ Use \/ Return \/ Free)
  BY DEF NextToken, Keep, Drop, Use, Return, Free, Running
<1> QED BY <1>1, <1>2, <1>3 DEF Next

LEMMA DiedStep == ASSUME Died, [Next]_vars PROVE Died'
<1>1. UNCHANGED vars
  BY DeadStays DEF Died
<1>2. UNCHANGED <<phase, setup, names, ref_cnt, held, stack, stash, mangled>>
  BY <1>1 DEF vars
<1>3. SessionTypeOK'
  BY <1>2 DEF Died, SessionTypeOK, Depth
<1> QED BY <1>2, <1>3, SameLists DEF Died

LEMMA Always == Spec => [](SessionInv \/ Died)
<1>1. Init => SessionInv \/ Died
  BY InitSession
<1>2. (SessionInv \/ Died) /\ [Next]_vars => (SessionInv \/ Died)'
  BY NextSession, UseStep, DiedStep
<1> QED BY <1>1, <1>2, PTL DEF Spec

\* Whatever the files and the program do, phase, stack, stash and held agree with
\* each other and no ref_cnt goes below zero: every document that swish_parse_file
\* and process_xinclude begin puts back the stash it found (parser.c).
THEOREM TypesHold == Spec => []SessionTypeOK
<1>1. SessionInv \/ Died => SessionTypeOK
  BY TypesFit DEF Died
<1> QED BY <1>1, Always, PTL

\* In the list of every document that is being parsed the tokens of
\* swish_add_token lie one behind the other in the buffer, with growing positions
\* and room in the array, whatever included files add to it or leave out, and
\* however often it grows (tokenizer.c, process_xinclude in parser.c).
THEOREM ListsHold == Spec => []TokenListSound
<1>1. SessionInv \/ Died => TokenListSound
  BY ListsFit DEF Died
<1> QED BY <1>1, Always, PTL

\* At any time, for any files, settings, names learnt and tokens that a handler
\* keeps, every ref_cnt is the number of those who are counted at the object, and
\* it is there as long as there is one: for them the frees of
\* swish_token_list_free, swish_token_iterator_free, swish_config_free and
\* swish_3_free come neither too early nor never.  That says nothing of a token's
\* value and context, pointers into its list that nobody counts: a token that is
\* kept outlives them (Use, ContextsOutliveTokens).
THEOREM CountsHold == Spec => []CountsAreUsers
<1>1. SessionInv \/ Died => CountsAreUsers
  BY CountsFitUsers DEF Died
<1> QED BY <1>1, Always, PTL

-----------------------------------------------------------------------------
(* The words of a text.                                                    *)

\* What was flushed last is what the tokenizers make of it.
FlushedFits ==
  \/ flushed = [text |-> << >>, before |-> NewList(0), after |-> NewList(0)]
  \/ \E n, m \in Nat :
       /\ Sound(flushed.before) /\ flushed.text \in Seq(Char)
       /\ flushed.after = Tokenize([flushed.before EXCEPT !.made = n], flushed.text, m)

LEMMA FlushKeeps ==
  ASSUME SessionInv, phase = "parsing", FlushedFits, NEW meta \in Range(names),
         NEW f, f = Flushed(Top, meta), Remember(f)
  PROVE  FlushedFits'
<1>1. /\ Good(Top, Range(names), setup.tokenize, mangled, made) /\ made \in Nat
      /\ Range(names) \subseteq Nat /\ setup.tokenize \in BOOLEAN
  BY AtWork
<1>2. Sound(Top.list) /\ Top.meta_buf \in Seq(Char) /\ DOMAIN Top = DataFields /\ meta \in Nat
  BY <1>1 DEF Good
<1>3. CASE ~setup.tokenize
  <2>1. flushed' = flushed
    BY <1>3 DEF Remember
  <2> QED BY <2>1 DEF FlushedFits
<1>4. CASE setup.tokenize
  <2>1. PICK l : l = Tokenize([Top.list EXCEPT !.made = made], Top.meta_buf, meta)
    OBVIOUS
  <2>2. PICK b, k : f = [Top EXCEPT !.buffers = b, !.list = l, !.nwords = k, !.meta_buf = << >>]
    BY <1>4, <2>1 DEF Flushed
  <2>3. f.list = l
    BY <1>2, <2>2 DEF DataFields
  <2>4. flushed' = [text |-> Top.meta_buf, before |-> Top.list, after |-> f.list]
    BY <1>4 DEF Remember
  <2>5. PICK x : x = [text |-> Top.meta_buf, before |-> Top.list, after |-> f.list]
    OBVIOUS
  <2>6. /\ Sound(x.before) /\ x.text \in Seq(Char)
        /\ x.after = Tokenize([x.before EXCEPT !.made = made], x.text, meta)
    BY <1>2, <2>1, <2>3, <2>5
  <2>7. \E n, m \in Nat :
          /\ Sound(x.before) /\ x.text \in Seq(Char)
          /\ x.after = Tokenize([x.before EXCEPT !.made = n], x.text, m)
    BY <1>1, <1>2, <2>6
  <2> QED BY <2>4, <2>5, <2>7 DEF FlushedFits
<1> QED BY <1>1, <1>3, <1>4

LEMMA NextFlushed == ASSUME SessionInv \/ Died, FlushedFits, [Next]_vars PROVE FlushedFits'
<1>1. CASE UNCHANGED flushed
  BY <1>1 DEF FlushedFits
<1>0. CASE Died
  <2>1. UNCHANGED vars
    BY <1>0, DeadStays DEF Died
  <2> QED BY <1>1, <2>1 DEF vars
<1> SUFFICES ASSUME SessionInv PROVE FlushedFits'
  BY <1>0
<1>2. ASSUME phase = "parsing", NEW meta \in {Inner, Default}, NEW f, f = Flushed(Top, meta), Remember(f)
      PROVE  FlushedFits'
  <2>1. Inner \in Range(names) /\ Default \in Range(names)
    BY <1>2, InnerKnown, AtWork
  <2>2. meta \in Range(names)
    BY <1>2, <2>1
  <2> QED BY <1>2, <2>2, FlushKeeps
<1>3. Inner \in {Inner, Default} /\ Default \in {Inner, Default}
  OBVIOUS
<1>4. CASE OpenTag
  <2>1. phase = "parsing" /\ \E f \in {Flushed(Top, Inner)} : Remember(f)
    BY <1>4 DEF OpenTag, Reading, Parsing
  <2>2. PICK f : f = Flushed(Top, Inner) /\ Remember(f)
    BY <2>1
  <2> QED BY <1>2, <1>3, <2>1, <2>2
<1>5. CASE CloseTag
  <2>1. phase = "parsing" /\ \E f \in {Flushed(Top, Inner)} : Remember(f)
    BY <1>5 DEF CloseTag, Reading, Parsing
  <2>2. PICK f : f = Flushed(Top, Inner) /\ Remember(f)
    BY <2>1
  <2> QED BY <1>2, <1>3, <2>1, <2>2
<1>6. CASE EndDocument
  <2>1. phase = "parsing" /\ \E f \in {Flushed(Top, Default)} : Remember(f)
    BY <1>6 DEF EndDocument, Parsing
  <2>2. PICK f : f = Flushed(Top, Default) /\ Remember(f)
    BY <2>1
  <2> QED BY <1>2, <1>3, <2>1, <2>2
<1>7. CASE PassInclude
  <2>1. phase = "parsing"
        /\ (UNCHANGED flushed \/ \E f \in {Flushed(Top, Inner)} : Remember(f))
    BY <1>7 DEF PassInclude, Reading, Parsing
  <2>2. CASE \E f \in {Flushed(Top, Inner)} : Remember(f)
    <3>1. PICK f : f = Flushed(Top, Inner) /\ Remember(f)
      BY <2>2
    <3> QED BY <1>2, <1>3, <2>1, <3>1
  <2> QED BY <1>1, <2>1, <2>2
<1>8. CASE EnterInclude
  <2>1. phase = "parsing" /\ \E f \in {Flushed(Top, Inner)} : Remember(f)
    BY <1>8 DEF EnterInclude, Reading, Parsing
  <2>2. PICK f : f = Flushed(Top, Inner) /\ Remember(f)
    BY <2>1
  <2> QED BY <1>2, <1>3, <2>1, <2>2
<1>9. CASE Characters \/ PlainTag \/ Overrun \/ OutOfStack \/ LeaveInclude \/ CallHandler
  BY <1>1, <1>9 DEF Characters, PlainTag, Overrun, OutOfStack, LeaveInclude, CallHandler
<1>10. CASE New \/ ParseDirectory \/ UnknownFile \/ SkipFile \/ ParseFile \/ NextToken
  BY <1>1, <1>10 DEF New, ParseDirectory, UnknownFile, SkipFile, ParseFile, NextToken
<1>11. CASE Keep \/ Drop \/ Use \/ Return \/ Free
  BY <1>1, <1>11 DEF Keep, Drop, Use, Return, Free
<1>12. CASE UNCHANGED vars
  BY <1>1, <1>12 DEF vars
<1> QED BY <1>4, <1>5, <1>6, <1>7, <1>8, <1>9, <1>10, <1>11, <1>12 DEF Next, Library

LEMMA WordsFit ==
  ASSUME MinWordLen = 1, AsciiStays, FlushedFits PROVE TokensAreWords
<1>1. CASE flushed = [text |-> << >>, before |-> NewList(0), after |-> NewList(0)]
  <2>1. flushed.text = << >> /\ flushed.before = NewList(0) /\ flushed.after = NewList(0)
    BY <1>1
  <2>2. (Len(NewList(0).tokens) + 1)..Len(NewList(0).tokens) = {}
    <3>1. Len(NewList(0).tokens) = 0
      BY DEF NewList
    <3> QED BY <3>1
  <2>3. Expected(<< >>) = {}
    <3>1. << >> \in Seq(Char) /\ Len(<< >>) = 0
      OBVIOUS
    <3>2. ASSUME NEW q \in Pieces(<< >>) PROVE FALSE
      <4>1. q[1] \in 1..Len(<< >>)
        BY <3>1, PieceFacts
      <4> QED BY <3>1, <4>1
    <3>3. WordsAt(<< >>) = {}
      BY <3>2 DEF WordsAt
    <3> QED BY <3>3 DEF Expected
  <2> QED BY <2>1, <2>2, <2>3 DEF TokensAreWords
<1>2. ASSUME NEW n \in Nat, NEW m \in Nat, Sound(flushed.before), flushed.text \in Seq(Char),
             flushed.after = Tokenize([flushed.before EXCEPT !.made = n], flushed.text, m)
      PROVE  TokensAreWords
  <2>1. PICK old : old = [flushed.before EXCEPT !.made = n]
    OBVIOUS
  <2>2. Sound(old) /\ old.tokens = flushed.before.tokens
    BY <1>2, <2>1, SoundRenumbered
  <2>3. old.pos = flushed.before.pos
    BY <1>2, <2>1 DEF Sound, Lists
  <2>4. PICK text, new : text = flushed.text /\ new = Tokenize(old, text, m)
    OBVIOUS
  <2>5. Gentle(text) =>
          {[word |-> TokenBytes(new, new.tokens[i]), pos |-> new.tokens[i].pos - old.pos] :
             i \in (Len(old.tokens) + 1)..Len(new.tokens)} = Expected(text)
    <3>1. text \in Seq(Char)
      BY <1>2, <2>4
    <3>2. Gentle(text) =>
            {[word |-> TokenBytes(Tokenize(old, text, m), Tokenize(old, text, m).tokens[i]),
              pos  |-> Tokenize(old, text, m).tokens[i].pos - old.pos] :
                i \in (Len(old.tokens) + 1)..Len(Tokenize(old, text, m).tokens)}
              = Expected(text)
      BY <2>2, <3>1, TokenizeWords
    <3> QED BY <2>4, <3>2
  <2>6. flushed.after = new
    BY <1>2, <2>1, <2>4
  <2> QED BY <2>2, <2>3, <2>4, <2>5, <2>6 DEF TokensAreWords
<1> QED BY <1>1, <1>2 DEF FlushedFits

LEMMA AlwaysFlushed == Spec => []FlushedFits
<1>1. Init => FlushedFits
  BY DEF Init, FlushedFits
<1> QED BY <1>1, Always, NextFlushed, PTL DEF Spec

\* Every text that is flushed and Gentle becomes the tokens it should: those words,
\* in those places, cut at MaxWordLen and stripped of the marks at their ends,
\* whatever came before it in the list, if words of one byte are kept as they are
\* by default and tolower leaves ASCII letters ASCII (tokenizer.c).  No word of such
\* a text overruns chr[5] of strip_utf8_chrs; one that overruns the buffer of a word
\* is among them, unless the process died of it (Overrun).
THEOREM WordsHold ==
  ASSUME MinWordLen = 1, AsciiStays PROVE Spec => []TokensAreWords
<1>1. FlushedFits => TokensAreWords
  BY WordsFit
<1> QED BY <1>1, AlwaysFlushed, PTL
=============================================================================
