------------------------------- MODULE Session -------------------------------
(***************************************************************************)
(* A swish_3 and what it allocates while it parses files: parser data,     *)
(* token lists and metanames, all counted by references (swish.c,          *)
(* parser.c, tokenizer.c, analyzer.c, metaname.c, config.c), with the      *)
(* tokens of Tokenizer and with XInclude, which runs a second parser in    *)
(* the middle of the first one.                                            *)
(*                                                                         *)
(* What the parser makes of tags is DocParser's subject; here an element   *)
(* is a metaname, or not, and a file is the sequence of its events.  A     *)
(* metaname is its number.  The program that calls the library is          *)
(* external: it parses files and keeps objects it is given.                *)
(***************************************************************************)
EXTENDS Tokenizer

CONSTANTS
  Files,      \* uri -> its parser, events, characters and its name's characters
  Directories,        \* uri -> its entries
  Devices,    \* uris of what is neither
  Cases,      \* what a program does: its settings and the files it parses
  MaxDepth    \* bound: parsers within each other

Default == 0
Title   == 1
Named   == {Default, Title, 2}        \* the metanames of the configuration

NoUri == << >>
Event(kind, meta, chars, uri, as_text) ==
  [kind |-> kind, meta |-> meta, chars |-> chars, uri |-> uri, as_text |-> as_text]
Text(chars)           == Event("text", Default, chars, NoUri, FALSE)
Open(meta)            == Event("open", meta, << >>, NoUri, FALSE)
Close(meta)           == Event("close", meta, << >>, NoUri, FALSE)
Include(uri, as_text) == Event("include", Default, << >>, uri, as_text)

VARIABLES
  phase,      \* "none", "idle", "parsing", "handler", "freed" or "dead"
  setup, todo,        \* of this program: settings, and files to parse
  names,      \* the metanames of the configuration
  ref_cnt,    \* of every allocated object
  held,       \* the objects the program keeps
  stack,      \* the ParserData, the innermost last
  stash,      \* s3->stash: 0 for the program's own, or a place in the stack
  made,       \* tokens made
  current,    \* the token that the handler has got last
  \* history
  flushed,    \* the last text tokenized, and the list before and after it
  mangled     \* has a text been tokenized that was not Gentle?

vars == <<phase, setup, todo, names, ref_cnt, held, stack, stash, made, current, flushed, mangled>>

ASSUME FileAssumption ==
  /\ MaxDepth \in Nat \ {0}
  /\ \A u \in DOMAIN Files :
       /\ Files[u].parser \in {"XML", "TXT"}
       /\ Files[u].chars \in Seq(Char) /\ Files[u].name \in Seq(Char)
       /\ Files[u].events \in Seq({e \in Range(Files[u].events) : e.meta \in Nat /\ e.chars \in Seq(Char)})
  /\ \A c \in Cases : c.setup.tokenize \in BOOLEAN /\ c.setup.keeps \in Nat
  /\ \A d \in DOMAIN Directories : \A i \in DOMAIN Directories[d] :
       DOMAIN Directories[d][i] = {"uri", "hidden", "link"}

-----------------------------------------------------------------------------
(* Reference counts.  An object that is freed leaves the domain.           *)

Object(kind, n) == [kind |-> kind, n |-> n, meta |-> -1]
S3          == Object("s3", 0)
Config      == Object("config", 0)
Analyzer    == Object("analyzer", 0)
Parser      == Object("parser", 0)
Iterator(d) == Object("iterator", d)       \* with its TokenList
Meta(m)     == Object("meta", m)
Token(t)    == [kind |-> "token", n |-> t.n, meta |-> t.meta]

Allocate(refs, o, n) == [p \in DOMAIN refs \cup {o} |-> IF p = o THEN n ELSE refs[p]]
Dispose(refs, o)     == [p \in DOMAIN refs \ {o} |-> refs[p]]
Inc(refs, o)         == [refs EXCEPT ![o] = @ + 1]
Dec(refs, o)         == [refs EXCEPT ![o] = @ - 1]

ReleasePlain(refs, o) == IF refs[o] <= 1 THEN Dispose(refs, o) ELSE Dec(refs, o)

\* Fault: swish_token_free forgets the metaname.
ReleaseTokenOnly(refs, o) == ReleasePlain(refs, o)

\* swish_token_free
ReleaseToken(refs, o) ==
  IF refs[o] <= 1 THEN Dispose(ReleasePlain(refs, Meta(o.meta)), o) ELSE Dec(refs, o)

\* swish_config_free
ReleaseName(refs, m) == ReleasePlain(refs, Meta(m))
ReleaseConfig(refs) ==
  IF refs[Config] <= 1
  THEN Dispose(Fold(ReleaseName, refs, names), Config)
  ELSE Dec(refs, Config)

Release(refs, o) ==
  CASE o.kind = "token" -> ReleaseToken(refs, o)
    [] o = Config       -> ReleaseConfig(refs)
    [] OTHER            -> ReleasePlain(refs, o)

\* Tokens of a list from the given one on have been added.
CountToken(refs, t) == Inc(Allocate(refs, Token(t), 1), Meta(t.meta))
CountTokens(refs, list, from) ==
  Fold(CountToken, refs, SubSeq(list.tokens, from, Len(list.tokens)))

\* swish_token_iterator_free and swish_token_list_free: the buffer and the contexts
\* go with the list, whoever has kept one of its tokens (see Use).
ReleaseListed(refs, t) == ReleaseToken(refs, Token(t))
FreeIterator(refs, depth, list) ==
  Fold(ReleaseListed, Dispose(ReleasePlain(refs, Analyzer), Iterator(depth)), list.tokens)

-----------------------------------------------------------------------------
(* Parser data.                                                            *)

Depth == Len(stack)
Top   == stack[Depth]
ListsOf(d)  == stack[d].list.tokens
TokensIn(d) == {Token(ListsOf(d)[i]) : i \in DOMAIN ListsOf(d)}

\* A text file is put under swishdefault, and its name under swishtitle.
EventsOf(uri, as_text) ==
  IF as_text \/ Files[uri].parser = "TXT"
  THEN <<Text(Files[uri].chars), Open(Title), Text(Files[uri].name), Close(Title)>>
  ELSE Files[uri].events

\* init_parser_data; "saved" is process_xinclude's cur_stash.
ParserData(uri, as_text, saved) ==
  [uri |-> uri, left |-> EventsOf(uri, as_text), ended |-> FALSE, metastack |-> <<Default>>,
   meta_buf |-> << >>, bump_word |-> TRUE, nwords |-> 0, list |-> NewList(made), next |-> 1,
   buffers |-> [m \in Range(names) |-> << >>], saved |-> saved]

StartParser(refs, depth) == Inc(Inc(Allocate(refs, Iterator(depth), 1), S3), Analyzer)

\* free_parser_data
FreeParserData(refs, depth, list) == FreeIterator(Dec(refs, S3), depth, list)

Blank(chars) == \A i \in DOMAIN chars : chars[i] = " "
Joined(buf, chars) ==
  IF Blank(chars) THEN buf ELSE IF buf = << >> THEN chars ELSE buf \o <<BUMP>> \o chars

\* flush_buffer and tokenize
Flushed(d, meta) ==
  LET list == IF setup.tokenize THEN Tokenize([d.list EXCEPT !.made = made], d.meta_buf, meta)
              ELSE d.list
  IN [d EXCEPT !.buffers = [m \in DOMAIN @ \cup {meta} |->
                              IF m = meta
                              THEN Joined(IF m \in DOMAIN @ THEN @[m] ELSE << >>, d.meta_buf)
                              ELSE @[m]],
               !.list = list, !.nwords = @ + Len(list.tokens) - Len(d.list.tokens),
               !.meta_buf = << >>]

\* The parser in front goes on with d; its new tokens are counted.
Continue(d, refs) ==
  /\ stack' = [stack EXCEPT ![Depth] = d]
  /\ ref_cnt' = CountTokens(refs, d.list, Len(Top.list.tokens) + 1)
  /\ made' = IF Len(d.list.tokens) > Len(Top.list.tokens) THEN d.list.made ELSE made

Remember(d) ==
  IF setup.tokenize
  THEN /\ flushed' = [text |-> Top.meta_buf, before |-> Top.list, after |-> d.list]
       /\ mangled' = (mangled \/ ~Gentle(Top.meta_buf))
  ELSE UNCHANGED <<flushed, mangled>>

-----------------------------------------------------------------------------
(* The program, and swish_3_init.                                          *)

Init ==
  /\ phase = "none" /\ names = << >> /\ \E c \in Cases : setup = c.setup /\ todo = c.files
  /\ ref_cnt = [o \in {} |-> 0] /\ held = {} /\ stack = << >> /\ stash = 0 /\ made = 0
  /\ current = << >> /\ mangled = FALSE
  /\ flushed = [text |-> << >>, before |-> NewList(0), after |-> NewList(0)]

\* The analyzer has its own copy of the flag to tokenize: a configuration that is
\* merged later does not change it.
New ==
  /\ phase = "none" /\ phase' = "idle"
  /\ names' = <<0, 1, 2>>
  /\ ref_cnt' = [o \in {Config, Analyzer, Parser, S3} \cup {Meta(m) : m \in Named} |->
                   IF o = S3 THEN 0 ELSE 1]
  /\ UNCHANGED <<setup, todo, held, stack, stash, made, current, flushed, mangled>>

\* swish_parse_directory: what it meets comes first.  Files that are hidden or
\* links are not parsed, links to directories only if the program says so.
Walked(e) == ~e.hidden /\ (e.link => setup.links /\ e.uri \in DOMAIN Directories)
Asked(uris) == phase = "idle" /\ todo # << >> /\ todo[1] \in uris

ParseDirectory ==
  /\ Asked(DOMAIN Directories)
  /\ LET seen == SelectSeq(Directories[todo[1]], Walked)
     IN todo' = [i \in DOMAIN seen |-> seen[i].uri] \o Tail(todo)
  /\ UNCHANGED <<phase, setup, names, ref_cnt, held, stack, stash, made, current, flushed, mangled>>

\* "Unknown file in directory": SWISH_CROAK.
UnknownFile ==
  /\ Asked(Devices) /\ phase' = "dead"
  /\ UNCHANGED <<setup, todo, names, ref_cnt, held, stack, stash, made, current, flushed, mangled>>

\* swish_parse_file, of a file that is not there: its parser data is freed.
SkipFile ==
  /\ phase = "idle" /\ todo # << >> /\ todo' = Tail(todo)
  /\ todo[1] \notin DOMAIN Files \cup DOMAIN Directories \cup Devices
  /\ ref_cnt' = FreeParserData(StartParser(ref_cnt, 1), 1, NewList(made))
  /\ UNCHANGED <<phase, setup, names, held, stack, stash, made, current, flushed, mangled>>

ParseFile ==
  /\ Asked(DOMAIN Files) /\ phase' = "parsing" /\ todo' = Tail(todo)
  /\ stack' = <<ParserData(todo[1], FALSE, 0)>>
  /\ ref_cnt' = StartParser(ref_cnt, 1)
  /\ UNCHANGED <<setup, names, held, stash, made, current, flushed, mangled>>

-----------------------------------------------------------------------------
(* Events.                                                                 *)

Parsing == phase = "parsing" /\ ~Top.ended
Reading(kind) == Parsing /\ Top.left # << >> /\ Top.left[1].kind = kind
Here == Top.left[1]
Read(d) == [d EXCEPT !.left = Tail(@)]
Same == UNCHANGED <<phase, setup, todo, held, current>>

\* buffer_characters
Characters ==
  /\ Reading("text")
  /\ LET joint == IF Top.bump_word /\ Top.meta_buf # << >> THEN <<BUMP>> ELSE << >>
     IN Continue([Read(Top) EXCEPT !.meta_buf = @ \o joint \o Here.chars, !.bump_word = FALSE],
                 ref_cnt)
  /\ Same /\ UNCHANGED <<names, stash, flushed, mangled>>

Inner == Top.metastack[Len(Top.metastack)]
Known == Here.meta \in Range(names)

\* An element without a metaname only bumps the position.
PlainTag ==
  /\ \/ Reading("open") /\ ~Known /\ ~setup.auto
     \/ Reading("close") /\ Here.meta # Inner
  /\ Continue([Read(Top) EXCEPT !.bump_word = TRUE], ref_cnt)
  /\ Same /\ UNCHANGED <<names, stash, flushed, mangled>>

\* bake_tag learns the name, and open_tag flushes what the outer one has.
OpenTag ==
  /\ Reading("open") /\ (Known \/ setup.auto)
  /\ \E d \in {Flushed(Top, Inner)} :
       LET m == Here.meta
       IN /\ Continue([Read(d) EXCEPT
                         !.bump_word = TRUE, !.metastack = Append(@, m),
                         !.buffers = IF m \in DOMAIN @ \/ Known THEN @
                                     ELSE [n \in DOMAIN @ \cup {m} |->
                                             IF n = m THEN << >> ELSE @[n]]],
                      IF Known THEN ref_cnt ELSE Allocate(ref_cnt, Meta(m), 1))
          /\ names' = IF Known THEN names ELSE Append(names, m)
          /\ Remember(d)
  /\ Same /\ UNCHANGED stash

CloseTag ==
  /\ Reading("close") /\ Here.meta = Inner /\ Len(Top.metastack) > 1
  /\ \E d \in {Flushed(Top, Inner)} :
       /\ Continue([Read(d) EXCEPT !.bump_word = TRUE,
                                   !.metastack = SubSeq(@, 1, Len(@) - 1)], ref_cnt)
       /\ Remember(d)
  /\ Same /\ UNCHANGED <<names, stash>>

\* myendDocument
EndDocument ==
  /\ Parsing /\ Top.left = << >>
  /\ \E d \in {Flushed(Top, Default)} :
       Continue([d EXCEPT !.ended = TRUE], ref_cnt) /\ Remember(d)
  /\ Same /\ UNCHANGED <<names, stash>>

\* tokenize has written behind one of its buffers: the process may die of it.  If it
\* does not, the event is what the actions here say.
Flushing ==
  \/ Top.left = << >>
  \/ Reading("open") /\ (Known \/ setup.auto)
  \/ Reading("close") /\ Here.meta = Inner /\ Len(Top.metastack) > 1
  \/ Reading("include") /\ setup.follow
Overrun ==
  /\ setup.tokenize /\ Parsing /\ Flushing /\ Overruns(Top.meta_buf)
  /\ phase' = "dead"
  /\ UNCHANGED <<setup, todo, names, ref_cnt, held, stack, stash, made, current, flushed, mangled>>

-----------------------------------------------------------------------------
(* XInclude; the element itself follows as another event.                  *)

Followed == setup.follow /\ Here.uri \in DOMAIN Files

\* Fault: a file that is not there is asked for again.
PassIncludeNever ==
  /\ Reading("include") /\ ~Followed
  /\ \E d \in {IF setup.follow THEN Flushed(Top, Inner) ELSE Top} :
       /\ Continue(IF setup.follow THEN d ELSE Read(d), ref_cnt)
       /\ IF setup.follow THEN Remember(d) ELSE UNCHANGED <<flushed, mangled>>
  /\ Same /\ UNCHANGED <<names, stash>>

\* Not followed, or there is no such file: then the words have been flushed.
PassInclude ==
  /\ Reading("include") /\ ~Followed
  /\ \E d \in {IF setup.follow THEN Flushed(Top, Inner) ELSE Top} :
       /\ Continue(Read(d), ref_cnt)
       /\ IF setup.follow THEN Remember(d) ELSE UNCHANGED <<flushed, mangled>>
  /\ Same /\ UNCHANGED <<names, stash>>

\* Fault: the words before are not flushed.
EnterIncludeUnflushed ==
  /\ Reading("include") /\ Followed /\ Depth < MaxDepth
  /\ stack' = Append([stack EXCEPT ![Depth] = Read(Top)], ParserData(Here.uri, Here.as_text, stash))
  /\ ref_cnt' = StartParser(ref_cnt, Depth + 1) /\ stash' = Depth
  /\ Same /\ UNCHANGED <<names, made, flushed, mangled>>

\* process_xinclude, up to docparser.
EnterInclude ==
  /\ Reading("include") /\ Followed /\ Depth < MaxDepth
  /\ \E d \in {Flushed(Top, Inner)} :
       /\ stack' = Append([stack EXCEPT ![Depth] = Read(d)],
                          ParserData(Here.uri, Here.as_text, stash))
       /\ ref_cnt' = StartParser(CountTokens(ref_cnt, d.list, Len(Top.list.tokens) + 1), Depth + 1)
       /\ made' = IF d.list.made > made THEN d.list.made ELSE made
       /\ Remember(d)
  /\ stash' = Depth
  /\ Same /\ UNCHANGED names

\* Files that include each other: the process is out of stack.
OutOfStack ==
  /\ Reading("include") /\ Followed /\ Depth = MaxDepth
  /\ phase' = "dead"
  /\ UNCHANGED <<setup, todo, names, ref_cnt, held, stack, stash, made, current, flushed, mangled>>

\* xinclude_handler: tokens and buffers of d are added to those of the outer
\* parser p, but only to the buffers that p has.
Copies(list, from) ==
  [i \in 1..(Len(list.tokens) - from + 1) |->
     LET t == list.tokens[from + i - 1]
     IN [bytes |-> SubSeq(list.buf, t.offset + 1, t.offset + t.len + 1), meta |-> t.meta]]
AddCopy(list, x) == AddToken(list, x.bytes, x.meta)
Merged(p, d) ==
  [p EXCEPT
     !.list = Fold(AddCopy, [@ EXCEPT !.made = made], Copies(d.list, d.next)),
     !.nwords = @ + d.nwords,
     !.buffers = [m \in DOMAIN @ |-> Joined(@[m], IF m \in DOMAIN d.buffers THEN d.buffers[m] ELSE << >>)]]

\* Fault: s3->stash is not put back.
LeaveIncludeKeepStash ==
  /\ phase = "parsing" /\ Top.ended /\ Depth > 1
  /\ \E q \in {Merged(stack[stash], Top)} :
       /\ stack' = SubSeq([stack EXCEPT ![stash] = q], 1, Depth - 1)
       /\ ref_cnt' = FreeParserData(
                        CountTokens(ref_cnt, q.list, Len(stack[stash].list.tokens) + 1),
                        Depth, Top.list)
       /\ made' = q.list.made
  /\ Same /\ UNCHANGED <<names, stash, flushed, mangled>>

\* The rest of process_xinclude.
LeaveInclude ==
  /\ phase = "parsing" /\ Top.ended /\ Depth > 1
  /\ \E q \in {Merged(stack[stash], Top)} :
       /\ stack' = SubSeq([stack EXCEPT ![stash] = q], 1, Depth - 1)
       /\ ref_cnt' = FreeParserData(
                        CountTokens(ref_cnt, q.list, Len(stack[stash].list.tokens) + 1),
                        Depth, Top.list)
       /\ made' = q.list.made
  /\ stash' = Top.saved
  /\ Same /\ UNCHANGED <<names, flushed, mangled>>

-----------------------------------------------------------------------------
(* The handler.                                                            *)

CallHandler ==
  /\ phase = "parsing" /\ Top.ended /\ Depth = 1 /\ phase' = "handler"
  /\ UNCHANGED <<setup, todo, names, ref_cnt, held, stack, stash, made, current, flushed, mangled>>

\* swish_token_iterator_next_token
NextToken ==
  /\ phase = "handler" /\ setup.keeps > 0 /\ Top.next <= Len(Top.list.tokens)
  /\ current' = <<Top.list.tokens[Top.next]>>
  /\ stack' = [stack EXCEPT ![1].next = @ + 1]
  /\ UNCHANGED <<phase, setup, todo, names, ref_cnt, held, stash, made, flushed, mangled>>

\* What the program may keep after the handler has returned; it may use the
\* iterator only until then.
Offered == {Config, Analyzer, Iterator(1)}
             \cup UNION {{Token(current[i]), Meta(current[i].meta)} : i \in DOMAIN current}

Keep ==
  /\ phase = "handler" /\ Cardinality(held) < setup.keeps
  /\ \E o \in Offered \ held : held' = held \cup {o} /\ ref_cnt' = Inc(ref_cnt, o)
  /\ UNCHANGED <<phase, setup, todo, names, stack, stash, made, current, flushed, mangled>>

\* The library does not run.
Running == phase \in {"idle", "handler", "freed"}

Drop ==
  /\ Running
  /\ \E o \in held : held' = held \ {o} /\ ref_cnt' = Release(ref_cnt, o)
  /\ UNCHANGED <<phase, setup, todo, names, stack, stash, made, current, flushed, mangled>>

\* The program reads the value or the context of a token it has kept: both lie in
\* the token's list, and the token is not counted there.  After the list has been
\* freed, the process may die of it.
InList(o) == \E d \in 1..Depth : o \in TokensIn(d)
Use ==
  /\ Running /\ \E o \in held : o.kind = "token" /\ ~InList(o)
  /\ phase' = "dead"
  /\ UNCHANGED <<setup, todo, names, ref_cnt, held, stack, stash, made, current, flushed, mangled>>

Return ==
  /\ phase = "handler" /\ Iterator(1) \notin held /\ phase' = "idle"
  /\ ref_cnt' = FreeParserData(ref_cnt, 1, Top.list)
  /\ stack' = << >> /\ current' = << >>
  /\ UNCHANGED <<setup, todo, names, held, stash, made, flushed, mangled>>

\* swish_3_free
Free ==
  /\ phase = "idle" /\ phase' = "freed"
  /\ ref_cnt' = ReleaseConfig(ReleasePlain(ReleasePlain(Dispose(ref_cnt, S3), Parser), Analyzer))
  /\ UNCHANGED <<setup, todo, names, held, stack, stash, made, current, flushed, mangled>>

Library ==
  \/ Characters \/ PlainTag \/ OpenTag \/ CloseTag \/ EndDocument \/ Overrun
  \/ PassInclude \/ EnterInclude \/ OutOfStack \/ LeaveInclude \/ CallHandler

Next == New \/ ParseDirectory \/ UnknownFile \/ SkipFile \/ ParseFile \/ Library \/ NextToken \/ Keep \/ Drop \/ Use \/ Return \/ Free

\* The library waits for nothing.
Spec == Init /\ [][Next]_vars /\ WF_vars(Library)

-----------------------------------------------------------------------------
(* The properties.                                                         *)

ObjectKinds == {"s3", "config", "analyzer", "parser", "iterator", "meta", "token"}

\* Counters and places are within their ranges, and the phase says what exists.
SessionTypeOK ==
  /\ phase \in {"none", "idle", "parsing", "handler", "freed", "dead"}
  /\ \A o \in DOMAIN ref_cnt : o.kind \in ObjectKinds /\ ref_cnt[o] \in Nat
  /\ stash = (IF Depth = 0 THEN 0 ELSE Depth - 1) /\ Depth <= MaxDepth /\ Cardinality(held) <= setup.keeps
  /\ (phase \in {"parsing", "handler"} => stack # << >>)
  /\ (stack # << >> => phase \in {"parsing", "handler", "dead"})
  /\ phase \in {"none", "freed"} => S3 \notin DOMAIN ref_cnt
  /\ \A i \in 1..Depth : stack[i].next \in 1..(Len(stack[i].list.tokens) + 1)

\* The tokens of a text, with their positions, are those it should have:
\* whatever comes before it in the list, and in whatever way its words, marks,
\* bumpers and its end lie to the limit of MaxWordLen.  Words that overrun chr[5]
\* are excepted by Gentle; after one that overran its buffer, the process lives.
TokensAreWords ==
  Gentle(flushed.text) =>
    LET list == flushed.after
        new  == (Len(flushed.before.tokens) + 1)..Len(list.tokens)
    IN {[word |-> TokenBytes(list, list.tokens[i]), pos |-> list.tokens[i].pos - flushed.before.pos] :
          i \in new} = Expected(flushed.text)

\* In every list the tokens lie one behind the other in the buffer, each ended
\* by NUL, their positions grow, and the array has room for them; through
\* included files and over the blocks in which the array grows.
TokenListSound ==
  \A d \in 1..Depth :
    LET list == stack[d].list
        toks == list.tokens
        After(t) == t.offset + t.len + 1
    IN /\ Len(toks) <= list.size /\ (setup.tokenize => stack[d].nwords = Len(toks))
       /\ \A i \in 1..(Len(toks) - 1) :
            After(toks[i]) = toks[i + 1].offset /\ toks[i].pos < toks[i + 1].pos
       /\ toks # << >> => After(toks[Len(toks)]) = Len(list.buf)
       /\ ~mangled => \A i \in DOMAIN toks : \A j \in 1..(toks[i].len + 1) :
                        list.buf[toks[i].offset + j] = NUL <=> j = toks[i].len + 1

\* Every count is the number of those who have counted themselves at the object:
\* while one of them is left it is not freed, and when the program has let go of
\* all, nothing is left.  The iterator of the handler is counted with its list.  A
\* token's pointers into its list are not counted anywhere, and not meant here.
Alive == DOMAIN ref_cnt
Users(o) ==
  (IF o \in held THEN 1 ELSE 0)
  + CASE o = S3 -> Depth
      [] o \in {Config, Parser} -> IF S3 \in Alive THEN 1 ELSE 0
      [] o = Analyzer -> Depth + IF S3 \in Alive THEN 1 ELSE 0
      [] o.kind = "iterator" -> IF o.n \in 1..Depth THEN 1 ELSE 0
      [] o.kind = "token" -> Cardinality({d \in 1..Depth : o \in TokensIn(d)})
      [] o.kind = "meta" ->
           Cardinality({t \in Alive : t.kind = "token" /\ t.meta = o.n})
           + IF Config \in Alive /\ o.n \in Range(names) THEN 1 ELSE 0
Wanted ==
  held \cup {Iterator(d) : d \in 1..Depth} \cup (UNION {TokensIn(d) : d \in 1..Depth})
  \cup {Meta(t.meta) : t \in {o \in Alive : o.kind = "token"}}
  \cup (IF S3 \in Alive THEN {Config, Analyzer, Parser} ELSE {})
  \cup (IF Config \in Alive THEN {Meta(m) : m \in Range(names)} ELSE {})
CountsAreUsers ==
  /\ Wanted \subseteq Alive
  /\ \A o \in Alive : ref_cnt[o] = Users(o) /\ (o # S3 => ref_cnt[o] > 0)

\* The texts of a file with those of the files it includes in their places, each
\* under its metaname; n levels of files within each other.
Flat[n \in 0..MaxDepth, u \in DOMAIN Files, as_text \in BOOLEAN] ==
  LET Item(s, e) ==
        LET watched == setup.auto \/ e.meta \in Named
            inner   == s.metastack[Len(s.metastack)]
        IN CASE e.kind = "text" -> [s EXCEPT !.out = Append(@, <<inner, e.chars>>)]
             [] e.kind = "open" /\ watched -> [s EXCEPT !.metastack = Append(@, e.meta)]
             [] e.kind = "close" /\ watched ->
                  [s EXCEPT !.metastack = SubSeq(@, 1, Len(@) - 1)]
             [] e.kind = "include" /\ setup.follow /\ e.uri \in DOMAIN Files /\ n > 0 ->
                  [s EXCEPT !.out = @ \o Flat[n - 1, e.uri, e.as_text]]
             [] OTHER -> s
  IN Fold(Item, [metastack |-> <<Default>>, out |-> << >>], EventsOf(u, as_text)).out

\* What the handler gets is the document with its included files in their
\* places: every word under its name, in the tokens and in the buffers.  Texts
\* with marks are left to TokensAreWords, and names that were learnt on the way
\* have a buffer only if the outer file learnt them.
Unmarked(texts) ==
  \A i \in DOMAIN texts : Gentle(texts[i][2]) /\ \A j \in DOMAIN texts[i][2] : texts[i][2][j] \notin Marks
WordsOf(text) ==
  LET at == SetToSortSeq(WordsAt(text), LAMBDA p, q : p[1] < q[1])
  IN [i \in DOMAIN at |-> Bytes(PieceWord(text, at[i]))]
IncludedWordsArrive ==
  phase = "handler" =>
    LET d     == stack[1]
        texts == Flat[MaxDepth, d.uri, FALSE]
        under(m) == SelectSeq(texts, LAMBDA t : t[1] = m /\ ~Blank(t[2]))
    IN /\ setup.tokenize /\ Unmarked(texts) =>
            [i \in DOMAIN d.list.tokens |->
               <<d.list.tokens[i].meta, TokenBytes(d.list, d.list.tokens[i])>>]
              = FlattenSeq([k \in DOMAIN texts |->
                   LET words == WordsOf(texts[k][2])
                   IN [j \in DOMAIN words |-> <<texts[k][1], words[j]>>]])
       /\ \A m \in Named :
            SelectSeq(d.buffers[m], LAMBDA c : c # BUMP)
              = SelectSeq(FlattenSeq([k \in DOMAIN under(m) |-> under(m)[k][2]]), LAMBDA c : c # BUMP)

\* Every file reaches the handler, unless files that include each other in a
\* circle use up the stack, or a word overruns the tokenizer's buffers.
InCircle == \E i, j \in 1..Depth : i # j /\ stack[i].uri = stack[j].uri
Answered ==
  phase = "parsing" ~>
    \/ phase = "handler"
    \/ phase = "dead" /\ stack # << >> /\ (InCircle \/ (setup.tokenize /\ Overruns(Top.meta_buf)))

\* No token outlives the contexts of its list, which swish_token_list_free frees
\* "**after** tokens": what the program may still read of a token it keeps is there.
ContextsOutliveTokens == \A o \in held : o.kind = "token" => InList(o)
=============================================================================
