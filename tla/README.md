# A TLA+ model of libswish3

libswish3 is a C library that turns documents (XML, HTML, plain text) into what a search
indexer needs: for each document a list of tokens with positions and metanames, and two
sets of *named buffers*, one for metanames and one for properties. This directory holds
TLA+ modules that model it, TLC configurations that check them on small instances, and
TLAPS proofs of what holds on all instances.

Paths below are relative to the repository's root; `parser.c` is
`src/libswish3/parser.c` unless said otherwise.

## Inventory

| component | source | state it keeps | operations | correct when |
|---|---|---|---|---|
| SAX document handlers | `parser.c` | `swish_ParserData`: `metastack`, `propstack`, `domstack`, `meta_buf`, `prop_buf`, `ignore_content`, `bump_word`, the named buffers, `tag` | `mystartElement(Ns)`, `myendElement(Ns)`, `mycharacters`, `mycomments`, `myendDocument`; below them `open_tag`, `bake_tag`, `close_tag`, `flush_buffer`, `buffer_characters`, the stack functions | each word is tokenized once, under the innermost watched element, in document order; no phrase crosses a tag or an ordinary comment; noindex regions and nothing else are hidden; no lookup fails |
| named buffers | `namedbuffer.c` | hash from name to buffer | `swish_nb_new`, `swish_nb_add_str`, `swish_buffer_concat` | every name of the configuration has a buffer, chunks are separated by the bumper |
| document framing | `parser.c`, `docinfo.c` | `head_buf`, the header count, the document counters, `DocInfo` | `swish_parse_fh`, `_buffer`, `_file`, `_directory`, `buf_to_head`, `head_to_docinfo` | the header of one document never leaks into the next; the body is exactly Content-Length bytes |
| XInclude | `parser.c` | a child `ParserData` that shares configuration and stash | `xinclude_handler`, `process_xinclude` | the included words appear once, in place, with positions that continue |
| tokenizer and token list | `tokenizer.c`, `utf8.c` | token iterator, `TokenList` (growing array, one text buffer) | `swish_tokenize_utf8`, `_ascii`, `swish_token_list_add_token`, `swish_token_list_get_token` | words within the length limits, offsets valid after growth |
| configuration | `config.c`, `metaname.c`, `property.c` | hashes of metanames, properties, aliases, parsers, flags; id tables | defaults, `swish_config_merge`, `swish_metaname_new`, `swish_property_get_id` | ids unique, aliases point to what exists, merge is right-biased |
| header reader and writer | `header.c` | reader state over a configuration | `swish_header_read`, `swish_header_merge`, `swish_header_write`, validation | what is written reads back the same |
| lifecycle | `swish.c`, `mem.c`, `analyzer.c` | reference counts, allocation counter | `swish_3_init`, `_free`, each object's `_new` and `_free` | nothing freed twice, nothing left |
| helpers | `hash.c`, `string.c` | hashes, string lists | hash operations, case, trimming, string-list parsing | what they compute |
| I/O | `io.c`, `fs.c`, `mime_types.c`, `times.c`, `getruntime.c` | none | slurp, stat, MIME by extension | what they return |
| errors | `error.c` | none | `SWISH_CROAK`, `SWISH_WARN` | a croak ends the process |
| command-line programs | `src/swish_*.c` | none | option parsing around the library | |
| Xapian indexer | `src/xapian/swish_xapian.cpp` | an external database, and next to it the header `swish.xml` that says what its numbers mean | index, overwrite, skip duplicates, delete, search | a search finds each word under its name, whatever runs wrote it; a killed run does no harm |
| Perl binding | `bindings/perl` | Perl references to C structures | constructors, accessors, handlers | counts shared correctly |

### How the parts interact

`swish_parse_*` frames a document and gives it to libxml2, which calls the SAX handlers.
The handlers keep the text read since the last watched tag in `meta_buf` and, in parallel,
`prop_buf`. A watched start tag flushes `meta_buf` under the metaname that was innermost
until then; a watched end tag flushes it under the one it closes. A flush writes the named
buffer, the analyzer's tokenizer and thereby the token list. `bake_tag` names an element
(namespaces, class attributes, aliases) and runs the undefined-tag switches, which may add
to the *configuration*, an object shared by all documents of the parser; attributes that
are metanames are parsed by calling `open_tag`, `buffer_characters` and `close_tag`
recursively from inside `bake_tag`. At the end of the document a handler callback receives
the whole `ParserData`.

### Hard behaviour

The library is single-threaded. In the indexer, several runs share one index on disk, each
of which may be killed anywhere. What makes the library hard is the order of calls and the
state they share:

* words are filed *after* they were read, by whichever tag comes next;
* `bump_word` and `ignore_content` are single variables written by tags, comments,
  attributes and the undefined-tag switches, and read by the next text;
* end tags pop two stacks by comparing names, not positions;
* `bake_tag` is re-entered in the middle of a start tag;
* the document changes the configuration that decides how the rest of it is read;
* a malformed document stops half-way; a stream carries many documents through one buffer;
* an included file is parsed by a second parser in the middle of a start tag of the first;
* tokens, metanames, analyzer and configuration are shared by counts that each part keeps;
* configurations are merged again and again, from files that include others and from the
  header of the last run, and names are numbered on the way.

`PROJECT.json` lists these as hazards at their lines, with the properties that cover them.

## Modules

| module | what it is |
|---|---|
| `DocParser` | the SAX handlers: state, one action per callback and per stage of `bake_tag` |
| `DocParserProps` | the type invariant, invariants and action property of `DocParser` |
| `MCDocParser` | configurations and alphabets of start tags for TLC |
| `DocParserProofs` | proofs: types, words and positions, growth, hidden text, phrases |
| `DocParserRoutingProofs` | proofs: the two stacks, routing, what the named buffers hold, refusals, lookups |
| `DocStream` | abstract: what a sender of documents is promised |
| `HeaderStream` | `swish_parse_fh` and `swish_parse_buffer`, from bytes to the handler, and their properties |
| `MCHeaderStream` | good and bad documents for TLC |
| `HeaderStreamProofs` | proof that `HeaderStream` implements `DocStream` |
| `Configuration` | pure: defaults, flags, names learnt from documents, `swish_config_merge`, the tests of aliases |
| `Header` | the reader of configuration files and headers, node by node, with `IncludeConfigFile`; `swish_header_write` |
| `DocumentStore` | abstract: what an index promises of the documents put into it |
| `Indexer` | `swish_xapian.cpp`: runs of the program over one index, with its properties; extends `Header` |
| `MCIndexer` | configuration files, documents and command lines for TLC |
| `IndexerProofs` | proofs: types, aliases, and that `Indexer` implements `DocumentStore` |
| `Tokenizer` | pure: the two tokenizers and the token list; the reference definition of the words of a text |
| `Session` | a `swish_3` and all it allocates: files, directories, XInclude, reference counts, the handler; extends `Tokenizer` |
| `MCSession` | texts, files and programs for TLC |
| `FoldProofs` | induction for left folds, over constants that the other modules instantiate |
| `TokenizerProofs` | proofs that the tokenizers keep a token list sound and find the words of a text |
| `SessionWorldProofs` | what each operation of `Session` does to counts and lists, as lemmas |
| `SessionProofs` | proofs: types, token lists, words, reference counts |

### `DocParser` and the code

*State.* The variables of the `swish_ParserData` group bear the code's names. `metabufs`
and `propbufs` are its two `NamedBuffer`s, each a function from name to the sequence of
chunks added (the code joins them with the bumper); `tokens` and `pos` are the token list
and its position counter. `metanames` and `properties` are the configuration's hashes,
which documents extend. `config` is everything else of the configuration, chosen in `Init`
from the constant `Configs`, so one run covers several. `open` is the libxml2 side: the
elements begun and not ended. `texts`, `noindex`, `segment`, the fields `meta` and `prop`
of `open`, and the field `by` of stack entries are history for the properties; no guard
reads them, except for the bound on the number of texts.

*Actions.* `StartElement` is `mystartElement(Ns)` up to the point where `bake_tag` has
named the tag. If it has an attribute, `XmlAttribute` or `HtmlMeta` runs the matching
switch and `OpenValue`, `BufferValue`, `CloseValue` are the recursive calls; `PushElement`
is the remainder of `open_tag`. `OpenFails` is what ends the process there: a refused tag,
an HTML `<meta>` without a name (`Nameless`, parser.c:1168), or a failed lookup. The
variable `phase` keeps the place inside one start tag: only `PushElement` leads back to the
state (`"sax"`) in which the next callback can come.
`EndElement`, `Characters`, `CommentNoindex`, `CommentIndex`, `CommentOther` and
`EndDocument` are the other callbacks. `OpenTag` and `CloseTag` hold the common body of
`open_tag` and `close_tag`, flushes included. `SWISH_CROAK` sets `status` to `"croaked"`;
`flush_buffer` following the `NULL` of a failed lookup sets it to `"crashed"`.

*Data.* A tag name is the sequence of its dot-separated parts, so `flatten_tag_stack` and
`"%s.%s"` are concatenation. A run of characters is one word, known by its number in the
document; `0` is the bumper. Case mapping is a function on words (`Lower`).

*Abstractions.* Every run of characters is one word: there are no whitespace-only runs,
and libxml2 does not split a word over two callbacks. An element has at most one
attribute. The joiners `:` and `.` are both boundaries of name parts. `swishdefault` and
`/` are not used as tags. The pointer `parser_data->tag` and the tokens' context string
are left out. Text is ASCII where `swish_str_ctrl_to_ws` cleans it: control bytes,
including the bumper, become spaces. `EndDocument` may come with elements open, as it does
when libxml2 stops at a syntax error. Attribute elements whose names are `swishdefault`
are excluded by `WellFormed`.

### `HeaderStream` and the code

*State.* `sent`, `cut` and `closed` are the sender's: the documents it has written, whether
it died inside the last one, and whether more can come. `pipe` is what has been written and
not yet read. `stage`, `head_buf` and `docinfo` are `swish_parse_fh`'s: whether it waits in
`fgets` for a header line or in `fread` for a body, the lines in its buffer, and the
`DocInfo` of the document in hand. `delivered` is what the handler was called with.
`entry` says which function reads; `swish_parse_buffer` gets one document at a time and
keeps nothing between two.

*Actions.* `ReadHeader`, `TooFewHeaders` and `ReadBlank` are the three branches of the
`fgets` loop; a line is read when its newline has come or the stream has ended. `ReadBlank`
runs `buf_to_head`, `head_to_docinfo` and `swish_docinfo_check`. `ReadBody` is
`swish_io_slurp_fh` with all that follows, up to the reset; `UnknownParser` and `ShortBody`
are its two croaks. `EndOfInput` is the end of the loop. `ParseBuffer` and
`BufferWithoutHead` are `swish_parse_buffer`, which takes the body to be what follows the
blank line whatever Content-Length says, and the *whole* buffer if there are more header
lines than `SWISH_MAX_HEADERS`.

*Data.* The text of a header line is one byte of the stream; a body is made of text bytes
and newlines. Deprecated header names (`Path-Name`, `Last-Mtime`, `Document-Type`) are the
fields they stand for. A value that is empty is there, and not the same as a missing one: an
empty `Parser-Type` is an unknown parser. The encoding is left out: every parser overwrites
it with what it finds in the document. Header lines longer than `SWISH_MAXSTRLEN`, NUL
bytes, a header without its blank line given to `swish_parse_buffer`, and croaks of the
document parser itself (`DocParser` has those) are not modelled.

`DocStream` is what this amounts to for a sender. A document is `Intact` if it has between
two and `SWISH_MAX_HEADERS` header lines, no field twice, a name, a parser, and exactly
Content-Length bytes of body. Up to the first document that is not, the handler sees each
one once, in order, as `Promise` says; neither function gives up or returns early because
of them, and a sender that dies inside one does not go unnoticed. The refinement mapping
forgets `entry`, `pipe` and the reader's variables.

### `Configuration`, `Header`, `Indexer` and the code

*State.* `config` is the program's `swish_Config`, a record whose fields are the hash
tables and flags of the C structure. `readers` is the stack of `headmaker`s, one for each
file being read: `left` is the part of the file that is still to come, `section` stands for
the six flags `isprops` to `ismime`, and `config` is the reader's own configuration, merged
into the one below it at the end of the file. `db`, `header` and `exists` are on disk;
`working` is what the `WritableDatabase` of the process holds. Both databases are functions
from docids to documents. `phase` is the place in
`main`. `saved`, `failed` and the fields `metas` and `props` of a document are history.

*Actions.* A file is a sequence of nodes; each branch of `process_node` is an action
(`ReadMetaName`, `ReadKeyValues`, `ReadInclude` and so on), with every `SWISH_CROAK` of it
as `Refuse`. `EndOfFile` is `swish_config_merge` with the test of the aliases behind it.
Comments and white space are `SkipNode`; an element must be followed by its text at once, so
a comment there is refused. A process is `Invoke`, then the steps of `main` in their order:
the index is opened, the header read, the configuration file read, the stemmer set, the
arguments handled one by one, the header written, the documents flushed. Each of them is a
step of its own because the process may be killed (`Crash`) before and after; a header that
was being written is `Torn`. `Croak` runs the destructor of the database, which flushes;
`Crash` does not. What the parser makes of a document (`MetaWords`, `PropWords`, `LearnTag`)
is what `DocParser` says of an XML document whose elements are not nested.

*Data.* Names, words and values are strings, and `Lower` says which of them are not in
lower case. A text in a configuration file is given as its words. Of a property's
attributes, `type` stands for the ones that `copy_property` copies and `presort` for the
two it forgets. One default MIME type, parser, tag alias and built-in property stand for
the tables. Ids are numbers: the table of ids is keyed by the attribute as written, which
differs for `7` and `07`; ids in the instances are canonical. `xmlHashScan` visits a table
in no particular order, and no outcome depends on it.

*Undefined behaviour.* `is_valid` of a fresh `headmaker` is not set: both values are
possible. An alias freed by `copy_metaname` without a new one in its place is `Dangling`,
and testing it may succeed or fail; the files of the runs free none. A merged string list is
freed twice in the end (config.c:570); the model goes on as if it were not.

*Lost in the header.* `swish_header_write` writes no string lists (header.c:1442-1473), so
the `XMLClassAttributes` of a configuration file hold for the run that reads the file and
are gone for one that reads the header only. `HeaderKeepsConfig` states this: what comes
back has the tables, numbers and settings of what was written, and no string lists. It is
silent about flags: a file that does not mention a flag resets it to its default
(config.c:650), so flags follow the last file that was read, not the header.

*Left out.* Namespace declarations in headers, end nodes of elements that are not
sections, `swish_header_validate`, query syntax and facets.

`DocumentStore` is a map from names to contents with a working copy that is saved as a
whole. The refinement mapping forgets everything but the names and words of the documents.

### `Tokenizer`, `Session` and the code

*State.* `stack` holds the `swish_ParserData` of the parsers within each other; of each
there is `metastack`, `meta_buf`, `bump_word`, the token list, the named buffers of
metanames, and what is left of the file. `ref_cnt` is one function from every allocated
object to its count; an object that is freed leaves the domain, so that a later use is a
violation of `CountsAreUsers` or an error of TLC. `held` is what the program counts for
itself. `stash` is `s3->stash`, which tells `xinclude_handler` where the outer parser is.
`flushed` and `mangled` are history.

*Actions.* A file is the sequence of its SAX events, with elements reduced to "has this
metaname" and "has none"; `DocParser` is about the rest. `EnterInclude` is
`process_xinclude` up to the inner `docparser`, `LeaveInclude` is `xinclude_handler` and
what comes after, `PassInclude` an include that is not followed or whose file is not there.
The `xi:include` element itself is the pair of events after it, since `mystartElementNs`
goes on to `open_tag`. `OutOfStack` is what a circle of files comes to. `ParseDirectory`
puts the entries of a directory in front of what is to be parsed. `NextToken`, `Keep` and
`Drop` are the program's; it may keep the iterator only during the handler, because
`free_parser_data` frees it whatever its count is. `Use` is the program reading the value or
context of a token it has kept: they lie in the token's list, and once that is freed the
process may die of it. `Overrun` takes the place of a flush whose text makes the tokenizer
write behind a buffer (below).

*Data.* A character is a name; `Wide` ones take two bytes. A break, a mark (a character
that may stand in a word but not at its ends) and a letter are the three kinds the
tokenizer knows. `Expected` says what the tokens of a text should be without going through
it character by character.

*Undefined behaviour.* The tokenizers write behind two buffers. `strip_utf8_chrs` keeps `j`
at the end of the word, so what it copies into `chr[5]` is the last letter and all the marks
behind it, with the NUL (tokenizer.c:197-207): three marks after a letter of one byte, or
two after a letter of two, are too many; the loop from the start copies what it has passed
likewise (`ChrOverrun`). And a word that fills the buffer of `maxwordlen` bytes is ended
behind it, by one NUL in ASCII and two in UTF-8 (624, 735, 746, 833, 912; `BufferOverrun`).
After either the process may die (`Overrun`) or go on, which the model does with the tokens
it would have had. In a build whose `malloc(256)` leaves room for two bytes the second does
no harm. `Gentle` therefore keeps texts that overrun `chr[5]` out of `TokensAreWords`, but
not words that fill their buffer: for them it says what comes out where that goes well. What
a kept token points to (`Use`) is undefined in the same way.

*Where the tokenizer is left to itself.* In UTF-8, a character that does not fit into what
is left of `maxwordlen` is dropped, and a word that begins with marks loses bytes at its
end instead (`strip_utf8_chrs` counts them twice). Both are modelled, but nothing says
what should come out: `Gentle` keeps such texts out of `TokensAreWords`, and once there was
one, `TokenListSound` no longer says where the terminators are. The boundary between an
included file's phrases is lost when its tokens are renumbered; nothing promises it.

*Left out.* Characters of three and four bytes (one of four at the end of a word overruns
`chr[5]` with no mark behind it), the context of a token as a value, docinfos, properties,
the conversion of encodings, `autoall` in included files (the outer parser croaks on a
property it has no buffer for), links between directories that form a circle, and
configurations merged after `swish_3_init`: the analyzer's copy of `tokenize` is fixed
(analyzer.c:44).

## Runs

| run | configurations | states | shows |
|---|---|---|---|
| `doc_parser_xml` | default flags, cascade, aliases, attributes, `autoall`, `error` | 0.66 M | routing, words, properties, cascading, phrases, refusal |
| `doc_parser_html` | block and inline tags, `<meta>`, `autoall`, `error` | 1.6 M | noindex regions, routing of `<meta>` |
| `doc_parser_paths` | DOM-path names, class attributes, nested aliased properties, `ignore`, capital names, no tokenizer, HTML with DOM paths | 0.46 M | what holds even where routing does not |
| `doc_parser_noindex` | default flags | | *violated*: an undefined tag ends a noindex region |
| `doc_parser_ignore_meta` | HTML, `UndefinedMetaTags ignore` | | *violated*: an undefined `<meta>` hides the rest |
| `doc_parser_dom_meta` | a metaname named by its DOM path | | *violated*: the failed lookup in `flush_buffer` |
| `doc_parser_class` | `XMLClassAttributes` | | *violated*: an inner element takes the outer one's entry |
| `header_stream` | both entry functions, fourteen documents, a sender that may die | 0.19 M | `DocStream` is implemented; the reader never hangs and never waits for more than the document in hand |
| `index` | fifteen configuration files, three documents, eighteen command lines, up to three runs, killed anywhere | 91 K | the header keeps the configuration, the program can read its own header, names are searched under the numbers their words have, `DocumentStore` is implemented, every run ends |
| `index_ids` | four runs that name or learn one metaname each | | *violated*: merging gives one id to two names |
| `session` | every text of three characters, of four without capitals and spaces, and of five letters, marks and bumpers; seven files that include each other; directories; a program that keeps up to two objects | 12 K | tokens are the words of the text, the token list is sound, counts are those counted, included words arrive, every file is answered or the process overran a buffer |
| `session_kept_token` | the settings in which the program keeps objects | | *violated*: a kept token outlives its value and context |

`TypeOK` is checked in `doc_parser_xml`. Each property of a passing run has a mutant in
`PROJECT.json`, an operator of `DocParser` marked *Fault* that stands for a plausible bug.

### What the violated runs say

* **noindex** (`parser.c:714`). Under `UndefinedMetaTags index`, the default, every
  undefined start *or end* tag sets `ignore_content` to 0. `<!-- noindex --><i>x` indexes
  `x`.
* **ignored `<meta>`** (`parser.c:529`). `bake_tag` restores `ignore_content` only in the
  branch for a `<meta>` without content; with content it stays incremented.
* **DOM path** (`parser.c:1181`). The block that pushes on the metastack asks
  `config->properties` where its comment says *likewise for metastack*; a metaname such as
  `doc.one` is pushed as `one`, which `flush_buffer` does not find.
* **class attribute** (`parser.c:3052`). Stacks are popped by the tag as written. In
  `<div class="x"><div></div>text</div>` the inner end tag pops `div.x`.

* **ids** (`config.c:540`). The comment above the assignment says *only change id if
  meta2->id is not already spoken for*; the assignment is unconditional, and the reader of
  every file numbers from 2 again. Index with one configuration file that names a
  metaname, then with another that names another: both have id 2, words of one are found
  under the other, and the header written by the second run is refused by the third
  (`header.c:340`, duplicate id). A name learnt from a document (`UndefinedMetaTags auto`)
  is numbered after `max_meta_id`, which the reader raises for names without an id only:
  after the header, in which all have one, it is numbered from 2 again.

* **kept token** (`tokenizer.c:361`). `swish_token_list_free` frees the contexts, as it says
  after the tokens, and the buffer; but a token that somebody has counted is not freed
  before them. Perl's `Token` objects may be kept beyond the handler, and `value` and
  `context` (`bindings/perl/XS/Token.xs:13`, `54`) then read freed memory. `CountsAreUsers`
  cannot say so: nobody counts these pointers.

Smaller things met while modelling, kept out of the runs: `head_to_docinfo` compares
`"Action"` over 11 bytes (`parser.c:2002`), which no header line matches, so
`docinfo->action` stays `NULL` where `bindings/perl/lib/SWISH/3.pm` documents it as add,
delete or update (the model does the same, and `Promise` promises no action); the comments
`noindex` and `index` return before `bump_word` is set (`parser.c:1362`, `1372`), so
`foo<!--noindex--><!--index-->bar` is a phrase, although line 1380 calls the bump *always
done to prevent phrase matching*; `SWISH::3::Headers` can write
seven header lines (with both `mime` and `type` given), of which the last,
Content-Location, is then dropped and the document refused, and `swish_parse_buffer` hands
such a header to the parser as body; two `<meta>` contents next to
each other are not separated in `prop_buf` when both names share a property; an inline tag
between a block tag and the text cancels the bump (`parser.c:407`); an element let in by
its class is refused at its end tag under `UndefinedMetaTags error` (the class is not known
there); a property nested in a property that is an alias is filed under the alias's own
name; `<meta name="Foo">` adds `Foo` to the metanames but is looked up as `foo`.

### Bounds

`MaxDepth` bounds the open elements, `MaxText` the runs of characters and `MaxEvents` the
start tags, texts and comments (end tags and the end of the document are always allowed).
Every property relates at most two words, and two nested occurrences of one tag, or a tag
inside another inside a third: three words and depth three (two in HTML, where the content
of a `<meta>` is a level of its own) let one word wait before, between and after the tags
involved. With five or six events all violations listed above are found well inside the
bounds, and each mutant is caught under the same cfg.

In `Indexer` three runs are enough for one to index, one to change what it indexed, and
one to search what both left, or for the second to be killed and the third to find what is
left. Every property relates at most one run to one before it. `MaxOpen` is 2, the file
and one it includes; a third one that is opened fails as it does when the process has no
more file descriptors. The command lines of `index` share one file that names metanames:
with two such files ids collide, which `index_ids` is about.

In `Session` `MaxWordLen` is 4 and `Block` is 2, so that four or five characters can fill a
word, go beyond it, and end it at every place relative to the end of the text, a letter with
three marks still fits into a word and overruns `chr[5]`, and three tokens make the list
grow. `MaxDepth` is 3: a file in a file in a file.

In `HeaderStream` `MaxDocs` is 3: one document read before, one in hand, one behind it, so
that what is left of one can reach the next, and what one takes too much is missing from
another. `MaxHeaders` is 4 instead of 6; the documents have none to five header lines. The
sender may die after any byte.

### Fairness

`DocParser` needs none: its properties are safety properties, the handlers never wait, and
whether a document ends is up to the input. `HeaderStream` assumes weak fairness of the
reader as a whole: it is one thread in a loop that goes on whenever the bytes it asked for
have come or the stream has ended. Nothing is assumed of the sender. `Indexer` and
`Session` assume weak fairness of the program's own steps (`Program`, `Library`): one
thread that waits for nothing. Nothing is assumed of the kills, of Xapian's early flushes,
or of what the program does in its handler.

## Proofs

Each theorem is of the form `Spec => ...` for all values of the constants that satisfy the
`ASSUME`s of the modules, which TLC evaluates in the runs: the configurations of
`DocParser` are well formed (aliases point to configured names, no tag or attribute is
named `swishdefault` or `/`), files and documents are sequences of nodes, events or header
lines of the right kind, tables are finite, parsers are known, bounds are natural numbers,
a mark is no break and a lower-case letter is a letter.

Some theorems have a condition, named as a definition next to the theorem. It stands for a
flaw of the code or for a limit of what the code means to do; the tables name the run that
shows the flaw, where there is one. `NoFreedAlias` has none: no file of a run frees an
alias. In `Spec => [](C => P)` it is about the setting, in `Spec /\ []C => []P` about all
states so far.

### The SAX handlers

| theorem | says | condition |
|---|---|---|
| `TypeCorrect` | `TypeOK` | |
| `WordsCorrect` | `EveryWordOnce` | |
| `PositionsCorrect` | `PositionsFollowDocument` | |
| `LearntNamesCorrect` | `LearntNamesHaveBuffers` | |
| `GrowthCorrect` | `OnlyGrows` | |
| `HiddenCorrect` | `HiddenTextStaysHidden` | HTML, or `UndefinedMetaTags` is not `index` (run `doc_parser_noindex`) |
| `VisibleCorrect` | `VisibleTextIsKept` | `UndefinedMetaTags` is not `ignore`, which drops text (run `doc_parser_ignore_meta`) |
| `PhrasesCorrect` | `NoPhraseAcrossBoundary` | XML: inline tags of HTML clear `bump_word` (parser.c:407). The comments `noindex` and `index` are no boundaries |
| `MetastackCorrect`, `PropstackCorrect` | each stack is the open elements watched for it | `NoClash` (run `doc_parser_class`) |
| `RoutingCorrect` | `RoutedToInnermost` | `NoClash` |
| `BuffersCorrect` | `BuffersMatchTokens` | |
| `CascadeCorrect` | `CascadeFollowsDocument` | `NoClash` |
| `RefusalCorrect` | `OnlyStartTagsAreRefused` | `NoClassTags`: the end tag does not know the class |
| `LookupCorrect` | `NoFailedLookup` | `PathsAgree` (run `doc_parser_dom_meta`) |
| `AutoCorrect` | `AutoWatchesEveryElement` | `TargetsWatched`, `MetaAsWritten` |
| `PropertyTextCorrect` | `PropertiesHoldTheirText` | `NoClash`, `AliasOnTop`, `/` is no property |

`TypeOK` is not inductive: the depth bound needs to know what a start tag has reserved
before `bake_tag` recurses (`PhaseFacts`), and the top of a stack is only defined because
no end tag can pop the base entry (`Bases`). `TypeInv` is the conjunction. One lemma per
action shows that it is kept, over lemmas for `OpenTag`, `CloseTag`, the flushes and the
buffers.

*Words.* The steps are of three kinds (`WordStep`): the waiting words are flushed, a word
is read, or neither. `WordInv` says that a kept word waits in `meta_buf` or has a token,
that the waiting words are in order, and that they are all behind the tokens.

*Hidden text.* `ignore_content` is compared with the depth of the comments: `NeverBehind`
(it is at least that deep) and `NeverAhead` (at most) are each inductive under one of the
two conditions, and a text remembers both numbers.

*Phrases.* `PhraseInv` says that in every chunk, and in the two buffers that are still to
become one, no boundary of the document (a tag, an attribute, a comment other than `noindex`
and `index`) lies between neighbours, and that the last word of
a buffer is the last one read if `bump_word` is not set.

*Stacks.* End tags pop by name. `NoClash` says of a state that no unwatched element stands
inside a watched one of the same name; then the top entry bears the name of an end tag
exactly if its element is watched. `RouteInv` adds that the waiting words all belong to the
element on top of the metastack, and `ValueOnTop` that during the recursion of `bake_tag`
the entry of the attribute is that top. A truncated document leaves its words to
`swishdefault`, as the properties allow.

*Named buffers.* The places of a word in a buffer are counted. `StoreInv` says that without
cascading a word with a token stands in the buffer of the token's metaname in one place and
in no other buffer. With cascading (`CascadeInv`) a word that has been flushed stands in
each buffer as often as the metastack had its name when it was flushed, once in that of the
entry on top or of its alias; under `NoClash` the metastack is the elements around the word.
For properties (`PropInv`), where a flush goes to every entry of the stack, the number of
places must be that of the open elements of the property around the word. `alias_for` is
followed for the entry on top only (parser.c:2885); the words of a property inside one that
is an alias are filed under the alias's own name (parser.c:2906). `AliasOnTop` excludes it;
configuration `PropAliased` has it.

*Refusals, lookups, auto.* `RefuseInv`: under `error` the name of every open element is
known, and the configuration never forgets one. `LookupInv`: what is on the metastack is a
metaname; it can fail to be one only for a DOM path that is a property and no metaname, or
the other way round, for which `PathsAgree` excludes it. `AutoInv`: every open element has
an entry.

### Streams, the index, the session

| theorem | says | condition |
|---|---|---|
| `HeaderStreamProofs!TypeCorrect` | `TypeOK` | |
| `StreamImplemented` | `ImplementsDocStream` | |
| `IndexerProofs!TypeCorrect` | `IndexTypeOK` | |
| `StoreImplemented` | `ImplementsStore` | |
| `AliasesCorrect` | `AliasesResolve` | `NoFreedAlias` |
| `TypesHold` | `SessionTypeOK` | |
| `ListsHold` | `TokenListSound` | |
| `CountsHold` | `CountsAreUsers`: of those who are counted (not of a token's pointers into its list) | |
| `WordsHold` | `TokensAreWords`, so for `Gentle` texts | `MinWordLen = 1`, `AsciiStays` |
| `FoldInduction`, `TokenizeSound`, `TokenizeWords` | what the above rest on | |

`analyzer.c` sets `minwordlen` to 1 and nothing changes it (`Expected` does not know words
that are too short); `AsciiStays` says that `tolower` of an ASCII letter is one, as it is in
C. The constants of `MCSession` satisfy both.

*Streams.* The abstract state forgets the bytes, so the invariant has to say where in them
the reader is. `StreamInv` cuts the pipe into what is left of each document sent and not
yet delivered (`Rests`), and places the reader in the first of them: before, inside or
behind its header (`Place`). Up to the first document that is not `Intact`, a line that
`fgets` returns is then a line of that document's header, and the bytes that `fread` takes
are its body. `BufferInv` says that a buffer holds exactly one document. `Shape` is the
type invariant behind them.

*The index.* `DocumentStore` numbers its documents, so the proof needs that numbers are
never used twice (`Numbered`) and which phase of `main` may write (`PhaseInv`): `StoreInv`.
For the types, `TypeInv` says of every reader in the stack that its configuration is one
that `swish_header_write` could write (`Writable`: tables finite, flags and names of the
right form, the id table within the names) and that what is left of its file is a sequence
of nodes. The header on disk is such a file because the writer makes one from every
`Writable` configuration, entry by entry of each table.
`AliasInv`: each alias leads to a metaname or is dangling. Only the end of the outermost
file changes the program's table, behind the test of the aliases, and documents teach names
without alias. `copy_metaname` frees the alias of a metaname that the merged file gives none
(config.c:542); what the test then reads is undefined, which `NoFreedAlias` excludes.

*The session.* `SessionWorldProofs` is about a ledger: who refers to each object, apart
from tokens. `World` says that each count is what the ledger and the tokens of all lists
amount to, that no token is in two lists or twice in one, and that each list is sound. `Use`
and `Overrun`, after which the process is dead, change neither. One
lemma per operation says how it changes the ledger. `SessionInv` adds what the ledger of a
state is: which phase has which objects (`PhaseFits`), what the outer parsers set aside for
the inner one (`StackFits`), what the program may hold (`HeldFits`, `CurrentFits`).

*Folds.* What a loop over a sequence does (the characters of a text, the tokens of an
included file, the words of a document, the entries of a table) is a `FoldLeft`.
`FoldProofs` proves induction for it, for an operator and an invariant that are constants;
each use is an `INSTANCE` with its own. `TokenizeSound` is proved this way from an
invariant of the two state machines in `tokenizer.c`.

*Words.* `Expected` names the words of a text by their places: the longest runs without a
break, cut into pieces of `MaxWordLen`. `TokenizeWords` shows that the state machines find
the same ones. Every letter and mark lies in exactly one piece (`PieceAt`, `PieceOnly`),
and a piece ends where it is full or a break follows (`PieceFacts`). The invariant
(`WordsSoFar`) names a place that no piece extends over, and says that the tokens so far
are the words of the pieces before it, that the position counts these words and bumpers,
and that the word being read is the beginning of the next piece. In UTF-8 the width of the
word must fit, which `Gentle` gives for whole runs and `WidthOfPrefix` for their
beginnings. `WordsHold` carries it to the session: what was flushed last came out of
`Tokenize` for a sound list (`FlushedFits`, from `SessionInv`). An overrun flushes nothing
(`Overrun`); both theorems speak of the tokens where the process goes on.

### Only model-checked

* Liveness (`AlwaysAnswers`, `DeliversPromptly`, `Terminates`, `Answered`): fairness is out
  of the prover's reach.
* `IncludedWordsArrive` relates the text of a file to the list of another. `WordsHold` gives
  the words of each text; that the texts of included files come in the order of `Flat`,
  which goes by depth, would be an induction over the files that are open.
* `HeaderKeepsConfig` and `OwnHeaderReadable`: the round trip depends on the order of
  the nodes in a header only through names that no table has twice, over five sections and
  the ids; a proof would have to follow each of them through the writer's fold and the
  reader's actions.
* `PrefixMeansName` and `SlotMeansProperty` do not hold for all files: run `index_ids` has
  two names under one id. They hold for the files of run `index`.
* The properties of the runs that are expected to be violated.

## What could come next

* The round trip of a header as a theorem, section by section.
* A condition on configuration files under which ids stay distinct through merges, and
  `PrefixMeansName` under it.
* That `NoClash` and `PathsAgree` follow when a tag's name alone decides whether it is
  watched (no class attributes, DOM-path names or counted prefixes).
* The pointer `parser_data->tag` through `bake_tag`'s recursion, and elements with several
  attributes.

## Not modelled

The command-line programs, the file system, times and debug output have no state that
outlives a call. libxml2 and Xapian are external, modelled by how the code uses them. The
Perl binding keeps Perl objects in tables next to the C structures; `Session`'s program
counts references as its accessors and destructors do, but the tables, the callbacks into
Perl and its own tokenizer are not modelled. The parsers of string lists, sort strings,
output templates and UTF-8 are pure functions of a string, whose characters the models
abstract from. Gzip, stat and the conversion of encodings are I/O.
