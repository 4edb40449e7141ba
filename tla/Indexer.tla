------------------------------- MODULE Indexer -------------------------------
(***************************************************************************)
(* src/xapian/swish_xapian.cpp: a program that is run again and again over *)
(* one index, with options, configuration files and documents, and that    *)
(* may be killed at any moment.  The index is a Xapian database and, next  *)
(* to it, the header that the program wrote the last time: what a document *)
(* was indexed under is known only by the numbers in it.                   *)
(*                                                                         *)
(* A document is its name and a sequence of pairs <<tag, word>>; where the *)
(* words of a tag go is what DocParser says of an XML document without     *)
(* nested elements.  Xapian is external: a database is a function from the *)
(* numbers of its documents (docids), and what is written reaches the disk *)
(* at a flush, at exit, or earlier if there is much of it.                 *)
(***************************************************************************)
EXTENDS Header

CONSTANTS
  Commands,      \* the command lines that may be given
  MaxRuns        \* bound: how many of them

HeaderPath == "swish.xml"
NoStemmer  == "none"
NoPrefix   == -1
NoIndex    == << >>
Absent     == << >>             \* no header
Torn       == <<Broken>>        \* a header that was being written

VARIABLES
  \* on disk
  db,              \* the documents
  header,          \* the nodes of swish.xml, Absent or Torn
  exists,          \* is there a database?
  \* the process
  command,         \* its options and arguments
  phase,           \* what main() is about to do; "idle" when no process runs
  working,         \* wdb: db and what is not flushed yet
  stemmer,         \* the global one, which queries use
  indexer_stemmer, \* the one that the TermGenerator was given
  args,            \* arguments not yet handled
  runs,
  \* history, for the properties only
  saved,           \* the configuration the header was written from
  failed           \* the phase in which the last process croaked

diskVars    == <<db, header, exists>>
processVars == <<command, phase, working, stemmer, indexer_stemmer, args, runs>>
histVars    == <<saved, failed>>
vars == <<readVars, diskVars, processVars, histVars>>

ASSUME CommandAssumption ==
  /\ MaxRuns \in Nat
  /\ \A c \in Commands :
       /\ {c.overwrite, c.skip, c.delete, c.query} \subseteq BOOLEAN
       /\ c.conf \in {None} \cup DOMAIN ConfFiles
       /\ IsSequence(c.args)
       /\ \A i \in DOMAIN c.args :
            DOMAIN c.args[i] = {"uri", "words"} /\ IsSequence(c.args[i].words)

NoCommand == [overwrite |-> FALSE, skip |-> FALSE, delete |-> FALSE, query |-> FALSE,
              conf |-> None, stemmer |-> None, args |-> << >>]

Init ==
  /\ config = ConfigInit /\ readers = << >> /\ refused = FALSE
  /\ db = NoIndex /\ header = Absent /\ exists = FALSE
  /\ command = NoCommand /\ phase = "idle" /\ working = << >>
  /\ stemmer = NoStemmer /\ indexer_stemmer = NoStemmer /\ args = << >> /\ runs = 0
  /\ saved = ConfigInit /\ failed = "never"

GoTo(p) == phase' = p /\ UNCHANGED <<command, runs>>

-----------------------------------------------------------------------------
(* main: options, and opening the index.                                   *)

\* swish_3_init and the options.
Invoke ==
  /\ phase = "idle" /\ runs < MaxRuns
  /\ \E c \in Commands :
       /\ command' = c /\ args' = c.args
       /\ stemmer' = (IF c.stemmer = None THEN NoStemmer ELSE c.stemmer)
       /\ phase' = IF c.query THEN "open for search"
                   ELSE IF c.overwrite THEN "overwrite" ELSE "open"
  /\ runs' = runs + 1
  /\ config' = DefaultConfig /\ indexer_stemmer' = NoStemmer /\ failed' = "never"
  /\ UNCHANGED <<readers, refused, diskVars, working, saved>>

\* open_writeable_index.  The TermGenerator gets the stemmer of the command
\* line, whatever the header says.
OpenIndex ==
  /\ phase = "open"
  /\ exists' = TRUE /\ working' = db /\ indexer_stemmer' = stemmer
  /\ IF header = Absent
     THEN GoTo("configure") /\ UNCHANGED readers
     ELSE GoTo("read header") /\ StartReading(header)
  /\ UNCHANGED <<config, refused, db, header, stemmer, args, histVars>>

\* The same with --overwrite: the old header goes after the old database.
OverwriteIndex ==
  /\ phase = "overwrite"
  /\ exists' = TRUE /\ db' = << >> /\ working' = << >> /\ indexer_stemmer' = stemmer
  /\ GoTo("unlink")
  /\ UNCHANGED <<readVars, header, stemmer, args, histVars>>

UnlinkHeader ==
  /\ phase = "unlink" /\ header' = Absent /\ GoTo("configure")
  /\ UNCHANGED <<readVars, db, exists, working, stemmer, indexer_stemmer, args, histVars>>

\* open_readable_index: without a database it croaks.
OpenForSearch ==
  /\ phase = "open for search" /\ exists
  /\ IF header = Absent
     THEN GoTo("search") /\ UNCHANGED readers
     ELSE GoTo("read header") /\ StartReading(header)
  /\ UNCHANGED <<config, refused, diskVars, working, stemmer, indexer_stemmer, args, histVars>>

\* One step of reading the header or the configuration file.
ReadStep ==
  /\ phase \in {"read header", "read config"} /\ Read
  /\ UNCHANGED <<diskVars, processVars, histVars>>

HeaderRead ==
  /\ phase = "read header" /\ readers = << >>
  /\ GoTo(IF command.query THEN "search" ELSE "configure")
  /\ UNCHANGED <<readVars, diskVars, working, stemmer, indexer_stemmer, args, histVars>>

\* The configuration file comes after the header, to update it.
Configure ==
  /\ phase = "configure"
  /\ IF command.conf = None
     THEN GoTo("stem") /\ UNCHANGED readers
     ELSE GoTo("read config") /\ StartReading(ConfFiles[command.conf])
  /\ UNCHANGED <<config, refused, diskVars, working, stemmer, indexer_stemmer, args, histVars>>

ConfigRead ==
  /\ phase = "read config" /\ readers = << >> /\ GoTo("stem")
  /\ UNCHANGED <<readVars, diskVars, working, stemmer, indexer_stemmer, args, histVars>>

\* Does the command line ask for another stemmer than the index has?
Mismatch == /\ command.stemmer # None /\ "Stemmer" \in DOMAIN config.index
            /\ command.stemmer # config.index.Stemmer

\* The stemmer of the index, if it has one, becomes the global one; the first
\* run decides.  Tokenizing is left to Xapian.
SetStemmer ==
  /\ phase = "stem" /\ ~Mismatch
  /\ LET known == "Stemmer" \in DOMAIN config.index
         lang  == IF known THEN config.index.Stemmer ELSE stemmer
     IN /\ stemmer' = lang
        /\ config' = [config EXCEPT !.index = Put(@, "Stemmer", lang), !.flags.Tokenize = FALSE]
  /\ GoTo("documents")
  /\ UNCHANGED <<readers, refused, diskVars, working, indexer_stemmer, args, histVars>>

-----------------------------------------------------------------------------
(* Documents.                                                              *)

Aliased(c, tag) == IF tag \in DOMAIN c.tag_aliases THEN c.tag_aliases[tag] ELSE tag
StoredAs(names, n) == IF names[n].alias_for = None THEN n ELSE names[n].alias_for

\* What an unknown tag teaches the parser (bake_tag).
Undefined(c, tag) == tag \notin DOMAIN c.metanames \cup DOMAIN c.tag_aliases
LearnTag(c, p) ==
  LET tag == p[1]
      m   == MetaNameNew(c, tag)
  IN IF ~Undefined(c, tag) \/ c.flags.UndefinedMetaTags \notin {"auto", "autoall"} THEN c
     ELSE IF c.flags.UndefinedMetaTags = "auto" \/ tag \in DOMAIN c.properties THEN m
     ELSE PropertyNew(m, tag)
Learn(c, doc) == FoldLeft(LearnTag, c, doc.words)

Tags(doc) == {doc.words[i][1] : i \in DOMAIN doc.words}

\* The parser croaks on an unknown tag if it is told to, and on a property whose
\* alias has no buffer.
Unparsable(doc, c) ==
  \E tag \in Tags(doc) :
    \/ c.flags.UndefinedMetaTags = "error" /\ Undefined(c, tag)
    \/ LET t == Aliased(c, tag)
       IN t \in DOMAIN c.properties /\ StoredAs(c.properties, t) \notin DOMAIN c.properties

Heard(tag, c) == ~(c.flags.UndefinedMetaTags = "ignore" /\ Undefined(c, tag))
MetaOf(tag, c) ==
  LET t == Aliased(c, tag)
  IN IF t \in DOMAIN c.metanames THEN StoredAs(c.metanames, t) ELSE SwishDefault

\* parser_data->metanames and parser_data->properties at the end of a document.
WordsOf(doc, Of(_)) == {doc.words[i][2] : i \in {j \in DOMAIN doc.words : Of(doc.words[j][1])}}
MetaWords(doc, c) ==
  [n \in DOMAIN c.metanames |-> WordsOf(doc, LAMBDA t : Heard(t, c) /\ MetaOf(t, c) = n)]
PropWords(doc, c) ==
  LET goes(tag, n) == LET t == Aliased(c, tag)
                      IN t \in DOMAIN c.properties /\ StoredAs(c.properties, t) = n
  IN [n \in DOMAIN c.properties |-> WordsOf(doc, LAMBDA t : Heard(t, c) /\ goes(t, n))]

\* add_metanames: the words under the number of their name, and those of the
\* two standard names under no number too.
Terms(metas, c) ==
  UNION {{<<c.metanames[n].id, w>> : w \in metas[n]} : n \in DOMAIN metas}
    \cup {<<NoPrefix, w>> : w \in metas[SwishDefault] \cup metas[SwishTitle]}

\* add_properties, and the values of the docinfo.
Slots(uri, props, c) ==
  {<<c.properties[n].id, props[n]>> : n \in DOMAIN props} \cup {<<PropDocPathId, {uri}>>}

\* What handler() makes of a document; metas and props are history.
Document(doc, c) ==
  LET metas == MetaWords(doc, c)
      props == PropWords(doc, c)
  IN [uri |-> doc.uri, words |-> doc.words, metas |-> metas, props |-> props,
      terms |-> Terms(metas, c), slots |-> Slots(doc.uri, props, c), stem |-> indexer_stemmer]

\* The documents with the term of this name.
Holders(docs, uri) == {i \in DOMAIN docs : docs[i].uri = uri}
Holds(docs, uri)   == Holders(docs, uri) # {}
Without(docs, uri) == [i \in DOMAIN docs \ Holders(docs, uri) |-> docs[i]]

\* Numbers are given in order.
FreshId(docs)   == IF DOMAIN docs = {} THEN 1 ELSE Max(DOMAIN docs) + 1
AddNew(docs, doc) == Put(docs, FreshId(docs), doc)

\* Fault: a document is added whether it is there or not.
InsertAnyway(docs, doc) == IF command.skip THEN docs ELSE AddNew(docs, doc)

\* Xapian's replace_document, which keeps the number of a document that it
\* replaces, or nothing if duplicates are skipped.
Insert(docs, doc) ==
  IF Holds(docs, doc.uri)
  THEN IF command.skip THEN docs
       ELSE Put(Without(docs, doc.uri), CHOOSE i \in Holders(docs, doc.uri) : TRUE, doc)
  ELSE AddNew(docs, doc)

Ready == phase = "documents" /\ args # << >>

\* Fault: the argument is not consumed.
StuckDocument == Ready /\ ~command.delete /\ UNCHANGED vars

IndexDocument ==
  /\ Ready /\ ~command.delete
  /\ LET learnt == Learn(config, args[1])
     IN /\ ~Unparsable(args[1], config)
        /\ config' = learnt
        /\ working' = Insert(working, Document(args[1], learnt))
  /\ args' = Tail(args) /\ GoTo("documents")
  /\ UNCHANGED <<readers, refused, diskVars, stemmer, indexer_stemmer, histVars>>

DeleteDocument ==
  /\ Ready /\ command.delete
  /\ working' = Without(working, args[1].uri)
  /\ args' = Tail(args) /\ GoTo("documents")
  /\ UNCHANGED <<readVars, diskVars, stemmer, indexer_stemmer, histVars>>

\* Xapian writes what it has when it has much.
Flush ==
  /\ phase = "documents" /\ db # working /\ db' = working
  /\ UNCHANGED <<readVars, header, exists, processVars, histVars>>

-----------------------------------------------------------------------------
(* The end.                                                                *)

Quit == /\ phase' = "idle" /\ working' = << >> /\ args' = << >> /\ command' = NoCommand
        /\ stemmer' = NoStemmer /\ indexer_stemmer' = NoStemmer
        /\ config' = ConfigInit /\ readers' = << >> /\ refused' = FALSE
        /\ UNCHANGED runs

AllDone == phase = "documents" /\ args = << >>

\* After deletions the header stays as it was.
FinishDelete ==
  /\ AllDone /\ command.delete
  /\ db' = working /\ Quit
  /\ UNCHANGED <<header, exists, histVars>>

\* swish_header_write opens the file, which empties it, ...
BeginHeader ==
  /\ AllDone /\ ~command.delete
  /\ config' = [config EXCEPT !.index = Put(Put(@, "Format", "Xapian"), "Name", "index")]
  /\ header' = Torn /\ GoTo("write header")
  /\ UNCHANGED <<readers, refused, db, exists, working, stemmer, indexer_stemmer, args, histVars>>

\* ... writes it, ...
WriteHeader ==
  /\ phase = "write header"
  /\ header' = HeaderOf(config) /\ saved' = config /\ GoTo("flush")
  /\ UNCHANGED <<readVars, db, exists, working, stemmer, indexer_stemmer, args, failed>>

\* ... and only then are the documents flushed.
FinishIndex ==
  /\ phase = "flush" /\ db' = working /\ Quit
  /\ UNCHANGED <<header, exists, histVars>>

\* Fault: an alias is looked for under its own number.
SearchedAsItself(n) == config.metanames[n].id

\* add_prefix: the number under which the words of a name are looked for.
SearchedAs(n) == config.metanames[StoredAs(config.metanames, n)].id

\* build_output_format, the sort order and the facets: the slot that holds the
\* value of a property.  PropertyValueRangeProcessor: the one that --limit tests.
ShownFrom(n) == PropertyId(config, n)
LimitedBy(n) == config.properties[n].id

\* What the query asks for is Xapian's business.
Search ==
  /\ phase = "search" /\ ~Mismatch /\ Quit
  /\ UNCHANGED <<diskVars, histVars>>

\* SWISH_CROAK ends in exit(), which destroys wdb, which flushes.
Croak ==
  /\ \/ refused
     \/ phase = "open for search" /\ ~exists
     \/ phase \in {"stem", "search"} /\ Mismatch
     \/ Ready /\ ~command.delete /\ Unparsable(args[1], config)
  /\ db' = IF command.query THEN db ELSE working
  /\ failed' = phase /\ Quit
  /\ UNCHANGED <<header, exists, saved>>

\* The process is killed.
Crash ==
  /\ phase # "idle" /\ Quit
  /\ UNCHANGED <<diskVars, histVars>>

Program ==
  \/ OpenIndex \/ OverwriteIndex \/ UnlinkHeader \/ OpenForSearch \/ ReadStep \/ HeaderRead
  \/ Configure \/ ConfigRead \/ SetStemmer \/ IndexDocument \/ DeleteDocument
  \/ FinishDelete \/ BeginHeader \/ WriteHeader \/ FinishIndex \/ Search \/ Croak

Next == Invoke \/ Program \/ Flush \/ Crash

\* The program is sequential and waits for nothing.
Spec == Init /\ [][Next]_vars /\ WF_vars(Program)

-----------------------------------------------------------------------------
(* The properties.                                                         *)

Phases == {"idle", "open", "overwrite", "unlink", "open for search", "read header", "configure",
           "read config", "stem", "documents", "write header", "flush", "search"}

\* Every file being read has a state of its own and none is read outside the
\* two phases for it; a process that has ended leaves nothing behind; what is
\* written is always a configuration.
IndexTypeOK ==
  /\ phase \in Phases /\ failed \in Phases \cup {"never"} /\ runs \in 0..MaxRuns
  /\ IsConfig(saved) /\ (phase = "idle" \/ IsConfig(config))
  /\ readers # << >> => phase \in {"read header", "read config"}
  /\ refused => readers # << >>
  /\ Depth <= MaxOpen /\ \A i \in 1..Depth : ReaderOK(readers[i])
  /\ phase = "idle" => working = << >> /\ command = NoCommand /\ args = << >>
  /\ db # NoIndex \/ header # Absent => exists

\* What comes back from the header: whoever has read it, and nothing else, has the
\* names, numbers, aliases, parsers, MIME types, tag aliases and settings it was
\* written from.  Not the string lists: swish_header_write writes none, so that the
\* XMLClassAttributes of a configuration file are gone for the runs without it.  Nor
\* the flags (see README), nor a property's presort, which a merge does not copy; of
\* an alias only its number and the name it stands for.
Same(names1, names2, Rest(_)) ==
  /\ DOMAIN names1 = DOMAIN names2
  /\ \A n \in DOMAIN names1 :
       /\ names1[n].id = names2[n].id /\ names1[n].alias_for = names2[n].alias_for
       /\ names1[n].alias_for = None => Rest(names1[n]) = Rest(names2[n])
HeaderIsRead == phase \in {"configure", "search"} /\ header \notin {Absent, Torn}
HeaderKeepsConfig ==
  HeaderIsRead =>
    /\ Same(config.metanames, saved.metanames, LAMBDA m : m.bias)
    /\ Same(config.properties, saved.properties, LAMBDA p : p.type)
    /\ config.parsers = saved.parsers /\ config.mimes = saved.mimes
    /\ config.index = saved.index /\ config.tag_aliases = saved.tag_aliases
    /\ \A k \in DOMAIN saved.misc : k \in DOMAIN config.misc /\ config.misc[k] = saved.misc[k]
    /\ config.stringlists = NoHash

\* No two names have one number.
Distinct(names) == \A m, n \in DOMAIN names : names[m].id = names[n].id => m = n

\* The program can read the header it wrote, unless it was killed while writing
\* it, or merging configurations has given one number to two names.
OwnHeaderReadable ==
  failed = "read header" =>
    header = Torn \/ ~Distinct(saved.metanames) \/ ~Distinct(saved.properties)

\* Every alias is another name for one that exists, whatever the merged files define
\* in which order: the handler and add_prefix follow it without looking (metanames).
\* No merge that frees an alias is among them (config.c:541-545; Dangling).
AliasesResolve ==
  phase \in {"documents", "search"} =>
    \A n \in DOMAIN config.metanames :
      config.metanames[n].alias_for \in {None} \cup DOMAIN config.metanames

Found(doc, number) == {t[2] : t \in {u \in doc.terms : u[1] = number}}

\* Whoever searches for a name finds, in every document of the index, just what
\* the parser put under that name, or under the name it is an alias for, when
\* that document was indexed; though several runs, with and without the
\* configuration file, have numbered the names, and some of them were killed.
MetaWordsOf(doc, n) == IF n \in DOMAIN doc.metas THEN doc.metas[n] ELSE {}
PrefixMeansName ==
  phase = "search" =>
    \A i \in DOMAIN db : \A n \in DOMAIN config.metanames :
      Found(db[i], SearchedAs(n)) = MetaWordsOf(db[i], StoredAs(config.metanames, n))

\* The same for the values that --output, --sort and --Facets show and that
\* --limit tests, of names that are no aliases.
PropWordsOf(doc, n) == IF n \in DOMAIN doc.props THEN doc.props[n] ELSE {}
SlotMeansProperty ==
  phase = "search" =>
    \A i \in DOMAIN db : \A n \in DOMAIN config.properties :
      config.properties[n].alias_for = None =>
        /\ UNION {s[2] : s \in {t \in db[i].slots : t[1] = ShownFrom(n)}} = PropWordsOf(db[i], n)
        /\ LimitedBy(n) = ShownFrom(n)

\* Where the index is a map from names to contents.
Pairs(docs) == {<<docs[i].uri, docs[i].words>> : i \in DOMAIN docs}
HasOpen == phase \in Phases \ {"idle", "open", "overwrite", "open for search", "search"}
           /\ ~command.query
Given == UNION {{c.args[i] : i \in DOMAIN c.args} : c \in Commands}

DS == INSTANCE DocumentStore WITH
        Uris <- {f.uri : f \in Given}, Contents <- {f.words : f \in Given},
        stored <- Pairs(db), working <- IF HasOpen THEN Pairs(working) ELSE {},
        opened <- HasOpen

\* A name is in the index once, with the content it was last given or, when
\* duplicates are skipped, first given; deletion and overwriting are complete;
\* a process that is killed leaves what was last flushed.
ImplementsStore == DS!Spec

\* However the configuration files include each other, every run ends.
Terminates == phase # "idle" ~> phase = "idle"

\* src/libswish3/config.c:539, "only change id if meta2->id is not already
\* spoken for": merging never gives two MetaNames one id.
IdsStayDistinct == phase # "idle" => Distinct(config.metanames)
=============================================================================
