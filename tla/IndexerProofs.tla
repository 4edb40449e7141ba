---------------------------- MODULE IndexerProofs ----------------------------
(***************************************************************************)
(* That Indexer implements DocumentStore, for all files, command lines and *)
(* documents: what a run does to the index, and what is left of it when    *)
(* the run is killed.                                                      *)
(***************************************************************************)
EXTENDS Indexer, FiniteSetTheorems, TLAPS

Searching == phase \in {"open for search", "search"}
Writing   == phase \in {"open", "overwrite", "unlink", "configure", "read config", "stem",
                        "documents", "write header", "flush"}

\* What main() knows from where it is: only a query opens the index to read it,
\* and a file is read in two phases only.
PhaseInv ==
  /\ phase \in Phases
  /\ phase # "idle" => command \in Commands
  /\ (Searching => command.query) /\ (Writing => ~command.query)
  /\ readers # << >> => phase \in {"read header", "read config"}
  /\ refused => readers # << >>

\* Documents are numbered, and a number that is not given yet can be found.
Numbered(docs) == \E n \in Nat : DOMAIN docs \subseteq 1..n

ArgsAreGiven == args \in Seq(Given)

StoreInv == PhaseInv /\ Numbered(db) /\ Numbered(working) /\ ArgsAreGiven

-----------------------------------------------------------------------------
(* Reading a file.                                                         *)

\* A program that has refused a file has it open.
LEMMA ReadKeepsReaders ==
  ASSUME Read
  PROVE  readers # << >> /\ (refused' => readers' # << >>)
<1>1. CASE Reading /\ UNCHANGED refused
  BY <1>1 DEF Reading
<1>2. CASE Reading /\ UNCHANGED readers
  BY <1>2 DEF Reading
<1>3. (Reading /\ UNCHANGED refused) \/ (Reading /\ UNCHANGED readers)
  <2> USE DEF InFile, Spoken, InBody, In, Proceed, ReadOn, Refuse
  <2>1. CASE ReadRoot
    BY <2>1 DEF ReadRoot
  <2>2. CASE ReadBroken
    BY <2>2 DEF ReadBroken
  <2>3. CASE NotAHeader
    BY <2>3 DEF NotAHeader
  <2>4. CASE ReadSectionStart \/ ReadSectionEnd
    BY <2>4 DEF ReadSectionStart, ReadSectionEnd
  <2>5. CASE ReadInclude
    BY <2>5 DEF ReadInclude
  <2>6. CASE ReadMetaName
    BY <2>6 DEF ReadMetaName
  <2>7. CASE ReadMetaNameAliases
    BY <2>7 DEF ReadMetaNameAliases
  <2>8. CASE ReadProperty
    BY <2>8 DEF ReadProperty
  <2>9. CASE ReadPropertyAliases
    BY <2>9 DEF ReadPropertyAliases
  <2>10. CASE ReadKeyValue
    BY <2>10 DEF ReadKeyValue
  <2>11. CASE ReadKeyValues
    BY <2>11 DEF ReadKeyValues
  <2>12. CASE ReadClassAttributes
    BY <2>12 DEF ReadClassAttributes
  <2>13. CASE ReadSetting
    BY <2>13 DEF ReadSetting
  <2>14. CASE SkipText
    BY <2>14 DEF SkipText
  <2>17. CASE SkipNode
    BY <2>17 DEF SkipNode
  <2>15. CASE EndOfFile
    BY <2>15 DEF EndOfFile, AtEnd
  <2>16. CASE AliasToNothing
    BY <2>16 DEF AliasToNothing, AtEnd
  <2> QED
    BY <2>1, <2>2, <2>3, <2>4, <2>5, <2>6, <2>7, <2>8, <2>9, <2>10, <2>11, <2>12, <2>13,
       <2>14, <2>15, <2>16, <2>17 DEF Read
<1> QED BY <1>1, <1>2, <1>3

-----------------------------------------------------------------------------
(* Documents.                                                              *)

\* Bounded sets of numbers have a greatest element, by the induction of FoldProofs.
NoInv(p, n, c) == TRUE
Learning == INSTANCE FoldProofs WITH Op <- LearnTag, Inv <- NoInv

LEMMA FreshIsNew ==
  ASSUME NEW docs, Numbered(docs)
  PROVE  FreshId(docs) \in Nat /\ FreshId(docs) \notin DOMAIN docs
<1>1. PICK n \in Nat : DOMAIN docs \subseteq 1..n
  BY DEF Numbered
<1>2. CASE DOMAIN docs = {}
  BY <1>2 DEF FreshId
<1>3. CASE DOMAIN docs # {}
  <2> DEFINE m == Max(DOMAIN docs)
  <2>1. m \in DOMAIN docs /\ \A y \in DOMAIN docs : m >= y
    BY <1>1, <1>3, Learning!MaxOfNonEmpty DEF Max, Learning!Max
  <2>2. FreshId(docs) = m + 1
    BY <1>3 DEF FreshId
  <2> HIDE DEF m
  <2>3. m \in Nat
    BY <1>1, <2>1
  <2> QED BY <2>1, <2>2, <2>3
<1> QED BY <1>2, <1>3

LEMMA InsertKeepsNumbered ==
  ASSUME NEW docs, NEW doc, Numbered(docs)
  PROVE  Numbered(Insert(docs, doc))
<1>1. PICK n \in Nat : DOMAIN docs \subseteq 1..n
  BY DEF Numbered
<1>2. CASE Insert(docs, doc) = docs
  BY <1>2
<1>3. CASE Holds(docs, doc.uri) /\ ~command.skip
  <2> DEFINE h == CHOOSE i \in Holders(docs, doc.uri) : TRUE
  <2>1. h \in DOMAIN docs
    BY <1>3 DEF Holds, Holders
  <2>2. DOMAIN Insert(docs, doc) \subseteq DOMAIN docs \cup {h}
    BY <1>3 DEF Insert, Put, Without
  <2> HIDE DEF h
  <2> QED BY <1>1, <2>1, <2>2 DEF Numbered
<1>4. CASE ~Holds(docs, doc.uri)
  <2>1. DOMAIN Insert(docs, doc) = DOMAIN docs \cup {FreshId(docs)}
    BY <1>4 DEF Insert, AddNew, Put
  <2>2. FreshId(docs) \in 1..(n + 1)
    <3>1. CASE DOMAIN docs = {}
      BY <3>1 DEF FreshId
    <3>2. CASE DOMAIN docs # {}
      <4>1. Max(DOMAIN docs) \in DOMAIN docs
        BY <1>1, <3>2, Learning!MaxOfNonEmpty DEF Max, Learning!Max
      <4>2. FreshId(docs) = Max(DOMAIN docs) + 1
        BY <3>2 DEF FreshId
      <4> QED BY <1>1, <4>1, <4>2
    <3> QED BY <3>1, <3>2
  <2>3. DOMAIN Insert(docs, doc) \subseteq 1..(n + 1)
    BY <1>1, <2>1, <2>2
  <2> QED BY <2>3 DEF Numbered
<1> QED BY <1>2, <1>3, <1>4 DEF Insert

LEMMA WithoutKeepsNumbered ==
  ASSUME NEW docs, NEW uri, Numbered(docs)
  PROVE  Numbered(Without(docs, uri))
BY DEF Without, Numbered

NamedIn(pairs, uri) == {p \in pairs : p[1] = uri}

\* A document takes the place of what had its name, or is skipped.
LEMMA InsertPuts ==
  ASSUME NEW docs, NEW doc, Numbered(docs)
  PROVE  \/ Pairs(Insert(docs, doc)) = Pairs(docs)
         \/ Pairs(Insert(docs, doc))
              = (Pairs(docs) \ NamedIn(Pairs(docs), doc.uri)) \cup {<<doc.uri, doc.words>>}
<1>1. CASE Holds(docs, doc.uri) /\ command.skip
  BY <1>1 DEF Insert
<1>2. CASE Holds(docs, doc.uri) /\ ~command.skip
  <2> DEFINE h == CHOOSE i \in Holders(docs, doc.uri) : TRUE
             w == Without(docs, doc.uri)
  <2>1. h \in Holders(docs, doc.uri)
    BY <1>2 DEF Holds
  <2>2. h \notin DOMAIN w
    BY <2>1 DEF Without
  <2>3. Insert(docs, doc) = Put(w, h, doc)
    BY <1>2 DEF Insert
  <2>4. Pairs(w) = Pairs(docs) \ NamedIn(Pairs(docs), doc.uri)
    BY DEF Pairs, Without, Holders, NamedIn
  <2> HIDE DEF h, w
  <2>5. Pairs(Put(w, h, doc)) = Pairs(w) \cup {<<doc.uri, doc.words>>}
    BY <2>2 DEF Pairs, Put
  <2> QED BY <2>3, <2>4, <2>5
<1>3. CASE ~Holds(docs, doc.uri)
  <2>1. Insert(docs, doc) = Put(docs, FreshId(docs), doc)
    BY <1>3 DEF Insert, AddNew
  <2>2. FreshId(docs) \notin DOMAIN docs
    BY FreshIsNew
  <2>3. Pairs(Put(docs, FreshId(docs), doc)) = Pairs(docs) \cup {<<doc.uri, doc.words>>}
    BY <2>2 DEF Pairs, Put
  <2>4. NamedIn(Pairs(docs), doc.uri) = {}
    BY <1>3 DEF NamedIn, Pairs, Holds, Holders
  <2> QED BY <2>1, <2>3, <2>4
<1> QED BY <1>1, <1>2, <1>3

LEMMA WithoutRemoves ==
  ASSUME NEW docs, NEW uri
  PROVE  Pairs(Without(docs, uri)) = Pairs(docs) \ NamedIn(Pairs(docs), uri)
BY DEF Pairs, Without, Holders, NamedIn

-----------------------------------------------------------------------------
(* What the program knows from where it is.                                *)

LEMMA InitStore == Init => StoreInv
<1> SUFFICES ASSUME Init PROVE StoreInv
  OBVIOUS
<1>1. PhaseInv
  BY DEF Init, PhaseInv, Searching, Writing, Phases
<1>2. Numbered(db) /\ Numbered(working)
  <2>1. Numbered(NoIndex)
    BY DEF Numbered, NoIndex
  <2> QED BY <2>1 DEF Init, NoIndex
<1>3. ArgsAreGiven
  BY DEF Init, ArgsAreGiven
<1> QED BY <1>1, <1>2, <1>3 DEF StoreInv

LEMMA PhaseKept == ASSUME PhaseInv, [Next]_vars PROVE PhaseInv'
<1> USE CommandAssumption DEF PhaseInv, Searching, Writing, Phases
<1>1. CASE UNCHANGED vars
  BY <1>1 DEF vars, readVars, diskVars, processVars, histVars
<1>2. CASE Invoke
  BY <1>2 DEF Invoke
<1>3. CASE OpenIndex
  BY <1>3 DEF OpenIndex, GoTo, StartReading
<1>4. CASE OverwriteIndex
  BY <1>4 DEF OverwriteIndex, GoTo, readVars
<1>14. CASE UnlinkHeader
  BY <1>14 DEF UnlinkHeader, GoTo, readVars
<1>5. CASE OpenForSearch
  BY <1>5 DEF OpenForSearch, GoTo, StartReading
<1>6. CASE ReadStep
  <2>1. readers # << >> /\ (refused' => readers' # << >>)
    BY <1>6, ReadKeepsReaders DEF ReadStep
  <2> QED BY <1>6, <2>1 DEF ReadStep, processVars
<1>7. CASE HeaderRead
  BY <1>7 DEF HeaderRead, GoTo, readVars
<1>8. CASE Configure
  BY <1>8 DEF Configure, GoTo, StartReading
<1>9. CASE ConfigRead
  BY <1>9 DEF ConfigRead, GoTo, readVars
<1>15. CASE SetStemmer
  BY <1>15 DEF SetStemmer, GoTo
<1>10. CASE IndexDocument
  BY <1>10 DEF IndexDocument, Ready, GoTo
<1>16. CASE DeleteDocument
  BY <1>16 DEF DeleteDocument, Ready, GoTo, readVars
<1>11. CASE Flush
  BY <1>11 DEF Flush, readVars, processVars
<1>12. CASE FinishDelete \/ FinishIndex \/ Search \/ Croak \/ Crash
  BY <1>12 DEF FinishDelete, FinishIndex, Search, Croak, Crash, Quit
<1>13. CASE BeginHeader
  BY <1>13 DEF BeginHeader, AllDone, GoTo
<1>17. CASE WriteHeader
  BY <1>17 DEF WriteHeader, GoTo, readVars
<1> QED
  BY <1>1, <1>2, <1>3, <1>4, <1>5, <1>6, <1>7, <1>8, <1>9, <1>10, <1>11, <1>12, <1>13, <1>14,
     <1>15, <1>16, <1>17
  DEF Next, Program

LEMMA SeqInto ==
  ASSUME NEW S, NEW T, NEW s \in Seq(S), \A i \in DOMAIN s : s[i] \in T
  PROVE  s \in Seq(T)
<1>1. s = [i \in 1..Len(s) |-> s[i]] /\ Len(s) \in Nat /\ DOMAIN s = 1..Len(s)
  OBVIOUS
<1> QED BY <1>1

LEMMA ArgsKept ==
  ASSUME ArgsAreGiven, [Next]_vars
  PROVE  ArgsAreGiven'
<1>0. Given' = Given
  BY DEF Given
<1>1. CASE Invoke
  <2>1. PICK c \in Commands : args' = c.args
    BY <1>1 DEF Invoke
  <2>2. \A i \in DOMAIN c.args : c.args[i] \in Given
    BY DEF Given
  <2>3. c.args \in Seq(Given)
    BY <2>2, CommandAssumption, SeqInto DEF IsSequence
  <2> QED BY <1>0, <2>1, <2>3 DEF ArgsAreGiven
<1>2. CASE args' = args
  BY <1>0, <1>2 DEF ArgsAreGiven
<1>5. CASE args' = << >>
  BY <1>0, <1>5 DEF ArgsAreGiven
<1>3. CASE args # << >> /\ args' = Tail(args)
  BY <1>0, <1>3 DEF ArgsAreGiven
<1>4. Invoke \/ args' = args \/ args' = << >> \/ (args # << >> /\ args' = Tail(args))
  BY DEF Next, Program, vars, processVars, OpenIndex, OverwriteIndex, UnlinkHeader, OpenForSearch,
     ReadStep, HeaderRead, Configure, ConfigRead, SetStemmer, IndexDocument, DeleteDocument, Ready,
     FinishDelete, BeginHeader, WriteHeader, FinishIndex, Search, Croak, Crash, Flush, Quit
<1> QED BY <1>1, <1>2, <1>3, <1>4, <1>5

LEMMA NumbersKept ==
  ASSUME Numbered(db), Numbered(working), [Next]_vars
  PROVE  Numbered(db') /\ Numbered(working')
<1>1. Numbered(<< >>)
  BY DEF Numbered
<1>2. CASE IndexDocument
  BY <1>2, InsertKeepsNumbered DEF IndexDocument, diskVars
<1>3. CASE DeleteDocument
  BY <1>3, WithoutKeepsNumbered DEF DeleteDocument, diskVars
<1>4. CASE ~IndexDocument /\ ~DeleteDocument
  <2>1. db' \in {db, working, << >>} /\ working' \in {db, working, << >>}
    BY <1>4 DEF Next, Program, vars, diskVars, processVars, Invoke, OpenIndex, OverwriteIndex,
       UnlinkHeader, OpenForSearch, ReadStep, HeaderRead, Configure, ConfigRead, SetStemmer,
       FinishDelete, BeginHeader, WriteHeader, FinishIndex, Search, Croak, Crash, Flush, Quit
  <2> QED BY <1>1, <2>1
<1> QED BY <1>2, <1>3, <1>4

LEMMA StoreKept == StoreInv /\ [Next]_vars => StoreInv'
BY PhaseKept, ArgsKept, NumbersKept DEF StoreInv

-----------------------------------------------------------------------------
(* Every step of the program is a step of the store, or none.              *)

LEMMA InitRefines == Init => DS!Init
BY DEF Init, DS!Init, HasOpen, Pairs, NoIndex

\* A step that changes no document and neither opens nor closes the index.
LEMMA Stutters ==
  ASSUME UNCHANGED db, HasOpen' <=> HasOpen, HasOpen => UNCHANGED working
  PROVE  UNCHANGED DS!vars
<1>1. Pairs(db)' = Pairs(db)
  BY DEF Pairs
<1>2. (IF HasOpen THEN Pairs(working) ELSE {})' = (IF HasOpen THEN Pairs(working) ELSE {})
  <2>1. CASE HasOpen
    BY <2>1 DEF Pairs
  <2>2. CASE ~HasOpen
    BY <2>2
  <2> QED BY <2>1, <2>2
<1>3. HasOpen' = HasOpen
  BY DEF HasOpen
<1> QED BY <1>1, <1>2, <1>3 DEF DS!vars

\* The end of a program that lets Xapian write what it has.
LEMMA ClosesOrStutters ==
  ASSUME StoreInv, phase' = "idle", db' = IF HasOpen THEN working ELSE db
  PROVE  [DS!Next]_DS!vars
<1>1. ~HasOpen'
  BY DEF HasOpen
<1>2. CASE HasOpen
  <2>1. DS!Close
    BY <1>1, <1>2 DEF DS!Close, HasOpen, Pairs
  <2> QED BY <2>1 DEF DS!Next
<1>3. CASE ~HasOpen
  BY <1>1, <1>3, Stutters
<1> QED BY <1>2, <1>3

LEMMA IndexDocumentRefines == StoreInv /\ IndexDocument => [DS!Next]_DS!vars
<1> SUFFICES ASSUME StoreInv, IndexDocument PROVE [DS!Next]_DS!vars
  OBVIOUS
<1> DEFINE doc == Document(args[1], Learn(config, args[1]))
<1>1. phase = "documents" /\ phase' = "documents" /\ UNCHANGED <<command, db>>
      /\ working' = Insert(working, doc)
  BY DEF IndexDocument, Ready, GoTo, diskVars
<1>2. HasOpen /\ HasOpen'
  BY <1>1 DEF StoreInv, PhaseInv, Writing, HasOpen, Phases
<1>3. args[1] \in Given
  BY DEF StoreInv, ArgsAreGiven, IndexDocument, Ready
<1>4. doc.uri = args[1].uri /\ doc.words = args[1].words
  BY DEF Document
<1> HIDE DEF doc
<1>5. \/ Pairs(working') = Pairs(working)
      \/ Pairs(working')
           = (Pairs(working) \ NamedIn(Pairs(working), doc.uri)) \cup {<<doc.uri, doc.words>>}
  BY <1>1, InsertPuts DEF StoreInv
<1>6. CASE Pairs(working') = Pairs(working)
  BY <1>1, <1>2, <1>6 DEF DS!vars, Pairs
<1>7. CASE Pairs(working')
             = (Pairs(working) \ NamedIn(Pairs(working), doc.uri)) \cup {<<doc.uri, doc.words>>}
  <2>1. DS!Put(args[1].uri, args[1].words)
    BY <1>1, <1>2, <1>4, <1>7 DEF DS!Put, DS!Named, NamedIn, Pairs
  <2> QED BY <1>3, <2>1 DEF DS!Next
<1> QED BY <1>5, <1>6, <1>7

LEMMA DeleteDocumentRefines == StoreInv /\ DeleteDocument => [DS!Next]_DS!vars
<1> SUFFICES ASSUME StoreInv, DeleteDocument PROVE [DS!Next]_DS!vars
  OBVIOUS
<1>1. phase = "documents" /\ phase' = "documents" /\ UNCHANGED <<command, db>>
      /\ working' = Without(working, args[1].uri)
  BY DEF DeleteDocument, Ready, GoTo, diskVars
<1>2. HasOpen /\ HasOpen'
  BY <1>1 DEF StoreInv, PhaseInv, Writing, HasOpen, Phases
<1>3. args[1] \in Given
  BY DEF StoreInv, ArgsAreGiven, DeleteDocument, Ready
<1>4. Pairs(working') = Pairs(working) \ NamedIn(Pairs(working), args[1].uri)
  BY <1>1, WithoutRemoves
<1>5. DS!Remove(args[1].uri)
  BY <1>1, <1>2, <1>4 DEF DS!Remove, DS!Named, NamedIn, Pairs
<1> QED BY <1>3, <1>5 DEF DS!Next

LEMMA StepRefines == StoreInv /\ [Next]_vars => [DS!Next]_DS!vars
<1> SUFFICES ASSUME StoreInv, [Next]_vars PROVE [DS!Next]_DS!vars
  OBVIOUS
<1> USE DEF StoreInv, PhaseInv, Searching, Writing, HasOpen, Phases
<1>1. CASE UNCHANGED vars
  BY <1>1, Stutters DEF vars, diskVars, processVars
<1>2. CASE Invoke
  BY <1>2, Stutters DEF Invoke, diskVars
<1>3. CASE OpenIndex
  <2>1. DS!Open
    BY <1>3 DEF OpenIndex, GoTo, DS!Open, Pairs
  <2> QED BY <2>1 DEF DS!Next
<1>4. CASE OverwriteIndex
  <2>1. DS!Wipe
    BY <1>4 DEF OverwriteIndex, GoTo, DS!Wipe, Pairs
  <2> QED BY <2>1 DEF DS!Next
<1>5. CASE UnlinkHeader
  BY <1>5, Stutters DEF UnlinkHeader, GoTo
<1>6. CASE OpenForSearch
  BY <1>6, Stutters DEF OpenForSearch, GoTo, diskVars
<1>7. CASE ReadStep
  BY <1>7, Stutters DEF ReadStep, diskVars, processVars
<1>8. CASE HeaderRead
  BY <1>8, Stutters DEF HeaderRead, GoTo, diskVars
<1>9. CASE Configure
  BY <1>9, Stutters DEF Configure, GoTo, diskVars
<1>10. CASE ConfigRead
  BY <1>10, Stutters DEF ConfigRead, GoTo, diskVars
<1>11. CASE SetStemmer
  BY <1>11, Stutters DEF SetStemmer, GoTo, diskVars
<1>12. CASE IndexDocument
  BY <1>12, IndexDocumentRefines
<1>13. CASE DeleteDocument
  BY <1>13, DeleteDocumentRefines
<1>14. CASE Flush
  <2>1. DS!Save
    BY <1>14 DEF Flush, DS!Save, processVars, Pairs
  <2> QED BY <2>1 DEF DS!Next
<1>15. CASE FinishDelete
  BY <1>15, ClosesOrStutters DEF FinishDelete, AllDone, Quit
<1>16. CASE BeginHeader
  BY <1>16, Stutters DEF BeginHeader, AllDone, GoTo
<1>17. CASE WriteHeader
  BY <1>17, Stutters DEF WriteHeader, GoTo
<1>18. CASE FinishIndex
  BY <1>18, ClosesOrStutters DEF FinishIndex, Quit
<1>19. CASE Search
  BY <1>19, ClosesOrStutters DEF Search, Quit, diskVars
<1>20. CASE Croak
  BY <1>20, ClosesOrStutters DEF Croak, Quit, Ready
<1>21. CASE Crash
  <2>1. CASE HasOpen
    <3>1. DS!Die
      BY <1>21, <2>1 DEF Crash, Quit, DS!Die, Pairs, diskVars
    <3> QED BY <3>1 DEF DS!Next
  <2>2. CASE ~HasOpen
    BY <1>21, <2>2, Stutters DEF Crash, Quit, diskVars
  <2> QED BY <2>1, <2>2
<1> QED
  BY <1>1, <1>2, <1>3, <1>4, <1>5, <1>6, <1>7, <1>8, <1>9, <1>10, <1>11, <1>12, <1>13, <1>14,
     <1>15, <1>16, <1>17, <1>18, <1>19, <1>20, <1>21 DEF Next, Program

\* Over any number of runs, with any files, options and documents, killed at any
\* moment, the index is a map from names to contents: a run works on a copy, each
\* argument puts or removes one document, and the copy is on disk when the run
\* ends in good order (handler and delete_document of swish_xapian.cpp).
THEOREM StoreImplemented == Spec => ImplementsStore
<1>1. Spec => []StoreInv
  BY InitStore, StoreKept, PTL DEF Spec
<1> QED BY <1>1, InitRefines, StepRefines, PTL DEF Spec, ImplementsStore, DS!Spec

-----------------------------------------------------------------------------
(* Types: what every configuration is like.                                *)

\* What a file or a header may set is known when it is read.
GoodConfig(c) == IsConfig(c) /\ KnownValues(c.misc)

ConfigFields == {"metanames", "properties", "parsers", "mimes", "index", "tag_aliases", "misc",
                 "stringlists", "flags", "max_meta_id", "max_prop_id", "meta_ids", "prop_ids"}
FlagNames == Booleans \cup DOMAIN Switches

LEMMA Fields ==
  /\ DOMAIN ConfigInit = ConfigFields /\ DOMAIN DefaultFlags = FlagNames
  /\ DOMAIN NewMetaName = {"id", "bias", "alias_for"}
  /\ DOMAIN NewProperty = {"id", "type", "presort", "alias_for"}
BY DEF ConfigInit, ConfigFields, DefaultFlags, FlagNames, Booleans, Switches, NewMetaName, NewProperty

FlagsOK(flags) ==
  /\ DOMAIN flags = FlagNames
  /\ \A k \in FlagNames :
       IF k \in Booleans THEN flags[k] \in BOOLEAN ELSE flags[k] \in Switches[k]

NamesOK(c) ==
  /\ \A n \in DOMAIN c.metanames : DOMAIN c.metanames[n] = DOMAIN NewMetaName
  /\ \A n \in DOMAIN c.properties : DOMAIN c.properties[n] = DOMAIN NewProperty
  /\ \A i \in DOMAIN c.meta_ids : c.meta_ids[i] \in DOMAIN c.metanames

LEMMA GoodConfigDef ==
  ASSUME NEW c
  PROVE  GoodConfig(c) <=> /\ DOMAIN c = ConfigFields /\ FlagsOK(c.flags)
                           /\ NamesOK(c) /\ KnownValues(c.misc)
BY Fields DEF GoodConfig, IsConfig, FlagsOK, NamesOK

LEMMA ConfigInitGood == GoodConfig(ConfigInit)
<1>1. FlagsOK(DefaultFlags)
  <2>1. \A k \in Booleans : DefaultFlags[k] \in BOOLEAN
    <3>1. DefaultFlags["Tokenize"] = TRUE /\ DefaultFlags["CascadeMetaContext"] = FALSE
      BY DEF DefaultFlags
    <3>2. DefaultFlags["IgnoreXMLNameSpaces"] = TRUE /\ DefaultFlags["FollowXInclude"] = TRUE
      BY DEF DefaultFlags
    <3> QED BY <3>1, <3>2 DEF Booleans
  <2>2. \A k \in DOMAIN Switches : k \notin Booleans /\ DefaultFlags[k] \in Switches[k]
    BY DEF DefaultFlags, Booleans, Switches
  <2> QED BY <2>1, <2>2, Fields DEF FlagsOK, FlagNames
<1>2. /\ ConfigInit.flags = DefaultFlags /\ ConfigInit.misc = NoHash
      /\ ConfigInit.metanames = NoHash /\ ConfigInit.properties = NoHash
      /\ ConfigInit.meta_ids = NoHash
  BY DEF ConfigInit
<1>3. DOMAIN NoHash = {}
  BY DEF NoHash
<1>4. NamesOK(ConfigInit)
  BY <1>2, <1>3 DEF NamesOK
<1>5. KnownValues(ConfigInit.misc)
  BY <1>2, <1>3 DEF KnownValues
<1> QED BY <1>1, <1>2, <1>4, <1>5, Fields, GoodConfigDef

LEMMA DefaultConfigGood == GoodConfig(DefaultConfig)
<1>1. DOMAIN DefaultConfig = ConfigFields
  BY Fields DEF DefaultConfig
<1>2. DefaultConfig.flags = ConfigInit.flags /\ DefaultConfig.misc = ConfigInit.misc
  BY Fields DEF DefaultConfig, ConfigFields
<1>3. FlagsOK(DefaultConfig.flags) /\ KnownValues(DefaultConfig.misc)
  BY <1>2, ConfigInitGood, GoodConfigDef
<1>4. NamesOK(DefaultConfig)
  <2>1. /\ DOMAIN DefaultConfig.metanames = {SwishDefault, SwishTitle}
        /\ \A n \in DOMAIN DefaultConfig.metanames :
             DOMAIN DefaultConfig.metanames[n] = DOMAIN NewMetaName
    BY Fields DEF DefaultConfig, ConfigFields
  <2>2. \A n \in DOMAIN DefaultConfig.properties :
          DOMAIN DefaultConfig.properties[n] = DOMAIN NewProperty
    BY Fields DEF DefaultConfig, ConfigFields
  <2>3. \A i \in DOMAIN DefaultConfig.meta_ids :
          DefaultConfig.meta_ids[i] \in {SwishDefault, SwishTitle}
    BY Fields DEF DefaultConfig, ConfigFields
  <2> QED BY <2>1, <2>2, <2>3 DEF NamesOK
<1> QED BY <1>1, <1>3, <1>4, GoodConfigDef

\* Flags that are set from known values are flags.
LEMMA FlagsFromOK ==
  ASSUME NEW flags, NEW misc, NEW keys, FlagsOK(flags), KnownValues(misc)
  PROVE  FlagsOK(FlagsFrom(flags, misc, keys))
<1> DEFINE f == FlagsFrom(flags, misc, keys)
<1>1. DOMAIN f = FlagNames
  BY DEF FlagsFrom, FlagsOK
<1>2. ASSUME NEW k \in FlagNames, k \in Booleans PROVE f[k] \in BOOLEAN
  <2>1. f[k] = flags[k] \/ f[k] = ToBoolean(misc[k])
    BY <1>2 DEF FlagsFrom, FlagsOK, FlagValue
  <2>2. flags[k] \in BOOLEAN
    BY <1>2 DEF FlagsOK
  <2>3. ToBoolean(misc[k]) \in BOOLEAN
    BY DEF ToBoolean
  <2> HIDE DEF f
  <2> QED BY <2>1, <2>2, <2>3
<1>3. ASSUME NEW k \in FlagNames, k \notin Booleans PROVE f[k] \in Switches[k]
  <2>1. k \in DOMAIN Switches
    BY <1>3 DEF FlagNames
  <2>2. f[k] = flags[k] \/ (k \in DOMAIN misc /\ f[k] = misc[k])
    BY <1>3 DEF FlagsFrom, FlagsOK, FlagValue
  <2> HIDE DEF f
  <2> QED BY <1>3, <2>1, <2>2 DEF FlagsOK, KnownValues
<1> HIDE DEF f
<1>4. FlagsOK(f)
  BY <1>1, <1>2, <1>3 DEF FlagsOK
<1> QED BY <1>4 DEF f

\* swish_config_merge makes a configuration of two.
LEMMA MergeGood ==
  ASSUME NEW c1, NEW c2, GoodConfig(c1), GoodConfig(c2)
  PROVE  GoodConfig(ConfigMerge(c1, c2))
<1> DEFINE c == ConfigMerge(c1, c2)
<1>1. DOMAIN c1 = ConfigFields /\ NamesOK(c1) /\ KnownValues(c1.misc)
  BY GoodConfigDef
<1>2. FlagsOK(c2.flags) /\ NamesOK(c2) /\ KnownValues(c2.misc)
  BY GoodConfigDef
<1>3. /\ DOMAIN c = ConfigFields
      /\ c.properties = MergeNames(c1.properties, c2.properties, CopyProperty)
      /\ c.metanames = MergeNames(c1.metanames, c2.metanames, CopyMetaName)
      /\ c.misc = HashMerge(c1.misc, c2.misc)
      /\ c.flags = FlagsFrom(c2.flags, c2.misc, DOMAIN c2.flags)
      /\ c.meta_ids = c1.meta_ids
  BY <1>1 DEF ConfigMerge, ConfigFields
<1> HIDE DEF c
<1>4. FlagsOK(c.flags)
  BY <1>2, <1>3, FlagsFromOK
<1>5. KnownValues(c.misc)
  BY <1>1, <1>2, <1>3 DEF KnownValues, HashMerge
<1>6. NamesOK(c)
  <2>1. \A n \in DOMAIN c.metanames : DOMAIN c.metanames[n] = DOMAIN NewMetaName
    BY <1>1, <1>2, <1>3, Fields DEF NamesOK, MergeNames, CopyMetaName
  <2>2. \A n \in DOMAIN c.properties : DOMAIN c.properties[n] = DOMAIN NewProperty
    BY <1>1, <1>2, <1>3, Fields DEF NamesOK, MergeNames, CopyProperty
  <2>3. DOMAIN c1.metanames \subseteq DOMAIN c.metanames
    BY <1>3 DEF MergeNames
  <2> QED BY <1>1, <1>3, <2>1, <2>2, <2>3 DEF NamesOK
<1> QED BY <1>3, <1>4, <1>5, <1>6, GoodConfigDef DEF c
-----------------------------------------------------------------------------
(* Aliases.                                                                *)

\* The test at the end of a file lets a name pass that is an alias for one that
\* exists, or whose alias is read through a pointer to freed memory.
AliasesKnown(c) ==
  \A n \in DOMAIN c.metanames :
    c.metanames[n].alias_for = Dangling \/ MetaAliasMeets(c, c.metanames[n].alias_for)

AliasInv == DOMAIN config = ConfigFields /\ AliasesKnown(config)

\* No alias of the configuration points to freed memory.
NoFreedAlias == \A n \in DOMAIN config.metanames : config.metanames[n].alias_for # Dangling

\* What a document teaches has no alias.
LEMMA MetaNameNewKnown ==
  ASSUME NEW c, NEW n, DOMAIN c = ConfigFields, AliasesKnown(c)
  PROVE  DOMAIN MetaNameNew(c, n) = ConfigFields /\ AliasesKnown(MetaNameNew(c, n))
<1> DEFINE id == c.max_meta_id + 1
           m  == MetaNameNew(c, n)
<1>1. /\ DOMAIN m = ConfigFields
      /\ m.metanames = Put(c.metanames, n, [NewMetaName EXCEPT !.id = id])
  BY DEF MetaNameNew, ConfigFields
<1>2. [NewMetaName EXCEPT !.id = id].alias_for = None
  BY DEF NewMetaName
<1> HIDE DEF m, id
<1>3. AliasesKnown(m)
  BY <1>1, <1>2 DEF AliasesKnown, MetaAliasMeets, Put
<1> QED BY <1>1, <1>3 DEF m

LEMMA SameMetaNames ==
  ASSUME NEW c1, NEW c2, c2.metanames = c1.metanames, AliasesKnown(c1)
  PROVE  AliasesKnown(c2)
BY DEF AliasesKnown, MetaAliasMeets

LEMMA LearnTagKnown ==
  ASSUME NEW c, NEW p, DOMAIN c = ConfigFields, AliasesKnown(c)
  PROVE  DOMAIN LearnTag(c, p) = ConfigFields /\ AliasesKnown(LearnTag(c, p))
<1> DEFINE m == MetaNameNew(c, p[1])
<1>1. DOMAIN m = ConfigFields /\ AliasesKnown(m)
  BY MetaNameNewKnown
<1> HIDE DEF m
<1>2. DOMAIN PropertyNew(m, p[1]) = ConfigFields /\ PropertyNew(m, p[1]).metanames = m.metanames
  BY <1>1 DEF PropertyNew, ConfigFields
<1>3. AliasesKnown(PropertyNew(m, p[1]))
  BY <1>1, <1>2, SameMetaNames
<1>4. LearnTag(c, p) \in {c, m, PropertyNew(m, p[1])}
  BY DEF LearnTag, m
<1> QED BY <1>1, <1>2, <1>3, <1>4

KnownSoFar(p, n, c) == DOMAIN c = ConfigFields /\ AliasesKnown(c)
L == INSTANCE FoldProofs WITH Op <- LearnTag, Inv <- KnownSoFar

LEMMA LearnFolded ==
  ASSUME NEW c, NEW doc PROVE Learn(c, doc) = L!Folded(c, doc.words)
BY DEF Learn, L!Folded, FoldLeft, MapThenFoldSet, L!FoldLeft, L!MapThenFoldSet, Max, L!Max

LEMMA LearnKnown ==
  ASSUME NEW c, NEW doc, DOMAIN c = ConfigFields, AliasesKnown(c), IsSequence(doc.words)
  PROVE  DOMAIN Learn(c, doc) = ConfigFields /\ AliasesKnown(Learn(c, doc))
<1>1. PICK k \in Nat : DOMAIN doc.words = 1..k
  BY DEF IsSequence
<1>2. KnownSoFar(0, 0, c)
  BY DEF KnownSoFar
<1>3. ASSUME NEW i \in 1..k, NEW s, KnownSoFar(0, i - 1, s)
      PROVE  KnownSoFar(0, i, LearnTag(s, doc.words[i]))
  BY <1>3, LearnTagKnown DEF KnownSoFar
<1>4. KnownSoFar(0, k, L!Folded(c, doc.words))
  <2> HIDE DEF KnownSoFar
  <2> QED BY <1>1, <1>2, <1>3, L!FoldInduction
<1> QED BY <1>4, LearnFolded DEF KnownSoFar

LEMMA DefaultKnown ==
  /\ DOMAIN ConfigInit = ConfigFields /\ AliasesKnown(ConfigInit)
  /\ DOMAIN DefaultConfig = ConfigFields /\ AliasesKnown(DefaultConfig)
<1>1. DOMAIN ConfigInit = ConfigFields /\ DOMAIN DefaultConfig = ConfigFields
  BY Fields DEF DefaultConfig
<1>2. ConfigInit.metanames = NoHash /\ DOMAIN NoHash = {}
  BY DEF ConfigInit, NoHash
<1>3. \A n \in DOMAIN DefaultConfig.metanames : DefaultConfig.metanames[n].alias_for = None
  BY Fields DEF DefaultConfig, ConfigFields, NewMetaName
<1> QED BY <1>1, <1>2, <1>3 DEF AliasesKnown, MetaAliasMeets

\* Only the end of the outermost file changes the program's configuration.
LEMMA ReadKnown ==
  ASSUME Read, AliasInv
  PROVE  AliasInv'
<1>1. UNCHANGED config \/ (config' = ConfigMerge(config, Top.config) /\ AliasesMayMeet(config'))
  <2> USE DEF Proceed, ReadOn, Refuse
  <2>1. CASE EndOfFile
    BY <2>1 DEF EndOfFile, Merged
  <2>2. CASE ReadRoot \/ ReadBroken \/ NotAHeader \/ ReadSectionStart \/ ReadSectionEnd
    BY <2>2 DEF ReadRoot, ReadBroken, NotAHeader, ReadSectionStart, ReadSectionEnd
  <2>3. CASE ReadInclude \/ SkipText \/ SkipNode \/ AliasToNothing
    BY <2>3 DEF ReadInclude, SkipText, SkipNode, AliasToNothing
  <2>4. CASE ReadMetaName \/ ReadMetaNameAliases
    BY <2>4 DEF ReadMetaName, ReadMetaNameAliases
  <2>5. CASE ReadProperty \/ ReadPropertyAliases
    BY <2>5 DEF ReadProperty, ReadPropertyAliases
  <2>6. CASE ReadKeyValue \/ ReadKeyValues \/ ReadClassAttributes \/ ReadSetting
    BY <2>6 DEF ReadKeyValue, ReadKeyValues, ReadClassAttributes, ReadSetting
  <2> QED BY <2>1, <2>2, <2>3, <2>4, <2>5, <2>6 DEF Read
<1>2. CASE UNCHANGED config
  BY <1>2 DEF AliasInv
<1>3. CASE config' = ConfigMerge(config, Top.config) /\ AliasesMayMeet(config')
  <2>1. DOMAIN config' = ConfigFields
    BY <1>3 DEF AliasInv, ConfigMerge
  <2> QED BY <1>3, <2>1 DEF AliasInv, AliasesKnown, AliasesMayMeet
<1> QED BY <1>1, <1>2, <1>3

LEMMA AliasKept == StoreInv /\ AliasInv /\ [Next]_vars => AliasInv'
<1> SUFFICES ASSUME StoreInv, AliasInv, [Next]_vars PROVE AliasInv'
  OBVIOUS
<1>1. CASE UNCHANGED config
  BY <1>1 DEF AliasInv
<1>2. CASE ReadStep
  BY <1>2, ReadKnown DEF ReadStep
<1>3. CASE config' \in {ConfigInit, DefaultConfig}
  BY <1>3, DefaultKnown DEF AliasInv
<1>4. CASE IndexDocument
  <2>1. args[1] \in Given /\ config' = Learn(config, args[1])
    BY <1>4 DEF IndexDocument, Ready, StoreInv, ArgsAreGiven
  <2>2. IsSequence(args[1].words)
    BY <2>1, CommandAssumption DEF Given
  <2> QED BY <2>1, <2>2, LearnKnown DEF AliasInv
<1>5. CASE SetStemmer \/ BeginHeader
  <2>1. DOMAIN config' = ConfigFields /\ config'.metanames = config.metanames
    BY <1>5 DEF SetStemmer, BeginHeader, AliasInv, ConfigFields
  <2> QED BY <2>1, SameMetaNames DEF AliasInv
<1> QED
  BY <1>1, <1>2, <1>3, <1>4, <1>5 DEF Next, Program, vars, readVars, Invoke, OpenIndex,
     OverwriteIndex, UnlinkHeader, OpenForSearch, HeaderRead, Configure, ConfigRead, DeleteDocument,
     FinishDelete, WriteHeader, FinishIndex, Search, Croak, Crash, Flush, Quit

\* Whatever files are merged, and whatever the documents teach, an alias is
\* another name for one that exists, so that the handler and add_prefix may
\* follow it without looking (swish_config_test_alias_fors): unless a merge has
\* freed it and put nothing in its place (merge_metanames).
THEOREM AliasesCorrect == Spec => [](NoFreedAlias => AliasesResolve)
<1>1. Init => AliasInv
  BY DefaultKnown DEF Init, AliasInv
<1>2. AliasInv /\ NoFreedAlias => AliasesResolve
  BY DEF AliasInv, AliasesKnown, NoFreedAlias, AliasesResolve, MetaAliasMeets
<1>3. AliasInv => (NoFreedAlias => AliasesResolve)
  BY <1>2
<1> QED BY InitStore, StoreKept, <1>1, AliasKept, <1>3, PTL DEF Spec

-----------------------------------------------------------------------------
(* What a header is written as: sequences of nodes.                        *)

LEMMA Sequence ==
  ASSUME NEW S, NEW s \in Seq(S)
  PROVE  IsSequence(s) /\ Len(s) \in Nat /\ DOMAIN s = 1..Len(s)
BY SeqInto DEF IsSequence

LEMMA SequenceLen ==
  ASSUME NEW s, IsSequence(s)
  PROVE  Len(s) \in Nat /\ DOMAIN s = 1..Len(s)
BY Sequence DEF IsSequence

WellFormed(nodes) == IsSequence(nodes) /\ \A i \in DOMAIN nodes : IsSequence(nodes[i].words)

LEMMA Concatenated ==
  ASSUME NEW s, NEW t, WellFormed(s), WellFormed(t)
  PROVE  WellFormed(s \o t)
<1> DEFINE S == {s[i] : i \in DOMAIN s} \cup {t[i] : i \in DOMAIN t}
<1>1. s \in Seq(S) /\ t \in Seq(S)
  BY SeqInto DEF WellFormed, IsSequence
<1>2. \A x \in S : IsSequence(x.words)
  BY DEF WellFormed
<1> HIDE DEF S
<1>3. s \o t \in Seq(S)
  BY <1>1
<1>4. \A i \in DOMAIN (s \o t) : (s \o t)[i] \in S
  BY <1>3
<1> QED BY <1>2, <1>3, <1>4, Sequence DEF WellFormed

LEMMA Rest ==
  ASSUME NEW s, NEW n \in Nat, WellFormed(s)
  PROVE  WellFormed(SubSeq(s, n + 1, Len(s)))
<1> DEFINE S == {s[i] : i \in DOMAIN s}
           r == SubSeq(s, n + 1, Len(s))
<1>1. s \in Seq(S)
  BY DEF WellFormed, IsSequence
<1>2. \A x \in S : IsSequence(x.words)
  BY DEF WellFormed
<1> HIDE DEF S
<1>3. r \in Seq(S)
  BY <1>1
<1> HIDE DEF r
<1>4. \A i \in DOMAIN r : r[i] \in S
  BY <1>3
<1>5. WellFormed(r)
  BY <1>2, <1>3, <1>4, Sequence DEF WellFormed
<1> QED BY <1>5 DEF r

LEMMA OneNode ==
  ASSUME NEW x, IsSequence(x.words)
  PROVE  WellFormed(<<x>>)
<1>1. <<x>> \in Seq({x}) /\ \A i \in DOMAIN <<x>> : <<x>>[i] = x
  OBVIOUS
<1>2. IsSequence(<<x>>)
  BY <1>1, Sequence
<1> QED BY <1>1, <1>2 DEF WellFormed

LEMMA TwoNodes ==
  ASSUME NEW x, NEW y, IsSequence(x.words), IsSequence(y.words)
  PROVE  WellFormed(<<x, y>>)
<1>1. <<x, y>> \in Seq({x, y}) /\ \A i \in DOMAIN <<x, y>> : <<x, y>>[i] \in {x, y}
  OBVIOUS
<1>2. IsSequence(<<x, y>>)
  BY <1>1, Sequence
<1> QED BY <1>1, <1>2 DEF WellFormed

LEMMA EmptyNodes == WellFormed(<< >>)
<1>1. << >> \in Seq({}) /\ DOMAIN << >> = {}
  OBVIOUS
<1>2. IsSequence(<< >>)
  BY <1>1, Sequence
<1> QED BY <1>1, <1>2 DEF WellFormed

LEMMA NodesWritten ==
  ASSUME NEW name, NEW attrs, NEW word
  PROVE  /\ WellFormed(<<Start(name)>>) /\ WellFormed(<<End(name)>>)
         /\ WellFormed(<<StartWith(name, attrs)>>) /\ WellFormed(<<Broken>>)
         /\ WellFormed(<<Start(name), Text(<<word>>)>>)
<1>1. << >> \in Seq({}) /\ <<word>> \in Seq({word})
  OBVIOUS
<1>2. IsSequence(<< >>) /\ IsSequence(<<word>>)
  BY <1>1, Sequence
<1>3. /\ Start(name).words = << >> /\ End(name).words = << >> /\ Broken.words = << >>
      /\ StartWith(name, attrs).words = << >> /\ Text(<<word>>).words = <<word>>
  BY DEF Start, End, Broken, StartWith, Text, Node
<1>4. /\ WellFormed(<<Start(name)>>) /\ WellFormed(<<End(name)>>) /\ WellFormed(<<Broken>>)
      /\ WellFormed(<<StartWith(name, attrs)>>)
  BY <1>2, <1>3, OneNode
<1>5. WellFormed(<<Start(name), Text(<<word>>)>>)
  BY <1>2, <1>3, TwoNodes
<1> QED BY <1>4, <1>5

-----------------------------------------------------------------------------
(* Induction over the entries of a hash, in whatever order they are visited. *)

Chosen(s) == CHOOSE x \in s : TRUE
Visit(g, written, s) ==
  IF s = {} THEN << >> ELSE written[Chosen(s)] \o g[s \ {Chosen(s)}]
UpTo(S, k) == {s \in SUBSET S : Cardinality(s) <= k}

LEMMA Smaller ==
  ASSUME NEW S, IsFiniteSet(S), NEW k \in Nat, NEW s \in UpTo(S, k + 1), s # {}
  PROVE  Chosen(s) \in s /\ s \ {Chosen(s)} \in UpTo(S, k)
<1>1. Chosen(s) \in s
  BY DEF Chosen
<1> DEFINE x == Chosen(s)
<1> HIDE DEF x
<1>2. x \in s
  BY <1>1 DEF x
<1>3. IsFiniteSet(s) /\ Cardinality(s) <= k + 1
  BY FS_Subset DEF UpTo
<1>4. Cardinality(s \ {x}) = Cardinality(s) - 1
  BY <1>2, <1>3, FS_RemoveElement
<1>5. Cardinality(s) \in Nat
  BY <1>3, FS_CardinalityType
<1>6. Cardinality(s \ {x}) <= k
  BY <1>3, <1>4, <1>5
<1>7. s \ {x} \in UpTo(S, k)
  BY <1>6 DEF UpTo
<1> QED BY <1>1, <1>7 DEF x

LEMMA NoneLeft ==
  ASSUME NEW S, IsFiniteSet(S), NEW s \in UpTo(S, 0)
  PROVE  s = {}
<1>1. IsFiniteSet(s) /\ Cardinality(s) <= 0
  BY FS_Subset DEF UpTo
<1>2. Cardinality(s) \in Nat
  BY <1>1, FS_CardinalityType
<1>3. Cardinality(s) = 0
  BY <1>1, <1>2
<1> QED BY <1>1, <1>3, FS_EmptySet

LEMMA AllLevels ==
  ASSUME NEW S, IsFiniteSet(S)
  PROVE  Cardinality(S) \in Nat /\ UpTo(S, Cardinality(S)) = SUBSET S
<1>1. Cardinality(S) \in Nat
  BY FS_CardinalityType
<1>2. \A s \in SUBSET S : Cardinality(s) <= Cardinality(S)
  BY FS_Subset
<1> QED BY <1>1, <1>2 DEF UpTo

LEMMA VisitExists ==
  ASSUME NEW written, NEW S, IsFiniteSet(S)
  PROVE  \E g : g = [s \in SUBSET S |-> Visit(g, written, s)]
<1> DEFINE Solves(g, k) == g = [s \in UpTo(S, k) |-> Visit(g, written, s)]
           N == {k \in Nat : \E g : Solves(g, k)}
<1>1. 0 \in N
  <2> DEFINE g == [s \in UpTo(S, 0) |-> << >>]
  <2>1. \A s \in UpTo(S, 0) : Visit(g, written, s) = << >>
    BY NoneLeft DEF Visit
  <2>2. Solves(g, 0)
    BY <2>1
  <2> QED BY <2>2
<1>2. ASSUME NEW k \in Nat, k \in N PROVE k + 1 \in N
  <2>1. PICK g : Solves(g, k)
    BY <1>2
  <2> DEFINE h == [s \in UpTo(S, k + 1) |-> Visit(g, written, s)]
  <2>2. ASSUME NEW s \in UpTo(S, k + 1) PROVE Visit(g, written, s) = Visit(h, written, s)
    <3>1. CASE s = {}
      BY <3>1 DEF Visit
    <3>2. CASE s # {}
      <4>1. s \ {Chosen(s)} \in UpTo(S, k)
        BY <3>2, Smaller
      <4> DEFINE r == s \ {Chosen(s)}
      <4> HIDE DEF r
      <4>2. r \in UpTo(S, k)
        BY <4>1 DEF r
      <4>3. g[r] = Visit(g, written, r)
        BY <2>1, <4>2
      <4>4. r \in UpTo(S, k + 1)
        <5>1. IsFiniteSet(r) /\ Cardinality(r) <= k
          BY <4>2, FS_Subset DEF UpTo
        <5>2. Cardinality(r) \in Nat
          BY <5>1, FS_CardinalityType
        <5>3. Cardinality(r) <= k + 1
          BY <5>1, <5>2
        <5> QED BY <4>2, <5>3 DEF UpTo
      <4>5. h[r] = Visit(g, written, r)
        BY <4>4
      <4> HIDE DEF h
      <4> QED BY <3>2, <4>3, <4>5 DEF Visit, r
    <3> QED BY <3>1, <3>2
  <2>3. Solves(h, k + 1)
    BY <2>2
  <2>4. \E f : Solves(f, k + 1)
    BY <2>3
  <2> QED BY <2>4
<1>3. N = Nat
  <2> HIDE DEF N
  <2>1. N \in SUBSET Nat
    BY DEF N
  <2> QED BY <1>1, <1>2, <2>1, Learning!SetInduction
<1>4. Cardinality(S) \in N /\ UpTo(S, Cardinality(S)) = SUBSET S
  BY <1>3, AllLevels
<1>5. PICK g : Solves(g, Cardinality(S))
  BY <1>4
<1> QED BY <1>4, <1>5

LEMMA EntriesWellFormed ==
  ASSUME NEW written, IsFiniteSet(DOMAIN written),
         \A k \in DOMAIN written : WellFormed(written[k])
  PROVE  WellFormed(Entries(written))
<1> DEFINE S == DOMAIN written
           f == CHOOSE g : g = [s \in SUBSET S |-> Visit(g, written, s)]
<1>1. f = [s \in SUBSET S |-> Visit(f, written, s)]
  BY VisitExists
<1>2. Entries(written) = f[S]
  BY DEF Entries, FoldSet, MapThenFoldSet, Visit, Chosen
<1> HIDE DEF f
<1> DEFINE N == {k \in Nat : \A s \in UpTo(S, k) : WellFormed(f[s])}
<1>3. 0 \in N
  <2>1. ASSUME NEW s \in UpTo(S, 0) PROVE WellFormed(f[s])
    <3>1. s = {} /\ s \in SUBSET S
      BY NoneLeft
    <3> QED BY <1>1, <3>1, EmptyNodes DEF Visit
  <2> QED BY <2>1
<1>4. ASSUME NEW k \in Nat, k \in N PROVE k + 1 \in N
  <2>1. ASSUME NEW s \in UpTo(S, k + 1) PROVE WellFormed(f[s])
    <3>1. s \in SUBSET S
      BY DEF UpTo
    <3>2. CASE s = {}
      BY <1>1, <3>1, <3>2, EmptyNodes DEF Visit
    <3>3. CASE s # {}
      <4>1. Chosen(s) \in s /\ s \ {Chosen(s)} \in UpTo(S, k)
        BY <3>3, Smaller
      <4>2. WellFormed(f[s \ {Chosen(s)}]) /\ WellFormed(written[Chosen(s)])
        BY <1>4, <3>1, <4>1
      <4>3. f[s] = written[Chosen(s)] \o f[s \ {Chosen(s)}]
        BY <1>1, <3>1, <3>3 DEF Visit
      <4> QED BY <4>2, <4>3, Concatenated
    <3> QED BY <3>2, <3>3
  <2> QED BY <2>1
<1>5. N = Nat
  <2> HIDE DEF N
  <2>1. N \in SUBSET Nat
    BY DEF N
  <2> QED BY <1>3, <1>4, <2>1, Learning!SetInduction
<1>6. Cardinality(S) \in N /\ S \in UpTo(S, Cardinality(S))
  BY <1>5, AllLevels
<1> QED BY <1>2, <1>6

-----------------------------------------------------------------------------
(* Configurations that can be written.                                     *)

Tables == {"metanames", "properties", "parsers", "mimes", "index", "tag_aliases", "misc"}
Finite(c) == \A f \in Tables : IsFiniteSet(DOMAIN c[f])
Writable(c) == GoodConfig(c) /\ Finite(c)

LEMMA WritableFields ==
  ASSUME NEW c, Writable(c)
  PROVE  /\ DOMAIN c = ConfigFields /\ FlagsOK(c.flags) /\ NamesOK(c) /\ KnownValues(c.misc)
         /\ IsFiniteSet(DOMAIN c.metanames) /\ IsFiniteSet(DOMAIN c.properties)
         /\ IsFiniteSet(DOMAIN c.parsers) /\ IsFiniteSet(DOMAIN c.mimes)
         /\ IsFiniteSet(DOMAIN c.index) /\ IsFiniteSet(DOMAIN c.tag_aliases)
         /\ IsFiniteSet(DOMAIN c.misc)
<1>1. DOMAIN c = ConfigFields /\ FlagsOK(c.flags) /\ NamesOK(c) /\ KnownValues(c.misc)
  BY GoodConfigDef DEF Writable
<1>2. \A f \in Tables : IsFiniteSet(DOMAIN c[f])
  BY DEF Writable, Finite
<1>3. /\ IsFiniteSet(DOMAIN c["metanames"]) /\ IsFiniteSet(DOMAIN c["properties"])
      /\ IsFiniteSet(DOMAIN c["parsers"]) /\ IsFiniteSet(DOMAIN c["mimes"])
      /\ IsFiniteSet(DOMAIN c["index"]) /\ IsFiniteSet(DOMAIN c["tag_aliases"])
      /\ IsFiniteSet(DOMAIN c["misc"])
  BY <1>2 DEF Tables
<1> QED BY <1>1, <1>3

LEMMA ByFields ==
  ASSUME NEW c, DOMAIN c = ConfigFields, FlagsOK(c.flags), NamesOK(c), KnownValues(c.misc),
         IsFiniteSet(DOMAIN c.metanames), IsFiniteSet(DOMAIN c.properties),
         IsFiniteSet(DOMAIN c.parsers), IsFiniteSet(DOMAIN c.mimes),
         IsFiniteSet(DOMAIN c.index), IsFiniteSet(DOMAIN c.tag_aliases),
         IsFiniteSet(DOMAIN c.misc)
  PROVE  Writable(c)
<1>1. GoodConfig(c)
  BY GoodConfigDef
<1>2. Finite(c)
  BY DEF Finite, Tables
<1> QED BY <1>1, <1>2 DEF Writable

LEMMA PutFinite ==
  ASSUME NEW hash, NEW key, NEW value, IsFiniteSet(DOMAIN hash)
  PROVE  IsFiniteSet(DOMAIN Put(hash, key, value)) /\ DOMAIN Put(hash, key, value) = DOMAIN hash \cup {key}
<1>1. DOMAIN Put(hash, key, value) = DOMAIN hash \cup {key}
  BY DEF Put
<1>2. IsFiniteSet(DOMAIN hash \cup {key})
  BY FS_AddElement
<1> QED BY <1>1, <1>2

LEMMA ConfigInitWritable == Writable(ConfigInit) /\ Writable(DefaultConfig)
<1>1. IsFiniteSet({}) /\ DOMAIN NoHash = {}
  BY FS_EmptySet DEF NoHash
<1>2. \A f \in Tables : ConfigInit[f] = NoHash
  BY DEF Tables, ConfigInit
<1>3. Finite(ConfigInit)
  BY <1>1, <1>2 DEF Finite
<1>4. Finite(DefaultConfig)
  <2>1. /\ DOMAIN DefaultConfig.metanames = {SwishDefault, SwishTitle}
        /\ DOMAIN DefaultConfig.properties = {Description, SwishTitle}
        /\ DefaultConfig.mimes = DefaultMimes /\ DefaultConfig.parsers = DefaultParsers
        /\ DefaultConfig.index = DefaultIndex /\ DefaultConfig.tag_aliases = DefaultTagAliases
        /\ DefaultConfig.misc = ConfigInit.misc
    BY Fields DEF DefaultConfig, ConfigFields
  <2>2. IsFiniteSet({SwishDefault, SwishTitle}) /\ IsFiniteSet({Description, SwishTitle})
    <3>1. IsFiniteSet({SwishDefault}) /\ IsFiniteSet({Description})
      BY FS_Singleton
    <3>2. IsFiniteSet({SwishDefault} \cup {SwishTitle})
      BY <3>1, FS_AddElement
    <3>3. IsFiniteSet({Description} \cup {SwishTitle})
      BY <3>1, FS_AddElement
    <3>4. /\ {SwishDefault} \cup {SwishTitle} = {SwishDefault, SwishTitle}
          /\ {Description} \cup {SwishTitle} = {Description, SwishTitle}
      OBVIOUS
    <3> QED BY <3>2, <3>3, <3>4
  <2>3. /\ IsFiniteSet(DOMAIN DefaultMimes) /\ IsFiniteSet(DOMAIN DefaultParsers)
        /\ IsFiniteSet(DOMAIN DefaultIndex) /\ IsFiniteSet(DOMAIN DefaultTagAliases)
    BY TablesAssumption
  <2>4. DOMAIN ConfigInit.misc = {}
    BY <1>1, <1>2 DEF Tables
  <2>5. IsFiniteSet(DOMAIN DefaultConfig.misc)
    BY <1>1, <2>1, <2>4
  <2> QED BY <2>1, <2>2, <2>3, <2>5 DEF Finite, Tables
<1> QED BY <1>3, <1>4, ConfigInitGood, DefaultConfigGood DEF Writable

LEMMA UnionFinite ==
  ASSUME NEW S, NEW T, IsFiniteSet(S), IsFiniteSet(T)
  PROVE  IsFiniteSet(S \cup T)
BY FS_Union

LEMMA MergeWritable ==
  ASSUME NEW c1, NEW c2, Writable(c1), Writable(c2)
  PROVE  Writable(ConfigMerge(c1, c2))
<1> DEFINE c == ConfigMerge(c1, c2)
<1>1. GoodConfig(c)
  BY MergeGood DEF Writable
<1>2. DOMAIN c1 = ConfigFields
  BY WritableFields
<1>3. \A f \in Tables : DOMAIN c[f] = DOMAIN c1[f] \cup DOMAIN c2[f]
  <2>1. /\ c.properties = MergeNames(c1.properties, c2.properties, CopyProperty)
        /\ c.metanames = MergeNames(c1.metanames, c2.metanames, CopyMetaName)
        /\ c.parsers = HashMerge(c1.parsers, c2.parsers)
        /\ c.mimes = HashMerge(c1.mimes, c2.mimes)
        /\ c.index = HashMerge(c1.index, c2.index)
        /\ c.tag_aliases = HashMerge(c1.tag_aliases, c2.tag_aliases)
        /\ c.misc = HashMerge(c1.misc, c2.misc)
    BY <1>2 DEF ConfigMerge, ConfigFields
  <2> HIDE DEF c
  <2>2. /\ DOMAIN c.properties = DOMAIN c1.properties \cup DOMAIN c2.properties
        /\ DOMAIN c.metanames = DOMAIN c1.metanames \cup DOMAIN c2.metanames
    BY <2>1 DEF MergeNames
  <2>3. /\ DOMAIN c.parsers = DOMAIN c1.parsers \cup DOMAIN c2.parsers
        /\ DOMAIN c.mimes = DOMAIN c1.mimes \cup DOMAIN c2.mimes
        /\ DOMAIN c.index = DOMAIN c1.index \cup DOMAIN c2.index
        /\ DOMAIN c.tag_aliases = DOMAIN c1.tag_aliases \cup DOMAIN c2.tag_aliases
        /\ DOMAIN c.misc = DOMAIN c1.misc \cup DOMAIN c2.misc
    BY <2>1 DEF HashMerge
  <2> QED BY <2>2, <2>3 DEF Tables
<1> HIDE DEF c
<1>4. \A f \in Tables : IsFiniteSet(DOMAIN c[f])
  <2> SUFFICES ASSUME NEW f \in Tables PROVE IsFiniteSet(DOMAIN c[f])
    OBVIOUS
  <2>1. IsFiniteSet(DOMAIN c1[f]) /\ IsFiniteSet(DOMAIN c2[f])
    BY DEF Writable, Finite
  <2>2. IsFiniteSet(DOMAIN c1[f] \cup DOMAIN c2[f])
    BY <2>1, UnionFinite
  <2> QED BY <1>3, <2>2
<1> QED BY <1>1, <1>4 DEF Writable, Finite, c

\* One table of a configuration that holds no names.
LEMMA TableSet ==
  ASSUME NEW c, NEW f \in {"parsers", "mimes", "index", "tag_aliases"}, NEW hash,
         Writable(c), IsFiniteSet(DOMAIN hash)
  PROVE  Writable([c EXCEPT ![f] = hash])
<1> DEFINE d == [c EXCEPT ![f] = hash]
<1>0. /\ DOMAIN c = ConfigFields /\ FlagsOK(c.flags) /\ NamesOK(c) /\ KnownValues(c.misc)
  BY WritableFields
<1>1. /\ DOMAIN d = ConfigFields /\ d.flags = c.flags /\ d.misc = c.misc
      /\ d.metanames = c.metanames /\ d.properties = c.properties /\ d.meta_ids = c.meta_ids
  BY <1>0 DEF ConfigFields
<1>2. \A t \in Tables : d[t] = c[t] \/ d[t] = hash
  BY <1>0 DEF Tables, ConfigFields
<1> HIDE DEF d
<1>3. GoodConfig(d)
  BY <1>0, <1>1, GoodConfigDef DEF NamesOK
<1>4. Finite(d)
  BY <1>2 DEF Finite, Writable
<1> QED BY <1>3, <1>4 DEF Writable, d

\* The names of a configuration, and what its numbers are taken to mean.
LEMMA NamesSet ==
  ASSUME NEW c, NEW d, Writable(c), DOMAIN d = ConfigFields,
         d.flags = c.flags, d.misc = c.misc,
         d.parsers = c.parsers, d.mimes = c.mimes, d.index = c.index,
         d.tag_aliases = c.tag_aliases,
         IsFiniteSet(DOMAIN d.metanames), IsFiniteSet(DOMAIN d.properties), NamesOK(d)
  PROVE  Writable(d)
<1>1. /\ FlagsOK(d.flags) /\ KnownValues(d.misc)
      /\ IsFiniteSet(DOMAIN d.parsers) /\ IsFiniteSet(DOMAIN d.mimes)
      /\ IsFiniteSet(DOMAIN d.index) /\ IsFiniteSet(DOMAIN d.tag_aliases)
      /\ IsFiniteSet(DOMAIN d.misc)
  BY WritableFields
<1> QED BY <1>1, ByFields

-----------------------------------------------------------------------------
(* The header.                                                             *)

LEMMA SectionWellFormed ==
  ASSUME NEW name, NEW nodes, WellFormed(nodes)
  PROVE  WellFormed(Section(name, nodes))
<1>1. WellFormed(<<Start(name)>>) /\ WellFormed(<<End(name)>>)
  BY NodesWritten
<1>2. WellFormed(<<Start(name)>> \o nodes)
  BY <1>1, Concatenated
<1>3. WellFormed(<<Start(name)>> \o nodes \o <<End(name)>>)
  BY <1>1, <1>2, Concatenated
<1> QED BY <1>1, <1>3 DEF Section

LEMMA HeaderWellFormed ==
  ASSUME NEW c, Writable(c)
  PROVE  WellFormed(HeaderOf(c))
<1> DEFINE pair(key, val) == <<Start(key), Text(<<val>>)>>
           table(hash) == [k \in DOMAIN hash |-> pair(k, hash[k])]
           metas   == [n \in DOMAIN c.metanames |-> <<StartWith(n, MetaAttrs(c.metanames[n]))>>]
           props   == [n \in DOMAIN c.properties |-> <<StartWith(n, PropertyAttrs(c.properties[n]))>>]
           parsers == [k \in DOMAIN c.parsers |-> pair(c.parsers[k], k)]
           aliases == [k \in DOMAIN c.tag_aliases |-> pair(c.tag_aliases[k], k)]
           mimes   == [k \in OwnMimes(c) |-> c.mimes[k]]
           version == IF "swish_version" \in DOMAIN c.misc THEN << >> ELSE pair("swish_version", "3")
<1>1. ASSUME NEW key, NEW val PROVE WellFormed(pair(key, val))
  BY NodesWritten
<1>2. ASSUME NEW hash, IsFiniteSet(DOMAIN hash) PROVE WellFormed(Entries(table(hash)))
  <2>1. DOMAIN table(hash) = DOMAIN hash /\ \A k \in DOMAIN hash : WellFormed(table(hash)[k])
    BY <1>1
  <2> HIDE DEF table
  <2> QED BY <1>2, <2>1, EntriesWellFormed
<1>3. WellFormed(Entries(metas))
  <2>1. IsFiniteSet(DOMAIN metas) /\ \A k \in DOMAIN metas : WellFormed(metas[k])
    BY NodesWritten, WritableFields
  <2> HIDE DEF metas
  <2> QED BY <2>1, EntriesWellFormed
<1>4. WellFormed(Entries(props))
  <2>1. IsFiniteSet(DOMAIN props) /\ \A k \in DOMAIN props : WellFormed(props[k])
    BY NodesWritten, WritableFields
  <2> HIDE DEF props
  <2> QED BY <2>1, EntriesWellFormed
<1>5. WellFormed(Entries(parsers))
  <2>1. IsFiniteSet(DOMAIN parsers) /\ \A k \in DOMAIN parsers : WellFormed(parsers[k])
    BY NodesWritten, WritableFields
  <2> HIDE DEF parsers
  <2> QED BY <2>1, EntriesWellFormed
<1>6. WellFormed(Entries(aliases))
  <2>1. IsFiniteSet(DOMAIN aliases) /\ \A k \in DOMAIN aliases : WellFormed(aliases[k])
    BY NodesWritten, WritableFields
  <2> HIDE DEF aliases
  <2> QED BY <2>1, EntriesWellFormed
<1>7. WellFormed(Entries(table(mimes)))
  <2>1. OwnMimes(c) \subseteq DOMAIN c.mimes /\ IsFiniteSet(DOMAIN c.mimes)
    BY WritableFields DEF OwnMimes
  <2>2. DOMAIN mimes = OwnMimes(c)
    OBVIOUS
  <2>3. IsFiniteSet(OwnMimes(c))
    BY <2>1, FS_Subset
  <2> HIDE DEF mimes, table
  <2> QED BY <1>2, <2>2, <2>3
<1>8. WellFormed(Entries(table(c.index))) /\ WellFormed(Entries(table(c.misc)))
  <2>1. IsFiniteSet(DOMAIN c.index) /\ IsFiniteSet(DOMAIN c.misc)
    BY WritableFields
  <2> HIDE DEF table
  <2> QED BY <1>2, <2>1
<1>9. WellFormed(version)
  BY <1>1, EmptyNodes
<1>10. HeaderOf(c) =
         <<Start(Root)>> \o version
         \o Section("MetaNames", Entries(metas)) \o Section("PropertyNames", Entries(props))
         \o Section("Parsers", Entries(parsers)) \o Section("MIME", Entries(table(mimes)))
         \o Section("Index", Entries(table(c.index))) \o Section("TagAlias", Entries(aliases))
         \o Entries(table(c.misc))
         \o <<End(Root)>>
  BY DEF HeaderOf
<1> HIDE DEF version, metas, props, parsers, aliases, mimes, table
<1>11. WellFormed(<<Start(Root)>>) /\ WellFormed(<<End(Root)>>)
  BY NodesWritten
<1>12. /\ WellFormed(Section("MetaNames", Entries(metas)))
       /\ WellFormed(Section("PropertyNames", Entries(props)))
       /\ WellFormed(Section("Parsers", Entries(parsers)))
       /\ WellFormed(Section("MIME", Entries(table(mimes))))
       /\ WellFormed(Section("Index", Entries(table(c.index))))
       /\ WellFormed(Section("TagAlias", Entries(aliases)))
  BY <1>3, <1>4, <1>5, <1>6, <1>7, <1>8, SectionWellFormed
<1>13. WellFormed(<<Start(Root)>> \o version)
  BY <1>9, <1>11, Concatenated
<1> DEFINE s1 == <<Start(Root)>> \o version \o Section("MetaNames", Entries(metas))
           s2 == s1 \o Section("PropertyNames", Entries(props))
           s3 == s2 \o Section("Parsers", Entries(parsers))
           s4 == s3 \o Section("MIME", Entries(table(mimes)))
           s5 == s4 \o Section("Index", Entries(table(c.index)))
           s6 == s5 \o Section("TagAlias", Entries(aliases))
           s7 == s6 \o Entries(table(c.misc))
<1>14. WellFormed(s1)
  BY <1>12, <1>13, Concatenated
<1>15. WellFormed(s2)
  <2> HIDE DEF s1
  <2> QED BY <1>12, <1>14, Concatenated
<1>16. WellFormed(s3)
  <2> HIDE DEF s2
  <2> QED BY <1>12, <1>15, Concatenated
<1>17. WellFormed(s4)
  <2> HIDE DEF s3
  <2> QED BY <1>12, <1>16, Concatenated
<1>18. WellFormed(s5)
  <2> HIDE DEF s4
  <2> QED BY <1>12, <1>17, Concatenated
<1>19. WellFormed(s6)
  <2> HIDE DEF s5
  <2> QED BY <1>12, <1>18, Concatenated
<1>20. WellFormed(s7)
  <2> HIDE DEF s6
  <2> QED BY <1>8, <1>19, Concatenated
<1>21. HeaderOf(c) = s7 \o <<End(Root)>>
  BY <1>10
<1> HIDE DEF s7
<1> QED BY <1>11, <1>20, <1>21, Concatenated

-----------------------------------------------------------------------------
(* What a document teaches.                                                *)

LEMMA MetaNameNewWritable ==
  ASSUME NEW c, NEW n, Writable(c)
  PROVE  Writable(MetaNameNew(c, n))
<1> DEFINE id == c.max_meta_id + 1
           d  == MetaNameNew(c, n)
           new == [NewMetaName EXCEPT !.id = id]
<1>1. DOMAIN c = ConfigFields /\ NamesOK(c) /\ IsFiniteSet(DOMAIN c.metanames)
      /\ IsFiniteSet(DOMAIN c.properties)
  BY WritableFields
<1>2. /\ DOMAIN d = ConfigFields /\ d.flags = c.flags /\ d.misc = c.misc
      /\ d.parsers = c.parsers /\ d.mimes = c.mimes /\ d.index = c.index
      /\ d.tag_aliases = c.tag_aliases /\ d.properties = c.properties
      /\ d.metanames = Put(c.metanames, n, new) /\ d.meta_ids = Put(c.meta_ids, id, n)
  BY <1>1 DEF MetaNameNew, ConfigFields
<1>3. DOMAIN new = DOMAIN NewMetaName
  BY Fields
<1> HIDE DEF d, new, id
<1>4. IsFiniteSet(DOMAIN d.metanames)
  <2>1. IsFiniteSet(DOMAIN Put(c.metanames, n, new))
    BY <1>1, PutFinite
  <2> QED BY <1>2, <2>1
<1>5. NamesOK(d)
  BY <1>1, <1>2, <1>3 DEF NamesOK, Put
<1>6. Writable(d)
  BY <1>1, <1>2, <1>4, <1>5, NamesSet
<1> QED BY <1>6 DEF d

LEMMA PropertyNewWritable ==
  ASSUME NEW c, NEW n, Writable(c)
  PROVE  Writable(PropertyNew(c, n))
<1> DEFINE id == c.max_prop_id + 1
           d  == PropertyNew(c, n)
           new == [NewProperty EXCEPT !.id = id]
<1>1. DOMAIN c = ConfigFields /\ NamesOK(c) /\ IsFiniteSet(DOMAIN c.metanames)
      /\ IsFiniteSet(DOMAIN c.properties)
  BY WritableFields
<1>2. /\ DOMAIN d = ConfigFields /\ d.flags = c.flags /\ d.misc = c.misc
      /\ d.parsers = c.parsers /\ d.mimes = c.mimes /\ d.index = c.index
      /\ d.tag_aliases = c.tag_aliases /\ d.metanames = c.metanames
      /\ d.properties = Put(c.properties, n, new) /\ d.meta_ids = c.meta_ids
  BY <1>1 DEF PropertyNew, ConfigFields
<1>3. DOMAIN new = DOMAIN NewProperty
  BY Fields
<1> HIDE DEF d, new, id
<1>4. IsFiniteSet(DOMAIN d.properties)
  <2>1. IsFiniteSet(DOMAIN Put(c.properties, n, new))
    BY <1>1, PutFinite
  <2> QED BY <1>2, <2>1
<1>5. NamesOK(d)
  BY <1>1, <1>2, <1>3 DEF NamesOK, Put
<1>6. Writable(d)
  BY <1>1, <1>2, <1>4, <1>5, NamesSet
<1> QED BY <1>6 DEF d

WritableSoFar(p, n, c) == Writable(c)
W == INSTANCE FoldProofs WITH Op <- LearnTag, Inv <- WritableSoFar

LEMMA LearnWritable ==
  ASSUME NEW c, NEW doc, Writable(c), IsSequence(doc.words)
  PROVE  Writable(Learn(c, doc))
<1>1. PICK k \in Nat : DOMAIN doc.words = 1..k
  BY SequenceLen
<1>2. WritableSoFar(0, 0, c)
  BY DEF WritableSoFar
<1>3. ASSUME NEW i \in 1..k, NEW s, WritableSoFar(0, i - 1, s)
      PROVE  WritableSoFar(0, i, LearnTag(s, doc.words[i]))
  <2> DEFINE tag == doc.words[i][1]
             m   == MetaNameNew(s, tag)
  <2>1. Writable(s)
    BY <1>3 DEF WritableSoFar
  <2>2. Writable(m)
    BY <2>1, MetaNameNewWritable
  <2>3. LearnTag(s, doc.words[i]) \in {s, m, PropertyNew(m, tag)}
    BY DEF LearnTag
  <2> HIDE DEF m
  <2>4. Writable(PropertyNew(m, tag))
    BY <2>2, PropertyNewWritable
  <2> QED BY <2>1, <2>2, <2>3, <2>4 DEF WritableSoFar
<1>4. WritableSoFar(0, k, W!Folded(c, doc.words))
  <2> HIDE DEF WritableSoFar
  <2> QED BY <1>1, <1>2, <1>3, W!FoldInduction
<1>5. Learn(c, doc) = W!Folded(c, doc.words)
  BY DEF Learn, W!Folded, FoldLeft, MapThenFoldSet, W!FoldLeft, W!MapThenFoldSet, Max, W!Max
<1> QED BY <1>4, <1>5 DEF WritableSoFar

-----------------------------------------------------------------------------
(* The readers.                                                            *)

ReaderFields == {"left", "section", "parent_name", "is_valid", "meta_id", "prop_id", "config"}

ReaderGood(h) ==
  /\ DOMAIN h = ReaderFields /\ h.section \in Sections \cup {None} /\ h.is_valid \in BOOLEAN
  /\ h.meta_id \in Nat /\ h.meta_id >= MetaLastId /\ h.prop_id \in Nat /\ h.prop_id >= PropLastId
  /\ Writable(h.config) /\ WellFormed(h.left)

ReadersInv ==
  /\ IsSequence(readers) /\ Depth <= MaxOpen
  /\ \A i \in DOMAIN readers : ReaderGood(readers[i])

LEMMA ReaderGoodOK == ASSUME NEW h, ReaderGood(h) PROVE ReaderOK(h)
<1>1. DOMAIN NewReader(<< >>, TRUE) = ReaderFields
  BY DEF NewReader, ReaderOf, ReaderFields
<1>2. \A i \in DOMAIN h.config.meta_ids : h.config.meta_ids[i] \in DOMAIN h.config.metanames
  BY WritableFields DEF ReaderGood, NamesOK
<1> QED BY <1>1, <1>2 DEF ReaderGood, ReaderOK

LEMMA NewReaderGood ==
  ASSUME NEW nodes, NEW v \in BOOLEAN, WellFormed(nodes)
  PROVE  ReaderGood(NewReader(nodes, v))
<1>1. MetaLastId \in Nat /\ PropLastId \in Nat
  BY DEF MetaLastId, PropLastId
<1> QED
  BY <1>1, ConfigInitWritable DEF NewReader, ReaderOf, ReaderGood, ReaderFields, MetaLastId, PropLastId

\* The readers, with one more or another one last.
LEMMA MoreReaders ==
  ASSUME NEW rs, NEW h, IsSequence(rs), ReaderGood(h),
         \A i \in DOMAIN rs : ReaderGood(rs[i])
  PROVE  /\ IsSequence(Append(rs, h)) /\ Len(Append(rs, h)) = Len(rs) + 1
         /\ \A i \in DOMAIN Append(rs, h) : ReaderGood(Append(rs, h)[i])
<1> DEFINE S == {rs[i] : i \in DOMAIN rs} \cup {h}
           t == Append(rs, h)
<1>1. rs \in Seq(S)
  BY SeqInto DEF IsSequence
<1>2. \A x \in S : ReaderGood(x)
  OBVIOUS
<1> HIDE DEF S
<1>3. t \in Seq(S) /\ Len(t) = Len(rs) + 1
  BY <1>1, <1>2 DEF S
<1> HIDE DEF t
<1>4. \A i \in DOMAIN t : t[i] \in S
  BY <1>3
<1>5. IsSequence(t)
  BY <1>3, Sequence
<1> QED BY <1>2, <1>3, <1>4, <1>5 DEF t

LEMMA OneReader ==
  ASSUME NEW h, NEW rs, IsSequence(readers), \A i \in DOMAIN readers : ReaderGood(readers[i]),
         ReaderGood(h), readers # << >>, rs = [readers EXCEPT ![Depth] = h]
  PROVE  /\ IsSequence(rs) /\ Len(rs) = Depth /\ \A i \in DOMAIN rs : ReaderGood(rs[i])
<1> DEFINE S == {readers[i] : i \in DOMAIN readers} \cup {h}
<1>1. readers \in Seq(S)
  BY SeqInto DEF IsSequence
<1>2. \A x \in S : ReaderGood(x)
  OBVIOUS
<1>3. h \in S
  OBVIOUS
<1> HIDE DEF S
<1>4. rs \in Seq(S) /\ Len(rs) = Depth
  BY <1>1, <1>3 DEF Depth
<1>5. \A i \in DOMAIN rs : rs[i] \in S
  BY <1>4
<1> QED BY <1>2, <1>4, <1>5, Sequence

LEMMA TopGood ==
  ASSUME ReadersInv, readers # << >>
  PROVE  ReaderGood(Top) /\ Depth \in Nat /\ Depth >= 1
<1>1. Len(readers) \in Nat /\ DOMAIN readers = 1..Len(readers)
  BY SequenceLen DEF ReadersInv
<1>2. Len(readers) # 0
  <2> DEFINE S == {readers[i] : i \in DOMAIN readers}
  <2>1. readers \in Seq(S)
    BY DEF ReadersInv, IsSequence
  <2> HIDE DEF S
  <2> QED BY <2>1
<1>3. Len(readers) \in DOMAIN readers
  BY <1>1, <1>2
<1> QED BY <1>1, <1>2, <1>3 DEF ReadersInv, Top, Depth

LEMMA PassGood ==
  ASSUME NEW h, NEW n \in Nat, ReaderGood(h)
  PROVE  ReaderGood(Pass(h, n))
<1>1. /\ DOMAIN Pass(h, n) = ReaderFields
      /\ Pass(h, n).left = SubSeq(h.left, n + 1, Len(h.left))
      /\ \A f \in ReaderFields \ {"left"} : Pass(h, n)[f] = h[f]
  BY DEF Pass, ReaderGood, ReaderFields
<1>2. WellFormed(SubSeq(h.left, n + 1, Len(h.left)))
  BY Rest DEF ReaderGood
<1> HIDE DEF Pass
<1>3. /\ Pass(h, n).section = h.section /\ Pass(h, n).is_valid = h.is_valid
      /\ Pass(h, n).meta_id = h.meta_id /\ Pass(h, n).prop_id = h.prop_id
      /\ Pass(h, n).config = h.config
  BY <1>1 DEF ReaderFields
<1> QED BY <1>1, <1>2, <1>3 DEF ReaderGood

LEMMA ReadOnGood ==
  ASSUME NEW h, NEW n \in Nat, ReadersInv, Reading, ReaderGood(h), ReadOn(h, n)
  PROVE  ReadersInv'
<1>1. ReaderGood(Pass(h, n))
  BY PassGood
<1>2. readers' = [readers EXCEPT ![Depth] = Pass(h, n)] /\ readers # << >>
  BY DEF ReadOn, Reading
<1>3. /\ IsSequence(readers') /\ Len(readers') = Depth
      /\ \A i \in DOMAIN readers' : ReaderGood(readers'[i])
  BY <1>1, <1>2, OneReader DEF ReadersInv
<1>4. Depth' = Depth
  BY <1>3 DEF Depth
<1> QED BY <1>3, <1>4 DEF ReadersInv

LEMMA ProceedGood ==
  ASSUME NEW ok, NEW h, NEW n \in Nat, ReadersInv, Reading, ok => ReaderGood(h),
         Proceed(ok, h, n)
  PROVE  ReadersInv'
<1>1. CASE ok
  <2>1. ReadOn(h, n) /\ ReaderGood(h)
    BY <1>1 DEF Proceed
  <2> QED BY <2>1, ReadOnGood
<1>2. CASE ~ok
  BY <1>2 DEF Proceed, Refuse, ReadersInv, Depth
<1> QED BY <1>1, <1>2

LEMMA ReaderWith ==
  ASSUME NEW h, NEW g, NEW c, ReaderGood(h), Writable(c), DOMAIN g = ReaderFields,
         g.left = h.left, g.section = h.section, g.is_valid = h.is_valid,
         g.config = c, g.meta_id \in Nat, g.meta_id >= MetaLastId,
         g.prop_id \in Nat, g.prop_id >= PropLastId
  PROVE  ReaderGood(g)
BY DEF ReaderGood

-----------------------------------------------------------------------------
(* What is read keeps a configuration a configuration.                     *)

\* A reader in the middle of its file.
LEMMA BodyGood ==
  ASSUME ReadersInv, InBody
  PROVE  /\ Reading /\ ReaderGood(Top) /\ WellFormed(Top.left) /\ Writable(Top.config)
         /\ DOMAIN Top = ReaderFields /\ DOMAIN Top.config = ConfigFields
         /\ IsSequence(Here.words)
<1>1. Reading /\ readers # << >> /\ Top.left # << >>
  BY DEF InBody, Spoken, InFile, Reading
<1>2. ReaderGood(Top)
  BY <1>1, TopGood
<1>3. WellFormed(Top.left) /\ Writable(Top.config) /\ DOMAIN Top = ReaderFields
  BY <1>2 DEF ReaderGood
<1>4. IsSequence(Here.words)
  <2> DEFINE S == {Top.left[i] : i \in DOMAIN Top.left}
             left == Top.left
  <2>1. left \in Seq(S) /\ left # << >>
    BY <1>1, <1>3 DEF WellFormed, IsSequence
  <2> HIDE DEF left, S
  <2>2. 1 \in DOMAIN left
    BY <2>1
  <2>3. Here = left[1] /\ IsSequence(left[1].words)
    BY <1>3, <2>2 DEF Here, left, WellFormed
  <2> QED BY <2>3
<1> QED BY <1>1, <1>2, <1>3, <1>4, WritableFields

LEMMA ResetGood ==
  ASSUME NEW section \in Sections \cup {None}, ReaderGood(Top)
  PROVE  ReaderGood(ResetTo(section))
<1> DEFINE h == Top
           g == ResetTo(section)
<1>1. /\ DOMAIN g = ReaderFields /\ g.section = section /\ g.is_valid = h.is_valid
      /\ g.meta_id = h.meta_id /\ g.prop_id = h.prop_id /\ g.config = h.config /\ g.left = h.left
  BY DEF ResetTo, ReaderGood, ReaderFields
<1> HIDE DEF g, h
<1>2. ReaderGood(g)
  BY <1>1 DEF ReaderGood, h
<1> QED BY <1>2 DEF g

LEMMA RootGood ==
  ASSUME ReadersInv, ReadRoot
  PROVE  ReadersInv'
<1> DEFINE h == Top
           g == [Top EXCEPT !.is_valid = TRUE]
<1>1. Reading /\ readers # << >> /\ ReadOn(g, 1)
  BY DEF ReadRoot, InFile, Reading
<1>2. ReaderGood(h)
  BY <1>1, TopGood
<1>3. /\ DOMAIN g = ReaderFields /\ g.section = h.section /\ g.is_valid = TRUE
      /\ g.meta_id = h.meta_id /\ g.prop_id = h.prop_id /\ g.config = h.config /\ g.left = h.left
  BY <1>2 DEF ReaderGood, ReaderFields
<1> HIDE DEF g, h
<1>4. ReaderGood(g)
  BY <1>2, <1>3 DEF ReaderGood
<1> QED BY <1>1, <1>4, ReadOnGood

LEMMA SectionGood ==
  ASSUME ReadersInv, ReadSectionStart \/ ReadSectionEnd
  PROVE  ReadersInv'
<1>1. InBody
  BY DEF ReadSectionStart, ReadSectionEnd
<1>2. Reading /\ ReaderGood(Top)
  BY <1>1, BodyGood
<1>3. PICK section \in Sections \cup {None} : ReadOn(ResetTo(section), 1)
  BY DEF ReadSectionStart, ReadSectionEnd
<1>4. ReaderGood(ResetTo(section))
  BY <1>2, ResetGood
<1> QED BY <1>2, <1>3, <1>4, ReadOnGood

\* A file is opened only where there is room for it.
LEMMA IncludeGood ==
  ASSUME ReadersInv, ReadInclude
  PROVE  ReadersInv'
<1>1. InBody
  BY DEF ReadInclude
<1>2. Reading /\ ReaderGood(Top) /\ readers # << >>
  BY <1>1, BodyGood DEF Reading
<1>3. CASE Refuse
  BY <1>3 DEF Refuse, ReadersInv, Depth
<1>4. CASE ~Refuse
  <2> DEFINE rs == [readers EXCEPT ![Depth] = Pass(Top, 2)]
  <2>1. PICK v \in BOOLEAN : readers' = Append(rs, NewReader(ConfFiles[Value], v))
    BY <1>4 DEF ReadInclude
  <2>2. Value \in DOMAIN ConfFiles /\ Depth < MaxOpen
    BY <1>4 DEF ReadInclude
  <2>3. WellFormed(ConfFiles[Value])
    BY <2>2, FilesAssumption DEF WellFormed
  <2>4. ReaderGood(NewReader(ConfFiles[Value], v))
    BY <2>3, NewReaderGood
  <2>5. ReaderGood(Pass(Top, 2))
    BY <1>2, PassGood
  <2>6. PICK seq : seq = rs
    OBVIOUS
  <2>7. IsSequence(seq) /\ Len(seq) = Depth /\ \A i \in DOMAIN seq : ReaderGood(seq[i])
    BY <1>2, <2>5, <2>6, OneReader DEF ReadersInv
  <2>8. PICK new : new = NewReader(ConfFiles[Value], v)
    OBVIOUS
  <2> HIDE DEF rs
  <2>9. readers' = Append(seq, new) /\ ReaderGood(new)
    BY <2>1, <2>4, <2>6, <2>8
  <2>10. /\ IsSequence(readers') /\ Len(readers') = Len(seq) + 1
         /\ \A i \in DOMAIN readers' : ReaderGood(readers'[i])
    BY <2>7, <2>9, MoreReaders
  <2>11. Len(readers') <= MaxOpen
    <3>1. Depth \in Nat /\ MaxOpen \in Nat
      BY <1>2, TopGood, FilesAssumption
    <3> QED BY <2>2, <2>7, <2>10, <3>1
  <2> QED BY <2>10, <2>11 DEF ReadersInv, Depth
<1> QED BY <1>3, <1>4

LEMMA RefuseGood ==
  ASSUME ReadersInv, UNCHANGED readers
  PROVE  ReadersInv'
BY DEF ReadersInv, Depth

\* read_metaname
LEMMA MetaNameGood ==
  ASSUME ReadersInv, ReadMetaName
  PROVE  ReadersInv'
<1> DEFINE name == ToLower(Here.name)
           meta == [id |-> Attr("id", Top.meta_id), bias |-> Attr("bias", 0),
                    alias_for |-> ToLower(Attr("alias_for", None))]
           h    == IdsAfter(Top, "meta_ids")
           g    == [h EXCEPT !.config.metanames = IF name \in DOMAIN @ THEN @ ELSE Put(@, name, meta),
                             !.parent_name = Here.name]
           ok   == DOMAIN Here.attrs \subseteq {"id", "bias", "alias_for"} /\ ~IdTaken("meta_ids")
           c    == Top.config
           d    == g.config
<1>1. InBody /\ Proceed(ok, g, 1)
  BY DEF ReadMetaName, In
<1>2. Reading /\ ReaderGood(Top) /\ DOMAIN Top = ReaderFields /\ Writable(c) /\ DOMAIN c = ConfigFields
  BY <1>1, BodyGood
<1>3. /\ DOMAIN h = ReaderFields /\ DOMAIN h.config = ConfigFields
      /\ h.left = Top.left /\ h.section = Top.section /\ h.is_valid = Top.is_valid
      /\ h.meta_id \in {Top.meta_id, Top.meta_id + 1} /\ h.prop_id = Top.prop_id
  BY <1>2 DEF IdsAfter, ReaderFields, ConfigFields
<1>4. /\ h.config.flags = c.flags /\ h.config.misc = c.misc
      /\ h.config.parsers = c.parsers /\ h.config.mimes = c.mimes /\ h.config.index = c.index
      /\ h.config.tag_aliases = c.tag_aliases /\ h.config.properties = c.properties
      /\ h.config.metanames = c.metanames
      /\ \/ h.config.meta_ids = c.meta_ids
         \/ h.config.meta_ids = Put(c.meta_ids, Here.attrs.id, name)
  BY <1>2 DEF IdsAfter, ReaderFields, ConfigFields
<1> HIDE DEF h
<1>5. /\ DOMAIN g = ReaderFields /\ DOMAIN d = ConfigFields
      /\ g.left = Top.left /\ g.section = Top.section /\ g.is_valid = Top.is_valid
      /\ g.meta_id \in {Top.meta_id, Top.meta_id + 1} /\ g.prop_id = Top.prop_id
  BY <1>3 DEF ReaderFields, ConfigFields
<1>6. /\ d.flags = c.flags /\ d.misc = c.misc
      /\ d.parsers = c.parsers /\ d.mimes = c.mimes /\ d.index = c.index
      /\ d.tag_aliases = c.tag_aliases /\ d.properties = c.properties
      /\ d.meta_ids = h.config.meta_ids
      /\ d.metanames = IF name \in DOMAIN c.metanames THEN c.metanames ELSE Put(c.metanames, name, meta)
  BY <1>3, <1>4 DEF ReaderFields, ConfigFields
<1>7. DOMAIN meta = DOMAIN NewMetaName
  BY Fields
<1> HIDE DEF g, meta
<1>8. /\ NamesOK(c) /\ IsFiniteSet(DOMAIN c.metanames) /\ IsFiniteSet(DOMAIN c.properties)
  BY <1>2, WritableFields
<1>9. DOMAIN d.metanames = DOMAIN c.metanames \cup {name}
  BY <1>6 DEF Put
<1>10. IsFiniteSet(DOMAIN d.metanames)
  BY <1>8, <1>9, FS_AddElement
<1>11. NamesOK(d)
  <2>1. \A n \in DOMAIN d.metanames : DOMAIN d.metanames[n] = DOMAIN NewMetaName
    BY <1>6, <1>7, <1>8 DEF NamesOK, Put
  <2>2. \A i \in DOMAIN d.meta_ids : d.meta_ids[i] \in DOMAIN d.metanames
    BY <1>4, <1>6, <1>8, <1>9 DEF NamesOK, Put
  <2> QED BY <1>6, <1>8, <2>1, <2>2 DEF NamesOK
<1> HIDE DEF c
<1>12. Writable(d)
  BY <1>2, <1>5, <1>6, <1>8, <1>10, <1>11, NamesSet
<1>13. /\ g.meta_id \in Nat /\ g.meta_id >= MetaLastId
       /\ g.prop_id \in Nat /\ g.prop_id >= PropLastId
  BY <1>2, <1>5 DEF ReaderGood, MetaLastId, PropLastId
<1>14. ReaderGood(g)
  BY <1>2, <1>5, <1>12, <1>13, ReaderWith
<1> HIDE DEF ok
<1> QED BY <1>1, <1>2, <1>14, ProceedGood

\* read_property
LEMMA PropertyGood ==
  ASSUME ReadersInv, ReadProperty
  PROVE  ReadersInv'
<1> DEFINE name == ToLower(Here.name)
           prop == [id |-> Attr("id", Top.prop_id), type |-> Attr("type", NewProperty.type),
                    presort |-> Attr("presort", NewProperty.presort),
                    alias_for |-> ToLower(Attr("alias_for", None))]
           h    == IdsAfter(Top, "prop_ids")
           g    == [h EXCEPT !.config.properties = Put(@, name, prop), !.parent_name = Here.name]
           ok   == /\ DOMAIN Here.attrs \subseteq DOMAIN NewProperty /\ ~IdTaken("prop_ids")
                   /\ name \notin DOMAIN Top.config.properties
           c    == Top.config
           d    == g.config
<1>1. InBody /\ Proceed(ok, g, 1)
  BY DEF ReadProperty, In
<1>2. Reading /\ ReaderGood(Top) /\ DOMAIN Top = ReaderFields /\ Writable(c) /\ DOMAIN c = ConfigFields
  BY <1>1, BodyGood
<1>3. /\ DOMAIN h = ReaderFields /\ DOMAIN h.config = ConfigFields
      /\ h.left = Top.left /\ h.section = Top.section /\ h.is_valid = Top.is_valid
      /\ h.prop_id \in {Top.prop_id, Top.prop_id + 1} /\ h.meta_id = Top.meta_id
  BY <1>2 DEF IdsAfter, ReaderFields, ConfigFields
<1>4. /\ h.config.flags = c.flags /\ h.config.misc = c.misc
      /\ h.config.parsers = c.parsers /\ h.config.mimes = c.mimes /\ h.config.index = c.index
      /\ h.config.tag_aliases = c.tag_aliases /\ h.config.properties = c.properties
      /\ h.config.metanames = c.metanames /\ h.config.meta_ids = c.meta_ids
  BY <1>2 DEF IdsAfter, ReaderFields, ConfigFields
<1> HIDE DEF h
<1>5. /\ DOMAIN g = ReaderFields /\ DOMAIN d = ConfigFields
      /\ g.left = Top.left /\ g.section = Top.section /\ g.is_valid = Top.is_valid
      /\ g.prop_id \in {Top.prop_id, Top.prop_id + 1} /\ g.meta_id = Top.meta_id
  BY <1>3 DEF ReaderFields, ConfigFields
<1>6. /\ d.flags = c.flags /\ d.misc = c.misc
      /\ d.parsers = c.parsers /\ d.mimes = c.mimes /\ d.index = c.index
      /\ d.tag_aliases = c.tag_aliases /\ d.metanames = c.metanames
      /\ d.meta_ids = c.meta_ids /\ d.properties = Put(c.properties, name, prop)
  BY <1>3, <1>4 DEF ReaderFields, ConfigFields
<1>7. DOMAIN prop = DOMAIN NewProperty
  BY Fields
<1> HIDE DEF g, prop
<1>8. /\ NamesOK(c) /\ IsFiniteSet(DOMAIN c.metanames) /\ IsFiniteSet(DOMAIN c.properties)
  BY <1>2, WritableFields
<1>9. IsFiniteSet(DOMAIN d.properties)
  <2>1. IsFiniteSet(DOMAIN Put(c.properties, name, prop))
    BY <1>8, PutFinite
  <2> QED BY <1>6, <2>1
<1>10. NamesOK(d)
  BY <1>6, <1>7, <1>8 DEF NamesOK, Put
<1> HIDE DEF c
<1>11. Writable(d)
  BY <1>2, <1>5, <1>6, <1>8, <1>9, <1>10, NamesSet
<1>12. /\ g.meta_id \in Nat /\ g.meta_id >= MetaLastId
       /\ g.prop_id \in Nat /\ g.prop_id >= PropLastId
  BY <1>2, <1>5 DEF ReaderGood, MetaLastId, PropLastId
<1>13. ReaderGood(g)
  BY <1>2, <1>5, <1>11, <1>12, ReaderWith
<1> HIDE DEF ok
<1> QED BY <1>1, <1>2, <1>13, ProceedGood

\* Names that stand for another one: read_metaname_aliases.
LEMMA AddMetaAliasGood ==
  ASSUME NEW h, NEW word, ReaderGood(h)
  PROVE  ReaderGood(AddMetaAlias(h, word))
<1> DEFINE name == ToLower(word)
           alias == ToLower(h.parent_name)
           new  == [NewMetaName EXCEPT !.id = h.meta_id, !.alias_for = alias]
           g    == AddMetaAlias(h, word)
           c    == h.config
           d    == g.config
           old  == [c.metanames EXCEPT ![name].alias_for = alias]
<1>1. DOMAIN h = ReaderFields /\ Writable(c)
  BY DEF ReaderGood
<1>2. DOMAIN c = ConfigFields /\ NamesOK(c) /\ IsFiniteSet(DOMAIN c.metanames)
      /\ IsFiniteSet(DOMAIN c.properties)
  BY <1>1, WritableFields
<1>3. /\ DOMAIN g = ReaderFields /\ DOMAIN d = ConfigFields
      /\ g.left = h.left /\ g.section = h.section /\ g.is_valid = h.is_valid
      /\ g.meta_id \in {h.meta_id, h.meta_id + 1} /\ g.prop_id = h.prop_id
  BY <1>1, <1>2 DEF AddMetaAlias, ReaderFields, ConfigFields
<1>4. /\ d.flags = c.flags /\ d.misc = c.misc
      /\ d.parsers = c.parsers /\ d.mimes = c.mimes /\ d.index = c.index
      /\ d.tag_aliases = c.tag_aliases /\ d.properties = c.properties
      /\ d.meta_ids = c.meta_ids
      /\ d.metanames = IF name \in DOMAIN c.metanames THEN old ELSE Put(c.metanames, name, new)
  BY <1>1, <1>2 DEF AddMetaAlias, ReaderFields, ConfigFields
<1>5. DOMAIN new = DOMAIN NewMetaName /\ DOMAIN old = DOMAIN c.metanames
      /\ \A n \in DOMAIN c.metanames : DOMAIN old[n] = DOMAIN c.metanames[n]
  BY Fields
<1> HIDE DEF g, new, old
<1>6. DOMAIN d.metanames = DOMAIN c.metanames \cup {name}
  BY <1>4, <1>5 DEF Put
<1>7. IsFiniteSet(DOMAIN d.metanames)
  BY <1>2, <1>6, FS_AddElement
<1>8. NamesOK(d)
  <2>1. \A n \in DOMAIN d.metanames : DOMAIN d.metanames[n] = DOMAIN NewMetaName
    BY <1>2, <1>4, <1>5 DEF NamesOK, Put
  <2> QED BY <1>2, <1>4, <1>6, <2>1 DEF NamesOK
<1> HIDE DEF c
<1>9. Writable(d)
  BY <1>1, <1>2, <1>3, <1>4, <1>7, <1>8, NamesSet
<1>10. /\ g.meta_id \in Nat /\ g.meta_id >= MetaLastId
       /\ g.prop_id \in Nat /\ g.prop_id >= PropLastId
  BY <1>3 DEF ReaderGood, MetaLastId, PropLastId
<1>11. ReaderGood(g)
  BY <1>3, <1>9, <1>10, ReaderWith
<1> QED BY <1>11 DEF g

\* read_property_aliases
LEMMA AddPropertyAliasGood ==
  ASSUME NEW h, NEW word, ReaderGood(h)
  PROVE  ReaderGood(AddPropertyAlias(h, word))
<1> DEFINE name == ToLower(word)
           new  == [NewProperty EXCEPT !.id = h.prop_id, !.alias_for = ToLower(h.parent_name)]
           g    == AddPropertyAlias(h, word)
           c    == h.config
           d    == g.config
<1>1. DOMAIN h = ReaderFields /\ Writable(c)
  BY DEF ReaderGood
<1>2. DOMAIN c = ConfigFields /\ NamesOK(c) /\ IsFiniteSet(DOMAIN c.metanames)
      /\ IsFiniteSet(DOMAIN c.properties)
  BY <1>1, WritableFields
<1>3. /\ DOMAIN g = ReaderFields /\ DOMAIN d = ConfigFields
      /\ g.left = h.left /\ g.section = h.section /\ g.is_valid = h.is_valid
      /\ g.meta_id = h.meta_id /\ g.prop_id = h.prop_id + 1
  BY <1>1, <1>2 DEF AddPropertyAlias, ReaderFields, ConfigFields
<1>4. /\ d.flags = c.flags /\ d.misc = c.misc
      /\ d.parsers = c.parsers /\ d.mimes = c.mimes /\ d.index = c.index
      /\ d.tag_aliases = c.tag_aliases /\ d.metanames = c.metanames
      /\ d.meta_ids = c.meta_ids /\ d.properties = Put(c.properties, name, new)
  BY <1>1, <1>2 DEF AddPropertyAlias, ReaderFields, ConfigFields
<1>5. DOMAIN new = DOMAIN NewProperty
  BY Fields
<1> HIDE DEF g, new
<1>6. IsFiniteSet(DOMAIN d.properties)
  <2>1. IsFiniteSet(DOMAIN Put(c.properties, name, new))
    BY <1>2, PutFinite
  <2> QED BY <1>4, <2>1
<1>7. NamesOK(d)
  BY <1>2, <1>4, <1>5 DEF NamesOK, Put
<1> HIDE DEF c
<1>8. Writable(d)
  BY <1>1, <1>2, <1>3, <1>4, <1>6, <1>7, NamesSet
<1>9. /\ g.meta_id \in Nat /\ g.meta_id >= MetaLastId
      /\ g.prop_id \in Nat /\ g.prop_id >= PropLastId
  BY <1>3 DEF ReaderGood, MetaLastId, PropLastId
<1>10. ReaderGood(g)
  BY <1>3, <1>8, <1>9, ReaderWith
<1> QED BY <1>10 DEF g

GoodSoFar(p, n, h) == ReaderGood(h)
MetaAliases     == INSTANCE FoldProofs WITH Op <- AddMetaAlias, Inv <- GoodSoFar
PropertyAliases == INSTANCE FoldProofs WITH Op <- AddPropertyAlias, Inv <- GoodSoFar

LEMMA AliasFoldsGood ==
  ASSUME NEW h, NEW words, NEW n \in Nat, ReaderGood(h)
  PROVE  /\ ReaderGood(FoldLeft(AddMetaAlias, h, SubSeq(words, 1, n)))
         /\ ReaderGood(FoldLeft(AddPropertyAlias, h, SubSeq(words, 1, n)))
<1> DEFINE seq == SubSeq(words, 1, n)
<1>1. DOMAIN seq = 1..n
  OBVIOUS
<1> HIDE DEF seq
<1>2. GoodSoFar(0, 0, h)
  BY DEF GoodSoFar
<1>3. GoodSoFar(0, n, MetaAliases!Folded(h, seq))
  <2>1. ASSUME NEW i \in 1..n, NEW s, GoodSoFar(0, i - 1, s)
        PROVE  GoodSoFar(0, i, AddMetaAlias(s, seq[i]))
    BY <2>1, AddMetaAliasGood DEF GoodSoFar
  <2> HIDE DEF GoodSoFar
  <2> QED BY <1>1, <1>2, <2>1, MetaAliases!FoldInduction
<1>4. GoodSoFar(0, n, PropertyAliases!Folded(h, seq))
  <2>1. ASSUME NEW i \in 1..n, NEW s, GoodSoFar(0, i - 1, s)
        PROVE  GoodSoFar(0, i, AddPropertyAlias(s, seq[i]))
    BY <2>1, AddPropertyAliasGood DEF GoodSoFar
  <2> HIDE DEF GoodSoFar
  <2> QED BY <1>1, <1>2, <2>1, PropertyAliases!FoldInduction
<1>5. FoldLeft(AddMetaAlias, h, seq) = MetaAliases!Folded(h, seq)
  BY DEF MetaAliases!Folded, FoldLeft, MapThenFoldSet, MetaAliases!FoldLeft,
     MetaAliases!MapThenFoldSet, Max, MetaAliases!Max
<1>6. FoldLeft(AddPropertyAlias, h, seq) = PropertyAliases!Folded(h, seq)
  BY DEF PropertyAliases!Folded, FoldLeft, MapThenFoldSet, PropertyAliases!FoldLeft,
     PropertyAliases!MapThenFoldSet, Max, PropertyAliases!Max
<1> QED BY <1>3, <1>4, <1>5, <1>6 DEF GoodSoFar, seq

LEMMA MetaNameAliasesGood ==
  ASSUME ReadersInv, ReadMetaNameAliases
  PROVE  ReadersInv'
<1> DEFINE words == Here.words
           after == [i \in 0..Len(words) |-> FoldLeft(AddMetaAlias, Top, SubSeq(words, 1, i))]
           ok    == /\ Top.parent_name # None
                    /\ \A i \in 1..Len(words) : words[i] \notin DOMAIN after[i - 1].config.metanames
<1>1. InBody /\ Proceed(ok, after[Len(words)], 1)
  BY DEF ReadMetaNameAliases, In
<1>2. Reading /\ ReaderGood(Top) /\ IsSequence(words)
  BY <1>1, BodyGood
<1>3. Len(words) \in Nat
  BY <1>2, SequenceLen
<1>4. after[Len(words)] = FoldLeft(AddMetaAlias, Top, SubSeq(words, 1, Len(words)))
  BY <1>3
<1> HIDE DEF after, ok
<1>5. ReaderGood(after[Len(words)])
  <2> HIDE DEF words
  <2> QED BY <1>2, <1>3, <1>4, AliasFoldsGood
<1> QED BY <1>1, <1>2, <1>5, ProceedGood

LEMMA PropertyAliasesGood ==
  ASSUME ReadersInv, ReadPropertyAliases
  PROVE  ReadersInv'
<1> DEFINE words == Here.words
           after == [i \in 0..Len(words) |-> FoldLeft(AddPropertyAlias, Top, SubSeq(words, 1, i))]
           ok    == /\ Top.parent_name # None
                    /\ \A i \in 1..Len(words) :
                         {words[i], ToLower(words[i])} \cap DOMAIN after[i - 1].config.properties = {}
<1>1. InBody /\ Proceed(ok, after[Len(words)], 1)
  BY DEF ReadPropertyAliases, In
<1>2. Reading /\ ReaderGood(Top) /\ IsSequence(words)
  BY <1>1, BodyGood
<1>3. Len(words) \in Nat
  BY <1>2, SequenceLen
<1>4. after[Len(words)] = FoldLeft(AddPropertyAlias, Top, SubSeq(words, 1, Len(words)))
  BY <1>3
<1> HIDE DEF after, ok
<1>5. ReaderGood(after[Len(words)])
  <2> HIDE DEF words
  <2> QED BY <1>2, <1>3, <1>4, AliasFoldsGood
<1> QED BY <1>1, <1>2, <1>5, ProceedGood

\* One table of the configuration of a reader.
LEMMA TableGood ==
  ASSUME NEW h, NEW f \in {"parsers", "mimes", "index", "tag_aliases"}, NEW hash,
         ReaderGood(h), IsFiniteSet(DOMAIN hash)
  PROVE  ReaderGood([h EXCEPT !.config[f] = hash])
<1> DEFINE g == [h EXCEPT !.config[f] = hash]
           d == [h.config EXCEPT ![f] = hash]
<1>1. DOMAIN h = ReaderFields /\ Writable(h.config)
  BY DEF ReaderGood
<1>2. Writable(d)
  BY <1>1, TableSet
<1>3. /\ DOMAIN g = ReaderFields /\ g.left = h.left /\ g.section = h.section
      /\ g.is_valid = h.is_valid /\ g.meta_id = h.meta_id /\ g.prop_id = h.prop_id
      /\ g.config = d
  BY <1>1 DEF ReaderFields
<1> HIDE DEF g, d
<1>4. ReaderGood(g)
  BY <1>2, <1>3 DEF ReaderGood
<1> QED BY <1>4 DEF g

LEMMA TablesFinite ==
  ASSUME NEW h, ReaderGood(h)
  PROVE  \A f \in {"parsers", "mimes", "index", "tag_aliases"} : IsFiniteSet(DOMAIN h.config[f])
<1>1. Finite(h.config)
  BY DEF ReaderGood, Writable
<1> QED BY <1>1 DEF Finite, Tables

LEMMA KeyValueGood ==
  ASSUME ReadersInv, ReadKeyValue
  PROVE  ReadersInv'
<1>1. PICK section \in DOMAIN KeyValueSections :
        /\ In(section)
        /\ Proceed(HasValue,
             [Top EXCEPT !.config[KeyValueSections[section]] = Put(@, Here.name, Value)], 2)
  BY DEF ReadKeyValue
<1>2. PICK f \in {"mimes", "index"} : f = KeyValueSections[section]
  BY DEF KeyValueSections
<1>3. Reading /\ ReaderGood(Top)
  BY <1>1, BodyGood DEF In
<1> DEFINE hash == Put(Top.config[f], Here.name, Value)
           g    == [Top EXCEPT !.config[f] = hash]
           ok   == HasValue
<1>4. IsFiniteSet(DOMAIN hash)
  BY <1>3, TablesFinite, PutFinite
<1>5. Proceed(ok, g, 2)
  BY <1>1, <1>2
<1> HIDE DEF hash
<1>6. ReaderGood(g)
  BY <1>3, <1>4, TableGood
<1> HIDE DEF g, ok
<1> QED BY <1>3, <1>5, <1>6, ProceedGood

\* The words of the text that follows.
LEMMA ValueWords ==
  ASSUME ReadersInv, InBody, HasValue
  PROVE  IsSequence(Top.left[2].words)
<1> DEFINE left == Top.left
<1>1. WellFormed(left) /\ Len(left) > 1
  BY BodyGood DEF HasValue
<1> HIDE DEF left
<1>2. Len(left) \in Nat /\ DOMAIN left = 1..Len(left)
  BY <1>1, SequenceLen DEF WellFormed
<1>3. 2 \in DOMAIN left
  BY <1>1, <1>2
<1>4. IsSequence(left[2].words)
  BY <1>1, <1>3 DEF WellFormed
<1> QED BY <1>4 DEF left

LEMMA ImageFinite ==
  ASSUME NEW words, IsSequence(words)
  PROVE  IsFiniteSet({ToLower(words[i]) : i \in DOMAIN words})
<1>1. PICK n \in Nat : DOMAIN words = 1..n
  BY SequenceLen
<1> DEFINE T == {ToLower(words[i]) : i \in DOMAIN words}
           f == [i \in 1..n |-> ToLower(words[i])]
<1>2. f \in Surjection(1..n, T)
  BY <1>1 DEF Surjection
<1>3. IsFiniteSet(1..n)
  BY FS_Interval
<1> HIDE DEF f, T
<1>4. IsFiniteSet(T)
  BY <1>2, <1>3, FS_Surjection
<1> QED BY <1>4 DEF T

LEMMA KeyValuesGood ==
  ASSUME ReadersInv, ReadKeyValues
  PROVE  ReadersInv'
<1> DEFINE words   == IF HasValue THEN Top.left[2].words ELSE << >>
           entries == [w \in {ToLower(words[i]) : i \in DOMAIN words} |-> Here.name]
<1>1. PICK section \in DOMAIN KeyValuesSections :
        /\ In(section)
        /\ Proceed(HasValue,
             [Top EXCEPT !.config[KeyValuesSections[section]] = HashMerge(@, entries)], 2)
  BY DEF ReadKeyValues
<1>2. PICK f \in {"parsers", "tag_aliases"} : f = KeyValuesSections[section]
  BY DEF KeyValuesSections
<1>3. Reading /\ ReaderGood(Top)
  BY <1>1, BodyGood DEF In
<1> DEFINE hash == HashMerge(Top.config[f], entries)
           g    == [Top EXCEPT !.config[f] = hash]
           ok   == HasValue
<1>4. HasValue => IsFiniteSet(DOMAIN hash)
  <2> SUFFICES ASSUME HasValue PROVE IsFiniteSet(DOMAIN hash)
    OBVIOUS
  <2>1. IsSequence(words)
    BY <1>1, ValueWords DEF In
  <2>2. DOMAIN entries = {ToLower(words[i]) : i \in DOMAIN words}
    OBVIOUS
  <2> HIDE DEF words, entries
  <2>3. IsFiniteSet(DOMAIN entries)
    BY <2>1, <2>2, ImageFinite
  <2>4. DOMAIN hash = DOMAIN Top.config[f] \cup DOMAIN entries
    BY DEF HashMerge
  <2>5. IsFiniteSet(DOMAIN Top.config[f])
    BY <1>3, TablesFinite
  <2>6. IsFiniteSet(DOMAIN Top.config[f] \cup DOMAIN entries)
    BY <2>3, <2>5, UnionFinite
  <2> QED BY <2>4, <2>6
<1>5. Proceed(ok, g, 2)
  BY <1>1, <1>2
<1> HIDE DEF hash
<1>6. ok => ReaderGood(g)
  <2>1. ASSUME HasValue PROVE ReaderGood(g)
    BY <1>3, <1>4, <2>1, TableGood
  <2> QED BY <2>1
<1> HIDE DEF g, ok
<1> QED BY <1>3, <1>5, <1>6, ProceedGood

LEMMA ClassAttributesGood ==
  ASSUME ReadersInv, ReadClassAttributes
  PROVE  ReadersInv'
<1>1. InBody /\ \E lists :
        Proceed(HasValue, [Top EXCEPT !.config.stringlists = MergeStringLists(@, lists)], 2)
  BY DEF ReadClassAttributes, In
<1>2. PICK merged : Proceed(HasValue, [Top EXCEPT !.config.stringlists = merged], 2)
  BY <1>1
<1> DEFINE h == Top
           c == Top.config
           g == [Top EXCEPT !.config.stringlists = merged]
           d == g.config
           ok == HasValue
<1>3. Reading /\ ReaderGood(h) /\ DOMAIN h = ReaderFields /\ Writable(c) /\ DOMAIN c = ConfigFields
  BY <1>1, BodyGood
<1>4. /\ DOMAIN g = ReaderFields /\ g.left = h.left /\ g.section = h.section
      /\ g.is_valid = h.is_valid /\ g.meta_id = h.meta_id /\ g.prop_id = h.prop_id
  BY <1>3 DEF ReaderFields
<1>5. /\ DOMAIN d = ConfigFields /\ d.flags = c.flags /\ d.misc = c.misc
      /\ d.parsers = c.parsers /\ d.mimes = c.mimes /\ d.index = c.index
      /\ d.tag_aliases = c.tag_aliases /\ d.metanames = c.metanames
      /\ d.properties = c.properties /\ d.meta_ids = c.meta_ids
  BY <1>3 DEF ReaderFields, ConfigFields
<1>6. Proceed(ok, g, 2)
  BY <1>2
<1> HIDE DEF g, c
<1>7. NamesOK(c) /\ IsFiniteSet(DOMAIN c.metanames) /\ IsFiniteSet(DOMAIN c.properties)
  BY <1>3, WritableFields
<1>8. NamesOK(d)
  BY <1>5, <1>7 DEF NamesOK
<1>9. IsFiniteSet(DOMAIN d.metanames) /\ IsFiniteSet(DOMAIN d.properties)
  BY <1>5, <1>7
<1>10. Writable(d)
  BY <1>3, <1>5, <1>8, <1>9, NamesSet
<1> HIDE DEF h
<1>11. ReaderGood(g)
  BY <1>3, <1>4, <1>10 DEF ReaderGood
<1> HIDE DEF ok
<1> QED BY <1>3, <1>6, <1>11, ProceedGood

\* A setting is checked before it is taken over.
LEMMA SettingGood ==
  ASSUME ReadersInv, ReadSetting
  PROVE  ReadersInv'
<1> DEFINE misc == IF HasValue THEN Put(Top.config.misc, Here.name, Value) ELSE NoHash
           flags == FlagsFrom(Top.config.flags, misc, DOMAIN Top.config.flags \ {"FollowXInclude"})
           h  == Top
           c  == Top.config
           g  == [Top EXCEPT !.config.misc = misc,
                             !.config.flags = FlagsFrom(@, misc, DOMAIN @ \ {"FollowXInclude"})]
           d  == g.config
           ok == HasValue /\ KnownValues(misc)
<1>1. InBody /\ Proceed(ok, g, 2)
  BY DEF ReadSetting, In
<1>3. Reading /\ ReaderGood(h) /\ DOMAIN h = ReaderFields /\ Writable(c) /\ DOMAIN c = ConfigFields
  BY <1>1, BodyGood
<1>4. /\ DOMAIN g = ReaderFields /\ g.left = h.left /\ g.section = h.section
      /\ g.is_valid = h.is_valid /\ g.meta_id = h.meta_id /\ g.prop_id = h.prop_id
  BY <1>3 DEF ReaderFields
<1>5. /\ DOMAIN d = ConfigFields /\ d.flags = flags /\ d.misc = misc
      /\ d.parsers = c.parsers /\ d.mimes = c.mimes /\ d.index = c.index
      /\ d.tag_aliases = c.tag_aliases /\ d.metanames = c.metanames
      /\ d.properties = c.properties /\ d.meta_ids = c.meta_ids
  BY <1>3 DEF ReaderFields, ConfigFields
<1>6. /\ NamesOK(c) /\ FlagsOK(c.flags) /\ IsFiniteSet(DOMAIN c.metanames)
      /\ IsFiniteSet(DOMAIN c.properties) /\ IsFiniteSet(DOMAIN c.parsers)
      /\ IsFiniteSet(DOMAIN c.mimes) /\ IsFiniteSet(DOMAIN c.index)
      /\ IsFiniteSet(DOMAIN c.tag_aliases) /\ IsFiniteSet(DOMAIN c.misc)
  BY <1>3, WritableFields
<1>7. ok => IsFiniteSet(DOMAIN misc) /\ KnownValues(misc)
  <2>1. IsFiniteSet(DOMAIN Put(Top.config.misc, Here.name, Value))
    BY <1>6, PutFinite
  <2> QED BY <2>1
<1> HIDE DEF g
<1>8. ok => ReaderGood(g)
  <2> SUFFICES ASSUME ok PROVE ReaderGood(g)
    OBVIOUS
  <2>1. IsFiniteSet(DOMAIN misc) /\ KnownValues(misc)
    BY <1>7
  <2> HIDE DEF ok, misc
  <2>2. FlagsOK(flags)
    BY <1>6, <2>1, FlagsFromOK
  <2> HIDE DEF flags, c
  <2>3. NamesOK(d)
    BY <1>5, <1>6 DEF NamesOK
  <2>4. FlagsOK(d.flags) /\ KnownValues(d.misc)
    BY <1>5, <2>1, <2>2
  <2>5. /\ IsFiniteSet(DOMAIN d.metanames) /\ IsFiniteSet(DOMAIN d.properties)
        /\ IsFiniteSet(DOMAIN d.parsers) /\ IsFiniteSet(DOMAIN d.mimes)
        /\ IsFiniteSet(DOMAIN d.index) /\ IsFiniteSet(DOMAIN d.tag_aliases)
        /\ IsFiniteSet(DOMAIN d.misc)
    BY <1>5, <1>6, <2>1
  <2>6. Writable(d)
    BY <1>5, <2>3, <2>4, <2>5, ByFields
  <2> HIDE DEF h
  <2> QED BY <1>3, <1>4, <2>6 DEF ReaderGood
<1> HIDE DEF ok
<1> QED BY <1>1, <1>3, <1>8, ProceedGood

LEMMA TextGood ==
  ASSUME ReadersInv, SkipText
  PROVE  ReadersInv'
<1>1. InBody /\ ReadOn(Top, 1)
  BY DEF SkipText, In
<1>2. Reading /\ ReaderGood(Top)
  BY <1>1, BodyGood
<1> QED BY <1>1, <1>2, ReadOnGood

LEMMA SkipGood ==
  ASSUME ReadersInv, SkipNode
  PROVE  ReadersInv'
<1>1. Reading /\ readers # << >> /\ ReadOn(Top, 1)
  BY DEF SkipNode, InFile, Reading
<1>2. ReaderGood(Top)
  BY <1>1, TopGood
<1> QED BY <1>1, <1>2, ReadOnGood

\* The end of a file gives what was read to whoever asked for it.
LEMMA EndGood ==
  ASSUME ReadersInv, Writable(config), EndOfFile
  PROVE  ReadersInv' /\ Writable(config')
<1>1. readers # << >> /\ ReaderGood(Top) /\ Depth \in Nat /\ Depth >= 1
  <2>1. readers # << >>
    BY DEF EndOfFile, AtEnd, Reading
  <2> QED BY <2>1, TopGood
<1>2. Writable(Top.config)
  BY <1>1 DEF ReaderGood
<1>3. CASE Depth = 1
  <2>1. config' = ConfigMerge(config, Top.config) /\ readers' = << >>
    BY <1>3 DEF EndOfFile, Merged
  <2>2. Writable(config')
    BY <1>2, <2>1, MergeWritable
  <2>3. IsSequence(<< >>) /\ DOMAIN << >> = {} /\ Len(<< >>) = 0
    BY EmptyNodes DEF WellFormed
  <2>4. MaxOpen \in Nat
    BY FilesAssumption
  <2> QED BY <2>1, <2>2, <2>3, <2>4 DEF ReadersInv, Depth
<1>4. CASE Depth # 1
  <2> DEFINE rest == SubSeq(readers, 1, Depth - 2)
             c    == ConfigMerge(Outer.config, Top.config)
             new  == [Outer EXCEPT !.config = c]
  <2>1. readers' = Append(rest, new) /\ UNCHANGED config
    BY <1>4 DEF EndOfFile, Merged
  <2>2. Len(readers) = Depth /\ DOMAIN readers = 1..Depth
    BY SequenceLen DEF ReadersInv, Depth
  <2>3. PICK k \in Nat : k = Depth - 2
    BY <1>1, <1>4
  <2>4. ReaderGood(Outer)
    <3>1. Depth - 1 \in DOMAIN readers
      BY <1>1, <1>4, <2>2
    <3> QED BY <3>1 DEF ReadersInv, Outer
  <2>5. Writable(c)
    BY <1>2, <2>4, MergeWritable DEF ReaderGood
  <2>6. PICK seq : seq = rest
    OBVIOUS
  <2>7. /\ IsSequence(seq) /\ Len(seq) = k /\ \A i \in DOMAIN seq : ReaderGood(seq[i])
    <3> DEFINE S == {readers[i] : i \in DOMAIN readers}
    <3>1. readers \in Seq(S)
      BY DEF ReadersInv, IsSequence
    <3>2. \A x \in S : ReaderGood(x)
      BY DEF ReadersInv
    <3> HIDE DEF S
    <3>3. k <= Len(readers) /\ seq = SubSeq(readers, 1, k)
      BY <2>2, <2>3, <2>6
    <3>4. seq \in Seq(S) /\ Len(seq) = k
      BY <3>1, <3>3
    <3>5. \A i \in DOMAIN seq : seq[i] \in S
      BY <3>4
    <3> QED BY <3>2, <3>4, <3>5, Sequence
  <2>8. ReaderGood(new)
    <3> HIDE DEF c
    <3>1. /\ DOMAIN new = ReaderFields /\ new.left = Outer.left /\ new.section = Outer.section
          /\ new.is_valid = Outer.is_valid /\ new.meta_id = Outer.meta_id
          /\ new.prop_id = Outer.prop_id /\ new.config = c
      BY <2>4 DEF ReaderGood, ReaderFields
    <3> HIDE DEF new
    <3> QED BY <2>4, <2>5, <3>1 DEF ReaderGood
  <2>9. PICK h : h = new
    OBVIOUS
  <2> HIDE DEF new, rest
  <2>10. readers' = Append(seq, h) /\ ReaderGood(h)
    BY <2>1, <2>6, <2>8, <2>9
  <2>11. /\ IsSequence(readers') /\ Len(readers') = Len(seq) + 1
         /\ \A i \in DOMAIN readers' : ReaderGood(readers'[i])
    BY <2>7, <2>10, MoreReaders
  <2>12. Len(readers') <= MaxOpen
    <3>1. Depth <= MaxOpen /\ MaxOpen \in Nat
      BY FilesAssumption DEF ReadersInv
    <3> QED BY <1>1, <2>3, <2>7, <2>11, <3>1
  <2>13. ReadersInv'
    BY <2>11, <2>12 DEF ReadersInv, Depth
  <2> QED BY <2>1, <2>13
<1> QED BY <1>3, <1>4

LEMMA ReadGood ==
  ASSUME ReadersInv, Writable(config), Read
  PROVE  ReadersInv' /\ Writable(config')
<1>1. CASE EndOfFile
  BY <1>1, EndGood
<1>2. CASE ~EndOfFile
  <2>1. UNCHANGED config
    <3> USE DEF Proceed, ReadOn, Refuse
    <3>1. CASE ReadRoot \/ ReadBroken \/ NotAHeader \/ ReadSectionStart \/ ReadSectionEnd
      BY <3>1 DEF ReadRoot, ReadBroken, NotAHeader, ReadSectionStart, ReadSectionEnd
    <3>2. CASE ReadInclude \/ SkipText \/ SkipNode \/ AliasToNothing
      BY <3>2 DEF ReadInclude, SkipText, SkipNode, AliasToNothing
    <3>3. CASE ReadMetaName \/ ReadMetaNameAliases
      BY <3>3 DEF ReadMetaName, ReadMetaNameAliases
    <3>4. CASE ReadProperty \/ ReadPropertyAliases
      BY <3>4 DEF ReadProperty, ReadPropertyAliases
    <3>5. CASE ReadKeyValue \/ ReadKeyValues \/ ReadClassAttributes \/ ReadSetting
      BY <3>5 DEF ReadKeyValue, ReadKeyValues, ReadClassAttributes, ReadSetting
    <3> QED BY <1>2, <3>1, <3>2, <3>3, <3>4, <3>5 DEF Read
  <2>2. ReadersInv'
    <3>1. CASE ReadBroken \/ NotAHeader \/ AliasToNothing
      <4>1. UNCHANGED readers
        BY <3>1 DEF ReadBroken, NotAHeader, AliasToNothing, Refuse
      <4> QED BY <4>1, RefuseGood
    <3> QED
      BY <1>2, <3>1, RootGood, SectionGood, IncludeGood, MetaNameGood, MetaNameAliasesGood,
         PropertyGood, PropertyAliasesGood, KeyValueGood, KeyValuesGood, ClassAttributesGood,
         SettingGood, TextGood, SkipGood DEF Read
  <2> QED BY <2>1, <2>2
<1> QED BY <1>1, <1>2

-----------------------------------------------------------------------------
(* Types.                                                                  *)

Opened == phase \in Phases \ {"idle", "open", "overwrite", "open for search"}

\* A process that has opened the index has made it, and nothing is written to
\* an index that does not exist.
DiskInv ==
  /\ Opened \/ working # << >> \/ db # NoIndex \/ header # Absent => exists
  /\ phase = "idle" => working = << >> /\ command = NoCommand /\ args = << >>
  /\ WellFormed(header)

CountInv == failed \in Phases \cup {"never"} /\ runs \in 0..MaxRuns

TypeInv ==
  StoreInv /\ DiskInv /\ CountInv /\ ReadersInv /\ Writable(config) /\ Writable(saved)

LEMMA InitType == Init => TypeInv
<1> SUFFICES ASSUME Init PROVE TypeInv
  OBVIOUS
<1>1. WellFormed(<< >>) /\ IsSequence(<< >>) /\ DOMAIN << >> = {} /\ Len(<< >>) = 0
  BY EmptyNodes DEF WellFormed
<1>2. DiskInv
  BY <1>1 DEF Init, DiskInv, Opened, NoIndex, Absent
<1>3. CountInv
  BY CommandAssumption DEF Init, CountInv
<1>4. ReadersInv
  BY <1>1, FilesAssumption DEF Init, ReadersInv, Depth
<1>5. Writable(config) /\ Writable(saved)
  BY ConfigInitWritable DEF Init
<1> QED BY <1>2, <1>3, <1>4, <1>5, InitStore DEF TypeInv

LEMMA DiskKept == ASSUME StoreInv, DiskInv, Writable(config), [Next]_vars PROVE DiskInv'
<1>1. WellFormed(header')
  <2>1. header' \in {header, Absent, Torn, HeaderOf(config)}
    BY DEF Next, Program, vars, diskVars, Invoke, OpenIndex, OverwriteIndex, UnlinkHeader,
       OpenForSearch, ReadStep, HeaderRead, Configure, ConfigRead, SetStemmer, IndexDocument,
       DeleteDocument, FinishDelete, BeginHeader, WriteHeader, FinishIndex, Search, Croak, Crash,
       Flush
  <2>2. WellFormed(Absent) /\ WellFormed(Torn)
    BY EmptyNodes, NodesWritten DEF Absent, Torn
  <2>3. WellFormed(HeaderOf(config))
    BY HeaderWellFormed
  <2> QED BY <2>1, <2>2, <2>3 DEF DiskInv
<1>2. /\ Opened' \/ working' # << >> \/ db' # NoIndex \/ header' # Absent => exists'
      /\ phase' = "idle" => working' = << >> /\ command' = NoCommand /\ args' = << >>
  <2> USE DEF DiskInv, Opened, StoreInv, PhaseInv, Searching, Writing, Phases, NoIndex
  <2>1. CASE UNCHANGED vars
    BY <2>1 DEF vars, diskVars, processVars
  <2>2. CASE Invoke
    BY <2>2 DEF Invoke, diskVars
  <2>3. CASE OpenIndex
    BY <2>3 DEF OpenIndex, GoTo
  <2>4. CASE OverwriteIndex
    BY <2>4 DEF OverwriteIndex, GoTo
  <2>5. CASE UnlinkHeader
    BY <2>5 DEF UnlinkHeader, GoTo
  <2>6. CASE OpenForSearch
    BY <2>6 DEF OpenForSearch, GoTo, diskVars
  <2>7. CASE ReadStep
    BY <2>7 DEF ReadStep, diskVars, processVars
  <2>8. CASE HeaderRead
    BY <2>8 DEF HeaderRead, GoTo, diskVars
  <2>9. CASE Configure \/ ConfigRead
    BY <2>9 DEF Configure, ConfigRead, GoTo, diskVars
  <2>10. CASE SetStemmer
    BY <2>10 DEF SetStemmer, GoTo, diskVars
  <2>11. CASE IndexDocument
    BY <2>11 DEF IndexDocument, Ready, GoTo, diskVars
  <2>12. CASE DeleteDocument
    BY <2>12 DEF DeleteDocument, Ready, GoTo, diskVars
  <2>13. CASE Flush
    BY <2>13 DEF Flush, processVars
  <2>14. CASE FinishDelete
    BY <2>14 DEF FinishDelete, AllDone, Quit
  <2>15. CASE FinishIndex
    BY <2>15 DEF FinishIndex, Quit
  <2>16. CASE BeginHeader
    BY <2>16 DEF BeginHeader, AllDone, GoTo
  <2>17. CASE WriteHeader
    BY <2>17 DEF WriteHeader, GoTo
  <2>18. CASE Search \/ Crash
    BY <2>18 DEF Search, Crash, Quit, diskVars
  <2>19. CASE Croak
    BY <2>19 DEF Croak, Quit, Ready
  <2> QED
    BY <2>1, <2>2, <2>3, <2>4, <2>5, <2>6, <2>7, <2>8, <2>9, <2>10, <2>11, <2>12, <2>13, <2>14,
       <2>15, <2>16, <2>17, <2>18, <2>19 DEF Next, Program
<1> QED BY <1>1, <1>2 DEF DiskInv

LEMMA CountKept == ASSUME StoreInv, CountInv, [Next]_vars PROVE CountInv'
<1>1. failed' \in {failed, "never", phase}
  BY DEF Next, Program, vars, histVars, Invoke, OpenIndex, OverwriteIndex, UnlinkHeader,
     OpenForSearch, ReadStep, HeaderRead, Configure, ConfigRead, SetStemmer, IndexDocument,
     DeleteDocument, FinishDelete, BeginHeader, WriteHeader, FinishIndex, Search, Croak, Crash,
     Flush
<1>2. runs' = runs \/ (runs < MaxRuns /\ runs' = runs + 1)
  BY DEF Next, Program, vars, processVars, GoTo, Quit, Invoke, OpenIndex, OverwriteIndex,
     UnlinkHeader, OpenForSearch, ReadStep, HeaderRead, Configure, ConfigRead, SetStemmer,
     IndexDocument, DeleteDocument, FinishDelete, BeginHeader, WriteHeader, FinishIndex, Search,
     Croak, Crash, Flush
<1>3. runs' \in 0..MaxRuns
  BY <1>2, CommandAssumption DEF CountInv
<1> QED BY <1>1, <1>3 DEF CountInv, StoreInv, PhaseInv

LEMMA StartGood ==
  ASSUME NEW nodes, WellFormed(nodes), readers = << >>, StartReading(nodes)
  PROVE  ReadersInv'
<1>1. PICK v \in BOOLEAN : readers' = Append(readers, NewReader(nodes, v))
  BY DEF StartReading
<1>2. PICK h : h = NewReader(nodes, v)
  OBVIOUS
<1>3. ReaderGood(h)
  BY <1>2, NewReaderGood
<1>4. IsSequence(readers) /\ DOMAIN readers = {} /\ Len(readers) = 0
  BY EmptyNodes DEF WellFormed
<1>5. /\ IsSequence(Append(readers, h)) /\ Len(Append(readers, h)) = Len(readers) + 1
      /\ \A i \in DOMAIN Append(readers, h) : ReaderGood(Append(readers, h)[i])
  BY <1>3, <1>4, MoreReaders
<1>6. MaxOpen >= 1
  BY FilesAssumption
<1> QED BY <1>1, <1>2, <1>4, <1>5, <1>6 DEF ReadersInv, Depth

LEMMA ReadersKept ==
  ASSUME TypeInv, [Next]_vars
  PROVE  ReadersInv' /\ Writable(config') /\ Writable(saved')
<1>1. Writable(saved')
  <2>1. saved' \in {saved, config}
    BY DEF Next, Program, vars, histVars, Invoke, OpenIndex, OverwriteIndex, UnlinkHeader,
       OpenForSearch, ReadStep, HeaderRead, Configure, ConfigRead, SetStemmer, IndexDocument,
       DeleteDocument, FinishDelete, BeginHeader, WriteHeader, FinishIndex, Search, Croak, Crash,
       Flush
  <2> QED BY <2>1 DEF TypeInv
<1>2. CASE ReadStep
  <2>1. ReadersInv' /\ Writable(config')
    BY <1>2, ReadGood DEF ReadStep, TypeInv
  <2> QED BY <1>1, <2>1
<1>3. CASE ~ReadStep
  <2>1. ReadersInv'
    <3>1. CASE UNCHANGED readers
      BY <3>1, RefuseGood DEF TypeInv
    <3>2. CASE readers' = << >>
      <4>1. IsSequence(<< >>) /\ DOMAIN << >> = {} /\ Len(<< >>) = 0
        BY EmptyNodes DEF WellFormed
      <4> QED BY <3>2, <4>1, FilesAssumption DEF ReadersInv, Depth
    <3>3. CASE OpenIndex \/ OpenForSearch
      <4>1. UNCHANGED readers \/ StartReading(header)
        BY <3>3 DEF OpenIndex, OpenForSearch
      <4>2. readers = << >>
        BY <3>3 DEF OpenIndex, OpenForSearch, TypeInv, StoreInv, PhaseInv
      <4>3. WellFormed(header)
        BY DEF TypeInv, DiskInv
      <4> QED BY <3>1, <4>1, <4>2, <4>3, StartGood
    <3>4. CASE Configure
      <4>1. readers = << >> /\ command \in Commands
        BY <3>4 DEF Configure, TypeInv, StoreInv, PhaseInv
      <4>2. UNCHANGED readers \/ (command.conf # None /\ StartReading(ConfFiles[command.conf]))
        BY <3>4 DEF Configure
      <4>3. command.conf # None => WellFormed(ConfFiles[command.conf])
        BY <4>1, CommandAssumption, FilesAssumption DEF WellFormed
      <4> QED BY <3>1, <4>1, <4>2, <4>3, StartGood
    <3> QED
      BY <1>3, <3>1, <3>2, <3>3, <3>4 DEF Next, Program, vars, readVars, Invoke, OverwriteIndex,
         UnlinkHeader, HeaderRead, ConfigRead, SetStemmer, IndexDocument, DeleteDocument,
         FinishDelete, BeginHeader, WriteHeader, FinishIndex, Search, Croak, Crash, Flush, Quit
  <2>2. Writable(config')
    <3>1. CASE UNCHANGED config
      BY <3>1 DEF TypeInv
    <3>2. CASE config' \in {ConfigInit, DefaultConfig}
      BY <3>2, ConfigInitWritable
    <3>3. CASE IndexDocument
      <4>1. args[1] \in Given /\ config' = Learn(config, args[1])
        BY <3>3 DEF IndexDocument, Ready, TypeInv, StoreInv, ArgsAreGiven
      <4>2. IsSequence(args[1].words)
        BY <4>1, CommandAssumption DEF Given
      <4> QED BY <4>1, <4>2, LearnWritable DEF TypeInv
    <3>4. CASE SetStemmer
      <4> DEFINE c == config
                 known == "Stemmer" \in DOMAIN c.index
                 lang  == IF known THEN c.index.Stemmer ELSE stemmer
                 hash  == Put(c.index, "Stemmer", lang)
                 flags == [c.flags EXCEPT !.Tokenize = FALSE]
                 d == [c EXCEPT !.index = hash, !.flags.Tokenize = FALSE]
      <4>1. config' = d
        BY <3>4 DEF SetStemmer
      <4>2. Writable(c)
        BY DEF TypeInv
      <4>3. /\ DOMAIN c = ConfigFields /\ FlagsOK(c.flags) /\ NamesOK(c) /\ KnownValues(c.misc)
            /\ IsFiniteSet(DOMAIN c.metanames) /\ IsFiniteSet(DOMAIN c.properties)
            /\ IsFiniteSet(DOMAIN c.parsers) /\ IsFiniteSet(DOMAIN c.mimes)
            /\ IsFiniteSet(DOMAIN c.index) /\ IsFiniteSet(DOMAIN c.tag_aliases)
            /\ IsFiniteSet(DOMAIN c.misc)
        BY <4>2, WritableFields
      <4>4. /\ DOMAIN d = ConfigFields /\ d.index = hash /\ d.flags = flags /\ d.misc = c.misc
            /\ d.metanames = c.metanames /\ d.properties = c.properties /\ d.meta_ids = c.meta_ids
            /\ d.parsers = c.parsers /\ d.mimes = c.mimes /\ d.tag_aliases = c.tag_aliases
        BY <4>3 DEF ConfigFields
      <4>5. FlagsOK(flags)
        <5> HIDE DEF c
        <5>1. DOMAIN flags = FlagNames /\ flags["Tokenize"] = FALSE
              /\ \A k \in FlagNames \ {"Tokenize"} : flags[k] = c.flags[k]
          BY <4>3 DEF FlagsOK, FlagNames, Booleans
        <5>2. "Tokenize" \in Booleans
          BY DEF Booleans
        <5> HIDE DEF flags
        <5> QED BY <4>3, <5>1, <5>2 DEF FlagsOK
      <4>6. IsFiniteSet(DOMAIN hash)
        BY <4>3, PutFinite
      <4>7. NamesOK(d)
        BY <4>3, <4>4 DEF NamesOK
      <4> HIDE DEF c, d, hash, flags
      <4>8. /\ FlagsOK(d.flags) /\ KnownValues(d.misc)
            /\ IsFiniteSet(DOMAIN d.metanames) /\ IsFiniteSet(DOMAIN d.properties)
            /\ IsFiniteSet(DOMAIN d.parsers) /\ IsFiniteSet(DOMAIN d.mimes)
            /\ IsFiniteSet(DOMAIN d.index) /\ IsFiniteSet(DOMAIN d.tag_aliases)
            /\ IsFiniteSet(DOMAIN d.misc)
        BY <4>3, <4>4, <4>5, <4>6
      <4>9. Writable(d)
        BY <4>4, <4>7, <4>8, ByFields
      <4> QED BY <4>1, <4>9
    <3>5. CASE BeginHeader
      <4> DEFINE once == Put(config.index, "Format", "Xapian")
                 hash == Put(once, "Name", "index")
      <4>1. Writable(config) /\ IsFiniteSet(DOMAIN config.index)
        BY WritableFields DEF TypeInv
      <4>2. config' = [config EXCEPT !["index"] = hash]
        BY <3>5 DEF BeginHeader
      <4>3. IsFiniteSet(DOMAIN once)
        BY <4>1, PutFinite
      <4> HIDE DEF once
      <4>4. IsFiniteSet(DOMAIN hash)
        BY <4>3, PutFinite
      <4> HIDE DEF hash
      <4> QED BY <4>1, <4>2, <4>4, TableSet
    <3> QED
      BY <1>3, <3>1, <3>2, <3>3, <3>4, <3>5 DEF Next, Program, vars, readVars, Invoke, OpenIndex,
         OverwriteIndex, UnlinkHeader, OpenForSearch, HeaderRead, Configure, ConfigRead,
         DeleteDocument, FinishDelete, WriteHeader, FinishIndex, Search, Croak, Crash, Flush, Quit
  <2> QED BY <1>1, <2>1, <2>2
<1> QED BY <1>2, <1>3

LEMMA TypeKept == TypeInv /\ [Next]_vars => TypeInv'
<1> SUFFICES ASSUME TypeInv, [Next]_vars PROVE TypeInv'
  OBVIOUS
<1>1. StoreInv'
  BY StoreKept DEF TypeInv
<1>2. DiskInv' /\ CountInv'
  BY DiskKept, CountKept DEF TypeInv
<1>3. ReadersInv' /\ Writable(config') /\ Writable(saved')
  BY ReadersKept
<1> QED BY <1>1, <1>2, <1>3 DEF TypeInv

\* Whatever the files say and wherever the program is killed: a configuration is
\* one, also after it was read from a header, merged or taught names by documents;
\* no more files are open than may be; a process that ends leaves nothing behind.
THEOREM TypeCorrect == Spec => []IndexTypeOK
<1>1. ASSUME TypeInv PROVE IndexTypeOK
  <2>1. IsConfig(saved) /\ IsConfig(config)
    BY <1>1 DEF TypeInv, Writable, GoodConfig
  <2>2. \A i \in 1..Depth : ReaderOK(readers[i])
    <3>1. DOMAIN readers = 1..Depth /\ \A i \in DOMAIN readers : ReaderGood(readers[i])
      BY <1>1, SequenceLen DEF TypeInv, ReadersInv, Depth
    <3> QED BY <3>1, ReaderGoodOK
  <2>3. Depth <= MaxOpen
    BY <1>1 DEF TypeInv, ReadersInv
  <2> QED BY <1>1, <2>1, <2>2, <2>3 DEF IndexTypeOK, TypeInv, StoreInv, PhaseInv, DiskInv, CountInv
<1>2. TypeInv => IndexTypeOK
  BY <1>1
<1> QED BY InitType, TypeKept, <1>2, PTL DEF Spec
=============================================================================
