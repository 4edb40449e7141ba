------------------------------ MODULE MCIndexer ------------------------------
(***************************************************************************)
(* Small files, documents and command lines for Indexer.                   *)
(***************************************************************************)
EXTENDS Indexer, TLC

MCLower   == "Author" :> "author"
MCMimes   == "xml" :> "application/xml"
MCParsers == ("default" :> "HTML") @@ ("text/plain" :> "TXT")
MCIndex   == "Format" :> "Native"
MCAliases == "title" :> SwishTitle

File(nodes) == <<Start(Root)>> \o nodes \o <<End(Root)>>
Pair(key, value) == <<Start(key), Text(<<value>>)>>

\* What a user writes: names with and without numbers, aliases, every section.
Main == File(
  <<Start(Include), Text(<<"common">>), Start("MetaNames"), Skipped,
    StartWith("Author", [bias |-> 5]), Text(<<"writer">>), StartWith("place", [id |-> 7]),
    End("MetaNames"), Start("PropertyNames"),
    StartWith("Author", [type |-> "int"]), Text(<<"by">>), End("PropertyNames"),
    Start("Parsers")>> \o Pair("XML", "default") \o <<End("Parsers"), Start("MIME")>>
  \o Pair("xml", "text/xml") \o <<End("MIME")>> \o Pair("Tokenize", "no"))

\* What it includes.
Common == File(
  <<Start("MetaNames"), StartWith("town", [id |-> 9]),
    StartWith("city", [id |-> 8, alias_for |-> "town"]), End("MetaNames"),
    Start("TagAlias")>> \o Pair("author", "from")
  \o <<End("TagAlias"), Text(<<"stray">>), Start(ClassAttributes), Text(<<"class">>)>>)

\* A file that includes itself.
Loop == File(<<Start(Include), Text(<<"loop">>)>>)
\* An alias for nothing, a file that is no header.
Stray == File(<<Start("MetaNames"), StartWith("city", [alias_for |-> "town"]), End("MetaNames")>>)
NoRoot == <<Start("other")>>
\* One number for two names; an alias that is a name; a property given twice;
\* an alias for no property; a setting whose value does not come next.
Taken  == File(<<Start("MetaNames"), StartWith("b", [id |-> 3]), StartWith("c", [id |-> 3])>>)
Real   == File(<<Start("MetaNames"), Start("b"), Start("c"), Text(<<"b">>)>>)
Twice  == File(<<Start("PropertyNames"), Start("b"), Start("b")>>)
Orphan == File(<<Start("PropertyNames"), Text(<<"b">>)>>)
Unset  == File(<<Start("Index"), Start("Name"), Skipped, Text(<<"n">>), End("Index")>>)
\* One MetaName and another, both to be numbered by the program.
One   == File(<<Start("MetaNames"), Start("one"), End("MetaNames")>>)
Other == File(<<Start("MetaNames"), Start("other"), End("MetaNames")>>)
\* Settings: unknown tags are an error; there is no such value.
Strict == File(Pair("UndefinedMetaTags", "error"))
Bad == File(Pair("UndefinedMetaTags", "sometimes"))
\* Names are learnt from the documents.
Auto == File(Pair("UndefinedMetaTags", "auto"))

MCFiles == ("main" :> Main) @@ ("common" :> Common) @@ ("loop" :> Loop) @@ ("stray" :> Stray)
  @@ ("noroot" :> NoRoot) @@ ("strict" :> Strict) @@ ("bad" :> Bad) @@ ("taken" :> Taken)
  @@ ("real" :> Real) @@ ("twice" :> Twice) @@ ("orphan" :> Orphan) @@ ("unset" :> Unset) @@ ("auto" :> Auto)
  @@ ("one" :> One) @@ ("other" :> Other)

Doc(uri, words) == [uri |-> uri, words |-> words]
A1 == Doc("a", <<<<"author", "poe">>, <<"title", "raven">>>>)
A2 == Doc("a", <<<<"writer", "doyle">>, <<"by", "doyle">>, <<"x", "study">>>>)
B  == Doc("b", <<<<"from", "verne">>, <<"place", "moon">>, <<"city", "paris">>>>)

Run(conf, docs) == [NoCommand EXCEPT !.conf = conf, !.args = docs]
MCCommands ==
  {Run("main", <<A1, B>>), Run("main", <<A2>>), Run(None, <<A2>>),
   [Run("main", <<B>>) EXCEPT !.overwrite = TRUE],
   [Run("main", <<A2, B>>) EXCEPT !.skip = TRUE, !.stemmer = "en"],
   [Run(None, <<A1, B>>) EXCEPT !.delete = TRUE],
   Run("strict", <<B>>),
   [Run(None, << >>) EXCEPT !.query = TRUE],
   [Run(None, << >>) EXCEPT !.query = TRUE, !.stemmer = "en"]}
  \cup {Run(c, << >>) : c \in {"loop", "stray", "noroot", "bad", "taken", "real", "twice",
                              "orphan", "unset"}}

TwoCommands ==
  {Run("one", << >>), Run("other", << >>),
   Run("auto", <<Doc("x", <<<<"x", "study">>>>)>>), Run("auto", <<Doc("y", <<<<"y", "red">>>>)>>)}
=============================================================================
