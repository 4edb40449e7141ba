------------------------------- MODULE Header -------------------------------
(***************************************************************************)
(* src/libswish3/header.c: the XML files that hold a configuration, both   *)
(* those a user writes and the header that the program writes into an      *)
(* index.  A file is read node by node into a configuration of its own     *)
(* (headmaker), which is merged into another one at the end of the file;   *)
(* IncludeConfigFile reads a second file in the middle of the first, so    *)
(* there is a stack of readers.                                            *)
(*                                                                         *)
(* A file is a sequence of nodes.  Comments, blank text and the end of an  *)
(* element that is not a section are all of one kind, and may be left out: *)
(* process_node returns at once.  Only right behind an element they count, *)
(* since its value has to come next.  An empty element has no end.         *)
(* Namespace declarations are left out.                                    *)
(***************************************************************************)
EXTENDS Configuration, SequencesExt

CONSTANTS
  ConfFiles,     \* the files that a user has written: path -> nodes
  MaxOpen        \* how many files can be open at once

Root    == "swish"                 \* SWISH_HEADER_ROOT
Include == "IncludeConfigFile"
ClassAttributes == "XMLClassAttributes"
KeyValueSections  == [Index |-> "index", MIME |-> "mimes"]
KeyValuesSections == [Parsers |-> "parsers", TagAlias |-> "tag_aliases"]
Sections == {"PropertyNames", "MetaNames"} \cup DOMAIN KeyValueSections
              \cup DOMAIN KeyValuesSections

NoAttrs == [a \in {} |-> None]
Node(kind, name, attrs, words) == [kind |-> kind, name |-> name, attrs |-> attrs, words |-> words]
Start(name)             == Node("start", name, NoAttrs, << >>)
StartWith(name, attrs)  == Node("start", name, attrs, << >>)
End(name)               == Node("end", name, NoAttrs, << >>)
Text(words)             == Node("text", "#text", NoAttrs, words)
Skipped                 == Node("skipped", None, NoAttrs, << >>)
Broken                  == Node("broken", None, NoAttrs, << >>)  \* not well-formed from here

VARIABLES
  config,        \* the configuration of the program
  readers,       \* the files being read, the innermost last (headmaker)
  refused        \* SWISH_CROAK: the program ends

readVars == <<config, readers, refused>>

IsSequence(s) == s \in Seq({s[i] : i \in DOMAIN s})

ASSUME FilesAssumption ==
  /\ MaxOpen \in Nat \ {0}
  /\ \A p \in DOMAIN ConfFiles :
       /\ IsSequence(ConfFiles[p])
       /\ \A i \in DOMAIN ConfFiles[p] :
            /\ IsSequence(ConfFiles[p][i].words)
            /\ ConfFiles[p][i].kind = "end" => ConfFiles[p][i].name \in Sections \cup {Root}

-----------------------------------------------------------------------------
(* One reader.                                                             *)

ReaderOf(nodes, is_valid, c) ==
  [left |-> nodes, section |-> None, parent_name |-> None, is_valid |-> is_valid,
   meta_id |-> MetaLastId, prop_id |-> PropLastId, config |-> c]

\* Fault: the file is read into a default configuration, not an empty one.
NewReaderDefault(nodes, is_valid) == ReaderOf(nodes, is_valid, DefaultConfig)

\* init_headmaker does not set is_valid.
NewReader(nodes, is_valid) == ReaderOf(nodes, is_valid, ConfigInit)

Depth   == Len(readers)
Top     == readers[Depth]
Reading == readers # << >> /\ ~refused
InFile  == Reading /\ Top.left # << >>
Here    == Top.left[1]

Pass(h, n)    == [h EXCEPT !.left = SubSeq(@, n + 1, Len(@))]
ReadOn(h, n)  == /\ readers' = [readers EXCEPT ![Depth] = Pass(h, n)]
                 /\ UNCHANGED <<config, refused>>
Refuse        == refused' = TRUE /\ UNCHANGED <<config, readers>>
Proceed(ok, h, n) == IF ok THEN ReadOn(h, n) ELSE Refuse

StartReading(nodes) ==
  \E v \in BOOLEAN : readers' = Append(readers, NewReader(nodes, v))

ReadRoot == InFile /\ Here.name = Root /\ ReadOn([Top EXCEPT !.is_valid = TRUE], 1)

ReadBroken == InFile /\ Here.kind = "broken" /\ Refuse

SkipNode == InFile /\ Here.kind = "skipped" /\ ReadOn(Top, 1)

\* "invalid header file"
Spoken     == InFile /\ Here.kind \notin {"broken", "skipped"}
NotAHeader == Spoken /\ Here.name # Root /\ ~Top.is_valid /\ Refuse

InBody == Spoken /\ Here.name # Root /\ Top.is_valid

\* reset_headmaker
ResetTo(section) == [Top EXCEPT !.section = section, !.parent_name = None]

ReadSectionStart == InBody /\ Here.kind = "start" /\ Here.name \in Sections
                    /\ ReadOn(ResetTo(Here.name), 1)
ReadSectionEnd   == InBody /\ Here.kind = "end" /\ ReadOn(ResetTo(None), 1)

\* An element which has a value must be followed by text, and by nothing else.
HasValue == Len(Top.left) > 1 /\ Top.left[2].kind = "text"
Value    == Top.left[2].words[1]

ReadInclude ==
  /\ InBody /\ Here.kind = "start" /\ Here.name = Include
  /\ IF HasValue /\ Value \in DOMAIN ConfFiles /\ Depth < MaxOpen
     THEN /\ \E v \in BOOLEAN :
               readers' = Append([readers EXCEPT ![Depth] = Pass(Top, 2)],
                                 NewReader(ConfFiles[Value], v))
          /\ UNCHANGED <<config, refused>>
     ELSE Refuse

\* What is left for the section the reader is in.
In(section) ==
  InBody /\ Top.section = section /\ Here.kind # "end" /\ Here.name \notin Sections \cup {Include}

Attr(a, default) == IF a \in DOMAIN Here.attrs THEN Here.attrs[a] ELSE default

-----------------------------------------------------------------------------
(* MetaNames: read_metaname, read_metaname_attr, read_metaname_aliases.    *)

\* The id given, which goes into the table of ids, or the next free one,
\* which does not.
IdsAfter(h, table) ==
  IF "id" \in DOMAIN Here.attrs
  THEN [h EXCEPT !.config[table] = Put(@, Here.attrs.id, ToLower(Here.name))]
  ELSE IF table = "meta_ids"
  THEN [h EXCEPT !.meta_id = @ + 1, !.config.max_meta_id = h.meta_id + 1]
  ELSE [h EXCEPT !.prop_id = @ + 1, !.config.max_prop_id = h.prop_id + 1]

IdTaken(table) == "id" \in DOMAIN Here.attrs /\ Here.attrs.id \in DOMAIN Top.config[table]

\* A name that is defined twice keeps its first definition (SWISH_WARN).
ReadMetaName ==
  /\ In("MetaNames") /\ Here.kind = "start"
  /\ LET name == ToLower(Here.name)
         meta == [id |-> Attr("id", Top.meta_id), bias |-> Attr("bias", 0),
                  alias_for |-> ToLower(Attr("alias_for", None))]
         h    == [IdsAfter(Top, "meta_ids") EXCEPT
                    !.config.metanames = IF name \in DOMAIN @ THEN @ ELSE Put(@, name, meta),
                    !.parent_name = Here.name]
     IN Proceed(DOMAIN Here.attrs \subseteq {"id", "bias", "alias_for"} /\ ~IdTaken("meta_ids"),
                h, 1)

\* One word of the text of a MetaName: another name for it.
AddMetaAlias(h, word) ==
  LET name  == ToLower(word)
      metas == h.config.metanames
      alias == ToLower(h.parent_name)
  IN IF name \in DOMAIN metas
     THEN [h EXCEPT !.config.metanames[name].alias_for = alias]
     ELSE [h EXCEPT !.meta_id = @ + 1,
                    !.config.metanames =
                      Put(@, name, [NewMetaName EXCEPT !.id = h.meta_id, !.alias_for = alias])]

ReadMetaNameAliases ==
  /\ In("MetaNames") /\ Here.kind = "text"
  /\ LET words == Here.words
         after == [i \in 0..Len(words) |->
                     FoldLeft(AddMetaAlias, Top, SubSeq(words, 1, i))]
     IN Proceed(/\ Top.parent_name # None
                /\ \A i \in 1..Len(words) : words[i] \notin DOMAIN after[i - 1].config.metanames,
                after[Len(words)], 1)

-----------------------------------------------------------------------------
(* PropertyNames: the same, but a second definition is an error, and a     *)
(* name that exists in lower case too (swish_hash_add).                    *)

ReadProperty ==
  /\ In("PropertyNames") /\ Here.kind = "start"
  /\ LET name == ToLower(Here.name)
         prop == [id |-> Attr("id", Top.prop_id), type |-> Attr("type", NewProperty.type),
                  presort |-> Attr("presort", NewProperty.presort),
                  alias_for |-> ToLower(Attr("alias_for", None))]
         h    == [IdsAfter(Top, "prop_ids") EXCEPT
                    !.config.properties = Put(@, name, prop), !.parent_name = Here.name]
     IN Proceed(/\ DOMAIN Here.attrs \subseteq DOMAIN NewProperty /\ ~IdTaken("prop_ids")
                /\ name \notin DOMAIN Top.config.properties,
                h, 1)

AddPropertyAlias(h, word) ==
  [h EXCEPT !.prop_id = @ + 1,
            !.config.properties =
              Put(@, ToLower(word), [NewProperty EXCEPT !.id = h.prop_id,
                                                        !.alias_for = ToLower(h.parent_name)])]

ReadPropertyAliases ==
  /\ In("PropertyNames") /\ Here.kind = "text"
  /\ LET words == Here.words
         after == [i \in 0..Len(words) |->
                     FoldLeft(AddPropertyAlias, Top, SubSeq(words, 1, i))]
     IN Proceed(/\ Top.parent_name # None
                /\ \A i \in 1..Len(words) :
                     {words[i], ToLower(words[i])} \cap DOMAIN after[i - 1].config.properties = {},
                after[Len(words)], 1)

-----------------------------------------------------------------------------
(* The other sections, and what stands outside all of them.                *)

\* read_key_value_pair
ReadKeyValue ==
  \E section \in DOMAIN KeyValueSections :
    /\ In(section)
    /\ Proceed(HasValue,
               [Top EXCEPT !.config[KeyValueSections[section]] = Put(@, Here.name, Value)], 2)

\* read_key_values_pair: each word of the value is a key, the element its value.
ReadKeyValues ==
  \E section \in DOMAIN KeyValuesSections :
    /\ In(section)
    /\ LET words   == IF HasValue THEN Top.left[2].words ELSE << >>
           entries == [w \in {ToLower(words[i]) : i \in DOMAIN words} |-> Here.name]
       IN Proceed(HasValue,
                  [Top EXCEPT !.config[KeyValuesSections[section]] = HashMerge(@, entries)], 2)

\* read_key_value_stringlist
ReadClassAttributes ==
  /\ In(None) /\ Here.name = ClassAttributes
  /\ LET words == IF HasValue THEN Top.left[2].words ELSE << >>
         lower == [i \in DOMAIN words |-> ToLower(words[i])]
         lists == [k \in {ClassAttributes} |-> lower]
     IN Proceed(HasValue, [Top EXCEPT !.config.stringlists = MergeStringLists(@, lists)], 2)

\* A miscellaneous setting; handle_special_misc_flags forgets FollowXInclude,
\* which swish_config_merge sets in the end.
ReadSetting ==
  /\ In(None) /\ Here.kind = "start" /\ Here.name # ClassAttributes
  /\ LET misc == IF HasValue THEN Put(Top.config.misc, Here.name, Value) ELSE NoHash
     IN Proceed(HasValue /\ KnownValues(misc),
                [Top EXCEPT !.config.misc = misc,
                            !.config.flags = FlagsFrom(@, misc, DOMAIN @ \ {"FollowXInclude"})],
                2)

\* Text outside the sections.
SkipText == In(None) /\ Here.kind = "text" /\ ReadOn(Top, 1)

-----------------------------------------------------------------------------
(* swish_header_merge at the end of a file.                                *)

AtEnd  == Reading /\ Top.left = << >>
Outer  == readers[Depth - 1]
Merged == ConfigMerge(IF Depth = 1 THEN config ELSE Outer.config, Top.config)

EndOfFile ==
  /\ AtEnd /\ AliasesMayMeet(Merged)
  /\ IF Depth = 1
     THEN config' = Merged /\ readers' = << >>
     ELSE /\ readers' = Append(SubSeq(readers, 1, Depth - 2), [Outer EXCEPT !.config = Merged])
          /\ UNCHANGED config
  /\ UNCHANGED refused

AliasToNothing == AtEnd /\ AliasesMayFail(Merged) /\ Refuse

Read ==
  \/ ReadRoot \/ ReadBroken \/ NotAHeader \/ ReadSectionStart \/ ReadSectionEnd \/ ReadInclude
  \/ ReadMetaName \/ ReadMetaNameAliases \/ ReadProperty \/ ReadPropertyAliases
  \/ ReadKeyValue \/ ReadKeyValues \/ ReadClassAttributes \/ ReadSetting \/ SkipText
  \/ SkipNode
  \/ EndOfFile \/ AliasToNothing

-----------------------------------------------------------------------------
(* swish_header_write                                                      *)

\* All that the entries of a hash are written as.
Entries(written) == FoldSet(LAMBDA k, nodes : written[k] \o nodes, << >>, DOMAIN written)

\* An empty section is an empty element, which has no end.
Section(name, nodes) ==
  IF nodes = << >> THEN <<Start(name)>> ELSE <<Start(name)>> \o nodes \o <<End(name)>>

\* Fault: an alias is written like any other name.
MetaAttrsPlain(meta) == [id |-> meta.id, bias |-> meta.bias]

MetaAttrs(meta) ==
  IF meta.alias_for # None THEN [id |-> meta.id, alias_for |-> meta.alias_for]
  ELSE [id |-> meta.id, bias |-> meta.bias]

\* Fault: the id is left to the reader.
PropertyAttrsAnonymous(prop) == [type |-> prop.type, presort |-> prop.presort]

PropertyAttrs(prop) ==
  IF prop.alias_for # None THEN [id |-> prop.id, alias_for |-> prop.alias_for]
  ELSE [id |-> prop.id, type |-> prop.type, presort |-> prop.presort]

\* Only MIME types that differ from the default are written.
OwnMimes(c) ==
  {k \in DOMAIN c.mimes : k \notin DOMAIN DefaultMimes \/ DefaultMimes[k] # c.mimes[k]}

HeaderOf(c) ==
  LET pair(key, val) == <<Start(key), Text(<<val>>)>>
      pairs(hash)    == Entries([k \in DOMAIN hash |-> pair(k, hash[k])])
      metas   == [n \in DOMAIN c.metanames |-> <<StartWith(n, MetaAttrs(c.metanames[n]))>>]
      props   == [n \in DOMAIN c.properties |-> <<StartWith(n, PropertyAttrs(c.properties[n]))>>]
      parsers == [k \in DOMAIN c.parsers |-> pair(c.parsers[k], k)]
      aliases == [k \in DOMAIN c.tag_aliases |-> pair(c.tag_aliases[k], k)]
      mimes   == [k \in OwnMimes(c) |-> c.mimes[k]]
      version == IF "swish_version" \in DOMAIN c.misc THEN << >> ELSE pair("swish_version", "3")
  IN <<Start(Root)>> \o version
     \o Section("MetaNames", Entries(metas)) \o Section("PropertyNames", Entries(props))
     \o Section("Parsers", Entries(parsers)) \o Section("MIME", pairs(mimes))
     \o Section("Index", pairs(c.index)) \o Section("TagAlias", Entries(aliases))
     \o pairs(c.misc)
     \o <<End(Root)>>

ReaderOK(h) ==
  /\ DOMAIN h = DOMAIN NewReader(<< >>, TRUE)
  /\ h.section \in Sections \cup {None} /\ h.is_valid \in BOOLEAN
  /\ h.meta_id >= MetaLastId /\ h.prop_id >= PropLastId
  /\ \A i \in DOMAIN h.config.meta_ids : h.config.meta_ids[i] \in DOMAIN h.config.metanames
=============================================================================
