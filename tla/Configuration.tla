---------------------------- MODULE Configuration ----------------------------
(***************************************************************************)
(* swish_Config: what src/libswish3/config.c, metaname.c, property.c,      *)
(* hash.c and mime_types.c do to a configuration.  A hash table is a       *)
(* function from its keys; the C code never depends on the order in which  *)
(* xmlHashScan visits them.                                                *)
(*                                                                         *)
(* Of a property, "type" stands for the attributes that a merge copies     *)
(* (type, ignore_case, verbatim, max, sort) and "presort" for the two that *)
(* it does not (presort, sort_length).                                     *)
(***************************************************************************)
EXTENDS Integers, Sequences, FiniteSets

CONSTANTS
  Lower,            \* swish_str_tolower, where it changes a name or a word
  DefaultMimes,     \* the tables that swish_config_set_default fills in
  DefaultParsers,
  DefaultIndex,
  DefaultTagAliases

ASSUME TablesAssumption ==
  \A hash \in {DefaultMimes, DefaultParsers, DefaultIndex, DefaultTagAliases} :
    IsFiniteSet(DOMAIN hash)

None         == ""            \* NULL
Dangling     == "(freed)"     \* a pointer to freed memory
SwishDefault == "swishdefault"
SwishTitle   == "swishtitle"
Description  == "swishdescription"
DocPath      == "swishdocpath"       \* stands for the built-in properties

\* SWISH_META_*_ID and SWISH_PROP_*_ID
MetaDefaultId     == 0
MetaTitleId       == 1
MetaLastId        == 2
PropDocPathId     == 1
PropTitleId       == 3
PropDescriptionId == 6
PropLastId        == 11

ToLower(w) == IF w \in DOMAIN Lower THEN Lower[w] ELSE w

-----------------------------------------------------------------------------
(* hash.c                                                                  *)

NoHash == [k \in {} |-> None]
Put(hash, key, value) ==
  [k \in DOMAIN hash \cup {key} |-> IF k = key THEN value ELSE hash[k]]
HashMerge(hash1, hash2) ==
  [k \in DOMAIN hash1 \cup DOMAIN hash2 |-> IF k \in DOMAIN hash2 THEN hash2[k] ELSE hash1[k]]

-----------------------------------------------------------------------------
(* Flags: the settings of config->misc that the library itself heeds.      *)

Booleans == {"Tokenize", "CascadeMetaContext", "IgnoreXMLNameSpaces", "FollowXInclude"}
Switches == [UndefinedMetaTags |-> {"error", "ignore", "index", "auto", "autoall"},
             UndefinedXMLAttributes |->
               {"error", "ignore", "index", "auto", "autoall", "disable"}]

DefaultFlags ==
  [Tokenize |-> TRUE, CascadeMetaContext |-> FALSE, IgnoreXMLNameSpaces |-> TRUE,
   FollowXInclude |-> TRUE, UndefinedMetaTags |-> "index", UndefinedXMLAttributes |-> "disable"]

ToBoolean(v)     == v \in {"yes", "on", "1"}
FlagValue(k, v)  == IF k \in Booleans THEN ToBoolean(v) ELSE v

\* Fault: any value will do.
AnyValues(misc) == TRUE

KnownValues(misc) == \A k \in DOMAIN misc \cap DOMAIN Switches : misc[k] \in Switches[k]

\* The flags, with those of the given keys that misc holds set from it.
FlagsFrom(flags, misc, keys) ==
  [k \in DOMAIN flags |->
     IF k \in keys \cap DOMAIN misc THEN FlagValue(k, misc[k]) ELSE flags[k]]

-----------------------------------------------------------------------------
(* MetaNames, properties and the default configuration.                    *)

NewMetaName == [id |-> -1, bias |-> 0, alias_for |-> None]
NewProperty == [id |-> -1, type |-> "string", presort |-> TRUE, alias_for |-> None]

ConfigInit ==
  [metanames |-> NoHash, properties |-> NoHash, parsers |-> NoHash, mimes |-> NoHash,
   index |-> NoHash, tag_aliases |-> NoHash, misc |-> NoHash, stringlists |-> NoHash,
   flags |-> DefaultFlags, max_meta_id |-> -1, max_prop_id |-> -1,
   meta_ids |-> NoHash, prop_ids |-> NoHash]

DefaultConfig ==
  LET metas == [n \in {SwishDefault, SwishTitle} |->
                  [NewMetaName EXCEPT !.id = IF n = SwishDefault THEN MetaDefaultId
                                             ELSE MetaTitleId]]
      props == [n \in {Description, SwishTitle} |->
                  [NewProperty EXCEPT
                     !.id = IF n = SwishTitle THEN PropTitleId ELSE PropDescriptionId,
                     !.type = IF n = SwishTitle THEN "string" ELSE "unsorted"]]
  IN [ConfigInit EXCEPT
        !.metanames = metas, !.properties = props,
        !.meta_ids = [i \in {MetaDefaultId, MetaTitleId} |->
                        IF i = MetaDefaultId THEN SwishDefault ELSE SwishTitle],
        !.prop_ids = [i \in {PropTitleId, PropDescriptionId} |->
                        IF i = PropTitleId THEN SwishTitle ELSE Description],
        !.max_meta_id = MetaTitleId, !.max_prop_id = PropDescriptionId,
        !.mimes = DefaultMimes, !.parsers = DefaultParsers, !.index = DefaultIndex,
        !.tag_aliases = DefaultTagAliases]

\* swish_metaname_new and swish_property_new: a name met in a document.
MetaNameNew(c, n) ==
  LET id == c.max_meta_id + 1
  IN [c EXCEPT !.max_meta_id = id, !.meta_ids = Put(@, id, n),
               !.metanames = Put(@, n, [NewMetaName EXCEPT !.id = id])]
PropertyNew(c, n) ==
  LET id == c.max_prop_id + 1
  IN [c EXCEPT !.max_prop_id = id, !.prop_ids = Put(@, id, n),
               !.properties = Put(@, n, [NewProperty EXCEPT !.id = id])]

\* swish_property_get_id knows the built-in properties; it croaks on a name
\* that is neither (see HasPropertyId), and does not follow an alias.
HasPropertyId(c, n) == n = DocPath \/ n \in DOMAIN c.properties
PropertyId(c, n)    == IF n = DocPath THEN PropDocPathId ELSE c.properties[n].id

-----------------------------------------------------------------------------
(* swish_config_merge                                                      *)

\* The alias of config1 is freed; without one to replace it the pointer stays.
MergedAlias(hash1, n, alias2) ==
  IF alias2 # None THEN alias2
  ELSE IF n \in DOMAIN hash1 /\ hash1[n].alias_for # None THEN Dangling
  ELSE None

CopyMetaName(metas1, n, meta2) ==
  [id |-> meta2.id, bias |-> meta2.bias, alias_for |-> MergedAlias(metas1, n, meta2.alias_for)]

CopyProperty(props1, n, prop2) ==
  [id |-> prop2.id, type |-> prop2.type,
   presort |-> IF n \in DOMAIN props1 THEN props1[n].presort ELSE NewProperty.presort,
   alias_for |-> MergedAlias(props1, n, prop2.alias_for)]

MergeNames(hash1, hash2, Copy(_, _, _)) ==
  [n \in DOMAIN hash1 \cup DOMAIN hash2 |->
     IF n \in DOMAIN hash2 THEN Copy(hash1, n, hash2[n]) ELSE hash1[n]]

\* swish_stringlist_merge appends.  It also frees the list of config2, which
\* swish_config_free frees again: the program may abort there.
MergeStringLists(hash1, hash2) ==
  [n \in DOMAIN hash1 \cup DOMAIN hash2 |->
     (IF n \in DOMAIN hash1 THEN hash1[n] ELSE << >>)
       \o (IF n \in DOMAIN hash2 THEN hash2[n] ELSE << >>)]

Greater(m, n) == IF m < n THEN n ELSE m

\* Every flag is taken from config2, whether it was set there or not; the id
\* tables are not merged.
ConfigMerge(c1, c2) ==
  [c1 EXCEPT
     !.properties  = MergeNames(@, c2.properties, CopyProperty),
     !.metanames   = MergeNames(@, c2.metanames, CopyMetaName),
     !.parsers     = HashMerge(@, c2.parsers),
     !.mimes       = HashMerge(@, c2.mimes),
     !.index       = HashMerge(@, c2.index),
     !.tag_aliases = HashMerge(@, c2.tag_aliases),
     !.misc        = HashMerge(@, c2.misc),
     !.stringlists = MergeStringLists(@, c2.stringlists),
     !.flags       = FlagsFrom(c2.flags, c2.misc, DOMAIN c2.flags),
     !.max_meta_id = Greater(@, c2.max_meta_id),
     !.max_prop_id = Greater(@, c2.max_prop_id)]

-----------------------------------------------------------------------------
(* swish_config_test_alias_fors: what is read through a dangling pointer   *)
(* may or may not be the name of something.                                *)

MetaAliasMeets(c, alias) == alias \in {None} \cup DOMAIN c.metanames
PropAliasMeets(c, alias) == alias = None \/ HasPropertyId(c, alias)

\* Fault: the aliases are not tested.
AliasesUntested(c) == TRUE

AliasesMayMeet(c) ==
  /\ \A n \in DOMAIN c.metanames :
       c.metanames[n].alias_for = Dangling \/ MetaAliasMeets(c, c.metanames[n].alias_for)
  /\ \A n \in DOMAIN c.properties :
       c.properties[n].alias_for = Dangling \/ PropAliasMeets(c, c.properties[n].alias_for)

AliasesMayFail(c) ==
  \/ \E n \in DOMAIN c.metanames : ~MetaAliasMeets(c, c.metanames[n].alias_for)
  \/ \E n \in DOMAIN c.properties : ~PropAliasMeets(c, c.properties[n].alias_for)

-----------------------------------------------------------------------------
\* What every configuration is like.
IsConfig(c) ==
  /\ DOMAIN c = DOMAIN ConfigInit
  /\ \A n \in DOMAIN c.metanames : DOMAIN c.metanames[n] = DOMAIN NewMetaName
  /\ \A n \in DOMAIN c.properties : DOMAIN c.properties[n] = DOMAIN NewProperty
  /\ DOMAIN c.flags = DOMAIN DefaultFlags
  /\ \A k \in DOMAIN c.flags :
       IF k \in Booleans THEN c.flags[k] \in BOOLEAN ELSE c.flags[k] \in Switches[k]
  /\ \A i \in DOMAIN c.meta_ids : \E n \in DOMAIN c.metanames : c.meta_ids[i] = n
=============================================================================
