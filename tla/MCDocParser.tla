---------------------------- MODULE MCDocParser ----------------------------
(***************************************************************************)
(* Instances of DocParser for TLC: configurations, each with an alphabet   *)
(* of start tags.                                                          *)
(***************************************************************************)
EXTENDS DocParserProps, TLC

Words == STRING

El(raw)           == [raw |-> <<raw>>, prefix |-> NoPrefix, attr |-> NoAttr]
ElNs(prefix, raw) == [raw |-> <<raw>>, prefix |-> prefix, attr |-> NoAttr]
ElAttr(raw, n, v) == [raw |-> <<raw>>, prefix |-> NoPrefix,
                      attr |-> [name |-> n, value |-> v]]
NoMap == [n \in {} |-> n]
Bare  == {SwishDefault}

\* XML under the default flags.  <a>, <b> are metanames, <b>, <c> properties,
\* <d> is neither.
Plain ==
  [is_html |-> FALSE,
   metanames |-> Bare \cup {<<"a">>, <<"b">>}, properties |-> {<<"b">>, <<"c">>},
   meta_alias |-> NoMap, prop_alias |-> NoMap, tag_aliases |-> NoMap,
   undef_metas |-> "index", undef_attrs |-> "disable",
   cascade_meta_context |-> FALSE, ignore_xmlns |-> TRUE, class_attributes |-> {},
   tokenize |-> TRUE, verbatim |-> {}, block |-> {}, inline |-> {}, lower |-> NoMap,
   elements |-> {El("a"), El("b"), El("c"), El("d")}]

\* No token list.
Untokenized == [Plain EXCEPT !.tokenize = FALSE]

\* CascadeMetaContext; metaname e is an alias_for a.
Cascade ==
  [Plain EXCEPT !.cascade_meta_context = TRUE, !.metanames = @ \cup {<<"e">>},
     !.meta_alias = <<"e">> :> <<"a">>, !.elements = {El("a"), El("b"), El("e"), El("d")}]

\* Metaname e is an alias_for a, the tag title an alias of the tag a; b is verbatim.
Alias ==
  [Plain EXCEPT !.metanames = @ \cup {<<"e">>}, !.meta_alias = <<"e">> :> <<"a">>,
     !.tag_aliases = <<"title">> :> <<"a">>, !.verbatim = {<<"b">>},
     !.elements = {El("a"), El("e"), El("title"), El("b")}]

\* Property q is nested in p, which is an alias_for t.
PropAliased ==
  [Plain EXCEPT !.metanames = Bare, !.properties = {<<"p">>, <<"q">>, <<"t">>},
     !.prop_alias = <<"p">> :> <<"t">>, !.elements = {El("p"), El("q")}]

\* An attribute that is a metaname and one that is indexed with the text.
Attrs ==
  [Plain EXCEPT !.metanames = Bare \cup {<<"a">>, <<"div", "size">>},
     !.undef_attrs = "index",
     !.elements = {El("div"), ElAttr("div", "size", "s"), ElAttr("a", "size", "s")}]

\* The document teaches the configuration.
Autoall ==
  [Attrs EXCEPT !.metanames = Bare, !.properties = {},
     !.undef_metas = "autoall", !.undef_attrs = "autoall"]

\* Undefined tags are errors, prefixes count, upper case does not.
Refusing ==
  [Attrs EXCEPT !.metanames = @ \cup {<<"x", "d">>}, !.undef_metas = "error",
     !.ignore_xmlns = FALSE, !.lower = "A" :> "a",
     !.tag_aliases = <<"title">> :> <<"a">>,
     !.elements = {El("A"), ElAttr("div", "size", "s"), El("title"), ElNs("x", "d"),
                   ElNs("y", "d")}]
\* Undefined attributes are errors.
RefusingAttrs == [Attrs EXCEPT !.undef_attrs = "error"]

\* A metaname, and a property, named by their DOM path.
DomBoth ==
  [Plain EXCEPT !.metanames = Bare \cup {<<"doc", "one">>}, !.properties = {<<"doc", "one">>},
     !.elements = {El("doc"), El("one")}]
DomMeta == [DomBoth EXCEPT !.properties = {}]

\* XMLClassAttributes.
Class ==
  [Plain EXCEPT !.metanames = Bare \cup {<<"div", "x">>}, !.properties = {},
     !.class_attributes = {"class"},
     !.elements = {El("div"), ElAttr("div", "class", "x")}]

\* HTML: <p> is a block element, <b> an inline one, foo a metaname.
Html ==
  [Plain EXCEPT !.is_html = TRUE, !.metanames = Bare \cup {<<"foo">>}, !.properties = {},
     !.block = {<<"meta">>, <<"p">>}, !.inline = {<<"b">>},
     !.elements = {El("p"), El("b"), ElAttr("meta", "foo", "x")}]
UndefinedMetas == {El("p"), ElAttr("meta", "foo", "x"), ElAttr("meta", "bar", "x"),
                   ElAttr("meta", "bar", NoContent)}
HtmlAutoall  == [Html EXCEPT !.undef_metas = "autoall", !.elements = UndefinedMetas]
HtmlRefusing == [Html EXCEPT !.undef_metas = "error", !.elements = UndefinedMetas]
HtmlIgnore   == [Html EXCEPT !.undef_metas = "ignore", !.elements = UndefinedMetas]
HtmlCapital  == [Html EXCEPT !.metanames = Bare, !.undef_metas = "auto",
                   !.lower = "Foo" :> "foo", !.elements = {ElAttr("meta", "Foo", "x")}]

\* A <meta> inside <p> is a metaname by its DOM path.
HtmlPath     == [Html EXCEPT !.metanames = Bare \cup {<<"foo">>, <<"p", "meta">>},
                   !.elements = {El("p"), ElAttr("meta", "foo", "x")}]

XmlConfigs    == {Plain, Cascade, Alias, Attrs, Autoall, Refusing, RefusingAttrs}
HtmlConfigs   == {Html, HtmlAutoall, HtmlRefusing}
PathConfigs   == {Untokenized, DomBoth, DomMeta, Class, PropAliased, HtmlIgnore, HtmlCapital, HtmlPath}
DomMetaOnly   == {DomMeta}
ClassOnly     == {Class}
PlainOnly     == {Plain}
HtmlIgnoreOnly == {HtmlIgnore}
=============================================================================
