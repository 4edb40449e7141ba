------------------------------ MODULE MCSession ------------------------------
(***************************************************************************)
(* Small texts, files and programs for Session.                            *)
(***************************************************************************)
EXTENDS Session, TLC

MCLowerChar == "A" :> "a"
MCBreaks    == {" ", BUMP}

\* Every text of at most three characters, every one of four without capitals and
\* spaces, and those of five that are cut, as a text file of its own.
Chars == {"a", "A", "'", "e", " ", BUMP}          \* e is the wide one
MCChar == Chars \cup {"b", "c", "d", "f", "g", "h", "i", "j", "k", "l", "m", "n", "o", "p", "q", "t", "x"}
Texts == UNION {[1..n -> Chars] : n \in 1..3} \cup [1..4 -> Chars \ {"A", " "}]
         \cup [1..5 -> {"a", "'", BUMP}]
TextUri(t) == <<"text">> \o t

File(parser, events, chars, name) ==
  [parser |-> parser, events |-> events, chars |-> chars, name |-> name]
Xml(events, name) == File("XML", events, << >>, name)

\* What the xi:include element itself is: an element without a metaname.
Xi == 4
Including(uri, as_text) == <<Include(uri, as_text), Open(Xi), Close(Xi)>>

Main == Xml(<<Text(<<"a">>)>> \o Including(<<"part">>, FALSE)
            \o <<Open(2), Text(<<"b", " ", "c">>)>> \o Including(<<"page">>, FALSE)
            \o <<Text(<<"d">>), Close(2)>> \o Including(<<"none">>, FALSE)
            \o <<Text(<<"f">>)>>, <<"m">>)
\* Learns a name, and includes another file.
Part == Xml(<<Open(3), Text(<<"g">>), Close(3), Text(<<"h">>)>> \o Including(<<"leaf">>, FALSE)
            \o <<Text(<<"i">>)>>, <<"p">>)
Leaf == Xml(<<Open(2), Text(<<"j">>), Close(2)>>, <<"l">>)
Page == File("TXT", << >>, <<"k", " ", "'", "l">>, <<"p", "g">>)
\* As text, the file is what is written in it.
Quote == Xml(<<Open(3), Text(<<"n">>), Close(3)>> \o Including(<<"leaf">>, TRUE)
             \o <<Open(3), Text(<<"o">>), Close(3)>>, <<"q">>)
Loop  == Xml(<<Text(<<"a">>)>> \o Including(<<"loop">>, FALSE), <<"l">>)

\* Words that overrun chr[5], before every event that flushes.
Marked == Text(<<"e", "'", "'">>)
Harm   == Xml(<<Marked>> \o Including(<<"leaf">>, FALSE) \o <<Marked, Open(2), Marked, Close(2)>>
              \o Including(<<"none">>, FALSE) \o <<Marked>>, <<"h">>)

LeafRaw == [Leaf EXCEPT !.chars = <<"x", " ", "j">>]

MCFiles ==
  (<<"main">> :> Main) @@ (<<"part">> :> Part) @@ (<<"leaf">> :> LeafRaw) @@ (<<"page">> :> Page)
  @@ (<<"quote">> :> Quote) @@ (<<"loop">> :> Loop) @@ (<<"harm">> :> Harm)
  @@ [u \in {TextUri(t) : t \in Texts} |-> File("TXT", << >>, Tail(u), <<"t">>)]

Entry(uri, hidden, link) == [uri |-> uri, hidden |-> hidden, link |-> link]
MCDirectories ==
  (<<"top">> :> <<Entry(<<"leaf">>, TRUE, FALSE), Entry(<<"sub">>, FALSE, FALSE),
                  Entry(<<"leaf">>, FALSE, TRUE), Entry(<<"other">>, FALSE, TRUE),
                  Entry(<<"page">>, FALSE, FALSE)>>)
  @@ (<<"sub">> :> <<Entry(<<"leaf">>, FALSE, FALSE)>>)
  @@ (<<"other">> :> <<Entry(<<"pipe">>, FALSE, FALSE)>>)
MCDevices == {<<"pipe">>}

Setup(tokenize, follow, auto, keeps) ==
  [tokenize |-> tokenize, follow |-> follow, auto |-> auto, keeps |-> keeps, links |-> tokenize]
Case(s, files) == [setup |-> s, files |-> files]

MCCases ==
  {Case(Setup(TRUE, FALSE, FALSE, 0), <<TextUri(t)>>) : t \in Texts}
  \cup {Case(Setup(tok, fol, auto, 0), <<u, <<"quote">>>>) :
          tok, fol, auto \in BOOLEAN, u \in {<<"main">>, <<"loop">>, <<"harm">>}}
  \cup {Case(Setup(links, TRUE, FALSE, 0), <<<<"top">>, <<"none">>>>) : links \in BOOLEAN}
  \cup {Case(Setup(TRUE, TRUE, auto, 2), fs) :
          auto \in BOOLEAN, fs \in {<<<<"quote">>, <<"leaf">>>>}}

\* A program that keeps a token.
KeepingCases == {Case(Setup(TRUE, FALSE, FALSE, 1), <<<<"leaf">>>>)}
=============================================================================
