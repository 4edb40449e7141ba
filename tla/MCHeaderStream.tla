--------------------------- MODULE MCHeaderStream ---------------------------
(***************************************************************************)
(* Small documents for HeaderStream: some as they should be, and one for   *)
(* each way in which a header can fail.                                    *)
(***************************************************************************)
EXTENDS HeaderStream, TLC

Size(n)   == Byte("Content-Length", n, NULL)
Uri(u)    == Byte("Content-Location", 0, u)
Mime(m)   == Byte("Content-Type", 0, m)
Parse(p)  == Byte("Parser-Type", 0, p)
Mtime(t)  == Byte("Last-Modified", t, NULL)
Action(a) == Byte("Action", 0, a)
Unknown   == Byte("unknown", 0, NULL)
Doc(headers, body) == [headers |-> headers, body |-> body]

Good ==
  {Doc(<<Size(2), Uri("a.html")>>, <<TEXT, NL>>),            \* MIME and parser looked up
   Doc(<<Uri("b"), Mime("xml"), Size(1)>>, <<NL>>),          \* a body that looks like a blank line
   Doc(<<Unknown, Size(1), Mime(""), Uri("c"), Parse("TXT")>>, <<TEXT>>)}

Bad ==
  {Doc(<<Size(3), Uri("d")>>, <<TEXT>>),                     \* Content-Length too long,
   Doc(<<Size(1), Uri("e")>>, <<TEXT, TEXT>>),               \* too short,
   Doc(<<Size(0), Uri("f")>>, << >>),                        \* zero,
   Doc(<<Size(1), Size(2), Uri("g")>>, <<TEXT>>),            \* given twice
   Doc(<<Mtime(1), Size(1)>>, <<TEXT>>),                     \* no name
   Doc(<<Size(1), Uri("h"), Parse("PDF")>>, <<TEXT>>),       \* no such parser,
   Doc(<<Size(1), Uri("k"), Parse("")>>, <<TEXT>>),          \* an empty one
   Doc(<<Size(1)>>, <<TEXT>>),                               \* too few header lines,
   Doc(<< >>, <<TEXT>>),                                     \* none,
   Doc(<<Mtime(1), Mime("xml"), Unknown, Size(1), Uri("i")>>, <<TEXT>>)}  \* too many

Acting == Doc(<<Action("delete"), Size(1), Uri("j"), Mtime(1)>>, <<TEXT>>)

MCDocuments == Good \cup Bad \cup {Acting}
MCMimes     == [u \in {"a.html"} |-> "html"]
MCParsers   == ("html" :> "HTML") @@ ("xml" :> "XML")
=============================================================================
