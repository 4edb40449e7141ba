---------------------------- MODULE HeaderStream ----------------------------
(***************************************************************************)
(* How src/libswish3/parser.c finds the documents in what it is given:     *)
(* swish_parse_fh, which reads a stream of documents each with a header,   *)
(* and swish_parse_buffer, which is given one such document in memory.     *)
(* The sender is another process (or the caller), so the stream grows      *)
(* while it is read and may end in the middle of a document.               *)
(*                                                                         *)
(* The stream is a sequence of bytes.  The text of one header line counts  *)
(* as one byte, of the kind of its field; the body is made of bytes of     *)
(* kind "text" and newlines.                                               *)
(***************************************************************************)
EXTENDS Integers, Sequences

CONSTANTS
  Documents,       \* the documents that a sender may send
  Entries,         \* which of the two functions: "fh", "buffer"
  MaxHeaders,      \* SWISH_MAX_HEADERS
  Mimes, Parsers,  \* config->mimes by name, config->parsers by MIME type
  DefaultMime, DefaultParser,
  MaxDocs          \* bound: documents sent

MinHeaders   == 2                            \* min_headers
NULL         == "(NULL)"                     \* a value that is there may be empty
KnownParsers == {"XML", "HTML", "TXT"}
Named        == {"Content-Length", "Content-Location", "Last-Modified",
                 "Content-Type", "Parser-Type", "Action"}
Fields       == Named \cup {"unknown"}

Byte(kind, num, str) == [kind |-> kind, num |-> num, str |-> str]
NL   == Byte("newline", 0, NULL)
TEXT == Byte("text", 0, NULL)

VARIABLES
  entry,           \* the function that reads
  \* the sender
  sent, cut, closed,
  pipe,            \* what is sent and not yet read, or the buffer given
  \* swish_parse_fh
  stage,           \* "head" or "body"
  head_buf,        \* its lines
  docinfo,         \* of the document whose body comes next
  \* results
  delivered,       \* what the handler was called with
  status           \* "reading", "returned", "croaked"

senderVars == <<entry, sent, cut, closed>>
readerVars == <<stage, head_buf, docinfo>>
vars == <<senderVars, pipe, readerVars, delivered, status>>

HeaderLines == [kind : Fields, num : Nat \cup {-1}, str : STRING]
IsHeader(byte) == byte.kind \in Fields

Strings == {"Content-Location", "Content-Type", "Parser-Type", "Action"}

ASSUME DocumentAssumption ==
  \A doc \in Documents : doc.headers \in Seq(HeaderLines) /\ doc.body \in Seq({NL, TEXT})
ASSUME ValueAssumption ==
  \A doc \in Documents : \A i \in 1..Len(doc.headers) :
    doc.headers[i].kind \in Strings => doc.headers[i].str # NULL
ASSUME EntryAssumption == Entries \subseteq {"fh", "buffer"}
ASSUME BoundAssumption == MaxHeaders \in Nat /\ MaxHeaders >= MinHeaders /\ MaxDocs \in Nat
ASSUME ParserAssumption ==
  DefaultParser \in KnownParsers /\ \A m \in DOMAIN Parsers : Parsers[m] \in KnownParsers

\* A document as it is sent: header lines, a blank line, the body.
Written(doc) ==
  LET n == Len(doc.headers)
  IN [i \in 1..(2 * n + 1) |->
        IF i % 2 = 1 /\ i < 2 * n THEN doc.headers[(i + 1) \div 2] ELSE NL] \o doc.body

-----------------------------------------------------------------------------
(* From header lines to a DocInfo: buf_to_head, head_to_docinfo and        *)
(* swish_docinfo_check.                                                    *)

\* buf_to_head keeps the first SWISH_MAX_HEADERS lines.
Kept(lines) == IF Len(lines) <= MaxHeaders THEN lines ELSE SubSeq(lines, 1, MaxHeaders)

\* "bad header line": no colon in it.
BadLine(line) == \A i \in 1..Len(line) : ~IsHeader(line[i])

\* A field is recognized at the start of its line; the last such line counts.
LinesOf(head, field) == {i \in 1..Len(head) : head[i][1].kind = field}
LastOf(head, field) ==
  head[CHOOSE i \in LinesOf(head, field) : \A j \in LinesOf(head, field) : j <= i][1]
NumOf(head, field) == IF LinesOf(head, field) = {} THEN 0 ELSE LastOf(head, field).num
StrOf(head, field) == IF LinesOf(head, field) = {} THEN NULL ELSE LastOf(head, field).str

\* The line of Action is compared over 11 bytes, which no line matches: the action
\* that SWISH::3::Headers writes there never reaches the handler.
DocInfoOf(head) ==
  [size   |-> NumOf(head, "Content-Length"),
   mtime  |-> NumOf(head, "Last-Modified"),
   uri    |-> StrOf(head, "Content-Location"),
   mime   |-> StrOf(head, "Content-Type"),
   parser |-> StrOf(head, "Parser-Type"),
   action |-> NULL]

NoInfo == DocInfoOf(<< >>)

\* Fault: only a missing Content-Length is refused, not a zero.
HeadFailsUnlessZero(head) ==
  \/ \E i \in 1..Len(head) : BadLine(head[i])
  \/ DocInfoOf(head).uri = NULL \/ DocInfoOf(head).size = -1

\* head_to_docinfo or swish_docinfo_check croaks.
HeadFails(head) ==
  \/ \E i \in 1..Len(head) : BadLine(head[i])
  \/ DocInfoOf(head).uri = NULL \/ DocInfoOf(head).size \in {-1, 0}

MimeOf(uri)    == IF uri \in DOMAIN Mimes THEN Mimes[uri] ELSE DefaultMime
ParserOf(mime) == IF mime \in DOMAIN Parsers THEN Parsers[mime] ELSE DefaultParser

\* swish_docinfo_check fills in what the header leaves out.
Checked(info) ==
  LET mime == IF info.mime = NULL THEN MimeOf(info.uri) ELSE info.mime
  IN [info EXCEPT !.mime = mime,
                  !.parser = IF info.parser = NULL THEN ParserOf(mime) ELSE info.parser]

-----------------------------------------------------------------------------
(* The sender.                                                             *)

Init ==
  /\ entry \in Entries
  /\ sent = << >> /\ cut = FALSE /\ closed = FALSE /\ pipe = << >>
  /\ stage = "head" /\ head_buf = << >> /\ docinfo = NoInfo
  /\ delivered = << >> /\ status = "reading"

\* A caller of swish_parse_buffer has the last document parsed first.
Send(doc) ==
  /\ ~closed /\ Len(sent) < MaxDocs
  /\ entry = "buffer" => pipe = << >> /\ status = "reading"
  /\ sent' = Append(sent, doc)
  /\ pipe' = pipe \o Written(doc)
  /\ UNCHANGED <<entry, cut, closed, readerVars, delivered, status>>

\* The sender dies after the first n bytes of a document.
SendPart(doc, n) ==
  /\ ~closed /\ Len(sent) < MaxDocs /\ entry = "fh"
  /\ sent' = Append(sent, doc)
  /\ pipe' = pipe \o SubSeq(Written(doc), 1, n)
  /\ cut' = TRUE /\ closed' = TRUE
  /\ UNCHANGED <<entry, readerVars, delivered, status>>

Close ==
  /\ ~closed /\ closed' = TRUE
  /\ UNCHANGED <<entry, sent, cut, pipe, readerVars, delivered, status>>

-----------------------------------------------------------------------------
(* swish_parse_fh.                                                         *)

Reading(s) == status = "reading" /\ entry = "fh" /\ stage = s

\* fgets waits for a line, or for the end of the stream.
Newlines == {i \in 1..Len(pipe) : pipe[i] = NL}
LineEnd  == IF Newlines = {} THEN Len(pipe) + 1
            ELSE CHOOSE i \in Newlines : \A j \in Newlines : i <= j
Line     == SubSeq(pipe, 1, LineEnd - 1)
GotLine  == Newlines # {} \/ (closed /\ pipe # << >>)
Drop(n)  == SubSeq(pipe, n + 1, Len(pipe))

Croak ==
  /\ status' = "croaked"
  /\ UNCHANGED <<senderVars, pipe, readerVars, delivered>>

ReadHeader ==
  /\ Reading("head") /\ GotLine /\ Line # << >>
  /\ head_buf' = Append(head_buf, Line)
  /\ pipe' = Drop(LineEnd)
  /\ UNCHANGED <<senderVars, stage, docinfo, delivered, status>>

\* "Not enough header lines reading from filehandle"
TooFewHeaders ==
  /\ Reading("head") /\ GotLine /\ Line = << >> /\ Len(head_buf) < MinHeaders
  /\ Croak

\* A blank line: the header is parsed, which may croak.
ReadBlank ==
  /\ Reading("head") /\ GotLine /\ Line = << >> /\ Len(head_buf) >= MinHeaders
  /\ \/ HeadFails(Kept(head_buf)) /\ Croak
     \/ /\ ~HeadFails(Kept(head_buf))
        /\ docinfo' = Checked(DocInfoOf(Kept(head_buf)))
        /\ stage' = "body" /\ pipe' = Drop(LineEnd)
        /\ UNCHANGED <<senderVars, head_buf, delivered, status>>

\* docparser reads the body and the handler is called.
Handle(info, body) == delivered' = Append(delivered, [info |-> info, body |-> body])

\* Fault: the header of this document stays for the next.
ReadBodyKeepHead ==
  /\ Reading("body") /\ Len(pipe) >= docinfo.size /\ docinfo.parser \in KnownParsers
  /\ Handle(docinfo, SubSeq(pipe, 1, docinfo.size)) /\ pipe' = Drop(docinfo.size)
  /\ stage' = "head" /\ docinfo' = NoInfo
  /\ UNCHANGED <<senderVars, head_buf, status>>

\* Fault: the body is only known to be complete when more than it has come.
ReadBodyLate ==
  /\ Reading("body") /\ (Len(pipe) > docinfo.size \/ (closed /\ Len(pipe) = docinfo.size))
  /\ docinfo.parser \in KnownParsers
  /\ Handle(docinfo, SubSeq(pipe, 1, docinfo.size)) /\ pipe' = Drop(docinfo.size)
  /\ stage' = "head" /\ head_buf' = << >> /\ docinfo' = NoInfo
  /\ UNCHANGED <<senderVars, status>>

\* swish_io_slurp_fh, docparser, the handler, and the reset for the next one.
ReadBody ==
  /\ Reading("body") /\ Len(pipe) >= docinfo.size /\ docinfo.parser \in KnownParsers
  /\ Handle(docinfo, SubSeq(pipe, 1, docinfo.size)) /\ pipe' = Drop(docinfo.size)
  /\ stage' = "head" /\ head_buf' = << >> /\ docinfo' = NoInfo
  /\ UNCHANGED <<senderVars, status>>

\* docparser: "no parser known for MIME"
UnknownParser ==
  /\ Reading("body") /\ Len(pipe) >= docinfo.size /\ docinfo.parser \notin KnownParsers
  /\ Croak

\* "did not read expected bytes"
ShortBody == Reading("body") /\ closed /\ Len(pipe) < docinfo.size /\ Croak

Finish(s) == status' = s /\ UNCHANGED <<senderVars, pipe, readerVars, delivered>>

\* Fault: the end is only noticed where a header may begin.
EndOfInputClean ==
  Reading("head") /\ closed /\ pipe = << >> /\ head_buf = << >> /\ Finish("returned")

\* fgets returns NULL.  "Some unparsed header lines remaining"
EndOfInput ==
  /\ Reading("head") /\ closed /\ pipe = << >>
  /\ Finish(IF head_buf = << >> THEN "returned" ELSE "croaked")

-----------------------------------------------------------------------------
(* swish_parse_buffer, once for each document.                             *)

\* The first blank line after header lines, and those lines.
Blanks      == {i \in Newlines : i > 1 /\ pipe[i - 1] = NL}
BlankAt     == CHOOSE i \in Blanks : \A j \in Blanks : i <= j
BufferLines == [i \in 1..((BlankAt - 1) \div 2) |-> <<pipe[2 * i - 1]>>]

\* body_start stays 0 if the lines that buf_to_head keeps end before the blank one.
BodyStart == IF Len(BufferLines) <= MaxHeaders THEN BlankAt ELSE 0

GotBuffer == status = "reading" /\ entry = "buffer" /\ pipe # << >>

\* "illegal newline to start doc header"
BufferWithoutHead == GotBuffer /\ pipe[1] = NL /\ Croak

\* The length of the buffer counts, not Content-Length.
ParseBuffer ==
  /\ GotBuffer /\ pipe[1] # NL
  /\ LET head == Kept(BufferLines)
         info == Checked(DocInfoOf(head))
         bad  == HeadFails(head) \/ info.parser \notin KnownParsers
     IN IF bad
        THEN Croak
        ELSE /\ Handle(info, Drop(BodyStart)) /\ pipe' = << >>
             /\ UNCHANGED <<senderVars, readerVars, status>>

\* The caller has no more documents.
EndOfBuffers ==
  status = "reading" /\ entry = "buffer" /\ closed /\ pipe = << >> /\ Finish("returned")

Sender ==
  \/ \E doc \in Documents : Send(doc) \/ \E n \in 1..(Len(Written(doc)) - 1) : SendPart(doc, n)
  \/ Close

Reader ==
  \/ ReadHeader \/ TooFewHeaders \/ ReadBlank \/ ReadBody \/ UnknownParser \/ ShortBody
  \/ EndOfInput \/ BufferWithoutHead \/ ParseBuffer \/ EndOfBuffers

Next == Sender \/ Reader

\* The reader is a loop that waits for nothing but its input.
Spec == Init /\ [][Next]_vars /\ WF_vars(Reader)

-----------------------------------------------------------------------------
(* The properties.                                                         *)

\* The variables have their types; once a header is read, the size of the
\* body to come is positive and the document has a name, since a zero size or a
\* missing name was refused (swish_docinfo_check).
TypeOK ==
  /\ entry \in Entries /\ cut \in BOOLEAN /\ closed \in BOOLEAN
  /\ stage \in {"head", "body"} /\ status \in {"reading", "returned", "croaked"}
  /\ Len(sent) <= MaxDocs /\ \A i \in 1..Len(sent) : sent[i] \in Documents
  /\ \A i \in 1..Len(head_buf) : head_buf[i] # << >>
  /\ stage = "body" => docinfo.size > 0 /\ docinfo.uri # NULL
  /\ docinfo # NoInfo <=> stage = "body"

\* What a sender must keep to: between two and SWISH_MAX_HEADERS header lines,
\* a named field at most once, a name, the length of the body and a parser.
Value(doc, field, default) ==
  LET fits(h) == h.kind = field
  IN IF \E i \in 1..Len(doc.headers) : fits(doc.headers[i])
     THEN doc.headers[CHOOSE i \in 1..Len(doc.headers) : fits(doc.headers[i])]
     ELSE default

Length(doc)    == Value(doc, "Content-Length", NL).num
Modified(doc)  == Value(doc, "Last-Modified", NL).num
Location(doc)  == Value(doc, "Content-Location", NL).str
Type(doc)      == LET t == Value(doc, "Content-Type", NL).str
                  IN IF t = NULL THEN MimeOf(Location(doc)) ELSE t
ParserType(doc) == LET p == Value(doc, "Parser-Type", NL).str
                   IN IF p = NULL THEN ParserOf(Type(doc)) ELSE p

Intact(doc) ==
  /\ Len(doc.headers) \in MinHeaders..MaxHeaders
  /\ \A i, j \in 1..Len(doc.headers) :
       doc.headers[i].kind = doc.headers[j].kind /\ i # j => doc.headers[i].kind \notin Named
  /\ Len(doc.body) = Length(doc) /\ Length(doc) > 0
  /\ Location(doc) # NULL
  /\ ParserType(doc) \in KnownParsers

\* What the handler is to see: all of it but the Action (see DocInfoOf).
Promise(doc) ==
  [info |-> [size |-> Length(doc), mtime |-> Modified(doc), uri |-> Location(doc),
             mime |-> Type(doc), parser |-> ParserType(doc), action |-> NULL],
   body |-> doc.body]

DS == INSTANCE DocStream WITH
        Documents <- Documents, Intact <- Intact, Promise <- Promise, MaxDocs <- MaxDocs,
        sent <- sent, cut <- cut, closed <- closed, delivered <- delivered, status <- status

\* Every document that is as it should be is delivered once, in order, with its
\* own header and body, however the sender and swish_parse_fh interleave; the
\* function gives up only after one that is not, and notices a truncated one.
ImplementsDocStream == DS!Spec

\* swish_parse_fh never waits for a sender that has gone: it returns or croaks.
AlwaysAnswers == closed ~> status # "reading"

\* A document is delivered without waiting for the next one or for the end of
\* the stream (the fread of swish_io_slurp_fh asks for no more than the body).
DeliversPromptly ==
  \A i \in 1..MaxDocs : (Len(sent) >= i /\ DS!Sound(i)) ~> Len(delivered) >= i
=============================================================================
