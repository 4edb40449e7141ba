------------------------------ MODULE DocStream ------------------------------
(***************************************************************************)
(* What swish_parse_fh and swish_parse_buffer promise to whoever sends     *)
(* them documents: each document reaches the handler once, in order, with  *)
(* its own header and its own body, up to the first one that is not as it  *)
(* should be.  After that anything may be delivered, or the reader may     *)
(* give up; it never gives up, and never returns early, on account of      *)
(* documents that are as they should be, and a sender that dies inside     *)
(* one of those does not go unnoticed.                                     *)
(***************************************************************************)
EXTENDS Integers, Sequences

CONSTANTS
  Documents,     \* what can be sent
  Intact(_),     \* is this document as it should be?
  Promise(_),    \* what the handler is to see of it
  MaxDocs        \* bound on the documents sent

VARIABLES
  sent, cut,     \* the documents sent; did the sender die inside the last one?
  closed,        \* nothing more will come
  delivered,     \* what the handler has seen
  status         \* "reading", "returned", "croaked"

vars == <<sent, cut, closed, delivered, status>>

Last     == Len(sent)
Whole(i) == Intact(sent[i]) /\ ~(cut /\ i = Last)
Sound(n) == \A i \in 1..Last : i <= n => Whole(i)

\* The sender died inside a document that would have been delivered.
Truncated == cut /\ Intact(sent[Last]) /\ Sound(Last - 1)

Init ==
  /\ sent = << >> /\ ~cut /\ ~closed
  /\ delivered = << >> /\ status = "reading"

Send(doc) ==
  /\ ~closed /\ Last < MaxDocs
  /\ sent' = Append(sent, doc)
  /\ cut' \in BOOLEAN /\ closed' = cut'
  /\ UNCHANGED <<delivered, status>>

Close == ~closed /\ closed' = TRUE /\ UNCHANGED <<sent, cut, delivered, status>>

Deliver ==
  LET n == Len(delivered) + 1
  IN /\ status = "reading"
     /\ Len(delivered') = n /\ SubSeq(delivered', 1, n - 1) = delivered
     /\ Sound(n) => n <= Last /\ delivered'[n] = Promise(sent[n])
     /\ UNCHANGED <<sent, cut, closed, status>>

GiveUp ==
  /\ status = "reading" /\ ~Sound(Len(delivered) + 1)
  /\ status' = "croaked"
  /\ UNCHANGED <<sent, cut, closed, delivered>>

Return ==
  /\ status = "reading" /\ closed
  /\ Sound(Last) => Len(delivered) = Last
  /\ ~Truncated
  /\ status' = "returned"
  /\ UNCHANGED <<sent, cut, closed, delivered>>

Next == (\E doc \in Documents : Send(doc)) \/ Close \/ Deliver \/ GiveUp \/ Return

Spec == Init /\ [][Next]_vars
=============================================================================
