------------------------------- MODULE Stream -------------------------------
(***************************************************************************)
(* One response of POST /v1/redact/stream (app/api/stream.py): the chunks  *)
(* of split_chunks, redacted and sent one by one, then the audit event,    *)
(* then [DONE].                                                            *)
(*                                                                         *)
(* A text is the sequence of the UTF-8 widths of its characters and a      *)
(* chunk the half-open range it covers.  The generator is cut where it     *)
(* awaits or yields; the client may be gone at each of these.  What is     *)
(* done to a chunk is in Redaction, the admission of the request in        *)
(* ApiServer.                                                              *)
(***************************************************************************)
EXTENDS Naturals, Sequences, FiniteSetsExt

CONSTANTS
  MaxLength,    \* characters of a text
  Widths,       \* bytes of a character
  ChunkBytes,   \* settings.stream_chunk_bytes
  Faults

FaultKinds ==
  {"timeout",      \* the deadline of the stream or of a chunk passes
   "detector",     \* the redaction of a chunk fails
   "audit",        \* the audit event is not written
   "disconnect"}   \* the client goes away

StreamAssumption ==
  /\ MaxLength \in Nat \ {0} /\ Widths \subseteq Nat \ {0} /\ ChunkBytes \in Nat \ {0}
  /\ Faults \subseteq FaultKinds

VARIABLES
  required,  \* settings.audit_required
  text,      \* StreamRequest.text
  chars,     \* StreamRequest.chunk_chars, or its default
  pc,        \* "chunk", "send", "audit", "mark", "over"
  start,     \* where the next chunk starts
  sent,      \* the chunks the client has got
  closing,   \* the event the stream ended with, if any
  line       \* the audit event is in the log

request == <<required, text, chars>>
vars == <<request, pc, start, sent, closing, line>>

-----------------------------------------------------------------------------
(* split_chunks: the longest range from i within both budgets, or one      *)
(* character that is too wide.                                             *)
Bytes(w, i, j) == FoldSet(LAMBDA k, n : w[k] + n, 0, (i + 1)..j)
Fits(i) == {j \in (i + 1)..Min({i + chars, Len(text)}) : Bytes(text, i, j) <= ChunkBytes}
BugEndBytes(i) == Min({i + chars, Len(text)})
End(i) == IF Fits(i) = {} THEN i + 1 ELSE Max(Fits(i))

-----------------------------------------------------------------------------
Init ==
  /\ required \in BOOLEAN
  /\ text \in UNION {[1..n -> Widths] : n \in 1..MaxLength}
  /\ chars \in 1..MaxLength
  /\ pc = "chunk" /\ start = 0 /\ sent = <<>>
  /\ closing = "none" /\ line = FALSE

Goto(l) == pc' = l /\ UNCHANGED <<request, closing>>
(* The last event, or the client is not there to get it. *)
Close(e) == pc' = "over" /\ closing' = e /\ UNCHANGED request

(* The time left is looked at, then the chunk is redacted. *)
Chunk ==
  /\ pc = "chunk" /\ start < Len(text)
  /\ \/ Goto("send")
     \/ "timeout" \in Faults /\ Close("timeout")
     \/ "detector" \in Faults /\ Close("error")
  /\ UNCHANGED <<start, sent, line>>

Send ==
  /\ pc = "send"
  /\ sent' = Append(sent, <<start, End(start)>>)
  /\ start' = End(start)
  /\ Goto("chunk")
  /\ UNCHANGED line

BugChunked ==
  /\ pc = "chunk" /\ start > Len(text)
  /\ Goto("audit")
  /\ UNCHANGED <<start, sent, line>>
Chunked ==
  /\ pc = "chunk" /\ start >= Len(text)
  /\ Goto("audit")
  /\ UNCHANGED <<start, sent, line>>

(* audit.record: a failure is raised only in required mode; the event may  *)
(* be in the log all the same.                                             *)
Audit ==
  /\ pc = "audit"
  /\ \/ line' = TRUE /\ Goto("mark")
     \/ "audit" \in Faults /\ required /\ line' \in BOOLEAN /\ Close("error")
     \/ "audit" \in Faults /\ ~required /\ line' = FALSE /\ Goto("mark")
  /\ UNCHANGED <<start, sent>>

Mark ==
  /\ pc = "mark"
  /\ Close("[DONE]")
  /\ UNCHANGED <<start, sent, line>>

(* CancelledError or GeneratorExit; a line that is being written stays.    *)
Disconnect ==
  /\ "disconnect" \in Faults /\ pc # "over"
  /\ Close("cancelled")
  /\ line' \in IF pc = "audit" THEN BOOLEAN ELSE {line}
  /\ UNCHANGED <<start, sent>>

Step == Chunk \/ Send \/ Chunked \/ Audit \/ Mark
Next == Step \/ Disconnect
Spec == Init /\ [][Next]_vars
-----------------------------------------------------------------------------
(* Properties.                                                             *)

(* The chunks tile the text: each starts where the last one ended, is not  *)
(* empty, and is within both budgets unless it is one wide character       *)
(* (split_chunks).                                                         *)
Tiled ==
  \A n \in DOMAIN sent :
    LET i == sent[n][1]
        j == sent[n][2]
    IN  /\ i = (IF n = 1 THEN 0 ELSE sent[n - 1][2])
        /\ i < j /\ j - i <= chars
        /\ Bytes(text, i, j) <= ChunkBytes \/ j = i + 1

(* [DONE] follows the whole text and its audit event (the order of         *)
(* event_source's yields and its audit call).                              *)
DoneIsComplete ==
  closing = "[DONE]" =>
    /\ sent # <<>> /\ sent[Len(sent)][2] = Len(text)
    /\ required => line

Over == pc = "over"
=============================================================================
