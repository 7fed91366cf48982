------------------------------ MODULE MCParts -------------------------------
(***************************************************************************)
(* Three parts on the way of a streamed request that share no state: its   *)
(* rate limit, its response and its event in the shared audit list.  A     *)
(* behaviour is one of the part that is its subject; the others stay as    *)
(* they were initially.                                                    *)
(***************************************************************************)
EXTENDS Naturals, Sequences

CONSTANTS
  Calls, c1, c2, c3, c4, CallLimit, CallWindow,                     \* RateLimit
  TextLength, TextWidths, TextChunk,                \* Stream
  Records, e1, e2, e3, e4, ListLength, ListRetention,           \* RedisAudit
  Delay, LastTick, ClientFaults                          \* RateLimit and RedisAudit

VARIABLES
  subject,
  rFaults, rNow, rCount, rExpires, rPc, rBucket, rSince,
  sRequired, sText, sChars, sPc, sStart, sSent, sClosing, sLine,
  aFaults, aEvents, aStamps, aTouched, aNow, aPc, aStamp

Rate == INSTANCE RateLimit WITH
  Requests <- Calls, Limit <- CallLimit, Window <- CallWindow, MaxDelay <- Delay, Horizon <- LastTick,
  FailOpen <- TRUE, FaultSets <- ClientFaults,
  faults <- rFaults, now <- rNow, count <- rCount, expires <- rExpires, pc <- rPc,
  bucket <- rBucket, since <- rSince

Stream == INSTANCE Stream WITH
  MaxLength <- TextLength, Widths <- TextWidths, ChunkBytes <- TextChunk,
  Faults <- {"timeout", "detector", "audit", "disconnect"},
  required <- sRequired, text <- sText, chars <- sChars, pc <- sPc, start <- sStart,
  sent <- sSent, closing <- sClosing, line <- sLine

Audit == INSTANCE RedisAudit WITH
  Events <- Records, Legacy <- <<e1>>, MaxEvents <- ListLength, Retention <- ListRetention,
  MaxDelay <- Delay, Horizon <- LastTick, FaultSets <- ClientFaults,
  faults <- aFaults, events <- aEvents, stamps <- aStamps, touched <- aTouched, now <- aNow,
  pc <- aPc, stamp <- aStamp

ASSUME PartsAssumption == Rate!RateAssumption /\ Stream!StreamAssumption /\ Audit!ListAssumption

rate == <<rFaults, rNow, rCount, rExpires, rPc, rBucket, rSince>>
stream == <<sRequired, sText, sChars, sPc, sStart, sSent, sClosing, sLine>>
audit == <<aFaults, aEvents, aStamps, aTouched, aNow, aPc, aStamp>>
vars == <<subject, rate, stream, audit>>

(* The parts that are not the subject start in one of their initial states. *)
Init ==
  /\ subject \in {"rate", "stream", "audit"}
  /\ Rate!Init /\ Stream!Init /\ Audit!Init
  /\ subject # "stream" => sText = <<1>> /\ sChars = 1 /\ sRequired
  /\ subject # "rate" => "resend" \in rFaults
  /\ subject # "audit" => "resend" \in aFaults

RateNext == subject = "rate" /\ Rate!Next /\ UNCHANGED <<subject, stream, audit>>
StreamStep == subject = "stream" /\ Stream!Step /\ UNCHANGED <<subject, rate, audit>>
Disconnect == subject = "stream" /\ Stream!Disconnect /\ UNCHANGED <<subject, rate, audit>>
AuditNext == subject = "audit" /\ Audit!Next /\ UNCHANGED <<subject, rate, stream>>

Next == RateNext \/ StreamStep \/ Disconnect \/ AuditNext

(* The generator of a stream is resumed; nothing is assumed of the client. *)
Spec == Init /\ [][Next]_vars /\ WF_vars(StreamStep)

(* Failed and lost calls, and also repeated ones. *)
ClientFaultsMC == {{"store", "lost"}, {"store", "lost", "resend"}}

-----------------------------------------------------------------------------
(* RateLimit: late calls double a minute's limit at most, when its bucket  *)
(* expires under them, and a request is refused only when others have used *)
(* up the limit of its minute, whatever replies were lost (rate_limit,     *)
(* RATE_LIMIT_SCRIPT).                                                     *)
RateIsBounded == Rate!TwiceAtMost /\ Rate!RefusedOverLimit

(* Stream: the chunks tile the text within their budgets (split_chunks),   *)
(* and [DONE] follows the whole text and its audit event (event_source).   *)
StreamIsWhole == Stream!Tiled /\ Stream!DoneIsComplete

(* Stream: it ends, since every chunk makes progress, whatever is too wide *)
(* for the byte budget (split_chunks, event_source).                       *)
StreamEnds == (subject = "stream") ~> Stream!Over

(* RedisAudit: an event leaves the list only for its age or for newer      *)
(* ones, however calls overtake each other and whatever was there before:  *)
(* the timestamps stay paired with their events (APPEND_AUDIT_SCRIPT).     *)
AuditLeavesOnlyWhenDue == Audit!LeavesOnlyWhenDue
=============================================================================
