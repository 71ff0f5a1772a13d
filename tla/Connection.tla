----------------------------- MODULE Connection -----------------------------
(***************************************************************************)
(* One connection task (handle_connection in rspf/src/server.rs) over the  *)
(* codec (rspf/src/proto/codec.rs) and the parser of requests              *)
(* (rspf/src/proto/request.rs): bytes arrive in pieces, the buffer is cut  *)
(* at blank lines, each request is handled and its reply written before    *)
(* the next is looked at.  A byte is a newline, an "=" or anything else;   *)
(* the reply is told by the request it answers.                            *)
(***************************************************************************)
EXTENDS Naturals, Sequences, SequencesExt

CONSTANTS Byte, NL, EQ,
          MaxBytes,  \* bound on what the client writes
          Window     \* the replies the socket holds until the client reads

ASSUME ByteAssumption == NL \in Byte /\ EQ \in Byte /\ NL # EQ
ASSUME BoundAssumption == MaxBytes \in Nat /\ Window \in Nat \ {0}

VARIABLES sent,      \* history: the bytes the client has written
          hungup,    \* whether it has closed its side
          gone,      \* whether it has broken the connection off
          stopping,  \* the CancellationToken
          replies,   \* history: the requests whose replies were written
          taken,     \* how many of these the client has read
          arrived,   \* how many of the bytes the task has read
          buf,       \* the read buffer of Framed
          eof,       \* whether Framed has read the end of the stream
          pc,        \* "next", "handle", "send" or "closed"
          req        \* the request at hand: the set of its lines

vars == <<sent, hungup, gone, stopping, replies, taken, arrived, buf, eof, pc, req>>

client == <<sent, hungup, gone, taken>>

Init == /\ sent = << >> /\ hungup = FALSE /\ gone = FALSE
        /\ stopping = FALSE
        /\ replies = << >> /\ taken = 0
        /\ arrived = 0 /\ buf = << >> /\ eof = FALSE
        /\ pc = "next" /\ req = {}

-----------------------------------------------------------------------------
(* The codec. *)

Terminators(bytes) ==
    {i \in 1..(Len(bytes) - 1) : bytes[i] = NL /\ bytes[i + 1] = NL}

\* The first of them (find_double_newline).
TerminatorAt(bytes) == CHOOSE i \in Terminators(bytes) :
                          \A j \in Terminators(bytes) : i <= j

\* Mutant of Split: the terminator is taken off with one byte only.
SplitOneByte(bytes) ==
    [block |-> SubSeq(bytes, 1, TerminatorAt(bytes) - 1),
     rest  |-> SubSeq(bytes, TerminatorAt(bytes) + 1, Len(bytes))]

Split(bytes) ==
    [block |-> SubSeq(bytes, 1, TerminatorAt(bytes) - 1),
     rest  |-> SubSeq(bytes, TerminatorAt(bytes) + 2, Len(bytes))]

\* What a block is cut at: its newlines and its two edges.
Cuts(block) == {0, Len(block) + 1} \cup {i \in 1..Len(block) : block[i] = NL}

\* The lines between one cut and the next, without the empty ones.
LinesOf(block) ==
    LET pieces == {p \in Cuts(block) \X Cuts(block) :
                      p[1] < p[2] /\ \A k \in Cuts(block) : k <= p[1] \/ p[2] <= k}
    IN {SubSeq(block, p[1] + 1, p[2] - 1) : p \in pieces} \ {<< >>}

\* Mutant of Rejects: a request without lines is a request.
RejectsMalformed(lines) == \E line \in lines : EQ \notin ToSet(line)

Rejects(lines) == lines = {} \/ \E line \in lines : EQ \notin ToSet(line)

-----------------------------------------------------------------------------
(* The client, and the shutdown of the daemon. *)

ClientWrite ==
    /\ ~hungup /\ ~gone /\ Len(sent) < MaxBytes
    /\ \E b \in Byte : sent' = Append(sent, b)
    /\ UNCHANGED <<hungup, gone, stopping, replies, taken, arrived, buf, eof, pc, req>>

ClientHangUp ==
    /\ ~hungup /\ ~gone
    /\ hungup' = TRUE
    /\ UNCHANGED <<sent, gone, stopping, replies, taken, arrived, buf, eof, pc, req>>

ClientBreakOff ==
    /\ ~gone
    /\ gone' = TRUE
    /\ UNCHANGED <<sent, hungup, stopping, replies, taken, arrived, buf, eof, pc, req>>

ClientRead ==
    /\ ~gone /\ taken < Len(replies)
    /\ taken' = taken + 1
    /\ UNCHANGED <<sent, hungup, gone, stopping, replies, arrived, buf, eof, pc, req>>

Shutdown ==
    /\ ~stopping
    /\ stopping' = TRUE
    /\ UNCHANGED <<client, replies, arrived, buf, eof, pc, req>>

-----------------------------------------------------------------------------
(* The task. *)

\* Framed reads only when the buffer holds no whole request.
Starved == pc = "next" /\ Terminators(buf) = {} /\ ~eof

\* Mutant of ReadBytes: a read replaces what the buffer held.
ReadAfresh ==
    /\ Starved
    /\ \E n \in (arrived + 1)..Len(sent) :
          /\ buf' = SubSeq(sent, arrived + 1, n)
          /\ arrived' = n
    /\ UNCHANGED <<client, stopping, replies, eof, pc, req>>

ReadBytes ==
    /\ Starved
    /\ \E n \in (arrived + 1)..Len(sent) :
          /\ buf' = buf \o SubSeq(sent, arrived + 1, n)
          /\ arrived' = n
    /\ UNCHANGED <<client, stopping, replies, eof, pc, req>>

ReadEof ==
    /\ Starved /\ hungup /\ arrived = Len(sent)
    /\ eof' = TRUE
    /\ UNCHANGED <<client, stopping, replies, arrived, buf, pc, req>>

ReadFails ==
    /\ Starved /\ gone
    /\ pc' = "closed"
    /\ UNCHANGED <<client, stopping, replies, arrived, buf, eof, req>>

\* A malformed request ends the connection, with what is buffered after it.
Decode ==
    /\ pc = "next" /\ Terminators(buf) # {}
    /\ buf' = Split(buf).rest
    /\ LET lines == LinesOf(Split(buf).block) IN
       IF Rejects(lines)
       THEN pc' = "closed" /\ UNCHANGED req
       ELSE pc' = "handle" /\ req' = lines
    /\ UNCHANGED <<client, stopping, replies, arrived, eof>>

\* The end of the stream, with or without a rest of a request.
DecodeEof ==
    /\ pc = "next" /\ Terminators(buf) = {} /\ eof
    /\ pc' = "closed"
    /\ UNCHANGED <<client, stopping, replies, arrived, buf, eof, req>>

\* select! looks at the token only between two requests, and takes either
\* branch when both are ready.
SeeShutdown ==
    /\ pc = "next" /\ stopping
    /\ pc' = "closed"
    /\ UNCHANGED <<client, stopping, replies, arrived, buf, eof, req>>

HandleRequest ==
    /\ pc = "handle"
    /\ pc' = "send"
    /\ UNCHANGED <<client, stopping, replies, arrived, buf, eof, req>>

\* Mutant of Send: the buffer is cleared with the reply.
SendAndClear ==
    /\ pc = "send" /\ Len(replies) < taken + Window
    /\ pc' = "next" /\ replies' = Append(replies, req) /\ req' = {} /\ buf' = << >>
    /\ UNCHANGED <<client, stopping, arrived, eof>>

Send ==
    /\ pc = "send" /\ Len(replies) < taken + Window
    /\ pc' = "next" /\ replies' = Append(replies, req) /\ req' = {}
    /\ UNCHANGED <<client, stopping, arrived, buf, eof>>

SendFails ==
    /\ pc = "send" /\ gone
    /\ pc' = "closed"
    /\ UNCHANGED <<client, stopping, replies, arrived, buf, eof, req>>

Task == \/ ReadBytes \/ ReadEof \/ ReadFails \/ Decode \/ DecodeEof
        \/ SeeShutdown \/ HandleRequest \/ Send \/ SendFails

-----------------------------------------------------------------------------
Next == \/ ClientWrite \/ ClientHangUp \/ ClientBreakOff \/ ClientRead
        \/ Shutdown \/ Task

Spec == Init /\ [][Next]_vars

\* The task is scheduled and its checks end, and the client reads the replies
\* to what it asks.
FairSpec == Spec /\ WF_vars(Task) /\ WF_vars(ClientRead)
-----------------------------------------------------------------------------
Promise == INSTANCE PolicyStream WITH open <- pc # "closed"

AtWork == pc \in {"handle", "send"}

\* The types of the state; a request has at least one line.
TypeOK ==
    /\ sent \in Seq(Byte) /\ buf \in Seq(Byte)
    /\ hungup \in BOOLEAN /\ gone \in BOOLEAN
    /\ stopping \in BOOLEAN /\ eof \in BOOLEAN
    /\ \A i \in DOMAIN replies : replies[i] \subseteq Seq(Byte) /\ replies[i] # {}
    /\ taken \in 0..Len(replies) /\ arrived \in 0..Len(sent)
    /\ pc \in {"next", "handle", "send", "closed"}
    /\ req \subseteq Seq(Byte) /\ (AtWork => req # {})

\* What was cut off the buffer is whole requests and no byte more, the ones
\* answered and the one at hand, and what is left of the bytes that arrived is
\* in it, each once and in order (codec.rs:27-33).
BufferIsTheRest ==
    pc # "closed" =>
        LET cut == Promise!EndOf(sent, Len(replies) + IF AtWork THEN 1 ELSE 0)
        IN buf = SubSeq(sent, cut + 1, arrived)

\* The promise of PolicyStream: the requests of the stream are answered one by
\* one and in order, however the bytes arrive; a client that keeps to the
\* protocol is not closed on, also one that hangs up right after its requests;
\* and every whole request is answered in the end (server.rs:157-186).
KeepsPromise == Promise!Spec
=============================================================================
