---------------------------- MODULE PolicyStream ----------------------------
(***************************************************************************)
(* What one connection to the policy service promises its client, whatever *)
(* the reads, buffers and pauses in between: the stream of bytes stands    *)
(* for a sequence of requests, and they are answered one by one, in order, *)
(* up to the first malformed one.  Connection implements it.               *)
(***************************************************************************)
EXTENDS Naturals, Sequences, FiniteSets

CONSTANTS Byte, NL, EQ

VARIABLES sent,      \* the bytes the client has written
          hungup,    \* whether it has closed its side
          gone,      \* whether it has broken the connection off
          stopping,  \* whether the service is being shut down
          replies,   \* the requests answered, each as the set of its lines
          open       \* whether the service keeps the connection

vars == <<sent, hungup, gone, stopping, replies, open>>

-----------------------------------------------------------------------------
(* The requests of a stream, defined by the places where they end: after   *)
(* each even number of newlines in a row.                                  *)

\* The newlines from j to i are all there are in a row up to i.
Run(s, j, i) == /\ \A k \in j..i : s[k] = NL
                /\ j = 1 \/ s[j - 1] # NL

Ends(s) == {i \in 1..Len(s) : \E j \in 1..i : Run(s, j, i) /\ (i - j) % 2 = 1}

\* Where the n-th request ends; the zeroth one before the first byte.
EndOf(s, n) ==
    IF n = 0 THEN 0
    ELSE CHOOSE e \in Ends(s) : Cardinality({d \in Ends(s) : d <= e}) = n

Block(s, n) == SubSeq(s, EndOf(s, n - 1) + 1, EndOf(s, n) - 2)

\* The lines of a block: its longest stretches without a newline.
Stretches(block) ==
    {r \in (1..Len(block)) \X (1..Len(block)) :
        /\ r[1] <= r[2]
        /\ \A k \in r[1]..r[2] : block[k] # NL
        /\ r[1] = 1 \/ block[r[1] - 1] = NL
        /\ r[2] = Len(block) \/ block[r[2] + 1] = NL}

Lines(block) == {SubSeq(block, r[1], r[2]) : r \in Stretches(block)}

WellFormed(block) ==
    /\ Lines(block) # {}
    /\ \A line \in Lines(block) : \E i \in DOMAIN line : line[i] = EQ

Whole(n) == n <= Cardinality(Ends(sent))

NextOne == Len(replies) + 1

-----------------------------------------------------------------------------
Init == /\ sent = << >> /\ hungup = FALSE /\ gone = FALSE
        /\ stopping = FALSE /\ replies = << >> /\ open = TRUE

Write == /\ ~hungup /\ ~gone
         /\ \E b \in Byte : sent' = Append(sent, b)
         /\ UNCHANGED <<hungup, gone, stopping, replies, open>>

HangUp == /\ hungup' = TRUE
          /\ UNCHANGED <<sent, gone, stopping, replies, open>>

BreakOff == /\ gone' = TRUE
            /\ UNCHANGED <<sent, hungup, stopping, replies, open>>

Stop == /\ stopping' = TRUE
        /\ UNCHANGED <<sent, hungup, gone, replies, open>>

Answer == /\ open
          /\ Whole(NextOne) /\ WellFormed(Block(sent, NextOne))
          /\ replies' = Append(replies, Lines(Block(sent, NextOne)))
          /\ UNCHANGED <<sent, hungup, gone, stopping, open>>

\* The service never closes on a client that keeps to the protocol, and one
\* that hangs up is first answered what it has asked.
Close == /\ open
         /\ \/ stopping
            \/ gone
            \/ Whole(NextOne) /\ ~WellFormed(Block(sent, NextOne))
            \/ hungup /\ ~Whole(NextOne)
         /\ open' = FALSE
         /\ UNCHANGED <<sent, hungup, gone, stopping, replies>>

Next == Write \/ HangUp \/ BreakOff \/ Stop \/ Answer \/ Close

Spec == Init /\ [][Next]_vars /\ WF_vars(Answer) /\ WF_vars(Close)
=============================================================================
