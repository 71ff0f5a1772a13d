---------------------------- MODULE PolicyService ----------------------------
(***************************************************************************)
(* What the policy service promises its clients while its operator edits   *)
(* files, reloads and restarts: every answer follows from versions of the  *)
(* files that were not rejected, none of them older than a version some    *)
(* answer had already rested on when the request was sent, in the order in *)
(* which should_skip and handle_request (rspf/src/server.rs) ask for them. *)
(*                                                                         *)
(* There is no process here, no load and no memory; Service implements it. *)
(***************************************************************************)
EXTENDS Naturals, Sequences

CONSTANTS Version,           \* what the files may say
          Client, Request, NoRequest,
          NoAnswer, Dunno,
          Accepted(_),       \* whether a version's configuration is valid
          Complete(_),       \* whether a request has what it needs
          Skips(_, _),       \* whether [skip] or [relay] exempts a request
          Lists(_, _),       \* whether the [whitelist] section does
          Files(_, _, _),    \* whether one of its files does, as it later was
          Decisions(_)       \* the answers a version's policy may give

VARIABLES disk,      \* the versions of the files
          seen,      \* the newest configuration and the newest whitelist that
                     \* an answer rested on
          pending,   \* the request each client waits for, and seen as it was
          answer     \* the last answer of each client

promises == <<disk, seen, pending, answer>>

Nothing == [config |-> 0, list |-> 0]

Idle == [req |-> NoRequest, from |-> Nothing]

PromiseInit == /\ disk \in {<<v>> : v \in Version}
               /\ seen = Nothing
               /\ pending = [c \in Client |-> Idle]
               /\ answer = [c \in Client |-> NoAnswer]

Edit == \E v \in Version : /\ disk' = Append(disk, v)
                           /\ UNCHANGED <<seen, pending, answer>>

Ask(c, req) ==
    /\ pending[c].req = NoRequest
    /\ pending' = [pending EXCEPT ![c] = [req |-> req, from |-> seen]]
    /\ answer' = [answer EXCEPT ![c] = NoAnswer]
    /\ UNCHANGED <<disk, seen>>

Larger(a, b) == IF a > b THEN a ELSE b

\* The client gets its answer, which rests on these versions.
Gets(c, action, config, list) ==
    /\ pending' = [pending EXCEPT ![c] = Idle]
    /\ answer' = [answer EXCEPT ![c] = action]
    /\ seen' = [config |-> Larger(config, seen.config),
                list   |-> Larger(list, seen.list)]
    /\ UNCHANGED disk

\* The versions an answer to c may rest on.
May(oldest) == {k \in 1..Len(disk) : k >= oldest /\ Accepted(disk[k])}

AnswerIncomplete(c) ==
    /\ ~Complete(pending[c].req)
    /\ Gets(c, Dunno, 0, 0)

AnswerSkipped(c) ==
    \E i \in May(pending[c].from.config) :
        /\ Skips(disk[i], pending[c].req)
        /\ Gets(c, Dunno, i, 0)

AnswerListed(c) ==
    \E i \in May(pending[c].from.config), j \in May(pending[c].from.list) :
        /\ i <= j
        /\ ~Skips(disk[i], pending[c].req)
        /\ \/ Lists(disk[j], pending[c].req)
           \/ \E f \in j..Len(disk) : Files(disk[j], disk[f], pending[c].req)
        /\ Gets(c, Dunno, i, j)

AnswerEvaluated(c) ==
    \E i \in May(pending[c].from.config), j \in May(pending[c].from.list) :
    \E k \in May(i) :
        /\ i <= j
        /\ ~Skips(disk[i], pending[c].req)
        /\ ~Lists(disk[j], pending[c].req)
        /\ \E action \in Decisions(disk[k]) : Gets(c, action, k, j)

\* A connection breaks before the answer is sent.
Lose(c) == /\ pending' = [pending EXCEPT ![c] = Idle]
           /\ UNCHANGED <<disk, seen, answer>>

\* The process ends, and with it every connection.
LoseAll == /\ pending' = [c \in Client |-> Idle]
           /\ answer' = [c \in Client |-> NoAnswer]
           /\ UNCHANGED <<disk, seen>>

Answer(c) ==
    /\ pending[c].req # NoRequest
    /\ \/ AnswerIncomplete(c) \/ AnswerSkipped(c)
       \/ AnswerListed(c) \/ AnswerEvaluated(c)

PromiseNext ==
    \/ Edit \/ LoseAll
    \/ \E c \in Client :
          Answer(c) \/ Lose(c) \/ \E req \in Request : Ask(c, req)

PromiseSpec == PromiseInit /\ [][PromiseNext]_promises
=============================================================================
