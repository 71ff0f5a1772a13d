------------------------------ MODULE SpfCheck ------------------------------
(***************************************************************************)
(* The two SPF checks of a request (SpfEvaluator in                        *)
(* rspf/src/spf/evaluator.rs) over the resolver with its overrides         *)
(* (rspf/src/spf/override_resolver.rs).  Each check follows records from   *)
(* domain to domain, one TXT lookup at a time, and the two run at once.    *)
(* The evaluation itself is viaspf's; of a record only its verdict, or the *)
(* domain it includes or redirects to, is kept.                            *)
(***************************************************************************)
EXTENDS Naturals, Sequences, SequencesExt

CONSTANTS Domain, Verdict,
          SpfConfig,   \* the section [spf]: max_lookups and void_limit
          Overrides,   \* what [overrides] may hold
          Dns          \* the states of the DNS, an answer for each domain

\* A name as written, in lower case or with capitals.
Name == [domain : Domain, caps : BOOLEAN]

Null == [domain |-> "null", caps |-> FALSE]        \* the sender of a bounce
Invalid == [domain |-> "invalid", caps |-> FALSE]  \* a HELO name or sender that is not one

Undecided == "undecided"

All(v) == [kind |-> "all", to |-> "-", verdict |-> v]
Include(d, v) == [kind |-> "include", to |-> d, verdict |-> v]
Redirect(d) == [kind |-> "redirect", to |-> d, verdict |-> Undecided]

Record == {All(v) : v \in Verdict} \cup {Redirect(d) : d \in Domain}
             \cup {Include(d, v) : d \in Domain, v \in Verdict}

\* What the DNS may say in place of a record.
NoRecord == [kind |-> "none", to |-> "-", verdict |-> Undecided]
NoAnswer == [kind |-> "timeout", to |-> "-", verdict |-> Undecided]

ASSUME SpfConfigAssumption ==
    SpfConfig.max_lookups \in Nat /\ SpfConfig.void_limit \in Nat
ASSUME OverridesAssumption ==
    \A o \in Overrides : DOMAIN o \subseteq Name /\ \A k \in DOMAIN o : o[k] \in Record
ASSUME DnsAssumption == Dns \subseteq [Domain -> Record \cup {NoRecord, NoAnswer}]

VARIABLES helo, sender,  \* of the request
          overrides,     \* the records of OverrideLookup, by name
          dns,           \* what the DNS says
          check,         \* the checks, by identity
          asked          \* history: the domains whose TXT the DNS was asked for

vars == <<helo, sender, overrides, dns, check, asked>>

Identity == {"Helo", "MailFrom"}

\* A check that is to look up a name; pending are the includes it is within.
LookingUp(name, lookups, pending) ==
    [pc |-> "lookup", name |-> name, lookups |-> lookups, pending |-> pending,
     result |-> Undecided]

Unstarted == [LookingUp(Null, 0, << >>) EXCEPT !.pc = "unstarted"]

Done(c, r) == [c EXCEPT !.pc = "done", !.result = r]

Init == /\ helo \in Name \cup {Invalid}
        /\ sender \in Name \cup {Invalid, Null}
        /\ overrides \in Overrides
        /\ dns \in Dns
        /\ check = [id \in Identity |-> Unstarted]
        /\ asked = {}

Becomes(id, c) == /\ check' = [check EXCEPT ![id] = c]
                  /\ UNCHANGED <<helo, sender, overrides, dns>>

-----------------------------------------------------------------------------
(* SpfEvaluator. *)

Limits == [max_lookups |-> SpfConfig.max_lookups,
           max_void_lookups |-> SpfConfig.void_limit]

\* An identity that does not parse is a permanent error.
Begin(id, identity) ==
    /\ check[id].pc = "unstarted"
    /\ Becomes(id, IF identity = Invalid THEN Done(check[id], "Permerror")
                   ELSE LookingUp(identity, 0, << >>))
    /\ UNCHANGED asked

CheckHelo == Begin("Helo", helo)

\* Mutant of CheckMailFrom: the null sender is looked up as it stands.
CheckMailFromVerbatim == Begin("MailFrom", sender)

\* Mutant of CheckMailFrom: the null sender does not parse.
CheckMailFromAsIs == Begin("MailFrom", IF sender = Null THEN Invalid ELSE sender)

\* The null sender is postmaster at the HELO name.
CheckMailFrom == Begin("MailFrom", IF sender = Null THEN helo ELSE sender)

-----------------------------------------------------------------------------
(* OverrideLookup. *)

Lowercase(name) == [name EXCEPT !.caps = FALSE]

\* Mutant of Overridden: only the record an evaluation begins with is replaced.
OverriddenAtTop(c) == c.lookups = 0 /\ Lowercase(c.name) \in DOMAIN overrides

\* The name in lower case is a key as it is written.
Overridden(c) == Lowercase(c.name) \in DOMAIN overrides

LookupTxt(c) == IF Overridden(c) THEN overrides[Lowercase(c.name)]
                ELSE dns[c.name.domain]

-----------------------------------------------------------------------------
(* viaspf. *)

\* An include matches if the record it leads to passes the client; else what
\* follows it in its own record decides.
Within(otherwise, r) == IF r = "Pass" THEN "Pass" ELSE otherwise

\* An include or a redirect counts against the limit.
Follow(c, pending, d) ==
    IF c.lookups = Limits.max_lookups THEN Done(c, "Permerror")
    ELSE LookingUp([domain |-> d, caps |-> FALSE], c.lookups + 1, pending)

\* A domain without a record is an error, but at the top.
Apply(c, record) ==
    CASE record.kind = "none" ->
            Done(c, IF c.lookups = 0 THEN "None" ELSE "Permerror")
      [] record.kind = "timeout"  -> Done(c, "Temperror")
      [] record.kind = "all"      -> Done(c, FoldRight(Within, c.pending, record.verdict))
      [] record.kind = "include"  ->
            Follow(c, Append(c.pending, record.verdict), record.to)
      [] record.kind = "redirect" -> Follow(c, c.pending, record.to)

Step(id) ==
    /\ check[id].pc = "lookup"
    /\ Becomes(id, Apply(check[id], LookupTxt(check[id])))
    /\ asked' = IF Overridden(check[id]) THEN asked
                ELSE asked \cup {check[id].name.domain}

\* The evaluation as a whole has a timeout.
TimeOut(id) ==
    /\ check[id].pc = "lookup"
    /\ Becomes(id, [Done(check[id], "Temperror") EXCEPT !.pc = "timed out"])
    /\ UNCHANGED asked
-----------------------------------------------------------------------------
Work(id) == Step(id) \/ TimeOut(id)

Next == CheckHelo \/ CheckMailFrom \/ \E id \in Identity : Work(id)

Spec == Init /\ [][Next]_vars
-----------------------------------------------------------------------------
Result == Verdict \cup {"None", "Permerror", "Temperror"}

Ended(id) == check[id].pc \in {"done", "timed out"}

\* The types of the state; a check has a result when it has ended.
TypeOK ==
    /\ helo \in Name \cup {Invalid} /\ sender \in Name \cup {Invalid, Null}
    /\ overrides \in Overrides /\ dns \in Dns
    /\ asked \subseteq Domain
    /\ \A id \in Identity :
          /\ check[id].pc \in {"unstarted", "lookup", "done", "timed out"}
          /\ check[id].name \in Name \cup {Null}
          /\ check[id].pc = "lookup" => check[id].name \in Name
          /\ check[id].lookups \in Nat
          /\ check[id].pending \in Seq(Verdict)
          /\ IF Ended(id) THEN check[id].result \in Result ELSE check[id].result = Undecided

\* A domain with an override is never looked up in the DNS, at the top or where
\* other records lead (override_resolver.rs:12-15): here for the keys that are
\* in lower case.
OverriddenIsNotAsked ==
    \A k \in DOMAIN overrides : ~k.caps => k.domain \notin asked

\* A bounce is checked as its HELO name is: the two results are the same,
\* whatever the order of the lookups (evaluator.rs:75-77).
BounceFollowsHelo ==
    sender = Null /\ (\A id \in Identity : check[id].pc = "done") =>
        check["MailFrom"].result = check["Helo"].result

-----------------------------------------------------------------------------
(* What is said of the program and does not hold. *)

\* The names of the overrides are in lower case (override_resolver.rs:18), so
\* that a domain is found however its name is written.
OverrideKeysAreLowercase == \A k \in DOMAIN overrides : k.domain \notin asked
=============================================================================
