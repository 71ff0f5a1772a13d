------------------------------- MODULE Decision -------------------------------
(***************************************************************************)
(* From two SPF outcomes to a reply and a line in the log, and from a file *)
(* to a configuration: the pure modules Engine, Reply and Config, applied  *)
(* to each case of some families and to each of a set of files.            *)
(***************************************************************************)
EXTENDS Config

CONSTANTS Cases,  \* families of requests: a configuration, two outcomes, some names
          Files   \* configuration files

Option(S) == {option \in Seq(S) : Len(option) <= 1}

Phrase == Seq(STRING)

\* A name comes from a line of a request, which holds no newline.
Name == Seq(STRING \ {NL})

\* The client's address has been parsed as one.
Address == STRING \ {NL, "{", "}"}

Case ==
    [kind : {"case"},
     conf : [policy   : PolicyConfig,
             messages : [SpfResult \ {"Pass"} -> Phrase],
             header   : [mode : HeaderMode, hide_receiver : BOOLEAN,
                         authserv_id : Option(Phrase)]],
     helo      : [identity : {"Helo"}, result : SpfResult, cause : STRING],
     mail_from : [identity : {"MailFrom"}, result : SpfResult, cause : STRING],
     ctx : [ip : Address, sender : Name, helo : Name, recipient : Name,
            client_name : Option(Name)]]

File ==
    [readable : BOOLEAN, is_toml : BOOLEAN,
     server    : Option([listen : Option(Seq([scheme : STRING, rest : STRING]))]),
     policy    : Option([helo_reject      : Option(RejectPolicy),
                         mail_from_reject : Option(RejectPolicy),
                         permerror_reject : Option(BOOLEAN),
                         temperror_defer  : Option(BOOLEAN)]),
     spf       : Option([lookup_timeout_secs : Option(Nat), void_limit : Option(Nat),
                         max_lookups : Option(Nat)]),
     overrides : Option(SUBSET [domain : STRING, is_record : BOOLEAN]),
     srs       : Option([enabled : Option(BOOLEAN), secrets : Option(SUBSET STRING),
                         max_age_days : Option(Nat)]),
     header    : Option([mode : Option(HeaderMode), hide_receiver : Option(BOOLEAN),
                         authserv_id : Option(Phrase)]),
     messages  : Option([SpfResult \ {"Pass"} -> Option(Phrase)])]

ASSUME CasesAssumption == \A family \in Cases : family \subseteq Case
ASSUME FilesAssumption == Files \subseteq [kind : {"file"}, file : File]

VARIABLES input, output

vars == <<input, output>>

Init == /\ \/ \E family \in Cases : input \in family
           \/ input \in Files
        /\ output = None

Decides == /\ output = None /\ input.kind = "case"
           /\ output' = Some(Answer(input.conf, input.helo, input.mail_from, input.ctx))
           /\ UNCHANGED input

Loads == /\ output = None /\ input.kind = "file"
         /\ output' = Some(LoadFile(input.file))
         /\ UNCHANGED input

Next == Decides \/ Loads

Spec == Init /\ [][Next]_vars

Decided == output # None /\ input.kind = "case"

Loaded == output # None /\ input.kind = "file"

-----------------------------------------------------------------------------
(* The policy. *)

Policy == input.conf.policy

Chosen == output[1].action

Rank(a) == CASE a.verb = "Reject"        -> 2
             [] a.verb = "DeferIfPermit" -> 1
             [] OTHER                    -> 0

\* What another policy, or other results, would have come to.
DecideOn(policy, helo, mail_from) ==
    Decide(policy, Codes(input.conf.messages), input.conf.header.mode, helo, mail_from)

\* Whatever HELO answered, the action is at least as severe as the one MAIL
\* FROM gives when HELO passes, and it is that very action unless it is
\* strictly more severe: HELO escalates, never downgrades, and never changes
\* the text of a tie (doc comment of decide, engine.rs:29-33).
HeloOnlyEscalates ==
    Decided =>
        LET alone == DecideOn(Policy, "Pass", input.mail_from.result)
        IN Rank(Chosen) > Rank(alone) \/ Chosen = alone

\* An identity set to no_check may answer anything without moving the action;
\* for MAIL FROM the header still reports what it answered (policy.rs:18-21).
NoCheckNeverDrives ==
    Decided =>
        /\ Policy.helo_reject = "NoCheck" =>
              \A r \in SpfResult : DecideOn(Policy, r, input.mail_from.result) = Chosen
        /\ Policy.mail_from_reject = "NoCheck" =>
              \A r \in SpfResult :
                  LET other == DecideOn(Policy, input.helo.result, r) IN
                  /\ other.verb = Chosen.verb
                  /\ Rank(Chosen) > 0 => other = Chosen

\* The templates start with the codes that config/rspf.toml.example asks an
\* operator for, and the built-in ones do.
CodesAsAsked == Codes(input.conf.messages) = DefaultMessages

\* With such templates a reject answers with a 5xx code and never with the
\* fallback of a pass, which the code calls unreachable, and a deferral answers
\* with a 4xx code (engine.rs:141-144).
ReplyCodeMatchesVerb ==
    Decided /\ CodesAsAsked =>
        /\ Chosen.verb = "Reject" => /\ Chosen.text.code = "5xx"
                                      /\ Chosen.text.result # "Pass"
        /\ Chosen.verb = "DeferIfPermit" => Chosen.text.code = "4xx"

Dial == <<"NoCheck", "Never", "Fail", "SoftFail", "SpfNotPass">>

Stricter(p) == {Dial[j] : j \in {k \in 1..5 : \E i \in 1..k : Dial[i] = p}}

\* Turning a policy's dial towards strictness never makes the answer to the
\* same mail milder, whichever identity's dial it is and whatever the other
\* one says (never < fail < soft_fail < spf_not_pass).
StricterIsNeverMilder ==
    Decided =>
        LET With(other) == Rank(DecideOn(other, input.helo.result, input.mail_from.result))
        IN /\ \A p \in Stricter(Policy.helo_reject) :
                 With([Policy EXCEPT !.helo_reject = p]) >= Rank(Chosen)
           /\ \A p \in Stricter(Policy.mail_from_reject) :
                 With([Policy EXCEPT !.mail_from_reject = p]) >= Rank(Chosen)

\* What policy.rs:12 says of SpfNotPass, "Reject on anything other than
\* `Pass`": a mail whose MAIL FROM did not pass is not let through.
SpfNotPassLetsOnlyPassThrough ==
    /\ Decided
    /\ Policy.mail_from_reject = "SpfNotPass"
    /\ input.mail_from.result # "Pass"
    => Rank(Chosen) > 0

-----------------------------------------------------------------------------
(* The reply and the log. *)

HasToken(text, token) == Positions(text, token, 1) # {}

HasPlaceholder(text) ==
    \E i \in Positions(text, "{", 1) : Positions(text, "}", i) # {}

\* The reply is made of a template, of this one.
Templated == Decided /\ Chosen.verb \in {"Reject", "DeferIfPermit"}

Template == MessageTemplate(input.conf.messages, Chosen.text.result)

\* A template that the configuration's check lets pass leaves no placeholder
\* in a reply, unless the client's own names bring braces along: the check
\* scans for braces and the rendering replaces five strings, and they agree
\* on every arrangement of the two (load.rs:85-102, engine.rs:148-159).
AcceptedTemplateIsFilled ==
    /\ Templated /\ ValidatePlaceholders(Template)
    /\ \A name \in {input.ctx.sender, input.ctx.helo, input.ctx.recipient} :
          ~HasToken(name, "{") /\ ~HasToken(name, "}")
    => ~HasPlaceholder(output[1].text)

\* What the placeholders of the template come to: a placeholder in the sender is
\* filled in by the replacements that follow the sender's, one in the HELO name
\* by those that follow HELO's.
FilledValues ==
    LET values == Values(Chosen.text.result, input.ctx)
        Fill(text, name) == Replace(text, name, values[name])
    IN [values EXCEPT !.sender = Fill(Fill(Fill(@, "helo"), "ip"), "recipient"),
                      !.helo = Fill(Fill(@, "ip"), "recipient")]

\* The template with every placeholder replaced in one pass from the left.
FilledAtOnce ==
    LET Fill[i \in 1..(Len(Template) + 1)] ==
            IF i > Len(Template) THEN << >>
            ELSE LET names == {n \in KnownPlaceholder : StartsAt(Template, i, n)} IN
                 IF names = {} THEN <<Template[i]>> \o Fill[i + 1]
                 ELSE FilledValues[CHOOSE n \in names : TRUE] \o Fill[i + 3]
    IN Fill[1]

\* Every opening brace begins a stretch that is closed after one token, as those
\* of placeholders are; no other combines with what a text is put next to.
ClosesItsBraces(text) ==
    \A i \in Positions(text, "{", 1) : i + 2 <= Len(text) /\ text[i + 2] = "}"

\* The five replacements made one after the other give what one pass would,
\* for every accepted template: none meddles with what another has put in,
\* except that a placeholder which a sender or HELO name brings along is
\* filled in by the later ones, and only by those (engine.rs:153-158).
RenderIsSimultaneous ==
    /\ Templated /\ ValidatePlaceholders(Template)
    /\ ClosesItsBraces(input.ctx.sender) /\ ClosesItsBraces(input.ctx.helo)
    => output[1].text = FilledAtOnce

Newlines(text) == Cardinality(Positions(text, NL, 1))

\* What of the configuration a reply shows.
Configured ==
    IF Templated THEN Template
    ELSE IF Chosen.verb = "Prepend" /\ ~input.conf.header.hide_receiver
         THEN UnwrapOr(input.conf.header.authserv_id, << >>)
    ELSE << >>

\* A reply ends in the two newlines of its terminator, and has as many before
\* them as the operator wrote into the template or authserv_id that it shows:
\* whatever names are filled in, none is added, lost or doubled.  With a text
\* of one line the reply is one line, and the next is never taken for its rest
\* (response.rs:30-35); a newline of the operator's own may end it early.
OneReplyPerRequest ==
    Decided =>
        LET wire == output[1].wire IN
        /\ {Len(wire) - 1, Len(wire)} \subseteq Positions(wire, NL, 1)
        /\ Newlines(wire) = Newlines(Configured) + 2

\* What Postfix does with the reply it reads.
Reading(wire) == CASE wire[2] \in {"dunno", "PREPEND"}       -> "permit"
                   [] wire[2] = "5xx"                        -> "reject"
                   [] wire[2] \in {"4xx", "defer_if_permit"} -> "defer"

\* The mail log has one line for a request, also with control characters in a
\* template, and with templates that start with the codes they should its
\* status is what Postfix makes of the reply, under every action
\* (mail_log.rs:62-76, 86-104, response.rs:19-35).
LogTellsTheReply ==
    Decided =>
        /\ (\A r \in SpfResult \ {"Pass"} :
                input.conf.messages[r] # << >> /\ input.conf.messages[r][1] = DefaultMessages[r])
              => output[1].log[2] = Reading(output[1].wire)
        /\ \A c \in Control : ~HasToken(output[1].log, c)

-----------------------------------------------------------------------------
(* The file. *)

PlainCtx == [ip |-> "ip", sender |-> <<"user", "@", "sender.org">>,
             helo |-> <<"helo.org">>, recipient |-> <<"rcpt", "@", "here.org">>]

\* What the rest of the program takes for granted of a configuration holds of
\* every one that is accepted: it has a listener, an enabled SRS unwraps some
\* address, an override is a record, and no reply shows a placeholder
\* (load.rs:51-82).
AcceptedConfigServes ==
    Loaded /\ output[1].error = "-" =>
        LET config == output[1].config[1] IN
        /\ config.listen # << >>
        /\ config.srs.enabled =>
              \E key \in config.srs.secrets :
                  Subject([srs0 |-> TRUE, signed_by |-> key, timestamp |-> 0],
                          config.srs, 0) = "original"
        /\ \A override \in config.overrides : override.is_record
        /\ \A r \in SpfResult : ~HasPlaceholder(Render(config.messages, r, PlainCtx))

\* What a configuration does: for SRS, what becomes of a sender on some days.
Effect(config) ==
    [config EXCEPT !.srs =
        [signed_by \in {"key", "forger"} |-> [today \in {0, 21, 22} |->
            Subject([srs0 |-> TRUE, signed_by |-> signed_by, timestamp |-> 0],
                    config.srs, today)]]]

EmptyPolicy == [helo_reject |-> None, mail_from_reject |-> None,
                permerror_reject |-> None, temperror_defer |-> None]
EmptySpf == [lookup_timeout_secs |-> None, void_limit |-> None, max_lookups |-> None]
EmptySrs == [enabled |-> None, secrets |-> None, max_age_days |-> None]
EmptyHeader == [mode |-> None, hide_receiver |-> None, authserv_id |-> None]
EmptyMessages == [r \in SpfResult \ {"Pass"} |-> None]

Empty == [policy |-> EmptyPolicy, spf |-> EmptySpf, srs |-> EmptySrs,
          header |-> EmptyHeader, messages |-> EmptyMessages]

\* To leave a section out is to write none of its keys: the two defaults that
\* model.rs keeps apart agree in what they do, and where they do not agree in
\* what they say (max_age_days, derived as 0) nothing reads it
\* (model.rs:129-171, 199-246).
OmittedSectionsActAsEmpty ==
    Loaded =>
        \A section \in DOMAIN Empty :
            LET Load(option) == LoadFile([input.file EXCEPT ![section] = option])
                omitted == Load(None)
                empty == Load(Some(Empty[section]))
            IN /\ omitted.error = empty.error
               /\ omitted.error = "-" => Effect(omitted.config[1]) = Effect(empty.config[1])
=============================================================================
