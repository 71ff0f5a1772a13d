-------------------------------- MODULE Reply --------------------------------
(***************************************************************************)
(* What becomes of a decision: the templates and their placeholders        *)
(* (rspf/src/config/load.rs, rspf/src/engine.rs), the Received-SPF header  *)
(* (rspf/src/spf/header.rs), the reply on the wire                         *)
(* (rspf/src/proto/response.rs) and the line in the mail log               *)
(* (rspf/src/mail_log.rs).                                                 *)
(*                                                                         *)
(* A text is a sequence of tokens, see Words; here they are braces, the    *)
(* names of placeholders, control characters and words.                    *)
(***************************************************************************)
EXTENDS Engine, Words

NL == "newline"
Control == {NL, "nul"}

-----------------------------------------------------------------------------
(* Templates. *)

\* Mutant of KnownPlaceholder: one that nothing replaces.
KnownAndClient == {"result", "sender", "helo", "ip", "recipient", "client"}

KnownPlaceholder == {"result", "sender", "helo", "ip", "recipient"}

\* validate_placeholders: whether every stretch from a brace to the next
\* closing one is a known placeholder.  A brace that is never closed passes.
ValidatePlaceholders(template) ==
    LET Scan[rest \in 1..(Len(template) + 1)] ==
            LET opens == Positions(template, "{", rest) IN
            opens = {} \/
                LET open == Min(opens)
                    closes == Positions(template, "}", open + 1)
                IN closes = {} \/
                    /\ \E name \in KnownPlaceholder :
                          SubSeq(template, open + 1, Min(closes) - 1) = <<name>>
                    /\ Scan[Min(closes) + 1]
    IN Scan[1]

StartsAt(text, i, name) ==
    i + 2 <= Len(text) /\ SubSeq(text, i, i + 2) = <<"{", name, "}">>

\* str::replace, of each {name} in a text.
Replace(text, name, value) ==
    FlattenSeq([i \in DOMAIN text |->
        IF StartsAt(text, i, name) THEN value
        ELSE IF \E j \in {i - 2, i - 1} \cap DOMAIN text : StartsAt(text, j, name)
             THEN << >>
        ELSE <<text[i]>>])

\* message_template; the fallback of a pass is a text of its own.
MessageTemplate(messages, result) ==
    IF result = "Pass" THEN <<"5xx", "check failed">> ELSE messages[result]

\* What the placeholders stand for.
Values(result, ctx) ==
    [result |-> <<result>>, sender |-> ctx.sender, helo |-> ctx.helo,
     ip |-> <<ctx.ip>>, recipient |-> ctx.recipient]

\* Mutant of Render: the HELO name is filled in before the sender.
RenderHeloFirst(messages, result, ctx) ==
    LET Fill(text, name) == Replace(text, name, Values(result, ctx)[name])
    IN Fill(Fill(Fill(Fill(Fill(MessageTemplate(messages, result),
                                "result"), "helo"), "sender"), "ip"), "recipient")

\* render_message: one replacement after the other, each in what the ones
\* before it have left.
Render(messages, result, ctx) ==
    LET Fill(text, name) == Replace(text, name, Values(result, ctx)[name])
    IN Fill(Fill(Fill(Fill(Fill(MessageTemplate(messages, result),
                                "result"), "sender"), "helo"), "ip"), "recipient")

\* The built-in templates, as words.
DefaultTemplate(result) ==
    LET of(name) == <<"{", name, "}">> IN
    CASE result = "Fail"      -> <<"5xx", "failed">> \o of("sender") \o of("ip")
      [] result = "Softfail"  -> <<"5xx", "softfail">> \o of("sender") \o of("ip")
      [] result = "Neutral"   -> <<"5xx", "neutral">> \o of("sender") \o of("ip")
      [] result = "None"      -> <<"5xx", "no record">> \o of("sender")
      [] result = "Permerror" -> <<"5xx", "permanent">> \o of("sender")
      [] result = "Temperror" -> <<"4xx", "temporary">> \o of("sender")

\* The reply codes that templates start with, as Engine tells them apart.
Codes(messages) ==
    [r \in DOMAIN messages |-> IF messages[r][1] = "4xx" THEN "4xx" ELSE "5xx"]

-----------------------------------------------------------------------------
(* The Received-SPF header. *)

RecipientDomain(recipient, authserv_id) ==
    UnwrapOr(authserv_id, UnwrapOr(AfterLastAt(recipient), <<"UNKNOWN">>))

Receiver(ctx, header) ==
    IF header.hide_receiver THEN <<"UNKNOWN">>
    ELSE RecipientDomain(ctx.recipient, header.authserv_id)

\* A result is matched by a mechanism, or is an error of the evaluation, or
\* has no cause.
DescribeCause(outcome, ctx) ==
    CASE outcome.cause = "match" ->
            <<"domain of">> \o ctx.sender
              \o <<"designates", ctx.ip, outcome.result, "mechanism">>
      [] outcome.cause = "error" -> <<"error">>
      [] OTHER -> <<"domain of">> \o ctx.sender \o <<"designates nothing", ctx.ip>>

BuildReceivedSpf(outcome, ctx, header) ==
    <<outcome.result, "(">> \o DescribeCause(outcome, ctx)
      \o <<")", "client-ip=", ctx.ip, "envelope-from=">> \o ctx.sender
      \o <<"helo=">> \o ctx.helo
      \o <<"receiver=">> \o Receiver(ctx, header)
      \o <<"identity=", outcome.identity>>

-----------------------------------------------------------------------------
(* The reply. *)

\* The text that decide() puts into an action.
Text(action, conf, mail_from, ctx) ==
    CASE action.verb \in {"Reject", "DeferIfPermit"} ->
            Render(conf.messages, action.text.result, ctx)
      [] action.verb = "Prepend" ->
            <<"Received-SPF:">> \o BuildReceivedSpf(mail_from, ctx, conf.header)
      [] OTHER -> << >>

Display(action, text) ==
    <<"action=">> \o CASE action.verb = "Dunno"         -> <<"dunno">>
                       [] action.verb = "Prepend"       -> <<"PREPEND">> \o text
                       [] action.verb = "Reject"        -> text
                       [] action.verb = "DeferIfPermit" -> <<"defer_if_permit">> \o text

\* Mutant of ToWire: the line is ended and the reply is not.
ToWireOneNewline(action, text) == Display(action, text) \o <<NL>>

ToWire(action, text) == Display(action, text) \o <<NL, NL>>

-----------------------------------------------------------------------------
(* The mail log. *)

\* Mutant of DescribeAction: a deferral counts as a rejection.
DescribeDeferAsReject(action) ==
    IF action.verb \in {"Dunno", "Prepend"} THEN "permit" ELSE "reject"

DescribeAction(action) ==
    [Dunno |-> "permit", Prepend |-> "permit",
     Reject |-> "reject", DeferIfPermit |-> "defer"][action.verb]

Sanitize(text) ==
    [i \in DOMAIN text |-> IF text[i] \in Control THEN "space" ELSE text[i]]

\* log_evaluated_spf: the line written to syslog.
LogLine(ctx, helo, mail_from, action, text) ==
    Sanitize(<<"status=", DescribeAction(action)>>
               \o (IF action.verb = "Dunno" THEN << >> ELSE <<"(">> \o text \o <<")">>)
               \o <<"from=">> \o ctx.sender
               \o <<"client=">> \o UnwrapOr(NonEmpty(ctx.client_name), <<"unknown">>)
               \o <<ctx.ip, "helo=">> \o ctx.helo
               \o <<"spf_helo=", helo.result, "spf_mailfrom=", mail_from.result>>)

-----------------------------------------------------------------------------
\* handle_request, from the two outcomes on.
Answer(conf, helo, mail_from, ctx) ==
    LET action == Decide(conf.policy, Codes(conf.messages), conf.header.mode,
                         helo.result, mail_from.result)
        text == Text(action, conf, mail_from, ctx)
    IN [action |-> action, text |-> text, wire |-> ToWire(action, text),
        log |-> LogLine(ctx, helo, mail_from, action, text)]
=============================================================================
