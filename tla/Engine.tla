------------------------------- MODULE Engine -------------------------------
(***************************************************************************)
(* The policy decision engine (rspf/src/engine.rs): the HELO and the MAIL  *)
(* FROM outcomes of one request, and the configuration, give one action.   *)
(* A pure module, used by HotReload and checked in MCDecision.             *)
(*                                                                         *)
(* The text of an action is abstracted to the result it is about and, for  *)
(* a reject or a deferral, the SMTP reply code its template starts with.   *)
(***************************************************************************)
EXTENDS Naturals

SpfResult ==
    {"Pass", "Fail", "Softfail", "Neutral", "None", "Permerror", "Temperror"}

RejectPolicy == {"Fail", "SoftFail", "SpfNotPass", "Never", "NoCheck"}

HeaderMode == {"Spf", "None"}

\* The [policy] section.
PolicyConfig == [helo_reject      : RejectPolicy,
                 mail_from_reject : RejectPolicy,
                 permerror_reject : BOOLEAN,
                 temperror_defer  : BOOLEAN]

\* The derived order of the enum: None < Defer < Reject.
Severity == [None |-> 0, Defer |-> 1, Reject |-> 2]

\* Mutant of RejectedBy: soft_fail forgets the hard failures.
RejectedByLabel(policy) ==
    [Fail       |-> {"Fail"},
     SoftFail   |-> {"Softfail"},
     SpfNotPass |-> SpfResult \ {"Pass"},
     Never      |-> {},
     NoCheck    |-> {}][policy]

\* The results a policy rejects on, the two errors aside.
RejectedBy(policy) ==
    [Fail       |-> {"Fail"},
     SoftFail   |-> {"Fail", "Softfail"},
     SpfNotPass |-> SpfResult \ {"Pass"},
     Never      |-> {},
     NoCheck    |-> {}][policy]

\* Mutant of ClassifySeverity: the toggles are asked before no_check is.
ClassifyErrorsFirst(policy, result, permerror_reject, temperror_defer) ==
    IF result = "Permerror" /\ permerror_reject     THEN Severity.Reject
    ELSE IF result = "Temperror" /\ temperror_defer THEN Severity.Defer
    ELSE IF result \notin {"Permerror", "Temperror"} /\ result \in RejectedBy(policy)
    THEN Severity.Reject ELSE Severity.None

\* Mutant of ClassifySeverity: a temporary error is left to the policy.
ClassifyTemperrorByPolicy(policy, result, permerror_reject, temperror_defer) ==
    IF policy = "NoCheck"         THEN Severity.None
    ELSE IF result = "Permerror"
         THEN IF permerror_reject THEN Severity.Reject ELSE Severity.None
    ELSE IF result \in RejectedBy(policy) THEN Severity.Reject ELSE Severity.None

\* The errors are judged by their two toggles, before the policy's own list.
ClassifySeverity(policy, result, permerror_reject, temperror_defer) ==
    IF policy = "NoCheck"         THEN Severity.None
    ELSE IF result = "Permerror"
         THEN IF permerror_reject THEN Severity.Reject ELSE Severity.None
    ELSE IF result = "Temperror"
         THEN IF temperror_defer  THEN Severity.Defer  ELSE Severity.None
    ELSE IF result \in RejectedBy(policy) THEN Severity.Reject ELSE Severity.None

HeloSeverity(policy, helo) ==
    ClassifySeverity(policy.helo_reject, helo,
                     policy.permerror_reject, policy.temperror_defer)

MailFromSeverity(policy, mail_from) ==
    ClassifySeverity(policy.mail_from_reject, mail_from,
                     policy.permerror_reject, policy.temperror_defer)

\* Mutant of Responsible: HELO wins the ties.
ResponsibleHeloOnTie(policy, helo, mail_from) ==
    IF HeloSeverity(policy, helo) >= MailFromSeverity(policy, mail_from)
    THEN [identity |-> "Helo", result |-> helo,
          severity |-> HeloSeverity(policy, helo)]
    ELSE [identity |-> "MailFrom", result |-> mail_from,
          severity |-> MailFromSeverity(policy, mail_from)]

\* HELO answers for the action only when it is strictly the worse of the two.
Responsible(policy, helo, mail_from) ==
    IF HeloSeverity(policy, helo) > MailFromSeverity(policy, mail_from)
    THEN [identity |-> "Helo", result |-> helo,
          severity |-> HeloSeverity(policy, helo)]
    ELSE [identity |-> "MailFrom", result |-> mail_from,
          severity |-> MailFromSeverity(policy, mail_from)]

Code == {"4xx", "5xx"}

\* The [messages] section: the code each result's template starts with, which
\* nothing checks; the ones below are the built-in templates.
Messages == [SpfResult \ {"Pass"} -> Code]

DefaultMessages ==
    [r \in SpfResult \ {"Pass"} |-> IF r = "Temperror" THEN "4xx" ELSE "5xx"]

\* A pass has no template of its own but a fallback.
RenderMessage(messages, result) ==
    [code |-> IF result = "Pass" THEN "5xx" ELSE messages[result],
     result |-> result]

\* The header names the result, and carries no code.
ReceivedSpf(result) == [code |-> "-", result |-> result]

Dunno == [verb |-> "Dunno", text |-> [code |-> "-", result |-> "-"]]

Action == [verb : {"Reject", "DeferIfPermit"},
           text : [code : Code, result : SpfResult]]
            \cup [verb : {"Prepend"}, text : [code : {"-"}, result : SpfResult]]
            \cup {Dunno}

\* The action for one request.  The header, when there is one, always
\* reports MAIL FROM.
Decide(policy, messages, header_mode, helo, mail_from) ==
    LET responsible == Responsible(policy, helo, mail_from) IN
    IF responsible.severity = Severity.Reject
    THEN [verb |-> "Reject", text |-> RenderMessage(messages, responsible.result)]
    ELSE IF responsible.severity = Severity.Defer
    THEN [verb |-> "DeferIfPermit", text |-> RenderMessage(messages, responsible.result)]
    ELSE IF header_mode = "Spf"
    THEN [verb |-> "Prepend", text |-> ReceivedSpf(mail_from)]
    ELSE Dunno
=============================================================================
