----------------------------- MODULE DecisionProofs -----------------------------
(***************************************************************************)
(* Proofs about Decision, for every case and every file.                   *)
(***************************************************************************)
EXTENDS Decision, Basics

-----------------------------------------------------------------------------
(* Severities. *)

LEMMA Rejections ==
    /\ RejectedBy("Fail") = {"Fail"}
    /\ RejectedBy("SoftFail") = {"Fail", "Softfail"}
    /\ RejectedBy("SpfNotPass") = SpfResult \ {"Pass"}
    /\ RejectedBy("Never") = {}
    /\ RejectedBy("NoCheck") = {}
BY DEF RejectedBy

LEMMA Severities == Severity.None = 0 /\ Severity.Defer = 1 /\ Severity.Reject = 2
BY DEF Severity

LEMMA SeverityRange ==
    ASSUME NEW p, NEW r, NEW permerror_reject, NEW temperror_defer
    PROVE  ClassifySeverity(p, r, permerror_reject, temperror_defer) \in {0, 1, 2}
BY Severities DEF ClassifySeverity

LEMMA UncheckedIsNone ==
    ASSUME NEW r, NEW permerror_reject, NEW temperror_defer
    PROVE  ClassifySeverity("NoCheck", r, permerror_reject, temperror_defer) = 0
BY Severities DEF ClassifySeverity

LEMMA PassIsNone ==
    ASSUME NEW p \in RejectPolicy, NEW permerror_reject, NEW temperror_defer
    PROVE  ClassifySeverity(p, "Pass", permerror_reject, temperror_defer) = 0
<1>1. "Pass" \notin RejectedBy(p)
    BY Rejections DEF RejectPolicy
<1> QED
    BY <1>1, Severities DEF ClassifySeverity

\* A dial turned up rejects what it did, and more.
LEMMA StricterRejects ==
    ASSUME NEW p \in RejectPolicy, NEW q \in Stricter(p)
    PROVE  q \in RejectPolicy /\ RejectedBy(p) \subseteq RejectedBy(q) /\ (q = "NoCheck" => p = "NoCheck")
<1>1. PICK j \in 1..5 : q = Dial[j] /\ \E i \in 1..j : Dial[i] = p
    BY DEF Stricter
<1>2. PICK i \in 1..j : Dial[i] = p
    BY <1>1
<1>3. /\ Dial[1] = "NoCheck" /\ Dial[2] = "Never" /\ Dial[3] = "Fail"
      /\ Dial[4] = "SoftFail" /\ Dial[5] = "SpfNotPass"
    BY DEF Dial
<1> QED
    BY <1>1, <1>2, <1>3, Rejections DEF RejectPolicy, SpfResult

LEMMA StricterIsAsSevere ==
    ASSUME NEW p \in RejectPolicy, NEW q \in Stricter(p), NEW r,
           NEW permerror_reject, NEW temperror_defer
    PROVE  ClassifySeverity(q, r, permerror_reject, temperror_defer)
             >= ClassifySeverity(p, r, permerror_reject, temperror_defer)
BY StricterRejects, Severities DEF ClassifySeverity

LEMMA RankOfDecision ==
    ASSUME NEW policy, NEW codes, NEW mode, NEW h, NEW m
    PROVE  Rank(Decide(policy, codes, mode, h, m)) =
             IF HeloSeverity(policy, h) > MailFromSeverity(policy, m)
             THEN HeloSeverity(policy, h) ELSE MailFromSeverity(policy, m)
<1>1. HeloSeverity(policy, h) \in {0, 1, 2} /\ MailFromSeverity(policy, m) \in {0, 1, 2}
    BY SeverityRange DEF HeloSeverity, MailFromSeverity
<1>2. Responsible(policy, h, m).severity =
        IF HeloSeverity(policy, h) > MailFromSeverity(policy, m)
        THEN HeloSeverity(policy, h) ELSE MailFromSeverity(policy, m)
    BY DEF Responsible
<1>3. Rank(Decide(policy, codes, mode, h, m)) = Responsible(policy, h, m).severity
    <2>1. Responsible(policy, h, m).severity \in {0, 1, 2}
        BY <1>1, <1>2
    <2> QED
        BY <2>1, Severities DEF Decide, Rank, Dunno
<1> QED
    BY <1>2, <1>3

-----------------------------------------------------------------------------
(* Behaviours: one step, which answers or loads. *)

FileInput == [kind : {"file"}, file : File]

AnswerGiven ==
    /\ input \in Case
    /\ output = Some(Answer(input.conf, input.helo, input.mail_from, input.ctx))

FileLoaded == input \in FileInput /\ output = Some(LoadFile(input.file))

Outputs ==
    /\ input \in Case \/ input \in FileInput
    /\ output = None \/ AnswerGiven \/ FileLoaded

\* An output is the answer to a case or the outcome of a load, and nothing
\* else: each case and each file meets its one handler.
THEOREM OneStep == Spec => []Outputs
<1>1. Init => Outputs
    BY CasesAssumption, FilesAssumption DEF Init, Outputs, FileInput
<1>2. Outputs /\ [Next]_vars => Outputs'
    <2> SUFFICES ASSUME Outputs, [Next]_vars PROVE Outputs'
        OBVIOUS
    <2> USE DEF Outputs, AnswerGiven, FileLoaded
    <2>1. CASE Decides
        <3>1. input \in Case
            BY <2>1 DEF Decides, FileInput
        <3> QED
            BY <2>1, <3>1 DEF Decides
    <2>2. CASE Loads
        <3>1. input \in FileInput
            BY <2>2 DEF Loads, Case
        <3> QED
            BY <2>2, <3>1 DEF Loads
    <2>3. CASE UNCHANGED vars
        BY <2>3 DEF vars
    <2> QED
        BY <2>1, <2>2, <2>3 DEF Next
<1> QED
    BY <1>1, <1>2, PTL DEF Spec

LEMMA DecidedIsAnswer ==
    ASSUME Outputs, Decided
    PROVE  /\ input \in Case
           /\ output[1] = Answer(input.conf, input.helo, input.mail_from, input.ctx)
<1>1. AnswerGiven
    BY DEF Outputs, Decided, FileLoaded, FileInput
<1> QED
    BY <1>1 DEF AnswerGiven, Some

LEMMA LoadedIsLoad ==
    ASSUME Outputs, Loaded
    PROVE  input \in FileInput /\ output[1] = LoadFile(input.file)
<1>1. FileLoaded
    BY DEF Outputs, Loaded, AnswerGiven, Case
<1> QED
    BY <1>1 DEF FileLoaded, Some

LEMMA CaseParts ==
    ASSUME input \in Case
    PROVE  /\ Policy \in PolicyConfig
           /\ Policy.helo_reject \in RejectPolicy /\ Policy.mail_from_reject \in RejectPolicy
           /\ input.conf.messages \in [SpfResult \ {"Pass"} -> Phrase]
           /\ input.conf.header.authserv_id \in Option(Phrase)
           /\ input.helo.result \in SpfResult /\ input.mail_from.result \in SpfResult
           /\ input.mail_from.identity = "MailFrom"
           /\ input.ctx.ip \in Address
           /\ input.ctx.sender \in Name /\ input.ctx.helo \in Name
           /\ input.ctx.recipient \in Name /\ input.ctx.client_name \in Option(Name)
<1>1. /\ input.conf.policy \in PolicyConfig
      /\ input.conf.messages \in [SpfResult \ {"Pass"} -> Phrase]
      /\ input.conf.header.authserv_id \in Option(Phrase)
    BY DEF Case
<1>2. /\ input.helo.result \in SpfResult /\ input.mail_from.result \in SpfResult
      /\ input.mail_from.identity = "MailFrom"
    BY DEF Case
<1>3. /\ input.ctx.ip \in Address
      /\ input.ctx.sender \in Name /\ input.ctx.helo \in Name
      /\ input.ctx.recipient \in Name /\ input.ctx.client_name \in Option(Name)
    BY DEF Case
<1> QED
    BY <1>1, <1>2, <1>3 DEF Policy, PolicyConfig

LEMMA ChosenIs ==
    ASSUME Outputs, Decided
    PROVE  Chosen = DecideOn(Policy, input.helo.result, input.mail_from.result)
BY DecidedIsAnswer DEF Chosen, Answer, DecideOn, Policy

-----------------------------------------------------------------------------
(* The policy. *)

\* HELO only escalates: whatever the policy, the templates and the two results
\* are, the action is MAIL FROM's own or strictly more severe.
THEOREM HeloEscalates == Spec => []HeloOnlyEscalates
<1>1. Outputs => HeloOnlyEscalates
    <2> SUFFICES ASSUME Outputs, Decided
                 PROVE  LET alone == DecideOn(Policy, "Pass", input.mail_from.result)
                        IN Rank(Chosen) > Rank(alone) \/ Chosen = alone
        BY DEF HeloOnlyEscalates
    <2> DEFINE m == input.mail_from.result
               h == input.helo.result
    <2>1. Policy.helo_reject \in RejectPolicy
        BY DecidedIsAnswer, CaseParts
    <2>2. HeloSeverity(Policy, "Pass") = 0
        BY <2>1, PassIsNone DEF HeloSeverity
    <2>3. HeloSeverity(Policy, h) \in {0, 1, 2} /\ MailFromSeverity(Policy, m) \in {0, 1, 2}
        BY SeverityRange DEF HeloSeverity, MailFromSeverity
    <2>4. Rank(DecideOn(Policy, "Pass", m)) = MailFromSeverity(Policy, m)
        BY <2>2, <2>3, RankOfDecision DEF DecideOn
    <2>5. CASE HeloSeverity(Policy, h) > MailFromSeverity(Policy, m)
        BY <2>3, <2>4, <2>5, ChosenIs, RankOfDecision DEF DecideOn
    <2>6. CASE ~ (HeloSeverity(Policy, h) > MailFromSeverity(Policy, m))
        <3>1. Responsible(Policy, h, m) = Responsible(Policy, "Pass", m)
            BY <2>2, <2>3, <2>6 DEF Responsible
        <3>2. DecideOn(Policy, h, m) = DecideOn(Policy, "Pass", m)
            BY <3>1 DEF DecideOn, Decide
        <3> QED
            BY <3>2, ChosenIs
    <2> QED
        BY <2>5, <2>6
<1> QED
    BY <1>1, OneStep, PTL

\* An identity set to no_check moves no action, whatever it answers.
THEOREM NoCheckIdle == Spec => []NoCheckNeverDrives
<1>1. Outputs => NoCheckNeverDrives
    <2> SUFFICES ASSUME Outputs, Decided
                 PROVE  NoCheckNeverDrives
        BY DEF NoCheckNeverDrives
    <2> DEFINE m == input.mail_from.result
               h == input.helo.result
    <2>3. \A r : HeloSeverity(Policy, r) \in {0, 1, 2} /\ MailFromSeverity(Policy, r) \in {0, 1, 2}
        BY SeverityRange DEF HeloSeverity, MailFromSeverity
    <2>1. ASSUME Policy.helo_reject = "NoCheck", NEW r \in SpfResult
          PROVE  DecideOn(Policy, r, m) = Chosen
        <3>1. HeloSeverity(Policy, r) = 0 /\ HeloSeverity(Policy, h) = 0
            BY <2>1, UncheckedIsNone DEF HeloSeverity
        <3>2. Responsible(Policy, h, m) = Responsible(Policy, r, m)
            BY <3>1, <2>3 DEF Responsible
        <3> QED
            BY <3>2, ChosenIs DEF DecideOn, Decide
    <2>2. ASSUME Policy.mail_from_reject = "NoCheck", NEW r \in SpfResult
          PROVE  LET other == DecideOn(Policy, h, r) IN
                 /\ other.verb = Chosen.verb
                 /\ Rank(Chosen) > 0 => other = Chosen
        <3>1. MailFromSeverity(Policy, r) = 0 /\ MailFromSeverity(Policy, m) = 0
            BY <2>2, UncheckedIsNone DEF MailFromSeverity
        <3>2. CASE HeloSeverity(Policy, h) > 0
            <4>1. Responsible(Policy, h, m) = Responsible(Policy, h, r)
                BY <3>1, <3>2 DEF Responsible
            <4>2. Responsible(Policy, h, m).severity \in {1, 2}
                BY <2>3, <3>1, <3>2 DEF Responsible
            <4> QED
                BY <4>1, <4>2, ChosenIs, Severities DEF DecideOn, Decide
        <3>3. CASE ~ (HeloSeverity(Policy, h) > 0)
            <4>1. /\ Responsible(Policy, h, m).severity = 0
                  /\ Responsible(Policy, h, r).severity = 0
                BY <3>1, <3>3 DEF Responsible
            <4>2. Rank(Chosen) = 0
                BY <2>3, <3>1, <3>3, ChosenIs, RankOfDecision DEF DecideOn
            <4> QED
                BY <4>1, <4>2, ChosenIs, Severities DEF DecideOn, Decide, Dunno
        <3> QED
            BY <3>2, <3>3
    <2> QED
        BY <2>1, <2>2 DEF NoCheckNeverDrives
<1> QED
    BY <1>1, OneStep, PTL

\* Which results a severity can come from.
LEMMA SeverityTells ==
    ASSUME NEW p \in RejectPolicy, NEW r, NEW permerror_reject, NEW temperror_defer
    PROVE  /\ ClassifySeverity(p, r, permerror_reject, temperror_defer) = 2
                => r \in SpfResult \ {"Pass", "Temperror"}
           /\ ClassifySeverity(p, r, permerror_reject, temperror_defer) = 1
                => r = "Temperror"
<1>1. RejectedBy(p) \subseteq SpfResult \ {"Pass"}
    BY Rejections DEF RejectPolicy, SpfResult
<1> QED
    BY <1>1, Severities DEF ClassifySeverity, SpfResult

\* A reply's code matches its verb for every set of templates that starts with
\* the codes asked for, and no rejection takes the text of a pass.
THEOREM CodeMatches == Spec => []ReplyCodeMatchesVerb
<1>1. Outputs => ReplyCodeMatchesVerb
    <2> SUFFICES ASSUME Outputs, Decided, CodesAsAsked
                 PROVE  /\ Chosen.verb = "Reject" => /\ Chosen.text.code = "5xx"
                                                      /\ Chosen.text.result # "Pass"
                        /\ Chosen.verb = "DeferIfPermit" => Chosen.text.code = "4xx"
        BY DEF ReplyCodeMatchesVerb
    <2> DEFINE m == input.mail_from.result
               h == input.helo.result
               who == Responsible(Policy, h, m)
    <2>1. /\ Policy.helo_reject \in RejectPolicy /\ Policy.mail_from_reject \in RejectPolicy
        BY DecidedIsAnswer, CaseParts
    <2>2. /\ who.severity = 2 => who.result \in SpfResult \ {"Pass", "Temperror"}
          /\ who.severity = 1 => who.result = "Temperror"
        BY <2>1, SeverityTells DEF Responsible, HeloSeverity, MailFromSeverity
    <2>3. Chosen = Decide(Policy, DefaultMessages, input.conf.header.mode, h, m)
        BY ChosenIs DEF DecideOn, CodesAsAsked
    <2>4. \A r \in SpfResult \ {"Pass"} :
              DefaultMessages[r] = IF r = "Temperror" THEN "4xx" ELSE "5xx"
        BY DEF DefaultMessages
    <2>5. CASE Chosen.verb = "Reject"
        <3>1. who.severity = 2 /\ Chosen.text = RenderMessage(DefaultMessages, who.result)
            BY <2>3, <2>5, Severities DEF Decide, Dunno
        <3> QED
            BY <2>2, <2>4, <2>5, <3>1 DEF RenderMessage
    <2>6. CASE Chosen.verb = "DeferIfPermit"
        <3>1. who.severity = 1 /\ Chosen.text = RenderMessage(DefaultMessages, who.result)
            BY <2>3, <2>6, Severities DEF Decide, Dunno
        <3> QED
            BY <2>2, <2>4, <2>6, <3>1 DEF RenderMessage, SpfResult
    <2> QED
        BY <2>5, <2>6
<1> QED
    BY <1>1, OneStep, PTL

\* A stricter dial, on either identity, never makes an answer milder.
THEOREM StricterNotMilder == Spec => []StricterIsNeverMilder
<1>1. Outputs => StricterIsNeverMilder
    <2> SUFFICES ASSUME Outputs, Decided
                 PROVE  StricterIsNeverMilder
        BY DEF StricterIsNeverMilder
    <2> DEFINE m == input.mail_from.result
               h == input.helo.result
               With(other) == Rank(DecideOn(other, h, m))
    <2>1. /\ Policy \in PolicyConfig
          /\ Policy.helo_reject \in RejectPolicy /\ Policy.mail_from_reject \in RejectPolicy
        BY DecidedIsAnswer, CaseParts
    <2>2. Rank(Chosen) = With(Policy)
        BY ChosenIs
    <2>3. \A p : HeloSeverity(p, h) \in {0, 1, 2} /\ MailFromSeverity(p, m) \in {0, 1, 2}
        BY SeverityRange DEF HeloSeverity, MailFromSeverity
    <2>4. \A p : With(p) = IF HeloSeverity(p, h) > MailFromSeverity(p, m)
                           THEN HeloSeverity(p, h) ELSE MailFromSeverity(p, m)
        BY RankOfDecision DEF DecideOn
    <2>5. ASSUME NEW p \in Stricter(Policy.helo_reject)
          PROVE  With([Policy EXCEPT !.helo_reject = p]) >= With(Policy)
        <3> DEFINE other == [Policy EXCEPT !.helo_reject = p]
        <3>1. /\ other.helo_reject = p
              /\ other.mail_from_reject = Policy.mail_from_reject
              /\ other.permerror_reject = Policy.permerror_reject
              /\ other.temperror_defer = Policy.temperror_defer
            BY <2>1 DEF PolicyConfig
        <3>2. /\ HeloSeverity(other, h) >= HeloSeverity(Policy, h)
              /\ MailFromSeverity(other, m) = MailFromSeverity(Policy, m)
            BY <2>1, <3>1, StricterIsAsSevere DEF HeloSeverity, MailFromSeverity
        <3> HIDE DEF other, With, h, m
        <3>3. With(other) >= With(Policy)
            BY <2>3, <2>4, <3>2
        <3> QED
            BY <3>3 DEF other
    <2>6. ASSUME NEW p \in Stricter(Policy.mail_from_reject)
          PROVE  With([Policy EXCEPT !.mail_from_reject = p]) >= With(Policy)
        <3> DEFINE other == [Policy EXCEPT !.mail_from_reject = p]
        <3>1. /\ other.mail_from_reject = p
              /\ other.helo_reject = Policy.helo_reject
              /\ other.permerror_reject = Policy.permerror_reject
              /\ other.temperror_defer = Policy.temperror_defer
            BY <2>1 DEF PolicyConfig
        <3>2. /\ MailFromSeverity(other, m) >= MailFromSeverity(Policy, m)
              /\ HeloSeverity(other, h) = HeloSeverity(Policy, h)
            BY <2>1, <3>1, StricterIsAsSevere DEF HeloSeverity, MailFromSeverity
        <3> HIDE DEF other, With, h, m
        <3>3. With(other) >= With(Policy)
            BY <2>3, <2>4, <3>2
        <3> QED
            BY <3>3 DEF other
    <2> QED
        BY <2>2, <2>5, <2>6 DEF StricterIsNeverMilder
<1> QED
    BY <1>1, OneStep, PTL

-----------------------------------------------------------------------------
(* The reply and the log. *)

\* The elements of a short tuple, and the sequences it belongs to.
LEMMA Tuples ==
    /\ \A a, b, c : <<a, b, c>>[1] = a
    /\ \A T : \A a \in T : <<a>> \in Seq(T)
    /\ \A T : \A a, b \in T : <<a, b>> \in Seq(T)
    /\ \A T : \A a, b, c, d \in T : <<a, b, c, d>> \in Seq(T)
OBVIOUS

LEMMA StartsWithBrace ==
    ASSUME NEW T, NEW text \in Seq(T), NEW i \in DOMAIN text, NEW name,
           StartsAt(text, i, name)
    PROVE  text[i] = "{"
<1> DEFINE placeholder == <<"{", name, "}">>
<1>1. i + 2 <= Len(text) /\ SubSeq(text, i, i + 2) = placeholder
    BY DEF StartsAt
<1>2. placeholder[1] = "{"
    BY Tuples, Zenon
<1> HIDE DEF placeholder
<1>3. SubSeq(text, i, i + 2)[1] = text[i]
    BY <1>1
<1> QED
    BY <1>1, <1>2, <1>3

\* A replacement brings in what it inserts, and leaves alone a text's first
\* token when it is no brace.
LEMMA ReplaceKeeps ==
    ASSUME NEW T, NEW text \in Seq(T), NEW name, NEW value \in Seq(T)
    PROVE  /\ Replace(text, name, value) \in Seq(T)
           /\ text # << >> /\ text[1] # "{" =>
                 /\ Replace(text, name, value) # << >>
                 /\ Replace(text, name, value)[1] = text[1]
<1> DEFINE Part(i) ==
               IF StartsAt(text, i, name) THEN value
               ELSE IF \E j \in {i - 2, i - 1} \cap DOMAIN text : StartsAt(text, j, name)
                    THEN << >>
               ELSE <<text[i]>>
           parts == [i \in DOMAIN text |-> Part(i)]
<1>1. \A i \in DOMAIN text : Part(i) \in Seq(T)
    OBVIOUS
<1>2. parts \in Seq(Seq(T)) /\ Len(parts) = Len(text)
    <2> HIDE DEF Part
    <2> QED
        BY <1>1
<1>3. Replace(text, name, value) = FlattenSeq(parts)
    BY DEF Replace
<1>4. ASSUME text # << >>, text[1] # "{"
      PROVE  parts # << >> /\ parts[1] = <<text[1]>>
    <2>1. 1 \in DOMAIN text
        <3>1. Len(text) # 0
            BY <1>4, EmptySeq
        <3> QED
            BY <3>1
    <2>2. ~StartsAt(text, 1, name)
        BY <1>4, <2>1, StartsWithBrace
    <2>3. {1 - 2, 1 - 1} \cap DOMAIN text = {}
        OBVIOUS
    <2>4. Part(1) = <<text[1]>>
        BY <2>2, <2>3
    <2> HIDE DEF Part
    <2> QED
        BY <2>1, <2>4
<1> HIDE DEF parts
<1>5. /\ FlattenSeq(parts) \in Seq(T)
      /\ parts # << >> /\ parts[1] # << >> =>
            FlattenSeq(parts) # << >> /\ FlattenSeq(parts)[1] = parts[1][1]
    BY <1>2, FlattenIsSeq
<1>6. text # << >> => <<text[1]>> # << >> /\ <<text[1]>>[1] = text[1]
    OBVIOUS
<1> QED
    BY <1>3, <1>4, <1>5, <1>6

\* The words that replies and log lines are made of, besides those of the
\* request and the configuration.
Vocabulary ==
    SpfResult \cup
    {"5xx", "check failed", "Received-SPF:", "(", ")", "domain of", "designates",
     "mechanism", "error", "designates nothing", "client-ip=", "envelope-from=",
     "helo=", "receiver=", "identity=", "MailFrom", "UNKNOWN", "action=", "dunno",
     "PREPEND", "defer_if_permit", "status=", "permit", "reject", "defer", "from=",
     "client=", "unknown", "spf_helo=", "spf_mailfrom=", "space"}

\* A set of tokens that words and the names of the request can be made of.
NamesIn(T) ==
    /\ Vocabulary \subseteq T
    /\ input.ctx.ip \in T
    /\ input.ctx.sender \in Seq(T) /\ input.ctx.helo \in Seq(T)
    /\ input.ctx.recipient \in Seq(T)
    /\ input.ctx.client_name \in Seq(Seq(T))

\* A set of tokens that a reply can be made of.
Covers(T) ==
    /\ NamesIn(T)
    /\ \A r \in SpfResult \ {"Pass"} : input.conf.messages[r] \in Seq(T)
    /\ UnwrapOr(input.conf.header.authserv_id, << >>) \in Seq(T)

\* A template is a text when the configured ones are.
LEMMA TemplateKeeps ==
    ASSUME NEW T, Vocabulary \subseteq T, NEW messages, NEW r \in SpfResult,
           \A q \in SpfResult \ {"Pass"} : messages[q] \in Seq(T)
    PROVE  MessageTemplate(messages, r) \in Seq(T)
<1>1. "5xx" \in T /\ "check failed" \in T
    BY DEF Vocabulary
<1>2. <<"5xx", "check failed">> \in Seq(T)
    BY <1>1, Tuples, Zenon
<1> QED
    BY <1>2 DEF MessageTemplate

LEMMA RenderKeeps ==
    ASSUME NEW T, Covers(T), NEW r \in SpfResult
    PROVE  LET template == MessageTemplate(input.conf.messages, r)
               text == Render(input.conf.messages, r, input.ctx)
           IN /\ text \in Seq(T)
              /\ template # << >> /\ template[1] # "{" =>
                    text # << >> /\ text[1] = template[1]
<1> DEFINE value == Values(r, input.ctx)
           t0 == MessageTemplate(input.conf.messages, r)
           t1 == Replace(t0, "result", value["result"])
           t2 == Replace(t1, "sender", value["sender"])
           t3 == Replace(t2, "helo", value["helo"])
           t4 == Replace(t3, "ip", value["ip"])
           t5 == Replace(t4, "recipient", value["recipient"])
           Same(s, t) == s # << >> /\ s[1] # "{" => t # << >> /\ t[1] = s[1]
<1>1. /\ value["result"] = <<r>> /\ value["sender"] = input.ctx.sender
      /\ value["helo"] = input.ctx.helo /\ value["ip"] = <<input.ctx.ip>>
      /\ value["recipient"] = input.ctx.recipient
    BY DEF Values
<1>2. /\ value["result"] \in Seq(T) /\ value["sender"] \in Seq(T)
      /\ value["helo"] \in Seq(T) /\ value["ip"] \in Seq(T)
      /\ value["recipient"] \in Seq(T)
    <2>1. r \in T /\ input.ctx.ip \in T
        BY DEF Covers, NamesIn, Vocabulary
    <2>2. <<r>> \in Seq(T) /\ <<input.ctx.ip>> \in Seq(T)
        BY <2>1
    <2> QED
        BY <1>1, <2>2 DEF Covers, NamesIn
<1>3. t0 \in Seq(T)
    BY TemplateKeeps DEF Covers, NamesIn
<1>4. Render(input.conf.messages, r, input.ctx) = t5
    BY DEF Render
<1> HIDE DEF t0, t1, t2, t3, t4, t5, value
<1>10. \A name : \A s, v \in Seq(T) :
          Replace(s, name, v) \in Seq(T) /\ Same(s, Replace(s, name, v))
    BY ReplaceKeeps
<1> HIDE DEF Same
<1>5. t1 \in Seq(T) /\ Same(t0, t1)
    BY <1>2, <1>3, <1>10 DEF t1
<1>6. t2 \in Seq(T) /\ Same(t1, t2)
    BY <1>2, <1>5, <1>10 DEF t2
<1>7. t3 \in Seq(T) /\ Same(t2, t3)
    BY <1>2, <1>6, <1>10 DEF t3
<1>8. t4 \in Seq(T) /\ Same(t3, t4)
    BY <1>2, <1>7, <1>10 DEF t4
<1>9. t5 \in Seq(T) /\ Same(t4, t5)
    BY <1>2, <1>8, <1>10 DEF t5
<1> QED
    BY <1>4, <1>5, <1>6, <1>7, <1>8, <1>9 DEF t0, Same

LEMMA Joined ==
    ASSUME NEW T, NEW s \in Seq(T), NEW t \in Seq(T)
    PROVE  s \o t \in Seq(T)
OBVIOUS

\* The part of a recipient that a header shows is made of the recipient's tokens.
LEMMA RecipientKeeps ==
    ASSUME NEW T, NamesIn(T)
    PROVE  LET unknown == <<"UNKNOWN">> IN
           unknown \in Seq(T) /\ UnwrapOr(AfterLastAt(input.ctx.recipient), unknown) \in Seq(T)
<1> DEFINE unknown == <<"UNKNOWN">>
           s == input.ctx.recipient
           ats == Positions(s, "@", 1)
           domain == After(s, Max(ats))
<1>1. unknown \in Seq(T)
    <2>1. "UNKNOWN" \in T
        BY DEF NamesIn, Vocabulary
    <2> QED
        BY <2>1, Tuples, Zenon
<1> HIDE DEF unknown
<1>2. s \in Seq(T) /\ Len(s) \in Nat
    BY DEF NamesIn
<1>3. ats # {} => domain \in Seq(T)
    <2> SUFFICES ASSUME ats # {} PROVE domain \in Seq(T)
        OBVIOUS
    <2>1. ats \in SUBSET (0..Len(s))
        BY <1>2 DEF Positions
    <2>2. Max(ats) \in 0..Len(s)
        <3> HIDE DEF ats
        <3> QED
            BY <1>2, <2>1, MaxIsGreatest
    <2> DEFINE k == Max(ats)
    <2> HIDE DEF k, s
    <2>3. SubSeq(s, k + 1, Len(s)) \in Seq(T)
        BY <1>2, <2>2 DEF k
    <2> QED
        BY <2>3 DEF After, k
<1>4. \A o, d : UnwrapOr(o, d) = IF o = << >> THEN d ELSE o[1]
    BY DEF UnwrapOr, None
<1>5. CASE ats = {}
    <2>1. AfterLastAt(s) = << >>
        BY <1>5 DEF AfterLastAt, None
    <2> QED
        BY <1>1, <1>4, <2>1 DEF unknown
<1>6. CASE ats # {}
    <2> HIDE DEF domain
    <2>1. AfterLastAt(s) = <<domain>>
        BY <1>6 DEF AfterLastAt, Some, domain
    <2>2. <<domain>> # << >> /\ <<domain>>[1] = domain
        OBVIOUS
    <2> QED
        BY <1>1, <1>3, <1>4, <1>6, <2>1, <2>2 DEF unknown
<1> QED
    BY <1>5, <1>6

\* A header shows authserv_id, or else names and words only.
LEMMA ReceiverKeeps ==
    ASSUME NEW T, NamesIn(T)
    PROVE  LET header == input.conf.header
               receiver == Receiver(input.ctx, header)
           IN IF header.hide_receiver \/ header.authserv_id = << >> THEN receiver \in Seq(T)
              ELSE receiver = header.authserv_id[1]
<1> DEFINE header == input.conf.header
           unknown == <<"UNKNOWN">>
           domain == UnwrapOr(AfterLastAt(input.ctx.recipient), unknown)
<1>1. unknown \in Seq(T) /\ domain \in Seq(T)
    BY RecipientKeeps
<1>2. Receiver(input.ctx, header) = IF header.hide_receiver THEN unknown
                                    ELSE UnwrapOr(header.authserv_id, domain)
    BY DEF Receiver, RecipientDomain
<1> HIDE DEF unknown, domain
<1>3. UnwrapOr(header.authserv_id, domain)
         = IF header.authserv_id = << >> THEN domain ELSE header.authserv_id[1]
    BY DEF UnwrapOr, None
<1> QED
    BY <1>1, <1>2, <1>3

\* Around that, a header is made of names and words.
LEMMA HeaderAround ==
    ASSUME NEW T, NamesIn(T), input \in Case
    PROVE  \E a, b \in Seq(T) :
              BuildReceivedSpf(input.mail_from, input.ctx, input.conf.header)
                = a \o Receiver(input.ctx, input.conf.header) \o b
<1> DEFINE ctx == input.ctx
           header == input.conf.header
           outcome == input.mail_from
<1>1. /\ outcome.result \in T /\ ctx.ip \in T /\ outcome.identity \in T
      /\ ctx.sender \in Seq(T) /\ ctx.helo \in Seq(T) /\ ctx.recipient \in Seq(T)
    BY CaseParts DEF NamesIn, Vocabulary
<1>2. /\ "(" \in T /\ ")" \in T /\ "domain of" \in T /\ "designates" \in T
      /\ "mechanism" \in T /\ "error" \in T /\ "designates nothing" \in T
      /\ "client-ip=" \in T /\ "envelope-from=" \in T /\ "helo=" \in T
      /\ "receiver=" \in T /\ "identity=" \in T /\ "UNKNOWN" \in T
    BY DEF NamesIn, Vocabulary
<1> HIDE DEF ctx, header, outcome
<1>4. DescribeCause(outcome, ctx) \in Seq(T)
    <2>1. /\ <<"domain of">> \in Seq(T) /\ <<"error">> \in Seq(T)
          /\ <<"designates", ctx.ip, outcome.result, "mechanism">> \in Seq(T)
          /\ <<"designates nothing", ctx.ip>> \in Seq(T)
        BY <1>1, <1>2, Tuples, Zenon
    <2> DEFINE a == <<"domain of">> \o ctx.sender
               b == <<"designates", ctx.ip, outcome.result, "mechanism">>
               c == <<"designates nothing", ctx.ip>>
    <2>2. a \in Seq(T)
        BY <1>1, <2>1, Joined
    <2>3. a \o b \in Seq(T) /\ a \o c \in Seq(T)
        <3> HIDE DEF a, b, c
        <3>1. b \in Seq(T) /\ c \in Seq(T)
            BY <2>1 DEF b, c
        <3> QED
            BY <2>2, <3>1, Joined
    <2>4. DescribeCause(outcome, ctx) = CASE outcome.cause = "match" -> a \o b
                                          [] outcome.cause = "error" -> <<"error">>
                                          [] OTHER -> a \o c
        BY DEF DescribeCause
    <2> HIDE DEF a, b, c
    <2> QED
        BY <2>1, <2>3, <2>4
<1>5. \E a, b \in Seq(T) : BuildReceivedSpf(outcome, ctx, header)
                                  = a \o Receiver(ctx, header) \o b
    <2> DEFINE u1 == <<outcome.result, "(">>
               u2 == DescribeCause(outcome, ctx)
               u3 == <<")", "client-ip=", ctx.ip, "envelope-from=">>
               u4 == ctx.sender
               u5 == <<"helo=">>
               u6 == ctx.helo
               u7 == <<"receiver=">>
               u8 == Receiver(ctx, header)
               u9 == <<"identity=", outcome.identity>>
    <2>1. u1 \in Seq(T) /\ u3 \in Seq(T) /\ u5 \in Seq(T) /\ u7 \in Seq(T) /\ u9 \in Seq(T)
        BY <1>1, <1>2, Tuples, Zenon
    <2>2. u2 \in Seq(T) /\ u4 \in Seq(T) /\ u6 \in Seq(T)
        BY <1>1, <1>4 DEF ctx
    <2>3. BuildReceivedSpf(outcome, ctx, header)
            = u1 \o u2 \o u3 \o u4 \o u5 \o u6 \o u7 \o u8 \o u9
        BY DEF BuildReceivedSpf
    <2> HIDE DEF u1, u2, u3, u4, u5, u6, u7, u8, u9
    <2>4. u1 \o u2 \o u3 \o u4 \in Seq(T)
        BY <2>1, <2>2, Joined
    <2>5. u1 \o u2 \o u3 \o u4 \o u5 \o u6 \in Seq(T)
        BY <2>1, <2>2, <2>4, Joined
    <2>6. u1 \o u2 \o u3 \o u4 \o u5 \o u6 \o u7 \in Seq(T)
        BY <2>1, <2>2, <2>5, Joined
    <2> QED
        BY <2>1, <2>3, <2>6 DEF u8
<1> QED
    BY <1>5 DEF ctx, header, outcome

LEMMA HeaderKeeps ==
    ASSUME NEW T, Covers(T), input \in Case
    PROVE  BuildReceivedSpf(input.mail_from, input.ctx, input.conf.header) \in Seq(T)
<1> DEFINE header == input.conf.header
           receiver == Receiver(input.ctx, header)
<1>1. receiver \in Seq(T)
    <2>1. IF header.hide_receiver \/ header.authserv_id = << >> THEN receiver \in Seq(T)
          ELSE receiver = header.authserv_id[1]
        BY ReceiverKeeps DEF Covers
    <2>2. header.authserv_id # << >> => header.authserv_id[1] \in Seq(T)
        BY DEF Covers, UnwrapOr, None
    <2> QED
        BY <2>1, <2>2
<1>2. PICK a \in Seq(T), b \in Seq(T) :
              BuildReceivedSpf(input.mail_from, input.ctx, header) = a \o receiver \o b
    BY HeaderAround DEF Covers
<1> HIDE DEF receiver
<1>3. a \o receiver \in Seq(T)
    BY <1>1, Joined
<1> QED
    BY <1>2, <1>3, Joined

LEMMA AnswerParts ==
    ASSUME Outputs, Decided
    PROVE  /\ output[1].text = Text(Chosen, input.conf, input.mail_from, input.ctx)
           /\ output[1].wire = ToWire(Chosen, output[1].text)
           /\ output[1].log = LogLine(input.ctx, input.helo, input.mail_from, Chosen,
                                      output[1].text)
           /\ Chosen.verb \in {"Reject", "DeferIfPermit", "Prepend", "Dunno"}
           /\ Chosen.verb \in {"Reject", "DeferIfPermit"} => Chosen.text.result \in SpfResult
<1> DEFINE action == Decide(input.conf.policy, Codes(input.conf.messages),
                            input.conf.header.mode, input.helo.result,
                            input.mail_from.result)
<1>1. /\ output[1].action = action
      /\ output[1].text = Text(action, input.conf, input.mail_from, input.ctx)
      /\ output[1].wire = ToWire(action, output[1].text)
      /\ output[1].log = LogLine(input.ctx, input.helo, input.mail_from, action,
                                 output[1].text)
    <2> HIDE DEF action
    <2> QED
        BY DecidedIsAnswer DEF Answer, action
<1>2. Chosen = action
    BY <1>1 DEF Chosen
<1>3. input.helo.result \in SpfResult /\ input.mail_from.result \in SpfResult
    BY DecidedIsAnswer, CaseParts
<1> DEFINE who == Responsible(input.conf.policy, input.helo.result, input.mail_from.result)
<1>4. who.result \in SpfResult
    BY <1>3 DEF Responsible
<1>5. /\ action.verb \in {"Reject", "DeferIfPermit", "Prepend", "Dunno"}
      /\ action.verb \in {"Reject", "DeferIfPermit"} => action.text.result = who.result
    BY DEF Decide, RenderMessage, ReceivedSpf, Dunno
<1> HIDE DEF action, who
<1> QED
    BY <1>1, <1>2, <1>4, <1>5

LEMMA ReplyKeeps ==
    ASSUME NEW T, Covers(T), Outputs, Decided
    PROVE  /\ output[1].text \in Seq(T)
           /\ Display(Chosen, output[1].text) \in Seq(T)
<1> DEFINE text == output[1].text
<1>1. input \in Case
    BY DecidedIsAnswer
<1>2. text = Text(Chosen, input.conf, input.mail_from, input.ctx)
    BY AnswerParts
<1>3. "action=" \in T /\ "dunno" \in T /\ "PREPEND" \in T /\ "defer_if_permit" \in T
      /\ "Received-SPF:" \in T
    BY DEF Covers, NamesIn, Vocabulary
<1>4. /\ <<"action=">> \in Seq(T) /\ <<"dunno">> \in Seq(T) /\ <<"PREPEND">> \in Seq(T)
      /\ <<"defer_if_permit">> \in Seq(T) /\ <<"Received-SPF:">> \in Seq(T)
    BY <1>3, Tuples, Zenon
<1>5. text \in Seq(T)
    <2>1. CASE Chosen.verb \in {"Reject", "DeferIfPermit"}
        <3>1. text = Render(input.conf.messages, Chosen.text.result, input.ctx)
            BY <1>2, <2>1 DEF Text
        <3>2. Chosen.text.result \in SpfResult
            BY <2>1, AnswerParts
        <3> QED
            BY <3>1, <3>2, RenderKeeps
    <2>2. CASE Chosen.verb = "Prepend"
        <3> DEFINE header == BuildReceivedSpf(input.mail_from, input.ctx, input.conf.header)
                   label == <<"Received-SPF:">>
        <3>1. text = label \o header
            BY <1>2, <2>2 DEF Text
        <3>2. header \in Seq(T) /\ label \in Seq(T)
            BY <1>1, <1>4, HeaderKeeps
        <3> HIDE DEF header, label
        <3> QED
            BY <3>1, <3>2, Joined
    <2>3. CASE Chosen.verb = "Dunno"
        <3>1. text = << >>
            BY <1>2, <2>3 DEF Text
        <3> QED
            BY <3>1, EmptySeq
    <2> QED
        BY <2>1, <2>2, <2>3, AnswerParts
<1> DEFINE a == <<"action=">>
           b == <<"dunno">>
           c == <<"PREPEND">>
           d == <<"defer_if_permit">>
<1>6. \E rest \in {b, c \o text, text, d \o text} : Display(Chosen, text) = a \o rest
    <2>1. Chosen.verb \in {"Reject", "DeferIfPermit", "Prepend", "Dunno"}
        BY AnswerParts
    <2> HIDE DEF text
    <2> QED
        BY <2>1 DEF Display
<1>7. a \in Seq(T) /\ b \in Seq(T) /\ c \in Seq(T) /\ d \in Seq(T) /\ text \in Seq(T)
    BY <1>4, <1>5
<1> HIDE DEF a, b, c, d, text
<1>8. c \o text \in Seq(T) /\ d \o text \in Seq(T)
    BY <1>7, Joined
<1> QED
    BY <1>6, <1>7, <1>8, Joined DEF text

LEMMA SeqGrows ==
    ASSUME NEW S, NEW T, S \subseteq T
    PROVE  Seq(S) \subseteq Seq(T)
<1> SUFFICES ASSUME NEW s \in Seq(S) PROVE s \in Seq(T)
    OBVIOUS
<1>1. \A i \in 1..Len(s) : s[i] \in T
    OBVIOUS
<1> QED
    BY <1>1

Tokens == STRING \cup Vocabulary \cup {"{", "}"} \cup KnownPlaceholder

LEMMA TokensCover ==
    ASSUME input \in Case
    PROVE  Covers(Tokens)
<1>1. Vocabulary \subseteq Tokens /\ STRING \subseteq Tokens
    BY DEF Tokens
<1>2. Phrase \subseteq Seq(Tokens)
    BY <1>1, SeqGrows DEF Phrase
<1>3. Name \subseteq Seq(Tokens)
    BY <1>1, SeqGrows DEF Name
<1>4. \A r \in SpfResult \ {"Pass"} : input.conf.messages[r] \in Seq(Tokens)
    BY <1>2, CaseParts
<1>5. UnwrapOr(input.conf.header.authserv_id, << >>) \in Seq(Tokens)
    <2>1. input.conf.header.authserv_id \in Seq(Phrase)
        BY CaseParts DEF Option
    <2>2. input.conf.header.authserv_id # << >> => input.conf.header.authserv_id[1] \in Phrase
        BY <2>1, EmptySeq
    <2>3. << >> \in Seq(Tokens)
        BY EmptySeq
    <2> QED
        BY <1>2, <2>2, <2>3 DEF UnwrapOr, None
<1>6. input.ctx.client_name \in Seq(Seq(Tokens))
    <2>1. input.ctx.client_name \in Seq(Name)
        BY CaseParts DEF Option
    <2> QED
        BY <1>3, <2>1, SeqGrows
<1>7. /\ input.ctx.ip \in Tokens
      /\ input.ctx.sender \in Seq(Tokens) /\ input.ctx.helo \in Seq(Tokens)
      /\ input.ctx.recipient \in Seq(Tokens)
    BY <1>1, <1>3, CaseParts DEF Address
<1> QED
    BY <1>1, <1>4, <1>5, <1>6, <1>7 DEF Covers, NamesIn

LEMMA RejectedResult ==
    ASSUME Outputs, Decided, Chosen.verb = "Reject"
    PROVE  Chosen.text.result \in SpfResult \ {"Pass", "Temperror"}
<1> DEFINE who == Responsible(Policy, input.helo.result, input.mail_from.result)
<1>1. Policy.helo_reject \in RejectPolicy /\ Policy.mail_from_reject \in RejectPolicy
    BY DecidedIsAnswer, CaseParts
<1>2. who.severity = 2 => who.result \in SpfResult \ {"Pass", "Temperror"}
    BY <1>1, SeverityTells DEF Responsible, HeloSeverity, MailFromSeverity
<1>3. who.severity = 2 /\ Chosen.text.result = who.result
    BY ChosenIs, Severities DEF DecideOn, Decide, Dunno, RenderMessage, ReceivedSpf
<1> QED
    BY <1>2, <1>3

LEMMA JoinedSecond ==
    ASSUME NEW T, NEW s \in Seq(T), NEW t \in Seq(T), Len(s) >= 2
    PROVE  s \o t \in Seq(T) /\ Len(s \o t) >= 2 /\ (s \o t)[2] = s[2]
OBVIOUS

LEMMA Sanitized ==
    ASSUME NEW T, NEW text \in Seq(T)
    PROVE  /\ \A c \in Control : ~HasToken(Sanitize(text), c)
           /\ Len(text) >= 2 /\ text[2] \notin Control => Sanitize(text)[2] = text[2]
<1> DEFINE out == Sanitize(text)
<1>1. /\ out = [i \in 1..Len(text) |-> IF text[i] \in Control THEN "space" ELSE text[i]]
      /\ Len(text) \in Nat
    BY DEF Sanitize
<1>2. Len(out) = Len(text)
    BY <1>1
<1>3. \A i \in 1..Len(text) : out[i] = IF text[i] \in Control THEN "space" ELSE text[i]
    BY <1>1
<1>4. "space" \notin Control
    BY DEF Control, NL
<1> HIDE DEF out
<1>5. \A c \in Control : Positions(out, c, 1) = {}
    BY <1>2, <1>3, <1>4 DEF Positions
<1> QED
    BY <1>1, <1>3, <1>5 DEF HasToken, out

\* The line before it is sanitized.
LEMMA LineKeeps ==
    ASSUME Outputs, Decided
    PROVE  \E line \in Seq(Tokens) :
              /\ output[1].log = Sanitize(line)
              /\ Len(line) >= 2 /\ line[2] = DescribeAction(Chosen)
<1> DEFINE T == Tokens
           ctx == input.ctx
           text == output[1].text
           verb == DescribeAction(Chosen)
           u1 == <<"status=", verb>>
           u2 == IF Chosen.verb = "Dunno" THEN << >> ELSE <<"(">> \o text \o <<")">>
           u3 == <<"from=">>
           u4 == ctx.sender
           u5 == <<"client=">>
           u6 == UnwrapOr(NonEmpty(ctx.client_name), <<"unknown">>)
           u7 == <<ctx.ip, "helo=">>
           u8 == ctx.helo
           u9 == <<"spf_helo=", input.helo.result, "spf_mailfrom=", input.mail_from.result>>
           line == u1 \o u2 \o u3 \o u4 \o u5 \o u6 \o u7 \o u8 \o u9
<1>1. input \in Case /\ Covers(T)
    BY DecidedIsAnswer, TokensCover
<1>2. output[1].log = Sanitize(line)
    <2>1. output[1].log = LogLine(ctx, input.helo, input.mail_from, Chosen, text)
        BY AnswerParts
    <2> QED
        BY <2>1 DEF LogLine
<1>3. verb \in {"permit", "reject", "defer"}
    BY AnswerParts DEF DescribeAction
<1>4. /\ "status=" \in T /\ verb \in T /\ "(" \in T /\ ")" \in T /\ "from=" \in T
      /\ "client=" \in T /\ "unknown" \in T /\ "helo=" \in T /\ "spf_helo=" \in T
      /\ "spf_mailfrom=" \in T /\ ctx.ip \in T
      /\ input.helo.result \in T /\ input.mail_from.result \in T
    BY <1>1, <1>3, CaseParts DEF Covers, NamesIn, Vocabulary
<1>5. /\ u1 \in Seq(T) /\ u3 \in Seq(T) /\ u5 \in Seq(T) /\ u7 \in Seq(T) /\ u9 \in Seq(T)
      /\ <<"(">> \in Seq(T) /\ <<")">> \in Seq(T) /\ <<"unknown">> \in Seq(T)
    <2> HIDE DEF verb, T
    <2> QED
        BY <1>4, Tuples, Zenon
<1>6. u4 \in Seq(T) /\ u8 \in Seq(T) /\ text \in Seq(T)
    BY <1>1, ReplyKeeps DEF Covers, NamesIn
<1>7. u2 \in Seq(T)
    <2> DEFINE a == <<"(">>
               b == <<")">>
    <2>1. a \in Seq(T) /\ b \in Seq(T) /\ text \in Seq(T) /\ << >> \in Seq(T)
        BY <1>5, <1>6, EmptySeq
    <2>2. u2 = IF Chosen.verb = "Dunno" THEN << >> ELSE a \o text \o b
        OBVIOUS
    <2> HIDE DEF a, b, text, u2, T
    <2>3. a \o text \in Seq(T)
        BY <2>1, Joined
    <2>4. a \o text \o b \in Seq(T)
        BY <2>1, <2>3, Joined
    <2> QED
        BY <2>1, <2>2, <2>4
<1>8. u6 \in Seq(T)
    <2> DEFINE name == ctx.client_name
               unknown == <<"unknown">>
    <2>1. name \in Seq(Seq(T)) /\ unknown \in Seq(T)
        BY <1>1, <1>5 DEF Covers, NamesIn
    <2> HIDE DEF name, unknown, T
    <2>2. name # << >> => name[1] \in Seq(T)
        BY <2>1, EmptySeq
    <2>3. UnwrapOr(NonEmpty(name), unknown) \in {unknown, name[1]}
        BY DEF UnwrapOr, NonEmpty, None
    <2>4. name = << >> => UnwrapOr(NonEmpty(name), unknown) = unknown
        BY DEF UnwrapOr, NonEmpty, None
    <2> QED
        BY <2>1, <2>2, <2>3, <2>4 DEF name, unknown
<1>9. Len(u1) >= 2 /\ u1[2] = verb
    <2> HIDE DEF verb
    <2> QED
        OBVIOUS
<1> HIDE DEF u1, u2, u3, u4, u5, u6, u7, u8, u9, verb, text, ctx, T
<1> DEFINE Begins(s) == s \in Seq(T) /\ Len(s) >= 2 /\ s[2] = verb
<1>10. \A s, t : Begins(s) /\ t \in Seq(T) => Begins(s \o t)
    BY JoinedSecond
<1>11. Begins(u1)
    BY <1>5, <1>9
<1> HIDE DEF Begins
<1>12. Begins(u1 \o u2 \o u3)
    BY <1>5, <1>7, <1>10, <1>11
<1>13. Begins(u1 \o u2 \o u3 \o u4 \o u5)
    BY <1>5, <1>6, <1>10, <1>12
<1>14. Begins(u1 \o u2 \o u3 \o u4 \o u5 \o u6 \o u7)
    BY <1>5, <1>8, <1>10, <1>13
<1>15. Begins(line)
    BY <1>5, <1>6, <1>10, <1>14
<1> HIDE DEF line
<1> QED
    BY <1>2, <1>15 DEF Begins, T, verb

\* The status in the log is what Postfix makes of the reply, and the entry is
\* one line, for every request, policy and template.
THEOREM LogIsTrue == Spec => []LogTellsTheReply
<1>1. ASSUME Outputs, Decided PROVE \A c \in Control : ~HasToken(output[1].log, c)
    <2>1. PICK line \in Seq(Tokens) : output[1].log = Sanitize(line)
        BY <1>1, LineKeeps
    <2> QED
        BY <2>1, Sanitized
<1>2. ASSUME Outputs, Decided,
             \A r \in SpfResult \ {"Pass"} :
                input.conf.messages[r] # << >> /\ input.conf.messages[r][1] = DefaultMessages[r]
      PROVE  output[1].log[2] = Reading(output[1].wire)
    <2> DEFINE text == output[1].text
               wire == output[1].wire
    <2>1. output[1].log[2] = DescribeAction(Chosen)
        <3>1. PICK line \in Seq(Tokens) : /\ output[1].log = Sanitize(line)
                                          /\ Len(line) >= 2 /\ line[2] = DescribeAction(Chosen)
            BY <1>2, LineKeeps
        <3>2. DescribeAction(Chosen) \in {"permit", "reject", "defer"}
            BY <1>2, AnswerParts DEF DescribeAction
        <3>3. line[2] \notin Control
            BY <3>1, <3>2 DEF Control, NL
        <3> QED
            BY <3>1, <3>3, Sanitized
    <2>2. Covers(Tokens)
        BY <1>2, DecidedIsAnswer, TokensCover
    <2>3. text \in Seq(Tokens)
        BY <1>2, <2>2, ReplyKeeps
    <2>4. wire = Display(Chosen, text) \o <<NL, NL>>
        BY <1>2, AnswerParts DEF ToWire
    <2>5. ASSUME NEW T, NEW rest \in Seq(T), NEW tail \in Seq(T), NEW a \in T, rest # << >>
          PROVE  (<<a>> \o rest \o tail)[2] = rest[1]
        BY <2>5
    <2> DEFINE T == Tokens \cup {NL}
               dunno == <<"dunno">>
               prepend == <<"PREPEND">>
               defers == <<"defer_if_permit">>
               action == <<"action=">>
               tail == <<NL, NL>>
    <2>6. /\ dunno \in Seq(T) /\ prepend \in Seq(T) /\ defers \in Seq(T)
          /\ tail \in Seq(T) /\ "action=" \in T
        <3>1. "dunno" \in T /\ "PREPEND" \in T /\ "defer_if_permit" \in T
              /\ "action=" \in T /\ NL \in T
            BY DEF Tokens, Vocabulary
        <3> HIDE DEF T
        <3> QED
            BY <3>1, Tuples, Zenon
    <2>7. text \in Seq(T)
        BY <2>3, SeqGrows
    <2>8. /\ dunno # << >> /\ dunno[1] = "dunno"
          /\ prepend # << >> /\ prepend[1] = "PREPEND"
          /\ defers # << >> /\ defers[1] = "defer_if_permit"
        OBVIOUS
    <2>9. \A rest \in Seq(T) : rest # << >> /\ Display(Chosen, text) = action \o rest
                              => wire[2] = rest[1]
        <3> SUFFICES ASSUME NEW rest \in Seq(T), rest # << >>,
                            Display(Chosen, text) = action \o rest
                     PROVE  wire[2] = rest[1]
            OBVIOUS
        <3>1. wire = (action \o rest) \o tail
            BY <2>4
        <3> HIDE DEF tail, T
        <3>2. ((action \o rest) \o tail)[2] = rest[1]
            BY <2>5, <2>6
        <3> QED
            BY <3>1, <3>2
    <2>10. \A s \in Seq(T) : /\ prepend \o s \in Seq(T) /\ prepend \o s # << >>
                             /\ (prepend \o s)[1] = "PREPEND"
                             /\ defers \o s \in Seq(T) /\ defers \o s # << >>
                             /\ (defers \o s)[1] = "defer_if_permit"
        <3> HIDE DEF prepend, defers, T
        <3> QED
            BY <2>6, <2>8
    <2> HIDE DEF T, wire, text
    <2>11. CASE Chosen.verb = "Dunno"
        <3>1. Display(Chosen, text) = action \o dunno
            BY <2>11 DEF Display
        <3>2. wire[2] = "dunno"
            BY <2>6, <2>8, <2>9, <3>1
        <3> QED
            BY <2>1, <2>11, <3>2 DEF DescribeAction, Reading, wire
    <2>12. CASE Chosen.verb = "Prepend"
        <3>1. Display(Chosen, text) = action \o (prepend \o text)
            BY <2>12 DEF Display
        <3> HIDE DEF prepend
        <3>2. wire[2] = "PREPEND"
            BY <2>7, <2>9, <2>10, <3>1
        <3> QED
            BY <2>1, <2>12, <3>2 DEF DescribeAction, Reading, wire
    <2>13. CASE Chosen.verb = "DeferIfPermit"
        <3>1. Display(Chosen, text) = action \o (defers \o text)
            BY <2>13 DEF Display
        <3> HIDE DEF defers
        <3>2. wire[2] = "defer_if_permit"
            BY <2>7, <2>9, <2>10, <3>1
        <3> QED
            BY <2>1, <2>13, <3>2 DEF DescribeAction, Reading, wire
    <2>14. CASE Chosen.verb = "Reject"
        <3> DEFINE r == Chosen.text.result
                   template == MessageTemplate(input.conf.messages, r)
        <3>1. r \in SpfResult \ {"Pass", "Temperror"}
            BY <1>2, <2>14, RejectedResult
        <3>2. template # << >> /\ template[1] = "5xx"
            BY <1>2, <3>1 DEF MessageTemplate, DefaultMessages
        <3>3. text = Render(input.conf.messages, r, input.ctx)
            BY <1>2, <2>14, AnswerParts DEF Text, text
        <3>4. text # << >> /\ text[1] = "5xx"
            <4>1. template # << >> /\ template[1] # "{" =>
                      text # << >> /\ text[1] = template[1]
                BY <2>2, <3>1, <3>3, RenderKeeps
            <4> QED
                BY <3>2, <4>1
        <3>5. Display(Chosen, text) = action \o text
            BY <2>14 DEF Display
        <3>6. wire[2] = "5xx"
            BY <2>7, <2>9, <3>4, <3>5
        <3> QED
            BY <2>1, <2>14, <3>6 DEF DescribeAction, Reading, wire
    <2> QED
        BY <1>2, <2>11, <2>12, <2>13, <2>14, AnswerParts
<1> QED
    BY <1>1, <1>2, OneStep, PTL DEF LogTellsTheReply

-----------------------------------------------------------------------------
(* Placeholders: what the check of a template lets pass, and what the five *)
(* replacements make of it.                                                *)

\* Short texts, token by token.
LEMMA ThreeIs ==
    ASSUME NEW T, NEW s \in Seq(T), NEW a, NEW b, NEW c
    PROVE  s = <<a, b, c>> <=> Len(s) = 3 /\ s[1] = a /\ s[2] = b /\ s[3] = c
<1>1. Len(<<a, b, c>>) = 3 /\ <<a, b, c>>[1] = a /\ <<a, b, c>>[2] = b /\ <<a, b, c>>[3] = c
    OBVIOUS
<1>2. ASSUME Len(s) = 3, s[1] = a, s[2] = b, s[3] = c
      PROVE  s = <<a, b, c>>
    <2>1. a \in T /\ b \in T /\ c \in T
        <3>1. 1 \in 1..Len(s) /\ 2 \in 1..Len(s) /\ 3 \in 1..Len(s)
            BY <1>2
        <3>2. s[1] \in T /\ s[2] \in T /\ s[3] \in T
            BY <3>1, ElementOfSeq
        <3> QED
            BY <1>2, <3>2
    <2>2. <<a, b, c>> \in Seq(T)
        BY <2>1
    <2> DEFINE t == <<a, b, c>>
    <2>3. \A i \in 1..Len(s) : s[i] = t[i]
        <3>1. \A i \in 1..Len(s) : i = 1 \/ i = 2 \/ i = 3
            BY <1>2
        <3> QED
            BY <1>1, <1>2, <3>1
    <2> HIDE DEF t
    <2> QED
        BY <1>1, <1>2, <2>2, <2>3, SeqEqual DEF t
<1> QED
    BY <1>1, <1>2

LEMMA OneIs ==
    ASSUME NEW T, NEW s \in Seq(T), NEW a
    PROVE  s = <<a>> <=> Len(s) = 1 /\ s[1] = a
<1>1. Len(<<a>>) = 1 /\ <<a>>[1] = a
    OBVIOUS
<1>2. ASSUME Len(s) = 1, s[1] = a
      PROVE  s = <<a>>
    <2> DEFINE t == <<a>>
    <2>2. t \in Seq(T)
        BY <1>2
    <2>3. \A i \in 1..Len(s) : s[i] = t[i]
        BY <1>1, <1>2
    <2> HIDE DEF t
    <2> QED
        BY <1>1, <1>2, <2>2, <2>3, SeqEqual DEF t
<1> QED
    BY <1>1, <1>2

\* Braces.  (The provers are spared the literals.)
Opening(text, i) == text[i] = "{"
Closing(text, i) == text[i] = "}"

\* A placeholder, token by token.
LEMMA StartsAtIs ==
    ASSUME NEW T, NEW text \in Seq(T), NEW i \in 1..Len(text), NEW name
    PROVE  StartsAt(text, i, name) <=>
              /\ i + 2 <= Len(text)
              /\ Opening(text, i) /\ text[i + 1] = name /\ Closing(text, i + 2)
<1>1. CASE i + 2 <= Len(text)
    <2> DEFINE s == SubSeq(text, i, i + 2)
    <2>1. s \in Seq(T) /\ Len(s) = 3 /\ s[1] = text[i] /\ s[2] = text[i + 1]
          /\ s[3] = text[i + 2]
        <3>1. \A j \in i..(i + 2) : text[j] \in T
            BY <1>1
        <3>2. i \in Int /\ i + 2 \in Int /\ i <= i + 2 /\ (i + 2) - i + 1 = 3
            OBVIOUS
        <3>3. /\ s \in Seq(T) /\ Len(s) = (i + 2) - i + 1
              /\ \A k \in 1..((i + 2) - i + 1) : s[k] = text[i + k - 1]
            BY <3>1, <3>2, SubSeqProperties
        <3>4. /\ s[1] = text[i + 1 - 1] /\ s[2] = text[i + 2 - 1] /\ s[3] = text[i + 3 - 1]
            BY <3>2, <3>3
        <3>5. i + 1 - 1 = i /\ i + 2 - 1 = i + 1 /\ i + 3 - 1 = i + 2
            OBVIOUS
        <3> HIDE DEF s
        <3> QED
            BY <3>2, <3>3, <3>4, <3>5
    <2>2. StartsAt(text, i, name) <=> s = <<"{", name, "}">>
        BY <1>1 DEF StartsAt
    <2> HIDE DEF s
    <2>3. \A a, b, c : s = <<a, b, c>> <=> s[1] = a /\ s[2] = b /\ s[3] = c
        BY <2>1, ThreeIs
    <2>4. s = <<"{", name, "}">> <=> s[1] = "{" /\ s[2] = name /\ s[3] = "}"
        BY <2>3, Zenon
    <2> QED
        BY <1>1, <2>1, <2>2, <2>4 DEF Opening, Closing
<1>2. CASE ~(i + 2 <= Len(text))
    BY <1>2 DEF StartsAt
<1> QED
    BY <1>1, <1>2

\* A closing brace after i.
Closes(text, i) == \E j \in (i + 1)..Len(text) : Closing(text, j)

\* Every brace from rest on that is ever closed opens a placeholder of K.
FilledFrom(text, rest, K) ==
    \A i \in rest..Len(text) :
        Opening(text, i) /\ Closes(text, i) => \E n \in K : StartsAt(text, i, n)

LEMMA NotBraces == \A n \in KnownPlaceholder : n # "{" /\ n # "}"
BY DEF KnownPlaceholder

\* The first of a token from a place on.
LEMMA FirstPosition ==
    ASSUME NEW text, NEW N \in Nat, N = Len(text), NEW token, NEW from \in Nat,
           NEW at, at = Positions(text, token, from), at # {},
           NEW first, first = Min(at)
    PROVE  /\ first \in from..N /\ text[first] = token
           /\ \A j \in from..N : text[j] = token => first <= j
<1>1. at = {i \in from..N : text[i] = token}
    BY DEF Positions
<1>2. at \in SUBSET Nat
    BY <1>1
<1>3. first \in at /\ \A i \in at : first <= i
    BY <1>2, MinIsLeast
<1> QED
    BY <1>1, <1>3

\* A stretch from a brace to the next closing one.
LEMMA StretchIs ==
    ASSUME NEW T, NEW text \in Seq(T), NEW N \in Nat, N = Len(text),
           NEW open \in 1..N, Opening(text, open),
           NEW m \in (open + 1)..N, Closing(text, m),
           \A j \in (open + 1)..N : Closing(text, j) => m <= j,
           NEW n \in KnownPlaceholder
    PROVE  /\ SubSeq(text, open + 1, m - 1) = <<n>> <=> StartsAt(text, open, n)
           /\ StartsAt(text, open, n) => m = open + 2
<1>1. StartsAt(text, open, n) => m = open + 2 /\ text[open + 1] = n
    <2> SUFFICES ASSUME StartsAt(text, open, n) PROVE m = open + 2 /\ text[open + 1] = n
        OBVIOUS
    <2>1. text[open + 1] = n /\ Closing(text, open + 2) /\ open + 2 <= N
        BY StartsAtIs
    <2>2. m <= open + 2
        BY <2>1
    <2>3. m # open + 1
        BY <2>1, NotBraces DEF Closing
    <2> QED
        BY <2>1, <2>2, <2>3
<1>2. m = open + 2 /\ text[open + 1] = n => StartsAt(text, open, n)
    <2> SUFFICES ASSUME m = open + 2, text[open + 1] = n PROVE StartsAt(text, open, n)
        OBVIOUS
    <2>1. open + 2 <= Len(text) /\ Closing(text, open + 2)
        OBVIOUS
    <2> QED
        BY <2>1, StartsAtIs
<1> DEFINE s == SubSeq(text, open + 1, m - 1)
<1>3. /\ s \in Seq(T)
      /\ Len(s) = IF open + 1 <= m - 1 THEN (m - 1) - (open + 1) + 1 ELSE 0
      /\ \A i \in 1..((m - 1) - (open + 1) + 1) : s[i] = text[(open + 1) + i - 1]
    <2>1. \A j \in (open + 1)..(m - 1) : text[j] \in T
        <3> TAKE j \in (open + 1)..(m - 1)
        <3>1. j \in 1..Len(text)
            OBVIOUS
        <3> QED
            BY <3>1
    <2>2. open + 1 \in Int /\ m - 1 \in Int
        OBVIOUS
    <2> QED
        BY <2>1, <2>2, SubSeqProperties
<1> HIDE DEF s
<1>4. Len(s) = 1 <=> m = open + 2
    BY <1>3
<1>5. Len(s) = 1 => s[1] = text[open + 1]
    <2> SUFFICES ASSUME Len(s) = 1 PROVE s[1] = text[open + 1]
        OBVIOUS
    <2>1. 1 \in 1..((m - 1) - (open + 1) + 1) /\ (open + 1) + 1 - 1 = open + 1
        BY <1>4
    <2>2. s[1] = text[(open + 1) + 1 - 1]
        BY <1>3, <2>1
    <2> QED
        BY <2>1, <2>2
<1>6. s = <<n>> <=> Len(s) = 1 /\ s[1] = n
    BY <1>3, OneIs
<1> QED
    BY <1>1, <1>2, <1>4, <1>5, <1>6 DEF s

LEMMA FirstBraces ==
    ASSUME NEW text, NEW N \in Nat, N = Len(text), NEW from \in Nat
    PROVE  /\ LET at == Positions(text, "{", from)
                  first == Min(at)
              IN /\ at = {} => \A j \in from..N : ~Opening(text, j)
                 /\ at # {} => /\ first \in from..N /\ Opening(text, first)
                               /\ \A j \in from..N : Opening(text, j) => first <= j
           /\ LET at == Positions(text, "}", from)
                  first == Min(at)
              IN /\ at = {} => \A j \in from..N : ~Closing(text, j)
                 /\ at # {} => /\ first \in from..N /\ Closing(text, first)
                               /\ \A j \in from..N : Closing(text, j) => first <= j
<1>1. \A token : LET at == Positions(text, token, from)
                     first == Min(at)
                 IN /\ at = {} => \A j \in from..N : text[j] # token
                    /\ at # {} => /\ first \in from..N /\ text[first] = token
                                  /\ \A j \in from..N : text[j] = token => first <= j
    <2> TAKE token
    <2>1. ASSUME Positions(text, token, from) # {}
          PROVE  LET first == Min(Positions(text, token, from))
                 IN /\ first \in from..N /\ text[first] = token
                    /\ \A j \in from..N : text[j] = token => first <= j
        BY <2>1, FirstPosition
    <2>2. Positions(text, token, from) = {} => \A j \in from..N : text[j] # token
        BY DEF Positions
    <2> QED
        BY <2>1, <2>2
<1> QED
    BY <1>1, Zenon DEF Opening, Closing

\* One stretch of the scan: what is to be shown of a text from rest on is what
\* the scan looks at, and the same of what follows.
Scans(text, rest, later) ==
    LET opens == Positions(text, "{", rest)
        open == Min(opens)
        closes == Positions(text, "}", open + 1)
    IN \/ opens = {}
       \/ closes = {}
       \/ /\ \E name \in KnownPlaceholder :
                SubSeq(text, open + 1, Min(closes) - 1) = <<name>>
          /\ later

LEMMA ScanStep ==
    ASSUME NEW T, NEW text \in Seq(T), NEW rest \in 1..(Len(text) + 1)
    PROVE  LET open == Min(Positions(text, "{", rest))
               next == Min(Positions(text, "}", open + 1)) + 1
               more == Positions(text, "{", rest) # {} /\ Positions(text, "}", open + 1) # {}
           IN /\ more => next \in 1..(Len(text) + 1) /\ rest < next
              /\ Scans(text, rest, FilledFrom(text, next, KnownPlaceholder))
                   <=> FilledFrom(text, rest, KnownPlaceholder)
<1> DEFINE N == Len(text)
           K == KnownPlaceholder
           opens == Positions(text, "{", rest)
           open == Min(opens)
           closes == Positions(text, "}", open + 1)
           m == Min(closes)
           Marked(n) == SubSeq(text, open + 1, m - 1) = <<n>>
           more == opens # {} /\ closes # {}
<1>1. N \in Nat /\ rest \in Nat /\ 1 <= rest
    OBVIOUS
<1>2. /\ opens = {} => \A j \in rest..N : ~Opening(text, j)
      /\ opens # {} => /\ open \in rest..N /\ Opening(text, open)
                       /\ \A j \in rest..N : Opening(text, j) => open <= j
    BY <1>1, FirstBraces
<1>3. CASE opens = {}
    <2>1. FilledFrom(text, rest, K)
        BY <1>2, <1>3 DEF FilledFrom
    <2> QED
        BY <1>3, <2>1 DEF Scans
<1>4. CASE opens # {}
    <2>1. open \in rest..N /\ Opening(text, open)
          /\ \A j \in rest..N : Opening(text, j) => open <= j
        BY <1>2, <1>4
    <2> HIDE DEF opens, open
    <2>2. open \in Nat /\ open + 1 \in Nat /\ open \in 1..N
        BY <1>1, <2>1
    <2>3. /\ closes = {} => \A j \in (open + 1)..N : ~Closing(text, j)
          /\ closes # {} => /\ m \in (open + 1)..N /\ Closing(text, m)
                            /\ \A j \in (open + 1)..N : Closing(text, j) => m <= j
        BY <1>1, <2>2, FirstBraces
    <2>4. CASE closes = {}
        <3>1. \A j \in (open + 1)..N : ~Closing(text, j)
            BY <2>3, <2>4
        <3>2. \A i \in rest..N : Opening(text, i) => ~Closes(text, i)
            <4> SUFFICES ASSUME NEW i \in rest..N, Opening(text, i), NEW j \in (i + 1)..N,
                                Closing(text, j)
                         PROVE  FALSE
                BY DEF Closes
            <4>1. open <= i
                BY <2>1
            <4>2. j \in (open + 1)..N
                BY <1>1, <2>2, <4>1
            <4> QED
                BY <3>1, <4>2
        <3>3. FilledFrom(text, rest, K)
            BY <3>2 DEF FilledFrom
        <3> QED
            BY <2>4, <3>3 DEF Scans, opens, open
    <2>5. CASE closes # {}
        <3>1. m \in (open + 1)..N /\ Closing(text, m)
              /\ \A j \in (open + 1)..N : Closing(text, j) => m <= j
            BY <2>3, <2>5
        <3> HIDE DEF closes, m
        <3>2. \A n \in K : Marked(n) <=> StartsAt(text, open, n)
            BY <1>1, <2>1, <2>2, <3>1, StretchIs
        <3>3. \A n \in K : StartsAt(text, open, n) => m = open + 2
            BY <1>1, <2>1, <2>2, <3>1, StretchIs
        <3>4. m \in Nat /\ m + 1 \in 1..(N + 1) /\ rest < m + 1 /\ open < m
            BY <1>1, <2>1, <2>2, <3>1
        <3>5. Closes(text, open)
            BY <3>1 DEF Closes
        <3>6. ASSUME FilledFrom(text, rest, K)
              PROVE  (\E n \in K : Marked(n)) /\ FilledFrom(text, m + 1, K)
            <4>1. \E n \in K : StartsAt(text, open, n)
                BY <2>1, <3>5, <3>6 DEF FilledFrom
            <4>2. \A i \in (m + 1)..N : i \in rest..N
                BY <1>1, <3>4
            <4>3. FilledFrom(text, m + 1, K)
                BY <3>6, <4>2 DEF FilledFrom
            <4> QED
                BY <3>2, <4>1, <4>3
        <3>7. ASSUME NEW n \in K, Marked(n), FilledFrom(text, m + 1, K)
              PROVE  FilledFrom(text, rest, K)
            <4>1. StartsAt(text, open, n) /\ m = open + 2
                BY <3>2, <3>3, <3>7
            <4> SUFFICES ASSUME NEW i \in rest..N, Opening(text, i), Closes(text, i)
                         PROVE  \E k \in K : StartsAt(text, i, k)
                BY DEF FilledFrom
            <4>2. open <= i
                BY <2>1
            <4>3. i # open + 1
                <5>1. text[open + 1] = n
                    BY <2>2, <4>1, StartsAtIs
                <5> QED
                    BY <5>1, NotBraces DEF Opening
            <4>4. i # m
                BY <3>1 DEF Opening, Closing
            <4>5. i = open \/ i \in (m + 1)..N
                BY <1>1, <2>2, <3>4, <4>1, <4>2, <4>3, <4>4
            <4>6. CASE i = open
                BY <4>1, <4>6
            <4>7. CASE i \in (m + 1)..N
                BY <3>7, <4>7 DEF FilledFrom
            <4> QED
                BY <4>5, <4>6, <4>7
        <3>8. Scans(text, rest, FilledFrom(text, m + 1, K))
                <=> (\E n \in K : Marked(n)) /\ FilledFrom(text, m + 1, K)
            BY <1>4, <2>5 DEF Scans, opens, open, closes, m
        <3>9. Scans(text, rest, FilledFrom(text, m + 1, K)) <=> FilledFrom(text, rest, K)
            BY <3>6, <3>7, <3>8
        <3> QED
            BY <3>4, <3>9 DEF opens, open, closes, m
    <2> QED
        BY <2>4, <2>5
<1> QED
    BY <1>3, <1>4

\* What the scan says of a text from each place on, given what it says of later
\* ones.
Scanned(text, g) ==
    [rest \in 1..(Len(text) + 1) |->
        LET opens == Positions(text, "{", rest) IN
        opens = {} \/
            LET open == Min(opens)
                closes == Positions(text, "}", open + 1)
            IN closes = {} \/
                /\ \E name \in KnownPlaceholder :
                      SubSeq(text, open + 1, Min(closes) - 1) = <<name>>
                /\ g[Min(closes) + 1]]

\* The two ways of saying it agree.
LEMMA ScanIsScans ==
    ASSUME NEW text, NEW rest \in 1..(Len(text) + 1), NEW g
    PROVE  Scanned(text, g)[rest]
           <=> Scans(text, rest,
                     g[Min(Positions(text, "}", Min(Positions(text, "{", rest)) + 1)) + 1])
BY Zenon DEF Scans, Scanned

\* The function that the scan is defined by exists: to be filled in is one.
LEMMA ScanDefined ==
    ASSUME NEW T, NEW text \in Seq(T)
    PROVE  \E g : g = Scanned(text, g)
<1> DEFINE N == Len(text)
           Follows(rest) == Min(Positions(text, "}", Min(Positions(text, "{", rest)) + 1)) + 1
           C == [rest \in 1..(N + 1) |-> FilledFrom(text, rest, KnownPlaceholder)]
<1>1. ASSUME NEW rest \in 1..(N + 1)
      PROVE  C[rest] = Scanned(text, C)[rest]
    <2>1. Scanned(text, C)[rest] <=> Scans(text, rest, C[Follows(rest)])
        BY ScanIsScans, Zenon
    <2>2. C[rest] <=> Scans(text, rest, FilledFrom(text, Follows(rest), KnownPlaceholder))
        BY ScanStep, Zenon
    <2>3. (Positions(text, "{", rest) # {}
            /\ Positions(text, "}", Min(Positions(text, "{", rest)) + 1) # {})
           => Follows(rest) \in 1..(N + 1)
        BY ScanStep
    <2>4. Follows(rest) \in 1..(N + 1) => C[Follows(rest)] = FilledFrom(text, Follows(rest), KnownPlaceholder)
        BY Zenon
    <2> HIDE DEF Follows, C
    <2>5. Scans(text, rest, C[Follows(rest)]) <=> Scans(text, rest, FilledFrom(text, Follows(rest), KnownPlaceholder))
        BY <2>3, <2>4, Zenon DEF Scans
    <2>6. C[rest] <=> Scanned(text, C)[rest]
        BY <2>1, <2>2, <2>5, Zenon
    <2>7. C[rest] \in BOOLEAN /\ Scanned(text, C)[rest] \in BOOLEAN
        BY Zenon DEF C, FilledFrom, Scanned
    <2> QED
        BY <2>6, <2>7
<1>2. C = Scanned(text, C)
    BY <1>1, Zenon DEF Scanned
<1> QED
    BY <1>2, Zenon

\* What the check lets pass has each closed brace open a known placeholder.
LEMMA AcceptedIsKnown ==
    ASSUME NEW T, NEW text \in Seq(T), ValidatePlaceholders(text)
    PROVE  FilledFrom(text, 1, KnownPlaceholder)
<1> DEFINE N == Len(text)
           Follows(rest) == Min(Positions(text, "}", Min(Positions(text, "{", rest)) + 1)) + 1
           G == CHOOSE g : g = Scanned(text, g)
           Filled(rest) == FilledFrom(text, rest, KnownPlaceholder)
<1>1. G = Scanned(text, G)
    <2>1. \E g : g = Scanned(text, g)
        BY ScanDefined, Zenon
    <2> QED
        BY <2>1, Zenon
<1>2. G[1]
    BY Zenon DEF ValidatePlaceholders, Scanned
<1> HIDE DEF G
<1>3. \A rest \in 1..(N + 1) : G[rest] <=> Scans(text, rest, G[Follows(rest)])
    <2> TAKE rest \in 1..(N + 1)
    <2>1. Scanned(text, G)[rest] <=> Scans(text, rest, G[Follows(rest)])
        BY ScanIsScans, Zenon
    <2> QED
        BY <1>1, <2>1, Zenon
<1> HIDE DEF Follows, Filled
<1>4. \A rest \in 1..(N + 1) :
        /\ Filled(rest) <=> Scans(text, rest, Filled(Follows(rest)))
        /\ ~Scans(text, rest, FALSE) =>
              /\ Follows(rest) \in 1..(N + 1) /\ rest < Follows(rest)
    <2> TAKE rest \in 1..(N + 1)
    <2>1. Filled(rest) <=> Scans(text, rest, Filled(Follows(rest)))
        BY ScanStep, Zenon DEF Follows, Filled
    <2>2. (Positions(text, "{", rest) # {}
            /\ Positions(text, "}", Min(Positions(text, "{", rest)) + 1) # {})
           => Follows(rest) \in 1..(N + 1) /\ rest < Follows(rest)
        BY ScanStep DEF Follows
    <2> QED
        BY <2>1, <2>2, Zenon DEF Scans
<1>5. ASSUME NEW rest \in 1..(N + 1), G[rest], ~Filled(rest)
      PROVE  /\ Follows(rest) \in 1..(N + 1) /\ rest < Follows(rest)
             /\ G[Follows(rest)] /\ ~Filled(Follows(rest))
    <2>1. Scans(text, rest, G[Follows(rest)]) /\ ~Scans(text, rest, Filled(Follows(rest)))
        BY <1>3, <1>4, <1>5, Zenon
    <2> QED
        BY <1>4, <2>1, Zenon DEF Scans
<1> DEFINE Bad == {rest \in 1..(N + 1) : G[rest] /\ ~Filled(rest)}
<1>6. Bad = {}
    <2> SUFFICES ASSUME Bad # {} PROVE FALSE
        OBVIOUS
    <2>1. N + 1 \in Nat /\ Bad \in SUBSET (0..(N + 1))
        OBVIOUS
    <2> DEFINE last == Max(Bad)
    <2>2. last \in Bad /\ \A n \in Bad : last >= n
        <3> HIDE DEF Bad
        <3> QED
            BY <2>1, MaxIsGreatest
    <2> HIDE DEF last
    <2>3. last \in 1..(N + 1) /\ G[last] /\ ~Filled(last)
        BY <2>2
    <2>4. Follows(last) \in Bad /\ last < Follows(last)
        BY <1>5, <2>3, Zenon
    <2>5. last >= Follows(last)
        BY <2>2, <2>4
    <2>6. Follows(last) \in 1..(N + 1)
        BY <2>4
    <2> QED
        BY <2>3, <2>4, <2>5, <2>6
<1>7. 1 \in 1..(N + 1)
    OBVIOUS
<1>8. Filled(1)
    BY <1>2, <1>6, <1>7, Zenon
<1> QED
    BY <1>8 DEF Filled

Braceless(value) == \A k \in 1..Len(value) : ~Opening(value, k) /\ ~Closing(value, k)

\* The parts that a replacement is put together from.
PartOf(text, name, value, i) ==
    IF StartsAt(text, i, name) THEN value
    ELSE IF \E j \in {i - 2, i - 1} \cap DOMAIN text : StartsAt(text, j, name)
         THEN << >>
    ELSE <<text[i]>>

\* A part that holds a brace is one token of the text; and none of
\* what is replaced.
LEMMA PartWithBrace ==
    ASSUME NEW T, NEW text \in Seq(T), NEW name \in KnownPlaceholder,
           NEW value \in Seq(T), Braceless(value), NEW i \in 1..Len(text),
           NEW o \in 1..Len(PartOf(text, name, value, i)),
           Opening(PartOf(text, name, value, i), o) \/ Closing(PartOf(text, name, value, i), o)
    PROVE  /\ PartOf(text, name, value, i) = <<text[i]>> /\ o = 1
           /\ ~StartsAt(text, i, name)
<1>1. ~StartsAt(text, i, name)
    BY DEF PartOf, Braceless
<1>2. PartOf(text, name, value, i) # << >>
    <2> DEFINE p == PartOf(text, name, value, i)
    <2>1. Len(p) # 0
        OBVIOUS
    <2>2. Len(<< >>) = 0
        OBVIOUS
    <2> QED
        BY <2>1, <2>2, Zenon
<1>3. PartOf(text, name, value, i) = <<text[i]>>
    BY <1>1, <1>2, Zenon DEF PartOf
<1>4. Len(<<text[i]>>) = 1
    OBVIOUS
<1>5. o \in 1..1
    BY <1>3, <1>4
<1> QED
    BY <1>1, <1>3, <1>5

\* The tokens of another placeholder are parts of their own.
LEMMA OtherParts ==
    ASSUME NEW T, NEW text \in Seq(T), NEW name \in KnownPlaceholder,
           NEW value, NEW n \in KnownPlaceholder, n # name,
           NEW i \in 1..Len(text), StartsAt(text, i, n)
    PROVE  /\ i + 1 \in 1..Len(text) /\ i + 2 \in 1..Len(text)
           /\ text[i + 1] = n /\ Closing(text, i + 2)
           /\ PartOf(text, name, value, i + 1) = <<text[i + 1]>>
           /\ PartOf(text, name, value, i + 2) = <<text[i + 2]>>
<1>1. /\ i + 2 <= Len(text) /\ Opening(text, i) /\ text[i + 1] = n /\ Closing(text, i + 2)
    BY StartsAtIs
<1>2. i + 1 \in 1..Len(text) /\ i + 2 \in 1..Len(text)
    BY <1>1
<1>3. ~StartsAt(text, i, name)
    <2>1. StartsAt(text, i, name) => text[i + 1] = name
        BY StartsAtIs
    <2> QED
        BY <1>1, <2>1
<1>4. ~StartsAt(text, i + 1, name)
    <2>1. StartsAt(text, i + 1, name) => Opening(text, i + 1)
        BY <1>2, StartsAtIs
    <2> QED
        BY <1>1, <2>1, NotBraces DEF Opening
<1>5. ~StartsAt(text, i + 2, name)
    <2>1. StartsAt(text, i + 2, name) => Opening(text, i + 2)
        BY <1>2, StartsAtIs
    <2> QED
        BY <1>1, <2>1 DEF Opening, Closing
<1>6. ASSUME NEW j \in DOMAIN text, j = i - 1 PROVE ~StartsAt(text, j, name)
    <2>1. j \in 1..Len(text) /\ j + 1 = i
        BY <1>6
    <2>2. StartsAt(text, j, name) => text[i] = name
        BY <2>1, StartsAtIs
    <2> QED
        BY <1>1, <2>2, NotBraces DEF Opening
<1>7. \A j \in {(i + 1) - 2, (i + 1) - 1} \cap DOMAIN text : ~StartsAt(text, j, name)
    <2>1. (i + 1) - 2 = i - 1 /\ (i + 1) - 1 = i
        OBVIOUS
    <2> QED
        BY <1>3, <1>6, <2>1, Zenon
<1>8. \A j \in {(i + 2) - 2, (i + 2) - 1} \cap DOMAIN text : ~StartsAt(text, j, name)
    <2>1. (i + 2) - 2 = i /\ (i + 2) - 1 = i + 1
        OBVIOUS
    <2> QED
        BY <1>3, <1>4, <2>1, Zenon
<1>9. /\ PartOf(text, name, value, i + 1) = <<text[i + 1]>>
      /\ PartOf(text, name, value, i + 2) = <<text[i + 2]>>
    BY <1>4, <1>5, <1>7, <1>8, Zenon DEF PartOf
<1> QED
    BY <1>1, <1>2, <1>9

\* A replacement fills in its placeholder and leaves the others whole.
LEMMA ReplaceFills ==
    ASSUME NEW T, NEW text \in Seq(T), NEW name \in KnownPlaceholder,
           NEW value \in Seq(T), Braceless(value),
           NEW K \in SUBSET KnownPlaceholder, FilledFrom(text, 1, K)
    PROVE  FilledFrom(Replace(text, name, value), 1, K \ {name})
<1> DEFINE P(i) == PartOf(text, name, value, i)
           N == Len(text)
           parts == [i \in 1..N |-> P(i)]
           s == Replace(text, name, value)
<1>1. N \in Nat /\ DOMAIN text = 1..N
    OBVIOUS
<1>2. \A i \in 1..N : P(i) \in Seq(T)
    BY DEF PartOf
<1>3. parts \in Seq(Seq(T)) /\ Len(parts) = N
    <2> HIDE DEF P
    <2> QED
        BY <1>1, <1>2
<1>4. s = FlattenSeq(parts)
    BY <1>1, Zenon DEF Replace, PartOf
<1>5. \A i \in 1..N : parts[i] = P(i)
    OBVIOUS
<1> DEFINE len == [i \in 1..N |-> Len(parts[i])]
<1> HIDE DEF parts, P, s
<1>6. s \in Seq(T)
    BY <1>3, <1>4, FlattenPlaces
<1>7. PICK off \in [0..N -> Nat] :
          /\ off[0] = 0 /\ off[N] = Len(s)
          /\ \A i \in 1..N : off[i] = off[i - 1] + Len(parts[i])
          /\ \A i \in 1..N : \A o \in 1..Len(parts[i]) : s[off[i - 1] + o] = parts[i][o]
    <2> DEFINE M == Len(parts)
               flat == FlattenSeq(parts)
    <2>1. \E off \in [0..M -> Nat] :
                 /\ off[0] = 0 /\ off[M] = Len(flat)
                 /\ \A i \in 1..M : off[i] = off[i - 1] + Len(parts[i])
                 /\ \A i \in 1..M : \A o \in 1..Len(parts[i]) :
                       flat[off[i - 1] + o] = parts[i][o]
        BY <1>3, FlattenPlaces
    <2>2. M = N /\ flat = s
        BY <1>3, <1>4
    <2> HIDE DEF M, N, flat
    <2> QED
        BY <2>1, <2>2
<1>8. \A i \in 1..N : Len(parts[i]) \in Nat
    BY <1>2, <1>5
<1>9. len \in [1..N -> Nat] /\ \A i \in 1..N : len[i] = Len(parts[i])
    BY <1>8
<1> HIDE DEF len
<1>27. \A i \in 1..N : off[i] = off[i - 1] + len[i]
    BY <1>7, <1>9
<1>10. \A i, j \in 0..N : i <= j => off[i] <= off[j]
    BY <1>1, <1>9, <1>27, OffsetsGrow
<1>11. \A k \in 1..Len(s) : \E i \in 1..N : \E o \in 1..Len(parts[i]) : k = off[i - 1] + o
    <2> TAKE k \in 1..Len(s)
    <2>1. k \in 1..off[N]
        BY <1>7
    <2>2. \E i \in 1..N : \E o \in 1..len[i] : k = off[i - 1] + o
        BY <1>1, <1>7, <1>9, <1>27, <2>1, FlattenFrom
    <2> QED
        BY <1>9, <2>2
\* A brace of the result is one of the text.
<1>12. ASSUME NEW k \in 1..Len(s), Opening(s, k) \/ Closing(s, k)
       PROVE  \E i \in 1..N : /\ parts[i] = <<text[i]>> /\ k = off[i - 1] + 1 /\ s[k] = text[i]
                              /\ ~StartsAt(text, i, name)
    <2>1. PICK i \in 1..N : \E o \in 1..Len(parts[i]) : k = off[i - 1] + o
        BY <1>11
    <2>2. PICK o \in 1..Len(parts[i]) : k = off[i - 1] + o
        BY <2>1
    <2>3. s[k] = parts[i][o]
        BY <1>7, <2>2
    <2>4. Opening(parts[i], o) \/ Closing(parts[i], o)
        BY <1>12, <2>3 DEF Opening, Closing
    <2>5. parts[i] = <<text[i]>> /\ o = 1 /\ ~StartsAt(text, i, name)
        BY <1>5, <2>4, PartWithBrace DEF P
    <2>6. <<text[i]>>[1] = text[i]
        OBVIOUS
    <2> QED
        BY <2>2, <2>3, <2>5, <2>6
<1> SUFFICES ASSUME NEW p \in 1..Len(s), Opening(s, p), Closes(s, p)
             PROVE  \E n \in K \ {name} : StartsAt(s, p, n)
    BY DEF FilledFrom, s
<1>13. PICK q \in (p + 1)..Len(s) : Closing(s, q)
    BY DEF Closes
<1>14. PICK i \in 1..N : /\ parts[i] = <<text[i]>> /\ p = off[i - 1] + 1 /\ s[p] = text[i]
                         /\ ~StartsAt(text, i, name)
    BY <1>12
<1>15. q \in 1..Len(s) /\ p < q
    BY <1>6, <1>13
<1>16. PICK j \in 1..N : parts[j] = <<text[j]>> /\ q = off[j - 1] + 1 /\ s[q] = text[j]
    BY <1>12, <1>13, <1>15
<1>17. i < j
    <2> SUFFICES ASSUME j <= i PROVE FALSE
        BY <1>1
    <2>1. i - 1 \in 0..N /\ j - 1 \in 0..N /\ j - 1 <= i - 1
        BY <1>1
    <2>2. off[j - 1] <= off[i - 1] /\ off[j - 1] \in Nat /\ off[i - 1] \in Nat
        BY <1>7, <1>10, <2>1
    <2> QED
        BY <1>14, <1>15, <1>16, <2>2
<1>18. Opening(text, i) /\ Closes(text, i)
    <2>1. Opening(text, i) /\ Closing(text, j)
        BY <1>13, <1>14, <1>16 DEF Opening, Closing
    <2>2. j \in (i + 1)..Len(text)
        BY <1>1, <1>17
    <2> QED
        BY <2>1, <2>2 DEF Closes
<1>19. PICK n \in K : StartsAt(text, i, n)
    BY <1>18 DEF FilledFrom
<1>20. n # name /\ n \in KnownPlaceholder
    BY <1>14, <1>19
<1>21. /\ i + 1 \in 1..N /\ i + 2 \in 1..N
       /\ text[i + 1] = n /\ Closing(text, i + 2)
       /\ parts[i + 1] = <<text[i + 1]>> /\ parts[i + 2] = <<text[i + 2]>>
    <2>1. /\ i + 1 \in 1..N /\ i + 2 \in 1..N
          /\ text[i + 1] = n /\ Closing(text, i + 2)
          /\ P(i + 1) = <<text[i + 1]>> /\ P(i + 2) = <<text[i + 2]>>
        BY <1>19, <1>20, OtherParts, SMTT(30) DEF P
    <2>2. parts[i + 1] = P(i + 1) /\ parts[i + 2] = P(i + 2)
        BY <1>5, <2>1
    <2> QED
        BY <2>1, <2>2
<1>22. \A k \in 1..N : parts[k] = <<text[k]>> =>
          /\ off[k] = off[k - 1] + 1 /\ s[off[k - 1] + 1] = text[k]
    <2> TAKE k \in 1..N
    <2> HAVE parts[k] = <<text[k]>>
    <2>1. Len(<<text[k]>>) = 1 /\ <<text[k]>>[1] = text[k] /\ 1 \in 1..1
        OBVIOUS
    <2> QED
        BY <1>7, <2>1
<1>23. /\ off[i] = p /\ off[i + 1] = p + 1 /\ off[i + 2] = p + 2
       /\ s[p + 1] = text[i + 1] /\ s[p + 2] = text[i + 2]
    <2>1. (i + 1) - 1 = i /\ (i + 2) - 1 = i + 1
        OBVIOUS
    <2>2. off[i] = p
        BY <1>14, <1>22
    <2>3. off[i + 1] = off[i] + 1 /\ s[off[i] + 1] = text[i + 1]
        BY <1>21, <1>22, <2>1, SMTT(30)
    <2>4. off[i + 2] = off[i + 1] + 1 /\ s[off[i + 1] + 1] = text[i + 2]
        BY <1>21, <1>22, <2>1
    <2> QED
        BY <2>2, <2>3, <2>4
<1>24. p + 2 <= Len(s)
    <2>1. i + 2 \in 0..N /\ N \in 0..N /\ i + 2 <= N
        BY <1>1, <1>21
    <2>2. off[i + 2] <= off[N]
        BY <1>10, <2>1
    <2> QED
        BY <1>7, <1>23, <2>2
<1>25. Opening(s, p) /\ s[p + 1] = n /\ Closing(s, p + 2)
    BY <1>21, <1>23 DEF Closing
<1>26. StartsAt(s, p, n)
    BY <1>6, <1>24, <1>25, StartsAtIs
<1> QED
    BY <1>19, <1>20, <1>26

\* Nothing that must open no placeholder is a placeholder.
LEMMA NoneLeft ==
    ASSUME NEW T, NEW text \in Seq(T), FilledFrom(text, 1, {})
    PROVE  ~HasPlaceholder(text)
<1>1. \A i \in 1..Len(text) : Opening(text, i) => ~Closes(text, i)
    BY DEF FilledFrom
<1>2. HasPlaceholder(text) <=>
        \E i \in 1..Len(text) : Opening(text, i) /\ \E j \in i..Len(text) : Closing(text, j)
    BY Zenon DEF HasPlaceholder, Positions, Opening, Closing
<1>3. ASSUME NEW i \in 1..Len(text), Opening(text, i),
             NEW j \in i..Len(text), Closing(text, j)
      PROVE  Closes(text, i)
    <2>1. i # j
        BY <1>3 DEF Opening, Closing
    <2>2. j \in (i + 1)..Len(text)
        BY <2>1
    <2> QED
        BY <1>3, <2>2 DEF Closes
<1> QED
    BY <1>1, <1>2, <1>3

\* Five replacements leave no placeholder in a text that opens known ones only.
LEMMA RenderFills ==
    ASSUME NEW T, NEW messages, NEW r, NEW ctx,
           MessageTemplate(messages, r) \in Seq(T),
           FilledFrom(MessageTemplate(messages, r), 1, KnownPlaceholder),
           \A name \in KnownPlaceholder :
              Values(r, ctx)[name] \in Seq(T) /\ Braceless(Values(r, ctx)[name])
    PROVE  ~HasPlaceholder(Render(messages, r, ctx))
<1> DEFINE value == Values(r, ctx)
           t0 == MessageTemplate(messages, r)
           t1 == Replace(t0, "result", value["result"])
           t2 == Replace(t1, "sender", value["sender"])
           t3 == Replace(t2, "helo", value["helo"])
           t4 == Replace(t3, "ip", value["ip"])
           t5 == Replace(t4, "recipient", value["recipient"])
           K1 == KnownPlaceholder \ {"result"}
           K2 == K1 \ {"sender"}
           K3 == K2 \ {"helo"}
           K4 == K3 \ {"ip"}
           K5 == K4 \ {"recipient"}
<1>1. /\ "result" \in KnownPlaceholder /\ "sender" \in KnownPlaceholder
      /\ "helo" \in KnownPlaceholder /\ "ip" \in KnownPlaceholder
      /\ "recipient" \in KnownPlaceholder
    BY DEF KnownPlaceholder
<1>2. K5 = {}
    BY DEF KnownPlaceholder
<1>3. /\ K1 \in SUBSET KnownPlaceholder /\ K2 \in SUBSET KnownPlaceholder
      /\ K3 \in SUBSET KnownPlaceholder /\ K4 \in SUBSET KnownPlaceholder
    OBVIOUS
<1>4. Render(messages, r, ctx) = t5
    BY Zenon DEF Render
<1>5. \A text, name, K :
        /\ text \in Seq(T) /\ name \in KnownPlaceholder /\ K \in SUBSET KnownPlaceholder
        /\ FilledFrom(text, 1, K)
        => /\ Replace(text, name, value[name]) \in Seq(T)
           /\ FilledFrom(Replace(text, name, value[name]), 1, K \ {name})
    <2> TAKE text, name, K
    <2> HAVE /\ text \in Seq(T) /\ name \in KnownPlaceholder /\ K \in SUBSET KnownPlaceholder
             /\ FilledFrom(text, 1, K)
    <2>1. value[name] \in Seq(T) /\ Braceless(value[name])
        OBVIOUS
    <2> HIDE DEF value
    <2>2. Replace(text, name, value[name]) \in Seq(T)
        BY <2>1, ReplaceKeeps
    <2>3. FilledFrom(Replace(text, name, value[name]), 1, K \ {name})
        BY <2>1, ReplaceFills
    <2> QED
        BY <2>2, <2>3
<1>6. t0 \in Seq(T) /\ FilledFrom(t0, 1, KnownPlaceholder)
    OBVIOUS
<1> HIDE DEF value, t0, K1, K2, K3, K4, K5
<1>7. t1 \in Seq(T) /\ FilledFrom(t1, 1, K1)
    BY <1>1, <1>5, <1>6 DEF K1
<1> HIDE DEF t1
<1>8. t2 \in Seq(T) /\ FilledFrom(t2, 1, K2)
    BY <1>1, <1>3, <1>5, <1>7 DEF K2
<1> HIDE DEF t2
<1>9. t3 \in Seq(T) /\ FilledFrom(t3, 1, K3)
    BY <1>1, <1>3, <1>5, <1>8 DEF K3
<1> HIDE DEF t3
<1>10. t4 \in Seq(T) /\ FilledFrom(t4, 1, K4)
    BY <1>1, <1>3, <1>5, <1>9 DEF K4
<1> HIDE DEF t4
<1>11. t5 \in Seq(T) /\ FilledFrom(t5, 1, K5)
    BY <1>1, <1>3, <1>5, <1>10 DEF K5
<1> HIDE DEF t5
<1>12. ~HasPlaceholder(t5)
    BY <1>2, <1>11, NoneLeft
<1> QED
    BY <1>4, <1>12

LEMMA BracelessToken ==
    ASSUME NEW T, NEW token \in T, ~Opening(<<token>>, 1), ~Closing(<<token>>, 1)
    PROVE  <<token>> \in Seq(T) /\ Braceless(<<token>>)
<1>1. <<token>> \in Seq(T) /\ Len(<<token>>) = 1
    OBVIOUS
<1>2. \A k \in 1..1 : k = 1
    OBVIOUS
<1> QED
    BY <1>1, <1>2, Zenon DEF Braceless

\* The values that replace placeholders bring no braces along, when the names
\* do not.
LEMMA ValuesKeep ==
    ASSUME NEW T, Vocabulary \subseteq T, NEW r \in SpfResult, NEW ctx,
           ctx.ip \in T, ctx.ip # "{", ctx.ip # "}",
           ctx.sender \in Seq(T), ctx.helo \in Seq(T), ctx.recipient \in Seq(T),
           Braceless(ctx.sender), Braceless(ctx.helo), Braceless(ctx.recipient)
    PROVE  \A name \in KnownPlaceholder :
              /\ Values(r, ctx)[name] \in Seq(T)
              /\ Braceless(Values(r, ctx)[name])
<1>1. ASSUME NEW token \in T, token # "{", token # "}"
      PROVE  <<token>> \in Seq(T) /\ Braceless(<<token>>)
    <2>1. ~Opening(<<token>>, 1) /\ ~Closing(<<token>>, 1)
        <3>1. <<token>>[1] = token
            OBVIOUS
        <3> QED
            BY <1>1, <3>1, Zenon DEF Opening, Closing
    <2> QED
        BY <2>1, BracelessToken
<1>2. r \in T /\ r # "{" /\ r # "}"
    BY DEF Vocabulary, SpfResult
<1>3. /\ Values(r, ctx)["result"] = <<r>> /\ Values(r, ctx)["sender"] = ctx.sender
      /\ Values(r, ctx)["helo"] = ctx.helo /\ Values(r, ctx)["ip"] = <<ctx.ip>>
      /\ Values(r, ctx)["recipient"] = ctx.recipient
    BY DEF Values
<1>4. <<r>> \in Seq(T) /\ Braceless(<<r>>) /\ <<ctx.ip>> \in Seq(T) /\ Braceless(<<ctx.ip>>)
    BY <1>1, <1>2
<1> QED
    BY <1>3, <1>4, Zenon DEF KnownPlaceholder

LEMMA WithoutBraces ==
    ASSUME NEW text, ~HasToken(text, "{"), ~HasToken(text, "}")
    PROVE  Braceless(text)
BY Zenon DEF HasToken, Positions, Braceless, Opening, Closing

\* A template that the check of a configuration lets pass leaves no
\* placeholder in a reply, whatever the template and the names of the client,
\* as long as these hold no braces of their own (load.rs:85-102,
\* engine.rs:148-159).
THEOREM TemplateIsFilled == Spec => []AcceptedTemplateIsFilled
<1>1. Outputs => AcceptedTemplateIsFilled
    <2> SUFFICES ASSUME Outputs, Templated, ValidatePlaceholders(Template),
                        \A name \in {input.ctx.sender, input.ctx.helo, input.ctx.recipient} :
                           ~HasToken(name, "{") /\ ~HasToken(name, "}")
                 PROVE  ~HasPlaceholder(output[1].text)
        BY DEF AcceptedTemplateIsFilled
    <2> DEFINE r == Chosen.text.result
               messages == input.conf.messages
    <2>1. Decided /\ Chosen.verb \in {"Reject", "DeferIfPermit"}
        BY DEF Templated
    <2>2. input \in Case /\ Covers(Tokens)
        BY <2>1, DecidedIsAnswer, TokensCover
    <2>3. /\ output[1].text = Text(Chosen, input.conf, input.mail_from, input.ctx)
          /\ r \in SpfResult
        BY <2>1, AnswerParts
    <2>4. output[1].text = Render(messages, r, input.ctx)
        BY <2>1, <2>3 DEF Text
    <2>5. MessageTemplate(messages, r) \in Seq(Tokens)
        BY <2>2, <2>3, TemplateKeeps DEF Covers, NamesIn
    <2>6. \A name \in KnownPlaceholder :
             /\ Values(r, input.ctx)[name] \in Seq(Tokens)
             /\ Braceless(Values(r, input.ctx)[name])
        <3>1. /\ Braceless(input.ctx.sender) /\ Braceless(input.ctx.helo)
              /\ Braceless(input.ctx.recipient)
            BY WithoutBraces
        <3>2. input.ctx.ip # "{" /\ input.ctx.ip # "}"
            BY <2>2, CaseParts DEF Address
        <3> HIDE DEF r
        <3> QED
            BY <2>2, <2>3, <3>1, <3>2, ValuesKeep DEF Covers, NamesIn
    <2>7. FilledFrom(MessageTemplate(messages, r), 1, KnownPlaceholder)
        BY <2>5, AcceptedIsKnown DEF Template
    <2> HIDE DEF r, messages
    <2>8. ~HasPlaceholder(Render(messages, r, input.ctx))
        BY <2>5, <2>6, <2>7, RenderFills
    <2> QED
        BY <2>4, <2>8
<1> QED
    BY <1>1, OneStep, PTL

-----------------------------------------------------------------------------
(* All at once: the replacements made one after the other are one pass.    *)

Starts(text, i, K) == \E n \in K : StartsAt(text, i, n)

Covered(text, i, K) == \E j \in {i - 2, i - 1} \cap DOMAIN text : Starts(text, j, K)

StartedAt(text, i, K) == CHOOSE n \in K : StartsAt(text, i, n)

Piece(text, value, K, i) ==
    IF Starts(text, i, K) THEN value[StartedAt(text, i, K)]
    ELSE IF Covered(text, i, K) THEN << >>
    ELSE <<text[i]>>

Pieces(text, value, K) == [i \in 1..Len(text) |-> Piece(text, value, K, i)]

\* The placeholders of K, filled in by one pass over a text.
OnePass(text, value, K) == FlattenSeq(Pieces(text, value, K))

\* What placeholders stand for.
Texts(value) == \A n \in KnownPlaceholder : value[n] \in Seq(Tokens)

LEMMA StartsToken ==
    \A text \in Seq(Tokens) : \A i \in 1..Len(text) : \A n :
       StartsAt(text, i, n) <=> /\ i + 2 <= Len(text)
                                /\ Opening(text, i) /\ text[i + 1] = n /\ Closing(text, i + 2)
BY StartsAtIs

\* Nothing starts within a placeholder, and one place starts one.
LEMMA StartsApart ==
    ASSUME NEW text \in Seq(Tokens), NEW i \in 1..Len(text), NEW n \in KnownPlaceholder,
           StartsAt(text, i, n)
    PROVE  /\ i + 1 \in 1..Len(text) /\ i + 2 \in 1..Len(text)
           /\ \A m : ~StartsAt(text, i + 1, m) /\ ~StartsAt(text, i + 2, m)
           /\ \A m : StartsAt(text, i, m) => m = n
<1>1. i + 2 <= Len(text) /\ Opening(text, i) /\ text[i + 1] = n /\ Closing(text, i + 2)
    BY StartsToken
<1>2. i + 1 \in 1..Len(text) /\ i + 2 \in 1..Len(text)
    BY <1>1
<1>3. ~Opening(text, i + 1) /\ ~Opening(text, i + 2)
    BY <1>1, NotBraces DEF Opening, Closing
<1> QED
    BY <1>1, <1>2, <1>3, StartsToken

LEMMA PieceIsText ==
    ASSUME NEW text \in Seq(Tokens), NEW value, Texts(value),
           NEW K \in SUBSET KnownPlaceholder, NEW i \in 1..Len(text)
    PROVE  Piece(text, value, K, i) \in Seq(Tokens)
<1>1. CASE Starts(text, i, K)
    <2>1. StartedAt(text, i, K) \in K
        BY <1>1 DEF Starts, StartedAt
    <2>2. value[StartedAt(text, i, K)] \in Seq(Tokens)
        BY <2>1 DEF Texts
    <2> QED
        BY <1>1, <2>2, Zenon DEF Piece
<1>2. CASE ~Starts(text, i, K)
    <2>1. text[i] \in Tokens
        OBVIOUS
    <2>2. <<text[i]>> \in Seq(Tokens) /\ << >> \in Seq(Tokens)
        BY <2>1
    <2> QED
        BY <1>2, <2>2, Zenon DEF Piece
<1> QED
    BY <1>1, <1>2

LEMMA PiecesAreTexts ==
    ASSUME NEW text \in Seq(Tokens), NEW value, Texts(value),
           NEW K \in SUBSET KnownPlaceholder
    PROVE  /\ Pieces(text, value, K) \in Seq(Seq(Tokens))
           /\ Len(Pieces(text, value, K)) = Len(text)
           /\ \A i \in 1..Len(text) : Pieces(text, value, K)[i] = Piece(text, value, K, i)
           /\ OnePass(text, value, K) \in Seq(Tokens)
<1> DEFINE P == Pieces(text, value, K)
           S == Seq(Tokens)
<1>1. \A i \in 1..Len(text) : Piece(text, value, K, i) \in S
    BY PieceIsText
<1>2. Len(text) \in Nat
    OBVIOUS
<1> HIDE DEF S
<1>3. P \in Seq(S) /\ Len(P) = Len(text)
      /\ \A i \in 1..Len(text) : P[i] = Piece(text, value, K, i)
    BY <1>1, <1>2 DEF Pieces
<1> HIDE DEF P
<1>4. FlattenSeq(P) \in Seq(Tokens)
    BY <1>3, FlattenPlaces DEF S
<1> QED
    BY <1>3, <1>4 DEF S, P, OnePass

\* A replacement is the pass for one name.
LEMMA ReplaceIsPass ==
    ASSUME NEW text \in Seq(Tokens), NEW name, NEW value
    PROVE  Replace(text, name, value[name]) = OnePass(text, value, {name})
<1>1. \A i : Starts(text, i, {name}) <=> StartsAt(text, i, name)
    BY DEF Starts
<1>2. \A i : Starts(text, i, {name}) => StartedAt(text, i, {name}) = name
    BY DEF Starts, StartedAt
<1>3. \A i : Covered(text, i, {name})
               <=> \E j \in {i - 2, i - 1} \cap DOMAIN text : StartsAt(text, j, name)
    BY <1>1, Zenon DEF Covered
<1>4. DOMAIN text = 1..Len(text)
    OBVIOUS
<1>5. \A i : PartOf(text, name, value[name], i) = Piece(text, value, {name}, i)
    BY <1>1, <1>2, <1>3, Zenon DEF PartOf, Piece
<1>6. [i \in DOMAIN text |-> PartOf(text, name, value[name], i)] = Pieces(text, value, {name})
    BY <1>4, <1>5 DEF Pieces
<1>7. Replace(text, name, value[name])
         = FlattenSeq([i \in DOMAIN text |-> PartOf(text, name, value[name], i)])
    BY Zenon DEF Replace, PartOf
<1> QED
    BY <1>6, <1>7, Zenon DEF OnePass

\* Where nothing starts nothing is filled in.
LEMMA PassOfNone ==
    ASSUME NEW text \in Seq(Tokens), NEW value, Texts(value),
           NEW K \in SUBSET KnownPlaceholder,
           \A i \in 1..Len(text) : ~Starts(text, i, K)
    PROVE  OnePass(text, value, K) = text
<1> DEFINE P == Pieces(text, value, K)
<1>1. P \in Seq(Seq(Tokens)) /\ Len(P) = Len(text)
    BY PiecesAreTexts
<1>2. \A i \in 1..Len(text) : P[i] = <<text[i]>>
    <2> TAKE i \in 1..Len(text)
    <2>1. DOMAIN text = 1..Len(text)
        OBVIOUS
    <2>2. ~Starts(text, i, K) /\ ~Covered(text, i, K)
        BY <2>1, Zenon DEF Covered
    <2>3. P[i] = Piece(text, value, K, i)
        BY PiecesAreTexts
    <2> QED
        BY <2>2, <2>3, Zenon DEF Piece
<1> HIDE DEF P
<1>3. FlattenSeq(P) = text
    BY <1>1, <1>2, FlattenSingles
<1> QED
    BY <1>3 DEF OnePass, P

\* What follows a text in which nothing starts at its end keeps its pieces.
LEMMA PieceStays ==
    ASSUME NEW x \in Seq(Tokens), NEW y \in Seq(Tokens), NEW value,
           NEW K \in SUBSET KnownPlaceholder,
           \A j \in 1..Len(x) : j >= Len(x) - 1 => ~Starts(x \o y, j, K),
           NEW i \in 1..Len(y)
    PROVE  Piece(x \o y, value, K, i + Len(x)) = Piece(y, value, K, i)
<1> DEFINE text == x \o y
           d == Len(x)
           N == Len(y)
<1>1. /\ d \in Nat /\ N \in Nat /\ text \in Seq(Tokens) /\ Len(text) = N + d
      /\ \A k \in 1..N : k + d \in 1..(N + d) /\ text[k + d] = y[k]
    BY ConcatProperties
<1> HIDE DEF text, d, N
<1>2. \A k \in 1..N : \A n : StartsAt(text, k + d, n) <=> StartsAt(y, k, n)
    <2> TAKE k \in 1..N
    <2>1. k \in 1..Len(y) /\ k + d \in 1..Len(text)
        BY <1>1 DEF N
    <2>2. k + 2 <= N => /\ text[(k + d) + 1] = y[k + 1] /\ text[(k + d) + 2] = y[k + 2]
        <3> SUFFICES ASSUME k + 2 <= N
                     PROVE  text[(k + d) + 1] = y[k + 1] /\ text[(k + d) + 2] = y[k + 2]
            OBVIOUS
        <3>1. k + 1 \in 1..N /\ k + 2 \in 1..N /\ (k + d) + 1 = (k + 1) + d
              /\ (k + d) + 2 = (k + 2) + d
            BY <1>1
        <3> QED
            BY <1>1, <3>1
    <2>3. (k + d) + 2 <= N + d <=> k + 2 <= N
        BY <1>1
    <2> TAKE n
    <2>4. StartsAt(text, k + d, n)
            <=> /\ (k + d) + 2 <= N + d
                /\ Opening(text, k + d) /\ text[(k + d) + 1] = n /\ Closing(text, (k + d) + 2)
        <3>1. StartsAt(text, k + d, n)
                <=> /\ (k + d) + 2 <= Len(text)
                    /\ Opening(text, k + d) /\ text[(k + d) + 1] = n
                    /\ Closing(text, (k + d) + 2)
            BY <1>1, <2>1, StartsToken, Zenon
        <3> QED
            BY <1>1, <3>1, Zenon
    <2>5. StartsAt(y, k, n)
            <=> k + 2 <= N /\ Opening(y, k) /\ y[k + 1] = n /\ Closing(y, k + 2)
        BY <2>1, StartsToken DEF N
    <2>6. Opening(text, k + d) <=> Opening(y, k)
        BY <1>1 DEF Opening
    <2>7. k + 2 <= N => (Closing(text, (k + d) + 2) <=> Closing(y, k + 2))
        BY <2>2 DEF Closing
    <2> QED
        BY <2>2, <2>3, <2>4, <2>5, <2>6, <2>7, Zenon
<1>3. \A k \in 1..N : Starts(text, k + d, K) <=> Starts(y, k, K)
    BY <1>2 DEF Starts
<1>4. i \in 1..N
    BY DEF N
<1>5. Covered(text, i + d, K) <=> Covered(y, i, K)
    <2>1. DOMAIN text = 1..(N + d) /\ DOMAIN y = 1..N
        BY <1>1 DEF N
    <2>2. ASSUME NEW j \in {i - 2, i - 1} \cap DOMAIN y, Starts(y, j, K)
          PROVE  Covered(text, i + d, K)
        <3>1. j \in 1..N /\ j + d \in {(i + d) - 2, (i + d) - 1} \cap DOMAIN text
            BY <1>1, <1>4, <2>1
        <3> QED
            BY <1>3, <2>2, <3>1 DEF Covered
    <2>3. ASSUME NEW j \in {(i + d) - 2, (i + d) - 1} \cap DOMAIN text, Starts(text, j, K)
          PROVE  Covered(y, i, K)
        <3>1. j \in 1..(N + d) /\ j \in Nat
            BY <1>1, <2>1
        <3>2. ~(j <= d)
            <4> SUFFICES ASSUME j <= d PROVE FALSE
                OBVIOUS
            <4>1. j \in 1..d /\ j >= d - 1
                BY <1>1, <1>4, <3>1
            <4> QED
                BY <2>3, <4>1 DEF d, text
        <3>3. j - d \in 1..N /\ (j - d) + d = j /\ j - d \in {i - 2, i - 1} \cap DOMAIN y
            BY <1>1, <1>4, <2>1, <3>1, <3>2
        <3>4. Starts(y, j - d, K)
            BY <1>3, <2>3, <3>3
        <3> QED
            BY <3>3, <3>4 DEF Covered
    <2> QED
        BY <2>2, <2>3 DEF Covered
<1>6. text[i + d] = y[i]
    BY <1>1, <1>4
<1>7. Piece(text, value, K, i + d) = Piece(y, value, K, i)
    <2>1. Starts(text, i + d, K) <=> Starts(y, i, K)
        BY <1>3, <1>4
    <2>2. \A n : StartsAt(text, i + d, n) <=> StartsAt(y, i, n)
        BY <1>2, <1>4
    <2>3. StartedAt(text, i + d, K) = StartedAt(y, i, K)
        BY <2>2 DEF StartedAt
    <2> QED
        BY <1>5, <1>6, <2>1, <2>3 DEF Piece
<1> QED
    BY <1>7 DEF text, d

\* A token that starts nothing stays.
LEMMA PassToken ==
    ASSUME NEW t \in Tokens, NEW y \in Seq(Tokens), NEW value, Texts(value),
           NEW K \in SUBSET KnownPlaceholder, ~Starts(<<t>> \o y, 1, K)
    PROVE  OnePass(<<t>> \o y, value, K) = <<t>> \o OnePass(y, value, K)
<1> DEFINE x == <<t>>
           text == x \o y
           N == Len(y)
           P == Pieces(text, value, K)
           Q == Pieces(y, value, K)
<1>1. x \in Seq(Tokens) /\ Len(x) = 1 /\ x[1] = t
    OBVIOUS
<1> HIDE DEF x
<1>2. text \in Seq(Tokens) /\ Len(text) = N + 1 /\ text[1] = t /\ N \in Nat
    <2>1. N \in Nat
        OBVIOUS
    <2>2. /\ text \in Seq(Tokens) /\ Len(text) = Len(x) + N
          /\ \A i \in 1..(Len(x) + N) : text[i] = IF i <= Len(x) THEN x[i] ELSE y[i - Len(x)]
        BY <1>1, ConcatProperties
    <2> HIDE DEF N, text
    <2>3. 1 \in 1..(Len(x) + N) /\ 1 <= Len(x)
        BY <1>1, <2>1
    <2> QED
        BY <1>1, <2>1, <2>2, <2>3
<1>3. \A j \in 1..Len(x) : j >= Len(x) - 1 => ~Starts(x \o y, j, K)
    BY <1>1 DEF x
<1>4. \A i \in 1..N : Piece(text, value, K, i + 1) = Piece(y, value, K, i)
    <2> TAKE i \in 1..N
    <2>1. Piece(x \o y, value, K, i + Len(x)) = Piece(y, value, K, i)
        BY <1>1, <1>3, PieceStays, ZenonT(60) DEF N
    <2> QED
        BY <1>1, <2>1
<1> HIDE DEF text, N
<1>5. /\ P \in Seq(Seq(Tokens)) /\ Len(P) = N + 1
      /\ \A i \in 1..(N + 1) : P[i] = Piece(text, value, K, i)
    BY <1>2, PiecesAreTexts
<1>6. /\ Q \in Seq(Seq(Tokens)) /\ Len(Q) = N
      /\ \A i \in 1..N : Q[i] = Piece(y, value, K, i)
    BY PiecesAreTexts DEF N
<1> HIDE DEF P, Q
<1>7. P # << >> /\ Tail(P) \in Seq(Seq(Tokens)) /\ Len(Tail(P)) = N
      /\ \A i \in 1..N : Tail(P)[i] = P[i + 1]
    BY <1>2, <1>5, HeadTailProperties, EmptySeq
<1>8. Tail(P) = Q
    <2>1. \A i \in 1..N : Tail(P)[i] = Q[i]
        <3> TAKE i \in 1..N
        <3>1. i + 1 \in 1..(N + 1)
            BY <1>2
        <3> QED
            BY <1>4, <1>5, <1>6, <1>7, <3>1
    <2> QED
        BY <1>6, <1>7, <2>1, SeqEqual
<1>9. P[1] = <<t>>
    <2>1. 1 \in 1..(N + 1) /\ 1 - 2 \notin 1..(N + 1) /\ 1 - 1 \notin 1..(N + 1)
          /\ DOMAIN text = 1..(N + 1)
        BY <1>2
    <2>2. ~Starts(text, 1, K)
        BY DEF text, x
    <2>3. ~Covered(text, 1, K)
        BY <2>1 DEF Covered
    <2>4. P[1] = Piece(text, value, K, 1)
        BY <1>5, <2>1
    <2> QED
        BY <1>2, <2>2, <2>3, <2>4, Zenon DEF Piece
<1>10. FlattenSeq(P) = P[1] \o FlattenSeq(Tail(P))
    BY <1>5, <1>7, FlattenFirst
<1> QED
    BY <1>8, <1>9, <1>10, Zenon DEF OnePass, P, Q, text, x

LEMMA Associative == \A a, b, c \in Seq(Tokens) : (a \o b) \o c = a \o (b \o c)
BY ConcatAssociative

Placeholder(n) == <<"{", n, "}">>

LEMMA PlaceholderIs ==
    ASSUME NEW n \in KnownPlaceholder
    PROVE  /\ Placeholder(n) \in Seq(Tokens) /\ Len(Placeholder(n)) = 3
           /\ Opening(Placeholder(n), 1) /\ Placeholder(n)[2] = n /\ Closing(Placeholder(n), 3)
           /\ ~Opening(Placeholder(n), 2) /\ ~Opening(Placeholder(n), 3)
<1>1. n \in Tokens /\ "{" \in Tokens /\ "}" \in Tokens
    BY Zenon DEF Tokens
<1>2. \A a, b, c \in Tokens : /\ <<a, b, c>> \in Seq(Tokens) /\ Len(<<a, b, c>>) = 3
                              /\ <<a, b, c>>[1] = a /\ <<a, b, c>>[2] = b /\ <<a, b, c>>[3] = c
    OBVIOUS
<1>3. /\ Placeholder(n) \in Seq(Tokens) /\ Len(Placeholder(n)) = 3
      /\ Placeholder(n)[1] = "{" /\ Placeholder(n)[2] = n /\ Placeholder(n)[3] = "}"
    BY <1>1, <1>2, Zenon DEF Placeholder
<1> QED
    BY <1>3, NotBraces DEF Opening, Closing

\* A placeholder in front of a text.
LEMMA InFront ==
    ASSUME NEW n \in KnownPlaceholder, NEW y \in Seq(Tokens)
    PROVE  /\ Placeholder(n) \o y \in Seq(Tokens)
           /\ Len(Placeholder(n) \o y) = Len(y) + 3
           /\ StartsAt(Placeholder(n) \o y, 1, n)
<1> DEFINE x == Placeholder(n)
           text == x \o y
<1>1. /\ x \in Seq(Tokens) /\ Len(x) = 3 /\ Opening(x, 1) /\ x[2] = n /\ Closing(x, 3)
    BY PlaceholderIs
<1> HIDE DEF x
<1>2. /\ text \in Seq(Tokens) /\ Len(text) = 3 + Len(y) /\ Len(y) \in Nat
      /\ \A i \in 1..(3 + Len(y)) : text[i] = IF i <= 3 THEN x[i] ELSE y[i - 3]
    <2>1. Len(y) \in Nat
        OBVIOUS
    <2>2. /\ text \in Seq(Tokens) /\ Len(text) = Len(x) + Len(y)
          /\ \A i \in 1..(Len(x) + Len(y)) :
                text[i] = IF i <= Len(x) THEN x[i] ELSE y[i - Len(x)]
        BY <1>1, ConcatProperties
    <2> HIDE DEF text
    <2> QED
        BY <1>1, <2>1, <2>2
<1> HIDE DEF text
<1>3. text[1] = x[1] /\ text[2] = x[2] /\ text[3] = x[3]
    <2>1. 1 \in 1..(3 + Len(y)) /\ 2 \in 1..(3 + Len(y)) /\ 3 \in 1..(3 + Len(y))
        BY <1>2
    <2> QED
        BY <1>2, <2>1
<1>4. 1 \in 1..Len(text) /\ 1 + 2 <= Len(text) /\ 1 + 1 = 2 /\ 1 + 2 = 3
    BY <1>2
<1>5. StartsAt(text, 1, n) <=> /\ 1 + 2 <= Len(text)
                                /\ Opening(text, 1) /\ text[1 + 1] = n /\ Closing(text, 1 + 2)
    BY <1>2, <1>4, StartsToken
<1>6. Opening(text, 1) /\ text[1 + 1] = n /\ Closing(text, 1 + 2)
    BY <1>1, <1>3, <1>4 DEF Opening, Closing
<1>7. StartsAt(text, 1, n)
    BY <1>4, <1>5, <1>6
<1> QED
    BY <1>2, <1>7 DEF text, x

\* A placeholder of K becomes its value.
LEMMA PassPlaceholder ==
    ASSUME NEW y \in Seq(Tokens), NEW value, Texts(value),
           NEW K \in SUBSET KnownPlaceholder, NEW n \in K
    PROVE  OnePass(Placeholder(n) \o y, value, K) = value[n] \o OnePass(y, value, K)
<1> DEFINE x == Placeholder(n)
           text == x \o y
           N == Len(y)
           P == Pieces(text, value, K)
           Q == Pieces(y, value, K)
<1>0. n \in KnownPlaceholder /\ N \in Nat
    OBVIOUS
<1>1. x \in Seq(Tokens) /\ Len(x) = 3
    BY <1>0, PlaceholderIs
<1>2. text \in Seq(Tokens) /\ Len(text) = N + 3 /\ StartsAt(text, 1, n)
    BY <1>0, InFront
<1> HIDE DEF x, text, N
<1>3. 1 \in 1..Len(text) /\ 1 + 1 = 2 /\ 1 + 2 = 3
    BY <1>0, <1>2
<1>4. /\ \A m : ~StartsAt(text, 2, m) /\ ~StartsAt(text, 3, m)
      /\ \A m : StartsAt(text, 1, m) => m = n
    <2>1. /\ \A m : ~StartsAt(text, 1 + 1, m) /\ ~StartsAt(text, 1 + 2, m)
          /\ \A m : StartsAt(text, 1, m) => m = n
        BY <1>0, <1>2, <1>3, StartsApart
    <2> QED
        BY <1>3, <2>1
<1>5. \A j \in 1..Len(x) : j >= Len(x) - 1 => ~Starts(x \o y, j, K)
    <2>1. \A j \in 1..3 : j >= 3 - 1 => j = 2 \/ j = 3
        OBVIOUS
    <2> QED
        BY <1>1, <1>4, <2>1 DEF Starts, text
<1>6. \A i \in 1..N : Piece(text, value, K, i + 3) = Piece(y, value, K, i)
    <2> TAKE i \in 1..N
    <2>1. Piece(x \o y, value, K, i + Len(x)) = Piece(y, value, K, i)
        BY <1>1, <1>5, PieceStays, ZenonT(60) DEF N
    <2> QED
        BY <1>1, <2>1 DEF text
<1>7. /\ P \in Seq(Seq(Tokens)) /\ Len(P) = N + 3
      /\ \A i \in 1..(N + 3) : P[i] = Piece(text, value, K, i)
    BY <1>2, PiecesAreTexts
<1>8. /\ Q \in Seq(Seq(Tokens)) /\ Len(Q) = N
      /\ \A i \in 1..N : Q[i] = Piece(y, value, K, i)
    BY PiecesAreTexts DEF N
<1> HIDE DEF P, Q
<1>9. P[1] = value[n] /\ P[2] = << >> /\ P[3] = << >>
    <2>1. 1 \in 1..(N + 3) /\ 2 \in 1..(N + 3) /\ 3 \in 1..(N + 3) /\ DOMAIN text = 1..(N + 3)
        BY <1>0, <1>2
    <2>2. Starts(text, 1, K) /\ ~Starts(text, 2, K) /\ ~Starts(text, 3, K)
        BY <1>2, <1>4 DEF Starts
    <2>3. StartedAt(text, 1, K) = n
        BY <1>2, <1>4 DEF StartedAt
    <2>4. Covered(text, 2, K) /\ Covered(text, 3, K)
        <3>1. 1 = 2 - 1 /\ 1 = 3 - 2
            OBVIOUS
        <3> QED
            BY <2>1, <2>2, <3>1 DEF Covered
    <2> QED
        BY <1>7, <2>1, <2>2, <2>3, <2>4 DEF Piece
<1> DEFINE P2 == Tail(P)
           P3 == Tail(P2)
           P4 == Tail(P3)
<1>10. /\ P # << >> /\ P2 \in Seq(Seq(Tokens)) /\ Len(P2) = N + 2
       /\ \A i \in 1..(N + 2) : P2[i] = P[i + 1]
    BY <1>0, <1>7, HeadTailProperties, EmptySeq
<1> HIDE DEF P2
<1>11. /\ P2 # << >> /\ P3 \in Seq(Seq(Tokens)) /\ Len(P3) = N + 1
       /\ \A i \in 1..(N + 1) : P3[i] = P2[i + 1]
    BY <1>0, <1>10, HeadTailProperties, EmptySeq
<1> HIDE DEF P3
<1>12. /\ P3 # << >> /\ P4 \in Seq(Seq(Tokens)) /\ Len(P4) = N
       /\ \A i \in 1..N : P4[i] = P3[i + 1]
    BY <1>0, <1>11, HeadTailProperties, EmptySeq
<1> HIDE DEF P4
<1>13. P2[1] = << >> /\ P3[1] = << >> /\ \A i \in 1..N : P4[i] = P[i + 3]
    <2>1. P2[1] = P[2]
        BY <1>0, <1>10
    <2>2. P3[1] = P2[2] /\ P2[2] = P[3]
        BY <1>0, <1>10, <1>11
    <2>3. ASSUME NEW i \in 1..N PROVE P4[i] = P[i + 3]
        <3>1. /\ i + 1 \in 1..(N + 1) /\ i + 2 \in 1..(N + 2)
              /\ (i + 1) + 1 = i + 2 /\ (i + 2) + 1 = i + 3
            BY <1>0
        <3> QED
            BY <1>10, <1>11, <1>12, <3>1
    <2> QED
        BY <1>9, <2>1, <2>2, <2>3
<1>14. P4 = Q
    <2>1. \A i \in 1..N : P4[i] = Q[i]
        <3> TAKE i \in 1..N
        <3>1. i + 3 \in 1..(N + 3)
            BY <1>0
        <3> QED
            BY <1>6, <1>7, <1>8, <1>13, <3>1
    <2> QED
        BY <1>8, <1>12, <2>1, SeqEqual
<1>15. FlattenSeq(P) = P[1] \o (P2[1] \o (P3[1] \o FlattenSeq(P4)))
    <2>1. FlattenSeq(P) = P[1] \o FlattenSeq(P2)
        BY <1>7, <1>10, FlattenFirst DEF P2
    <2>2. FlattenSeq(P2) = P2[1] \o FlattenSeq(P3)
        BY <1>10, <1>11, FlattenFirst DEF P3
    <2>3. FlattenSeq(P3) = P3[1] \o FlattenSeq(P4)
        BY <1>11, <1>12, FlattenFirst DEF P4
    <2> QED
        BY <2>1, <2>2, <2>3
<1>16. FlattenSeq(Q) \in Seq(Tokens)
    BY <1>8, FlattenPlaces
<1>17. << >> \o (<< >> \o FlattenSeq(Q)) = FlattenSeq(Q)
    BY <1>16
<1>18. FlattenSeq(P) = value[n] \o FlattenSeq(Q)
    BY <1>9, <1>13, <1>14, <1>15, <1>17
<1> QED
    BY <1>18, Zenon DEF OnePass, P, Q, text, x

Unopened(text) == \A k \in 1..Len(text) : ~Opening(text, k)

\* Three tokens in front of a text, one by one.
LEMMA OneByOne ==
    ASSUME NEW a \in Tokens, NEW b \in Tokens, NEW c \in Tokens, NEW y \in Seq(Tokens)
    PROVE  <<a, b, c>> \o y = <<a>> \o (<<b>> \o (<<c>> \o y))
<1>1. <<a>> \in Seq(Tokens) /\ <<b>> \in Seq(Tokens) /\ <<c>> \in Seq(Tokens)
    OBVIOUS
<1>2. <<b>> \o <<c>> \in Seq(Tokens) /\ <<c>> \o y \in Seq(Tokens)
    BY <1>1, ConcatProperties
<1>3. <<a, b, c>> = <<a>> \o (<<b>> \o <<c>>)
    <2> DEFINE u == <<a>>
               v == <<b>> \o <<c>>
               s == u \o v
    <2>0. u \in Seq(Tokens) /\ Len(u) = 1 /\ u[1] = a
        OBVIOUS
    <2>1. v \in Seq(Tokens) /\ Len(v) = 2 /\ v[1] = b /\ v[2] = c
        BY <1>1
    <2> HIDE DEF u, v
    <2>2. s \in Seq(Tokens) /\ Len(s) = 3 /\ s[1] = a /\ s[2] = b /\ s[3] = c
        <3>1. /\ s \in Seq(Tokens) /\ Len(s) = Len(u) + Len(v)
              /\ \A i \in 1..(Len(u) + Len(v)) :
                    s[i] = IF i <= Len(u) THEN u[i] ELSE v[i - Len(u)]
            BY <2>0, <2>1, ConcatProperties
        <3>2. 1 \in 1..3 /\ 2 \in 1..3 /\ 3 \in 1..3
            OBVIOUS
        <3> HIDE DEF s
        <3> QED
            BY <2>0, <2>1, <3>1, <3>2
    <2> HIDE DEF s
    <2>3. s = <<a, b, c>>
        BY <2>2, ThreeIs
    <2> QED
        BY <2>3, Zenon DEF s, u, v
<1>4. (<<a>> \o (<<b>> \o <<c>>)) \o y = <<a>> \o ((<<b>> \o <<c>>) \o y)
    BY <1>1, <1>2, Associative, ZenonT(60)
<1>5. (<<b>> \o <<c>>) \o y = <<b>> \o (<<c>> \o y)
    BY <1>1, Associative, Zenon
<1> QED
    BY <1>3, <1>4, <1>5, Zenon

Brace == "{"
EndBrace == "}"

\* A placeholder of other names stays.
LEMMA PassOther ==
    ASSUME NEW y \in Seq(Tokens), NEW value, Texts(value),
           NEW K \in SUBSET KnownPlaceholder, NEW n \in KnownPlaceholder, n \notin K
    PROVE  OnePass(Placeholder(n) \o y, value, K) = Placeholder(n) \o OnePass(y, value, K)
<1> DEFINE x == Placeholder(n)
           text == x \o y
           out == OnePass(y, value, K)
<1>1. /\ text \in Seq(Tokens) /\ Len(text) = Len(y) + 3 /\ StartsAt(text, 1, n)
      /\ Len(y) \in Nat
    BY InFront
<1>2. n \in Tokens /\ Brace \in Tokens /\ EndBrace \in Tokens
    BY Zenon DEF Tokens, Brace, EndBrace
<1>3. out \in Seq(Tokens)
    BY PiecesAreTexts
<1>4. x = <<Brace, n, EndBrace>>
    BY Zenon DEF Placeholder, Brace, EndBrace
<1> HIDE DEF x, text, out
<1> DEFINE y1 == <<EndBrace>> \o y
           y2 == <<n>> \o y1
           y3 == <<Brace>> \o y2
<1>5. text = y3 /\ x \o out = <<Brace>> \o (<<n>> \o (<<EndBrace>> \o out))
    <2>1. \A z \in Seq(Tokens) :
             <<Brace, n, EndBrace>> \o z = <<Brace>> \o (<<n>> \o (<<EndBrace>> \o z))
        BY <1>2, OneByOne, Zenon
    <2> QED
        BY <1>3, <1>4, <2>1, Zenon DEF text
<1>6. y1 \in Seq(Tokens) /\ Len(y1) # 0 /\ y1[1] = EndBrace
    BY <1>2
<1>7. ~Starts(y1, 1, K)
    <2>1. 1 \in 1..Len(y1)
        BY <1>6
    <2>2. ~Opening(y1, 1)
        BY <1>6, Zenon DEF Opening, EndBrace
    <2> QED
        BY <1>6, <2>1, <2>2, StartsToken DEF Starts
<1>8. OnePass(y1, value, K) = <<EndBrace>> \o out
    BY <1>2, <1>7, PassToken DEF out
<1> HIDE DEF y1
<1>9. y2 \in Seq(Tokens) /\ Len(y2) # 0 /\ y2[1] = n
    BY <1>2, <1>6
<1>10. ~Starts(y2, 1, K)
    <2>1. 1 \in 1..Len(y2)
        BY <1>9
    <2>2. ~Opening(y2, 1)
        BY <1>9, NotBraces DEF Opening
    <2> QED
        BY <1>9, <2>1, <2>2, StartsToken DEF Starts
<1>11. OnePass(y2, value, K) = <<n>> \o OnePass(y1, value, K)
    BY <1>2, <1>6, <1>10, PassToken
<1> HIDE DEF y2
<1>12. ~Starts(y3, 1, K)
    <2>1. 1 \in 1..Len(text)
        BY <1>1
    <2>2. \A m : StartsAt(text, 1, m) => m = n
        BY <1>1, <2>1, StartsApart
    <2>3. ~Starts(text, 1, K)
        BY <2>2 DEF Starts
    <2> QED
        BY <1>5, <2>3
<1>13. OnePass(y3, value, K) = <<Brace>> \o OnePass(y2, value, K)
    BY <1>2, <1>9, <1>12, PassToken
<1> HIDE DEF y3
<1> QED
    BY <1>5, <1>8, <1>11, <1>13, Zenon DEF text, x, out

-----------------------------------------------------------------------------
(* The rest of a text. *)

Rest(text, i) == SubSeq(text, i, Len(text))

LEMMA RestIs ==
    ASSUME NEW text \in Seq(Tokens), NEW i \in 1..Len(text)
    PROVE  /\ Rest(text, i) = <<text[i]>> \o Rest(text, i + 1)
           /\ text[i] \in Tokens
           /\ Rest(text, i) \in Seq(Tokens) /\ Rest(text, i + 1) \in Seq(Tokens)
<1> DEFINE N == Len(text)
<1>1. N \in Nat /\ N \in i..N
    OBVIOUS
<1>2. Rest(text, i) = <<text[i]>> \o Rest(text, i + 1)
    BY <1>1, SubSeqRecursiveFirst DEF Rest
<1>3. text[i] \in Tokens /\ (\A j \in i..N : text[j] \in Tokens)
      /\ \A j \in (i + 1)..N : text[j] \in Tokens
    OBVIOUS
<1>4. Rest(text, i) \in Seq(Tokens) /\ Rest(text, i + 1) \in Seq(Tokens)
    BY <1>1, <1>3, SubSeqProperties DEF Rest
<1> QED
    BY <1>2, <1>3, <1>4

LEMMA RestEnds ==
    ASSUME NEW text \in Seq(Tokens)
    PROVE  Rest(text, 1) = text /\ Rest(text, Len(text) + 1) = << >>
BY SubSeqEmpty, SubSeqFull DEF Rest

LEMMA RestPlaces ==
    ASSUME NEW text \in Seq(Tokens), NEW i \in 1..Len(text)
    PROVE  /\ Rest(text, i) \in Seq(Tokens)
           /\ Len(Rest(text, i)) = (Len(text) - i) + 1
           /\ \A k \in 1..Len(Rest(text, i)) : Rest(text, i)[k] = text[(i + k) - 1]
<1> DEFINE N == Len(text)
<1>1. N \in Nat /\ i \in Int /\ N \in Int /\ i <= N /\ N - i + 1 = (N - i) + 1
    OBVIOUS
<1>2. \A j \in i..N : text[j] \in Tokens
    OBVIOUS
<1>3. /\ SubSeq(text, i, N) \in Seq(Tokens)
      /\ Len(SubSeq(text, i, N)) = N - i + 1
      /\ \A k \in 1..(N - i + 1) : SubSeq(text, i, N)[k] = text[i + k - 1]
    BY <1>1, <1>2, SubSeqProperties
<1>4. \A k \in 1..(N - i + 1) : i + k - 1 = (i + k) - 1
    OBVIOUS
<1> QED
    BY <1>1, <1>3, <1>4 DEF Rest

LEMMA RestOfJoined ==
    ASSUME NEW x \in Seq(Tokens), NEW y \in Seq(Tokens)
    PROVE  Rest(x \o y, Len(x) + 1) = y
<1> DEFINE text == x \o y
           d == Len(x)
           r == Rest(text, d + 1)
<1>1. /\ d \in Nat /\ Len(y) \in Nat /\ Len(text) = d + Len(y) /\ text \in Seq(Tokens)
      /\ \A k \in 1..(d + Len(y)) : text[k] = IF k <= d THEN x[k] ELSE y[k - d]
    BY ConcatProperties
<1> HIDE DEF text, d
<1>2. CASE Len(y) = 0
    <2>1. r = << >>
        BY <1>1, <1>2, RestEnds
    <2>2. y = << >>
        BY <1>2, EmptySeq
    <2> QED
        BY <2>1, <2>2 DEF text, d
<1>3. CASE Len(y) # 0
    <2>1. d + 1 \in 1..Len(text)
        BY <1>1, <1>3
    <2>2. /\ r \in Seq(Tokens) /\ Len(r) = (Len(text) - (d + 1)) + 1
          /\ \A k \in 1..Len(r) : r[k] = text[((d + 1) + k) - 1]
        BY <1>1, <2>1, RestPlaces
    <2> HIDE DEF r
    <2>3. Len(r) = Len(y)
        BY <1>1, <2>2
    <2>4. \A k \in 1..Len(y) : r[k] = y[k]
        <3> TAKE k \in 1..Len(y)
        <3>1. /\ ((d + 1) + k) - 1 = d + k /\ d + k \in 1..(d + Len(y))
              /\ ~(d + k <= d) /\ (d + k) - d = k
            BY <1>1
        <3>2. text[d + k] = y[k]
            BY <1>1, <3>1
        <3> QED
            BY <2>2, <2>3, <3>1, <3>2
    <2>5. r = y
        BY <2>2, <2>3, <2>4, SeqEqual
    <2> QED
        BY <2>5 DEF r, text, d
<1> QED
    BY <1>2, <1>3, <1>1

\* What starts in the rest starts in the text.
LEMMA RestStarts ==
    ASSUME NEW text \in Seq(Tokens), NEW i \in 1..Len(text),
           NEW k \in 1..Len(Rest(text, i))
    PROVE  /\ (i + k) - 1 \in i..Len(text)
           /\ \A n : StartsAt(Rest(text, i), k, n) <=> StartsAt(text, (i + k) - 1, n)
<1> DEFINE N == Len(text)
           r == Rest(text, i)
           M == Len(r)
           j == (i + k) - 1
<1>1. /\ N \in Nat /\ r \in Seq(Tokens) /\ M = (N - i) + 1 /\ k \in 1..M
      /\ \A l \in 1..M : r[l] = text[(i + l) - 1]
    BY RestPlaces
<1> HIDE DEF r, M
<1>2. i \in Nat /\ k \in Nat /\ j \in i..N /\ j \in 1..N
    BY <1>1
<1>3. k + 2 <= M <=> j + 2 <= N
    BY <1>1, <1>2
<1>4. k + 2 <= M => r[k + 1] = text[j + 1] /\ r[k + 2] = text[j + 2]
    <2> SUFFICES ASSUME k + 2 <= M PROVE r[k + 1] = text[j + 1] /\ r[k + 2] = text[j + 2]
        OBVIOUS
    <2>1. /\ k + 1 \in 1..M /\ k + 2 \in 1..M
          /\ (i + (k + 1)) - 1 = j + 1 /\ (i + (k + 2)) - 1 = j + 2
        BY <1>1, <1>2
    <2> QED
        BY <1>1, <2>1
<1>5. r[k] = text[j]
    BY <1>1
<1>6. j \in i..Len(text) /\ \A n : StartsAt(r, k, n) <=> StartsAt(text, j, n)
    <2>1. \A n : StartsAt(r, k, n) <=> /\ k + 2 <= M
                                       /\ Opening(r, k) /\ r[k + 1] = n /\ Closing(r, k + 2)
        BY <1>1, StartsToken DEF M
    <2>2. \A n : StartsAt(text, j, n)
                   <=> /\ j + 2 <= N
                       /\ Opening(text, j) /\ text[j + 1] = n /\ Closing(text, j + 2)
        BY <1>2, StartsToken
    <2>3. Opening(r, k) <=> Opening(text, j)
        BY <1>5 DEF Opening
    <2>4. k + 2 <= M => (Closing(r, k + 2) <=> Closing(text, j + 2))
        BY <1>4 DEF Closing
    <2>5. ASSUME NEW n PROVE StartsAt(r, k, n) <=> StartsAt(text, j, n)
        BY <1>3, <1>4, <2>1, <2>2, <2>3, <2>4, Zenon
    <2> QED
        BY <1>2, <2>5
<1> QED
    BY <1>6 DEF r

\* Where a placeholder starts.
LEMMA RestFromPlaceholder ==
    ASSUME NEW text \in Seq(Tokens), NEW i \in 1..Len(text), NEW n \in KnownPlaceholder,
           StartsAt(text, i, n)
    PROVE  /\ i + 3 \in (i + 1)..(Len(text) + 1)
           /\ Rest(text, i + 3) \in Seq(Tokens)
           /\ Rest(text, i) = Placeholder(n) \o Rest(text, i + 3)
<1> DEFINE N == Len(text)
<1>1. i + 2 <= N /\ Opening(text, i) /\ text[i + 1] = n /\ Closing(text, i + 2)
    BY StartsToken
<1>2. /\ i + 1 \in 1..N /\ i + 2 \in 1..N /\ i + 3 \in (i + 1)..(N + 1)
      /\ (i + 1) + 1 = i + 2 /\ (i + 2) + 1 = i + 3
    BY <1>1
<1>3. Rest(text, i) = <<text[i]>> \o Rest(text, i + 1) /\ text[i] \in Tokens
    BY RestIs
<1>4. Rest(text, i + 1) = <<text[i + 1]>> \o Rest(text, i + 2) /\ text[i + 1] \in Tokens
    BY <1>2, RestIs
<1>5. /\ Rest(text, i + 2) = <<text[i + 2]>> \o Rest(text, i + 3) /\ text[i + 2] \in Tokens
      /\ Rest(text, i + 3) \in Seq(Tokens)
    BY <1>2, RestIs
<1>6. <<text[i], text[i + 1], text[i + 2]>> \o Rest(text, i + 3) = Rest(text, i)
    <2> DEFINE y == Rest(text, i + 3)
               a == text[i]
               b == text[i + 1]
               c == text[i + 2]
    <2>1. a \in Tokens /\ b \in Tokens /\ c \in Tokens /\ y \in Seq(Tokens)
        BY <1>3, <1>4, <1>5
    <2>2. Rest(text, i) = <<a>> \o (<<b>> \o (<<c>> \o y))
        BY <1>3, <1>4, <1>5, Zenon
    <2> HIDE DEF y, a, b, c
    <2>3. <<a, b, c>> \o y = <<a>> \o (<<b>> \o (<<c>> \o y))
        BY <2>1, OneByOne, ZenonT(60)
    <2> QED
        BY <2>2, <2>3, Zenon DEF y, a, b, c
<1>7. <<text[i], text[i + 1], text[i + 2]>> = Placeholder(n)
    BY <1>1, Zenon DEF Placeholder, Opening, Closing
<1> QED
    BY <1>2, <1>5, <1>6, <1>7

\* In an accepted text an opening brace that starts no placeholder is never
\* closed, so that none starts after it.
LEMMA NothingAfter ==
    ASSUME NEW text \in Seq(Tokens), FilledFrom(text, 1, KnownPlaceholder),
           NEW i \in 1..Len(text), Opening(text, i),
           \A n \in KnownPlaceholder : ~StartsAt(text, i, n)
    PROVE  \A k \in 1..Len(Rest(text, i)) : \A n : ~StartsAt(Rest(text, i), k, n)
<1>1. ~Closes(text, i)
    BY DEF FilledFrom
<1> TAKE k \in 1..Len(Rest(text, i))
<1> TAKE n
<1> DEFINE j == (i + k) - 1
<1>2. j \in i..Len(text) /\ (StartsAt(Rest(text, i), k, n) <=> StartsAt(text, j, n))
    BY RestStarts
<1> HIDE DEF j
<1>3. ASSUME StartsAt(text, j, n) PROVE FALSE
    <2>1. j \in 1..Len(text)
        BY <1>2
    <2>2. j + 2 <= Len(text) /\ Closing(text, j + 2)
        BY <1>3, <2>1, StartsToken
    <2>3. j + 2 \in (i + 1)..Len(text)
        BY <1>2, <2>2
    <2> QED
        BY <1>1, <2>2, <2>3 DEF Closes
<1> QED
    BY <1>2, <1>3

\* The pass goes over a text token by token,
LEMMA RestToken ==
    ASSUME NEW text \in Seq(Tokens), NEW value, Texts(value),
           NEW K \in SUBSET KnownPlaceholder, NEW i \in 1..Len(text), ~Starts(text, i, K)
    PROVE  OnePass(Rest(text, i), value, K) = <<text[i]>> \o OnePass(Rest(text, i + 1), value, K)
<1> DEFINE t == text[i]
           y == Rest(text, i + 1)
<1>1. Rest(text, i) = <<t>> \o y /\ t \in Tokens /\ y \in Seq(Tokens)
    BY RestIs
<1>2. ~Starts(Rest(text, i), 1, K)
    <2>1. 1 \in 1..Len(Rest(text, i)) /\ (i + 1) - 1 = i
        BY RestPlaces
    <2>2. \A n : StartsAt(Rest(text, i), 1, n) <=> StartsAt(text, i, n)
        BY <2>1, RestStarts
    <2> QED
        BY <2>2 DEF Starts
<1> HIDE DEF t, y
<1>3. OnePass(<<t>> \o y, value, K) = <<t>> \o OnePass(y, value, K)
    BY <1>1, <1>2, PassToken
<1> QED
    BY <1>1, <1>3, Zenon DEF t, y

\* and over a placeholder of K at once.
LEMMA RestPlaceholder ==
    ASSUME NEW text \in Seq(Tokens), NEW value, Texts(value),
           NEW K \in SUBSET KnownPlaceholder, NEW i \in 1..Len(text),
           NEW n \in K, StartsAt(text, i, n)
    PROVE  /\ i + 3 \in (i + 1)..(Len(text) + 1)
           /\ OnePass(Rest(text, i), value, K) = value[n] \o OnePass(Rest(text, i + 3), value, K)
<1> DEFINE y == Rest(text, i + 3)
<1>1. n \in KnownPlaceholder
    OBVIOUS
<1>2. /\ i + 3 \in (i + 1)..(Len(text) + 1) /\ y \in Seq(Tokens)
      /\ Rest(text, i) = Placeholder(n) \o y
    BY <1>1, RestFromPlaceholder
<1> HIDE DEF y
<1>3. OnePass(Placeholder(n) \o y, value, K) = value[n] \o OnePass(y, value, K)
    BY <1>2, PassPlaceholder
<1> QED
    BY <1>2, <1>3, Zenon DEF y

\* Every opening brace of a text begins a stretch of one token.
Whole(text) ==
    \A i \in 1..Len(text) : Opening(text, i) => i + 2 <= Len(text) /\ Closing(text, i + 2)

\* Nothing starts at the end of such a text with what it is put in front of.
LEMMA WholeStarts ==
    ASSUME NEW v \in Seq(Tokens), Whole(v), NEW y \in Seq(Tokens), NEW i \in 1..Len(v)
    PROVE  \A n : StartsAt(v \o y, i, n) <=> StartsAt(v, i, n)
<1> DEFINE text == v \o y
           N == Len(v)
           M == Len(text)
<1>1. /\ N \in Nat /\ text \in Seq(Tokens) /\ M \in Nat /\ N <= M
      /\ \A k \in 1..N : text[k] = v[k]
    <2>1. /\ N \in Nat /\ Len(y) \in Nat /\ M = N + Len(y)
          /\ \A k \in 1..(N + Len(y)) : text[k] = IF k <= N THEN v[k] ELSE y[k - N]
        BY ConcatProperties
    <2> HIDE DEF text, M, N
    <2>2. \A k \in 1..N : k \in 1..(N + Len(y)) /\ k <= N
        BY <2>1
    <2>3. text \in Seq(Tokens)
        BY ConcatProperties DEF text
    <2> QED
        BY <2>1, <2>2, <2>3
<1> HIDE DEF text, M
<1>2. i \in 1..N /\ i \in 1..M
    BY <1>1
<1> TAKE n
<1>3. StartsAt(text, i, n)
        <=> i + 2 <= M /\ Opening(text, i) /\ text[i + 1] = n /\ Closing(text, i + 2)
    BY <1>1, <1>2, StartsToken DEF M
<1>4. StartsAt(v, i, n)
        <=> i + 2 <= N /\ Opening(v, i) /\ v[i + 1] = n /\ Closing(v, i + 2)
    BY <1>2, StartsToken
<1>5. Opening(text, i) <=> Opening(v, i)
    BY <1>1, <1>2 DEF Opening
<1>6. Opening(v, i) => i + 2 <= N
    BY <1>2 DEF Whole
<1>7. i + 2 <= N => /\ text[i + 1] = v[i + 1] /\ i + 2 <= M
                    /\ Closing(text, i + 2) <=> Closing(v, i + 2)
    <2> SUFFICES ASSUME i + 2 <= N
                 PROVE  /\ text[i + 1] = v[i + 1] /\ i + 2 <= M
                        /\ Closing(text, i + 2) <=> Closing(v, i + 2)
        OBVIOUS
    <2>1. i + 1 \in 1..N /\ i + 2 \in 1..N /\ i + 2 <= M
        BY <1>1, <1>2
    <2>2. text[i + 1] = v[i + 1] /\ text[i + 2] = v[i + 2]
        BY <1>1, <2>1
    <2> QED
        BY <2>1, <2>2 DEF Closing
<1>8. StartsAt(text, i, n) <=> StartsAt(v, i, n)
    BY <1>3, <1>4, <1>5, <1>6, <1>7, Zenon
<1> QED
    BY <1>8 DEF text

\* The pass goes over such a text by itself.
LEMMA PassWhole ==
    ASSUME NEW v \in Seq(Tokens), Whole(v), NEW y \in Seq(Tokens),
           NEW value, Texts(value), NEW K \in SUBSET KnownPlaceholder
    PROVE  OnePass(v \o y, value, K) = OnePass(v, value, K) \o OnePass(y, value, K)
<1> DEFINE N == Len(v)
           text == v \o y
           O(t) == OnePass(t, value, K)
           Good(i) == O(Rest(text, i)) = O(Rest(v, i)) \o O(y)
           S == {i \in 1..(N + 1) : Good(i)}
<1>1. /\ N \in Nat /\ text \in Seq(Tokens) /\ Len(text) \in Nat /\ N <= Len(text)
      /\ \A k \in 1..N : k \in 1..Len(text) /\ text[k] = v[k]
      /\ Rest(text, N + 1) = y
    <2>1. /\ N \in Nat /\ Len(y) \in Nat /\ Len(text) = N + Len(y) /\ text \in Seq(Tokens)
          /\ \A k \in 1..(N + Len(y)) : text[k] = IF k <= N THEN v[k] ELSE y[k - N]
        BY ConcatProperties
    <2>2. Rest(text, N + 1) = y
        BY RestOfJoined
    <2> HIDE DEF text, N
    <2>3. \A k \in 1..N : k \in 1..(N + Len(y)) /\ k <= N
        BY <2>1
    <2> QED
        BY <2>1, <2>2, <2>3
<1>2. \A t \in Seq(Tokens) : O(t) \in Seq(Tokens)
    BY PiecesAreTexts
<1>3. \A k \in 1..N : \A n : StartsAt(text, k, n) <=> StartsAt(v, k, n)
    BY WholeStarts
<1> HIDE DEF text
<1>4. N + 1 \in S
    <2>1. << >> \in Seq(Tokens) /\ \A k \in 1..Len(<< >>) : FALSE
        BY EmptySeq
    <2>2. O(<< >>) = << >>
        BY <2>1, PassOfNone
    <2>3. O(Rest(v, N + 1)) = << >>
        BY <2>2, RestEnds
    <2>4. << >> \o O(y) = O(y)
        <3>1. O(y) \in Seq(Tokens)
            BY <1>2
        <3> HIDE DEF O
        <3> QED
            BY <3>1
    <2>5. O(Rest(text, N + 1)) = O(y) /\ N + 1 \in 1..(N + 1)
        BY <1>1
    <2> HIDE DEF O
    <2>6. O(Rest(text, N + 1)) = O(Rest(v, N + 1)) \o O(y)
        BY <2>3, <2>4, <2>5, Zenon
    <2> QED
        BY <2>5, <2>6
<1>5. ASSUME NEW i \in 1..N, \A j \in (i + 1)..(N + 1) : j \in S
      PROVE  i \in S
    <2>1. i + 1 \in (i + 1)..(N + 1) /\ i \in 1..Len(text) /\ i \in 1..(N + 1)
        BY <1>1
    <2>2. ASSUME NEW j \in (i + 1)..(N + 1), NEW a \in Seq(Tokens),
                 O(Rest(text, i)) = a \o O(Rest(text, j)),
                 O(Rest(v, i)) = a \o O(Rest(v, j))
          PROVE  O(Rest(text, i)) = O(Rest(v, i)) \o O(y)
        <3>1. O(Rest(text, j)) = O(Rest(v, j)) \o O(y)
            <4> HIDE DEF Good
            <4>1. Good(j)
                BY <1>5
            <4> QED
                BY <4>1 DEF Good
        <3>2. Rest(v, j) \in Seq(Tokens)
            <4>0. N \in Nat
                BY <1>1
            <4>1. j \in 1..N \/ j = N + 1
                <5> HIDE DEF N
                <5> QED
                    BY <4>0
            <4>2. CASE j \in 1..N
                BY <4>2, RestPlaces
            <4>3. CASE j = N + 1
                <5>1. Rest(v, j) = << >>
                    BY <4>3, RestEnds
                <5> QED
                    BY <5>1, EmptySeq
            <4> QED
                BY <4>1, <4>2, <4>3
        <3>3. O(Rest(v, j)) \in Seq(Tokens) /\ O(y) \in Seq(Tokens)
            BY <1>2, <3>2
        <3> HIDE DEF O
        <3> DEFINE b == O(Rest(v, j))
                   c == O(y)
        <3>4. b \in Seq(Tokens) /\ c \in Seq(Tokens)
            BY <3>3
        <3> HIDE DEF b, c
        <3>5. (a \o b) \o c = a \o (b \o c)
            BY <3>4, Associative
        <3> QED
            BY <2>2, <3>1, <3>5, Zenon DEF b, c
    <2>3. CASE Starts(v, i, K)
        <3>1. PICK n \in K : StartsAt(v, i, n)
            BY <2>3 DEF Starts
        <3>2. i + 3 \in (i + 1)..(N + 1) /\ O(Rest(v, i)) = value[n] \o O(Rest(v, i + 3))
            BY <3>1, RestPlaceholder
        <3>3. StartsAt(text, i, n)
            BY <1>3, <3>1
        <3>4. O(Rest(text, i)) = value[n] \o O(Rest(text, i + 3))
            BY <1>1, <2>1, <3>3, RestPlaceholder
        <3>5. value[n] \in Seq(Tokens)
            BY DEF Texts
        <3> HIDE DEF O, S
        <3>6. O(Rest(text, i)) = O(Rest(v, i)) \o O(y)
            BY <2>2, <3>2, <3>4, <3>5, Zenon
        <3> QED
            BY <2>1, <3>6 DEF S
    <2>4. CASE ~Starts(v, i, K)
        <3>1. O(Rest(v, i)) = <<v[i]>> \o O(Rest(v, i + 1))
            BY <2>4, RestToken
        <3>2. ~Starts(text, i, K)
            BY <1>3, <2>4 DEF Starts
        <3>3. O(Rest(text, i)) = <<text[i]>> \o O(Rest(text, i + 1))
            BY <1>1, <2>1, <3>2, RestToken
        <3>4. text[i] = v[i] /\ <<v[i]>> \in Seq(Tokens)
            <4>1. v[i] \in Tokens
                OBVIOUS
            <4> QED
                BY <1>1, <4>1
        <3> HIDE DEF O, S
        <3>5. O(Rest(text, i)) = O(Rest(v, i)) \o O(y)
            BY <2>1, <2>2, <3>1, <3>3, <3>4, Zenon
        <3> QED
            BY <2>1, <3>5 DEF S
    <2> QED
        BY <2>3, <2>4
<1>6. \A i \in 1..(N + 1) : i \in S
    <2> HIDE DEF S
    <2>1. \A i \in 1..(N + 1) : (\A j \in (i + 1)..(N + 1) : j \in S) => i \in S
        <3> TAKE i \in 1..(N + 1)
        <3>1. i = N + 1 \/ i \in 1..N
            BY <1>1
        <3> QED
            BY <1>4, <1>5, <3>1
    <2>2. 1 \in Nat /\ N + 1 \in Nat
        BY <1>1
    <2> HIDE DEF N
    <2> QED
        BY <2>1, <2>2, Downwards
<1>7. O(Rest(text, 1)) = O(Rest(v, 1)) \o O(y)
    <2>1. 1 \in 1..(N + 1)
        BY <1>1
    <2> HIDE DEF O
    <2> QED
        BY <1>6, <2>1
<1>8. Rest(text, 1) = text /\ Rest(v, 1) = v
    BY <1>1, RestEnds
<1> QED
    BY <1>7, <1>8 DEF text

\* A token in front of a text.
LEMMA TokenInFront ==
    ASSUME NEW t \in Tokens, NEW y \in Seq(Tokens)
    PROVE  /\ <<t>> \in Seq(Tokens) /\ Len(<<t>>) = 1 /\ <<t>>[1] = t
           /\ <<t>> \o y \in Seq(Tokens) /\ Len(<<t>> \o y) = Len(y) + 1 /\ Len(y) \in Nat
           /\ (<<t>> \o y)[1] = t /\ \A k \in 1..Len(y) : (<<t>> \o y)[k + 1] = y[k]
<1>1. <<t>> \in Seq(Tokens) /\ Len(<<t>>) = 1 /\ <<t>>[1] = t
    OBVIOUS
<1> DEFINE x == <<t>>
           text == x \o y
<1> HIDE DEF x
<1>2. /\ text \in Seq(Tokens) /\ Len(text) = Len(x) + Len(y) /\ Len(y) \in Nat
      /\ \A k \in 1..(Len(x) + Len(y)) : text[k] = IF k <= Len(x) THEN x[k] ELSE y[k - Len(x)]
    BY <1>1, ConcatProperties DEF x
<1> HIDE DEF text
<1>3. Len(text) = Len(y) + 1 /\ text[1] = t
    <2>1. 1 \in 1..(1 + Len(y)) /\ 1 <= 1
        BY <1>2
    <2> QED
        BY <1>1, <1>2, <2>1 DEF x
<1>4. \A k \in 1..Len(y) : text[k + 1] = y[k]
    <2> TAKE k \in 1..Len(y)
    <2>1. k + 1 \in 1..(1 + Len(y)) /\ ~(k + 1 <= 1) /\ (k + 1) - 1 = k
        BY <1>2
    <2> QED
        BY <1>1, <1>2, <2>1 DEF x
<1> QED
    BY <1>1, <1>2, <1>3, <1>4 DEF x, text

\* What is put together of such texts is one,
LEMMA WholeJoined ==
    ASSUME NEW v \in Seq(Tokens), Whole(v), NEW y \in Seq(Tokens), Whole(y)
    PROVE  v \o y \in Seq(Tokens) /\ Whole(v \o y)
<1> DEFINE text == v \o y
           d == Len(v)
           M == Len(y)
<1>1. /\ d \in Nat /\ M \in Nat /\ Len(text) = d + M /\ text \in Seq(Tokens)
      /\ \A k \in 1..(d + M) : text[k] = IF k <= d THEN v[k] ELSE y[k - d]
    BY ConcatProperties
<1> HIDE DEF text
<1>2. ASSUME NEW i \in 1..Len(text), Opening(text, i)
      PROVE  i + 2 <= Len(text) /\ Closing(text, i + 2)
    <2>1. CASE i <= d
        <3>1. i \in 1..d /\ text[i] = v[i]
            BY <1>1, <2>1
        <3>2. i + 2 <= d /\ Closing(v, i + 2)
            BY <1>2, <3>1 DEF Whole, Opening
        <3>3. i + 2 \in 1..(d + M)
            BY <1>1, <3>1, <3>2
        <3>4. text[i + 2] = v[i + 2]
            BY <1>1, <3>2, <3>3
        <3>5. i + 2 <= Len(text)
            BY <1>1, <3>3
        <3>6. Closing(text, i + 2)
            BY <3>2, <3>4, Zenon DEF Closing
        <3> QED
            BY <3>5, <3>6
    <2>2. CASE ~(i <= d)
        <3>1. i - d \in 1..M /\ text[i] = y[i - d]
            BY <1>1, <2>2
        <3>2. (i - d) + 2 <= M /\ Closing(y, (i - d) + 2)
            BY <1>2, <3>1 DEF Whole, Opening
        <3>3. /\ i + 2 \in 1..(d + M) /\ ~(i + 2 <= d)
              /\ (i + 2) - d = (i - d) + 2 /\ i + 2 <= Len(text)
            BY <1>1, <2>2, <3>1, <3>2
        <3>4. text[i + 2] = y[(i - d) + 2]
            BY <1>1, <3>3
        <3> QED
            BY <3>2, <3>3, <3>4 DEF Closing
    <2> QED
        BY <2>1, <2>2
<1> QED
    BY <1>1, <1>2 DEF Whole, text

LEMMA UnopenedIsWhole ==
    ASSUME NEW text, Unopened(text)
    PROVE  Whole(text)
BY Zenon DEF Unopened, Whole

\* and so is what the pass makes of one with such values.
LEMMA PassKeepsWhole ==
    ASSUME NEW v \in Seq(Tokens), Whole(v), NEW value, Texts(value),
           NEW K \in SUBSET KnownPlaceholder, \A n \in K : Whole(value[n])
    PROVE  Whole(OnePass(v, value, K))
<1> DEFINE N == Len(v)
           O(i) == OnePass(Rest(v, i), value, K)
           S == {i \in 1..(N + 1) : Whole(O(i))}
<1>1. N \in Nat
    OBVIOUS
<1>2. \A i \in 1..(N + 1) : O(i) \in Seq(Tokens)
    <2> TAKE i \in 1..(N + 1)
    <2>1. i \in 1..N \/ i = N + 1
        BY <1>1
    <2>2. Rest(v, i) \in Seq(Tokens)
        BY <2>1, RestPlaces, RestEnds, EmptySeq
    <2> QED
        BY <2>2, PiecesAreTexts
<1>3. N + 1 \in S
    <2>1. << >> \in Seq(Tokens) /\ \A k \in 1..Len(<< >>) : FALSE
        BY EmptySeq
    <2>2. O(N + 1) = << >>
        <3>1. OnePass(<< >>, value, K) = << >>
            BY <2>1, PassOfNone
        <3> QED
            BY <3>1, RestEnds
    <2>3. Whole(<< >>)
        BY <2>1, Zenon DEF Whole
    <2>4. N + 1 \in 1..(N + 1)
        BY <1>1
    <2> HIDE DEF O
    <2> QED
        BY <2>2, <2>3, <2>4
<1>4. \A i \in 1..N : ~Starts(v, i, K) => O(i) = <<v[i]>> \o O(i + 1)
    BY RestToken
<1>5. ASSUME NEW i \in 1..N, \A j \in (i + 1)..(N + 1) : j \in S
      PROVE  Whole(O(i))
    <2>1. i + 1 \in (i + 1)..(N + 1) /\ i + 1 \in 1..(N + 1)
        BY <1>1
    <2>2. CASE Starts(v, i, K)
        <3>1. PICK n \in K : StartsAt(v, i, n)
            BY <2>2 DEF Starts
        <3>2. i + 3 \in (i + 1)..(N + 1) /\ O(i) = value[n] \o O(i + 3)
            BY <3>1, RestPlaceholder
        <3>3. i + 3 \in 1..(N + 1) /\ Whole(O(i + 3))
            BY <1>5, <3>2
        <3>4. value[n] \in Seq(Tokens) /\ Whole(value[n]) /\ O(i + 3) \in Seq(Tokens)
            BY <1>2, <3>3 DEF Texts
        <3> DEFINE a == value[n]
                   b == O(i + 3)
        <3> HIDE DEF O
        <3>5. a \in Seq(Tokens) /\ Whole(a) /\ b \in Seq(Tokens) /\ Whole(b)
            BY <3>3, <3>4
        <3> HIDE DEF a, b
        <3>6. Whole(a \o b)
            BY <3>5, WholeJoined
        <3> QED
            BY <3>2, <3>6 DEF a, b
    <2> DEFINE t == v[i]
               y == O(i + 1)
    <2>3. t \in Tokens /\ y \in Seq(Tokens) /\ Whole(y)
        BY <1>2, <1>5, <2>1
    <2>4. /\ <<t>> \in Seq(Tokens) /\ Len(<<t>>) = 1 /\ <<t>>[1] = t
          /\ <<t>> \o y \in Seq(Tokens) /\ Len(<<t>> \o y) = Len(y) + 1 /\ Len(y) \in Nat
          /\ (<<t>> \o y)[1] = t /\ \A k \in 1..Len(y) : (<<t>> \o y)[k + 1] = y[k]
        BY <2>3, TokenInFront
    <2>5. CASE ~Starts(v, i, K) /\ ~Opening(v, i)
        <3>1. O(i) = <<t>> \o y
            BY <1>4, <2>5
        <3> HIDE DEF t, y, O
        <3>2. Unopened(<<t>>)
            <4>1. ~Opening(<<t>>, 1)
                BY <2>4, <2>5 DEF Opening, t
            <4> QED
                BY <2>4, <4>1 DEF Unopened
        <3>3. Whole(<<t>> \o y)
            BY <2>3, <2>4, <3>2, UnopenedIsWhole, WholeJoined
        <3> QED
            BY <3>1, <3>3
    <2>6. CASE ~Starts(v, i, K) /\ Opening(v, i)
        <3>1. i + 2 <= N /\ Closing(v, i + 2)
            BY <2>6 DEF Whole
        <3>2. /\ i + 1 \in 1..N /\ i + 2 \in 1..N /\ (i + 1) + 1 = i + 2 /\ (i + 2) + 1 = i + 3
              /\ i + 3 \in 1..(N + 1)
            BY <1>1, <3>1
        <3>3. ~Starts(v, i + 1, K)
            <4>1. ASSUME NEW n \in K, StartsAt(v, i + 1, n) PROVE FALSE
                <5>1. v[i + 2] = n
                    BY <3>2, <4>1, StartsToken
                <5> QED
                    BY <3>1, <5>1, NotBraces DEF Closing
            <4> QED
                BY <4>1 DEF Starts
        <3>4. ~Starts(v, i + 2, K)
            <4>1. ~Opening(v, i + 2)
                BY <3>1 DEF Opening, Closing
            <4> QED
                BY <3>2, <4>1, StartsToken DEF Starts
        <3>5. O(i) = <<t>> \o y /\ y = <<v[i + 1]>> \o O(i + 2) /\ O(i + 2) = <<v[i + 2]>> \o O(i + 3)
            BY <1>4, <2>6, <3>2, <3>3, <3>4, Zenon
        <3>6. O(i + 3) \in Seq(Tokens) /\ v[i + 1] \in Tokens /\ v[i + 2] \in Tokens
            BY <1>2, <3>2
        <3> DEFINE z == O(i + 3)
                   a == v[i + 1]
                   b == v[i + 2]
                   w == <<b>> \o z
        <3>7. y = <<a>> \o w /\ z \in Seq(Tokens) /\ a \in Tokens /\ b \in Tokens
            BY <3>5, <3>6
        <3> HIDE DEF z, a, b, O, t, y
        <3>8. w \in Seq(Tokens) /\ Len(w) = Len(z) + 1 /\ w[1] = b /\ Len(z) \in Nat
            BY <3>7, TokenInFront
        <3> HIDE DEF w
        <3>9. Len(y) = Len(w) + 1 /\ y[2] = b
            <4>1. /\ Len(<<a>> \o w) = Len(w) + 1
                  /\ \A k \in 1..Len(w) : (<<a>> \o w)[k + 1] = w[k]
                BY <3>7, <3>8, TokenInFront
            <4>2. 1 \in 1..Len(w) /\ 1 + 1 = 2
                BY <3>8
            <4> QED
                BY <3>7, <3>8, <4>1, <4>2
        <3> DEFINE text == <<t>> \o y
        <3>10. Len(text) = Len(y) + 1 /\ \A k \in 1..Len(y) : text[k + 1] = y[k]
            BY <2>4
        <3> HIDE DEF text
        <3>11. Closing(y, 2)
            BY <3>1, <3>9 DEF Closing, b
        <3>12. ASSUME NEW k \in 1..Len(text), Opening(text, k)
               PROVE  k + 2 <= Len(text) /\ Closing(text, k + 2)
            <4>1. CASE k = 1
                <5>1. 2 \in 1..Len(y) /\ 2 + 1 = 3 /\ k + 2 = 3 /\ 3 <= Len(text)
                    BY <2>4, <3>8, <3>9, <3>10, <4>1
                <5>2. text[3] = y[2]
                    BY <3>10, <5>1
                <5> QED
                    BY <3>11, <5>1, <5>2 DEF Closing
            <4>2. CASE k # 1
                <5>1. k - 1 \in 1..Len(y) /\ (k - 1) + 1 = k
                    BY <2>4, <3>10, <4>2
                <5>2. Opening(y, k - 1)
                    BY <3>10, <3>12, <5>1 DEF Opening
                <5>3. (k - 1) + 2 <= Len(y) /\ Closing(y, (k - 1) + 2)
                    BY <2>3, <5>1, <5>2 DEF Whole
                <5>4. (k - 1) + 2 \in 1..Len(y) /\ ((k - 1) + 2) + 1 = k + 2
                      /\ k + 2 <= Len(text)
                    BY <2>4, <3>10, <5>1, <5>3
                <5>5. text[k + 2] = y[(k - 1) + 2]
                    BY <3>10, <5>4
                <5> QED
                    BY <5>3, <5>4, <5>5 DEF Closing
            <4> QED
                BY <4>1, <4>2
        <3>13. Whole(text)
            BY <3>12 DEF Whole
        <3> QED
            BY <3>5, <3>13 DEF text
    <2> QED
        BY <2>2, <2>5, <2>6
<1>6. \A i \in 1..(N + 1) : i \in S
    <2>1. \A i \in 1..(N + 1) : (\A j \in (i + 1)..(N + 1) : j \in S) => i \in S
        <3> TAKE i \in 1..(N + 1)
        <3> HAVE \A j \in (i + 1)..(N + 1) : j \in S
        <3> HIDE DEF O
        <3>1. i = N + 1 \/ i \in 1..N
            BY <1>1
        <3>2. i \in 1..N => Whole(O(i))
            BY <1>5
        <3> QED
            BY <1>3, <3>1, <3>2
    <2>2. 1 \in Nat /\ N + 1 \in Nat
        BY <1>1
    <2> HIDE DEF S, N
    <2> QED
        BY <2>1, <2>2, Downwards
<1>7. Whole(O(1))
    <2>1. 1 \in 1..(N + 1)
        BY <1>1
    <2> HIDE DEF O
    <2> QED
        BY <1>6, <2>1
<1> QED
    BY <1>7, RestEnds

\* What the names of K have come to once {name} has been replaced as well: in
\* the values that were put in before, too.
Then(value, K, name) ==
    [n \in KnownPlaceholder |-> IF n \in K THEN OnePass(value[n], value, {name}) ELSE value[n]]

\* A replacement after the pass for K is the pass for one name more.
Adds(text, value, K, name) ==
    OnePass(OnePass(text, value, K), value, {name})
      = OnePass(text, Then(value, K, name), K \cup {name})

\* The values of K open nothing that they do not close.
AllWhole(value, K) == \A n \in K : Whole(value[n])

LEMMA ThenIs ==
    ASSUME NEW value, Texts(value), NEW K \in SUBSET KnownPlaceholder,
           NEW name \in KnownPlaceholder, name \notin K
    PROVE  /\ Texts(Then(value, K, name))
           /\ \A n \in K : Then(value, K, name)[n] = OnePass(value[n], value, {name})
           /\ \A n \in KnownPlaceholder \ K : Then(value, K, name)[n] = value[n]
<1> DEFINE after == Then(value, K, name)
           J == {name}
<1>1. J \in SUBSET KnownPlaceholder
    OBVIOUS
<1> HIDE DEF J
<1>2. \A n \in KnownPlaceholder :
         value[n] \in Seq(Tokens) /\ OnePass(value[n], value, J) \in Seq(Tokens)
    <2> TAKE n \in KnownPlaceholder
    <2>1. value[n] \in Seq(Tokens)
        BY DEF Texts
    <2> DEFINE v == value[n]
    <2>2. v \in Seq(Tokens)
        BY <2>1
    <2> HIDE DEF v
    <2>3. OnePass(v, value, J) \in Seq(Tokens)
        BY <1>1, <2>2, PiecesAreTexts
    <2> QED
        BY <2>2, <2>3 DEF v
<1>3. \A n \in KnownPlaceholder :
         after[n] = IF n \in K THEN OnePass(value[n], value, J) ELSE value[n]
    BY Zenon DEF Then, J
<1> HIDE DEF after
<1>4. \A n \in K : after[n] = OnePass(value[n], value, J)
    BY <1>3, Zenon
<1>5. \A n \in KnownPlaceholder \ K : after[n] = value[n]
    BY <1>3, Zenon
<1>6. Texts(after)
    <2>1. ASSUME NEW n \in KnownPlaceholder PROVE after[n] \in Seq(Tokens)
        <3>1. CASE n \in K
            BY <1>2, <1>3, <3>1, Zenon
        <3>2. CASE n \notin K
            BY <1>2, <1>3, <3>2, Zenon
        <3> QED
            BY <3>1, <3>2
    <2> QED
        BY <2>1 DEF Texts
<1> QED
    BY <1>4, <1>5, <1>6 DEF after, J

\* At a placeholder,
LEMMA AddsAtPlaceholder ==
    ASSUME NEW y \in Seq(Tokens), NEW value, Texts(value),
           NEW K \in SUBSET KnownPlaceholder, AllWhole(value, K),
           NEW name \in KnownPlaceholder, name \notin K,
           NEW n \in KnownPlaceholder, Adds(y, value, K, name)
    PROVE  Adds(Placeholder(n) \o y, value, K, name)
<1> DEFINE x == Placeholder(n)
           L == K \cup {name}
           J == {name}
           after == Then(value, K, name)
           out == OnePass(y, value, K)
           all == OnePass(y, after, L)
<1>1. L \in SUBSET KnownPlaceholder /\ J \in SUBSET KnownPlaceholder
    OBVIOUS
<1>2. out \in Seq(Tokens)
    BY PiecesAreTexts
<1>3. OnePass(out, value, J) = all
    BY DEF Adds
<1>0. /\ Texts(after)
      /\ \A m \in K : after[m] = OnePass(value[m], value, J)
      /\ \A m \in KnownPlaceholder \ K : after[m] = value[m]
    BY ThenIs
<1> HIDE DEF after
<1>4. CASE n \in K
    <2>1. OnePass(x \o y, value, K) = value[n] \o out
        BY <1>4, PassPlaceholder
    <2>2. value[n] \in Seq(Tokens) /\ Whole(value[n])
        BY <1>4 DEF Texts, AllWhole
    <2>3. OnePass(x \o y, after, L) = after[n] \o all
        <3>1. n \in L
            BY <1>4
        <3> HIDE DEF L
        <3> QED
            BY <1>0, <1>1, <3>1, PassPlaceholder
    <2> DEFINE v == value[n]
    <2> HIDE DEF out, all, J, L, x
    <2>4. OnePass(v \o out, value, J) = OnePass(v, value, J) \o OnePass(out, value, J)
        <3>1. v \in Seq(Tokens) /\ Whole(v)
            BY <2>2
        <3> HIDE DEF v
        <3> QED
            BY <1>1, <1>2, <3>1, PassWhole
    <2>5. after[n] = OnePass(v, value, J)
        BY <1>0, <1>4
    <2> QED
        BY <1>3, <2>1, <2>3, <2>4, <2>5, Zenon DEF Adds, L, J, x, after
<1>5. CASE n = name
    <2>1. OnePass(x \o y, value, K) = x \o out
        BY <1>5, PassOther
    <2>2. n \in J /\ n \in L
        BY <1>5
    <2>3. after[n] = value[n]
        BY <1>0, <1>5
    <2> HIDE DEF out, J, L
    <2>4. OnePass(x \o out, value, J) = value[n] \o OnePass(out, value, J)
        BY <1>1, <1>2, <2>2, PassPlaceholder
    <2>5. OnePass(x \o y, after, L) = after[n] \o all
        BY <1>0, <1>1, <2>2, PassPlaceholder
    <2> HIDE DEF x, all
    <2> QED
        BY <1>3, <2>1, <2>3, <2>4, <2>5, Zenon DEF Adds, L, J, x, after
<1>6. CASE n \notin L
    <2>1. OnePass(x \o y, value, K) = x \o out
        BY <1>6, PassOther
    <2>2. n \notin J
        BY <1>6
    <2> HIDE DEF out, J, L
    <2>3. OnePass(x \o out, value, J) = x \o OnePass(out, value, J)
        BY <1>1, <1>2, <2>2, PassOther
    <2>4. OnePass(x \o y, after, L) = x \o all
        <3>1. Texts(after)
            BY <1>0
        <3> QED
            BY <1>1, <1>6, <3>1, PassOther
    <2> HIDE DEF x, all
    <2> QED
        BY <1>3, <2>1, <2>3, <2>4, Zenon DEF Adds, L, J, x, after
<1> QED
    BY <1>4, <1>5, <1>6

\* at a token that opens nothing,
LEMMA AddsAtToken ==
    ASSUME NEW t \in Tokens, ~Opening(<<t>>, 1), NEW y \in Seq(Tokens),
           NEW value, Texts(value),
           NEW K \in SUBSET KnownPlaceholder, NEW name \in KnownPlaceholder, name \notin K,
           Adds(y, value, K, name)
    PROVE  Adds(<<t>> \o y, value, K, name)
<1> DEFINE L == K \cup {name}
           J == {name}
           after == Then(value, K, name)
           out == OnePass(y, value, K)
<1>1. L \in SUBSET KnownPlaceholder /\ J \in SUBSET KnownPlaceholder
    OBVIOUS
<1>2. out \in Seq(Tokens)
    BY PiecesAreTexts
<1>3. ASSUME NEW z \in Seq(Tokens), NEW w, Texts(w), NEW M \in SUBSET KnownPlaceholder
      PROVE  OnePass(<<t>> \o z, w, M) = <<t>> \o OnePass(z, w, M)
    <2> DEFINE text == <<t>> \o z
    <2>1. text \in Seq(Tokens) /\ 1 \in 1..Len(text) /\ text[1] = t /\ <<t>>[1] = t
        OBVIOUS
    <2> HIDE DEF text
    <2>2. ~Opening(text, 1)
        BY <2>1 DEF Opening
    <2>3. ~Starts(text, 1, M)
        BY <2>1, <2>2, StartsToken DEF Starts
    <2>4. ~Starts(<<t>> \o z, 1, M)
        BY <2>3 DEF text
    <2> QED
        BY <1>3, <2>4, PassToken, SMTT(30)
<1>8. Texts(after)
    BY ThenIs
<1> HIDE DEF out, J, L, after
<1>4. OnePass(<<t>> \o y, value, K) = <<t>> \o out
    BY <1>3, Zenon DEF out
<1>5. OnePass(<<t>> \o out, value, J) = <<t>> \o OnePass(out, value, J)
    BY <1>1, <1>2, <1>3, Zenon
<1>6. OnePass(<<t>> \o y, after, L) = <<t>> \o OnePass(y, after, L)
    BY <1>1, <1>3, <1>8, Zenon
<1>7. OnePass(out, value, J) = OnePass(y, after, L)
    BY DEF Adds, out, J, L, after
<1> QED
    BY <1>4, <1>5, <1>6, <1>7, Zenon DEF Adds, L, J, after

\* where nothing starts,
LEMMA AddsToNone ==
    ASSUME NEW text \in Seq(Tokens), NEW value, Texts(value),
           NEW K \in SUBSET KnownPlaceholder, NEW name \in KnownPlaceholder, name \notin K,
           \A k \in 1..Len(text) : \A n : ~StartsAt(text, k, n)
    PROVE  Adds(text, value, K, name)
<1> DEFINE L == K \cup {name}
           J == {name}
           after == Then(value, K, name)
<1>1. L \in SUBSET KnownPlaceholder /\ J \in SUBSET KnownPlaceholder /\ Texts(after)
    BY ThenIs
<1>2. \A M : \A k \in 1..Len(text) : ~Starts(text, k, M)
    BY DEF Starts
<1> HIDE DEF J, L, after
<1>3. OnePass(text, value, K) = text
    BY <1>2, PassOfNone
<1>4. OnePass(text, value, J) = text
    BY <1>1, <1>2, PassOfNone
<1>5. OnePass(text, after, L) = text
    BY <1>1, <1>2, PassOfNone
<1> QED
    BY <1>3, <1>4, <1>5, Zenon DEF Adds, J, L, after

\* and so in an accepted text.
LEMMA AddsOneMore ==
    ASSUME NEW text \in Seq(Tokens), FilledFrom(text, 1, KnownPlaceholder),
           NEW value, Texts(value),
           NEW K \in SUBSET KnownPlaceholder, AllWhole(value, K),
           NEW name \in KnownPlaceholder, name \notin K
    PROVE  Adds(text, value, K, name)
<1> DEFINE N == Len(text)
           Good(i) == Adds(Rest(text, i), value, K, name)
           S == {i \in 1..(N + 1) : Good(i)}
<1>1. N \in Nat
    OBVIOUS
<1>2. N + 1 \in S
    <2>1. << >> \in Seq(Tokens) /\ \A k \in 1..Len(<< >>) : FALSE
        BY EmptySeq
    <2>2. Adds(<< >>, value, K, name)
        BY <2>1, AddsToNone
    <2> QED
        BY <1>1, <2>2, RestEnds
<1>3. ASSUME NEW i \in 1..N, \A j \in (i + 1)..(N + 1) : j \in S
      PROVE  Good(i)
    <2>1. i + 1 \in (i + 1)..(N + 1)
        BY <1>1
    <2>2. CASE \E n \in KnownPlaceholder : StartsAt(text, i, n)
        <3>1. PICK n \in KnownPlaceholder : StartsAt(text, i, n)
            BY <2>2
        <3>2. /\ i + 3 \in (i + 1)..(N + 1) /\ Rest(text, i + 3) \in Seq(Tokens)
              /\ Rest(text, i) = Placeholder(n) \o Rest(text, i + 3)
            BY <3>1, RestFromPlaceholder
        <3>3. Good(i + 3)
            BY <1>3, <3>2
        <3> DEFINE y == Rest(text, i + 3)
        <3>4. y \in Seq(Tokens) /\ Adds(y, value, K, name)
            BY <3>2, <3>3
        <3> HIDE DEF y
        <3>5. Adds(Placeholder(n) \o y, value, K, name)
            BY <3>4, AddsAtPlaceholder
        <3> QED
            BY <3>2, <3>5, Zenon DEF y
    <2>3. CASE ~Opening(text, i)
        <3>1. /\ Rest(text, i) = <<text[i]>> \o Rest(text, i + 1)
              /\ text[i] \in Tokens /\ Rest(text, i + 1) \in Seq(Tokens)
            BY RestIs
        <3>2. Good(i + 1)
            BY <1>3, <2>1
        <3> DEFINE t == text[i]
                   y == Rest(text, i + 1)
        <3>3. <<t>>[1] = text[i]
            OBVIOUS
        <3>4. ~Opening(<<t>>, 1)
            BY <2>3, <3>3 DEF Opening
        <3>5. t \in Tokens /\ y \in Seq(Tokens) /\ Adds(y, value, K, name)
            BY <3>1, <3>2
        <3> HIDE DEF t, y
        <3>6. Adds(<<t>> \o y, value, K, name)
            BY <3>4, <3>5, AddsAtToken
        <3> QED
            BY <3>1, <3>6, Zenon DEF t, y
    <2>4. CASE Opening(text, i) /\ \A n \in KnownPlaceholder : ~StartsAt(text, i, n)
        <3> DEFINE r == Rest(text, i)
        <3>1. r \in Seq(Tokens)
            BY RestIs
        <3>2. \A k \in 1..Len(r) : \A n : ~StartsAt(r, k, n)
            BY <2>4, NothingAfter
        <3> HIDE DEF r
        <3>3. Adds(r, value, K, name)
            BY <3>1, <3>2, AddsToNone
        <3> QED
            BY <3>3 DEF r
    <2> QED
        BY <2>2, <2>3, <2>4
<1>4. \A i \in 1..(N + 1) : (\A j \in (i + 1)..(N + 1) : j \in S) => i \in S
    <2> TAKE i \in 1..(N + 1)
    <2> HAVE \A j \in (i + 1)..(N + 1) : j \in S
    <2> HIDE DEF Good
    <2>1. i = N + 1 \/ i \in 1..N
        BY <1>1
    <2>2. i \in 1..N => Good(i)
        BY <1>3
    <2> QED
        BY <1>2, <2>1, <2>2
<1>5. \A i \in 1..(N + 1) : i \in S
    <2> HIDE DEF S, N
    <2>1. 1 \in Nat /\ N + 1 \in Nat
        BY <1>1
    <2> QED
        BY <1>4, <2>1, Downwards
<1>6. Good(1)
    <2>1. 1 \in 1..(N + 1)
        BY <1>1
    <2> QED
        BY <1>5, <2>1
<1> QED
    BY <1>6, RestEnds

\* What FilledAtOnce says of a text from each place on, given what it says of
\* later ones.
Filling(text, value, g) ==
    [i \in 1..(Len(text) + 1) |->
        IF i > Len(text) THEN << >>
        ELSE LET names == {n \in KnownPlaceholder : StartsAt(text, i, n)} IN
             IF names = {} THEN <<text[i]>> \o g[i + 1]
             ELSE value[CHOOSE n \in names : TRUE] \o g[i + 3]]

\* The pass goes by the same steps.
LEMMA FillingStep ==
    ASSUME NEW text \in Seq(Tokens), NEW value, Texts(value), NEW i \in 1..(Len(text) + 1),
           NEW g, \A j \in (i + 1)..(Len(text) + 1) :
                     g[j] = OnePass(Rest(text, j), value, KnownPlaceholder)
    PROVE  Filling(text, value, g)[i] = OnePass(Rest(text, i), value, KnownPlaceholder)
<1> DEFINE N == Len(text)
           K == KnownPlaceholder
           names == {n \in K : StartsAt(text, i, n)}
           P(j) == OnePass(Rest(text, j), value, K)
<1>1. N \in Nat /\ K \in SUBSET KnownPlaceholder
    OBVIOUS
<1>2. CASE i = N + 1
    <2>1. << >> \in Seq(Tokens) /\ \A k \in 1..Len(<< >>) : FALSE
        BY EmptySeq
    <2>2. OnePass(<< >>, value, K) = << >>
        BY <2>1, PassOfNone
    <2>3. Rest(text, i) = << >>
        BY <1>2, RestEnds
    <2>4. i > N
        BY <1>1, <1>2
    <2>5. Filling(text, value, g)[i] = << >>
        BY <2>4, Zenon DEF Filling
    <2> QED
        BY <2>2, <2>3, <2>5
<1>3. CASE i # N + 1
    <2>1. i \in 1..N /\ ~(i > N) /\ i + 1 \in (i + 1)..(N + 1)
        BY <1>1, <1>3
    <2>2. Filling(text, value, g)[i]
             = IF names = {} THEN <<text[i]>> \o g[i + 1]
               ELSE value[CHOOSE n \in names : TRUE] \o g[i + 3]
        BY <2>1, Zenon DEF Filling
    <2>3. CASE names = {}
        <3>1. ~Starts(text, i, K)
            BY <2>3 DEF Starts
        <3>2. g[i + 1] = P(i + 1)
            BY <2>1
        <3>3. P(i) = <<text[i]>> \o P(i + 1)
            BY <1>1, <2>1, <3>1, RestToken
        <3> HIDE DEF names
        <3> QED
            BY <2>2, <2>3, <3>2, <3>3, Zenon
    <2>4. CASE names # {}
        <3> DEFINE n == CHOOSE m \in names : TRUE
        <3>1. n \in names
            BY <2>4
        <3>2. n \in K /\ StartsAt(text, i, n)
            BY <3>1
        <3> HIDE DEF n, names
        <3>3. i + 3 \in (i + 1)..(N + 1) /\ P(i) = value[n] \o P(i + 3)
            BY <1>1, <2>1, <3>2, RestPlaceholder
        <3>4. g[i + 3] = P(i + 3)
            BY <3>3
        <3> QED
            BY <2>2, <2>4, <3>3, <3>4, Zenon DEF n
    <2> QED
        BY <2>3, <2>4
<1> QED
    BY <1>2, <1>3

\* The function that FilledAtOnce is defined by exists, and is the pass.
LEMMA FillingIsOnePass ==
    ASSUME NEW text \in Seq(Tokens), NEW value, Texts(value)
    PROVE  (CHOOSE g : g = Filling(text, value, g))[1]
              = OnePass(text, value, KnownPlaceholder)
<1> DEFINE N == Len(text)
           P(i) == OnePass(Rest(text, i), value, KnownPlaceholder)
           C == [i \in 1..(N + 1) |-> P(i)]
           G == CHOOSE g : g = Filling(text, value, g)
<1>1. N \in Nat
    OBVIOUS
<1>2. C = Filling(text, value, C)
    <2>1. ASSUME NEW i \in 1..(N + 1) PROVE Filling(text, value, C)[i] = P(i)
        <3>1. \A j \in (i + 1)..(N + 1) : j \in 1..(N + 1)
            BY <1>1
        <3>2. \A j \in (i + 1)..(N + 1) : C[j] = P(j)
            BY <3>1
        <3> HIDE DEF C
        <3> QED
            BY <3>2, FillingStep
    <2> QED
        BY <2>1, Zenon DEF Filling
<1>3. G = Filling(text, value, G)
    <2> HIDE DEF C
    <2>1. \E g : g = Filling(text, value, g)
        BY <1>2, Zenon
    <2> QED
        BY <2>1, Zenon
<1> HIDE DEF G
<1> DEFINE S == {i \in 1..(N + 1) : G[i] = P(i)}
<1>4. ASSUME NEW i \in 1..(N + 1), \A j \in (i + 1)..(N + 1) : j \in S
      PROVE  i \in S
    <2>1. \A j \in (i + 1)..(N + 1) : G[j] = P(j)
        BY <1>4
    <2>2. Filling(text, value, G)[i] = P(i)
        <3> HIDE DEF S
        <3> QED
            BY <2>1, FillingStep
    <2> QED
        BY <1>3, <2>2, Zenon
<1>5. \A i \in 1..(N + 1) : i \in S
    <2>1. \A i \in 1..(N + 1) : (\A j \in (i + 1)..(N + 1) : j \in S) => i \in S
        BY <1>4
    <2> HIDE DEF S, N
    <2>2. 1 \in Nat /\ N + 1 \in Nat
        BY <1>1
    <2> QED
        BY <2>1, <2>2, Downwards
<1>6. G[1] = P(1)
    <2>1. 1 \in 1..(N + 1)
        BY <1>1
    <2> QED
        BY <1>5, <2>1
<1> QED
    BY <1>6, RestEnds DEF G

Filled(text, value, name) == Replace(text, name, value[name])

\* A text without braces to open stays.
LEMMA NothingToFill ==
    ASSUME NEW text \in Seq(Tokens), Unopened(text), NEW value, Texts(value),
           NEW name \in KnownPlaceholder
    PROVE  Filled(text, value, name) = text
<1> DEFINE J == {name}
<1>1. J \in SUBSET KnownPlaceholder
    OBVIOUS
<1>2. Filled(text, value, name) = OnePass(text, value, J)
    BY ReplaceIsPass DEF Filled
<1> HIDE DEF J
<1>3. \A i \in 1..Len(text) : ~Starts(text, i, J)
    BY StartsToken DEF Unopened, Starts
<1>4. OnePass(text, value, J) = text
    BY <1>1, <1>3, PassOfNone
<1> QED
    BY <1>2, <1>4

\* One replacement after the pass for K, when it replaces by what there was in
\* the beginning.
OneMore(text, value, v, K, name) ==
    LET after == Then(v, K, name) IN
    /\ Filled(OnePass(text, v, K), value, name) = OnePass(text, after, K \cup {name})
    /\ Texts(after)
    /\ \A n \in K : after[n] = Filled(v[n], value, name)
    /\ \A n \in KnownPlaceholder \ K : after[n] = v[n]
    /\ Whole(v[name]) => \A n \in K : Whole(after[n])

LEMMA OneMoreFilled ==
    ASSUME NEW text \in Seq(Tokens), FilledFrom(text, 1, KnownPlaceholder),
           NEW value, NEW v, Texts(v),
           NEW K \in SUBSET KnownPlaceholder, AllWhole(v, K),
           NEW name \in KnownPlaceholder, name \notin K, v[name] = value[name]
    PROVE  OneMore(text, value, v, K, name)
<1> DEFINE after == Then(v, K, name)
           J == {name}
           s == OnePass(text, v, K)
<1>1. J \in SUBSET KnownPlaceholder
    OBVIOUS
<1>2. s \in Seq(Tokens)
    BY PiecesAreTexts
<1>3. /\ Texts(after)
      /\ \A n \in K : after[n] = OnePass(v[n], v, J)
      /\ \A n \in KnownPlaceholder \ K : after[n] = v[n]
    BY ThenIs
<1>4. OnePass(s, v, J) = OnePass(text, after, K \cup J)
    BY AddsOneMore DEF Adds
<1>5. \A t \in Seq(Tokens) : Filled(t, value, name) = OnePass(t, v, J)
    <2> TAKE t \in Seq(Tokens)
    <2>1. Replace(t, name, v[name]) = OnePass(t, v, {name})
        BY ReplaceIsPass
    <2> QED
        BY <2>1, Zenon DEF Filled
<1> HIDE DEF after, J, s
<1>6. Filled(s, value, name) = OnePass(text, after, K \cup J)
    BY <1>2, <1>4, <1>5
<1>7. \A n \in K : after[n] = Filled(v[n], value, name)
    <2> TAKE n \in K
    <2>1. v[n] \in Seq(Tokens)
        BY DEF Texts
    <2> QED
        BY <1>3, <1>5, <2>1, Zenon
<1>8. ASSUME Whole(v[name]), NEW n \in K PROVE Whole(after[n])
    <2>1. v[n] \in Seq(Tokens) /\ Whole(v[n])
        BY DEF Texts, AllWhole
    <2>2. \A m \in J : Whole(v[m])
        BY <1>8 DEF J
    <2> DEFINE x == v[n]
    <2>3. x \in Seq(Tokens) /\ Whole(x)
        BY <2>1
    <2> HIDE DEF x
    <2>4. Whole(OnePass(x, v, J))
        BY <1>1, <2>2, <2>3, PassKeepsWhole
    <2>5. after[n] = OnePass(x, v, J)
        BY <1>3 DEF x
    <2> QED
        BY <2>4, <2>5
<1> QED
    BY <1>3, <1>6, <1>7, <1>8, SMTT(30) DEF OneMore, after, J, s

\* The pass looks at the values of its names only.
LEMMA SamePass ==
    ASSUME NEW text, NEW v, NEW w, NEW K, \A n \in K : v[n] = w[n]
    PROVE  OnePass(text, v, K) = OnePass(text, w, K)
<1>1. \A i : Starts(text, i, K) => StartedAt(text, i, K) \in K
    BY DEF Starts, StartedAt
<1>2. \A i : Piece(text, v, K, i) = Piece(text, w, K, i)
    BY <1>1, Zenon DEF Piece
<1>3. Pieces(text, v, K) = Pieces(text, w, K)
    BY <1>2 DEF Pieces
<1> QED
    BY <1>3 DEF OnePass

\* The placeholders, in the order of their replacements.
InOrder(a, b, c, d, e) ==
    /\ KnownPlaceholder = {a, b, c, d, e}
    /\ a \notin {b, c, d, e} /\ b \notin {c, d, e} /\ c \notin {d, e} /\ d # e

FiveFilled(text, value, a, b, c, d, e) ==
    Filled(Filled(Filled(Filled(Filled(text, value, a), value, b), value, c), value, d), value, e)

\* What the values come to when b and c alone bring placeholders that matter.
Become(filled, value, a, b, c, d, e) ==
    /\ filled[a] = value[a] /\ filled[d] = value[d] /\ filled[e] = value[e]
    /\ filled[b] = Filled(Filled(Filled(value[b], value, c), value, d), value, e)
    /\ filled[c] = Filled(Filled(value[c], value, d), value, e)

\* Five replacements of an accepted text are one pass over it, with what the
\* values themselves come to.
LEMMA FiveAreOnePass ==
    ASSUME NEW a, NEW b, NEW c, NEW d, NEW e, InOrder(a, b, c, d, e),
           NEW text \in Seq(Tokens), FilledFrom(text, 1, KnownPlaceholder),
           NEW value, Texts(value), Unopened(value[a]), Unopened(value[d]),
           Whole(value[b]), Whole(value[c]),
           NEW filled, Become(filled, value, a, b, c, d, e)
    PROVE  /\ Texts(filled)
           /\ FiveFilled(text, value, a, b, c, d, e) = OnePass(text, filled, KnownPlaceholder)
<1> DEFINE F(t, n) == Filled(t, value, n)
           K1 == {a}
           K2 == K1 \cup {b}
           K3 == K2 \cup {c}
           K4 == K3 \cup {d}
           K5 == K4 \cup {e}
           v1 == Then(value, K1, b)
           v2 == Then(v1, K2, c)
           v3 == Then(v2, K3, d)
           v4 == Then(v3, K4, e)
<1>1. /\ a \in KnownPlaceholder /\ b \in KnownPlaceholder /\ c \in KnownPlaceholder
      /\ d \in KnownPlaceholder /\ e \in KnownPlaceholder
      /\ K1 \in SUBSET KnownPlaceholder /\ K2 \in SUBSET KnownPlaceholder
      /\ K3 \in SUBSET KnownPlaceholder /\ K4 \in SUBSET KnownPlaceholder
      /\ K5 = KnownPlaceholder
    BY DEF InOrder
<1>2. /\ b \in KnownPlaceholder \ K1 /\ c \in KnownPlaceholder \ K1
      /\ d \in KnownPlaceholder \ K1 /\ e \in KnownPlaceholder \ K1
      /\ c \in KnownPlaceholder \ K2 /\ d \in KnownPlaceholder \ K2
      /\ e \in KnownPlaceholder \ K2
      /\ d \in KnownPlaceholder \ K3 /\ e \in KnownPlaceholder \ K3
      /\ e \in KnownPlaceholder \ K4
    BY DEF InOrder
<1>3. /\ a \in K1 /\ a \in K2 /\ a \in K3 /\ a \in K4
      /\ b \in K2 /\ b \in K3 /\ b \in K4 /\ c \in K3 /\ c \in K4 /\ d \in K4
    OBVIOUS
<1>4. /\ K2 = K1 \cup {b} /\ K3 = K2 \cup {c} /\ K4 = K3 \cup {d} /\ K5 = K4 \cup {e}
    OBVIOUS
<1>5. Whole(value[a]) /\ Whole(value[d])
    BY UnopenedIsWhole
<1>6. \A n \in KnownPlaceholder : value[n] \in Seq(Tokens)
    BY DEF Texts
<1>7. F(text, a) = OnePass(text, value, K1)
    BY ReplaceIsPass DEF Filled
<1>8. \A n \in KnownPlaceholder : F(value[a], n) = value[a] /\ F(value[d], n) = value[d]
    <2> DEFINE x == value[a]
               y == value[d]
    <2>1. x \in Seq(Tokens) /\ y \in Seq(Tokens) /\ Unopened(x) /\ Unopened(y)
        BY <1>1, <1>6
    <2> HIDE DEF x, y
    <2> TAKE n \in KnownPlaceholder
    <2>2. F(x, n) = x /\ F(y, n) = y
        BY <2>1, NothingToFill
    <2> QED
        BY <2>2 DEF x, y
<1>9. \A n \in K1 : Whole(value[n])
    BY <1>5
<1> HIDE DEF K1, K2, K3, K4, K5
<1>10. /\ F(OnePass(text, value, K1), b) = OnePass(text, v1, K2)
      /\ Texts(v1) /\ v1[a] = F(value[a], b)
      /\ v1[b] = value[b] /\ v1[c] = value[c] /\ v1[d] = value[d] /\ v1[e] = value[e]
      /\ \A n \in K2 : Whole(v1[n])
    <2>1. AllWhole(value, K1)
        BY <1>9 DEF AllWhole
    <2>2. OneMore(text, value, value, K1, b)
        BY <1>1, <1>2, <2>1, OneMoreFilled
    <2>3. /\ Filled(OnePass(text, value, K1), value, b) = OnePass(text, v1, K1 \cup {b})
          /\ Texts(v1)
          /\ \A n \in K1 : v1[n] = Filled(value[n], value, b)
          /\ \A n \in KnownPlaceholder \ K1 : v1[n] = value[n]
          /\ Whole(value[b]) => \A n \in K1 : Whole(v1[n])
        BY <2>2, Zenon DEF OneMore
    <2> HIDE DEF v1
    <2>4. v1[a] = F(value[a], b)
        BY <1>3, <2>3, Zenon
    <2>5. v1[b] = value[b] /\ v1[c] = value[c] /\ v1[d] = value[d] /\ v1[e] = value[e]
        BY <1>2, <2>3, Zenon
    <2>6. \A n \in K2 : Whole(v1[n])
        BY <1>4, <2>3, <2>5
    <2> QED
        BY <1>4, <2>3, <2>4, <2>5, <2>6, Zenon
<1> HIDE DEF v1
<1>11. /\ F(OnePass(text, v1, K2), c) = OnePass(text, v2, K3)
       /\ Texts(v2) /\ v2[a] = F(v1[a], c) /\ v2[b] = F(v1[b], c)
       /\ v2[c] = v1[c] /\ v2[d] = v1[d] /\ v2[e] = v1[e]
       /\ \A n \in K3 : Whole(v2[n])
    <2>1. AllWhole(v1, K2)
        BY <1>10 DEF AllWhole
    <2>2. /\ Texts(v1) /\ v1[c] = value[c] /\ c \in KnownPlaceholder /\ c \notin K2
          /\ K2 \in SUBSET KnownPlaceholder
        BY <1>1, <1>2, <1>10
    <2>3. OneMore(text, value, v1, K2, c)
        BY <2>2, <2>1, OneMoreFilled
    <2>4. /\ Filled(OnePass(text, v1, K2), value, c) = OnePass(text, v2, K2 \cup {c})
          /\ Texts(v2)
          /\ \A n \in K2 : v2[n] = Filled(v1[n], value, c)
          /\ \A n \in KnownPlaceholder \ K2 : v2[n] = v1[n]
          /\ Whole(v1[c]) => \A n \in K2 : Whole(v2[n])
        BY <2>3, Zenon DEF OneMore
    <2> HIDE DEF v2
    <2>5. v2[a] = F(v1[a], c) /\ v2[b] = F(v1[b], c)
        BY <1>3, <2>4, Zenon
    <2>6. v2[c] = v1[c] /\ v2[d] = v1[d] /\ v2[e] = v1[e]
        BY <1>2, <2>4, Zenon
    <2>7. \A n \in K3 : Whole(v2[n])
        BY <1>4, <1>10, <2>4, <2>6
    <2> QED
        BY <1>4, <2>4, <2>5, <2>6, <2>7, Zenon
<1> HIDE DEF v2
<1>12. /\ F(OnePass(text, v2, K3), d) = OnePass(text, v3, K4)
       /\ Texts(v3) /\ v3[a] = F(v2[a], d) /\ v3[b] = F(v2[b], d) /\ v3[c] = F(v2[c], d)
       /\ v3[d] = v2[d] /\ v3[e] = v2[e]
       /\ \A n \in K4 : Whole(v3[n])
    <2>1. AllWhole(v2, K3)
        BY <1>11 DEF AllWhole
    <2>2. /\ Texts(v2) /\ v2[d] = value[d] /\ d \in KnownPlaceholder /\ d \notin K3
          /\ K3 \in SUBSET KnownPlaceholder
        BY <1>1, <1>2, <1>10, <1>11
    <2>3. OneMore(text, value, v2, K3, d)
        BY <2>2, <2>1, OneMoreFilled
    <2>4. /\ Filled(OnePass(text, v2, K3), value, d) = OnePass(text, v3, K3 \cup {d})
          /\ Texts(v3)
          /\ \A n \in K3 : v3[n] = Filled(v2[n], value, d)
          /\ \A n \in KnownPlaceholder \ K3 : v3[n] = v2[n]
          /\ Whole(v2[d]) => \A n \in K3 : Whole(v3[n])
        BY <2>3, Zenon DEF OneMore
    <2>5. Whole(v2[d])
        BY <1>5, <1>10, <1>11
    <2> HIDE DEF v3
    <2>6. v3[a] = F(v2[a], d) /\ v3[b] = F(v2[b], d) /\ v3[c] = F(v2[c], d)
        BY <1>3, <2>4, Zenon
    <2>7. v3[d] = v2[d] /\ v3[e] = v2[e]
        BY <1>2, <2>4, Zenon
    <2>8. \A n \in K4 : Whole(v3[n])
        BY <1>4, <2>5, <2>4, <2>7
    <2> QED
        BY <1>4, <2>4, <2>6, <2>7, <2>8, Zenon
<1> HIDE DEF v3
<1>13. /\ F(OnePass(text, v3, K4), e) = OnePass(text, v4, K5)
       /\ v4[a] = F(v3[a], e) /\ v4[b] = F(v3[b], e) /\ v4[c] = F(v3[c], e)
       /\ v4[d] = F(v3[d], e) /\ v4[e] = v3[e]
       /\ Texts(v4)
    <2>1. AllWhole(v3, K4)
        BY <1>12 DEF AllWhole
    <2>2. /\ Texts(v3) /\ v3[e] = value[e] /\ e \in KnownPlaceholder /\ e \notin K4
          /\ K4 \in SUBSET KnownPlaceholder
        BY <1>1, <1>2, <1>10, <1>11, <1>12
    <2>3. OneMore(text, value, v3, K4, e)
        BY <2>2, <2>1, OneMoreFilled
    <2>4. /\ Filled(OnePass(text, v3, K4), value, e) = OnePass(text, v4, K4 \cup {e})
          /\ Texts(v4)
          /\ \A n \in K4 : v4[n] = Filled(v3[n], value, e)
          /\ \A n \in KnownPlaceholder \ K4 : v4[n] = v3[n]
        BY <2>3, Zenon DEF OneMore
    <2> HIDE DEF v4
    <2>5. v4[a] = F(v3[a], e) /\ v4[b] = F(v3[b], e) /\ v4[c] = F(v3[c], e) /\ v4[d] = F(v3[d], e)
        BY <1>3, <2>4, Zenon
    <2>6. v4[e] = v3[e]
        BY <1>2, <2>4, Zenon
    <2> QED
        BY <1>4, <2>4, <2>5, <2>6, Zenon
<1> HIDE DEF v4
<1>14. F(F(F(F(F(text, a), b), c), d), e) = OnePass(text, v4, KnownPlaceholder)
    <2> HIDE DEF F
    <2> QED
        BY <1>1, <1>7, <1>10, <1>11, <1>12, <1>13, Zenon
<1>15. v4[a] = filled[a] /\ v4[b] = filled[b] /\ v4[c] = filled[c]
       /\ v4[d] = filled[d] /\ v4[e] = filled[e]
    <2>1. filled[b] = F(F(F(value[b], c), d), e) /\ filled[c] = F(F(value[c], d), e)
           /\ filled[a] = value[a] /\ filled[d] = value[d] /\ filled[e] = value[e]
        BY DEF Become
    <2> HIDE DEF F
    <2>2. v4[a] = F(F(F(F(value[a], b), c), d), e)
        BY <1>10, <1>11, <1>12, <1>13, Zenon
    <2>3. v4[a] = value[a]
        BY <1>1, <1>8, <2>2, Zenon
    <2>4. v4[b] = F(F(F(value[b], c), d), e)
        BY <1>10, <1>11, <1>12, <1>13, Zenon
    <2>5. v4[c] = F(F(value[c], d), e)
        BY <1>10, <1>11, <1>12, <1>13, Zenon
    <2>6. v4[d] = F(value[d], e) /\ v4[e] = value[e]
        BY <1>10, <1>11, <1>12, <1>13, Zenon
    <2>7. v4[d] = value[d]
        BY <1>1, <1>8, <2>6, Zenon
    <2> QED
        BY <2>1, <2>3, <2>4, <2>5, <2>6, <2>7, Zenon
<1>16. \A n \in KnownPlaceholder : v4[n] = filled[n]
    BY <1>15, Zenon DEF InOrder
<1>17. OnePass(text, v4, KnownPlaceholder) = OnePass(text, filled, KnownPlaceholder)
    BY <1>16, SamePass
<1>18. Texts(filled)
    BY <1>13, <1>16, Zenon DEF Texts
<1> QED
    BY <1>14, <1>17, <1>18 DEF FiveFilled

LEMMA WithoutOpening ==
    ASSUME NEW token \in Tokens, ~Opening(<<token>>, 1)
    PROVE  <<token>> \in Seq(Tokens) /\ Unopened(<<token>>)
<1>1. <<token>> \in Seq(Tokens) /\ Len(<<token>>) = 1
    OBVIOUS
<1>2. \A k \in 1..1 : k = 1
    OBVIOUS
<1> QED
    BY <1>1, <1>2, Zenon DEF Unopened

LEMMA ClosedIsWhole ==
    ASSUME NEW text \in Seq(Tokens), ClosesItsBraces(text)
    PROVE  Whole(text)
BY Zenon DEF ClosesItsBraces, Positions, Whole, Opening, Closing

\* The values of a request are texts, and the result and the address hold no
\* brace.
LEMMA ValuesAreTexts ==
    ASSUME NEW r \in SpfResult, NEW ctx, ctx.ip \in Tokens, ctx.ip # "{",
           ctx.sender \in Seq(Tokens), ctx.helo \in Seq(Tokens),
           ctx.recipient \in Seq(Tokens)
    PROVE  LET value == Values(r, ctx) IN
           /\ Texts(value)
           /\ Unopened(value["result"]) /\ Unopened(value["ip"])
           /\ value["sender"] = ctx.sender /\ value["helo"] = ctx.helo
<1> DEFINE value == Values(r, ctx)
<1>1. /\ value["result"] = <<r>> /\ value["sender"] = ctx.sender
      /\ value["helo"] = ctx.helo /\ value["ip"] = <<ctx.ip>>
      /\ value["recipient"] = ctx.recipient
    BY DEF Values
<1>2. ASSUME NEW token \in Tokens, token # "{"
      PROVE  <<token>> \in Seq(Tokens) /\ Unopened(<<token>>)
    <2>1. ~Opening(<<token>>, 1)
        <3>1. <<token>>[1] = token
            OBVIOUS
        <3> QED
            BY <1>2, <3>1, Zenon DEF Opening
    <2> QED
        BY <2>1, WithoutOpening
<1>3. r \in Tokens /\ r # "{"
    <2>1. r \in Tokens
        BY DEF Tokens, Vocabulary
    <2>2. r # "{"
        BY DEF SpfResult
    <2> QED
        BY <2>1, <2>2
<1> HIDE DEF value
<1>4. /\ value["result"] \in Seq(Tokens) /\ value["ip"] \in Seq(Tokens)
      /\ Unopened(value["result"]) /\ Unopened(value["ip"])
    BY <1>1, <1>2, <1>3
<1>5. Texts(value)
    BY <1>1, <1>4, Zenon DEF Texts, KnownPlaceholder
<1> QED
    BY <1>1, <1>4, <1>5 DEF value

\* The five replacements made one after the other give what one pass over an
\* accepted template would, whatever the template, when the braces that the
\* sender and the HELO name open are those of placeholders, known or not: the
\* placeholders they bring along are filled in by the later replacements, and
\* nothing else is touched twice (engine.rs:153-158).
THEOREM ReplacedAtOnce == Spec => []RenderIsSimultaneous
<1>1. Outputs => RenderIsSimultaneous
    <2> SUFFICES ASSUME Outputs, Templated, ValidatePlaceholders(Template),
                        ClosesItsBraces(input.ctx.sender), ClosesItsBraces(input.ctx.helo)
                 PROVE  output[1].text = FilledAtOnce
        BY DEF RenderIsSimultaneous
    <2> DEFINE r == Chosen.text.result
               messages == input.conf.messages
               value == Values(r, input.ctx)
               filled == FilledValues
               a == "result"
               b == "sender"
               c == "helo"
               d == "ip"
               e == "recipient"
               F(t, n) == Filled(t, value, n)
    <2>1. Decided /\ Chosen.verb \in {"Reject", "DeferIfPermit"}
        BY DEF Templated
    <2>2. input \in Case /\ Covers(Tokens)
        BY <2>1, DecidedIsAnswer, TokensCover
    <2>3. /\ output[1].text = Text(Chosen, input.conf, input.mail_from, input.ctx)
          /\ r \in SpfResult
        BY <2>1, AnswerParts
    <2>4. output[1].text = Render(messages, r, input.ctx)
        BY <2>1, <2>3 DEF Text
    <2>5. Template \in Seq(Tokens)
        BY <2>2, <2>3, TemplateKeeps DEF Covers, NamesIn, Template
    <2>6. FilledFrom(Template, 1, KnownPlaceholder)
        BY <2>5, AcceptedIsKnown
    <2>7. /\ Texts(value) /\ Unopened(value[a]) /\ Unopened(value[d])
          /\ Whole(value[b]) /\ Whole(value[c])
        <3>1. input.ctx.ip # "{"
            BY <2>2, CaseParts DEF Address
        <3>2. Whole(input.ctx.sender) /\ Whole(input.ctx.helo)
            BY <2>2, ClosedIsWhole DEF Covers, NamesIn
        <3> HIDE DEF r
        <3>3. /\ Texts(value) /\ Unopened(value["result"]) /\ Unopened(value["ip"])
              /\ value["sender"] = input.ctx.sender /\ value["helo"] = input.ctx.helo
            BY <2>2, <2>3, <3>1, ValuesAreTexts DEF Covers, NamesIn
        <3> HIDE DEF value
        <3> QED
            BY <3>2, <3>3
    <2>8. Template = MessageTemplate(messages, r)
        BY DEF Template
    <2>9. Render(messages, r, input.ctx) = F(F(F(F(F(Template, a), b), c), d), e)
        BY <2>8, Zenon DEF Render, Filled
    <2>10. /\ filled[a] = value[a] /\ filled[d] = value[d] /\ filled[e] = value[e]
           /\ filled[b] = F(F(F(value[b], c), d), e) /\ filled[c] = F(F(value[c], d), e)
        <3> DEFINE x == F(F(F(value[b], c), d), e)
                   y == F(F(value[c], d), e)
        <3>1. filled = [value EXCEPT !.sender = x, !.helo = y]
            BY DEF FilledValues, Filled
        <3> HIDE DEF x, y, filled
        <3>2. /\ filled["result"] = value["result"] /\ filled["ip"] = value["ip"]
              /\ filled["recipient"] = value["recipient"]
              /\ filled["sender"] = x /\ filled["helo"] = y
            BY <3>1 DEF Values
        <3> QED
            BY <3>2 DEF x, y
    <2>11. FilledAtOnce = (CHOOSE g : g = Filling(Template, filled, g))[1]
        BY Zenon DEF FilledAtOnce, Filling
    <2>12. InOrder(a, b, c, d, e)
        BY DEF KnownPlaceholder, InOrder
    <2> HIDE DEF r, messages, value, filled, a, b, c, d, e
    <2>13. Become(filled, value, a, b, c, d, e)
        BY <2>10 DEF Become
    <2>14. /\ Texts(filled)
           /\ FiveFilled(Template, value, a, b, c, d, e) = OnePass(Template, filled, KnownPlaceholder)
        BY <2>5, <2>6, <2>7, <2>12, <2>13, FiveAreOnePass
    <2>15. FilledAtOnce = OnePass(Template, filled, KnownPlaceholder)
        BY <2>5, <2>11, <2>14, FillingIsOnePass
    <2> QED
        BY <2>4, <2>9, <2>14, <2>15, Zenon DEF FiveFilled
<1> QED
    BY <1>1, OneStep, PTL

-----------------------------------------------------------------------------
(* Newlines. *)

\* The places of the newlines in a text.
Breaks(text) == Positions(text, NL, 1)

LEMMA BreaksAre ==
    ASSUME NEW T, NEW text \in Seq(T)
    PROVE  /\ Len(text) \in Nat
           /\ Breaks(text) = {i \in 1..Len(text) : text[i] = NL}
           /\ IsFiniteSet(Breaks(text)) /\ Newlines(text) = Cardinality(Breaks(text))
           /\ Newlines(text) \in Nat
<1>1. Len(text) \in Nat
    OBVIOUS
<1>2. Breaks(text) = {i \in 1..Len(text) : text[i] = NL}
    BY DEF Breaks, Positions
<1>3. IsFiniteSet(1..Len(text))
    BY <1>1, FS_Interval
<1>4. IsFiniteSet(Breaks(text))
    <2>1. Breaks(text) \in SUBSET (1..Len(text))
        BY <1>2
    <2> QED
        BY <1>3, <2>1, FS_Subset
<1>5. Newlines(text) = Cardinality(Breaks(text))
    BY DEF Newlines, Breaks
<1>6. Cardinality(Breaks(text)) \in Nat
    BY <1>4, FS_CardinalityType
<1> QED
    BY <1>1, <1>2, <1>4, <1>5, <1>6

\* Texts whose newlines can be told off against each other have as many.
LEMMA AsManyNewlines ==
    ASSUME NEW T, NEW s \in Seq(T), NEW t \in Seq(T), NEW f \in [Breaks(s) -> Breaks(t)],
           \A i, j \in Breaks(s) : i # j => f[i] # f[j],
           \A k \in Breaks(t) : \E i \in Breaks(s) : f[i] = k
    PROVE  Newlines(t) = Newlines(s)
<1>1. f \in Bijection(Breaks(s), Breaks(t))
    BY DEF Bijection, Injection, Surjection, IsInjective
<1>2. ExistsBijection(Breaks(s), Breaks(t))
    BY <1>1 DEF ExistsBijection
<1>3. IsFiniteSet(Breaks(s))
    BY BreaksAre
<1>4. Cardinality(Breaks(t)) = Cardinality(Breaks(s))
    BY <1>2, <1>3, FS_Bijection
<1> QED
    BY <1>4, BreaksAre

LEMMA NoNewlines ==
    ASSUME NEW T, NEW text \in Seq(T), NL \notin T
    PROVE  Newlines(text) = 0
<1>1. Breaks(text) = {}
    BY BreaksAre
<1>2. Cardinality(Breaks(text)) = 0
    BY <1>1, FS_EmptySet
<1> QED
    BY <1>2, BreaksAre

LEMMA NewlinesAdd ==
    ASSUME NEW T, NEW s \in Seq(T), NEW t \in Seq(T)
    PROVE  Newlines(s \o t) = Newlines(s) + Newlines(t)
<1> DEFINE n == Len(s)
           Shifted == {i \in (n + 1)..(n + Len(t)) : t[i - n] = NL}
           f == [i \in Breaks(t) |-> n + i]
<1>1. n \in Nat /\ Len(t) \in Nat
    OBVIOUS
<1>2. /\ Breaks(s) = {i \in 1..n : s[i] = NL}
      /\ Breaks(t) = {i \in 1..Len(t) : t[i] = NL}
      /\ IsFiniteSet(Breaks(s)) /\ IsFiniteSet(Breaks(t))
      /\ Newlines(s) = Cardinality(Breaks(s)) /\ Newlines(t) = Cardinality(Breaks(t))
      /\ Newlines(s) \in Nat /\ Newlines(t) \in Nat
    BY BreaksAre
<1>3. /\ s \o t \in Seq(T) /\ Len(s \o t) = n + Len(t)
      /\ \A i \in 1..(n + Len(t)) : (s \o t)[i] = IF i <= n THEN s[i] ELSE t[i - n]
    OBVIOUS
<1>4. /\ Breaks(s \o t) = {i \in 1..Len(s \o t) : (s \o t)[i] = NL}
      /\ Newlines(s \o t) = Cardinality(Breaks(s \o t))
    BY <1>3, BreaksAre
<1>5. Breaks(s \o t) = Breaks(s) \cup Shifted
    BY <1>1, <1>2, <1>3, <1>4
<1>6. Breaks(s) \cap Shifted = {}
    BY <1>1, <1>2
<1>7. IsFiniteSet(Shifted) /\ Cardinality(Shifted) = Cardinality(Breaks(t))
    <2>1. f \in [Breaks(t) -> Shifted]
        BY <1>1, <1>2
    <2>2. \A i, j \in Breaks(t) : i # j => f[i] # f[j]
        BY <1>1, <1>2
    <2>3. \A k \in Shifted : \E i \in Breaks(t) : f[i] = k
        <3> TAKE k \in Shifted
        <3>1. k - n \in Breaks(t) /\ n + (k - n) = k
            BY <1>1, <1>2
        <3>2. f[k - n] = k
            BY <3>1
        <3> QED
            BY <3>1, <3>2
    <2> HIDE DEF f, Shifted
    <2>4. f \in Bijection(Breaks(t), Shifted)
        BY <2>1, <2>2, <2>3 DEF Bijection, Injection, Surjection, IsInjective
    <2>5. ExistsBijection(Breaks(t), Shifted)
        BY <2>4 DEF ExistsBijection
    <2> QED
        BY <1>2, <2>5, FS_Bijection
<1> HIDE DEF Shifted
<1>8. Cardinality(Breaks(s) \cup Shifted)
         = Cardinality(Breaks(s)) + Cardinality(Shifted) - Cardinality(Breaks(s) \cap Shifted)
    BY <1>2, <1>7, FS_Union
<1>9. Cardinality(Breaks(s) \cap Shifted) = 0
    BY <1>6, FS_EmptySet
<1>10. Newlines(s \o t) = Newlines(s) + Newlines(t) - 0
    <2>1. Newlines(s \o t) = Cardinality(Breaks(s) \cup Shifted)
        BY <1>4, <1>5
    <2>2. Cardinality(Breaks(s)) = Newlines(s) /\ Cardinality(Shifted) = Newlines(t)
        BY <1>2, <1>7
    <2> QED
        BY <1>8, <1>9, <2>1, <2>2, Zenon
<1> QED
    BY <1>2, <1>10

LEMMA NewlineIsItself ==
    /\ NL # "{" /\ NL # "}" /\ \A name \in KnownPlaceholder : name # NL
<1>1. NL # "{" /\ NL # "}"
    BY DEF NL
<1>2. NL \notin KnownPlaceholder
    BY DEF NL, KnownPlaceholder
<1> QED
    BY <1>1, <1>2

\* A newline of the text is a part of its own, and there is none in the others.
LEMMA PartWithNewline ==
    ASSUME NEW text \in Seq(Tokens), NEW name \in KnownPlaceholder,
           NEW value \in Seq(Tokens \ {NL}), NEW i \in 1..Len(text)
    PROVE  /\ PartOf(text, name, value, i) \in Seq(Tokens)
           /\ text[i] = NL => PartOf(text, name, value, i) = <<text[i]>>
           /\ \A o \in 1..Len(PartOf(text, name, value, i)) :
                 PartOf(text, name, value, i)[o] = NL => text[i] = NL /\ o = 1
<1>1. CASE StartsAt(text, i, name)
    <2>1. text[i] # NL
        BY <1>1, StartsToken, NewlineIsItself DEF Opening
    <2>2. PartOf(text, name, value, i) = value
        BY <1>1, Zenon DEF PartOf
    <2>3. value \in Seq(Tokens) /\ \A o \in 1..Len(value) : value[o] # NL
        OBVIOUS
    <2> QED
        BY <2>1, <2>2, <2>3
<1>2. CASE ~StartsAt(text, i, name) /\ \E j \in {i - 2, i - 1} \cap DOMAIN text :
                                          StartsAt(text, j, name)
    <2>1. PICK j \in {i - 2, i - 1} \cap DOMAIN text : StartsAt(text, j, name)
        BY <1>2
    <2>2. j \in 1..Len(text) /\ text[j + 1] = name /\ Closing(text, j + 2)
        BY <2>1, StartsToken
    <2>3. i = j + 1 \/ i = j + 2
        BY <2>1
    <2>4. text[i] # NL
        BY <2>2, <2>3, NewlineIsItself DEF Closing
    <2>5. PartOf(text, name, value, i) = << >>
        BY <1>2, Zenon DEF PartOf
    <2>6. << >> \in Seq(Tokens) /\ 1..Len(<< >>) = {}
        OBVIOUS
    <2> QED
        BY <2>4, <2>5, <2>6
<1>3. CASE ~StartsAt(text, i, name) /\ ~\E j \in {i - 2, i - 1} \cap DOMAIN text :
                                           StartsAt(text, j, name)
    <2>1. PartOf(text, name, value, i) = <<text[i]>>
        BY <1>3, Zenon DEF PartOf
    <2>2. /\ <<text[i]>> \in Seq(Tokens) /\ 1..Len(<<text[i]>>) = {1}
          /\ <<text[i]>>[1] = text[i]
        OBVIOUS
    <2> QED
        BY <2>1, <2>2
<1> QED
    BY <1>1, <1>2, <1>3

\* A replacement moves the newlines of a text and adds none.
LEMMA ReplaceKeepsNewlines ==
    ASSUME NEW text \in Seq(Tokens), NEW name \in KnownPlaceholder,
           NEW value \in Seq(Tokens \ {NL})
    PROVE  /\ Replace(text, name, value) \in Seq(Tokens)
           /\ Newlines(Replace(text, name, value)) = Newlines(text)
<1> DEFINE P(i) == PartOf(text, name, value, i)
           N == Len(text)
           parts == [i \in 1..N |-> P(i)]
           s == Replace(text, name, value)
<1>1. N \in Nat /\ DOMAIN text = 1..N
    OBVIOUS
<1>2. \A i \in 1..N : P(i) \in Seq(Tokens)
    BY PartWithNewline
<1>3. parts \in Seq(Seq(Tokens)) /\ Len(parts) = N
    <2> HIDE DEF P
    <2> QED
        BY <1>1, <1>2
<1>4. s = FlattenSeq(parts)
    BY <1>1, Zenon DEF Replace, PartOf
<1>5. \A i \in 1..N : parts[i] = P(i)
    OBVIOUS
<1> DEFINE len == [i \in 1..N |-> Len(parts[i])]
<1> HIDE DEF parts, s
<1>6. s \in Seq(Tokens)
    BY <1>3, <1>4, FlattenPlaces
<1>7. \A i \in 1..N : /\ Len(parts[i]) \in Nat
                      /\ text[i] = NL => parts[i] = <<text[i]>>
                      /\ \A o \in 1..Len(parts[i]) : parts[i][o] = NL => text[i] = NL /\ o = 1
    <2>1. ASSUME NEW i \in 1..N
          PROVE  /\ Len(P(i)) \in Nat
                 /\ text[i] = NL => P(i) = <<text[i]>>
                 /\ \A o \in 1..Len(P(i)) : P(i)[o] = NL => text[i] = NL /\ o = 1
        <3>1. /\ P(i) \in Seq(Tokens)
              /\ text[i] = NL => P(i) = <<text[i]>>
              /\ \A o \in 1..Len(P(i)) : P(i)[o] = NL => text[i] = NL /\ o = 1
            BY PartWithNewline, ZenonT(30)
        <3> HIDE DEF P
        <3> QED
            BY <3>1
    <2> HIDE DEF P
    <2> QED
        BY <1>5, <2>1
<1> HIDE DEF P
<1>8. PICK off \in [0..N -> Nat] :
          /\ off[0] = 0 /\ off[N] = Len(s)
          /\ \A i \in 1..N : off[i] = off[i - 1] + Len(parts[i])
          /\ \A i \in 1..N : \A o \in 1..Len(parts[i]) : s[off[i - 1] + o] = parts[i][o]
    <2> DEFINE M == Len(parts)
               flat == FlattenSeq(parts)
    <2>1. \E off \in [0..M -> Nat] :
                 /\ off[0] = 0 /\ off[M] = Len(flat)
                 /\ \A i \in 1..M : off[i] = off[i - 1] + Len(parts[i])
                 /\ \A i \in 1..M : \A o \in 1..Len(parts[i]) :
                       flat[off[i - 1] + o] = parts[i][o]
        BY <1>3, FlattenPlaces
    <2>2. M = N /\ flat = s
        BY <1>3, <1>4
    <2> HIDE DEF M, N, flat
    <2> QED
        BY <2>1, <2>2
<1>9. len \in [1..N -> Nat] /\ \A i \in 1..N : len[i] = Len(parts[i])
    BY <1>7
<1> HIDE DEF len
<1>10. \A i \in 1..N : off[i] = off[i - 1] + len[i]
    BY <1>8, <1>9
<1>11. \A i, j \in 0..N : i <= j => off[i] <= off[j]
    BY <1>1, <1>9, <1>10, OffsetsGrow
<1>12. \A k \in 1..Len(s) : \E i \in 1..N : \E o \in 1..Len(parts[i]) : k = off[i - 1] + o
    <2> TAKE k \in 1..Len(s)
    <2>1. k \in 1..off[N]
        BY <1>8
    <2>2. \E i \in 1..N : \E o \in 1..len[i] : k = off[i - 1] + o
        BY <1>1, <1>8, <1>9, <1>10, <2>1, FlattenFrom
    <2> QED
        BY <1>9, <2>2
<1>13. /\ Breaks(text) = {i \in 1..N : text[i] = NL}
       /\ Breaks(s) = {k \in 1..Len(s) : s[k] = NL}
    BY <1>6, BreaksAre
<1>14. ASSUME NEW i \in Breaks(text)
       PROVE  /\ i \in 1..N /\ off[i] = off[i - 1] + 1 /\ off[i - 1] \in Nat
              /\ off[i - 1] + 1 \in Breaks(s)
    <2>1. i \in 1..N /\ text[i] = NL /\ i - 1 \in 0..N
        BY <1>1, <1>13
    <2>2. parts[i] = <<text[i]>>
        BY <1>7, <2>1
    <2>3. Len(<<text[i]>>) = 1 /\ <<text[i]>>[1] = text[i] /\ 1 \in 1..1
        OBVIOUS
    <2>4. off[i] = off[i - 1] + 1 /\ s[off[i - 1] + 1] = NL
        BY <1>8, <2>1, <2>2, <2>3
    <2>5. off[i] <= off[N] /\ off[i - 1] \in Nat
        BY <1>1, <1>8, <1>11, <2>1
    <2>6. off[i - 1] + 1 \in 1..Len(s)
        BY <1>8, <2>4, <2>5, <1>6
    <2> QED
        BY <1>13, <2>1, <2>4, <2>5, <2>6
<1> DEFINE f == [i \in Breaks(text) |-> off[i - 1] + 1]
<1>15. f \in [Breaks(text) -> Breaks(s)]
    BY <1>14
<1>16. ASSUME NEW i \in Breaks(text), NEW j \in Breaks(text), i < j
       PROVE  f[i] # f[j]
    <2>1. i \in 0..N /\ j - 1 \in 0..N /\ i <= j - 1
        BY <1>1, <1>14, <1>16
    <2>2. off[i] <= off[j - 1] /\ off[i] = off[i - 1] + 1
        BY <1>11, <1>14, <2>1
    <2>3. off[i - 1] \in Nat /\ off[j - 1] \in Nat
        BY <1>14
    <2> QED
        BY <2>2, <2>3
<1>17. \A i, j \in Breaks(text) : i # j => f[i] # f[j]
    <2> TAKE i, j \in Breaks(text)
    <2>1. i \in Nat /\ j \in Nat
        BY <1>1, <1>14
    <2> HIDE DEF f
    <2>2. i < j \/ j < i \/ i = j
        BY <2>1
    <2> QED
        BY <1>16, <2>2
<1>18. \A k \in Breaks(s) : \E i \in Breaks(text) : f[i] = k
    <2> TAKE k \in Breaks(s)
    <2>1. k \in 1..Len(s) /\ s[k] = NL
        BY <1>13
    <2>2. PICK i \in 1..N : \E o \in 1..Len(parts[i]) : k = off[i - 1] + o
        BY <1>12, <2>1
    <2>3. PICK o \in 1..Len(parts[i]) : k = off[i - 1] + o
        BY <2>2
    <2>4. parts[i][o] = NL
        BY <1>8, <2>1, <2>3
    <2>5. text[i] = NL /\ o = 1
        BY <1>7, <2>4
    <2>6. i \in Breaks(text)
        BY <1>13, <2>5
    <2> QED
        BY <2>3, <2>5, <2>6
<1> HIDE DEF f
<1>19. Newlines(s) = Newlines(text)
    BY <1>6, <1>15, <1>17, <1>18, AsManyNewlines
<1> QED
    BY <1>6, <1>19 DEF s

\* Words, and the names of a request, hold no newline.
Line == Tokens \ {NL}

LEMMA NamesAreLines ==
    ASSUME input \in Case
    PROVE  NamesIn(Line)
<1>1. Vocabulary \subseteq Tokens /\ STRING \subseteq Tokens
    BY DEF Tokens
<1>2. Vocabulary \subseteq Line
    <2>1. NL \notin Vocabulary
        BY DEF Vocabulary, SpfResult, NL
    <2> QED
        BY <1>1, <2>1 DEF Line
<1>3. STRING \ {NL} \subseteq Line
    BY <1>1 DEF Line
<1>4. /\ input.ctx.ip \in Line
      /\ input.ctx.sender \in Seq(Line) /\ input.ctx.helo \in Seq(Line)
      /\ input.ctx.recipient \in Seq(Line)
    BY <1>3, CaseParts, SeqGrows, ZenonT(30) DEF Name, Address
<1>5. input.ctx.client_name \in Seq(Seq(Line))
    <2>1. Name \subseteq Seq(Line)
        BY <1>3, SeqGrows DEF Name
    <2>2. input.ctx.client_name \in Seq(Name)
        BY CaseParts DEF Option
    <2> QED
        BY <2>1, <2>2, SeqGrows
<1> QED
    BY <1>2, <1>4, <1>5 DEF NamesIn

LEMMA LinesAreTexts ==
    /\ Seq(Line) \subseteq Seq(Tokens) /\ \A text \in Seq(Line) : Newlines(text) = 0
<1>1. Line \subseteq Tokens /\ NL \notin Line
    BY DEF Line
<1>2. \A text \in Seq(Line) : Newlines(text) = 0
    BY <1>1, NoNewlines
<1> QED
    BY <1>1, <1>2, SeqGrows

\* A reply made of a template has the newlines of the template.
LEMMA RenderKeepsNewlines ==
    ASSUME NamesIn(Line), NEW r \in SpfResult,
           MessageTemplate(input.conf.messages, r) \in Seq(Tokens)
    PROVE  Newlines(Render(input.conf.messages, r, input.ctx))
             = Newlines(MessageTemplate(input.conf.messages, r))
<1> DEFINE value == Values(r, input.ctx)
           t0 == MessageTemplate(input.conf.messages, r)
           t1 == Replace(t0, "result", value["result"])
           t2 == Replace(t1, "sender", value["sender"])
           t3 == Replace(t2, "helo", value["helo"])
           t4 == Replace(t3, "ip", value["ip"])
           t5 == Replace(t4, "recipient", value["recipient"])
           Same(s, t) == t \in Seq(Tokens) /\ Newlines(t) = Newlines(s)
<1>1. /\ value["result"] = <<r>> /\ value["sender"] = input.ctx.sender
      /\ value["helo"] = input.ctx.helo /\ value["ip"] = <<input.ctx.ip>>
      /\ value["recipient"] = input.ctx.recipient
    BY DEF Values
<1>2. /\ value["result"] \in Seq(Line) /\ value["sender"] \in Seq(Line)
      /\ value["helo"] \in Seq(Line) /\ value["ip"] \in Seq(Line)
      /\ value["recipient"] \in Seq(Line)
    <2>1. r \in Line /\ input.ctx.ip \in Line
        BY DEF NamesIn, Vocabulary
    <2>2. <<r>> \in Seq(Line) /\ <<input.ctx.ip>> \in Seq(Line)
        BY <2>1
    <2> QED
        BY <1>1, <2>2 DEF NamesIn
<1>3. Render(input.conf.messages, r, input.ctx) = t5
    BY DEF Render
<1>4. /\ "result" \in KnownPlaceholder /\ "sender" \in KnownPlaceholder
      /\ "helo" \in KnownPlaceholder /\ "ip" \in KnownPlaceholder
      /\ "recipient" \in KnownPlaceholder
    BY DEF KnownPlaceholder
<1> HIDE DEF t0, t1, t2, t3, t4, t5, value
<1>5. \A s \in Seq(Tokens) : \A name \in KnownPlaceholder : \A v \in Seq(Line) :
          Same(s, Replace(s, name, v))
    BY ReplaceKeepsNewlines DEF Line
<1>6. t0 \in Seq(Tokens)
    BY DEF t0
<1> HIDE DEF Same
<1>7. \A s, t : Same(s, t) => t \in Seq(Tokens)
    BY DEF Same
<1>8. Same(t0, t1) /\ t1 \in Seq(Tokens)
    BY <1>2, <1>4, <1>5, <1>6, <1>7 DEF t1
<1>9. Same(t1, t2) /\ t2 \in Seq(Tokens)
    BY <1>2, <1>4, <1>5, <1>7, <1>8 DEF t2
<1>10. Same(t2, t3) /\ t3 \in Seq(Tokens)
    BY <1>2, <1>4, <1>5, <1>7, <1>9 DEF t3
<1>11. Same(t3, t4) /\ t4 \in Seq(Tokens)
    BY <1>2, <1>4, <1>5, <1>7, <1>10 DEF t4
<1>12. Same(t4, t5)
    BY <1>2, <1>4, <1>5, <1>11 DEF t5
<1> QED
    BY <1>3, <1>8, <1>9, <1>10, <1>11, <1>12 DEF Same, t0

\* A header has the newlines of the authserv_id that it shows.
LEMMA HeaderKeepsNewlines ==
    ASSUME input \in Case
    PROVE  LET header == input.conf.header
           IN Newlines(BuildReceivedSpf(input.mail_from, input.ctx, header))
                = IF header.hide_receiver THEN 0
                  ELSE Newlines(UnwrapOr(header.authserv_id, << >>))
<1> DEFINE header == input.conf.header
           receiver == Receiver(input.ctx, header)
<1>1. NamesIn(Line) /\ Covers(Tokens)
    BY NamesAreLines, TokensCover
<1>2. PICK a \in Seq(Line), b \in Seq(Line) :
              BuildReceivedSpf(input.mail_from, input.ctx, header) = a \o receiver \o b
    BY <1>1, HeaderAround
<1>3. IF header.hide_receiver \/ header.authserv_id = << >> THEN receiver \in Seq(Line)
      ELSE receiver = header.authserv_id[1]
    BY <1>1, ReceiverKeeps
<1>4. /\ UnwrapOr(header.authserv_id, << >>)
           = IF header.authserv_id = << >> THEN << >> ELSE header.authserv_id[1]
      /\ UnwrapOr(header.authserv_id, << >>) \in Seq(Tokens)
    BY <1>1 DEF UnwrapOr, None, Covers
<1> HIDE DEF receiver
<1>5. << >> \in Seq(Line)
    BY EmptySeq
<1>6. receiver \in Seq(Tokens) /\ Newlines(receiver) = IF header.hide_receiver THEN 0
                                    ELSE Newlines(UnwrapOr(header.authserv_id, << >>))
    BY <1>3, <1>4, <1>5, LinesAreTexts
<1>7. /\ a \in Seq(Tokens) /\ b \in Seq(Tokens)
      /\ Newlines(a) = 0 /\ Newlines(b) = 0 /\ Newlines(receiver) \in Nat
    BY <1>6, LinesAreTexts, BreaksAre
<1>8. a \o receiver \in Seq(Tokens) /\ Newlines(a \o receiver) = 0 + Newlines(receiver)
    BY <1>6, <1>7, NewlinesAdd, Joined
<1>9. Newlines(a \o receiver \o b) = 0 + Newlines(receiver) + 0
    BY <1>7, <1>8, NewlinesAdd
<1>10. Newlines(a \o receiver \o b) = Newlines(receiver)
    BY <1>7, <1>9
<1> QED
    BY <1>2, <1>6, <1>10

\* What is put in front of a text, and the words around it, add none.
LEMMA WordsInFront ==
    ASSUME NEW a \in Seq(Line), NEW text \in Seq(Tokens)
    PROVE  a \o text \in Seq(Tokens) /\ Newlines(a \o text) = Newlines(text)
<1>1. a \in Seq(Tokens) /\ Newlines(a) = 0 /\ Newlines(text) \in Nat
    BY LinesAreTexts, BreaksAre
<1>2. Newlines(a \o text) = 0 + Newlines(text)
    BY <1>1, NewlinesAdd
<1> QED
    BY <1>1, <1>2, Joined

LEMMA ShownNewlines ==
    ASSUME Outputs, Decided
    PROVE  /\ Display(Chosen, output[1].text) \in Seq(Tokens)
           /\ Newlines(Display(Chosen, output[1].text)) = Newlines(Configured)
<1> DEFINE text == output[1].text
           header == BuildReceivedSpf(input.mail_from, input.ctx, input.conf.header)
           a == <<"action=">>
           b == <<"dunno">>
           c == <<"PREPEND">>
           d == <<"defer_if_permit">>
           e == <<"Received-SPF:">>
<1>1. input \in Case
    BY DecidedIsAnswer
<1>2. Covers(Tokens) /\ NamesIn(Line)
    BY <1>1, TokensCover, NamesAreLines
<1>3. a \in Seq(Line) /\ b \in Seq(Line) /\ c \in Seq(Line) /\ d \in Seq(Line) /\ e \in Seq(Line)
    <2>1. "action=" \in Line /\ "dunno" \in Line /\ "PREPEND" \in Line
          /\ "defer_if_permit" \in Line /\ "Received-SPF:" \in Line
        BY <1>2 DEF NamesIn, Vocabulary
    <2> QED
        BY <2>1, Tuples, Zenon
<1>4. text = Text(Chosen, input.conf, input.mail_from, input.ctx)
    BY AnswerParts
<1>5. text \in Seq(Tokens)
    BY <1>2, ReplyKeeps
<1>6. /\ Chosen.verb \in {"Reject", "DeferIfPermit", "Prepend", "Dunno"}
      /\ Chosen.verb \in {"Reject", "DeferIfPermit"} => Chosen.text.result \in SpfResult
    BY AnswerParts
<1>7. CASE Chosen.verb \in {"Reject", "DeferIfPermit"}
    <2>1. text = Render(input.conf.messages, Chosen.text.result, input.ctx)
        BY <1>4, <1>7 DEF Text
    <2>2. Template \in Seq(Tokens)
        BY <1>2, <1>6, <1>7, TemplateKeeps DEF Covers, NamesIn, Template
    <2>3. Newlines(text) = Newlines(Template)
        BY <1>2, <1>6, <1>7, <2>1, <2>2, RenderKeepsNewlines DEF Template
    <2>4. Configured = Template
        BY <1>7 DEF Configured, Templated
    <2>5. Display(Chosen, text) = a \o text \/ Display(Chosen, text) = a \o (d \o text)
        <3> HIDE DEF text
        <3> QED
            BY <1>7 DEF Display
    <2> HIDE DEF a, d, text
    <2>6. d \o text \in Seq(Tokens) /\ Newlines(d \o text) = Newlines(text)
        BY <1>3, <1>5, WordsInFront
    <2>7. /\ a \o text \in Seq(Tokens) /\ Newlines(a \o text) = Newlines(text)
          /\ a \o (d \o text) \in Seq(Tokens) /\ Newlines(a \o (d \o text)) = Newlines(text)
        BY <1>3, <1>5, <2>6, WordsInFront
    <2> QED
        BY <2>3, <2>4, <2>5, <2>7 DEF text
<1>8. CASE Chosen.verb = "Prepend"
    <2>1. text = e \o header
        BY <1>4, <1>8 DEF Text
    <2>2. header \in Seq(Tokens)
        BY <1>1, <1>2, HeaderKeeps
    <2>3. ~Templated
        BY <1>8 DEF Templated
    <2>4. Configured = IF input.conf.header.hide_receiver THEN << >>
                       ELSE UnwrapOr(input.conf.header.authserv_id, << >>)
        BY <1>8, <2>3 DEF Configured
    <2>5. << >> \in Seq(Line)
        BY EmptySeq
    <2>6. Newlines(header) = Newlines(Configured)
        BY <1>1, <2>4, <2>5, HeaderKeepsNewlines, LinesAreTexts
    <2>7. Display(Chosen, text) = a \o (c \o text)
        <3> HIDE DEF text
        <3> QED
            BY <1>8 DEF Display
    <2> HIDE DEF a, c, e, header, text
    <2>8. Newlines(text) = Newlines(header)
        BY <1>3, <2>1, <2>2, WordsInFront
    <2>9. c \o text \in Seq(Tokens) /\ Newlines(c \o text) = Newlines(text)
        BY <1>3, <1>5, WordsInFront
    <2>10. a \o (c \o text) \in Seq(Tokens) /\ Newlines(a \o (c \o text)) = Newlines(c \o text)
        BY <1>3, <2>9, WordsInFront
    <2> QED
        BY <2>6, <2>7, <2>8, <2>9, <2>10 DEF text
<1>9. CASE Chosen.verb = "Dunno"
    <2>1. Display(Chosen, text) = a \o b
        <3> HIDE DEF text
        <3> QED
            BY <1>9 DEF Display
    <2>2. Configured = << >>
        BY <1>9 DEF Configured, Templated
    <2>3. << >> \in Seq(Line)
        BY EmptySeq
    <2> HIDE DEF a, b, text
    <2>4. b \in Seq(Tokens) /\ Newlines(b) = 0 /\ Newlines(<< >>) = 0
        BY <1>3, <2>3, LinesAreTexts
    <2>5. a \o b \in Seq(Tokens) /\ Newlines(a \o b) = Newlines(b)
        BY <1>3, <2>4, WordsInFront
    <2> QED
        BY <2>1, <2>2, <2>4, <2>5 DEF text
<1> QED
    BY <1>6, <1>7, <1>8, <1>9

\* The places of two texts put together.
LEMMA JoinedPlaces ==
    ASSUME NEW T, NEW s \in Seq(T), NEW t \in Seq(T)
    PROVE  /\ Len(s) \in Nat /\ Len(t) \in Nat /\ Len(s \o t) = Len(s) + Len(t)
           /\ \A i \in 1..(Len(s) + Len(t)) :
                 (s \o t)[i] = IF i <= Len(s) THEN s[i] ELSE t[i - Len(s)]
OBVIOUS

\* Two newlines after a text are two more.
LEMMA TwoAtTheEnd ==
    ASSUME NEW T, NEW text \in Seq(T), NEW end \in Seq(T),
           Len(end) = 2, end[1] = NL, end[2] = NL
    PROVE  LET wire == text \o end IN
           /\ {Len(wire) - 1, Len(wire)} \subseteq Positions(wire, NL, 1)
           /\ Newlines(wire) = Newlines(text) + 2
<1> DEFINE wire == text \o end
<1>0. Len(text) \in Nat /\ Len(text \o end) = Len(text) + Len(end)
    BY JoinedPlaces
<1> HIDE DEF wire
<1>1. Len(text) \in Nat /\ Len(wire) = Len(text) + 2
    BY <1>0 DEF wire
<1>2. wire[Len(text) + 1] = NL /\ wire[Len(text) + 2] = NL
    <2>1. \A i \in 1..(Len(text) + 2) : wire[i] = IF i <= Len(text) THEN text[i]
                                                ELSE end[i - Len(text)]
        BY JoinedPlaces DEF wire
    <2>2. Len(text) + 1 - Len(text) = 1 /\ Len(text) + 2 - Len(text) = 2
        BY <1>1
    <2> QED
        BY <1>1, <2>1, <2>2
<1>3. Breaks(end) = {1, 2} /\ Newlines(end) = Cardinality(Breaks(end))
    <2>1. Breaks(end) = {i \in 1..Len(end) : end[i] = NL} /\ Newlines(end) = Cardinality(Breaks(end))
        BY BreaksAre
    <2>2. 1..Len(end) = {1, 2}
        OBVIOUS
    <2> QED
        BY <2>1, <2>2
<1>4. Cardinality({1, 2}) = 2
    <2>1. 1 \in Int /\ 2 \in Int /\ 1..2 = {1, 2}
        OBVIOUS
    <2>2. Cardinality(1..2) = IF 1 > 2 THEN 0 ELSE 2 - 1 + 1
        BY <2>1, FS_Interval, Zenon
    <2> QED
        BY <2>1, <2>2
<1>5. Newlines(wire) = Newlines(text) + 2
    BY <1>3, <1>4, NewlinesAdd DEF wire
<1>6. {Len(wire) - 1, Len(wire)} \subseteq Positions(wire, NL, 1)
    BY <1>1, <1>2 DEF Positions
<1> QED
    BY <1>5, <1>6 DEF wire

\* Whatever names a client sends, and whatever newlines an operator writes, a
\* reply ends in its two newlines and has no others than the operator's: for
\* every request, template, authserv_id and policy.
THEOREM ReplyIsOne == Spec => []OneReplyPerRequest
<1>1. Outputs => OneReplyPerRequest
    <2> SUFFICES ASSUME Outputs, Decided
                 PROVE  LET wire == output[1].wire IN
                        /\ {Len(wire) - 1, Len(wire)} \subseteq Positions(wire, NL, 1)
                        /\ Newlines(wire) = Newlines(Configured) + 2
        BY DEF OneReplyPerRequest
    <2> DEFINE T == Tokens \cup {NL}
               shown == Display(Chosen, output[1].text)
               wire == output[1].wire
               end == <<NL, NL>>
    <2>1. shown \in Seq(Tokens) /\ Newlines(shown) = Newlines(Configured)
        BY ShownNewlines
    <2>2. wire = shown \o end
        BY AnswerParts DEF ToWire
    <2> HIDE DEF shown, wire
    <2>3. shown \in Seq(T) /\ NL \in T
        BY <2>1, SeqGrows
    <2>4. end \in Seq(T) /\ Len(end) = 2 /\ end[1] = NL /\ end[2] = NL
        BY <2>3
    <2> HIDE DEF T, end
    <2>5. LET whole == shown \o end IN
          /\ {Len(whole) - 1, Len(whole)} \subseteq Positions(whole, NL, 1)
          /\ Newlines(whole) = Newlines(shown) + 2
        BY <2>3, <2>4, TwoAtTheEnd
    <2> QED
        BY <2>1, <2>2, <2>5, Zenon DEF wire
<1> QED
    BY <1>1, OneStep, PTL

-----------------------------------------------------------------------------
(* The file. *)

Unparsed(file) ==
    \/ ~file.is_toml
    \/ file.server = None
    \/ file.server[1].listen = None
    \/ \E i \in DOMAIN file.server[1].listen[1] :
          ParseListenAddr(file.server[1].listen[1][i]) = None

\* What Parse makes of a file, section by section.
ConfigOf(file) ==
    [listen    |-> [i \in DOMAIN file.server[1].listen[1] |->
                       ParseListenAddr(file.server[1].listen[1][i])[1]],
     policy    |-> IF file.policy = None THEN PolicyDefault ELSE PolicyKeys(file.policy[1]),
     spf       |-> IF file.spf = None THEN SpfDefault ELSE SpfKeys(file.spf[1]),
     overrides |-> UnwrapOr(file.overrides, {}),
     srs       |-> IF file.srs = None THEN SrsDefault ELSE SrsKeys(file.srs[1]),
     header    |-> IF file.header = None THEN HeaderDefault ELSE HeaderKeys(file.header[1]),
     messages  |-> IF file.messages = None THEN MessageTemplates
                                           ELSE MessageKeys(file.messages[1])]

LEMMA ParseIs ==
    ASSUME NEW file
    PROVE  Parse(file) = IF Unparsed(file) THEN None ELSE Some(ConfigOf(file))
BY DEF Parse, Unparsed, ConfigOf

LEMMA Options == \A x : Some(x) # None /\ Some(x)[1] = x
BY DEF Some, None

LEMMA LoadIs ==
    ASSUME NEW file
    PROVE  LoadFile(file) =
             IF ~file.readable           THEN Failed("Read")
             ELSE IF Unparsed(file)      THEN Failed("Parse")
             ELSE IF Validate(ConfigOf(file)) # "-" THEN Failed(Validate(ConfigOf(file)))
             ELSE [error |-> "-", config |-> Some(ConfigOf(file))]
<1>1. Parse(file) = IF Unparsed(file) THEN None ELSE Some(ConfigOf(file))
    BY ParseIs
<1>2. (Parse(file) = None) <=> Unparsed(file)
    BY <1>1, Options
<1>3. ~Unparsed(file) => Parse(file) = Some(ConfigOf(file)) /\ Parse(file)[1] = ConfigOf(file)
    BY <1>1, Options
<1> QED
    BY <1>2, <1>3 DEF LoadFile

\* The defaults of a section that is left out are those of an empty one, but
\* for the age of SRS.
LEMMA DefaultsAgree ==
    /\ PolicyKeys(EmptyPolicy) = PolicyDefault
    /\ SpfKeys(EmptySpf) = SpfDefault
    /\ HeaderKeys(EmptyHeader) = HeaderDefault
    /\ MessageKeys(EmptyMessages) = MessageTemplates
    /\ SrsKeys(EmptySrs).enabled = FALSE /\ SrsDefault.enabled = FALSE
<1>1. \A x : UnwrapOr(None, x) = x
    BY DEF UnwrapOr
<1>2. PolicyKeys(EmptyPolicy) = PolicyDefault
    BY <1>1 DEF PolicyKeys, EmptyPolicy, PolicyDefault
<1>3. SpfKeys(EmptySpf) = SpfDefault
    BY <1>1 DEF SpfKeys, EmptySpf, SpfDefault
<1>4. HeaderKeys(EmptyHeader) = HeaderDefault
    BY <1>1 DEF HeaderKeys, EmptyHeader, HeaderDefault
<1>5. MessageKeys(EmptyMessages) = MessageTemplates
    BY <1>1 DEF MessageKeys, EmptyMessages, MessageTemplates
<1>6. SrsKeys(EmptySrs).enabled = FALSE /\ SrsDefault.enabled = FALSE
    BY <1>1 DEF SrsKeys, EmptySrs, SrsDefault
<1> QED
    BY <1>2, <1>3, <1>4, <1>5, <1>6

\* A disabled SRS unwraps nothing.
LEMMA DisabledIsLiteral ==
    ASSUME NEW cfg, cfg.enabled = FALSE, NEW sender, NEW today
    PROVE  Subject(sender, cfg, today) = "literal"
BY DEF Subject, TryUnwrap

\* Two configurations that differ in a disabled [srs] only.
LEMMA DisabledSrsAgree ==
    ASSUME NEW f1, NEW f2,
           f1.readable = f2.readable, f1.is_toml = f2.is_toml, f1.server = f2.server,
           f1.policy = f2.policy, f1.spf = f2.spf, f1.overrides = f2.overrides,
           f1.header = f2.header, f1.messages = f2.messages,
           ConfigOf(f1).srs.enabled = FALSE, ConfigOf(f2).srs.enabled = FALSE
    PROVE  /\ LoadFile(f1).error = LoadFile(f2).error
           /\ LoadFile(f1).error = "-" =>
                 Effect(LoadFile(f1).config[1]) = Effect(LoadFile(f2).config[1])
<1> DEFINE c1 == ConfigOf(f1)
           c2 == ConfigOf(f2)
<1>1. /\ c1.listen = c2.listen /\ c1.policy = c2.policy /\ c1.spf = c2.spf
      /\ c1.overrides = c2.overrides /\ c1.header = c2.header /\ c1.messages = c2.messages
    BY DEF ConfigOf
<1>2. Unparsed(f1) <=> Unparsed(f2)
    BY DEF Unparsed
<1>3. Validate(c1) = Validate(c2)
    <2> HIDE DEF c1, c2
    <2> QED
        BY <1>1 DEF Validate, c1, c2
<1>4. Effect(c1) = Effect(c2)
    <2> DEFINE G(cfg) == [signed_by \in {"key", "forger"} |-> [today \in {0, 21, 22} |->
                  Subject([srs0 |-> TRUE, signed_by |-> signed_by, timestamp |-> 0],
                          cfg, today)]]
    <2> DEFINE literal == [signed_by \in {"key", "forger"} |-> [today \in {0, 21, 22} |-> "literal"]]
    <2>1. ASSUME NEW cfg, cfg.enabled = FALSE PROVE G(cfg) = literal
        <3> DEFINE Result(signed_by, today) ==
                Subject([srs0 |-> TRUE, signed_by |-> signed_by, timestamp |-> 0], cfg, today)
        <3>1. \A signed_by, today : Result(signed_by, today) = "literal"
            BY <2>1, DisabledIsLiteral
        <3>2. G(cfg) = [signed_by \in {"key", "forger"} |-> [today \in {0, 21, 22} |->
                           Result(signed_by, today)]]
            OBVIOUS
        <3> HIDE DEF Result, G
        <3> QED
            BY <3>1, <3>2
    <2> DEFINE g == literal
    <2>2. Effect(c1) = [c1 EXCEPT !.srs = g] /\ Effect(c2) = [c2 EXCEPT !.srs = g]
        <3>1. G(c1.srs) = g /\ G(c2.srs) = g
            <4> HIDE DEF literal, G
            <4> QED
                BY <2>1
        <3> HIDE DEF g
        <3> QED
            BY <3>1 DEF Effect
    <2> HIDE DEF G, g
    <2>3. \A c \in {c1, c2} : [c EXCEPT !.srs = g] =
              [listen |-> c.listen, policy |-> c.policy, spf |-> c.spf,
               overrides |-> c.overrides, srs |-> g, header |-> c.header,
               messages |-> c.messages]
        BY DEF ConfigOf
    <2> HIDE DEF c1, c2
    <2> QED
        BY <1>1, <2>2, <2>3
<1> HIDE DEF c1, c2
<1>5. \A e : Failed(e).error = e
    BY DEF Failed
<1>6. \A c : [error |-> "-", config |-> Some(c)].config[1] = c
    BY Options
<1>7. LoadFile(f1).error = LoadFile(f2).error
    BY <1>2, <1>3, <1>5, LoadIs DEF c1, c2
<1>8. LoadFile(f1).error = "-" => LoadFile(f1).config[1] = c1 /\ LoadFile(f2).config[1] = c2
    BY <1>2, <1>3, <1>5, <1>6, LoadIs DEF c1, c2
<1> QED
    BY <1>4, <1>7, <1>8

\* To leave a section out is to write an empty one, for every file.
THEOREM OmittedIsEmpty == Spec => []OmittedSectionsActAsEmpty
<1>1. Outputs => OmittedSectionsActAsEmpty
    <2> SUFFICES ASSUME Outputs, Loaded, NEW section \in DOMAIN Empty
                 PROVE  LET Load(option) == LoadFile([input.file EXCEPT ![section] = option])
                            omitted == Load(None)
                            empty == Load(Some(Empty[section]))
                        IN /\ omitted.error = empty.error
                           /\ omitted.error = "-" =>
                                 Effect(omitted.config[1]) = Effect(empty.config[1])
        BY DEF OmittedSectionsActAsEmpty
    <2> DEFINE file == input.file
               f1 == [file EXCEPT ![section] = None]
               f2 == [file EXCEPT ![section] = Some(Empty[section])]
    <2>1. file \in File
        BY LoadedIsLoad DEF FileInput
    <2>2. section \in {"policy", "spf", "srs", "header", "messages"}
        BY DEF Empty
    <2>3. /\ f1.readable = f2.readable /\ f1.is_toml = f2.is_toml /\ f1.server = f2.server
          /\ f1.overrides = f2.overrides
        BY <2>1, <2>2 DEF File
    <2>4. CASE section = "srs"
        <3>1. /\ f1.policy = f2.policy /\ f1.spf = f2.spf
              /\ f1.header = f2.header /\ f1.messages = f2.messages
              /\ f1.srs = None /\ f2.srs = Some(EmptySrs)
            BY <2>1, <2>4 DEF File, Empty
        <3> HIDE DEF f1, f2
        <3>2. ConfigOf(f1).srs.enabled = FALSE /\ ConfigOf(f2).srs.enabled = FALSE
            BY <3>1, DefaultsAgree, Options DEF ConfigOf
        <3>3. /\ LoadFile(f1).error = LoadFile(f2).error
              /\ LoadFile(f1).error = "-" =>
                    Effect(LoadFile(f1).config[1]) = Effect(LoadFile(f2).config[1])
            BY <2>3, <3>1, <3>2, DisabledSrsAgree
        <3> QED
            BY <3>3 DEF f1, f2
    <2>5. CASE section # "srs"
        <3>1. f1.srs = f2.srs
            BY <2>1, <2>2, <2>5 DEF File
        <3>2. ConfigOf(f1) = ConfigOf(f2)
            <4>1. CASE section = "policy"
                <5>1. /\ f1.spf = f2.spf /\ f1.header = f2.header /\ f1.messages = f2.messages
                      /\ f1.policy = None /\ f2.policy = Some(EmptyPolicy)
                    BY <2>1, <4>1 DEF File, Empty
                <5> HIDE DEF f1, f2
                <5> QED
                    BY <2>3, <3>1, <5>1, DefaultsAgree, Options DEF ConfigOf
            <4>2. CASE section = "spf"
                <5>1. /\ f1.policy = f2.policy /\ f1.header = f2.header
                      /\ f1.messages = f2.messages
                      /\ f1.spf = None /\ f2.spf = Some(EmptySpf)
                    BY <2>1, <4>2 DEF File, Empty
                <5> HIDE DEF f1, f2
                <5> QED
                    BY <2>3, <3>1, <5>1, DefaultsAgree, Options DEF ConfigOf
            <4>3. CASE section = "header"
                <5>1. /\ f1.policy = f2.policy /\ f1.spf = f2.spf
                      /\ f1.messages = f2.messages
                      /\ f1.header = None /\ f2.header = Some(EmptyHeader)
                    BY <2>1, <4>3 DEF File, Empty
                <5> HIDE DEF f1, f2
                <5> QED
                    BY <2>3, <3>1, <5>1, DefaultsAgree, Options DEF ConfigOf
            <4>4. CASE section = "messages"
                <5>1. /\ f1.policy = f2.policy /\ f1.spf = f2.spf /\ f1.header = f2.header
                      /\ f1.messages = None /\ f2.messages = Some(EmptyMessages)
                    BY <2>1, <4>4 DEF File, Empty
                <5> HIDE DEF f1, f2
                <5> QED
                    BY <2>3, <3>1, <5>1, DefaultsAgree, Options DEF ConfigOf
            <4> QED
                BY <2>2, <2>5, <4>1, <4>2, <4>3, <4>4
        <3> HIDE DEF f1, f2
        <3>3. Unparsed(f1) <=> Unparsed(f2)
            BY <2>3 DEF Unparsed
        <3>4. LoadFile(f1) = LoadFile(f2)
            BY <2>3, <3>2, <3>3, LoadIs
        <3> QED
            BY <3>4 DEF f1, f2
    <2> QED
        BY <2>4, <2>5
<1> QED
    BY <1>1, OneStep, PTL

-----------------------------------------------------------------------------
(* What is accepted. *)

Words == Tokens \cup {"4xx", "failed", "softfail", "neutral", "no record", "permanent",
                      "temporary", "{", "}", "sender", "ip", "user", "@", "sender.org",
                      "helo.org", "rcpt", "here.org"}

LEMMA DefaultsAreTexts ==
    ASSUME NEW q \in SpfResult \ {"Pass"}
    PROVE  DefaultTemplate(q) \in Seq(Words)
<1> DEFINE of(name) == <<"{", name, "}">>
<1>1. \A T : \A a, b, c \in T : <<a, b, c>> \in Seq(T)
    OBVIOUS
<1>2. /\ "{" \in Words /\ "}" \in Words /\ "sender" \in Words /\ "ip" \in Words
      /\ "5xx" \in Words /\ "4xx" \in Words /\ "failed" \in Words /\ "softfail" \in Words
      /\ "neutral" \in Words /\ "no record" \in Words /\ "permanent" \in Words
      /\ "temporary" \in Words
    BY DEF Words, Tokens, Vocabulary
<1>3. of("sender") \in Seq(Words) /\ of("ip") \in Seq(Words)
    BY <1>1, <1>2, Zenon
<1>4. /\ <<"5xx", "failed">> \in Seq(Words) /\ <<"5xx", "softfail">> \in Seq(Words)
      /\ <<"5xx", "neutral">> \in Seq(Words) /\ <<"5xx", "no record">> \in Seq(Words)
      /\ <<"5xx", "permanent">> \in Seq(Words) /\ <<"4xx", "temporary">> \in Seq(Words)
    BY <1>2, Tuples, Zenon
<1>5. \A s, t \in Seq(Words) : s \o t \in Seq(Words)
    OBVIOUS
<1>6. CASE q = "Fail"
    <2>1. DefaultTemplate(q) = <<"5xx", "failed">> \o of("sender") \o of("ip")
        BY <1>6 DEF DefaultTemplate
    <2>2. <<"5xx", "failed">> \o of("sender") \in Seq(Words)
        BY <1>3, <1>4, <1>5, Zenon
    <2> QED
        BY <1>3, <1>5, <2>1, <2>2, Zenon
<1>7. CASE q = "Softfail"
    <2>1. DefaultTemplate(q) = <<"5xx", "softfail">> \o of("sender") \o of("ip")
        BY <1>7 DEF DefaultTemplate
    <2>2. <<"5xx", "softfail">> \o of("sender") \in Seq(Words)
        BY <1>3, <1>4, <1>5, Zenon
    <2> QED
        BY <1>3, <1>5, <2>1, <2>2, Zenon
<1>8. CASE q = "Neutral"
    <2>1. DefaultTemplate(q) = <<"5xx", "neutral">> \o of("sender") \o of("ip")
        BY <1>8 DEF DefaultTemplate
    <2>2. <<"5xx", "neutral">> \o of("sender") \in Seq(Words)
        BY <1>3, <1>4, <1>5, Zenon
    <2> QED
        BY <1>3, <1>5, <2>1, <2>2, Zenon
<1>9. CASE q = "None"
    <2>1. DefaultTemplate(q) = <<"5xx", "no record">> \o of("sender")
        BY <1>9 DEF DefaultTemplate
    <2> QED
        BY <1>3, <1>4, <1>5, <2>1, Zenon
<1>10. CASE q = "Permerror"
    <2>1. DefaultTemplate(q) = <<"5xx", "permanent">> \o of("sender")
        BY <1>10 DEF DefaultTemplate
    <2> QED
        BY <1>3, <1>4, <1>5, <2>1, Zenon
<1>11. CASE q = "Temperror"
    <2>1. DefaultTemplate(q) = <<"4xx", "temporary">> \o of("sender")
        BY <1>11 DEF DefaultTemplate
    <2> QED
        BY <1>3, <1>4, <1>5, <2>1, Zenon
<1> QED
    BY <1>6, <1>7, <1>8, <1>9, <1>10, <1>11 DEF SpfResult

LEMMA Present ==
    ASSUME NEW S, NEW option \in Seq(S), option # None
    PROVE  option[1] \in S
BY EmptySeq DEF None

LEMMA MessagesAreTexts ==
    ASSUME NEW file \in File, NEW q \in SpfResult \ {"Pass"}
    PROVE  ConfigOf(file).messages[q] \in Seq(Words)
<1>1. DefaultTemplate(q) \in Seq(Words)
    BY DefaultsAreTexts
<1>2. CASE file.messages = None
    BY <1>1, <1>2 DEF ConfigOf, MessageTemplates
<1>3. CASE file.messages # None
    <2> DEFINE section == file.messages[1]
    <2>1. section \in [SpfResult \ {"Pass"} -> Option(Phrase)]
        <3>1. file.messages \in Seq([SpfResult \ {"Pass"} -> Option(Phrase)])
            BY DEF File, Option
        <3> QED
            BY <1>3, <3>1, Present
    <2>2. ConfigOf(file).messages[q] = UnwrapOr(section[q], DefaultTemplate(q))
        BY <1>3, <2>1 DEF ConfigOf, MessageKeys
    <2>3. section[q] \in Seq(Phrase)
        BY <2>1 DEF Option
    <2>4. section[q] # << >> => section[q][1] \in Phrase
        BY <2>3, EmptySeq
    <2>5. Phrase \subseteq Seq(Words)
        <3>1. STRING \subseteq Words
            BY DEF Words, Tokens
        <3> QED
            BY <3>1, SeqGrows DEF Phrase
    <2> HIDE DEF section
    <2> QED
        BY <1>1, <2>2, <2>4, <2>5 DEF UnwrapOr, None
<1> QED
    BY <1>2, <1>3

\* A name of three words, or of one.
LEMMA PlainName ==
    ASSUME NEW T, NEW a \in T, NEW b \in T, NEW c \in T,
           ~Opening(<<a>>, 1), ~Closing(<<a>>, 1), ~Opening(<<b>>, 1), ~Closing(<<b>>, 1),
           ~Opening(<<c>>, 1), ~Closing(<<c>>, 1)
    PROVE  <<a, b, c>> \in Seq(T) /\ Braceless(<<a, b, c>>)
<1> DEFINE t == <<a, b, c>>
<1>1. t \in Seq(T) /\ Len(t) = 3 /\ t[1] = a /\ t[2] = b /\ t[3] = c
    OBVIOUS
<1>2. <<a>>[1] = a /\ <<b>>[1] = b /\ <<c>>[1] = c
    OBVIOUS
<1>3. \A k \in 1..3 : k = 1 \/ k = 2 \/ k = 3
    OBVIOUS
<1> HIDE DEF t
<1>4. /\ ~Opening(t, 1) /\ ~Closing(t, 1) /\ ~Opening(t, 2) /\ ~Closing(t, 2)
      /\ ~Opening(t, 3) /\ ~Closing(t, 3)
    BY <1>1, <1>2 DEF Opening, Closing
<1>5. Braceless(t)
    BY <1>1, <1>3, <1>4, Zenon DEF Braceless
<1> QED
    BY <1>1, <1>5 DEF t

LEMMA PlainValues ==
    ASSUME NEW r \in SpfResult
    PROVE  \A name \in KnownPlaceholder :
              /\ Values(r, PlainCtx)[name] \in Seq(Words)
              /\ Braceless(Values(r, PlainCtx)[name])
<1> DEFINE ctx == PlainCtx
           Plain(a) == ~Opening(<<a>>, 1) /\ ~Closing(<<a>>, 1)
<1>1. /\ ctx.ip = "ip" /\ ctx.sender = <<"user", "@", "sender.org">>
      /\ ctx.helo = <<"helo.org">> /\ ctx.recipient = <<"rcpt", "@", "here.org">>
    BY DEF PlainCtx
<1>2. /\ "ip" \in Words /\ "user" \in Words /\ "@" \in Words /\ "sender.org" \in Words
      /\ "helo.org" \in Words /\ "rcpt" \in Words /\ "here.org" \in Words
    BY DEF Words
<1>3. /\ Plain("user") /\ Plain("@") /\ Plain("sender.org") /\ Plain("helo.org")
      /\ Plain("rcpt") /\ Plain("here.org")
    BY DEF Opening, Closing
<1>4. Vocabulary \subseteq Words
    BY DEF Words, Tokens
<1>5. \A T : \A a, b, c \in T :
          Plain(a) /\ Plain(b) /\ Plain(c) => <<a, b, c>> \in Seq(T) /\ Braceless(<<a, b, c>>)
    BY PlainName
<1>6. \A T : \A a \in T : Plain(a) => <<a>> \in Seq(T) /\ Braceless(<<a>>)
    BY BracelessToken
<1> HIDE DEF Plain
<1>7. /\ ctx.sender \in Seq(Words) /\ Braceless(ctx.sender)
      /\ ctx.recipient \in Seq(Words) /\ Braceless(ctx.recipient)
    BY <1>1, <1>2, <1>3, <1>5, Zenon
<1>8. ctx.helo \in Seq(Words) /\ Braceless(ctx.helo)
    BY <1>1, <1>2, <1>3, <1>6, Zenon
<1>9. ctx.ip \in Words /\ ctx.ip # "{" /\ ctx.ip # "}"
    BY <1>1, <1>2
<1> HIDE DEF ctx
<1> QED
    BY <1>4, <1>7, <1>8, <1>9, ValuesKeep DEF ctx

LEMMA SrsAge ==
    ASSUME NEW file \in File
    PROVE  ConfigOf(file).srs.max_age_days \in Nat
<1>1. CASE file.srs = None
    BY <1>1 DEF ConfigOf, SrsDefault
<1>2. CASE file.srs # None
    <2> DEFINE Section == [enabled : Option(BOOLEAN), secrets : Option(SUBSET STRING),
                           max_age_days : Option(Nat)]
               section == file.srs[1]
    <2>1. section \in Section
        <3>1. file.srs \in Seq(Section)
            BY DEF File, Option
        <3> HIDE DEF Section
        <3> QED
            BY <1>2, <3>1, Present
    <2>2. section.max_age_days \in Seq(Nat)
        BY <2>1 DEF Option
    <2>3. section.max_age_days # << >> => section.max_age_days[1] \in Nat
        BY <2>2, EmptySeq
    <2>4. ConfigOf(file).srs.max_age_days = UnwrapOr(section.max_age_days, 21)
        BY <1>2 DEF ConfigOf, SrsKeys
    <2> HIDE DEF section
    <2> QED
        BY <2>3, <2>4 DEF UnwrapOr, None
<1> QED
    BY <1>1, <1>2

\* An address that a configured secret has signed today is unwrapped today.
LEMMA SignedToday ==
    ASSUME NEW cfg, cfg.enabled, NEW key \in cfg.secrets, cfg.max_age_days \in Nat
    PROVE  Subject([srs0 |-> TRUE, signed_by |-> key, timestamp |-> 0], cfg, 0) = "original"
<1> DEFINE sender == [srs0 |-> TRUE, signed_by |-> key, timestamp |-> 0]
<1>1. sender.srs0 /\ sender.signed_by = key /\ sender.timestamp = 0
    OBVIOUS
<1>2. AgeInDays(0, 0) = 0 /\ 0 # Undecodable
    BY DEF AgeInDays, Undecodable, DAYS_PER_CYCLE
<1> HIDE DEF sender
<1>3. HashOk(sender, cfg)
    BY <1>1 DEF HashOk
<1>4. ~(0 > cfg.max_age_days)
    OBVIOUS
<1>5. TryUnwrap(sender, cfg, 0) = "Valid"
    BY <1>1, <1>2, <1>3, <1>4, Zenon DEF TryUnwrap
<1> QED
    BY <1>5 DEF Subject, sender

LEMMA FallbackIsFilled ==
    ASSUME NEW messages
    PROVE  FilledFrom(MessageTemplate(messages, "Pass"), 1, KnownPlaceholder)
<1> DEFINE t == MessageTemplate(messages, "Pass")
<1>1. t = <<"5xx", "check failed">>
    BY DEF MessageTemplate
<1>2. Len(t) = 2 /\ t[1] = "5xx" /\ t[2] = "check failed"
    <2>1. \A a, b : Len(<<a, b>>) = 2 /\ <<a, b>>[1] = a /\ <<a, b>>[2] = b
        OBVIOUS
    <2> HIDE DEF t
    <2> QED
        BY <1>1, <2>1, Zenon
<1>3. ~Opening(t, 1) /\ ~Opening(t, 2)
    BY <1>2 DEF Opening
<1>4. \A i \in 1..2 : i = 1 \/ i = 2
    OBVIOUS
<1> HIDE DEF t
<1>5. FilledFrom(t, 1, KnownPlaceholder)
    BY <1>2, <1>3, <1>4, Zenon DEF FilledFrom
<1> QED
    BY <1>5 DEF t

\* Every configuration that is accepted serves: it has a listener, an enabled
\* SRS unwraps some address, an override is a record, and no reply shows a
\* placeholder, for every file (load.rs:51-102).
THEOREM AcceptedServes == Spec => []AcceptedConfigServes
<1>1. Outputs => AcceptedConfigServes
    <2> SUFFICES ASSUME Outputs, Loaded, output[1].error = "-"
                 PROVE  LET config == output[1].config[1] IN
                        /\ config.listen # << >>
                        /\ config.srs.enabled =>
                              \E key \in config.srs.secrets :
                                  Subject([srs0 |-> TRUE, signed_by |-> key, timestamp |-> 0],
                                          config.srs, 0) = "original"
                        /\ \A override \in config.overrides : override.is_record
                        /\ \A r \in SpfResult :
                              ~HasPlaceholder(Render(config.messages, r, PlainCtx))
        BY DEF AcceptedConfigServes
    <2> DEFINE file == input.file
               config == ConfigOf(file)
    <2>1. file \in File /\ output[1] = LoadFile(file)
        BY LoadedIsLoad, Options DEF FileInput
    <2>2. output[1].config[1] = config /\ Validate(config) = "-"
        <3>1. \A e : Failed(e).error = e
            BY DEF Failed
        <3>2. \A c : [error |-> "-", config |-> Some(c)].config[1] = c
            BY Options
        <3> HIDE DEF file, config
        <3>3. LoadFile(file).error = "-"
            BY <2>1
        <3>4. /\ Validate(config) = "-"
              /\ LoadFile(file) = [error |-> "-", config |-> Some(config)]
            BY <3>1, <3>3, LoadIs DEF config
        <3> QED
            BY <2>1, <3>2, <3>4
    <2> HIDE DEF file
    <2>3. /\ config.listen # << >>
          /\ config.srs.enabled => config.srs.secrets # {}
          /\ \A override \in config.overrides : override.is_record
          /\ \A r \in Checked : ValidatePlaceholders(config.messages[r])
        <3> HIDE DEF config
        <3> QED
            BY <2>2 DEF Validate
    <2>4. ASSUME config.srs.enabled
          PROVE  \E key \in config.srs.secrets :
                    Subject([srs0 |-> TRUE, signed_by |-> key, timestamp |-> 0],
                            config.srs, 0) = "original"
        <3> DEFINE cfg == config.srs
        <3>1. cfg.max_age_days \in Nat
            BY <2>1, SrsAge
        <3> HIDE DEF config
        <3>2. PICK key \in cfg.secrets : TRUE
            BY <2>3, <2>4
        <3>3. cfg.enabled
            BY <2>4
        <3> HIDE DEF cfg
        <3>4. Subject([srs0 |-> TRUE, signed_by |-> key, timestamp |-> 0], cfg, 0) = "original"
            BY <3>1, <3>3, SignedToday
        <3> QED
            BY <3>2, <3>4 DEF cfg
    <2>5. ASSUME NEW r \in SpfResult
          PROVE  ~HasPlaceholder(Render(config.messages, r, PlainCtx))
        <3> DEFINE messages == config.messages
        <3>1. \A q \in SpfResult \ {"Pass"} : messages[q] \in Seq(Words)
            BY <2>1, MessagesAreTexts
        <3>2. Vocabulary \subseteq Words
            BY DEF Words, Tokens
        <3>3. r # "Pass" => ValidatePlaceholders(messages[r])
            BY <2>3 DEF Checked, SpfResult
        <3> HIDE DEF messages, config
        <3>4. MessageTemplate(messages, r) \in Seq(Words)
            BY <3>1, <3>2, TemplateKeeps
        <3>5. FilledFrom(MessageTemplate(messages, r), 1, KnownPlaceholder)
            <4>1. CASE r = "Pass"
                BY <4>1, FallbackIsFilled
            <4>2. CASE r # "Pass"
                <5>1. ValidatePlaceholders(MessageTemplate(messages, r))
                    BY <3>3, <4>2 DEF MessageTemplate
                <5> QED
                    BY <3>4, <5>1, AcceptedIsKnown
            <4> QED
                BY <4>1, <4>2
        <3>6. ~HasPlaceholder(Render(messages, r, PlainCtx))
            BY <3>4, <3>5, PlainValues, RenderFills
        <3> QED
            BY <3>6 DEF messages
    <2> HIDE DEF config
    <2> QED
        BY <2>2, <2>3, <2>4, <2>5
<1> QED
    BY <1>1, OneStep, PTL
=============================================================================
