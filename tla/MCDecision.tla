------------------------------ MODULE MCDecision ------------------------------
(***************************************************************************)
(* Decision over three families of cases and over files:                   *)
(*   policy    every policy, header mode and pair of results, under the    *)
(*             built-in templates;                                         *)
(*   template  a template of up to four pieces against clients whose names *)
(*             hold a brace or a placeholder;                              *)
(*   header    a Received-SPF header, under every [header] section;        *)
(*   file      a configuration file, with what can be left out or be wrong *)
(*             in each section.                                            *)
(***************************************************************************)
EXTENDS Decision

Ctx == [client_name |-> Some(<<"client.org">>)] @@ PlainCtx

Spf == [mode |-> "Spf", hide_receiver |-> FALSE, authserv_id |-> None]

Conf(policy, messages, header) ==
    [policy |-> policy, messages |-> messages, header |-> header]

Outcome(identity, result) ==
    [identity |-> identity, result |-> result,
     cause |-> CASE result = "None"                       -> "none"
                 [] result \in {"Permerror", "Temperror"} -> "error"
                 [] OTHER                                 -> "match"]

CaseOf(conf, helo, mail_from, ctx) ==
    [kind |-> "case", conf |-> conf, helo |-> Outcome("Helo", helo),
     mail_from |-> Outcome("MailFrom", mail_from), ctx |-> ctx]

PolicyCases ==
    {CaseOf(Conf(policy, MessageTemplates, [Spf EXCEPT !.mode = mode]), h, m, Ctx) :
        policy \in PolicyConfig, mode \in HeaderMode, h \in SpfResult, m \in SpfResult}

\* Senders and HELO names.
Names == {<<"name">>, <<"}">>, <<"{", "sender", "}">>, <<"{", "helo", "}">>,
          <<"{", "recipient", "}">>}

Pieces == {<<"{">>, <<"}">>, <<"sender">>, <<"client">>, <<NL>>,
           <<"{", "sender", "}">>, <<"{", "helo", "}">>}

Templates == {<<"5xx">> \o FlattenSeq(pieces) : pieces \in SeqOf(Pieces, 4)}

TemplateCases ==
    {CaseOf(Conf(PolicyDefault, [MessageTemplates EXCEPT !["Fail"] = template], Spf),
            "Pass", "Fail", [Ctx EXCEPT !.sender = sender, !.helo = helo]) :
        template \in Templates, sender \in Names, helo \in Names}

Headers == [mode : {"Spf"}, hide_receiver : BOOLEAN,
            authserv_id : {None, Some(<<"mx.here.org">>), Some(<<"mx", NL, "org">>)}]

Recipients == {<< >>, <<"rcpt">>, <<"rcpt", "@", "here.org">>,
               <<"a", "@", "b", "@", "here.org">>}

HeaderCases ==
    {CaseOf(Conf(PolicyDefault, MessageTemplates, header), h, m,
            [Ctx EXCEPT !.recipient = recipient, !.sender = sender, !.client_name = name]) :
        header \in Headers, recipient \in Recipients, sender \in {<< >>, Ctx.sender},
        name \in {None, Some(<< >>), Some(<<"client.org">>)},
        h \in SpfResult \ {"Fail"}, m \in SpfResult \ {"Fail"}}

MCCases == {PolicyCases, TemplateCases, HeaderCases}

-----------------------------------------------------------------------------
(* Files. *)

Listens == {None, Some(<< >>)} \cup
    {Some(addresses) : addresses \in
        {<<[scheme |-> "tcp", rest |-> "socket"], [scheme |-> "unix", rest |-> "path"]>>,
         <<[scheme |-> "unix", rest |-> "path"], [scheme |-> "tcp", rest |-> "path"]>>,
         <<[scheme |-> "unix", rest |-> ""]>>,
         <<[scheme |-> "inet", rest |-> "socket"]>>}}

Unknown == <<"4xx", "{", "client", "}">>

MCFile ==
    [readable : BOOLEAN, is_toml : BOOLEAN,
     server : {None} \cup {Some([listen |-> l]) : l \in Listens},
     policy : {None, Some(EmptyPolicy), Some([EmptyPolicy EXCEPT !.helo_reject = Some("NoCheck")])},
     spf    : {None, Some(EmptySpf), Some([EmptySpf EXCEPT !.void_limit = Some(5)])},
     overrides : {None, Some({[domain |-> "a", is_record |-> TRUE]}),
                  Some({[domain |-> "a", is_record |-> TRUE],
                        [domain |-> "b", is_record |-> FALSE]})},
     srs    : {None} \cup {Some([EmptySrs EXCEPT !.enabled = e, !.secrets = s]) :
                  e \in {None, Some(FALSE), Some(TRUE)}, s \in {None, Some({}), Some({"key"})}},
     header : {None, Some(EmptyHeader)},
     messages : {None, Some(EmptyMessages)} \cup
        {Some([EmptyMessages EXCEPT ![r] = Some(Unknown)]) : r \in {"Fail", "Temperror"}}]

MCFiles == [kind : {"file"}, file : MCFile]
=============================================================================
