------------------------------- MODULE MCIntake -------------------------------
(***************************************************************************)
(* Intake over requests of up to four attributes, names of one and two     *)
(* labels, addresses of two bits, local parts of up to three tokens, and   *)
(* the days around two wraps of the cycle.                                 *)
(***************************************************************************)
EXTENDS Intake

MCIpAddr == {<<"192.0.2.1">>}

Srs0 == <<"SRS0", "=", "hash", "=", "1", "0", "=", "dom", "=", "user", "@", "relay">>

Attribution(name, value) == [name |-> name, value |-> value]

\* "custom" has no field, and its value looks like another attribute.
Attrs == {Attribution("helo_name", <<"helo">>), Attribution("helo_name", << >>),
          Attribution("sender", << >>), Attribution("sender", <<"user", "@", "dom">>), Attribution("sender", Srs0),
          Attribution("client_address", <<"192.0.2.1">>), Attribution("client_address", <<"unknown">>),
          Attribution("sasl_username", << >>), Attribution("sasl_username", <<"joe", "=", "x">>),
          Attribution("recipient", <<"rcpt", "@", "here">>),
          Attribution("custom", <<"sender", "=", "other">>), Attribution(NoEquals, << >>)}

MCReadings == SeqOf(Attrs, 4)

-----------------------------------------------------------------------------
Labels == {[word |-> "a", caps |-> FALSE], [word |-> "a", caps |-> TRUE],
           [word |-> "b", caps |-> FALSE]}
Names == [1..1 -> Labels] \cup [1..2 -> Labels]

Nets(strings) == {[fam |-> f, bits |-> b] : f \in {"v4", "v6"}, b \in strings}

MCEntries == [prefix : {"helo", "domain", "ptr"}, value : Names]
               \cup [prefix : {"ip"}, value : Nets({<< >>, <<0>>, <<1>>, <<0, 1>>})]

MCClients == [client_address      : Nets({<<0, 1>>}),
              helo_name           : Names,
              sender              : [domain : Names \cup {Missing}],
              reverse_client_name : {Missing, CHOOSE n \in Names : TRUE}]

-----------------------------------------------------------------------------
MCLocals == {local \in SeqOf({"user", "=", "@"}, 3) : local # << >>}

MCStampDays == {0, 31, 32, 1000, 1023}

\* The days around the second and the third wrap of the cycle.
MCDays == 2044..2074 \cup 3066..3080

MCSecrets == {"old", "new"}

MCConfigs == {c \in [enabled : BOOLEAN, secrets : SUBSET Secrets,
                     max_age_days : {0, 3, 21, 1023}] :
                  c.enabled => c.secrets # {}}       \* Config::validate
=============================================================================
