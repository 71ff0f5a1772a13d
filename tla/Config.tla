-------------------------------- MODULE Config --------------------------------
(***************************************************************************)
(* The configuration file (rspf/src/config/model.rs and load.rs): the      *)
(* defaults of what it leaves out, and what Config::load makes of it.      *)
(*                                                                         *)
(* A file is whether it can be read and is TOML, and its sections; a       *)
(* section is an option, and so is each key of one.  A value that is not   *)
(* of its key's type fails like broken TOML.  An address to listen on is   *)
(* its scheme and what follows it, which "socket" and "path" stand for; an *)
(* override is a domain and whether its text is an SPF record.             *)
(* The sections [log], [skip] and [whitelist] default to what an empty one *)
(* says, key by key, and have no rule; they are left out.                  *)
(***************************************************************************)
EXTENDS Reply, Srs

-----------------------------------------------------------------------------
(* Addresses to listen on. *)

\* ListenAddr::from_str.
ParseListenAddr(raw) ==
    CASE raw.scheme = "tcp"  -> IF raw.rest = "socket" THEN Some([addr |-> "Tcp"])
                                                       ELSE None
      [] raw.scheme = "unix" -> IF raw.rest = "" THEN None
                                                 ELSE Some([addr |-> "Unix"])
      [] OTHER -> None

-----------------------------------------------------------------------------
(* The defaults: those of a section that is there, one key at a time, and  *)
(* those of one that is not, which are written apart where the two are not *)
(* both derived.                                                           *)

SpfKeys(section) ==
    [lookup_timeout_secs |-> UnwrapOr(section.lookup_timeout_secs, 20),
     void_limit          |-> UnwrapOr(section.void_limit, 2),
     max_lookups         |-> UnwrapOr(section.max_lookups, 10)]

\* Mutant of SpfDefault: Default is derived.
SpfDerivedDefault == [lookup_timeout_secs |-> 0, void_limit |-> 0, max_lookups |-> 0]

SpfDefault == [lookup_timeout_secs |-> 20, void_limit |-> 2, max_lookups |-> 10]

SrsKeys(section) ==
    [enabled      |-> UnwrapOr(section.enabled, FALSE),
     secrets      |-> UnwrapOr(section.secrets, {}),
     max_age_days |-> UnwrapOr(section.max_age_days, 21)]

\* Derived, whatever the default of the key max_age_days.
SrsDefault == [enabled |-> FALSE, secrets |-> {}, max_age_days |-> 0]

PolicyKeys(section) ==
    [helo_reject      |-> UnwrapOr(section.helo_reject, "Fail"),
     mail_from_reject |-> UnwrapOr(section.mail_from_reject, "Fail"),
     permerror_reject |-> UnwrapOr(section.permerror_reject, FALSE),
     temperror_defer  |-> UnwrapOr(section.temperror_defer, FALSE)]

PolicyDefault == [helo_reject      |-> "Fail", mail_from_reject |-> "Fail",
                  permerror_reject |-> FALSE,  temperror_defer  |-> FALSE]

HeaderKeys(section) ==
    [mode          |-> UnwrapOr(section.mode, "Spf"),
     hide_receiver |-> UnwrapOr(section.hide_receiver, FALSE),
     authserv_id   |-> section.authserv_id]

HeaderDefault == [mode |-> "Spf", hide_receiver |-> FALSE, authserv_id |-> None]

MessageKeys(section) ==
    [r \in DOMAIN section |-> UnwrapOr(section[r], DefaultTemplate(r))]

MessageTemplates == [r \in SpfResult \ {"Pass"} |-> DefaultTemplate(r)]

-----------------------------------------------------------------------------
(* Loading. *)

Failed(error) == [error |-> error, config |-> None]

\* toml::from_str: [server] and its listen are the only keys that must be
\* there, and each address must parse.
Parse(file) ==
    IF \/ ~file.is_toml
       \/ file.server = None
       \/ file.server[1].listen = None
       \/ \E i \in DOMAIN file.server[1].listen[1] :
             ParseListenAddr(file.server[1].listen[1][i]) = None
    THEN None
    ELSE LET Section(option, Keys(_), default) ==
                 IF option = None THEN default ELSE Keys(option[1])
             listen == file.server[1].listen[1]
         IN Some([listen    |-> [i \in DOMAIN listen |-> ParseListenAddr(listen[i])[1]],
                  policy    |-> Section(file.policy, PolicyKeys, PolicyDefault),
                  spf       |-> Section(file.spf, SpfKeys, SpfDefault),
                  overrides |-> UnwrapOr(file.overrides, {}),
                  srs       |-> Section(file.srs, SrsKeys, SrsDefault),
                  header    |-> Section(file.header, HeaderKeys, HeaderDefault),
                  messages  |-> Section(file.messages, MessageKeys, MessageTemplates)])

\* Mutant of Checked: a template is missing in the list.
CheckedButTemperror == {"Fail", "Softfail", "Neutral", "None", "Permerror"}

\* The templates that validate looks at.
Checked == {"Fail", "Softfail", "Neutral", "None", "Permerror", "Temperror"}

\* Config::validate; the first rule that is broken is the error.
Validate(config) ==
    IF config.listen = << >>
    THEN "NoListenAddresses"
    ELSE IF config.srs.enabled /\ config.srs.secrets = {}
    THEN "SrsEnabledWithoutSecrets"
    ELSE IF \E override \in config.overrides : ~override.is_record
    THEN "InvalidOverrideRecord"
    ELSE IF \E r \in Checked : ~ValidatePlaceholders(config.messages[r])
    THEN "UnknownMessagePlaceholder"
    ELSE "-"

\* Config::load.
LoadFile(file) ==
    IF ~file.readable           THEN Failed("Read")
    ELSE IF Parse(file) = None  THEN Failed("Parse")
    ELSE LET error == Validate(Parse(file)[1]) IN
         IF error # "-" THEN Failed(error)
         ELSE [error |-> "-", config |-> Parse(file)]
=============================================================================
