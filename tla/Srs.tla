--------------------------------- MODULE Srs ---------------------------------
(***************************************************************************)
(* Unwrapping of SRS0 envelope senders (rspf/src/srs.rs): when the hash of *)
(* the address verifies and its stamp is young enough, SPF is evaluated    *)
(* for the original sender instead of the literal one.  A pure module,     *)
(* used by HotReload and applied to every case in Intake.                  *)
(*                                                                         *)
(* The hash is ideal: it verifies against the secret that signed it and    *)
(* against no other (the code compares four base64 characters of an HMAC). *)
(* A sender is [srs0, signed_by, timestamp]: whether it has the form       *)
(* SRS0=hash=timestamp=domain=local@rewriter, the secret that signed it,   *)
(* and the number its two base-32 digits stand for.                        *)
(***************************************************************************)
EXTENDS Integers

DAYS_PER_CYCLE == 1024

\* A timestamp that is not two base-32 digits.
Undecodable == DAYS_PER_CYCLE

SrsUnwrap == {"NotSrs", "InvalidHash", "Expired", "Valid"}

\* Mutant of AgeInDays: the wrap of the cycle is forgotten.
AgeWithoutWrap(decoded_ts, today) == (today % DAYS_PER_CYCLE) - decoded_ts

\* now and the stamp are both known modulo the cycle only; % is rem_euclid.
AgeInDays(decoded_ts, today) ==
    ((today % DAYS_PER_CYCLE) - decoded_ts) % DAYS_PER_CYCLE

\* Mutant of HashOk: only one of the secrets is tried.
HashOkOneSecret(sender, cfg) ==
    cfg.secrets # {} /\ sender.signed_by = CHOOSE s \in cfg.secrets : TRUE

HashOk(sender, cfg) == sender.signed_by \in cfg.secrets

\* Mutant of TryUnwrap: the last day is lost.
TryUnwrapDayEarly(sender, cfg, today) ==
    IF ~cfg.enabled \/ ~sender.srs0 THEN "NotSrs"
    ELSE IF ~HashOk(sender, cfg) \/ sender.timestamp = Undecodable THEN "InvalidHash"
    ELSE IF AgeInDays(sender.timestamp, today) >= cfg.max_age_days THEN "Expired"
    ELSE "Valid"

TryUnwrap(sender, cfg, today) ==
    IF ~cfg.enabled \/ ~sender.srs0 THEN "NotSrs"
    ELSE IF ~HashOk(sender, cfg) \/ sender.timestamp = Undecodable THEN "InvalidHash"
    ELSE IF AgeInDays(sender.timestamp, today) > cfg.max_age_days THEN "Expired"
    ELSE "Valid"

\* handle_request: every verdict but Valid falls back to the literal sender.
Subject(sender, cfg, today) ==
    IF TryUnwrap(sender, cfg, today) = "Valid" THEN "original" ELSE "literal"
=============================================================================
