-------------------------------- MODULE Words --------------------------------
(***************************************************************************)
(* Texts and options, as the modules on requests and replies use them.  A  *)
(* text is a sequence of tokens: the separators the code looks for, and    *)
(* words it does not look into.  An option is a sequence of one value or   *)
(* of none.                                                                *)
(***************************************************************************)
EXTENDS Integers, SequencesExt, FiniteSetsExt

None == << >>
Some(value) == <<value>>
UnwrapOr(option, default) == IF option = None THEN default ELSE option[1]

\* Option<&str>, the empty text taken as none.
NonEmpty(option) == IF option = Some(<< >>) THEN None ELSE option

Positions(text, token, from) == {i \in from..Len(text) : text[i] = token}

Before(text, i) == SubSeq(text, 1, i - 1)
After(text, i) == SubSeq(text, i + 1, Len(text))

\* Mutant of SplitOnce: str::rsplit_once.
SplitAtLast(text, token) ==
    LET at == Positions(text, token, 1) IN
    IF at = {} THEN None
    ELSE Some([before |-> Before(text, Max(at)), after |-> After(text, Max(at))])

\* str::split_once, at the first token.
SplitOnce(text, token) ==
    LET at == Positions(text, token, 1) IN
    IF at = {} THEN None
    ELSE Some([before |-> Before(text, Min(at)), after |-> After(text, Min(at))])

\* What follows the last "@" of an address, if it has one.
AfterLastAt(address) ==
    LET ats == Positions(address, "@", 1) IN
    IF ats = {} THEN None ELSE Some(After(address, Max(ats)))
=============================================================================
