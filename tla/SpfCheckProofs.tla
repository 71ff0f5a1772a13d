---------------------------- MODULE SpfCheckProofs ----------------------------
(***************************************************************************)
(* Proofs about SpfCheck: whatever is overridden, whatever the DNS says    *)
(* and wherever records lead, an overridden domain is never asked for and  *)
(* a bounce is checked as its HELO name is.                                *)
(***************************************************************************)
EXTENDS SpfCheck, Basics

USE OverridesAssumption, DnsAssumption

(***************************************************************************)
(* The types.  A check within includes ends with what the fold over them   *)
(* makes of the last verdict; that it is a result takes an induction over  *)
(* the includes, on the least number of them for which it is none.         *)
(***************************************************************************)

LEMMA FoldIsResult ==
    ASSUME NEW pending \in Seq(Verdict), NEW v \in Result
    PROVE  FoldRight(Within, pending, v) \in Result
<1> DEFINE D == DOMAIN pending
           Fold(f) == [s \in SUBSET D |->
                          IF s = {} THEN v ELSE Within(pending[Min(s)], f[s \ {Min(s)}])]
           fold == CHOOSE f : f = Fold(f)
           g == [s \in SUBSET D |->
                   IF v = "Pass" \/ \E i \in s : pending[i] = "Pass" THEN "Pass"
                   ELSE IF s = {} THEN v ELSE pending[Min(s)]]
<1>1. FoldRight(Within, pending, v) = fold[D]
    BY DEF FoldRight, MapThenFoldSet
<1>2. /\ D \in SUBSET Nat /\ IsFiniteSet(D)
      /\ \A i \in D : pending[i] \in Verdict
    <2>1. D = 1..Len(pending) /\ Len(pending) \in Nat
        OBVIOUS
    <2> QED
        BY <2>1, FS_Interval, SMTT(30)
<1>3. ASSUME NEW s \in SUBSET D, s # {}
      PROVE  Min(s) \in s /\ s \ {Min(s)} \in SUBSET D
    BY <1>2, <1>3, MinIsLeast
<1>4. g = Fold(g)
    <2>1. ASSUME NEW s \in SUBSET D
          PROVE  g[s] = IF s = {} THEN v ELSE Within(pending[Min(s)], g[s \ {Min(s)}])
        <3>1. CASE s = {}
            BY <3>1
        <3>2. CASE s # {}
            <4> DEFINE m == Min(s)
                       r == s \ {m}
            <4>1. m \in s /\ r \in SUBSET D /\ s = r \cup {m}
                BY <1>3, <3>2
            <4>2. g[r] = IF v = "Pass" \/ \E i \in r : pending[i] = "Pass" THEN "Pass"
                         ELSE IF r = {} THEN v ELSE pending[Min(r)]
                BY <4>1
            <4>3. g[s] = IF v = "Pass" \/ \E i \in s : pending[i] = "Pass" THEN "Pass"
                         ELSE pending[m]
                BY <3>2
            <4> HIDE DEF g, m, r
            <4>4. g[s] = Within(pending[m], g[r])
                <5>1. CASE v = "Pass" \/ \E i \in r : pending[i] = "Pass"
                    BY <4>1, <4>2, <4>3, <5>1 DEF Within
                <5>2. CASE ~ (v = "Pass" \/ \E i \in r : pending[i] = "Pass")
                    <6>1. g[r] # "Pass"
                        <7>1. r = {} \/ Min(r) \in r
                            BY <1>3, <4>1
                        <7> QED
                            BY <4>2, <5>2, <7>1
                    <6>2. g[s] = pending[m]
                        BY <4>1, <4>3, <5>2
                    <6> QED
                        BY <6>1, <6>2 DEF Within
                <5> QED
                    BY <5>1, <5>2
            <4> QED
                BY <3>2, <4>4 DEF m, r
        <3> QED
            BY <3>1, <3>2
    <2> QED
        BY <2>1
<1>5. fold = Fold(fold)
    <2> HIDE DEF Fold, g
    <2> QED
        BY <1>4
<1>6. \A s \in SUBSET D :
         fold[s] = IF s = {} THEN v ELSE Within(pending[Min(s)], fold[s \ {Min(s)}])
    <2> HIDE DEF fold
    <2> QED
        BY <1>5
<1> HIDE DEF fold, Fold, g
<1> DEFINE Bad == {s \in SUBSET D : fold[s] \notin Result}
           Sizes == {Cardinality(s) : s \in Bad}
<1>7. \A s \in SUBSET D : IsFiniteSet(s) /\ Cardinality(s) \in Nat
    BY <1>2, FS_Subset, FS_CardinalityType
<1>8. ASSUME Bad # {} PROVE FALSE
    <2>1. Sizes \in SUBSET Nat /\ Sizes # {}
        BY <1>7, <1>8
    <2>2. PICK k \in Sizes : \A n \in Sizes : k <= n
        <3> HIDE DEF Sizes
        <3> QED
            BY <2>1, Least
    <2>3. PICK s \in Bad : Cardinality(s) = k
        OBVIOUS
    <2>4. s \in SUBSET D /\ fold[s] \notin Result
        OBVIOUS
    <2>5. s # {}
        BY <1>6, <2>4
    <2>6. Min(s) \in s /\ s \ {Min(s)} \in SUBSET D
        BY <1>3, <2>4, <2>5
    <2>7. Cardinality(s \ {Min(s)}) = k - 1
        BY <1>7, <2>3, <2>4, <2>6, FS_RemoveElement
    <2>8. s \ {Min(s)} \notin Bad
        <3>1. ASSUME s \ {Min(s)} \in Bad PROVE FALSE
            <4>1. k - 1 \in Sizes
                BY <2>7, <3>1
            <4>2. k \in Nat
                BY <2>1
            <4> QED
                BY <2>2, <4>1, <4>2
        <3> QED
            BY <3>1
    <2>9. fold[s \ {Min(s)}] \in Result /\ pending[Min(s)] \in Result
        BY <1>2, <2>4, <2>6, <2>8 DEF Result
    <2> QED
        BY <1>6, <2>4, <2>5, <2>9 DEF Within
<1>9. D \in SUBSET D
    OBVIOUS
<1> QED
    BY <1>1, <1>8, <1>9

CheckType == [pc      : {"unstarted", "lookup", "done", "timed out"},
              name    : Name \cup {Null},
              lookups : Nat,
              pending : Seq(Verdict),
              result  : Result \cup {Undecided}]

Typed(c) ==
    /\ c \in CheckType
    /\ c.pc = "lookup" => c.name \in Name
    /\ IF c.pc \in {"done", "timed out"} THEN c.result \in Result ELSE c.result = Undecided

TypeInv ==
    /\ helo \in Name \cup {Invalid} /\ sender \in Name \cup {Invalid, Null}
    /\ overrides \in Overrides /\ dns \in Dns
    /\ asked \subseteq Domain
    /\ check \in [Identity -> CheckType]
    /\ \A id \in Identity : Typed(check[id])

LEMMA DoneTyped ==
    ASSUME NEW c \in CheckType, NEW r \in Result
    PROVE  Typed(Done(c, r)) /\ Typed([Done(c, r) EXCEPT !.pc = "timed out"])
BY DEF Typed, CheckType, Done

LEMMA LookingUpTyped ==
    ASSUME NEW name \in Name, NEW n \in Nat, NEW pending \in Seq(Verdict)
    PROVE  Typed(LookingUp(name, n, pending))
BY DEF Typed, CheckType, LookingUp

\* What a lookup gives, and what each kind of record holds.
LEMMA RecordTypes ==
    ASSUME overrides \in Overrides, dns \in Dns, NEW c, c.name \in Name
    PROVE  LET r == LookupTxt(c)
           IN  /\ r.kind \in {"none", "timeout", "all", "include", "redirect"}
               /\ r.kind \in {"include", "redirect"} => r.to \in Domain
               /\ r.kind \in {"all", "include"} => r.verdict \in Verdict
<1>1. c.name.domain \in Domain
    BY DEF Name
<1>2. \A r \in Record :
         /\ r.kind \in {"all", "include", "redirect"}
         /\ r.kind \in {"include", "redirect"} => r.to \in Domain
         /\ r.kind \in {"all", "include"} => r.verdict \in Verdict
    BY DEF Record, All, Include, Redirect
<1>3. dns[c.name.domain] \in Record \cup {NoRecord, NoAnswer}
    BY <1>1
<1>4. Overridden(c) => overrides[Lowercase(c.name)] \in Record
    BY DEF Overridden
<1> QED
    BY <1>2, <1>3, <1>4 DEF LookupTxt, NoRecord, NoAnswer

LEMMA FollowTyped ==
    ASSUME NEW c \in CheckType, NEW pending \in Seq(Verdict), NEW d \in Domain
    PROVE  Typed(Follow(c, pending, d))
<1>1. [domain |-> d, caps |-> FALSE] \in Name
    BY DEF Name
<1>2. c.lookups + 1 \in Nat
    <2>1. c.lookups \in Nat
        BY DEF CheckType
    <2> QED
        BY <2>1
<1>3. "Permerror" \in Result
    BY DEF Result
<1> QED
    BY <1>1, <1>2, <1>3, DoneTyped, LookingUpTyped DEF Follow

LEMMA ApplyTyped ==
    ASSUME NEW c \in CheckType, NEW r,
           r.kind \in {"none", "timeout", "all", "include", "redirect"},
           r.kind \in {"include", "redirect"} => r.to \in Domain,
           r.kind \in {"all", "include"} => r.verdict \in Verdict
    PROVE  Typed(Apply(c, r))
<1>1. {"None", "Permerror", "Temperror"} \subseteq Result /\ Verdict \subseteq Result
    BY DEF Result
<1>2. c.pending \in Seq(Verdict)
    BY DEF CheckType
<1>3. CASE r.kind = "none"
    BY <1>1, <1>3, DoneTyped DEF Apply
<1>4. CASE r.kind = "timeout"
    BY <1>1, <1>4, DoneTyped DEF Apply
<1>5. CASE r.kind = "all"
    <2>1. FoldRight(Within, c.pending, r.verdict) \in Result
        BY <1>1, <1>2, <1>5, FoldIsResult
    <2>2. Apply(c, r) = Done(c, FoldRight(Within, c.pending, r.verdict))
        BY <1>5 DEF Apply
    <2> QED
        BY <2>1, <2>2, DoneTyped
<1>6. CASE r.kind = "include"
    <2>1. Append(c.pending, r.verdict) \in Seq(Verdict)
        BY <1>2, <1>6
    <2> QED
        BY <1>6, <2>1, FollowTyped DEF Apply
<1>7. CASE r.kind = "redirect"
    BY <1>2, <1>7, FollowTyped DEF Apply
<1> QED
    BY <1>3, <1>4, <1>5, <1>6, <1>7

LEMMA TypeInit == Init => TypeInv
<1> SUFFICES ASSUME Init PROVE TypeInv
    OBVIOUS
<1>1. << >> \in Seq(Verdict)
    OBVIOUS
<1>2. Typed(Unstarted) /\ Unstarted \in CheckType
    BY <1>1 DEF Unstarted, LookingUp, Typed, CheckType
<1> QED
    BY <1>2 DEF Init, TypeInv

LEMMA TypeNext == TypeInv /\ [Next]_vars => TypeInv'
<1> SUFFICES ASSUME TypeInv, [Next]_vars PROVE TypeInv'
    OBVIOUS
<1>0. \A id \in Identity : check[id] \in CheckType
    BY DEF TypeInv
<1>1. ASSUME NEW id \in Identity, NEW c, Becomes(id, c), Typed(c), asked' \subseteq Domain
      PROVE  TypeInv'
    <2>1. c \in CheckType
        BY <1>1 DEF Typed
    <2>2. check' \in [Identity -> CheckType]
        BY <1>1, <2>1 DEF TypeInv, Becomes
    <2>3. \A i \in Identity : Typed(check'[i])
        BY <1>1 DEF TypeInv, Becomes
    <2> QED
        BY <1>1, <2>2, <2>3 DEF TypeInv, Becomes
<1>2. ASSUME NEW id \in Identity, NEW identity \in Name \cup {Invalid}, Begin(id, identity)
      PROVE  TypeInv'
    <2>1. Typed(IF identity = Invalid THEN Done(check[id], "Permerror")
                ELSE LookingUp(identity, 0, << >>))
        <3>1. "Permerror" \in Result /\ 0 \in Nat /\ << >> \in Seq(Verdict)
            BY DEF Result
        <3> QED
            BY <1>0, <3>1, DoneTyped, LookingUpTyped
    <2>2. asked' \subseteq Domain
        BY <1>2 DEF Begin, TypeInv
    <2> QED
        BY <1>1, <1>2, <2>1, <2>2 DEF Begin
<1>3. CASE CheckHelo
    BY <1>2, <1>3 DEF CheckHelo, Identity, TypeInv
<1>4. CASE CheckMailFrom
    <2>1. (IF sender = Null THEN helo ELSE sender) \in Name \cup {Invalid}
        BY DEF TypeInv
    <2> QED
        BY <1>2, <1>4, <2>1 DEF CheckMailFrom, Identity
<1>5. ASSUME NEW id \in Identity, Step(id) PROVE TypeInv'
    <2> DEFINE c == check[id]
    <2>1. c.name \in Name
        BY <1>5 DEF TypeInv, Typed, Step
    <2>2. Typed(Apply(c, LookupTxt(c)))
        BY <1>0, <2>1, RecordTypes, ApplyTyped DEF TypeInv
    <2>3. asked' \subseteq Domain
        BY <1>5, <2>1 DEF Step, TypeInv, Name
    <2> QED
        BY <1>1, <1>5, <2>2, <2>3 DEF Step
<1>6. ASSUME NEW id \in Identity, TimeOut(id) PROVE TypeInv'
    <2>1. Typed([Done(check[id], "Temperror") EXCEPT !.pc = "timed out"])
        BY <1>0, DoneTyped DEF Result
    <2>2. asked' \subseteq Domain
        BY <1>6 DEF TimeOut, TypeInv
    <2> QED
        BY <1>1, <1>6, <2>1, <2>2 DEF TimeOut
<1>7. CASE UNCHANGED vars
    BY <1>7 DEF vars, TypeInv
<1> QED
    BY <1>3, <1>4, <1>5, <1>6, <1>7 DEF Next, Work

\* The state of the two checks has its types, and a check has a result of SPF
\* when it has ended, however deep its includes are (evaluator.rs:60-100).
THEOREM CheckTypes == Spec => []TypeOK
<1>1. TypeInv => TypeOK
    BY DEF TypeInv, Typed, CheckType, TypeOK, Ended
<1> QED
    BY <1>1, TypeInit, TypeNext, PTL DEF Spec

(***************************************************************************)
(* What is asked of the DNS.                                               *)
(***************************************************************************)

LEMMA AskedNext == TypeInv /\ OverriddenIsNotAsked /\ [Next]_vars => OverriddenIsNotAsked'
<1> SUFFICES ASSUME TypeInv, OverriddenIsNotAsked, [Next]_vars
             PROVE  OverriddenIsNotAsked'
    OBVIOUS
<1>1. ASSUME UNCHANGED <<overrides, asked>> PROVE OverriddenIsNotAsked'
    BY <1>1 DEF OverriddenIsNotAsked
<1>2. CASE CheckHelo \/ CheckMailFrom
    BY <1>1, <1>2 DEF CheckHelo, CheckMailFrom, Begin, Becomes
<1>3. ASSUME NEW id \in Identity, Step(id) PROVE OverriddenIsNotAsked'
    <2> DEFINE c == check[id]
    <2>1. c.name \in Name
        BY <1>3 DEF TypeInv, Typed, Step
    <2> SUFFICES ASSUME NEW k \in DOMAIN overrides, ~k.caps
                 PROVE  k.domain \notin asked'
        BY <1>3 DEF OverriddenIsNotAsked, Step, Becomes
    <2>2. k.domain \notin asked
        BY DEF OverriddenIsNotAsked
    <2>3. CASE Overridden(c)
        BY <1>3, <2>2, <2>3 DEF Step
    <2>4. CASE ~Overridden(c)
        <3>1. k = [domain |-> k.domain, caps |-> FALSE]
            BY DEF TypeInv, Name
        <3>2. Lowercase(c.name) = [domain |-> c.name.domain, caps |-> FALSE]
            <4>1. /\ Lowercase(c.name) \in Name
                  /\ Lowercase(c.name).domain = c.name.domain
                  /\ Lowercase(c.name).caps = FALSE
                BY <2>1 DEF Lowercase, Name
            <4> QED
                BY <4>1 DEF Name
        <3>3. Lowercase(c.name) \notin DOMAIN overrides
            BY <2>4 DEF Overridden
        <3>4. k.domain # c.name.domain
            BY <3>1, <3>2, <3>3
        <3> QED
            BY <1>3, <2>2, <2>4, <3>4 DEF Step
    <2> QED
        BY <2>3, <2>4
<1>4. ASSUME NEW id \in Identity, TimeOut(id) PROVE OverriddenIsNotAsked'
    BY <1>1, <1>4 DEF TimeOut, Becomes
<1>5. CASE UNCHANGED vars
    BY <1>1, <1>5 DEF vars
<1> QED
    BY <1>2, <1>3, <1>4, <1>5 DEF Next, Work

\* A domain whose override is written in lower case is never looked up in the
\* DNS, for all overrides, names and records (override_resolver.rs:45-53).
THEOREM NeverAsked == Spec => []OverriddenIsNotAsked
<1>1. Init => OverriddenIsNotAsked
    BY DEF Init, OverriddenIsNotAsked
<1> QED
    BY <1>1, TypeInit, TypeNext, AskedNext, PTL DEF Spec

(***************************************************************************)
(* A bounce.  Its two checks walk the same path of records, each at its    *)
(* own pace, and only the end of the path is a result.                     *)
(***************************************************************************)

\* What a check of the HELO name begins as.
Begun == IF helo = Invalid THEN Done(Unstarted, "Permerror") ELSE LookingUp(helo, 0, << >>)

\* p is a path of n lookups from there.
Path(p, n) ==
    /\ p[0] = Begun
    /\ \A i \in 0..(n - 1) : /\ p[i].pc = "lookup"
                             /\ p[i + 1] = Apply(p[i], LookupTxt(p[i]))

\* Every check that runs, or has ended by itself, is somewhere on the path.
On(p, n) ==
    \A id \in Identity :
        check[id].pc \in {"lookup", "done"} => \E i \in 0..n : check[id] = p[i]

BounceInv ==
    /\ \A id \in Identity :
          /\ check[id].pc \in {"unstarted", "lookup", "done", "timed out"}
          /\ check[id].pc = "unstarted" => check[id] = Unstarted
    /\ sender = Null => \E n \in Nat : \E p : Path(p, n) /\ On(p, n)

\* Where a check stands after a lookup.
LEMMA ApplyMoves ==
    ASSUME NEW c \in CheckType, NEW r,
           r.kind \in {"none", "timeout", "all", "include", "redirect"}
    PROVE  Apply(c, r).pc \in {"lookup", "done"}
<1>1. \A x : Done(c, x).pc = "done"
    BY DEF Done, CheckType
<1>2. \A name, k, q : LookingUp(name, k, q).pc = "lookup"
    BY DEF LookingUp
<1>3. \A d, q : Follow(c, q, d).pc \in {"lookup", "done"}
    BY <1>1, <1>2 DEF Follow
<1> QED
    BY <1>1, <1>3 DEF Apply

\* A path goes on with what its last check comes to.
LEMMA PathGrows ==
    ASSUME NEW n \in Nat, NEW p, Path(p, n), p[n].pc = "lookup"
    PROVE  \E q : /\ Path(q, n + 1) /\ q[n + 1] = Apply(p[n], LookupTxt(p[n]))
                  /\ \A i \in 0..n : q[i] = p[i]
<1> DEFINE q == [i \in 0..(n + 1) |-> IF i = n + 1 THEN Apply(p[n], LookupTxt(p[n])) ELSE p[i]]
<1>1. \A i \in 0..n : q[i] = p[i]
    OBVIOUS
<1>2. q[n + 1] = Apply(p[n], LookupTxt(p[n]))
    OBVIOUS
<1>3. q[0] = Begun
    BY <1>1 DEF Path
<1> HIDE DEF q
<1>4. \A i \in 0..n : q[i].pc = "lookup" /\ q[i + 1] = Apply(q[i], LookupTxt(q[i]))
    <2> TAKE i \in 0..n
    <2>1. CASE i = n
        BY <1>1, <1>2, <2>1
    <2>2. CASE i # n
        <3>1. i \in 0..(n - 1) /\ i + 1 \in 0..n
            BY <2>2
        <3>2. p[i].pc = "lookup" /\ p[i + 1] = Apply(p[i], LookupTxt(p[i]))
            BY <3>1 DEF Path
        <3> QED
            BY <1>1, <3>1, <3>2
    <2> QED
        BY <2>1, <2>2
<1>5. n + 1 - 1 = n
    OBVIOUS
<1>6. Path(q, n + 1)
    BY <1>3, <1>4, <1>5 DEF Path
<1> QED
    BY <1>1, <1>2, <1>6

LEMMA BounceInit == Init => BounceInv
<1> SUFFICES ASSUME Init PROVE BounceInv
    OBVIOUS
<1>1. \A id \in Identity : check[id] = Unstarted /\ check[id].pc = "unstarted"
    BY DEF Init, Unstarted, LookingUp
<1>2. Path([i \in {0} |-> Begun], 0)
    BY DEF Path
<1>3. \A p : On(p, 0)
    BY <1>1 DEF On
<1> QED
    BY <1>1, <1>2, <1>3 DEF BounceInv

LEMMA BounceNext == TypeInv /\ BounceInv /\ [Next]_vars => BounceInv'
<1> SUFFICES ASSUME TypeInv, BounceInv, [Next]_vars PROVE BounceInv'
    OBVIOUS
<1>1. \A id \in Identity : Typed(check[id]) /\ check[id] \in CheckType
    BY DEF TypeInv
\* A check that becomes c, on a path that c is on or that has ended for it.
<1>2. ASSUME NEW id \in Identity, NEW c, Becomes(id, c),
             c.pc \in {"lookup", "done", "timed out"},
             sender = Null =>
                \E n \in Nat : \E p :
                   /\ Path(p, n) /\ On(p, n)
                   /\ c.pc \in {"lookup", "done"} => \E i \in 0..n : c = p[i]
      PROVE  BounceInv'
    <2>1. \A i \in Identity : check'[i] = IF i = id THEN c ELSE check[i]
        BY <1>2 DEF TypeInv, Becomes
    <2>2. UNCHANGED <<helo, sender, overrides, dns>>
        BY <1>2 DEF Becomes
    <2>3. \A i \in Identity :
             /\ check'[i].pc \in {"unstarted", "lookup", "done", "timed out"}
             /\ check'[i].pc = "unstarted" => check'[i] = Unstarted
        BY <1>2, <2>1 DEF BounceInv
    <2>4. ASSUME sender = Null PROVE \E n \in Nat : \E p : Path(p, n)' /\ On(p, n)'
        <3> DEFINE Leads(n, p) ==
                 /\ Path(p, n) /\ On(p, n)
                 /\ c.pc \in {"lookup", "done"} => \E i \in 0..n : c = p[i]
        <3>4. PICK n \in Nat : \E p : Leads(n, p)
            BY <1>2, <2>4
        <3>5. PICK p : Leads(n, p)
            BY <3>4
        <3>1. /\ Path(p, n) /\ On(p, n)
              /\ c.pc \in {"lookup", "done"} => \E i \in 0..n : c = p[i]
            BY <3>5
        <3>2. Path(p, n)'
            BY <2>2, <3>1 DEF Path, Begun, LookupTxt, Overridden
        <3>3. On(p, n)'
            BY <2>1, <3>1 DEF On
        <3> QED
            BY <3>2, <3>3
    <2> QED
        BY <2>2, <2>3, <2>4 DEF BounceInv
<1>3. ASSUME NEW id \in Identity, NEW identity, Begin(id, identity),
             sender = Null => identity = helo
      PROVE  BounceInv'
    <2> DEFINE c == IF identity = Invalid THEN Done(check[id], "Permerror")
                    ELSE LookingUp(identity, 0, << >>)
    <2>1. check[id] = Unstarted /\ Becomes(id, c)
        BY <1>3 DEF Begin, BounceInv
    <2>2. c.pc \in {"lookup", "done", "timed out"}
        BY <1>1 DEF Done, CheckType, LookingUp
    <2>3. ASSUME sender = Null
          PROVE  \E n \in Nat : \E p : /\ Path(p, n) /\ On(p, n)
                                       /\ \E i \in 0..n : c = p[i]
        <3>0. PICK n \in Nat : \E p : Path(p, n) /\ On(p, n)
            BY <2>3 DEF BounceInv
        <3>1. PICK p : Path(p, n) /\ On(p, n)
            BY <3>0
        <3>2. c = p[0]
            BY <1>3, <2>1, <2>3, <3>1 DEF Path, Begun
        <3> QED
            BY <3>1, <3>2
    <2> HIDE DEF c
    <2> QED
        BY <1>2, <2>1, <2>2, <2>3
<1>4. CASE CheckHelo
    BY <1>3, <1>4 DEF CheckHelo, Identity
<1>5. CASE CheckMailFrom
    BY <1>3, <1>5 DEF CheckMailFrom, Identity
<1>6. ASSUME NEW id \in Identity, Step(id) PROVE BounceInv'
    <2> DEFINE c == Apply(check[id], LookupTxt(check[id]))
    <2>1. check[id].pc = "lookup" /\ Becomes(id, c)
        BY <1>6 DEF Step
    <2>2. c.pc \in {"lookup", "done"}
        <3>1. check[id].name \in Name
            BY <1>1, <2>1 DEF Typed
        <3>2. LookupTxt(check[id]).kind \in {"none", "timeout", "all", "include", "redirect"}
            BY <3>1, RecordTypes DEF TypeInv
        <3> QED
            BY <1>1, <3>2, ApplyMoves
    <2>3. ASSUME sender = Null
          PROVE  \E n \in Nat : \E p : /\ Path(p, n) /\ On(p, n)
                                       /\ \E i \in 0..n : c = p[i]
        <3>0. PICK n \in Nat : \E p : Path(p, n) /\ On(p, n)
            BY <2>3 DEF BounceInv
        <3>1. PICK p : Path(p, n) /\ On(p, n)
            BY <3>0
        <3>2. PICK i \in 0..n : check[id] = p[i]
            BY <2>1, <3>1 DEF On
        <3>3. CASE i # n
            <4>1. i \in 0..(n - 1) /\ i + 1 \in 0..n
                BY <3>3
            <4>2. c = p[i + 1]
                BY <3>1, <3>2, <4>1 DEF Path
            <4> QED
                BY <3>1, <4>1, <4>2
        <3>4. CASE i = n
            <4>1. PICK q : /\ Path(q, n + 1) /\ q[n + 1] = c
                           /\ \A k \in 0..n : q[k] = p[k]
                BY <2>1, <3>1, <3>2, <3>4, PathGrows
            <4>2. On(q, n + 1)
                BY <3>1, <4>1 DEF On
            <4>3. n + 1 \in Nat /\ n + 1 \in 0..(n + 1)
                OBVIOUS
            <4> QED
                BY <4>1, <4>2, <4>3
        <3> QED
            BY <3>3, <3>4
    <2> HIDE DEF c
    <2> QED
        BY <1>2, <2>1, <2>2, <2>3
<1>7. ASSUME NEW id \in Identity, TimeOut(id) PROVE BounceInv'
    <2> DEFINE c == [Done(check[id], "Temperror") EXCEPT !.pc = "timed out"]
    <2>1. Becomes(id, c)
        BY <1>7 DEF TimeOut
    <2>2. c.pc = "timed out"
        BY <1>1 DEF Done, CheckType
    <2> HIDE DEF c
    <2>3. sender = Null => \E n \in Nat : \E p : Path(p, n) /\ On(p, n)
        BY DEF BounceInv
    <2> QED
        BY <1>2, <2>1, <2>2, <2>3
<1>8. CASE UNCHANGED vars
    <2>1. UNCHANGED <<helo, sender, overrides, dns, check>>
        BY <1>8 DEF vars
    <2>2. \A n, p : Path(p, n)' <=> Path(p, n)
        BY <2>1 DEF Path, Begun, LookupTxt, Overridden
    <2>3. \A n, p : On(p, n)' <=> On(p, n)
        BY <2>1 DEF On
    <2> QED
        BY <2>1, <2>2, <2>3 DEF BounceInv
<1> QED
    BY <1>4, <1>5, <1>6, <1>7, <1>8 DEF Next, Work

\* A bounce is checked as its HELO name is: the two results are the same,
\* whatever the order of the lookups, wherever the records lead and whatever
\* the DNS says (evaluator.rs:75-77).
THEOREM BounceAsHelo == Spec => []BounceFollowsHelo
<1>1. BounceInv => BounceFollowsHelo
    <2> SUFFICES ASSUME BounceInv, sender = Null, \A id \in Identity : check[id].pc = "done"
                 PROVE  check["MailFrom"].result = check["Helo"].result
        BY DEF BounceFollowsHelo
    <2>0. PICK n \in Nat : \E p : Path(p, n) /\ On(p, n)
        BY DEF BounceInv
    <2>1. PICK p : Path(p, n) /\ On(p, n)
        BY <2>0
    <2>2. ASSUME NEW id \in Identity PROVE check[id] = p[n]
        <3>1. PICK i \in 0..n : check[id] = p[i]
            BY <2>1 DEF On
        <3>2. ~ (i \in 0..(n - 1))
            BY <2>1, <3>1 DEF Path
        <3>3. i = n
            BY <3>2
        <3> QED
            BY <3>1, <3>3
    <2>3. "MailFrom" \in Identity /\ "Helo" \in Identity
        BY DEF Identity
    <2> QED
        BY <2>2, <2>3
<1> QED
    BY <1>1, TypeInit, TypeNext, BounceInit, BounceNext, PTL DEF Spec
=============================================================================
