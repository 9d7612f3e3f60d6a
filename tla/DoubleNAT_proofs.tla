-------------------------- MODULE DoubleNAT_proofs --------------------------
(***************************************************************************)
(* Proofs about DoubleNAT for every set of configurations, any number of   *)
(* containers on both sides and any number of starts: packets arrive and   *)
(* their answers come back, new connections from the shoot are dropped,    *)
(* and answers pass.                                                       *)
(***************************************************************************)
EXTENDS DoubleNAT, Netmap_proofs

-----------------------------------------------------------------------------
\* The rules there are, and the steps of a plan.

Strings == {"any", "established", "icmpv6", "syn", "ACCEPT", "DROP", "TCPMSS",
            "MASQUERADE"}
Chains == {"INPUT", "OUTPUT", "PREROUTING", "POSTROUTING", "FORWARD", "mangle",
           "eth0"}
AllRules == [family : {4, 6}, chain : Chains, match : IPNets \cup Strings,
             to : IPNets \cup Strings]

AddSteps == {Unique(r) : r \in AllRules} \cup {Append1(r) : r \in AllRules} \cup {Fail}
AllSteps == AddSteps \cup {Remove(r) : r \in AllRules}

AddsRule(step, r) == step.op \in {"unique", "append"} /\ step.rule = r
Sets(p, r) == \E i \in DOMAIN p : AddsRule(p[i], r)
Fails(p) == \E i \in DOMAIN p : p[i].op = "fail"

\* What is left of a down script.
DownTail(p) ==
    /\ p \in Seq(AllSteps) /\ Len(p) <= 4
    /\ \A i \in DOMAIN p : p[i] = FirewallDown[4 - Len(p) + i]

Sides == {"seed", "shoot"}
States == {"stopped", "setup", "running", "down"}

TypeInv ==
    /\ cfg \in Configs
    /\ rules \in [Sides -> Seq(AllRules)]
    /\ pc \in [Containers -> States]
    /\ plan \in [Containers -> Seq(AllSteps)]
    /\ checked \in [Containers -> BOOLEAN]
    /\ interrupted \in BOOLEAN

\* A plan is empty outside of the setup and the down script; only the VPN
\* server, which is alone on its side, has a down script.
FlowInv(c) ==
    /\ pc[c] \in {"stopped", "running"} => plan[c] = <<>>
    /\ pc[c] = "setup" => plan[c] \in Seq(AddSteps)
    /\ pc[c] = "down" => c = Server /\ ~IsHA /\ DownTail(plan[c])
    /\ c \in SeedContainers /\ pc[c] # "stopped" => IsHA \/ c = Server
    /\ checked[c] => plan[c] # <<>> /\ Head(plan[c]).op = "unique"

-----------------------------------------------------------------------------
\* The mappings of the three kinds of networks and their rules.

Kinds == {"pods", "services", "nodes"}
RangeOf(k) == IF k = "pods" THEN PodMapped
              ELSE IF k = "services" THEN ServiceMapped ELSE NodeMapped
MappingsOf(k) == IF k = "pods" THEN PodMappings
                 ELSE IF k = "services" THEN ServiceMappings ELSE NodeMappings

IsMapped(src, dst) ==
    \E k \in Kinds : src \in DOMAIN MappingsOf(k).result
                     /\ dst = MappingsOf(k).result[src]

OutRule(r) == \E src, dst \in IPNets : IsMapped(src, dst) /\ r = Rule(4, "OUTPUT", src, dst)
InRule(r) == \E src, dst \in IPNets : IsMapped(src, dst) /\ r = Rule(4, "PREROUTING", dst, src)
SeedPodRule(r) == IsIPv4(cfg.seedPod)
                  /\ r = Rule(4, "POSTROUTING", cfg.seedPod, SeedMapped)
IcmpRule == Rule(6, "INPUT", "icmpv6", "ACCEPT")
InputRule(r) == r = IcmpRule \/ \E f \in {4, 6} : r \in {Established(f), DropNew(f)}

\* The rules that may be there; the server never looks for an INPUT rule.
Possible(s, r) ==
    IF s = "seed"
    THEN /\ r.chain = "INPUT" => InputRule(r)
         /\ r.chain = "OUTPUT" => doNetmap /\ MappingFits /\ OutRule(r)
         /\ r.chain = "POSTROUTING" => doNetmap /\ SeedPodRule(r)
    ELSE r.chain = "PREROUTING" => doNetmap /\ MappingFits /\ InRule(r)

PossibleStep(s, step) ==
    step.op \in {"unique", "append"} =>
        /\ Possible(s, step.rule)
        /\ step.op = "unique" /\ s = "seed" /\ ~IsHA => step.rule.chain # "INPUT"

\* The rules that have to be there.
Mapping == doNetmap /\ cfg.families[1] = 4
Required(s, r) ==
    IF s = "seed"
    THEN \/ \E f \in FilteredFamilies : r = DropNew(f)
         \/ Mapping /\ (OutRule(r) \/ SeedPodRule(r))
    ELSE Mapping /\ InRule(r)

RulesPossible ==
    /\ \A s \in Sides : \A i \in DOMAIN rules[s] : Possible(s, rules[s][i])
    /\ \A c \in Containers : \A i \in DOMAIN plan[c] : PossibleStep(Side(c), plan[c][i])

\* A required rule is set or will be, unless the setup is bound to fail.
Covered(c) ==
    pc[c] \in {"setup", "running"} =>
        \/ Fails(plan[c])
        \/ /\ Mapping => MappingFits
           /\ \A r \in AllRules : Required(Side(c), r) =>
                 Has(Side(c), r) \/ Sets(plan[c], r)

-----------------------------------------------------------------------------
\* The order of the rules that accept answers (e) and drop the rest (d).

\* Each d comes after an e; if strict with no other d in between.
Guarded(q, e, d, strict) ==
    \A i \in DOMAIN q : q[i] = d =>
        \E j \in DOMAIN q : /\ j < i /\ q[j] = e
                            /\ strict => \A k \in DOMAIN q : j < k /\ k < i => q[k] # d

\* The same but for the first d, when the down script has deleted an e.
GuardedButFirst(q, e, d) ==
    \A i, h \in DOMAIN q : q[i] = d /\ q[h] = d /\ h < i =>
        \E j \in DOMAIN q : /\ j < i /\ q[j] = e
                            /\ \A k \in DOMAIN q : j < k /\ k < i => q[k] # d

\* A d may follow.
Open(q, e, d, strict) ==
    \E j \in DOMAIN q : q[j] = e /\ (strict => \A k \in DOMAIN q : j < k => q[k] # d)

PlanGuarded(p, q, e, d, strict) ==
    \A i \in DOMAIN p : AddsRule(p[i], d) =>
        \/ \E j \in DOMAIN p :
              /\ j < i /\ AddsRule(p[j], e)
              /\ strict => \A k \in DOMAIN p : j < k /\ k < i => ~AddsRule(p[k], d)
        \/ /\ Open(q, e, d, strict)
           /\ strict => \A k \in DOMAIN p : k < i => ~AddsRule(p[k], d)

\* The down script has deleted Established(f) and not yet DropNew(f).
Half(f) ==
    /\ pc[Server] = "down"
    /\ Len(plan[Server]) \in (IF f = 4 THEN {2, 3} ELSE {1, 2})

OrderInv(f) ==
    LET e == Established(f)
        d == DropNew(f)
    IN  /\ IF Half(f) THEN GuardedButFirst(rules["seed"], e, d)
                      ELSE Guarded(rules["seed"], e, d, ~IsHA)
        /\ \A c \in SeedContainers : PlanGuarded(plan[c], rules["seed"], e, d, ~IsHA)

NATInv ==
    /\ TypeInv
    /\ \A c \in Containers : FlowInv(c)
    /\ RulesPossible
    /\ \A c \in Containers : Covered(c)
    /\ ~interrupted => \A f \in {4, 6} : OrderInv(f)

-----------------------------------------------------------------------------
\* Rules and steps.

LEMMA RuleFields ==
    ASSUME NEW f, NEW chain, NEW match, NEW to
    PROVE  /\ Rule(f, chain, match, to).family = f
           /\ Rule(f, chain, match, to).chain = chain
           /\ Rule(f, chain, match, to).match = match
           /\ Rule(f, chain, match, to).to = to
  BY DEF Rule

LEMMA InputRules ==
    ASSUME NEW f \in {4, 6}
    PROVE  /\ Established(f) \in AllRules /\ DropNew(f) \in AllRules
           /\ InputRule(Established(f)) /\ InputRule(DropNew(f))
           /\ Established(f).chain = "INPUT" /\ DropNew(f).chain = "INPUT"
           /\ Established(f).family = f /\ DropNew(f).family = f
           /\ Established(f).match = "established" /\ DropNew(f).match = "any"
           /\ Established(f).to = "ACCEPT" /\ DropNew(f).to = "DROP"
  BY DEF Established, DropNew, Rule, InputRule, AllRules, Chains, Strings

LEMMA InputRulesDiffer ==
    ASSUME NEW f \in {4, 6}, NEW g \in {4, 6}
    PROVE  /\ Established(f) # DropNew(g)
           /\ f # g => Established(f) # Established(g) /\ DropNew(f) # DropNew(g)
<1>1. Established(f).match # DropNew(g).match
  BY InputRules
<1>2. f # g => /\ Established(f).family # Established(g).family
               /\ DropNew(f).family # DropNew(g).family
  BY InputRules
<1> QED
  BY <1>1, <1>2

LEMMA StepType ==
    /\ \A r \in AllRules : /\ Unique(r) \in AddSteps /\ Append1(r) \in AddSteps
                           /\ Remove(r) \in AllSteps
    /\ Fail \in AddSteps /\ AddSteps \subseteq AllSteps
    /\ \A r : /\ Unique(r).op = "unique" /\ Unique(r).rule = r
              /\ Append1(r).op = "append" /\ Append1(r).rule = r
              /\ Remove(r).op = "delete" /\ Remove(r).rule = r
    /\ Fail.op = "fail"
    /\ \A x \in AllSteps : /\ x.op \in {"unique", "append", "delete", "fail"}
                           /\ x.op # "fail" => x.rule \in AllRules
    /\ \A x \in AddSteps : x.op # "delete"
<1>1. /\ \A r : /\ Unique(r).op = "unique" /\ Unique(r).rule = r
                /\ Append1(r).op = "append" /\ Append1(r).rule = r
                /\ Remove(r).op = "delete" /\ Remove(r).rule = r
      /\ Fail.op = "fail"
  BY DEF Unique, Append1, Remove, Fail
<1>2. \A x \in AddSteps : \/ x.op \in {"unique", "append"} /\ x.rule \in AllRules
                          \/ x.op = "fail"
  <2> SUFFICES ASSUME NEW x \in AddSteps
               PROVE  \/ x.op \in {"unique", "append"} /\ x.rule \in AllRules
                      \/ x.op = "fail"
    OBVIOUS
  <2>1. CASE x = Fail
    BY <1>1, <2>1
  <2>2. CASE \E r \in AllRules : x = Unique(r)
    BY <1>1, <2>2
  <2>3. CASE \E r \in AllRules : x = Append1(r)
    BY <1>1, <2>3
  <2> QED
    BY <2>1, <2>2, <2>3 DEF AddSteps
<1>3. \A x \in AllSteps : \/ x \in AddSteps
                          \/ x.op = "delete" /\ x.rule \in AllRules
  <2> SUFFICES ASSUME NEW x \in AllSteps, x \notin AddSteps
               PROVE  x.op = "delete" /\ x.rule \in AllRules
    OBVIOUS
  <2>1. PICK r \in AllRules : x = Remove(r)
    BY DEF AllSteps
  <2> QED
    BY <1>1, <2>1
<1>4. /\ \A r \in AllRules : /\ Unique(r) \in AddSteps /\ Append1(r) \in AddSteps
                             /\ Remove(r) \in AllSteps
      /\ Fail \in AddSteps /\ AddSteps \subseteq AllSteps
  BY DEF AddSteps, AllSteps
<1> QED
  BY <1>1, <1>2, <1>3, <1>4

-----------------------------------------------------------------------------
\* Sequences.

LEMMA TailFacts ==
    ASSUME NEW S, NEW p \in Seq(S), p # <<>>
    PROVE  /\ Head(p) = p[1] /\ 1 \in DOMAIN p /\ Head(p) \in S
           /\ Tail(p) \in Seq(S) /\ Len(Tail(p)) = Len(p) - 1
           /\ \A i \in DOMAIN Tail(p) :
                 i \in Nat /\ i + 1 \in DOMAIN p /\ Tail(p)[i] = p[i + 1]
           /\ \A i \in DOMAIN p :
                 i # 1 => /\ i - 1 \in DOMAIN Tail(p) /\ p[i] = Tail(p)[i - 1]
                          /\ 1 < i
  OBVIOUS

LEMMA AppendFacts ==
    ASSUME NEW S, NEW q \in Seq(S), NEW x \in S
    PROVE  /\ Append(q, x) \in Seq(S)
           /\ DOMAIN Append(q, x) = DOMAIN q \cup {Len(q) + 1}
           /\ \A i \in DOMAIN q : /\ Append(q, x)[i] = q[i]
                                  /\ i \in Nat /\ i < Len(q) + 1
           /\ Append(q, x)[Len(q) + 1] = x /\ Len(q) + 1 \in Nat
  OBVIOUS

LEMMA ConcatFacts ==
    ASSUME NEW S, NEW p \in Seq(S), NEW q \in Seq(S)
    PROVE  /\ p \o q \in Seq(S)
           /\ DOMAIN (p \o q) = 1 .. Len(p) + Len(q) /\ Len(p) \in Nat /\ Len(q) \in Nat
           /\ DOMAIN p = 1 .. Len(p) /\ DOMAIN q = 1 .. Len(q)
           /\ \A i \in 1 .. Len(p) : (p \o q)[i] = p[i]
           /\ \A i \in 1 .. Len(q) : (p \o q)[Len(p) + i] = q[i]
           /\ \A i \in 1 .. Len(p) + Len(q) :
                 i > Len(p) => i - Len(p) \in 1 .. Len(q) /\ (p \o q)[i] = q[i - Len(p)]
  OBVIOUS

LEMMA FirstHit ==
    ASSUME NEW H, H \subseteq Nat, H # {}
    PROVE  Min(H) \in H /\ \A y \in H : Min(H) <= y
<1>1. \E x \in H : \A y \in H : x <= y
  BY LeastNumber
<1> QED
  BY <1>1 DEF Min

\* DeleteIfExists: q2 is q without its position x.
Without(q, x, q2) ==
    /\ \A i \in DOMAIN q2 :
          LET j == IF i < x THEN i ELSE i + 1
          IN  j \in DOMAIN q /\ j # x /\ q2[i] = q[j]
    /\ \A j \in DOMAIN q \ {x} :
          LET i == IF j < x THEN j ELSE j - 1
          IN  i \in DOMAIN q2 /\ q2[i] = q[j]
    /\ DOMAIN q \subseteq Nat /\ DOMAIN q2 \subseteq Nat /\ x \in DOMAIN q

LEMMA Deletion ==
    ASSUME NEW S, NEW q \in Seq(S), NEW x \in DOMAIN q
    PROVE  LET q2 == SubSeq(q, 1, x - 1) \o SubSeq(q, x + 1, Len(q))
           IN  q2 \in Seq(S) /\ Without(q, x, q2)
<1> DEFINE a == SubSeq(q, 1, x - 1)
           b == SubSeq(q, x + 1, Len(q))
           q2 == a \o b
<1>0. x \in 1 .. Len(q) /\ Len(q) \in Nat /\ DOMAIN q = 1 .. Len(q)
  OBVIOUS
<1>1. a \in Seq(S) /\ Len(a) = x - 1 /\ \A i \in 1 .. x - 1 : a[i] = q[i]
  BY <1>0
<1>2. b \in Seq(S) /\ Len(b) = Len(q) - x /\ \A i \in 1 .. Len(q) - x : b[i] = q[x + i]
  BY <1>0
<1> HIDE DEF a, b
<1>3. /\ q2 \in Seq(S) /\ DOMAIN q2 = 1 .. Len(a) + Len(b)
      /\ \A i \in 1 .. Len(a) : q2[i] = a[i]
      /\ \A i \in 1 .. Len(a) + Len(b) : i > Len(a) =>
            i - Len(a) \in 1 .. Len(b) /\ q2[i] = b[i - Len(a)]
  <2>1. a \in Seq(S) /\ b \in Seq(S)
    BY <1>1, <1>2
  <2> QED
    BY <2>1
<1>6. Len(a) + Len(b) = Len(q) - 1
  BY <1>0, <1>1, <1>2
<1> HIDE DEF q2
<1>4. ASSUME NEW i \in 1 .. Len(q) - 1
      PROVE  q2[i] = q[IF i < x THEN i ELSE i + 1]
  <2>1. CASE i < x
    <3>1. i \in 1 .. x - 1 /\ i \in 1 .. Len(a)
      BY <1>0, <1>1, <2>1
    <3> QED
      BY <1>1, <1>3, <2>1, <3>1
  <2>2. CASE ~ (i < x)
    <3> DEFINE k == i - (x - 1)
    <3>1. k \in 1 .. Len(q) - x /\ x + k = i + 1 /\ i > Len(a) /\ k = i - Len(a)
      BY <1>0, <1>1, <2>2
    <3>2. q2[i] = b[k]
      BY <1>3, <1>6, <3>1
    <3> HIDE DEF k
    <3> QED
      BY <1>2, <2>2, <3>1, <3>2
  <2> QED
    BY <2>1, <2>2
<1>5. Without(q, x, q2)
  <2>0. DOMAIN q2 = 1 .. Len(q) - 1
    BY <1>3, <1>6
  <2>1. ASSUME NEW i \in DOMAIN q2
        PROVE  LET j == IF i < x THEN i ELSE i + 1
               IN  j \in DOMAIN q /\ j # x /\ q2[i] = q[j]
    <3>1. q2[i] = q[IF i < x THEN i ELSE i + 1]
      BY <1>4, <2>0
    <3>2. (IF i < x THEN i ELSE i + 1) \in 1 .. Len(q) \ {x}
      BY <1>0, <2>0
    <3> QED
      BY <1>0, <3>1, <3>2
  <2>2. ASSUME NEW j \in DOMAIN q \ {x}
        PROVE  LET i == IF j < x THEN j ELSE j - 1
               IN  i \in DOMAIN q2 /\ q2[i] = q[j]
    <3> DEFINE i == IF j < x THEN j ELSE j - 1
    <3>1. i \in 1 .. Len(q) - 1 /\ (IF i < x THEN i ELSE i + 1) = j
      BY <1>0
    <3> HIDE DEF i
    <3>2. i \in DOMAIN q2 /\ q2[i] = q[j]
      BY <1>4, <2>0, <3>1
    <3> QED
      BY <3>2 DEF i
  <2>3. DOMAIN q \subseteq Nat /\ DOMAIN q2 \subseteq Nat
    BY <1>0, <2>0
  <2> QED
    BY <2>1, <2>2, <2>3 DEF Without
<1> QED
  BY <1>3, <1>5 DEF q2, a, b

-----------------------------------------------------------------------------
\* The order of the rules.

LEMMA AppendGuarded ==
    ASSUME NEW S, NEW q \in Seq(S), NEW x \in S, NEW e, NEW d, NEW strict \in BOOLEAN,
           Guarded(q, e, d, strict), x = d => Open(q, e, d, strict)
    PROVE  Guarded(Append(q, x), e, d, strict)
<1> DEFINE q2 == Append(q, x)
           n == Len(q) + 1
<1>1. /\ DOMAIN q2 = DOMAIN q \cup {n} /\ q2[n] = x /\ n \in Nat
      /\ \A i \in DOMAIN q : q2[i] = q[i] /\ i \in Nat /\ i < n
  BY AppendFacts
<1> HIDE DEF q2, n
<1> SUFFICES ASSUME NEW i \in DOMAIN q2, q2[i] = d
             PROVE  \E j \in DOMAIN q2 :
                       /\ j < i /\ q2[j] = e
                       /\ strict => \A k \in DOMAIN q2 : j < k /\ k < i => q2[k] # d
  BY DEF Guarded, q2
<1>2. CASE i \in DOMAIN q
  <2>1. PICK j \in DOMAIN q :
           /\ j < i /\ q[j] = e
           /\ strict => \A k \in DOMAIN q : j < k /\ k < i => q[k] # d
    BY <1>1, <1>2 DEF Guarded
  <2>2. n < i => FALSE
    BY <1>1, <1>2
  <2> QED
    BY <1>1, <1>2, <2>1, <2>2
<1>3. CASE i = n
  <2>1. PICK j \in DOMAIN q : q[j] = e /\ (strict => \A k \in DOMAIN q : j < k => q[k] # d)
    BY <1>1, <1>3 DEF Open
  <2> QED
    BY <1>1, <1>3, <2>1
<1> QED
  BY <1>1, <1>2, <1>3

LEMMA AppendOpen ==
    ASSUME NEW S, NEW q \in Seq(S), NEW x \in S, NEW e, NEW d, NEW strict \in BOOLEAN
    PROVE  /\ x = e /\ e # d => Open(Append(q, x), e, d, strict)
           /\ Open(q, e, d, strict) /\ (strict => x # d) => Open(Append(q, x), e, d, strict)
<1> DEFINE q2 == Append(q, x)
           n == Len(q) + 1
<1>1. /\ DOMAIN q2 = DOMAIN q \cup {n} /\ q2[n] = x /\ n \in Nat
      /\ \A i \in DOMAIN q : q2[i] = q[i] /\ i \in Nat /\ i < n
  BY AppendFacts
<1> HIDE DEF q2, n
<1>2. x = e /\ e # d => Open(q2, e, d, strict)
  <2>1. \A k \in DOMAIN q2 : n < k => FALSE
    BY <1>1
  <2> QED
    BY <1>1, <2>1 DEF Open
<1>3. Open(q, e, d, strict) /\ (strict => x # d) => Open(q2, e, d, strict)
  BY <1>1 DEF Open
<1> QED
  BY <1>2, <1>3 DEF q2

\* The next step of a plan is done.
LEMMA TailPlanGuarded ==
    ASSUME NEW p \in Seq(AllSteps), p # <<>>, NEW q, NEW q2, NEW e, NEW d,
           NEW strict \in BOOLEAN, PlanGuarded(p, q, e, d, strict),
           AddsRule(Head(p), e) => Open(q2, e, d, strict),
           Open(q, e, d, strict) /\ (strict => ~AddsRule(Head(p), d)) =>
               Open(q2, e, d, strict)
    PROVE  PlanGuarded(Tail(p), q2, e, d, strict)
<1> DEFINE t == Tail(p)
<1>1. /\ Head(p) = p[1] /\ 1 \in DOMAIN p
      /\ \A i \in DOMAIN t : i \in Nat /\ i + 1 \in DOMAIN p /\ t[i] = p[i + 1]
      /\ \A i \in DOMAIN p : i # 1 => i - 1 \in DOMAIN t /\ p[i] = t[i - 1] /\ 1 < i
      /\ DOMAIN p \subseteq Nat
  BY TailFacts
<1> HIDE DEF t
<1> SUFFICES ASSUME NEW i \in DOMAIN t, AddsRule(t[i], d)
             PROVE  \/ \E j \in DOMAIN t :
                          /\ j < i /\ AddsRule(t[j], e)
                          /\ strict => \A k \in DOMAIN t :
                                j < k /\ k < i => ~AddsRule(t[k], d)
                    \/ /\ Open(q2, e, d, strict)
                       /\ strict => \A k \in DOMAIN t : k < i => ~AddsRule(t[k], d)
  BY DEF PlanGuarded, t
<1>2. i + 1 \in DOMAIN p /\ AddsRule(p[i + 1], d)
  BY <1>1
<1>3. ASSUME NEW j \in DOMAIN p, j < i + 1, AddsRule(p[j], e),
             strict => \A k \in DOMAIN p : j < k /\ k < i + 1 => ~AddsRule(p[k], d)
      PROVE  \/ \E l \in DOMAIN t :
                   /\ l < i /\ AddsRule(t[l], e)
                   /\ strict => \A k \in DOMAIN t : l < k /\ k < i => ~AddsRule(t[k], d)
             \/ /\ Open(q2, e, d, strict)
                /\ strict => \A k \in DOMAIN t : k < i => ~AddsRule(t[k], d)
  <2>1. ASSUME strict, NEW k \in DOMAIN t, j - 1 < k, k < i PROVE ~AddsRule(t[k], d)
    <3>1. k + 1 \in DOMAIN p /\ t[k] = p[k + 1] /\ k \in Nat /\ i \in Nat /\ j \in Nat
      BY <1>1
    <3>2. j < k + 1 /\ k + 1 < i + 1
      BY <2>1, <3>1
    <3> QED
      BY <1>3, <2>1, <3>1, <3>2
  <2>2. CASE j = 1
    <3>1. \A k \in DOMAIN t : j - 1 < k
      <4>1. \A k \in DOMAIN t : k \in Nat /\ k # 0
        BY DEF t
      <4> QED
        BY <2>2, <4>1
    <3> QED
      BY <1>1, <1>3, <2>1, <2>2, <3>1
  <2>3. CASE j # 1
    <3>0. j - 1 \in DOMAIN t /\ t[j - 1] = p[j] /\ i \in Nat /\ j \in Nat
      BY <1>1, <2>3
    <3>1. j - 1 \in DOMAIN t /\ t[j - 1] = p[j] /\ j - 1 < i
      BY <1>3, <3>0
    <3> QED
      BY <1>3, <2>1, <3>1
  <2> QED
    BY <2>2, <2>3
<1>4. ASSUME Open(q, e, d, strict),
             strict => \A k \in DOMAIN p : k < i + 1 => ~AddsRule(p[k], d)
      PROVE  /\ Open(q2, e, d, strict)
             /\ strict => \A k \in DOMAIN t : k < i => ~AddsRule(t[k], d)
  <2>1. strict => ~AddsRule(Head(p), d)
    <3>1. 1 < i + 1
      BY <1>1 DEF t
    <3> QED
      BY <1>1, <1>4, <3>1
  <2>2. ASSUME strict, NEW k \in DOMAIN t, k < i PROVE ~AddsRule(t[k], d)
    BY <1>1, <1>4, <2>2
  <2> QED
    BY <1>4, <2>1, <2>2
<1> QED
  BY <1>2, <1>3, <1>4 DEF PlanGuarded

\* A rule is deleted: another one, the first e, or the first d.
LEMMA DeleteOther ==
    ASSUME NEW q, NEW x, NEW q2, Without(q, x, q2), NEW e, NEW d,
           q[x] # e, q[x] # d
    PROVE  /\ Guarded(q, e, d, TRUE) => Guarded(q2, e, d, TRUE)
           /\ GuardedButFirst(q, e, d) => GuardedButFirst(q2, e, d)
<1> DEFINE up(i) == IF i < x THEN i ELSE i + 1
           down(j) == IF j < x THEN j ELSE j - 1
<1>1. /\ \A i \in DOMAIN q2 : up(i) \in DOMAIN q /\ up(i) # x /\ q2[i] = q[up(i)]
      /\ \A j \in DOMAIN q \ {x} : down(j) \in DOMAIN q2 /\ q2[down(j)] = q[j]
      /\ DOMAIN q \subseteq Nat /\ DOMAIN q2 \subseteq Nat /\ x \in Nat
  BY DEF Without
<1>2. ASSUME NEW i \in DOMAIN q2, NEW j \in DOMAIN q, j < up(i), q[j] = e,
             \A k \in DOMAIN q : j < k /\ k < up(i) => q[k] # d
      PROVE  \E l \in DOMAIN q2 :
                l < i /\ q2[l] = e /\ \A k \in DOMAIN q2 : l < k /\ k < i => q2[k] # d
  <2>1. down(j) \in DOMAIN q2 /\ q2[down(j)] = e /\ down(j) < i
    BY <1>1, <1>2
  <2>2. ASSUME NEW k \in DOMAIN q2, down(j) < k, k < i PROVE q2[k] # d
    <3>1. up(k) \in DOMAIN q /\ j < up(k) /\ up(k) < up(i) /\ q2[k] = q[up(k)]
      BY <1>1, <1>2, <2>2
    <3> QED
      BY <1>2, <3>1
  <2> QED
    BY <2>1, <2>2
<1>3. ASSUME Guarded(q, e, d, TRUE), NEW i \in DOMAIN q2, q2[i] = d
      PROVE  \E l \in DOMAIN q2 :
                l < i /\ q2[l] = e /\ \A k \in DOMAIN q2 : l < k /\ k < i => q2[k] # d
  <2>1. up(i) \in DOMAIN q /\ q[up(i)] = d
    BY <1>1, <1>3
  <2> QED
    BY <1>2, <1>3, <2>1 DEF Guarded
<1>4. ASSUME GuardedButFirst(q, e, d), NEW i \in DOMAIN q2, NEW h \in DOMAIN q2,
             q2[i] = d, q2[h] = d, h < i
      PROVE  \E l \in DOMAIN q2 :
                l < i /\ q2[l] = e /\ \A k \in DOMAIN q2 : l < k /\ k < i => q2[k] # d
  <2>1. /\ up(i) \in DOMAIN q /\ q[up(i)] = d /\ up(h) \in DOMAIN q /\ q[up(h)] = d
        /\ up(h) < up(i)
    BY <1>1, <1>4
  <2> QED
    BY <1>2, <1>4, <2>1 DEF GuardedButFirst
<1> QED
  BY <1>3, <1>4 DEF Guarded, GuardedButFirst

LEMMA DeleteFirstEstablished ==
    ASSUME NEW q, NEW x, NEW q2, Without(q, x, q2), NEW e, NEW d, e # d,
           q[x] = e, \A y \in DOMAIN q : q[y] = e => x <= y,
           Guarded(q, e, d, TRUE)
    PROVE  GuardedButFirst(q2, e, d)
<1> DEFINE up(i) == IF i < x THEN i ELSE i + 1
           down(j) == IF j < x THEN j ELSE j - 1
<1>1. /\ \A i \in DOMAIN q2 : up(i) \in DOMAIN q /\ up(i) # x /\ q2[i] = q[up(i)]
      /\ \A j \in DOMAIN q \ {x} : down(j) \in DOMAIN q2 /\ q2[down(j)] = q[j]
      /\ DOMAIN q \subseteq Nat /\ DOMAIN q2 \subseteq Nat /\ x \in Nat
  BY DEF Without
<1> SUFFICES ASSUME NEW i \in DOMAIN q2, NEW h \in DOMAIN q2,
                    q2[i] = d, q2[h] = d, h < i
             PROVE  \E l \in DOMAIN q2 : /\ l < i /\ q2[l] = e
                       /\ \A k \in DOMAIN q2 : l < k /\ k < i => q2[k] # d
  BY DEF GuardedButFirst
<1>2. /\ up(i) \in DOMAIN q /\ q[up(i)] = d /\ up(h) \in DOMAIN q /\ q[up(h)] = d
      /\ up(h) < up(i)
  BY <1>1
<1>3. PICK j \in DOMAIN q : /\ j < up(i) /\ q[j] = e
                            /\ \A k \in DOMAIN q : j < k /\ k < up(i) => q[k] # d
  BY <1>2 DEF Guarded
<1>4. PICK g \in DOMAIN q : g < up(h) /\ q[g] = e
  BY <1>2 DEF Guarded
<1>5. j # x
  <2>1. ~ (j < up(h)) /\ j # up(h)
    BY <1>2, <1>3
  <2>2. g < j /\ x <= g
    BY <1>1, <1>2, <1>3, <1>4, <2>1
  <2> QED
    BY <1>1, <1>3, <1>4, <2>2
<1>6. down(j) \in DOMAIN q2 /\ q2[down(j)] = e /\ down(j) < i
  BY <1>1, <1>3, <1>5
<1>7. ASSUME NEW k \in DOMAIN q2, down(j) < k, k < i PROVE q2[k] # d
  <2>1. up(k) \in DOMAIN q /\ j < up(k) /\ up(k) < up(i) /\ q2[k] = q[up(k)]
    BY <1>1, <1>3, <1>5, <1>7
  <2> QED
    BY <1>3, <2>1
<1> QED
  BY <1>6, <1>7

LEMMA DeleteFirstDrop ==
    ASSUME NEW q, NEW x, NEW q2, Without(q, x, q2), NEW e, NEW d, e # d,
           q[x] = d, \A y \in DOMAIN q : q[y] = d => x <= y,
           GuardedButFirst(q, e, d)
    PROVE  Guarded(q2, e, d, TRUE)
<1> DEFINE up(i) == IF i < x THEN i ELSE i + 1
           down(j) == IF j < x THEN j ELSE j - 1
<1>1. /\ \A i \in DOMAIN q2 : up(i) \in DOMAIN q /\ up(i) # x /\ q2[i] = q[up(i)]
      /\ \A j \in DOMAIN q \ {x} : down(j) \in DOMAIN q2 /\ q2[down(j)] = q[j]
      /\ DOMAIN q \subseteq Nat /\ DOMAIN q2 \subseteq Nat /\ x \in DOMAIN q
  BY DEF Without
<1> SUFFICES ASSUME NEW i \in DOMAIN q2, q2[i] = d
             PROVE  \E l \in DOMAIN q2 : /\ l < i /\ q2[l] = e
                       /\ \A k \in DOMAIN q2 : l < k /\ k < i => q2[k] # d
  BY DEF Guarded
<1>2. up(i) \in DOMAIN q /\ q[up(i)] = d /\ x < up(i)
  BY <1>1
<1>3. PICK j \in DOMAIN q : /\ j < up(i) /\ q[j] = e
                            /\ \A k \in DOMAIN q : j < k /\ k < up(i) => q[k] # d
  BY <1>1, <1>2 DEF GuardedButFirst
<1>4. j # x /\ down(j) \in DOMAIN q2 /\ q2[down(j)] = e /\ down(j) < i
  BY <1>1, <1>3
<1>5. ASSUME NEW k \in DOMAIN q2, down(j) < k, k < i PROVE q2[k] # d
  <2>1. up(k) \in DOMAIN q /\ j < up(k) /\ up(k) < up(i) /\ q2[k] = q[up(k)]
    BY <1>1, <1>3, <1>4, <1>5
  <2> QED
    BY <1>3, <2>1
<1> QED
  BY <1>4, <1>5

-----------------------------------------------------------------------------
\* The mappings of a configuration.

ListOf(k) == IF k = "pods" THEN cfg.pods
             ELSE IF k = "services" THEN cfg.services ELSE cfg.nodes

LEMMA ListType ==
    ASSUME cfg \in Configs, NEW k \in Kinds
    PROVE  DOMAIN ListOf(k) = 1 .. Len(ListOf(k)) /\ Len(ListOf(k)) \in Nat
<1>1. IsList(ListOf(k))
  BY DoubleNATAssumption DEF ConfigType, ListOf, Kinds
<1> HIDE DEF ListOf
<1> QED
  BY <1>1 DEF IsList

LEMMA Ranges ==
    ASSUME NEW k \in Kinds
    PROVE  RangeOf(k) \in IPNets /\ RangeOf(k).prefix > 0
           /\ MappingsOf(k) = NetmapSubnets(ListOf(k), RangeOf(k))
<1>1. RangeOf(k) \in IPNets
  BY DoubleNATAssumption DEF RangeOf, Kinds
<1>2. RangeOf(k).prefix > 0
  BY DoubleNATAssumption DEF RangeOf, Kinds
<1>3. MappingsOf(k) = NetmapSubnets(ListOf(k), RangeOf(k))
  BY DEF RangeOf, MappingsOf, ListOf, Kinds, PodMappings, ServiceMappings, NodeMappings
<1> QED
  BY <1>1, <1>2, <1>3

LEMMA MappingFacts ==
    ASSUME cfg \in Configs, NEW k \in Kinds
    PROVE  /\ DOMAIN MappingsOf(k).result \subseteq IPNets
           /\ \A src \in DOMAIN MappingsOf(k).result : MappingsOf(k).result[src] \in IPNets
           /\ IsFiniteSet(DOMAIN MappingsOf(k).result)
           /\ ResultApart(RangeOf(k), MappingsOf(k))
           /\ MappingFits => DOMAIN MappingsOf(k).result =
                                {ListOf(k)[i] : i \in IPv4s(ListOf(k))}
<1> DEFINE list == ListOf(k)
           len == Len(list)
           r == MappingsOf(k)
           I == IPv4s(list)
           f == [i \in I |-> list[i]]
           nets == {list[i] : i \in I}
<1>1. DOMAIN list = 1 .. len /\ len \in Nat
  BY ListType
<1>2. RangeOf(k) \in IPNets /\ RangeOf(k).prefix > 0 /\ r = NetmapSubnets(list, RangeOf(k))
  BY Ranges
<1> HIDE DEF r, list, len
<1>3. /\ MapInv(RangeOf(k), r)
      /\ DOMAIN r.result \subseteq nets
      /\ r.ok => DOMAIN r.result = nets
  BY <1>1, <1>2, NetmapSubnetsInv
<1>4. r.result \in Mappings /\ ResultApart(RangeOf(k), r)
  BY <1>3 DEF MapInv, MapStates
<1>5. DOMAIN r.result \subseteq IPNets /\ \A src \in DOMAIN r.result : r.result[src] \in IPNets
  <2>1. DOMAIN r.result \in SUBSET IPNets /\ \A n \in DOMAIN r.result : r.result[n] \in IPNets
    BY <1>4, MappingType
  <2> QED
    BY <2>1
<1>6. IsFiniteSet(I)
  <2>1. IsFiniteSet(1 .. len) /\ I \in SUBSET (1 .. len)
    BY <1>1, FS_Interval DEF IPv4s
  <2> HIDE DEF I
  <2> QED
    BY <2>1, FS_Subset
<1>7. f \in Surjection(I, nets)
  <2> HIDE DEF I
  <2>1. f \in [I -> nets] /\ \A t \in nets : \E s \in I : f[s] = t
    OBVIOUS
  <2> HIDE DEF f, nets
  <2> QED
    BY <2>1 DEF Surjection
<1>8. IsFiniteSet(DOMAIN r.result)
  <2> HIDE DEF f, nets, I
  <2>1. IsFiniteSet(nets)
    BY <1>6, <1>7, FS_Surjection
  <2>2. DOMAIN r.result \in SUBSET nets
    BY <1>3
  <2> QED
    BY <2>1, <2>2, FS_Subset
<1>9. MappingFits => r.ok
  BY DEF MappingFits, r, MappingsOf
<1> QED
  BY <1>3, <1>4, <1>5, <1>8, <1>9 DEF r, list

\* The order in which the mappings are visited leaves none out.
LEMMA OrderFacts ==
    ASSUME cfg \in Configs, NEW k \in Kinds, NEW o \in Orders(MappingsOf(k))
    PROVE  /\ o \in Seq(DOMAIN MappingsOf(k).result)
           /\ \A src \in DOMAIN MappingsOf(k).result : \E i \in DOMAIN o : o[i] = src
<1> DEFINE D == DOMAIN MappingsOf(k).result
           n == Cardinality(D)
<1>1. o \in [1 .. n -> D] /\ \A i, j \in 1 .. n : i # j => o[i] # o[j]
  BY DEF Orders
<1>2. IsFiniteSet(D) /\ n \in Nat
  BY MappingFacts, FS_CardinalityType
<1> HIDE DEF D
<1>3. Cardinality(1 .. n) = n
  <2> HIDE DEF n
  <2>1. 1 \in Nat /\ n \in Nat /\ (n < 1 => n = 0)
    BY <1>2
  <2> QED
    BY <2>1, FS_Interval
<1>4. o \in Injection(1 .. n, D)
  <2> HIDE DEF n
  <2> QED
    BY <1>1 DEF Injection, IsInjective
<1>5. o \in Surjection(1 .. n, D)
  BY <1>2, <1>3, <1>4, FS_Injection
<1>6. \A src \in D : \E i \in 1 .. n : o[i] = src
  <2> HIDE DEF n
  <2> QED
    BY <1>5 DEF Surjection
<1>7. o \in Seq(D) /\ DOMAIN o = 1 .. n
  <2> HIDE DEF n
  <2> QED
    BY <1>1, <1>2
<1> QED
  BY <1>6, <1>7 DEF D

-----------------------------------------------------------------------------
\* The plans of a container are put together from parts.

\* Each step that adds d comes after one that adds e.
SelfGuarded(p, e, d, strict) ==
    \A i \in DOMAIN p : AddsRule(p[i], d) =>
        \E j \in DOMAIN p :
            /\ j < i /\ AddsRule(p[j], e)
            /\ strict => \A k \in DOMAIN p : j < k /\ k < i => ~AddsRule(p[k], d)

GoodPart(s, p) ==
    /\ p \in Seq(AddSteps)
    /\ \A i \in DOMAIN p : PossibleStep(s, p[i])
    /\ \A f \in {4, 6} : s = "seed" => SelfGuarded(p, Established(f), DropNew(f), ~IsHA)

LEMMA ConcatSteps ==
    ASSUME NEW p \in Seq(AddSteps), NEW q \in Seq(AddSteps)
    PROVE  /\ \A r : Sets(p \o q, r) <=> Sets(p, r) \/ Sets(q, r)
           /\ Fails(p \o q) <=> Fails(p) \/ Fails(q)
<1> DEFINE pq == p \o q
           n == Len(p)
<1>1. /\ DOMAIN pq = 1 .. n + Len(q) /\ n \in Nat /\ Len(q) \in Nat
      /\ DOMAIN p = 1 .. n /\ DOMAIN q = 1 .. Len(q)
      /\ \A i \in 1 .. n : pq[i] = p[i]
      /\ \A i \in 1 .. Len(q) : pq[n + i] = q[i]
      /\ \A i \in 1 .. n + Len(q) :
            i > n => i - n \in 1 .. Len(q) /\ pq[i] = q[i - n]
  OBVIOUS
<1> HIDE DEF pq, n
<1>2. \A i \in DOMAIN pq : \/ i \in DOMAIN p /\ pq[i] = p[i]
                           \/ i - n \in DOMAIN q /\ pq[i] = q[i - n]
  BY <1>1
<1>3. \A i \in DOMAIN p : i \in DOMAIN pq /\ pq[i] = p[i]
  BY <1>1
<1>4. ASSUME NEW j \in DOMAIN q PROVE n + j \in DOMAIN pq /\ pq[n + j] = q[j]
  BY <1>1
<1>5. \A r : Sets(pq, r) <=> Sets(p, r) \/ Sets(q, r)
  BY <1>2, <1>3, <1>4 DEF Sets
<1>6. Fails(pq) <=> Fails(p) \/ Fails(q)
  BY <1>2, <1>3, <1>4 DEF Fails
<1> QED
  BY <1>5, <1>6 DEF pq

LEMMA ConcatGuarded ==
    ASSUME NEW p \in Seq(AddSteps), NEW q \in Seq(AddSteps), NEW e, NEW d,
           NEW strict \in BOOLEAN,
           SelfGuarded(p, e, d, strict), SelfGuarded(q, e, d, strict)
    PROVE  SelfGuarded(p \o q, e, d, strict)
<1> DEFINE pq == p \o q
           n == Len(p)
<1>1. /\ DOMAIN pq = 1 .. n + Len(q) /\ n \in Nat /\ Len(q) \in Nat
      /\ DOMAIN p = 1 .. n /\ DOMAIN q = 1 .. Len(q)
      /\ \A i \in 1 .. n : pq[i] = p[i]
      /\ \A i \in 1 .. Len(q) : pq[n + i] = q[i]
      /\ \A i \in 1 .. n + Len(q) :
            i > n => i - n \in 1 .. Len(q) /\ pq[i] = q[i - n]
  OBVIOUS
<1> HIDE DEF pq, n
<1> SUFFICES ASSUME NEW i \in DOMAIN pq, AddsRule(pq[i], d)
             PROVE  \E j \in DOMAIN pq :
                       /\ j < i /\ AddsRule(pq[j], e)
                       /\ strict => \A k \in DOMAIN pq :
                             j < k /\ k < i => ~AddsRule(pq[k], d)
  BY DEF SelfGuarded, pq
<1>2. CASE i <= n
  <2>1. i \in DOMAIN p /\ AddsRule(p[i], d)
    BY <1>1, <1>2
  <2>2. PICK j \in DOMAIN p :
           /\ j < i /\ AddsRule(p[j], e)
           /\ strict => \A k \in DOMAIN p : j < k /\ k < i => ~AddsRule(p[k], d)
    BY <2>1 DEF SelfGuarded
  <2>3. j \in DOMAIN pq /\ pq[j] = p[j]
    BY <1>1
  <2>4. ASSUME NEW k \in DOMAIN pq, k < i PROVE k \in DOMAIN p /\ pq[k] = p[k]
    BY <1>1, <1>2, <2>4
  <2> QED
    BY <2>2, <2>3, <2>4
<1>3. CASE i > n
  <2>1. i - n \in DOMAIN q /\ AddsRule(q[i - n], d)
    BY <1>1, <1>3
  <2>2. PICK j \in DOMAIN q :
           /\ j < i - n /\ AddsRule(q[j], e)
           /\ strict => \A k \in DOMAIN q : j < k /\ k < i - n => ~AddsRule(q[k], d)
    BY <2>1 DEF SelfGuarded
  <2>3. n + j \in DOMAIN pq /\ pq[n + j] = q[j] /\ n + j < i
    BY <1>1, <2>2
  <2>4. ASSUME NEW k \in DOMAIN pq, n + j < k, k < i
        PROVE  k - n \in DOMAIN q /\ pq[k] = q[k - n] /\ j < k - n /\ k - n < i - n
    BY <1>1, <2>2, <2>4
  <2> QED
    BY <2>2, <2>3, <2>4
<1> QED
  BY <1>1, <1>2, <1>3

LEMMA ConcatParts ==
    ASSUME NEW s, NEW p, NEW q, GoodPart(s, p), GoodPart(s, q)
    PROVE  /\ GoodPart(s, p \o q)
           /\ \A r : Sets(p \o q, r) <=> Sets(p, r) \/ Sets(q, r)
           /\ Fails(p \o q) <=> Fails(p) \/ Fails(q)
<1>1. p \in Seq(AddSteps) /\ q \in Seq(AddSteps)
  BY DEF GoodPart
<1>2. p \o q \in Seq(AddSteps)
  BY <1>1
<1>3. ASSUME NEW i \in DOMAIN (p \o q) PROVE PossibleStep(s, (p \o q)[i])
  <2>1. \/ i \in DOMAIN p /\ (p \o q)[i] = p[i]
        \/ i - Len(p) \in DOMAIN q /\ (p \o q)[i] = q[i - Len(p)]
    BY <1>1
  <2> QED
    BY <2>1 DEF GoodPart
<1>4. ASSUME NEW f \in {4, 6}, s = "seed"
      PROVE  SelfGuarded(p \o q, Established(f), DropNew(f), ~IsHA)
  <2>1. /\ SelfGuarded(p, Established(f), DropNew(f), ~IsHA)
        /\ SelfGuarded(q, Established(f), DropNew(f), ~IsHA)
        /\ (~IsHA) \in BOOLEAN
    BY <1>4 DEF GoodPart
  <2> QED
    BY <1>1, <2>1, ConcatGuarded
<1>5. GoodPart(s, p \o q)
  BY <1>2, <1>3, <1>4 DEF GoodPart
<1> QED
  BY <1>1, <1>5, ConcatSteps

\* A part that adds no rule to INPUT.
LEMMA NoInputPart ==
    ASSUME NEW s \in Sides, NEW p \in Seq(AddSteps),
           \A i \in DOMAIN p : PossibleStep(s, p[i]),
           \A i \in DOMAIN p : p[i].op \in {"unique", "append"} => p[i].rule.chain # "INPUT"
    PROVE  GoodPart(s, p)
<1>1. ASSUME NEW f \in {4, 6}, NEW i \in DOMAIN p PROVE ~AddsRule(p[i], DropNew(f))
  BY InputRules DEF AddsRule
<1> QED
  BY <1>1 DEF GoodPart, SelfGuarded

LEMMA EmptyPart ==
    ASSUME NEW s \in Sides
    PROVE  GoodPart(s, <<>>) /\ ~Fails(<<>>)
  BY DEF GoodPart, SelfGuarded, Fails

LEMMA FailPart ==
    ASSUME NEW s \in Sides
    PROVE  GoodPart(s, <<Fail>>) /\ Fails(<<Fail>>)
<1> DEFINE p == <<Fail>>
<1>1. p \in Seq(AddSteps) /\ DOMAIN p = {1} /\ p[1] = Fail
  BY StepType
<1> HIDE DEF p
<1>2. \A i \in DOMAIN p : p[i].op = "fail"
  BY <1>1, StepType
<1>3. GoodPart(s, p)
  BY <1>1, <1>2, NoInputPart DEF PossibleStep
<1> QED
  BY <1>1, <1>2, <1>3 DEF Fails, p

LEMMA OutgoingPart ==
    ASSUME cfg \in Configs, doNetmap, MappingFits,
           NEW k \in Kinds, NEW o \in Orders(MappingsOf(k))
    PROVE  LET p == Outgoing(o, MappingsOf(k))
           IN  /\ GoodPart("seed", p) /\ ~Fails(p)
               /\ \A src \in DOMAIN MappingsOf(k).result :
                     Sets(p, Rule(4, "OUTPUT", src, MappingsOf(k).result[src]))
<1> DEFINE M == MappingsOf(k)
           R(src) == Rule(4, "OUTPUT", src, M.result[src])
           p == Outgoing(o, M)
<1>1. /\ o \in Seq(DOMAIN M.result)
      /\ \A src \in DOMAIN M.result : \E i \in DOMAIN o : o[i] = src
  BY OrderFacts
<1>2. DOMAIN M.result \subseteq IPNets /\ \A src \in DOMAIN M.result : M.result[src] \in IPNets
  BY MappingFacts
<1>3. p = [i \in DOMAIN o |-> Unique(R(o[i]))]
  BY DEF Outgoing
<1>4. ASSUME NEW src \in DOMAIN M.result
      PROVE  R(src) \in AllRules /\ Possible("seed", R(src)) /\ R(src).chain = "OUTPUT"
  <2>1. R(src) \in AllRules /\ R(src).chain = "OUTPUT"
    BY <1>2 DEF AllRules, Chains, Rule
  <2>2. IsMapped(src, M.result[src])
    BY DEF IsMapped
  <2>3. OutRule(R(src))
    BY <1>2, <2>2 DEF OutRule
  <2> HIDE DEF R
  <2> QED
    BY <2>1, <2>3 DEF Possible
<1> HIDE DEF M, R, p
<1>5. \A i \in DOMAIN o : o[i] \in DOMAIN M.result
  BY <1>1
<1>6. \A i \in DOMAIN p : /\ p[i] = Unique(R(o[i])) /\ p[i] \in AddSteps
                          /\ p[i].op = "unique" /\ p[i].rule = R(o[i])
  BY <1>3, <1>4, <1>5, StepType
<1>7. p \in Seq(AddSteps) /\ DOMAIN p = DOMAIN o
  <2>1. DOMAIN o = 1 .. Len(o) /\ Len(o) \in Nat
    BY <1>1
  <2> QED
    BY <1>3, <1>6, <2>1
<1>8. \A i \in DOMAIN p : PossibleStep("seed", p[i]) /\ p[i].rule.chain # "INPUT"
  BY <1>4, <1>5, <1>6, <1>7 DEF PossibleStep
<1>9. GoodPart("seed", p) /\ ~Fails(p)
  BY <1>6, <1>7, <1>8, NoInputPart DEF Fails, Sides
<1>10. ASSUME NEW src \in DOMAIN M.result PROVE Sets(p, R(src))
  BY <1>1, <1>6, <1>7 DEF Sets, AddsRule
<1> QED
  BY <1>9, <1>10 DEF M, R, p

LEMMA IncomingPart ==
    ASSUME cfg \in Configs, doNetmap, MappingFits,
           NEW k \in Kinds, NEW o \in Orders(MappingsOf(k))
    PROVE  LET p == Incoming(o, MappingsOf(k))
           IN  /\ GoodPart("shoot", p) /\ ~Fails(p)
               /\ \A src \in DOMAIN MappingsOf(k).result :
                     Sets(p, Rule(4, "PREROUTING", MappingsOf(k).result[src], src))
<1> DEFINE M == MappingsOf(k)
           R(src) == Rule(4, "PREROUTING", M.result[src], src)
           B(src) == Rule(4, "POSTROUTING", src, M.result[src])
           p == Incoming(o, M)
           at(i) == o[(i + 1) \div 2]
           n == Len(o)
<1>1. /\ o \in Seq(DOMAIN M.result)
      /\ \A src \in DOMAIN M.result : \E i \in DOMAIN o : o[i] = src
  BY OrderFacts
<1>2. DOMAIN M.result \subseteq IPNets /\ \A src \in DOMAIN M.result : M.result[src] \in IPNets
  BY MappingFacts
<1>3. p = [i \in 1 .. 2 * n |-> Unique(IF i % 2 = 1 THEN R(at(i)) ELSE B(at(i)))]
  BY DEF Incoming
<1>4. ASSUME NEW src \in DOMAIN M.result
      PROVE  /\ R(src) \in AllRules /\ Possible("shoot", R(src)) /\ R(src).chain = "PREROUTING"
             /\ B(src) \in AllRules /\ Possible("shoot", B(src)) /\ B(src).chain = "POSTROUTING"
  <2>1. R(src) \in AllRules /\ R(src).chain = "PREROUTING"
    BY <1>2 DEF AllRules, Chains, Rule
  <2>2. B(src) \in AllRules /\ B(src).chain = "POSTROUTING"
    BY <1>2 DEF AllRules, Chains, Rule
  <2>3. IsMapped(src, M.result[src])
    BY DEF IsMapped
  <2>4. InRule(R(src))
    BY <1>2, <2>3 DEF InRule
  <2> HIDE DEF R, B
  <2> QED
    BY <2>1, <2>2, <2>4 DEF Possible
<1> HIDE DEF M, R, B, p
<1>5. DOMAIN o = 1 .. n /\ n \in Nat /\ \A i \in 1 .. n : o[i] \in DOMAIN M.result
  BY <1>1
<1> HIDE DEF n
<1>6. \A i \in 1 .. 2 * n : at(i) \in DOMAIN M.result
  <2>1. \A i \in 1 .. 2 * n : (i + 1) \div 2 \in 1 .. n
    BY <1>5
  <2> QED
    BY <1>5, <2>1
<1> HIDE DEF at
<1>7. \A i \in DOMAIN p : /\ p[i] \in AddSteps /\ p[i].op = "unique"
                          /\ \/ i % 2 = 1 /\ p[i].rule = R(at(i))
                             \/ i % 2 # 1 /\ p[i].rule = B(at(i))
  BY <1>3, <1>4, <1>6, StepType
<1>8. p \in Seq(AddSteps) /\ DOMAIN p = 1 .. 2 * n
  <2>1. 2 * n \in Nat /\ DOMAIN p = 1 .. 2 * n
    BY <1>3, <1>5
  <2> QED
    BY <1>3, <1>7, <2>1
<1>9. \A i \in DOMAIN p : PossibleStep("shoot", p[i]) /\ p[i].rule.chain # "INPUT"
  BY <1>4, <1>6, <1>7, <1>8 DEF PossibleStep
<1>10. GoodPart("shoot", p) /\ ~Fails(p)
  BY <1>7, <1>8, <1>9, NoInputPart DEF Fails, Sides
<1>11. ASSUME NEW src \in DOMAIN M.result PROVE Sets(p, R(src))
  <2>1. PICK j \in 1 .. n : o[j] = src
    BY <1>1, <1>5
  <2> DEFINE i == 2 * j - 1
  <2>2. i \in 1 .. 2 * n /\ i % 2 = 1 /\ (i + 1) \div 2 = j
    BY <1>5
  <2>3. at(i) = src
    BY <2>1, <2>2 DEF at
  <2> HIDE DEF i
  <2>4. AddsRule(p[i], R(src))
    BY <1>7, <1>8, <2>2, <2>3 DEF AddsRule
  <2> QED
    BY <1>8, <2>2, <2>4 DEF Sets
<1> QED
  BY <1>10, <1>11 DEF M, R, p

\* The rules of all three kinds of networks.
LEMMA MappingParts ==
    ASSUME cfg \in Configs, doNetmap
    PROVE  /\ \A p \in ForMappings(Outgoing) :
                 /\ GoodPart("seed", p)
                 /\ \/ Fails(p)
                    \/ MappingFits /\ \A r : OutRule(r) => Sets(p, r)
           /\ \A p \in ForMappings(Incoming) :
                 /\ GoodPart("shoot", p)
                 /\ \/ Fails(p)
                    \/ MappingFits /\ \A r : InRule(r) => Sets(p, r)
<1>1. CASE ~MappingFits
  <2>1. ForMappings(Outgoing) = {<<Fail>>} /\ ForMappings(Incoming) = {<<Fail>>}
    BY <1>1 DEF ForMappings
  <2> QED
    BY <2>1, FailPart DEF Sides
<1>2. CASE MappingFits
  <2>0. /\ MappingsOf("pods") = PodMappings
        /\ MappingsOf("services") = ServiceMappings
        /\ MappingsOf("nodes") = NodeMappings
    BY DEF MappingsOf
  <2>1. ASSUME NEW p \in ForMappings(Outgoing)
        PROVE  GoodPart("seed", p) /\ \A r : OutRule(r) => Sets(p, r)
    <3>1. PICK a \in Orders(MappingsOf("pods")), b \in Orders(MappingsOf("services")),
               c \in Orders(MappingsOf("nodes")) :
             p = Outgoing(a, MappingsOf("pods")) \o Outgoing(b, MappingsOf("services"))
                    \o Outgoing(c, MappingsOf("nodes"))
      <4> DEFINE Joined(a, b, c) ==
                   Outgoing(a, PodMappings) \o Outgoing(b, ServiceMappings)
                      \o Outgoing(c, NodeMappings)
                 All == {Joined(a, b, c) :
                           a \in Orders(PodMappings), b \in Orders(ServiceMappings),
                           c \in Orders(NodeMappings)}
      <4>1. p \in IF ~MappingFits THEN {<<Fail>>} ELSE All
        BY <2>1 DEF ForMappings
      <4> HIDE DEF All
      <4>2. p \in All
        BY <1>2, <4>1
      <4> USE DEF All
      <4> HIDE DEF Joined
      <4>3. PICK a \in Orders(PodMappings), b \in Orders(ServiceMappings),
                 c \in Orders(NodeMappings) : p = Joined(a, b, c)
        BY <4>2
      <4> QED
        BY <2>0, <4>3 DEF Joined
    <3> DEFINE x == Outgoing(a, MappingsOf("pods"))
               y == Outgoing(b, MappingsOf("services"))
               z == Outgoing(c, MappingsOf("nodes"))
               In(q, k) == \A src \in DOMAIN MappingsOf(k).result :
                              Sets(q, Rule(4, "OUTPUT", src, MappingsOf(k).result[src]))
    <3>2. GoodPart("seed", x) /\ In(x, "pods")
      BY <1>2, OutgoingPart DEF Kinds
    <3>3. GoodPart("seed", y) /\ In(y, "services")
      BY <1>2, OutgoingPart DEF Kinds
    <3>4. GoodPart("seed", z) /\ In(z, "nodes")
      BY <1>2, OutgoingPart DEF Kinds
    <3> HIDE DEF x, y, z
    <3>5. GoodPart("seed", x \o y) /\ \A r : Sets(x \o y, r) <=> Sets(x, r) \/ Sets(y, r)
      BY <3>2, <3>3, ConcatParts
    <3>6. /\ GoodPart("seed", p)
          /\ \A r : Sets(p, r) <=> Sets(x \o y, r) \/ Sets(z, r)
      <4>1. p = (x \o y) \o z
        BY <3>1 DEF x, y, z
      <4> DEFINE xy == x \o y
      <4>2. GoodPart("seed", xy)
        BY <3>5
      <4> HIDE DEF xy
      <4>3. /\ GoodPart("seed", xy \o z)
            /\ \A r : Sets(xy \o z, r) <=> Sets(xy, r) \/ Sets(z, r)
        BY <3>4, <4>2, ConcatParts
      <4> QED
        BY <4>1, <4>3 DEF xy
    <3>7. ASSUME NEW r, OutRule(r) PROVE Sets(p, r)
      <4>1. PICK src \in IPNets, dst \in IPNets :
               IsMapped(src, dst) /\ r = Rule(4, "OUTPUT", src, dst)
        BY <3>7 DEF OutRule
      <4>2. \/ /\ src \in DOMAIN MappingsOf("pods").result
               /\ dst = MappingsOf("pods").result[src]
            \/ /\ src \in DOMAIN MappingsOf("services").result
               /\ dst = MappingsOf("services").result[src]
            \/ /\ src \in DOMAIN MappingsOf("nodes").result
               /\ dst = MappingsOf("nodes").result[src]
        BY <4>1 DEF IsMapped, Kinds
      <4> QED
        BY <3>2, <3>3, <3>4, <3>5, <3>6, <4>1, <4>2
    <3> QED
      BY <3>6, <3>7
  <2>2. ASSUME NEW p \in ForMappings(Incoming)
        PROVE  GoodPart("shoot", p) /\ \A r : InRule(r) => Sets(p, r)
    <3>1. PICK a \in Orders(MappingsOf("pods")), b \in Orders(MappingsOf("services")),
               c \in Orders(MappingsOf("nodes")) :
             p = Incoming(a, MappingsOf("pods")) \o Incoming(b, MappingsOf("services"))
                    \o Incoming(c, MappingsOf("nodes"))
      <4> DEFINE Joined(a, b, c) ==
                   Incoming(a, PodMappings) \o Incoming(b, ServiceMappings)
                      \o Incoming(c, NodeMappings)
                 All == {Joined(a, b, c) :
                           a \in Orders(PodMappings), b \in Orders(ServiceMappings),
                           c \in Orders(NodeMappings)}
      <4>1. p \in IF ~MappingFits THEN {<<Fail>>} ELSE All
        BY <2>2 DEF ForMappings
      <4> HIDE DEF All
      <4>2. p \in All
        BY <1>2, <4>1
      <4> USE DEF All
      <4> HIDE DEF Joined
      <4>3. PICK a \in Orders(PodMappings), b \in Orders(ServiceMappings),
                 c \in Orders(NodeMappings) : p = Joined(a, b, c)
        BY <4>2
      <4> QED
        BY <2>0, <4>3 DEF Joined
    <3> DEFINE x == Incoming(a, MappingsOf("pods"))
               y == Incoming(b, MappingsOf("services"))
               z == Incoming(c, MappingsOf("nodes"))
               In(q, k) == \A src \in DOMAIN MappingsOf(k).result :
                              Sets(q, Rule(4, "PREROUTING", MappingsOf(k).result[src], src))
    <3>2. GoodPart("shoot", x) /\ In(x, "pods")
      BY <1>2, IncomingPart DEF Kinds
    <3>3. GoodPart("shoot", y) /\ In(y, "services")
      BY <1>2, IncomingPart DEF Kinds
    <3>4. GoodPart("shoot", z) /\ In(z, "nodes")
      BY <1>2, IncomingPart DEF Kinds
    <3> HIDE DEF x, y, z
    <3>5. GoodPart("shoot", x \o y) /\ \A r : Sets(x \o y, r) <=> Sets(x, r) \/ Sets(y, r)
      BY <3>2, <3>3, ConcatParts
    <3>6. /\ GoodPart("shoot", p)
          /\ \A r : Sets(p, r) <=> Sets(x \o y, r) \/ Sets(z, r)
      <4>1. p = (x \o y) \o z
        BY <3>1 DEF x, y, z
      <4> DEFINE xy == x \o y
      <4>2. GoodPart("shoot", xy)
        BY <3>5
      <4> HIDE DEF xy
      <4>3. /\ GoodPart("shoot", xy \o z)
            /\ \A r : Sets(xy \o z, r) <=> Sets(xy, r) \/ Sets(z, r)
        BY <3>4, <4>2, ConcatParts
      <4> QED
        BY <4>1, <4>3 DEF xy
    <3>7. ASSUME NEW r, InRule(r) PROVE Sets(p, r)
      <4>1. PICK src \in IPNets, dst \in IPNets :
               IsMapped(src, dst) /\ r = Rule(4, "PREROUTING", dst, src)
        BY <3>7 DEF InRule
      <4>2. \/ /\ src \in DOMAIN MappingsOf("pods").result
               /\ dst = MappingsOf("pods").result[src]
            \/ /\ src \in DOMAIN MappingsOf("services").result
               /\ dst = MappingsOf("services").result[src]
            \/ /\ src \in DOMAIN MappingsOf("nodes").result
               /\ dst = MappingsOf("nodes").result[src]
        BY <4>1 DEF IsMapped, Kinds
      <4> QED
        BY <3>2, <3>3, <3>4, <3>5, <3>6, <4>1, <4>2
    <3> QED
      BY <3>6, <3>7
  <2> QED
    BY <1>2, <2>1, <2>2
<1> QED
  BY <1>1, <1>2

LEMMA SeedPodPart ==
    ASSUME doNetmap
    PROVE  /\ GoodPart("seed", SeedPodRules(Unique)) /\ GoodPart("seed", SeedPodRules(Append1))
           /\ ~Fails(SeedPodRules(Unique)) /\ ~Fails(SeedPodRules(Append1))
           /\ \A r : SeedPodRule(r) =>
                 Sets(SeedPodRules(Unique), r) /\ Sets(SeedPodRules(Append1), r)
<1> DEFINE a == Rule(4, "PREROUTING", SeedMapped, cfg.seedPod)
           b == Rule(4, "POSTROUTING", cfg.seedPod, SeedMapped)
<1>1. CASE ~IsIPv4(cfg.seedPod)
  <2>1. SeedPodRules(Unique) = <<>> /\ SeedPodRules(Append1) = <<>>
    BY <1>1 DEF SeedPodRules
  <2>2. \A r : ~SeedPodRule(r)
    BY <1>1 DEF SeedPodRule
  <2> QED
    BY <2>1, <2>2, EmptyPart DEF Sides
<1>2. CASE IsIPv4(cfg.seedPod)
  <2>1. SeedPodRules(Unique) = <<Unique(a), Unique(b)>>
        /\ SeedPodRules(Append1) = <<Append1(a), Append1(b)>>
    BY <1>2 DEF SeedPodRules
  <2>2. /\ a \in AllRules /\ a.chain = "PREROUTING"
        /\ b \in AllRules /\ b.chain = "POSTROUTING"
    BY <1>2, DoubleNATAssumption DEF IsIPv4, AllRules, Chains, Rule
  <2>3. SeedPodRule(b) /\ \A r : SeedPodRule(r) => r = b
    BY <1>2 DEF SeedPodRule
  <2> HIDE DEF a, b
  <2>4. Possible("seed", a) /\ Possible("seed", b)
    BY <2>2, <2>3 DEF Possible
  <2>5. ASSUME NEW x \in AddSteps, NEW y \in AddSteps, x.rule = a, y.rule = b,
               x.op \in {"unique", "append"}, y.op \in {"unique", "append"}
        PROVE  GoodPart("seed", <<x, y>>) /\ ~Fails(<<x, y>>) /\ Sets(<<x, y>>, b)
    <3> DEFINE p == <<x, y>>
    <3>1. p \in Seq(AddSteps) /\ DOMAIN p = {1, 2} /\ p[1] = x /\ p[2] = y
      BY <2>5
    <3> HIDE DEF p
    <3>2. \A i \in DOMAIN p : PossibleStep("seed", p[i]) /\ p[i].rule.chain # "INPUT"
      BY <2>2, <2>4, <2>5, <3>1 DEF PossibleStep
    <3>3. GoodPart("seed", p)
      BY <3>1, <3>2, NoInputPart DEF Sides
    <3>4. ~Fails(p) /\ Sets(p, b)
      BY <2>5, <3>1 DEF Fails, Sets, AddsRule
    <3> QED
      BY <3>3, <3>4 DEF p
  <2>6. /\ Unique(a) \in AddSteps /\ Unique(b) \in AddSteps
        /\ Append1(a) \in AddSteps /\ Append1(b) \in AddSteps
        /\ Unique(a).rule = a /\ Unique(b).rule = b /\ Unique(a).op = "unique"
        /\ Unique(b).op = "unique" /\ Append1(a).rule = a /\ Append1(b).rule = b
        /\ Append1(a).op = "append" /\ Append1(b).op = "append"
    BY <2>2, StepType
  <2> QED
    BY <2>1, <2>3, <2>5, <2>6
<1> QED
  BY <1>1, <1>2

\* The filter rules of a seed client and of the VPN server.
LEMMA FilterPart ==
    ASSUME IsHA, NEW f \in {4, 6}
    PROVE  /\ GoodPart("seed", FilterRules(f)) /\ ~Fails(FilterRules(f))
           /\ Sets(FilterRules(f), DropNew(f))
<1> DEFINE x == Unique(Established(f))
           y == Unique(DropNew(f))
           p == <<x, y>>
<1>1. /\ x \in AddSteps /\ x.op = "unique" /\ x.rule = Established(f)
      /\ y \in AddSteps /\ y.op = "unique" /\ y.rule = DropNew(f)
  BY InputRules, StepType
<1> HIDE DEF x, y
<1>2. p \in Seq(AddSteps) /\ DOMAIN p = {1, 2} /\ p[1] = x /\ p[2] = y
  BY <1>1
<1> HIDE DEF p
<1>3. Possible("seed", Established(f)) /\ Possible("seed", DropNew(f))
  BY InputRules DEF Possible
<1>4. \A i \in DOMAIN p : PossibleStep("seed", p[i])
  BY <1>1, <1>2, <1>3 DEF PossibleStep
<1>5. ASSUME NEW g \in {4, 6} PROVE SelfGuarded(p, Established(g), DropNew(g), ~IsHA)
  <2> SUFFICES ASSUME NEW i \in DOMAIN p, AddsRule(p[i], DropNew(g))
               PROVE  \E j \in DOMAIN p : j < i /\ AddsRule(p[j], Established(g))
    BY DEF SelfGuarded
  <2>1. i = 2 /\ g = f
    BY <1>1, <1>2, InputRulesDiffer DEF AddsRule
  <2> QED
    BY <1>1, <1>2, <2>1 DEF AddsRule
<1>6. GoodPart("seed", p)
  BY <1>2, <1>4, <1>5 DEF GoodPart
<1>7. ~Fails(p) /\ Sets(p, DropNew(f))
  BY <1>1, <1>2 DEF Fails, Sets, AddsRule
<1> QED
  BY <1>6, <1>7 DEF FilterRules, p, x, y

LEMMA FirewallPart ==
    ASSUME ~IsHA
    PROVE  LET p == <<Append1(Established(4)), Append1(Established(6)),
                      Append1(DropNew(4)), Append1(DropNew(6))>>
           IN  /\ GoodPart("seed", p) /\ ~Fails(p)
               /\ Sets(p, DropNew(4)) /\ Sets(p, DropNew(6))
<1> DEFINE p == <<Append1(Established(4)), Append1(Established(6)),
                  Append1(DropNew(4)), Append1(DropNew(6))>>
<1>1. /\ p \in Seq(AddSteps) /\ DOMAIN p = {1, 2, 3, 4}
      /\ p[1] = Append1(Established(4)) /\ p[2] = Append1(Established(6))
      /\ p[3] = Append1(DropNew(4)) /\ p[4] = Append1(DropNew(6))
  <2>1. /\ Append1(Established(4)) \in AddSteps /\ Append1(Established(6)) \in AddSteps
        /\ Append1(DropNew(4)) \in AddSteps /\ Append1(DropNew(6)) \in AddSteps
    BY InputRules, StepType
  <2> QED
    BY <2>1
<1> HIDE DEF p
<1>2. /\ p[1].op = "append" /\ p[2].op = "append" /\ p[3].op = "append" /\ p[4].op = "append"
      /\ p[1].rule = Established(4) /\ p[2].rule = Established(6)
      /\ p[3].rule = DropNew(4) /\ p[4].rule = DropNew(6)
  BY <1>1, StepType
<1>3. \A f \in {4, 6} : Possible("seed", Established(f)) /\ Possible("seed", DropNew(f))
  BY InputRules DEF Possible
<1>4. \A i \in DOMAIN p : PossibleStep("seed", p[i])
  BY <1>1, <1>2, <1>3 DEF PossibleStep
<1>5. ASSUME NEW g \in {4, 6} PROVE SelfGuarded(p, Established(g), DropNew(g), ~IsHA)
  <2> SUFFICES ASSUME NEW i \in DOMAIN p, AddsRule(p[i], DropNew(g))
               PROVE  \E j \in DOMAIN p :
                         /\ j < i /\ AddsRule(p[j], Established(g))
                         /\ \A k \in DOMAIN p : j < k /\ k < i => ~AddsRule(p[k], DropNew(g))
    BY DEF SelfGuarded
  <2>1. /\ Established(4) # DropNew(4) /\ Established(4) # DropNew(6)
        /\ Established(6) # DropNew(4) /\ Established(6) # DropNew(6)
        /\ DropNew(4) # DropNew(6)
    BY InputRulesDiffer
  <2>2. (i = 3 /\ g = 4) \/ (i = 4 /\ g = 6)
    BY <1>1, <1>2, <2>1 DEF AddsRule
  <2>3. CASE i = 3 /\ g = 4
    <3>1. 1 \in DOMAIN p /\ AddsRule(p[1], Established(4))
      BY <1>1, <1>2 DEF AddsRule
    <3>2. \A k \in DOMAIN p : 1 < k /\ k < 3 => ~AddsRule(p[k], DropNew(4))
      BY <1>1, <1>2, <2>1 DEF AddsRule
    <3> QED
      BY <2>3, <3>1, <3>2
  <2>4. CASE i = 4 /\ g = 6
    <3>1. 2 \in DOMAIN p /\ AddsRule(p[2], Established(6))
      BY <1>1, <1>2 DEF AddsRule
    <3>2. \A k \in DOMAIN p : 2 < k /\ k < 4 => ~AddsRule(p[k], DropNew(6))
      BY <1>1, <1>2, <2>1 DEF AddsRule
    <3> QED
      BY <2>4, <3>1, <3>2
  <2> QED
    BY <2>2, <2>3, <2>4
<1>6. GoodPart("seed", p)
  BY <1>1, <1>4, <1>5 DEF GoodPart
<1>7. ~Fails(p) /\ Sets(p, DropNew(4)) /\ Sets(p, DropNew(6))
  BY <1>1, <1>2 DEF Fails, Sets, AddsRule
<1> QED
  BY <1>6, <1>7 DEF p

LEMMA SingleRule ==
    ASSUME NEW s \in Sides, NEW r \in AllRules, Possible(s, r),
           s = "seed" => r = IcmpRule /\ IsHA
    PROVE  GoodPart(s, <<Unique(r)>>)
<1> DEFINE p == <<Unique(r)>>
<1>1. p \in Seq(AddSteps) /\ DOMAIN p = {1} /\ p[1] = Unique(r)
  BY StepType
<1> HIDE DEF p
<1>2. \A i \in DOMAIN p : p[i].op = "unique" /\ p[i].rule = r
  BY <1>1, StepType
<1>3. \A i \in DOMAIN p : PossibleStep(s, p[i])
  BY <1>2 DEF PossibleStep
<1>4. ASSUME NEW f \in {4, 6}, s = "seed", NEW i \in DOMAIN p
      PROVE  ~AddsRule(p[i], DropNew(f))
  <2>1. IcmpRule.match = "icmpv6" /\ DropNew(f).match = "any"
    BY InputRules DEF IcmpRule, Rule
  <2> QED
    BY <1>2, <1>4, <2>1 DEF AddsRule
<1> QED
  BY <1>1, <1>3, <1>4 DEF GoodPart, SelfGuarded, p

LEMMA SeedClientPart ==
    ASSUME cfg \in Configs, IsHA, NEW f \in {4, 6}, NEW p \in SeedClientPlans(f)
    PROVE  /\ GoodPart("seed", p) /\ Sets(p, DropNew(f))
           /\ f = 4 /\ doNetmap =>
                \/ Fails(p)
                \/ MappingFits /\ \A r : OutRule(r) \/ SeedPodRule(r) => Sets(p, r)
<1> DEFINE icmp == IF f = 6 THEN <<Unique(Rule(6, "INPUT", "icmpv6", "ACCEPT"))>> ELSE <<>>
           mapped == IF f = 4 /\ overlap
                     THEN {x \o SeedPodRules(Unique) : x \in ForMappings(Outgoing)}
                     ELSE {<<>>}
           Maps(x) == \/ Fails(x)
                      \/ MappingFits /\ \A r : OutRule(r) \/ SeedPodRule(r) => Sets(x, r)
<1>1. PICK x \in mapped : p = x \o icmp \o FilterRules(f)
  BY DEF SeedClientPlans
<1>2. doNetmap <=> overlap
  BY DEF doNetmap
<1>3. GoodPart("seed", x) /\ (f = 4 /\ doNetmap => Maps(x))
  <2>1. CASE f = 4 /\ overlap
    <3>1. PICK y \in ForMappings(Outgoing) : x = y \o SeedPodRules(Unique)
      BY <2>1
    <3>2. /\ GoodPart("seed", y)
          /\ Fails(y) \/ (MappingFits /\ \A r : OutRule(r) => Sets(y, r))
      BY <1>2, <2>1, MappingParts
    <3> DEFINE z == SeedPodRules(Unique)
    <3>3. GoodPart("seed", z) /\ \A r : SeedPodRule(r) => Sets(z, r)
      BY <1>2, <2>1, SeedPodPart
    <3> HIDE DEF z
    <3>4. /\ GoodPart("seed", y \o z)
          /\ \A r : Sets(y \o z, r) <=> Sets(y, r) \/ Sets(z, r)
          /\ Fails(y \o z) <=> Fails(y) \/ Fails(z)
      BY <3>2, <3>3, ConcatParts
    <3>5. x = y \o z
      BY <3>1 DEF z
    <3> QED
      BY <3>2, <3>3, <3>4, <3>5
  <2>2. CASE ~ (f = 4 /\ overlap)
    BY <1>2, <2>2, EmptyPart DEF Sides
  <2> QED
    BY <2>1, <2>2
<1>4. GoodPart("seed", icmp)
  <2>1. CASE f = 6
    <3>1. IcmpRule \in AllRules /\ IcmpRule.chain = "INPUT"
      BY DEF IcmpRule, Rule, AllRules, Chains, Strings
    <3>2. Possible("seed", IcmpRule)
      BY <3>1 DEF Possible, InputRule
    <3> QED
      BY <2>1, <3>1, <3>2, SingleRule DEF Sides, IcmpRule
  <2>2. CASE f # 6
    BY <2>2, EmptyPart DEF Sides
  <2> QED
    BY <2>1, <2>2
<1> HIDE DEF icmp, mapped
<1> DEFINE xi == x \o icmp
           filter == FilterRules(f)
<1>5. /\ GoodPart("seed", xi)
      /\ \A r : Sets(xi, r) <=> Sets(x, r) \/ Sets(icmp, r)
      /\ Fails(xi) <=> Fails(x) \/ Fails(icmp)
  BY <1>3, <1>4, ConcatParts
<1>6. GoodPart("seed", filter) /\ Sets(filter, DropNew(f))
  BY FilterPart
<1>7. p = xi \o filter
  BY <1>1
<1> HIDE DEF xi, filter
<1>8. /\ GoodPart("seed", p)
      /\ \A r : Sets(p, r) <=> Sets(xi, r) \/ Sets(filter, r)
      /\ Fails(p) <=> Fails(xi) \/ Fails(filter)
  BY <1>5, <1>6, <1>7, ConcatParts
<1> QED
  BY <1>3, <1>5, <1>6, <1>8

LEMMA ServerPart ==
    ASSUME cfg \in Configs, ~IsHA, NEW p \in ServerPlans
    PROVE  /\ GoodPart("seed", p) /\ Sets(p, DropNew(4)) /\ Sets(p, DropNew(6))
           /\ \/ Fails(p)
              \/ MappingFits /\ \A r : OutRule(r) \/ SeedPodRule(r) => Sets(p, r)
<1> DEFINE filter == <<Append1(Established(4)), Append1(Established(6)),
                       Append1(DropNew(4)), Append1(DropNew(6))>>
           seed == SeedPodRules(Append1)
<1>0. doNetmap
  BY DEF doNetmap
<1>1. PICK y \in ForMappings(Outgoing) : p = y \o (filter \o seed)
  BY DEF ServerPlans, FirewallUp
<1>2. /\ GoodPart("seed", y)
      /\ Fails(y) \/ (MappingFits /\ \A r : OutRule(r) => Sets(y, r))
  BY <1>0, MappingParts
<1>3. GoodPart("seed", seed) /\ \A r : SeedPodRule(r) => Sets(seed, r)
  BY <1>0, SeedPodPart
<1>4. GoodPart("seed", filter) /\ Sets(filter, DropNew(4)) /\ Sets(filter, DropNew(6))
  BY FirewallPart
<1> HIDE DEF filter, seed
<1> DEFINE up == filter \o seed
<1>5. GoodPart("seed", up) /\ \A r : Sets(up, r) <=> Sets(filter, r) \/ Sets(seed, r)
  BY <1>3, <1>4, ConcatParts
<1>6. p = y \o up
  BY <1>1
<1> HIDE DEF up
<1>7. /\ GoodPart("seed", p)
      /\ \A r : Sets(p, r) <=> Sets(y, r) \/ Sets(up, r)
      /\ Fails(p) <=> Fails(y) \/ Fails(up)
  BY <1>2, <1>5, <1>6, ConcatParts
<1> QED
  BY <1>2, <1>3, <1>4, <1>5, <1>7

LEMMA ShootClientPart ==
    ASSUME cfg \in Configs, NEW f \in {4, 6}, NEW p \in ShootClientPlans(f)
    PROVE  /\ GoodPart("shoot", p)
           /\ f = 4 /\ doNetmap =>
                Fails(p) \/ (MappingFits /\ \A r : InRule(r) => Sets(p, r))
<1> DEFINE forward == IF f = 4 THEN <<Unique(Rule(4, "FORWARD", "any", "ACCEPT"))>>
                               ELSE <<>>
           mapped == IF f = 4 /\ doNetmap THEN ForMappings(Incoming) ELSE {<<>>}
           a == Rule(f, "mangle", "syn", "TCPMSS")
           b == Rule(f, "eth0", "any", "MASQUERADE")
           rest == <<Unique(a), Unique(b)>>
<1>1. PICK x \in mapped : p = forward \o x \o rest
  BY DEF ShootClientPlans
<1>2. /\ GoodPart("shoot", x)
      /\ f = 4 /\ doNetmap => Fails(x) \/ (MappingFits /\ \A r : InRule(r) => Sets(x, r))
  <2>1. CASE f = 4 /\ doNetmap
    <3>1. x \in ForMappings(Incoming)
      BY <2>1
    <3> QED
      BY <2>1, <3>1, MappingParts
  <2>2. CASE ~ (f = 4 /\ doNetmap)
    BY <2>2, EmptyPart DEF Sides
  <2> QED
    BY <2>1, <2>2
<1>3. ASSUME NEW r \in AllRules, r.chain # "PREROUTING" PROVE Possible("shoot", r)
  BY <1>3 DEF Possible
<1>4. GoodPart("shoot", forward)
  <2>1. Rule(4, "FORWARD", "any", "ACCEPT") \in AllRules
        /\ Rule(4, "FORWARD", "any", "ACCEPT").chain = "FORWARD"
    BY DEF Rule, AllRules, Chains, Strings
  <2> QED
    BY <1>3, <2>1, SingleRule, EmptyPart DEF Sides
<1>5. GoodPart("shoot", rest)
  <2>1. /\ a \in AllRules /\ a.chain = "mangle"
        /\ b \in AllRules /\ b.chain = "eth0"
    BY DEF Rule, AllRules, Chains, Strings
  <2> HIDE DEF a, b
  <2>2. Possible("shoot", a) /\ Possible("shoot", b)
    BY <1>3, <2>1
  <2> DEFINE y == <<Unique(a)>>
             z == <<Unique(b)>>
  <2>3. GoodPart("shoot", y) /\ GoodPart("shoot", z)
    BY <2>1, <2>2, SingleRule DEF Sides
  <2>4. rest = y \o z
    OBVIOUS
  <2> HIDE DEF y, z, rest
  <2> QED
    BY <2>3, <2>4, ConcatParts
<1> HIDE DEF forward, mapped, rest
<1> DEFINE fx == forward \o x
<1>6. /\ GoodPart("shoot", fx)
      /\ \A r : Sets(fx, r) <=> Sets(forward, r) \/ Sets(x, r)
      /\ Fails(fx) <=> Fails(forward) \/ Fails(x)
  BY <1>2, <1>4, ConcatParts
<1>7. p = fx \o rest
  BY <1>1
<1> HIDE DEF fx
<1>8. /\ GoodPart("shoot", p)
      /\ \A r : Sets(p, r) <=> Sets(fx, r) \/ Sets(rest, r)
      /\ Fails(p) <=> Fails(fx) \/ Fails(rest)
  BY <1>5, <1>6, <1>7, ConcatParts
<1> QED
  BY <1>2, <1>6, <1>8

\* What a container sets out to do.
LEMMA PlanFacts ==
    ASSUME cfg \in Configs, NEW c \in Containers, c \in SeedContainers => IsHA \/ c = Server,
           NEW p \in Plans(c)
    PROVE  /\ GoodPart(Side(c), p)
           /\ \/ Fails(p)
              \/ /\ Mapping => MappingFits
                 /\ \A r : Required(Side(c), r) => Sets(p, r)
<1> DEFINE F == cfg.families
           OutMaps(q) == \/ Fails(q)
                         \/ MappingFits /\ \A r : OutRule(r) \/ SeedPodRule(r) => Sets(q, r)
           InMaps(q) == Fails(q) \/ (MappingFits /\ \A r : InRule(r) => Sets(q, r))
<1>1. F \in {<<4>>, <<6>>, <<4, 6>>}
  BY DoubleNATAssumption DEF ConfigType
<1>2. \/ Len(F) = 1 /\ F[1] \in {4, 6} /\ DOMAIN F = {1}
      \/ Len(F) = 2 /\ F[1] = 4 /\ F[2] = 6 /\ DOMAIN F = {1, 2}
  BY <1>1
<1>3. CASE c \in ShootContainers
  <2>1. Side(c) = "shoot" /\ p \in PerFamily(ShootClientPlans)
    BY <1>3, DoubleNATAssumption DEF Side, Plans
  <2>2. GoodPart("shoot", p) /\ (Mapping => InMaps(p))
    <3>1. CASE Len(F) = 1 /\ F[1] \in {4, 6} /\ DOMAIN F = {1}
      <4>1. p \in ShootClientPlans(F[1])
        BY <2>1, <3>1 DEF PerFamily
      <4> QED
        BY <3>1, <4>1, ShootClientPart DEF Mapping
    <3>2. CASE Len(F) = 2 /\ F[1] = 4 /\ F[2] = 6 /\ DOMAIN F = {1, 2}
      <4>1. PICK x \in ShootClientPlans(4), y \in ShootClientPlans(6) : p = x \o y
        BY <2>1, <3>2 DEF PerFamily
      <4>2. GoodPart("shoot", x) /\ GoodPart("shoot", y) /\ (Mapping => InMaps(x))
        BY ShootClientPart DEF Mapping
      <4>3. /\ GoodPart("shoot", x \o y)
            /\ \A r : Sets(x \o y, r) <=> Sets(x, r) \/ Sets(y, r)
            /\ Fails(x \o y) <=> Fails(x) \/ Fails(y)
        BY <4>2, ConcatParts
      <4> QED
        BY <4>1, <4>2, <4>3
    <3> QED
      BY <1>2, <3>1, <3>2
  <2> QED
    BY <2>1, <2>2 DEF Required
<1>4. CASE c \in SeedContainers /\ IsHA
  <2>1. Side(c) = "seed" /\ p \in PerFamily(SeedClientPlans)
    BY <1>4, DoubleNATAssumption DEF Side, Plans
  <2>2. FilteredFamilies = {F[i] : i \in DOMAIN F}
    BY <1>4 DEF FilteredFamilies, IPFamilies
  <2>3. /\ GoodPart("seed", p) /\ (Mapping => OutMaps(p))
        /\ \A f \in FilteredFamilies : Sets(p, DropNew(f))
    <3>1. CASE Len(F) = 1 /\ F[1] \in {4, 6} /\ DOMAIN F = {1}
      <4>1. p \in SeedClientPlans(F[1])
        BY <2>1, <3>1 DEF PerFamily
      <4>2. /\ GoodPart("seed", p) /\ Sets(p, DropNew(F[1]))
            /\ F[1] = 4 /\ doNetmap => OutMaps(p)
        BY <1>4, <3>1, <4>1, SeedClientPart
      <4>3. FilteredFamilies = {F[1]}
        BY <2>2, <3>1
      <4> QED
        BY <4>2, <4>3 DEF Mapping
    <3>2. CASE Len(F) = 2 /\ F[1] = 4 /\ F[2] = 6 /\ DOMAIN F = {1, 2}
      <4>1. PICK x \in SeedClientPlans(4), y \in SeedClientPlans(6) : p = x \o y
        BY <2>1, <3>2 DEF PerFamily
      <4>2. /\ GoodPart("seed", x) /\ Sets(x, DropNew(4)) /\ (Mapping => OutMaps(x))
            /\ GoodPart("seed", y) /\ Sets(y, DropNew(6))
        BY <1>4, SeedClientPart DEF Mapping
      <4>3. /\ GoodPart("seed", x \o y)
            /\ \A r : Sets(x \o y, r) <=> Sets(x, r) \/ Sets(y, r)
            /\ Fails(x \o y) <=> Fails(x) \/ Fails(y)
        BY <4>2, ConcatParts
      <4>4. FilteredFamilies = {4, 6}
        BY <2>2, <3>2
      <4>5. \A f \in FilteredFamilies : Sets(p, DropNew(f))
        BY <4>1, <4>2, <4>3, <4>4
      <4>6. Mapping => OutMaps(p)
        BY <4>1, <4>2, <4>3
      <4> QED
        BY <4>1, <4>3, <4>5, <4>6
    <3> QED
      BY <1>2, <3>1, <3>2
  <2> QED
    BY <2>1, <2>3 DEF Required
<1>5. CASE c \in SeedContainers /\ ~IsHA
  <2>1. Side(c) = "seed" /\ p \in ServerPlans
    BY <1>5, DoubleNATAssumption DEF Side, Plans
  <2>2. FilteredFamilies = {4, 6}
    BY <1>5 DEF FilteredFamilies
  <2>3. GoodPart("seed", p) /\ OutMaps(p) /\ \A f \in FilteredFamilies : Sets(p, DropNew(f))
    BY <1>5, <2>1, <2>2, ServerPart
  <2> QED
    BY <2>1, <2>3 DEF Required
<1> QED
  BY <1>3, <1>4, <1>5 DEF Containers

-----------------------------------------------------------------------------
\* The invariant.  The configuration does not change, and with it what is
\* possible and required.

LEMMA Frozen ==
    ASSUME cfg' = cfg
    PROVE  /\ IsHA' <=> IsHA
           /\ Mapping' <=> Mapping
           /\ MappingFits' <=> MappingFits
           /\ \A s, r : Possible(s, r)' <=> Possible(s, r)
           /\ \A s, x : PossibleStep(s, x)' <=> PossibleStep(s, x)
           /\ \A s, r : Required(s, r)' <=> Required(s, r)
<1>1. IsHA' <=> IsHA
  BY DEF IsHA
<1>2. doNetmap' <=> doNetmap
  BY <1>1 DEF doNetmap, overlap, ShootNetworks
<1>3. PodMappings' = PodMappings /\ ServiceMappings' = ServiceMappings
      /\ NodeMappings' = NodeMappings
  BY DEF PodMappings, ServiceMappings, NodeMappings
<1>4. MappingFits' <=> MappingFits
  BY <1>3 DEF MappingFits
<1>5. \A k : MappingsOf(k)' = MappingsOf(k)
  BY <1>3 DEF MappingsOf
<1>6. \A src, dst : IsMapped(src, dst)' <=> IsMapped(src, dst)
  BY <1>5 DEF IsMapped
<1>7. \A r : /\ OutRule(r)' <=> OutRule(r)
             /\ InRule(r)' <=> InRule(r)
             /\ SeedPodRule(r)' <=> SeedPodRule(r)
  BY <1>6 DEF OutRule, InRule, SeedPodRule
<1>8. FilteredFamilies' = FilteredFamilies
  BY <1>1 DEF FilteredFamilies, IPFamilies
<1>9. Mapping' <=> Mapping
  BY <1>2 DEF Mapping
<1>10. \A s, r : Possible(s, r)' <=> Possible(s, r)
  BY <1>2, <1>4, <1>7 DEF Possible
<1>11. \A s, x : PossibleStep(s, x)' <=> PossibleStep(s, x)
  BY <1>1, <1>10 DEF PossibleStep
<1>12. \A s, r : Required(s, r)' <=> Required(s, r)
  BY <1>7, <1>8, <1>9 DEF Required
<1> QED
  BY <1>1, <1>4, <1>9, <1>10, <1>11, <1>12

LEMMA SideType ==
    ASSUME NEW c \in Containers
    PROVE  Side(c) \in Sides /\ (Side(c) = "seed" <=> c \in SeedContainers)
  BY DEF Side, Sides

LEMMA KeepsFlow ==
    ASSUME cfg' = cfg, NEW x, FlowInv(x),
           pc'[x] = pc[x], plan'[x] = plan[x], checked'[x] = checked[x]
    PROVE  FlowInv(x)'
  BY Frozen DEF FlowInv, DownTail, FirewallDown

LEMMA KeepsPossible ==
    ASSUME cfg' = cfg,
           \A s \in Sides : \A i \in DOMAIN rules'[s] : Possible(s, rules'[s][i]),
           \A x \in Containers : \A i \in DOMAIN plan'[x] :
              PossibleStep(Side(x), plan'[x][i])
    PROVE  RulesPossible'
<1>1. \A s \in Sides : \A i \in DOMAIN rules'[s] : Possible(s, rules[s][i])'
  BY Frozen
<1>2. \A x \in Containers : \A i \in DOMAIN plan'[x] : PossibleStep(Side(x), plan[x][i])'
  BY Frozen DEF Side
<1> QED
  BY <1>1, <1>2 DEF RulesPossible

LEMMA KeepsCovered ==
    ASSUME cfg' = cfg, NEW x, Covered(x),
           pc'[x] = pc[x], plan'[x] = plan[x],
           \A r \in AllRules : Has(Side(x), r) => Has(Side(x), r)'
    PROVE  Covered(x)'
<1>1. Side(x)' = Side(x)
  BY DEF Side
<1> QED
  BY Frozen, <1>1 DEF Covered, Fails, Sets

LEMMA KeepsOrder ==
    ASSUME cfg' = cfg, NEW f \in {4, 6}, OrderInv(f),
           rules'["seed"] = rules["seed"], Half(f)' <=> Half(f),
           \A x \in SeedContainers :
              \/ plan'[x] = plan[x]
              \/ PlanGuarded(plan'[x], rules["seed"], Established(f), DropNew(f), ~IsHA)
    PROVE  OrderInv(f)'
  BY Frozen DEF OrderInv, Guarded, GuardedButFirst, PlanGuarded, Open

LEMMA NextOrder ==
    ASSUME cfg' = cfg, NEW f \in {4, 6}, ~Half(f)',
           Guarded(rules'["seed"], Established(f), DropNew(f), ~IsHA),
           \A x \in SeedContainers :
              PlanGuarded(plan'[x], rules'["seed"], Established(f), DropNew(f), ~IsHA)
    PROVE  OrderInv(f)'
<1> DEFINE e == Established(f)
           d == DropNew(f)
<1>1. IsHA' = IsHA /\ e' = e /\ d' = d
  BY DEF IsHA, Established, DropNew, Rule
<1> QED
  BY <1>1 DEF OrderInv

LEMMA InitNAT == Init => NATInv
<1> SUFFICES ASSUME Init PROVE NATInv
  OBVIOUS
<1>1. /\ cfg \in Configs /\ interrupted = FALSE
      /\ rules = [s \in {"seed", "shoot"} |-> <<>>]
      /\ \A c \in Containers : pc[c] = "stopped" /\ plan[c] = <<>> /\ checked[c] = FALSE
  BY DEF Init
<1>2. TypeInv
  <2>1. rules \in [Sides -> Seq(AllRules)]
    BY <1>1 DEF Sides
  <2>2. pc \in [Containers -> States]
    BY DEF Init, States
  <2>3. plan \in [Containers -> Seq(AllSteps)]
    BY DEF Init
  <2>4. checked \in [Containers -> BOOLEAN]
    BY DEF Init
  <2> QED
    BY <1>1, <2>1, <2>2, <2>3, <2>4 DEF TypeInv
<1>3. \A c \in Containers : FlowInv(c)
  BY <1>1 DEF FlowInv
<1>4. RulesPossible
  BY <1>1 DEF RulesPossible, Sides
<1>5. \A c \in Containers : Covered(c)
  BY <1>1 DEF Covered
<1>6. ASSUME NEW f \in {4, 6} PROVE OrderInv(f)
  <2>1. ~Half(f)
    BY <1>1, DoubleNATAssumption DEF Half, Containers
  <2>2. Guarded(rules["seed"], Established(f), DropNew(f), ~IsHA)
    BY <1>1 DEF Guarded
  <2>3. \A c \in SeedContainers : plan[c] = <<>>
    BY <1>1 DEF Containers
  <2> QED
    BY <2>1, <2>2, <2>3 DEF OrderInv, PlanGuarded
<1> QED
  BY <1>2, <1>3, <1>4, <1>5, <1>6 DEF NATInv

LEMMA SeqSubset ==
    ASSUME NEW p \in Seq(AddSteps)
    PROVE  p \in Seq(AllSteps)
<1>1. AddSteps \subseteq AllSteps
  BY StepType
<1> QED
  BY <1>1

LEMMA StartStep ==
    ASSUME NATInv, NEW c \in Containers, Start(c)
    PROVE  NATInv'
<1>1. PICK p \in Plans(c) : plan' = [plan EXCEPT ![c] = p]
  BY DEF Start
<1>2. /\ pc[c] = "stopped" /\ pc' = [pc EXCEPT ![c] = "setup"]
      /\ c \in SeedContainers => IsHA \/ c = Server
      /\ cfg' = cfg /\ rules' = rules /\ checked' = checked /\ interrupted' = interrupted
  BY DEF Start
<1>3. TypeInv /\ FlowInv(c)
  BY DEF NATInv
<1>4. /\ GoodPart(Side(c), p)
      /\ \/ Fails(p)
         \/ /\ Mapping => MappingFits
            /\ \A r : Required(Side(c), r) => Sets(p, r)
  BY <1>1, <1>2, <1>3, PlanFacts DEF TypeInv
<1>5. p \in Seq(AddSteps) /\ p \in Seq(AllSteps)
  BY <1>4, SeqSubset DEF GoodPart
<1>6. /\ pc'[c] = "setup" /\ plan'[c] = p
      /\ \A x \in Containers : x # c => pc'[x] = pc[x] /\ plan'[x] = plan[x]
  BY <1>1, <1>2, <1>3 DEF TypeInv
<1>7. TypeInv'
  BY <1>1, <1>2, <1>3, <1>5 DEF TypeInv, States
<1>8. ASSUME NEW x \in Containers PROVE FlowInv(x)'
  <2>1. CASE x = c
    <3>1. ~checked[c]
      BY <1>2, <1>3 DEF FlowInv
    <3> QED
      BY <1>2, <1>5, <1>6, <2>1, <3>1, Frozen DEF FlowInv
  <2>2. CASE x # c
    BY <1>2, <1>6, <2>2, KeepsFlow DEF NATInv
  <2> QED
    BY <2>1, <2>2
<1>9. RulesPossible'
  <2>1. ASSUME NEW s \in Sides, NEW i \in DOMAIN rules'[s] PROVE Possible(s, rules'[s][i])
    BY <1>2 DEF NATInv, RulesPossible
  <2>2. ASSUME NEW x \in Containers, NEW i \in DOMAIN plan'[x]
        PROVE  PossibleStep(Side(x), plan'[x][i])
    BY <1>4, <1>6 DEF NATInv, RulesPossible, GoodPart
  <2> QED
    BY <1>2, <2>1, <2>2, KeepsPossible
<1>10. ASSUME NEW x \in Containers PROVE Covered(x)'
  <2>1. CASE x = c
    <3>1. Side(x)' = Side(c)
      BY <2>1 DEF Side
    <3> QED
      BY <1>2, <1>4, <1>6, <2>1, <3>1, Frozen DEF Covered
  <2>2. CASE x # c
    <3>1. \A r \in AllRules : Has(Side(x), r) => Has(Side(x), r)'
      BY <1>2 DEF Has, Side
    <3> QED
      BY <1>2, <1>6, <2>2, <3>1, KeepsCovered DEF NATInv
  <2> QED
    BY <2>1, <2>2
<1>11. ASSUME ~interrupted', NEW f \in {4, 6} PROVE OrderInv(f)'
  <2>1. OrderInv(f)
    BY <1>2, <1>11 DEF NATInv
  <2>2. Half(f)' <=> Half(f)
    <3>1. CASE c = Server
      BY <1>2, <1>6, <3>1 DEF Half
    <3>2. CASE c # Server
      <4>1. Server \in Containers
        BY DoubleNATAssumption DEF Containers
      <4> QED
        BY <1>6, <3>2, <4>1 DEF Half
    <3> QED
      BY <3>1, <3>2
  <2>3. ASSUME NEW x \in SeedContainers
        PROVE  \/ plan'[x] = plan[x]
               \/ PlanGuarded(plan'[x], rules["seed"], Established(f), DropNew(f), ~IsHA)
    <3>1. CASE x = c
      <4>1. SelfGuarded(p, Established(f), DropNew(f), ~IsHA)
        BY <1>4, <3>1, SideType DEF GoodPart
      <4> QED
        BY <1>6, <3>1, <4>1 DEF SelfGuarded, PlanGuarded
    <3>2. CASE x # c
      BY <1>6, <3>2 DEF Containers
    <3> QED
      BY <3>1, <3>2
  <2> QED
    BY <1>2, <2>1, <2>2, <2>3, KeepsOrder
<1> QED
  BY <1>7, <1>8, <1>9, <1>10, <1>11 DEF NATInv

LEMMA AdvanceFacts ==
    ASSUME NATInv, NEW c \in Containers, plan[c] # <<>>, Advance(c), cfg' = cfg, pc' = pc
    PROVE  /\ plan' \in [Containers -> Seq(AllSteps)] /\ checked' \in [Containers -> BOOLEAN]
           /\ plan[c] \in Seq(AllSteps) /\ plan'[c] = Tail(plan[c])
           /\ \A x \in Containers : x # c => plan'[x] = plan[x]
           /\ \A x \in Containers : FlowInv(x)'
           /\ \A x \in Containers : \A i \in DOMAIN plan'[x] :
                 PossibleStep(Side(x), plan'[x][i])
<1> DEFINE p == plan[c]
<1>1. /\ plan' = [plan EXCEPT ![c] = Tail(p)]
      /\ checked' = [checked EXCEPT ![c] = FALSE]
  BY DEF Advance
<1>2. TypeInv /\ FlowInv(c) /\ p # <<>>
  BY DEF NATInv
<1>3. p \in Seq(AllSteps) /\ pc[c] \in States
  BY <1>2 DEF TypeInv
<1> HIDE DEF p
<1>4. /\ Tail(p) \in Seq(AllSteps) /\ Len(Tail(p)) = Len(p) - 1
      /\ \A i \in DOMAIN Tail(p) : i \in Nat /\ i + 1 \in DOMAIN p /\ Tail(p)[i] = p[i + 1]
  BY <1>2, <1>3, TailFacts
<1>5. /\ plan' \in [Containers -> Seq(AllSteps)] /\ checked' \in [Containers -> BOOLEAN]
      /\ plan'[c] = Tail(p) /\ checked'[c] = FALSE
      /\ \A x \in Containers : x # c => plan'[x] = plan[x] /\ checked'[x] = checked[x]
  BY <1>1, <1>2, <1>4 DEF TypeInv
<1>6. ASSUME NEW x \in Containers PROVE FlowInv(x)'
  <2>1. CASE x # c
    BY <1>5, <2>1, KeepsFlow DEF NATInv
  <2>2. CASE x = c
    <3>1. pc[c] \in {"setup", "down"}
      BY <1>2, <1>3 DEF FlowInv, States, p
    <3>2. pc[c] = "setup" => Tail(p) \in Seq(AddSteps)
      <4>1. pc[c] = "setup" => p \in Seq(AddSteps)
        BY <1>2 DEF FlowInv, p
      <4> QED
        BY <1>2, <4>1
    <3>3. pc[c] = "down" => c = Server /\ ~IsHA /\ DownTail(Tail(p))
      <4> SUFFICES ASSUME pc[c] = "down" PROVE c = Server /\ ~IsHA /\ DownTail(Tail(p))
        OBVIOUS
      <4>1. c = Server /\ ~IsHA /\ DownTail(p)
        BY <1>2 DEF FlowInv, p
      <4>2. Len(p) \in Nat /\ Len(p) <= 4
        BY <1>3, <4>1 DEF DownTail
      <4>3. ASSUME NEW i \in DOMAIN Tail(p)
            PROVE  Tail(p)[i] = FirewallDown[4 - Len(Tail(p)) + i]
        <5>1. i \in Nat /\ i + 1 \in DOMAIN p /\ Tail(p)[i] = p[i + 1]
          BY <1>4
        <5>2. p[i + 1] = FirewallDown[4 - Len(p) + (i + 1)]
          BY <4>1, <5>1 DEF DownTail
        <5>3. 4 - Len(p) + (i + 1) = 4 - Len(Tail(p)) + i
          BY <1>4, <4>2, <5>1
        <5> QED
          BY <5>1, <5>2, <5>3
      <4> QED
        BY <1>4, <4>1, <4>2, <4>3 DEF DownTail
    <3>4. DownTail(Tail(p)) => DownTail(plan[c])'
      BY <1>5 DEF DownTail, FirewallDown
    <3>5. c \in SeedContainers => IsHA \/ c = Server
      BY <1>2, <3>1 DEF FlowInv
    <3> QED
      BY <1>5, <2>2, <3>1, <3>2, <3>3, <3>4, <3>5, Frozen DEF FlowInv
  <2> QED
    BY <2>1, <2>2
<1>7. ASSUME NEW x \in Containers, NEW i \in DOMAIN plan'[x]
      PROVE  PossibleStep(Side(x), plan'[x][i])
  <2>1. CASE x = c
    BY <1>4, <1>5, <2>1 DEF NATInv, RulesPossible, p
  <2>2. CASE x # c
    BY <1>5, <2>2 DEF NATInv, RulesPossible
  <2> QED
    BY <2>1, <2>2
<1> QED
  BY <1>3, <1>5, <1>6, <1>7 DEF p

\* The rule of the first step is there.
LEMMA AdvanceCovered ==
    ASSUME NEW c, Covered(c), cfg' = cfg, pc'[c] = pc[c],
           plan[c] \in Seq(AllSteps), plan[c] # <<>>, plan'[c] = Tail(plan[c]),
           Head(plan[c]).op # "fail", NEW first, first = Head(plan[c]).rule,
           Has(Side(c), first)',
           \A r \in AllRules : Has(Side(c), r) => Has(Side(c), r)'
    PROVE  Covered(c)'
<1> SUFFICES ASSUME pc[c] \in {"setup", "running"}
             PROVE  \/ Fails(plan'[c])
                    \/ /\ Mapping => MappingFits
                       /\ \A r \in AllRules : Required(Side(c), r) =>
                             Has(Side(c), r)' \/ Sets(plan'[c], r)
  BY Frozen DEF Covered, Side
<1> DEFINE p == plan[c]
<1>1. /\ Head(p) = p[1] /\ 1 \in DOMAIN p
      /\ \A i \in DOMAIN p : i # 1 => i - 1 \in DOMAIN Tail(p) /\ p[i] = Tail(p)[i - 1]
  BY TailFacts
<1> HIDE DEF p
<1>2. Fails(p) => Fails(Tail(p))
  BY <1>1 DEF Fails, p
<1>3. ASSUME NEW r, Sets(p, r) PROVE r = Head(p).rule \/ Sets(Tail(p), r)
  BY <1>1, <1>3 DEF Sets, AddsRule
<1>4. \/ Fails(p)
      \/ /\ Mapping => MappingFits
         /\ \A r \in AllRules : Required(Side(c), r) => Has(Side(c), r) \/ Sets(p, r)
  BY DEF Covered, p
<1> QED
  BY <1>2, <1>3, <1>4 DEF p

\* The first step of what is left of a down script.
LEMMA DownHead ==
    ASSUME NEW p, DownTail(p), p # <<>>
    PROVE  /\ p \in Seq(AllSteps) /\ Len(p) \in 1 .. 4
           /\ Len(p) = 4 => Head(p) = Remove(Established(4))
           /\ Len(p) = 3 => Head(p) = Remove(Established(6))
           /\ Len(p) = 2 => Head(p) = Remove(DropNew(4))
           /\ Len(p) = 1 => Head(p) = Remove(DropNew(6))
           /\ Head(p).op = "delete"
<1>1. p \in Seq(AllSteps) /\ Len(p) <= 4
  BY DEF DownTail
<1>2. Len(p) \in 1 .. 4 /\ Head(p) = p[1] /\ 1 \in DOMAIN p
  <2>1. Head(p) = p[1] /\ 1 \in DOMAIN p
    BY <1>1, TailFacts
  <2>2. Len(p) \in Nat /\ DOMAIN p = 1 .. Len(p)
    BY <1>1
  <2> QED
    BY <1>1, <2>1, <2>2
<1>3. p[1] = FirewallDown[4 - Len(p) + 1]
  BY <1>2 DEF DownTail
<1>4. /\ FirewallDown[1] = Remove(Established(4)) /\ FirewallDown[2] = Remove(Established(6))
      /\ FirewallDown[3] = Remove(DropNew(4)) /\ FirewallDown[4] = Remove(DropNew(6))
  BY DEF FirewallDown
<1>5. /\ Len(p) = 4 => Head(p) = Remove(Established(4))
      /\ Len(p) = 3 => Head(p) = Remove(Established(6))
      /\ Len(p) = 2 => Head(p) = Remove(DropNew(4))
      /\ Len(p) = 1 => Head(p) = Remove(DropNew(6))
  <2>1. 4 - 4 + 1 = 1 /\ 4 - 3 + 1 = 2 /\ 4 - 2 + 1 = 3 /\ 4 - 1 + 1 = 4
    OBVIOUS
  <2> QED
    BY <1>2, <1>3, <1>4, <2>1
<1>6. Head(p).op = "delete"
  BY <1>2, <1>5, StepType
<1> QED
  BY <1>1, <1>2, <1>5, <1>6

\* A container that adds a rule is in its setup.
LEMMA InSetup ==
    ASSUME NATInv, NEW c \in Containers, plan[c] # <<>>, Head(plan[c]).op # "delete"
    PROVE  pc[c] = "setup"
<1>1. FlowInv(c) /\ pc[c] \in States
  BY DEF NATInv, TypeInv
<1>2. ~DownTail(plan[c])
  BY DownHead
<1> QED
  BY <1>1, <1>2 DEF FlowInv, States

LEMMA KeepsHalf ==
    ASSUME NATInv, NEW c \in Containers, pc[c] = "setup", pc' = pc,
           \A x \in Containers : x # c => plan'[x] = plan[x], NEW f
    PROVE  Half(f)' <=> Half(f)
<1>1. Server \in Containers
  BY DoubleNATAssumption DEF Containers
<1> QED
  BY <1>1 DEF Half

LEMMA CheckStep ==
    ASSUME NATInv, NEW c \in Containers, Check(c)
    PROVE  NATInv'
<1> DEFINE p == plan[c]
           s == Side(c)
           first == Head(p).rule
<1>1. /\ p # <<>> /\ Head(p).op = "unique" /\ ~checked[c]
      /\ cfg' = cfg /\ rules' = rules /\ pc' = pc /\ interrupted' = interrupted
  BY DEF Check
<1>2. pc[c] = "setup" /\ FlowInv(c) /\ TypeInv
  BY <1>1, InSetup DEF NATInv
<1>3. \A x, r : Has(Side(x), r) => Has(Side(x), r)'
  BY <1>1 DEF Has, Side
<1>4. \A t \in Sides : \A i \in DOMAIN rules'[t] : Possible(t, rules'[t][i])
  BY <1>1 DEF NATInv, RulesPossible
<1>5. CASE Has(s, first) /\ Advance(c)
  <2>1. /\ plan' \in [Containers -> Seq(AllSteps)] /\ checked' \in [Containers -> BOOLEAN]
        /\ p \in Seq(AllSteps) /\ plan'[c] = Tail(p)
        /\ \A x \in Containers : x # c => plan'[x] = plan[x]
        /\ \A x \in Containers : FlowInv(x)'
        /\ \A x \in Containers : \A i \in DOMAIN plan'[x] : PossibleStep(Side(x), plan'[x][i])
    BY <1>1, <1>5, AdvanceFacts
  <2>2. TypeInv'
    BY <1>1, <1>2, <2>1 DEF TypeInv
  <2>3. RulesPossible'
    BY <1>1, <1>4, <2>1, KeepsPossible
  <2>4. ASSUME NEW x \in Containers PROVE Covered(x)'
    <3>1. CASE x # c
      BY <1>1, <1>3, <2>1, <3>1, KeepsCovered DEF NATInv
    <3>2. CASE x = c
      <4>1. PICK r : r = first
        OBVIOUS
      <4>2. Has(Side(c), r)'
        BY <1>1, <1>5, <4>1 DEF Has, Side
      <4> QED
        BY <1>1, <1>3, <1>5, <2>1, <3>2, <4>1, <4>2, AdvanceCovered DEF NATInv
    <3> QED
      BY <3>1, <3>2
  <2>5. ASSUME ~interrupted', NEW f \in {4, 6} PROVE OrderInv(f)'
    <3> DEFINE e == Established(f)
               d == DropNew(f)
               q == rules["seed"]
               strict == ~IsHA
    <3>1. OrderInv(f)
      BY <1>1, <2>5 DEF NATInv
    <3>2. ASSUME c \in SeedContainers PROVE PlanGuarded(Tail(p), q, e, d, strict)
      <4>1. PlanGuarded(p, q, e, d, strict)
        BY <3>1, <3>2 DEF OrderInv
      <4>2. s = "seed"
        BY <3>2 DEF Side
      <4>3. AddsRule(Head(p), e) => Open(q, e, d, strict)
        <5> SUFFICES ASSUME AddsRule(Head(p), e) PROVE Open(q, e, d, strict)
          OBVIOUS
        <5>1. first = e
          BY DEF AddsRule
        <5>2. IsHA
          <6>1. PossibleStep(s, p[1]) /\ p[1] = Head(p)
            BY <1>1, <2>1, TailFacts DEF NATInv, RulesPossible
          <6>2. e.chain = "INPUT"
            BY InputRules
          <6> QED
            BY <1>1, <4>2, <5>1, <6>1, <6>2 DEF PossibleStep
        <5>3. \E j \in DOMAIN q : q[j] = e
          BY <1>5, <4>2, <5>1 DEF Has
        <5> QED
          BY <5>2, <5>3 DEF Open
      <4> HIDE DEF e, d, q, strict, p
      <4>4. strict \in BOOLEAN
        BY DEF strict
      <4> QED
        BY <1>1, <2>1, <4>1, <4>3, <4>4, TailPlanGuarded
    <3>3. ASSUME NEW x \in SeedContainers
          PROVE  plan'[x] = plan[x] \/ PlanGuarded(plan'[x], q, e, d, strict)
      BY <2>1, <3>2 DEF Containers
    <3>4. Half(f)' <=> Half(f)
      BY <1>1, <1>2, <2>1, KeepsHalf
    <3> QED
      BY <1>1, <3>1, <3>3, <3>4, KeepsOrder
  <2> QED
    BY <2>1, <2>2, <2>3, <2>4, <2>5 DEF NATInv
<1>6. CASE checked' = [checked EXCEPT ![c] = TRUE] /\ plan' = plan
  <2>1. TypeInv'
    BY <1>1, <1>2, <1>6 DEF TypeInv
  <2>2. ASSUME NEW x \in Containers PROVE FlowInv(x)'
    <3>1. CASE x # c
      <4>1. checked'[x] = checked[x]
        BY <1>2, <1>6, <3>1 DEF TypeInv
      <4> QED
        BY <1>1, <1>6, <3>1, <4>1, KeepsFlow DEF NATInv
    <3>2. CASE x = c
      BY <1>1, <1>2, <1>6, <3>2, Frozen DEF FlowInv
    <3> QED
      BY <3>1, <3>2
  <2>3. RulesPossible'
    <3>1. \A x \in Containers : \A i \in DOMAIN plan'[x] : PossibleStep(Side(x), plan'[x][i])
      BY <1>6 DEF NATInv, RulesPossible
    <3> QED
      BY <1>1, <1>4, <3>1, KeepsPossible
  <2>4. ASSUME NEW x \in Containers PROVE Covered(x)'
    BY <1>1, <1>3, <1>6, KeepsCovered DEF NATInv
  <2>5. ASSUME ~interrupted', NEW f \in {4, 6} PROVE OrderInv(f)'
    <3>1. OrderInv(f) /\ (Half(f)' <=> Half(f))
      BY <1>1, <1>6, <2>5 DEF NATInv, Half
    <3> QED
      BY <1>1, <1>6, <3>1, KeepsOrder
  <2> QED
    BY <2>1, <2>2, <2>3, <2>4, <2>5 DEF NATInv
<1> QED
  BY <1>5, <1>6 DEF Check

\* Without IS_HA, the other containers of the seed do nothing.
LEMMA ServerAlone ==
    ASSUME NATInv, ~IsHA, NEW x \in SeedContainers, x # Server
    PROVE  pc[x] = "stopped" /\ plan[x] = <<>>
<1>1. FlowInv(x)
  BY DEF NATInv, Containers
<1> QED
  BY <1>1 DEF FlowInv

LEMMA NotHalf ==
    ASSUME NATInv, NEW c \in SeedContainers, pc[c] \in {"setup", "running"}, NEW f
    PROVE  ~Half(f)
<1>1. FlowInv(Server) /\ FlowInv(c)
  BY DoubleNATAssumption DEF NATInv, Containers
<1> QED
  BY <1>1 DEF FlowInv, Half

LEMMA AppendStep ==
    ASSUME NATInv, NEW c \in Containers, AppendRule(c)
    PROVE  NATInv'
<1> DEFINE p == plan[c]
           s == Side(c)
           first == Head(p).rule
<1>1. /\ p # <<>> /\ (checked[c] \/ Head(p).op = "append") /\ Advance(c)
      /\ cfg' = cfg /\ pc' = pc /\ interrupted' = interrupted
      /\ rules' = [rules EXCEPT ![s] = Append(@, first)]
  BY DEF AppendRule
<1>2. FlowInv(c) /\ TypeInv /\ s \in Sides
  BY SideType DEF NATInv
<1>3. Head(p).op \in {"unique", "append"} /\ pc[c] = "setup"
  <2>1. Head(p).op \in {"unique", "append"}
    BY <1>1, <1>2 DEF FlowInv
  <2> QED
    BY <1>1, <2>1, InSetup
<1>4. /\ plan' \in [Containers -> Seq(AllSteps)] /\ checked' \in [Containers -> BOOLEAN]
      /\ p \in Seq(AllSteps) /\ plan'[c] = Tail(p)
      /\ \A x \in Containers : x # c => plan'[x] = plan[x]
      /\ \A x \in Containers : FlowInv(x)'
      /\ \A x \in Containers : \A i \in DOMAIN plan'[x] : PossibleStep(Side(x), plan'[x][i])
  BY <1>1, AdvanceFacts
<1>5. /\ Head(p) = p[1] /\ 1 \in DOMAIN p /\ Head(p) \in AllSteps /\ first \in AllRules
      /\ Possible(s, first)
  <2>1. Head(p) = p[1] /\ 1 \in DOMAIN p /\ Head(p) \in AllSteps
    BY <1>1, <1>4, TailFacts
  <2>2. first \in AllRules
    BY <1>3, <2>1, StepType
  <2>3. PossibleStep(s, p[1])
    BY <2>1 DEF NATInv, RulesPossible
  <2> QED
    BY <1>3, <2>1, <2>2, <2>3 DEF PossibleStep
<1> DEFINE q == rules[s]
           q2 == Append(q, first)
<1>6. q \in Seq(AllRules)
  BY <1>2 DEF TypeInv
<1>7. /\ q2 \in Seq(AllRules)
      /\ DOMAIN q2 = DOMAIN q \cup {Len(q) + 1}
      /\ \A i \in DOMAIN q : q2[i] = q[i]
      /\ q2[Len(q) + 1] = first
  BY <1>5, <1>6, AppendFacts
<1>8. /\ rules'[s] = q2 /\ rules' \in [Sides -> Seq(AllRules)]
      /\ \A t \in Sides : t # s => rules'[t] = rules[t]
  <2> HIDE DEF s, first
  <2> QED
    BY <1>1, <1>2, <1>7 DEF TypeInv
<1>9. TypeInv'
  BY <1>1, <1>2, <1>4, <1>8 DEF TypeInv
<1>10. RulesPossible'
  <2>1. ASSUME NEW t \in Sides, NEW i \in DOMAIN rules'[t] PROVE Possible(t, rules'[t][i])
    <3>1. CASE t = s
      <4>1. \A j \in DOMAIN q : Possible(s, q[j])
        BY <1>2 DEF NATInv, RulesPossible
      <4> HIDE DEF q, q2, s, first
      <4> QED
        BY <1>5, <1>7, <1>8, <3>1, <4>1
    <3>2. CASE t # s
      BY <1>8, <3>2 DEF NATInv, RulesPossible
    <3> QED
      BY <3>1, <3>2
  <2> QED
    BY <1>1, <1>4, <2>1, KeepsPossible
<1>11. PICK r : r = first
  OBVIOUS
<1>12. \A x \in Containers : \A y : Has(Side(x), y) => Has(Side(x), y)'
  <2> SUFFICES ASSUME NEW x \in Containers, NEW y, Has(Side(x), y)
               PROVE  \E i \in DOMAIN rules'[Side(x)] : rules'[Side(x)][i] = y
    BY DEF Has, Side
  <2>1. PICK i \in DOMAIN rules[Side(x)] : rules[Side(x)][i] = y
    BY DEF Has
  <2>2. Side(x) \in Sides
    BY SideType
  <2>3. CASE Side(x) = s
    <3> HIDE DEF s, q2, first
    <3> QED
      BY <1>7, <1>8, <2>1, <2>3
  <2>4. CASE Side(x) # s
    BY <1>8, <2>1, <2>2, <2>4
  <2> QED
    BY <2>3, <2>4
<1>13. Has(Side(c), r)'
  <2>1. \E i \in DOMAIN rules'[s] : rules'[s][i] = r
    <3> HIDE DEF s, q2, q, first
    <3> QED
      BY <1>7, <1>8, <1>11
  <2> QED
    BY <2>1 DEF Has, Side
<1>14. ASSUME NEW x \in Containers PROVE Covered(x)'
  <2>1. CASE x # c
    BY <1>1, <1>4, <1>12, <2>1, KeepsCovered DEF NATInv
  <2>2. CASE x = c
    BY <1>1, <1>3, <1>4, <1>11, <1>12, <1>13, <2>2, AdvanceCovered DEF NATInv
  <2> QED
    BY <2>1, <2>2
<1>15. ASSUME ~interrupted', NEW f \in {4, 6} PROVE OrderInv(f)'
  <2> DEFINE e == Established(f)
             d == DropNew(f)
             strict == ~IsHA
  <2>1. OrderInv(f)
    BY <1>1, <1>15 DEF NATInv
  <2>2. Half(f)' <=> Half(f)
    BY <1>1, <1>3, <1>4, KeepsHalf
  <2>3. CASE c \notin SeedContainers
    <3>1. s # "seed" /\ \A x \in SeedContainers : plan'[x] = plan[x]
      BY <1>4, <2>3 DEF Side, Containers
    <3>2. rules'["seed"] = rules["seed"]
      BY <1>8, <3>1 DEF Sides
    <3> QED
      BY <1>1, <2>1, <2>2, <3>1, <3>2, KeepsOrder
  <2>4. CASE c \in SeedContainers
    <3>1. s = "seed" /\ q = rules["seed"] /\ rules'["seed"] = q2
      BY <1>8, <2>4 DEF Side
    <3>2. ~Half(f)
      BY <1>3, <2>4, NotHalf
    <3>3. Guarded(q, e, d, strict) /\ PlanGuarded(p, q, e, d, strict) /\ strict \in BOOLEAN
      BY <2>1, <2>4, <3>1, <3>2 DEF OrderInv
    <3>4. e # d
      BY InputRulesDiffer
    <3>5. \A y : AddsRule(Head(p), y) <=> first = y
      BY <1>3 DEF AddsRule
    <3>6. ASSUME NEW x \in SeedContainers, x # c PROVE plan'[x] = plan[x]
      BY <1>4, <3>6 DEF Containers
    <3>7. ASSUME NEW x \in SeedContainers, strict, x # c PROVE plan[x] = <<>>
      <4>1. c = Server
        BY <1>2, <1>3, <2>4, <3>7 DEF FlowInv
      <4> QED
        BY <3>7, <4>1, ServerAlone
    <3>8. ASSUME NEW x \in SeedContainers PROVE PlanGuarded(plan[x], q, e, d, strict)
      BY <2>1, <3>1 DEF OrderInv
    <3> HIDE DEF q, q2, p, first, e, d, strict
    <3>9. first = d => Open(q, e, d, strict)
      <4> SUFFICES ASSUME first = d PROVE Open(q, e, d, strict)
        OBVIOUS
      <4>1. AddsRule(p[1], d) /\ ~ \E j \in DOMAIN p : j < 1
        BY <1>4, <1>5, <3>5
      <4> QED
        BY <1>5, <3>3, <4>1 DEF PlanGuarded
    <3>10. Guarded(q2, e, d, strict)
      BY <1>5, <1>6, <3>3, <3>9, AppendGuarded DEF q2
    <3>11. /\ first = e => Open(q2, e, d, strict)
           /\ Open(q, e, d, strict) /\ (strict => first # d) => Open(q2, e, d, strict)
      BY <1>5, <1>6, <3>3, <3>4, AppendOpen DEF q2
    <3>12. PlanGuarded(Tail(p), q2, e, d, strict)
      BY <1>1, <1>4, <3>3, <3>5, <3>11, TailPlanGuarded
    <3>13. ASSUME NEW x \in SeedContainers PROVE PlanGuarded(plan'[x], q2, e, d, strict)
      <4>1. CASE x = c
        BY <1>4, <3>12, <4>1
      <4>2. CASE x # c /\ strict
        BY <3>6, <3>7, <4>2 DEF PlanGuarded
      <4>3. CASE x # c /\ ~strict
        BY <3>6, <3>8, <3>11, <4>3 DEF PlanGuarded
      <4> QED
        BY <4>1, <4>2, <4>3
    <3> QED
      BY <1>1, <2>2, <3>1, <3>2, <3>10, <3>13, NextOrder DEF e, d, strict
  <2> QED
    BY <2>3, <2>4
<1> QED
  BY <1>4, <1>9, <1>10, <1>14, <1>15 DEF NATInv

LEMMA DownOps ==
    ASSUME NEW p, DownTail(p)
    PROVE  \A i \in DOMAIN p : p[i].op = "delete"
<1> SUFFICES ASSUME NEW i \in DOMAIN p PROVE p[i].op = "delete"
  OBVIOUS
<1>1. p \in Seq(AllSteps) /\ Len(p) <= 4
  BY DEF DownTail
<1>2. Len(p) \in Nat /\ i \in 1 .. Len(p)
  BY <1>1
<1> DEFINE k == 4 - Len(p) + i
<1>3. k \in 1 .. 4
  BY <1>1, <1>2
<1>4. p[i] = FirewallDown[k]
  BY DEF DownTail
<1> HIDE DEF k
<1>5. FirewallDown[k].op = "delete"
  <2>1. /\ FirewallDown[1] = Remove(Established(4)) /\ FirewallDown[2] = Remove(Established(6))
        /\ FirewallDown[3] = Remove(DropNew(4)) /\ FirewallDown[4] = Remove(DropNew(6))
    BY DEF FirewallDown
  <2> QED
    BY <1>3, <2>1, StepType
<1> QED
  BY <1>4, <1>5

\* DeleteIfExists: the first g is deleted if there is one.
Deleted(q, g, q2) ==
    \/ q2 = q /\ \A y \in DOMAIN q : q[y] # g
    \/ \E x \in DOMAIN q : /\ Without(q, x, q2) /\ q[x] = g
                           /\ \A y \in DOMAIN q : q[y] = g => x <= y

LEMMA DeletedOrder ==
    ASSUME NEW q, NEW g, NEW q2, Deleted(q, g, q2), NEW e, NEW d, e # d
    PROVE  /\ g # e /\ g # d /\ Guarded(q, e, d, TRUE) => Guarded(q2, e, d, TRUE)
           /\ g # e /\ g # d /\ GuardedButFirst(q, e, d) => GuardedButFirst(q2, e, d)
           /\ g = e /\ Guarded(q, e, d, TRUE) => GuardedButFirst(q2, e, d)
           /\ g = d /\ GuardedButFirst(q, e, d) => Guarded(q2, e, d, TRUE)
<1>1. CASE q2 = q /\ \A y \in DOMAIN q : q[y] # g
  BY <1>1 DEF Guarded, GuardedButFirst
<1>2. ASSUME NEW x \in DOMAIN q, Without(q, x, q2), q[x] = g,
             \A y \in DOMAIN q : q[y] = g => x <= y
      PROVE  /\ g # e /\ g # d /\ Guarded(q, e, d, TRUE) => Guarded(q2, e, d, TRUE)
             /\ g # e /\ g # d /\ GuardedButFirst(q, e, d) => GuardedButFirst(q2, e, d)
             /\ g = e /\ Guarded(q, e, d, TRUE) => GuardedButFirst(q2, e, d)
             /\ g = d /\ GuardedButFirst(q, e, d) => Guarded(q2, e, d, TRUE)
  <2>1. ASSUME g # e, g # d
        PROVE  /\ Guarded(q, e, d, TRUE) => Guarded(q2, e, d, TRUE)
               /\ GuardedButFirst(q, e, d) => GuardedButFirst(q2, e, d)
    BY <1>2, <2>1, DeleteOther
  <2>2. ASSUME g = e, Guarded(q, e, d, TRUE) PROVE GuardedButFirst(q2, e, d)
    BY <1>2, <2>2, DeleteFirstEstablished
  <2>3. ASSUME g = d, GuardedButFirst(q, e, d) PROVE Guarded(q2, e, d, TRUE)
    BY <1>2, <2>3, DeleteFirstDrop
  <2> QED
    BY <2>1, <2>2, <2>3
<1> QED
  BY <1>1, <1>2 DEF Deleted

LEMMA DeletedRules ==
    ASSUME NATInv, NEW c \in Containers, DeleteRule(c)
    PROVE  /\ rules' \in [Sides -> Seq(AllRules)]
           /\ Deleted(rules[Side(c)], Head(plan[c]).rule, rules'[Side(c)])
           /\ \A t \in Sides : t # Side(c) => rules'[t] = rules[t]
           /\ \A t \in Sides : \A i \in DOMAIN rules'[t] :
                 \E j \in DOMAIN rules[t] : rules'[t][i] = rules[t][j]
<1> DEFINE s == Side(c)
           q == rules[s]
           g == Head(plan[c]).rule
           hits == {i \in DOMAIN q : q[i] = g}
           cut == SubSeq(q, 1, Min(hits) - 1) \o SubSeq(q, Min(hits) + 1, Len(q))
           q2 == IF hits = {} THEN q ELSE cut
<1>1. rules' = [rules EXCEPT ![s] = q2]
  BY DEF DeleteRule
<1>2. s \in Sides /\ rules \in [Sides -> Seq(AllRules)] /\ q \in Seq(AllRules)
  BY SideType DEF NATInv, TypeInv
<1>3. q2 \in Seq(AllRules) /\ Deleted(q, g, q2)
  <2>1. CASE hits = {}
    BY <1>2, <2>1 DEF Deleted
  <2>2. CASE hits # {}
    <3>1. DOMAIN q \subseteq Nat
      BY <1>2
    <3>2. hits \subseteq Nat
      BY <3>1
    <3>3. Min(hits) \in hits /\ \A y \in hits : Min(hits) <= y
      <4> HIDE DEF hits
      <4> QED
        BY <2>2, <3>2, FirstHit
    <3> DEFINE x == Min(hits)
    <3>4. x \in DOMAIN q /\ q[x] = g /\ \A y \in DOMAIN q : q[y] = g => x <= y
      <4> HIDE DEF x
      <4>1. x \in hits /\ \A y \in hits : x <= y
        BY <3>3 DEF x
      <4> QED
        BY <4>1
    <3> HIDE DEF x, q, g, hits
    <3>5. cut \in Seq(AllRules) /\ Without(q, x, cut)
      BY <1>2, <3>4, Deletion DEF x
    <3>6. q2 = cut
      BY <2>2
    <3> HIDE DEF q2, cut
    <3> QED
      BY <3>4, <3>5, <3>6 DEF Deleted
  <2> QED
    BY <2>1, <2>2
<1> HIDE DEF q2, g
<1>4. /\ rules' \in [Sides -> Seq(AllRules)] /\ rules'[s] = q2
      /\ \A t \in Sides : t # s => rules'[t] = rules[t]
  <2> HIDE DEF s
  <2> QED
    BY <1>1, <1>2, <1>3
<1>5. \A i \in DOMAIN q2 : \E j \in DOMAIN q : q2[i] = q[j]
  <2> HIDE DEF q
  <2>1. CASE q2 = q
    BY <2>1
  <2>2. ASSUME NEW x, Without(q, x, q2) PROVE \A i \in DOMAIN q2 : \E j \in DOMAIN q : q2[i] = q[j]
    BY <2>2 DEF Without
  <2> QED
    BY <1>3, <2>1, <2>2 DEF Deleted
<1>6. \A t \in Sides : \A i \in DOMAIN rules'[t] :
         \E j \in DOMAIN rules[t] : rules'[t][i] = rules[t][j]
  BY <1>4, <1>5
<1> QED
  BY <1>3, <1>4, <1>6 DEF g

LEMMA DeleteStep ==
    ASSUME NATInv, NEW c \in Containers, DeleteRule(c)
    PROVE  NATInv'
<1> DEFINE p == plan[c]
           q == rules["seed"]
           q2 == rules'["seed"]
<1>1. /\ p # <<>> /\ Head(p).op = "delete" /\ Advance(c)
      /\ cfg' = cfg /\ pc' = pc /\ interrupted' = interrupted
  BY DEF DeleteRule
<1>2. FlowInv(c) /\ TypeInv
  BY DEF NATInv
<1>3. /\ plan' \in [Containers -> Seq(AllSteps)] /\ checked' \in [Containers -> BOOLEAN]
      /\ p \in Seq(AllSteps) /\ plan'[c] = Tail(p)
      /\ \A x \in Containers : x # c => plan'[x] = plan[x]
      /\ \A x \in Containers : FlowInv(x)'
      /\ \A x \in Containers : \A i \in DOMAIN plan'[x] : PossibleStep(Side(x), plan'[x][i])
  BY <1>1, AdvanceFacts
<1>4. pc[c] = "down" /\ c = Server /\ ~IsHA /\ DownTail(p)
  <2>1. pc[c] # "setup"
    <3> SUFFICES ASSUME p \in Seq(AddSteps) PROVE FALSE
      BY <1>2 DEF FlowInv
    <3>1. Head(p) \in AddSteps
      BY <1>1, TailFacts
    <3> QED
      BY <1>1, <3>1, StepType
  <2>2. pc[c] = "down"
    BY <1>1, <1>2, <2>1 DEF FlowInv, TypeInv, States
  <2> QED
    BY <1>2, <2>2 DEF FlowInv
<1>5. Side(c) = "seed" /\ Server \in SeedContainers
  BY <1>4, DoubleNATAssumption DEF Side
<1>6. /\ rules' \in [Sides -> Seq(AllRules)]
      /\ Deleted(q, Head(p).rule, q2)
      /\ \A t \in Sides : t # "seed" => rules'[t] = rules[t]
      /\ \A t \in Sides : \A i \in DOMAIN rules'[t] :
            \E j \in DOMAIN rules[t] : rules'[t][i] = rules[t][j]
  BY <1>5, DeletedRules
<1>7. TypeInv'
  BY <1>1, <1>2, <1>3, <1>6 DEF TypeInv
<1>8. RulesPossible'
  <2>1. \A t \in Sides : \A i \in DOMAIN rules'[t] : Possible(t, rules'[t][i])
    BY <1>6 DEF NATInv, RulesPossible
  <2> QED
    BY <1>1, <1>3, <2>1, KeepsPossible
<1>9. ASSUME NEW x \in Containers PROVE Covered(x)'
  <2>1. CASE x \in SeedContainers
    <3>1. pc[x] \notin {"setup", "running"}
      BY <1>4, <2>1, ServerAlone
    <3> QED
      BY <1>1, <3>1 DEF Covered
  <2>2. CASE x \notin SeedContainers
    <3>1. x # c /\ Side(x) \in Sides /\ Side(x) # "seed"
      BY <1>4, <1>5, <2>2, SideType
    <3>2. rules'[Side(x)] = rules[Side(x)]
      BY <1>6, <3>1
    <3>3. \A r \in AllRules : Has(Side(x), r) => Has(Side(x), r)'
      BY <3>2 DEF Has, Side
    <3> QED
      BY <1>1, <1>3, <3>1, <3>3, KeepsCovered DEF NATInv
  <2> QED
    BY <2>1, <2>2
<1>10. ASSUME ~interrupted', NEW f \in {4, 6} PROVE OrderInv(f)'
  <2> DEFINE e == Established(f)
             d == DropNew(f)
             g == Head(p).rule
             n == Len(p)
  <2>1. OrderInv(f) /\ e # d
    BY <1>1, <1>10, InputRulesDiffer DEF NATInv
  <2>2. (~IsHA) = TRUE /\ IsHA' = IsHA
    BY <1>1, <1>4 DEF IsHA
  <2>3. IF Half(f) THEN GuardedButFirst(q, e, d) ELSE Guarded(q, e, d, TRUE)
    BY <2>1, <2>2 DEF OrderInv
  <2>4. /\ g # e /\ g # d /\ Guarded(q, e, d, TRUE) => Guarded(q2, e, d, TRUE)
        /\ g # e /\ g # d /\ GuardedButFirst(q, e, d) => GuardedButFirst(q2, e, d)
        /\ g = e /\ Guarded(q, e, d, TRUE) => GuardedButFirst(q2, e, d)
        /\ g = d /\ GuardedButFirst(q, e, d) => Guarded(q2, e, d, TRUE)
    <3> HIDE DEF q, q2, g, e, d
    <3> QED
      BY <1>6, <2>1, DeletedOrder DEF g
  <2>5. /\ n \in 1 .. 4
        /\ n = 4 => g = Established(4)
        /\ n = 3 => g = Established(6)
        /\ n = 2 => g = DropNew(4)
        /\ n = 1 => g = DropNew(6)
    BY <1>1, <1>4, DownHead, StepType
  <2>6. /\ Half(f) <=> n \in (IF f = 4 THEN {2, 3} ELSE {1, 2})
        /\ Half(f)' <=> n - 1 \in (IF f = 4 THEN {2, 3} ELSE {1, 2})
    <3>1. Len(Tail(p)) = n - 1
      BY <1>1, <1>3, TailFacts
    <3> QED
      BY <1>1, <1>3, <1>4, <3>1 DEF Half
  <2>7. IF Half(f)' THEN GuardedButFirst(q2, e, d) ELSE Guarded(q2, e, d, TRUE)
    <3>1. /\ Established(4) # DropNew(4) /\ Established(4) # DropNew(6)
          /\ Established(6) # DropNew(4) /\ Established(6) # DropNew(6)
          /\ DropNew(4) # DropNew(6) /\ Established(4) # Established(6)
      BY InputRulesDiffer
    <3> HIDE DEF n, g, q, q2
    <3>2. /\ ~Half(f) /\ Half(f)' => g = e
          /\ Half(f) /\ ~Half(f)' => g = d
          /\ (Half(f) <=> Half(f)') => g # e /\ g # d
      <4>1. CASE f = 4
        BY <2>5, <2>6, <3>1, <4>1
      <4>2. CASE f = 6
        BY <2>5, <2>6, <3>1, <4>2
      <4> QED
        BY <4>1, <4>2
    <3> HIDE DEF e, d
    <3> QED
      BY <2>3, <2>4, <3>2
  <2>8. ASSUME NEW x \in SeedContainers
        PROVE  PlanGuarded(plan'[x], q2, e, d, TRUE)
    <3>1. CASE x = c
      <4>1. FlowInv(c)' /\ pc'[c] = "down"
        BY <1>1, <1>3, <1>4
      <4>2. DownTail(plan'[c])
        BY <4>1 DEF FlowInv, DownTail, FirewallDown
      <4>3. \A i \in DOMAIN plan'[c] : plan'[c][i].op = "delete"
        BY <4>2, DownOps
      <4> QED
        BY <3>1, <4>3 DEF PlanGuarded, AddsRule
    <3>2. CASE x # c
      <4>1. plan'[x] = <<>>
        BY <1>3, <1>4, <3>2, ServerAlone DEF Containers
      <4> QED
        BY <4>1 DEF PlanGuarded
    <3> QED
      BY <3>1, <3>2
  <2>9. (~IsHA') = TRUE /\ e' = e /\ d' = d
    BY <2>2 DEF Established, DropNew, Rule
  <2> QED
    BY <2>7, <2>8, <2>9 DEF OrderInv
<1> QED
  BY <1>3, <1>7, <1>8, <1>9, <1>10 DEF NATInv

LEMMA PlanDoneStep ==
    ASSUME NATInv, NEW c \in Containers, PlanDone(c)
    PROVE  NATInv'
<1>1. /\ plan[c] = <<>> /\ pc[c] \in {"setup", "down"}
      /\ pc' = [pc EXCEPT ![c] = IF pc[c] = "setup" THEN "running" ELSE "stopped"]
      /\ cfg' = cfg /\ rules' = rules /\ plan' = plan /\ checked' = checked
      /\ interrupted' = interrupted
  BY DEF PlanDone
<1>2. TypeInv /\ FlowInv(c) /\ Covered(c)
  BY DEF NATInv
<1>3. /\ pc'[c] = IF pc[c] = "setup" THEN "running" ELSE "stopped"
      /\ \A x \in Containers : x # c => pc'[x] = pc[x]
  BY <1>1, <1>2 DEF TypeInv
<1>4. TypeInv'
  BY <1>1, <1>2 DEF TypeInv, States
<1>5. ASSUME NEW x \in Containers PROVE FlowInv(x)'
  <2>1. CASE x # c
    BY <1>1, <1>3, <2>1, KeepsFlow DEF NATInv
  <2>2. CASE x = c
    BY <1>1, <1>2, <1>3, <2>2, Frozen DEF FlowInv
  <2> QED
    BY <2>1, <2>2
<1>6. RulesPossible'
  <2>1. \A t \in Sides : \A i \in DOMAIN rules'[t] : Possible(t, rules'[t][i])
    BY <1>1 DEF NATInv, RulesPossible
  <2>2. \A x \in Containers : \A i \in DOMAIN plan'[x] : PossibleStep(Side(x), plan'[x][i])
    BY <1>1 DEF NATInv, RulesPossible
  <2> QED
    BY <1>1, <2>1, <2>2, KeepsPossible
<1>7. ASSUME NEW x \in Containers PROVE Covered(x)'
  <2>1. \A r : Has(Side(x), r) => Has(Side(x), r)'
    BY <1>1 DEF Has, Side
  <2>2. CASE x # c
    BY <1>1, <1>3, <2>1, <2>2, KeepsCovered DEF NATInv
  <2>3. CASE x = c
    <3>1. Side(x)' = Side(c)
      BY <2>3 DEF Side
    <3> QED
      BY <1>1, <1>2, <1>3, <2>1, <2>3, <3>1, Frozen DEF Covered, Fails, Sets
  <2> QED
    BY <2>2, <2>3
<1>8. ASSUME ~interrupted', NEW f \in {4, 6} PROVE OrderInv(f)'
  <2>1. OrderInv(f)
    BY <1>1, <1>8 DEF NATInv
  <2>2. Half(f)' <=> Half(f)
    <3>1. CASE c = Server
      <4>1. Len(plan[Server]) = 0 /\ Len(plan'[Server]) = 0
        BY <1>1, <3>1
      <4> QED
        BY <4>1 DEF Half
    <3>2. CASE c # Server
      <4>1. Server \in Containers
        BY DoubleNATAssumption DEF Containers
      <4> QED
        BY <1>1, <1>3, <3>2, <4>1 DEF Half
    <3> QED
      BY <3>1, <3>2
  <2> QED
    BY <1>1, <2>1, <2>2, KeepsOrder
<1> QED
  BY <1>4, <1>5, <1>6, <1>7, <1>8 DEF NATInv

\* A container that ends leaves what it did to its plan, and no one else notices.
LEMMA EndStep ==
    ASSUME NATInv, NEW c \in Containers, NEW p, NEW state \in {"stopped", "down"},
           cfg' = cfg, rules' = rules,
           pc' = [pc EXCEPT ![c] = state], plan' = [plan EXCEPT ![c] = p],
           checked' \in [Containers -> BOOLEAN],
           \A x \in Containers : x # c => checked'[x] = checked[x],
           ~checked'[c], interrupted' \in BOOLEAN,
           interrupted \/ pc[c] = "down" => interrupted',
           \/ state = "stopped" /\ p = <<>>
           \/ state = "down" /\ p = FirewallDown /\ c = Server /\ ~IsHA
    PROVE  NATInv'
<1>1. TypeInv /\ FlowInv(c)
  BY DEF NATInv
<1>2. DownTail(FirewallDown)
  <2>1. /\ Remove(Established(4)) \in AllSteps /\ Remove(Established(6)) \in AllSteps
        /\ Remove(DropNew(4)) \in AllSteps /\ Remove(DropNew(6)) \in AllSteps
    BY InputRules, StepType
  <2>2. FirewallDown \in Seq(AllSteps) /\ Len(FirewallDown) = 4
    BY <2>1 DEF FirewallDown
  <2>3. \A i \in DOMAIN FirewallDown : 4 - Len(FirewallDown) + i = i
    BY <2>2
  <2> QED
    BY <2>2, <2>3 DEF DownTail
<1>3. p \in Seq(AllSteps) /\ \A i \in DOMAIN p : p[i].op = "delete"
  <2>1. FirewallDown \in Seq(AllSteps) /\ \A i \in DOMAIN FirewallDown : FirewallDown[i].op = "delete"
    <3>1. FirewallDown \in Seq(AllSteps)
      BY <1>2 DEF DownTail
    <3> QED
      BY <1>2, <3>1, DownOps
  <2>2. p = <<>> \/ p = FirewallDown
    OBVIOUS
  <2>3. CASE p = <<>>
    BY <2>3
  <2>4. CASE p = FirewallDown
    BY <2>1, <2>4
  <2> QED
    BY <2>2, <2>3, <2>4
<1>4. /\ pc'[c] = state /\ plan'[c] = p
      /\ \A x \in Containers : x # c => pc'[x] = pc[x] /\ plan'[x] = plan[x]
  BY <1>1 DEF TypeInv
<1>5. TypeInv'
  BY <1>1, <1>3 DEF TypeInv, States
<1>6. ASSUME NEW x \in Containers PROVE FlowInv(x)'
  <2>1. CASE x # c
    BY <1>4, <2>1, KeepsFlow DEF NATInv
  <2>2. CASE x = c /\ state = "stopped"
    BY <1>4, <2>2 DEF FlowInv
  <2>3. CASE x = c /\ state = "down"
    <3>1. DownTail(plan[c])'
      BY <1>2, <1>4, <2>3
    <3> QED
      BY <1>4, <2>3, <3>1, Frozen DEF FlowInv
  <2> QED
    BY <2>1, <2>2, <2>3
<1>7. RulesPossible'
  <2>1. \A t \in Sides : \A i \in DOMAIN rules'[t] : Possible(t, rules'[t][i])
    BY DEF NATInv, RulesPossible
  <2>2. \A x \in Containers : \A i \in DOMAIN plan'[x] : PossibleStep(Side(x), plan'[x][i])
    <3>1. \A i \in DOMAIN p : PossibleStep(Side(c), p[i])
      BY <1>3 DEF PossibleStep
    <3> QED
      BY <1>4, <3>1 DEF NATInv, RulesPossible
  <2> QED
    BY <2>1, <2>2, KeepsPossible
<1>8. ASSUME NEW x \in Containers PROVE Covered(x)'
  <2>1. CASE x # c
    <3>1. \A r : Has(Side(x), r) => Has(Side(x), r)'
      BY DEF Has, Side
    <3> QED
      BY <1>4, <2>1, <3>1, KeepsCovered DEF NATInv
  <2>2. CASE x = c
    BY <1>4, <2>2 DEF Covered
  <2> QED
    BY <2>1, <2>2
<1>9. ASSUME ~interrupted', NEW f \in {4, 6} PROVE OrderInv(f)'
  <2>1. OrderInv(f) /\ pc[c] # "down"
    BY <1>9 DEF NATInv
  <2>2. Half(f)' <=> Half(f)
    <3>1. CASE c = Server
      <4>1. ~Half(f)
        BY <2>1, <3>1 DEF Half
      <4>2. pc'[Server] = "down" => Len(plan'[Server]) = 4
        <5>1. Len(FirewallDown) = 4
          BY DEF FirewallDown
        <5> QED
          BY <1>4, <3>1, <5>1
      <4>3. ~Half(f)'
        BY <4>2 DEF Half
      <4> QED
        BY <4>1, <4>3
    <3>2. CASE c # Server
      <4>1. Server \in Containers
        BY DoubleNATAssumption DEF Containers
      <4> QED
        BY <1>4, <3>2, <4>1 DEF Half
    <3> QED
      BY <3>1, <3>2
  <2>3. ASSUME NEW x \in SeedContainers
        PROVE  \/ plan'[x] = plan[x]
               \/ PlanGuarded(plan'[x], rules["seed"], Established(f), DropNew(f), ~IsHA)
    <3>1. CASE x = c
      BY <1>3, <1>4, <3>1 DEF PlanGuarded, AddsRule
    <3>2. CASE x # c
      BY <1>4, <3>2 DEF Containers
    <3> QED
      BY <3>1, <3>2
  <2> QED
    BY <2>1, <2>2, <2>3, KeepsOrder
<1> QED
  BY <1>5, <1>6, <1>7, <1>8, <1>9 DEF NATInv

LEMMA StopStep ==
    ASSUME NATInv, NEW c \in Containers, Stop(c)
    PROVE  NATInv'
<1>1. /\ pc[c] = "running" /\ cfg' = cfg /\ rules' = rules /\ checked' = checked
      /\ interrupted' = interrupted
  BY DEF Stop
<1>2. TypeInv /\ FlowInv(c)
  BY DEF NATInv
<1>3. plan[c] = <<>> /\ ~checked[c]
  BY <1>1, <1>2 DEF FlowInv
<1>4. CASE pc' = [pc EXCEPT ![c] = "stopped"] /\ plan' = plan
  <2>1. plan' = [plan EXCEPT ![c] = <<>>]
    BY <1>2, <1>3, <1>4 DEF TypeInv
  <2> QED
    BY <1>1, <1>2, <1>3, <1>4, <2>1, EndStep DEF TypeInv
<1>5. CASE /\ ~ (IsHA \/ c \in ShootContainers) /\ pc' = [pc EXCEPT ![c] = "down"]
           /\ plan' = [plan EXCEPT ![c] = FirewallDown]
  <2>1. c = Server /\ ~IsHA
    BY <1>1, <1>2, <1>5 DEF FlowInv, Containers
  <2> QED
    BY <1>1, <1>2, <1>3, <1>5, <2>1, EndStep DEF TypeInv
<1> QED
  BY <1>4, <1>5 DEF Stop

LEMMA CrashStep ==
    ASSUME NATInv, NEW c \in Containers, Crash(c)
    PROVE  NATInv'
<1>1. /\ pc' = [pc EXCEPT ![c] = "stopped"] /\ plan' = [plan EXCEPT ![c] = <<>>]
      /\ checked' = [checked EXCEPT ![c] = FALSE]
      /\ interrupted' = (interrupted \/ pc[c] = "down")
      /\ cfg' = cfg /\ rules' = rules
  BY DEF Crash
<1>2. /\ checked \in [Containers -> BOOLEAN] /\ interrupted \in BOOLEAN
  BY DEF NATInv, TypeInv
<1>3. /\ checked' \in [Containers -> BOOLEAN] /\ ~checked'[c]
      /\ \A x \in Containers : x # c => checked'[x] = checked[x]
  BY <1>1, <1>2
<1>4. interrupted' \in BOOLEAN /\ (interrupted \/ pc[c] = "down" => interrupted')
  BY <1>1, <1>2
<1> QED
  BY <1>1, <1>3, <1>4, EndStep

LEMMA NATInvariant == Spec => []NATInv
<1>1. ASSUME NATInv, [Next]_vars PROVE NATInv'
  <2>1. CASE UNCHANGED vars
    <3>1. /\ cfg' = cfg /\ rules' = rules /\ pc' = pc /\ plan' = plan
          /\ checked' = checked /\ interrupted' = interrupted
      BY <2>1 DEF vars
    <3>2. TypeInv'
      BY <1>1, <3>1 DEF NATInv, TypeInv
    <3>3. \A x \in Containers : FlowInv(x)'
      BY <1>1, <3>1, KeepsFlow DEF NATInv
    <3>4. RulesPossible'
      <4>1. \A t \in Sides : \A i \in DOMAIN rules'[t] : Possible(t, rules'[t][i])
        BY <1>1, <3>1 DEF NATInv, RulesPossible
      <4>2. \A x \in Containers : \A i \in DOMAIN plan'[x] : PossibleStep(Side(x), plan'[x][i])
        BY <1>1, <3>1 DEF NATInv, RulesPossible
      <4> QED
        BY <3>1, <4>1, <4>2, KeepsPossible
    <3>5. ASSUME NEW x \in Containers PROVE Covered(x)'
      <4>1. \A r : Has(Side(x), r) => Has(Side(x), r)'
        BY <3>1 DEF Has, Side
      <4> QED
        BY <1>1, <3>1, <4>1, KeepsCovered DEF NATInv
    <3>6. ASSUME ~interrupted', NEW f \in {4, 6} PROVE OrderInv(f)'
      <4>1. OrderInv(f) /\ (Half(f)' <=> Half(f))
        BY <1>1, <3>1, <3>6 DEF NATInv, Half
      <4> QED
        BY <3>1, <4>1, KeepsOrder
    <3> QED
      BY <3>2, <3>3, <3>4, <3>5, <3>6 DEF NATInv
  <2>2. CASE Next
    <3>1. PICK c \in Containers : ContainerStep(c)
      BY <2>2 DEF Next
    <3> QED
      BY <1>1, <3>1, StartStep, CheckStep, AppendStep, DeleteStep, PlanDoneStep,
         StopStep, CrashStep DEF ContainerStep
  <2> QED
    BY <1>1, <2>1, <2>2
<1> QED
  BY InitNAT, <1>1, PTL DEF Spec

-----------------------------------------------------------------------------
\* The filter.

LEMMA Families ==
    ASSUME NATInv
    PROVE  FilteredFamilies \subseteq {4, 6}
<1>1. cfg.families \in {<<4>>, <<6>>, <<4, 6>>}
  BY DoubleNATAssumption DEF NATInv, TypeInv, ConfigType
<1> QED
  BY <1>1 DEF FilteredFamilies, IPFamilies

\* A running container has all rules that its side needs.
LEMMA RunningHas ==
    ASSUME NATInv, NEW c \in Containers, pc[c] = "running"
    PROVE  /\ Mapping => MappingFits
           /\ \A r \in AllRules : Required(Side(c), r) => Has(Side(c), r)
<1>1. FlowInv(c) /\ Covered(c)
  BY DEF NATInv
<1>2. plan[c] = <<>>
  BY <1>1 DEF FlowInv
<1>3. ~Fails(plan[c]) /\ \A r : ~Sets(plan[c], r)
  BY <1>2 DEF Fails, Sets
<1> QED
  BY <1>1, <1>3 DEF Covered

\* If there is a rule of INPUT that matches a packet, the first one decides.
LEMMA InputDecides ==
    ASSUME NATInv, NEW f \in {4, 6}, NEW kind \in {"new", "established"},
           Has("seed", DropNew(f)) \/ Input(f, kind) # "ACCEPT"
    PROVE  \E i \in DOMAIN rules["seed"] :
              /\ Input(f, kind) = rules["seed"][i].to
              /\ rules["seed"][i] \in (IF kind = "new" THEN {DropNew(f)}
                                       ELSE {DropNew(f), Established(f)})
              /\ kind = "established" =>
                    \A j \in DOMAIN rules["seed"] :
                        rules["seed"][j] = Established(f) => i <= j
<1> DEFINE q == rules["seed"]
           hits == {i \in DOMAIN q : /\ q[i].family = f /\ q[i].chain = "INPUT"
                                     /\ q[i].match \in {kind, "any"}}
<1>1. Input(f, kind) = IF hits = {} THEN "ACCEPT" ELSE q[Min(hits)].to
  BY DEF Input, Hits
<1>2. q \in Seq(AllRules) /\ DOMAIN q \subseteq Nat
  BY DEF NATInv, TypeInv, Sides
<1>3. hits # {}
  <2>1. CASE Has("seed", DropNew(f))
    BY <2>1, InputRules DEF Has
  <2>2. CASE Input(f, kind) # "ACCEPT"
    BY <1>1, <2>2
  <2> QED
    BY <2>1, <2>2
<1> DEFINE i == Min(hits)
<1>4. i \in hits /\ \A y \in hits : i <= y
  <2>1. hits \subseteq Nat
    BY <1>2
  <2> HIDE DEF hits
  <2> QED
    BY <1>3, <2>1, FirstHit
<1>5. Input(f, kind) = q[i].to
  BY <1>1, <1>3
<1> HIDE DEF i
<1>6. InputRule(q[i])
  <2>1. Possible("seed", q[i]) /\ q[i].chain = "INPUT"
    BY <1>4 DEF NATInv, RulesPossible, Sides
  <2> QED
    BY <2>1 DEF Possible
<1>7. q[i] \in (IF kind = "new" THEN {DropNew(f)} ELSE {DropNew(f), Established(f)})
  <2>1. q[i].family = f /\ q[i].match \in {kind, "any"}
    BY <1>4
  <2>2. q[i] # IcmpRule
    <3>1. IcmpRule.match = "icmpv6"
      BY DEF IcmpRule, Rule
    <3> QED
      BY <2>1, <3>1
  <2>3. PICK g \in {4, 6} : q[i] \in {Established(g), DropNew(g)}
    BY <1>6, <2>2 DEF InputRule
  <2>4. g = f
    BY <2>1, <2>3, InputRules
  <2>5. kind = "new" => q[i] # Established(f)
    BY <2>1, InputRules
  <2> QED
    BY <2>3, <2>4, <2>5
<1>8. ASSUME kind = "established", NEW j \in DOMAIN q, q[j] = Established(f) PROVE i <= j
  BY <1>4, <1>8, InputRules
<1> QED
  BY <1>4, <1>5, <1>7, <1>8

\* While OpenVPN runs on the seed, INPUT drops new connections from the tunnel,
\* of both families without IS_HA and of those in IP_FAMILIES with IS_HA, for
\* any number of containers that set their rules at the same time, crash and
\* start again (iptables.go of both sides, firewall.go).
THEOREM ShootBlockedTheorem == Spec => []ShootBlocked
<1>1. NATInv => ShootBlocked
  <2> SUFFICES ASSUME NATInv, Running("seed"), NEW f \in FilteredFamilies
               PROVE  Input(f, "new") = "DROP"
    BY DEF ShootBlocked
  <2>1. PICK c \in Containers : Side(c) = "seed" /\ pc[c] = "running"
    BY DEF Running
  <2>2. f \in {4, 6}
    BY Families
  <2>3. Required("seed", DropNew(f))
    BY DEF Required
  <2>4. Has("seed", DropNew(f))
    BY <2>1, <2>2, <2>3, RunningHas, InputRules
  <2>5. Input(f, "new") = DropNew(f).to
    BY <2>2, <2>4, InputDecides
  <2> QED
    BY <2>2, <2>5, InputRules
<1> QED
  BY <1>1, NATInvariant, PTL

\* While OpenVPN runs on the seed, INPUT lets answers from the shoot pass in
\* both families, unless a down script was cut short before: each rule that drops everything
\* comes after one that accepts answers, however the containers interleave
\* (iptables.go of both sides, firewall.go).
THEOREM AnswersPassTheorem == Spec => []AnswersPass
<1>1. NATInv => AnswersPass
  <2> SUFFICES ASSUME NATInv, Running("seed"), ~interrupted, NEW f \in {4, 6},
                      Input(f, "established") # "ACCEPT"
               PROVE  FALSE
    BY DEF AnswersPass
  <2> DEFINE q == rules["seed"]
  <2>1. PICK c \in Containers : Side(c) = "seed" /\ pc[c] = "running"
    BY DEF Running
  <2>2. PICK i \in DOMAIN q :
           /\ Input(f, "established") = q[i].to
           /\ q[i] \in {DropNew(f), Established(f)}
           /\ \A j \in DOMAIN q : q[j] = Established(f) => i <= j
    BY InputDecides
  <2>3. q[i] # DropNew(f)
    <3>1. ~Half(f)
      BY <2>1, NotHalf, SideType
    <3>2. Guarded(q, Established(f), DropNew(f), ~IsHA)
      BY <3>1 DEF NATInv, OrderInv
    <3>3. DOMAIN q \subseteq Nat
      BY DEF NATInv, TypeInv, Sides
    <3> QED
      BY <2>2, <3>2, <3>3 DEF Guarded
  <2> QED
    BY <2>2, <2>3, InputRules
<1> QED
  BY <1>1, NATInvariant, PTL

-----------------------------------------------------------------------------
\* The way of a packet.

LEMMA ModSum ==
    ASSUME NEW b \in Nat \ {0}, NEW q \in Nat, NEW r \in 0 .. b - 1
    PROVE  (b * q + r) % b = r /\ b * q + r \in Nat
<1> DEFINE n == b * q + r
           p == n \div b
           t == n % b
<1>0. n \in Nat /\ b * q \in Nat
  OBVIOUS
<1>1. n = b * p + t /\ t \in 0 .. b - 1 /\ p \in Nat
  BY <1>0, DivMod
<1> HIDE DEF p, t
<1>2. b * p \in Nat
  BY <1>1
<1>3. CASE p = q
  BY <1>0, <1>1, <1>2, <1>3 DEF t
<1>4. CASE p + 1 <= q
  <2>1. b * (p + 1) <= b * q /\ b * (p + 1) = b * p + b
    BY <1>1, <1>4, Monotone
  <2> QED
    BY <1>0, <1>1, <1>2, <2>1
<1>5. CASE q + 1 <= p
  <2>1. b * (q + 1) <= b * p /\ b * (q + 1) = b * q + b
    BY <1>1, <1>5, Monotone
  <2> QED
    BY <1>0, <1>1, <1>2, <2>1
<1> QED
  BY <1>1, <1>3, <1>4, <1>5

LEMMA MappedAddress ==
    ASSUME NEW n \in IPNets, NEW ip \in Nat
    PROVE  /\ netmapIP(ip, n) \in Nat /\ netmapIP(ip, n) \in 0 .. 2^W - 1
           /\ n.base <= netmapIP(ip, n) /\ netmapIP(ip, n) < n.base + Size(n)
           /\ Contains(n, netmapIP(ip, n))
<1>1. n.base \in Nat /\ Size(n) \in Nat \ {0} /\ n.base + Size(n) <= 2^W
  BY NetType, NetEnd
<1>2. ip % Size(n) \in 0 .. Size(n) - 1
  BY <1>1, DivMod
<1>3. 2^W \in Nat
  BY PowerType, WidthAssumption
<1>4. /\ netmapIP(ip, n) \in Nat /\ netmapIP(ip, n) \in 0 .. 2^W - 1
      /\ n.base <= netmapIP(ip, n) /\ netmapIP(ip, n) < n.base + Size(n)
  BY <1>1, <1>2, <1>3 DEF netmapIP
<1> QED
  BY <1>4, ContainsIff

\* An address that is mapped to a network of the same size is mapped back.
LEMMA MappedBack ==
    ASSUME NEW a \in IPNets, NEW b \in IPNets, a.prefix = b.prefix,
           NEW ip \in Nat, Contains(a, ip)
    PROVE  netmapIP(netmapIP(ip, b), a) = ip
<1> DEFINE s == Size(a)
           r == ip % s
           qa == a.base \div s
           qb == b.base \div s
<1>1. /\ a.base \in Nat /\ b.base \in Nat /\ s \in Nat \ {0} /\ Size(b) = s
      /\ a.base % s = 0 /\ b.base % s = 0
  <2>1. Size(b) = s
    BY DEF Size
  <2> QED
    BY <2>1, NetType
<1>2. /\ a.base = s * qa + 0 /\ qa \in Nat
      /\ b.base = s * qb + 0 /\ qb \in Nat
      /\ ip = s * (ip \div s) + r /\ r \in 0 .. s - 1
  BY <1>1, DivMod
<1>3. ip \div s = qa
  BY DEF Contains
<1>4. netmapIP(ip, b) = b.base + r /\ netmapIP(netmapIP(ip, b), a) = a.base + (netmapIP(ip, b) % s)
  BY <1>1 DEF netmapIP
<1> HIDE DEF s, r, qa, qb
<1>5. (s * qb + r) % s = r
  BY <1>1, <1>2, ModSum
<1>6. s * qa \in Nat /\ s * qb \in Nat
  BY <1>1, <1>2
<1>7. netmapIP(ip, b) % s = r
  BY <1>2, <1>4, <1>5, <1>6
<1> QED
  BY <1>2, <1>3, <1>4, <1>6, <1>7

\* The kernel takes the first rule that matches.
LEMMA TranslateFirst ==
    ASSUME NATInv, NEW s \in Sides, NEW chain, NEW ip
    PROVE  \/ /\ Translate(s, chain, ip) = ip
              /\ ~ \E i \in DOMAIN rules[s] : /\ rules[s][i].family = 4
                                              /\ rules[s][i].chain = chain
                                              /\ Contains(rules[s][i].match, ip)
           \/ \E i \in DOMAIN rules[s] : /\ rules[s][i].chain = chain
                                         /\ Contains(rules[s][i].match, ip)
                                         /\ Translate(s, chain, ip) =
                                               netmapIP(ip, rules[s][i].to)
<1> DEFINE q == rules[s]
           hits == {i \in DOMAIN q : /\ q[i].family = 4 /\ q[i].chain = chain
                                     /\ Contains(q[i].match, ip)}
<1>1. Translate(s, chain, ip) = IF hits = {} THEN ip ELSE netmapIP(ip, q[Min(hits)].to)
  BY DEF Translate, Hits
<1>2. DOMAIN q \subseteq Nat
  BY DEF NATInv, TypeInv
<1>3. CASE hits = {}
  BY <1>1, <1>3
<1>4. CASE hits # {}
  <2> DEFINE i == Min(hits)
  <2>1. i \in hits
    <3>1. hits \subseteq Nat
      BY <1>2
    <3> HIDE DEF hits
    <3> QED
      BY <1>4, <3>1, FirstHit
  <2>2. Translate(s, chain, ip) = netmapIP(ip, q[i].to)
    BY <1>1, <1>4
  <2> HIDE DEF i
  <2> QED
    BY <2>1, <2>2
<1> QED
  BY <1>3, <1>4

LEMMA NetworkOfList ==
    ASSUME cfg \in Configs, NEW i \in DOMAIN ShootNetworks
    PROVE  \E k \in Kinds : \E j \in DOMAIN ListOf(k) : ShootNetworks[i] = ListOf(k)[j]
<1> DEFINE a == ListOf("pods")
           b == ListOf("services")
           c == ListOf("nodes")
           S == {a[x] : x \in DOMAIN a} \cup {b[x] : x \in DOMAIN b} \cup {c[x] : x \in DOMAIN c}
<1>1. IsList(a) /\ IsList(b) /\ IsList(c)
  BY DoubleNATAssumption DEF ConfigType, ListOf
<1>2. ShootNetworks = (a \o b) \o c
  BY DEF ShootNetworks, ListOf
<1> HIDE DEF a, b, c
<1>3. a \in Seq(S) /\ b \in Seq(S) /\ c \in Seq(S)
  <2>1. ASSUME NEW l, IsList(l), \A x \in DOMAIN l : l[x] \in S PROVE l \in Seq(S)
    <3> HIDE DEF S
    <3>1. Len(l) \in Nat /\ l = [x \in 1 .. Len(l) |-> l[x]]
      BY <2>1 DEF IsList
    <3>2. DOMAIN l = 1 .. Len(l)
      BY <3>1
    <3> QED
      BY <2>1, <3>1, <3>2
  <2>2. /\ \A x \in DOMAIN a : a[x] \in S
        /\ \A x \in DOMAIN b : b[x] \in S
        /\ \A x \in DOMAIN c : c[x] \in S
    OBVIOUS
  <2> HIDE DEF S
  <2> QED
    BY <1>1, <2>1, <2>2
<1>4. ShootNetworks[i] \in S
  <2> HIDE DEF S
  <2>1. (a \o b) \o c \in Seq(S)
    BY <1>3
  <2> QED
    BY <1>2, <2>1
<1> QED
  BY <1>4 DEF a, b, c, Kinds

\* Mapped networks are apart, those of different kinds, too.
LEMMA MappedUnique ==
    ASSUME cfg \in Configs,
           NEW a \in IPNets, NEW b \in IPNets, NEW c \in IPNets, NEW d \in IPNets,
           IsMapped(a, b), IsMapped(c, d),
           NEW ip \in Nat, Contains(b, ip), Contains(d, ip)
    PROVE  a = c
<1>1. PICK k \in Kinds : a \in DOMAIN MappingsOf(k).result /\ b = MappingsOf(k).result[a]
  BY DEF IsMapped
<1>2. PICK l \in Kinds : c \in DOMAIN MappingsOf(l).result /\ d = MappingsOf(l).result[c]
  BY DEF IsMapped
<1>3. /\ b.base <= ip /\ ip < b.base + Size(b) /\ b.base \in Nat /\ Size(b) \in Nat
      /\ d.base <= ip /\ ip < d.base + Size(d) /\ d.base \in Nat /\ Size(d) \in Nat
  BY ContainsIff, NetType
<1>4. ResultApart(RangeOf(k), MappingsOf(k)) /\ ResultApart(RangeOf(l), MappingsOf(l))
  BY MappingFacts
<1>5. CASE k = l
  <2> SUFFICES ASSUME a # c PROVE FALSE
    OBVIOUS
  <2>1. Apart(b.base, Size(b), d.base, Size(d))
    BY <1>1, <1>2, <1>4, <1>5 DEF ResultApart
  <2> QED
    BY <1>3, <2>1 DEF Apart
<1>6. CASE k # l
  <2> DEFINE R == RangeOf(k)
             Q == RangeOf(l)
  <2>1. R \in IPNets /\ Q \in IPNets
    BY Ranges
  <2>2. R.base \in Nat /\ Size(R) \in Nat /\ Q.base \in Nat /\ Size(Q) \in Nat
    BY <2>1, NetType
  <2>3. /\ R.base <= b.base /\ b.base + Size(b) <= R.base + Size(R)
        /\ Q.base <= d.base /\ d.base + Size(d) <= Q.base + Size(Q)
    BY <1>1, <1>2, <1>4 DEF ResultApart
  <2>4. Apart(R.base, Size(R), Q.base, Size(Q))
    <3>1. ~Overlap(R, Q)
      <4>1. \A x, y : Overlap(x, y) <=> Overlap(y, x)
        BY DEF Overlap
      <4> QED
        BY <1>6, <4>1, DoubleNATAssumption DEF RangeOf, Kinds
    <3>2. Disjoint(R, Q)
      BY <3>1 DEF Disjoint
    <3> HIDE DEF R, Q
    <3> QED
      BY <2>1, <3>2, DisjointIff
  <2> HIDE DEF R, Q
  <2> QED
    BY <1>3, <2>2, <2>3, <2>4 DEF Apart
<1> QED
  BY <1>5, <1>6

LEMMA MappedFacts ==
    ASSUME cfg \in Configs, NEW a \in IPNets, NEW b \in IPNets, IsMapped(a, b),
           doNetmap, MappingFits
    PROVE  /\ a.prefix = b.prefix
           /\ \E r \in SeedRoutes : IsIPv4(r) /\ \A ip \in Nat : Contains(b, ip) => Contains(r, ip)
<1>1. PICK k \in Kinds : a \in DOMAIN MappingsOf(k).result /\ b = MappingsOf(k).result[a]
  BY DEF IsMapped
<1> DEFINE R == RangeOf(k)
           l == ListOf(k)
<1>2. ResultApart(R, MappingsOf(k))
      /\ DOMAIN MappingsOf(k).result = {l[i] : i \in IPv4s(l)}
  BY MappingFacts
<1>3. PICK i \in DOMAIN l : IsIPv4(l[i])
  BY <1>1, <1>2 DEF IPv4s
<1>4. R \in SeedRoutes
  <2>1. R \in RoutedNetworks
    BY <1>3 DEF RoutedNetworks, RangeOf, ListOf, Kinds
  <2> QED
    BY <2>1 DEF SeedRoutes
<1>5. R \in IPNets
  BY Ranges
<1>6. /\ a.prefix = b.prefix /\ R.base <= b.base
      /\ b.base + Size(b) <= R.base + Size(R)
  BY <1>1, <1>2 DEF ResultApart
<1> HIDE DEF R
<1>7. ASSUME NEW ip \in Nat, Contains(b, ip) PROVE Contains(R, ip)
  <2>1. /\ b.base \in Nat /\ Size(b) \in Nat /\ R.base \in Nat /\ Size(R) \in Nat
    BY <1>5, NetType
  <2>2. b.base <= ip /\ ip < b.base + Size(b)
    BY <1>7, ContainsIff
  <2>3. R.base <= ip /\ ip < R.base + Size(R)
    BY <1>6, <2>1, <2>2
  <2> QED
    BY <1>5, <2>3, ContainsIff
<1> QED
  BY <1>4, <1>5, <1>6, <1>7 DEF IsIPv4

LEMMA DeliveredMapped ==
    ASSUME NATInv, Running("seed"), Running("shoot"), cfg.families[1] = 4, doNetmap,
           NEW i \in DOMAIN ShootNetworks, IsIPv4(ShootNetworks[i]),
           NEW dst \in 0 .. 2^W - 1, Contains(ShootNetworks[i], dst)
    PROVE  LET wire == Translate("seed", "OUTPUT", dst)
           IN  /\ \E r \in SeedRoutes : IsIPv4(r) /\ Contains(r, wire)
               /\ Translate("shoot", "PREROUTING", wire) = dst
<1> DEFINE wire == Translate("seed", "OUTPUT", dst)
<1>1. cfg \in Configs /\ dst \in Nat
  BY PowerType, WidthAssumption DEF NATInv, TypeInv
<1>2. PICK c \in Containers, h \in Containers :
         /\ Side(c) = "seed" /\ pc[c] = "running"
         /\ Side(h) = "shoot" /\ pc[h] = "running"
  BY DEF Running
<1>3. Mapping /\ MappingFits
  BY <1>2, RunningHas DEF Mapping
<1>4. PICK n \in IPNets, m1 \in IPNets : IsMapped(n, m1) /\ Contains(n, dst)
  <2>1. PICK k \in Kinds : \E j \in DOMAIN ListOf(k) : ShootNetworks[i] = ListOf(k)[j]
    BY <1>1, NetworkOfList
  <2> DEFINE n == ShootNetworks[i]
             m1 == MappingsOf(k).result[n]
  <2>2. n \in DOMAIN MappingsOf(k).result
    BY <1>1, <1>3, <2>1, MappingFacts DEF IPv4s
  <2>3. n \in IPNets /\ m1 \in IPNets
    BY <1>1, <2>2, MappingFacts
  <2>4. IsMapped(n, m1)
    BY <2>2 DEF IsMapped
  <2> QED
    BY <2>3, <2>4
<1>5. PICK a \in IPNets, b \in IPNets :
         IsMapped(a, b) /\ Contains(a, dst) /\ wire = netmapIP(dst, b)
  <2> DEFINE r == Rule(4, "OUTPUT", n, m1)
  <2>1. OutRule(r)
    BY <1>4 DEF OutRule
  <2>2. r \in AllRules /\ r.family = 4 /\ r.chain = "OUTPUT" /\ r.match = n
    BY DEF Rule, AllRules, Chains
  <2> HIDE DEF r
  <2>3. Has("seed", r)
    <3>1. Required("seed", r)
      BY <1>3, <2>1 DEF Required
    <3> QED
      BY <1>2, <2>2, <3>1, RunningHas
  <2>4. PICK j \in DOMAIN rules["seed"] : /\ rules["seed"][j].chain = "OUTPUT"
                                          /\ Contains(rules["seed"][j].match, dst)
                                          /\ wire = netmapIP(dst, rules["seed"][j].to)
    BY <1>4, <2>2, <2>3, TranslateFirst DEF Has, Sides
  <2>5. OutRule(rules["seed"][j])
    BY <2>4 DEF NATInv, RulesPossible, Possible, Sides
  <2>6. PICK a \in IPNets, b \in IPNets :
           IsMapped(a, b) /\ rules["seed"][j] = Rule(4, "OUTPUT", a, b)
    BY <2>5 DEF OutRule
  <2>7. rules["seed"][j].match = a /\ rules["seed"][j].to = b
    BY <2>6, RuleFields
  <2> QED
    BY <2>4, <2>6, <2>7
<1>6. wire \in Nat /\ Contains(b, wire)
  BY <1>1, <1>5, MappedAddress
<1>7. /\ a.prefix = b.prefix
      /\ \E r \in SeedRoutes : IsIPv4(r) /\ \A ip \in Nat : Contains(b, ip) => Contains(r, ip)
  BY <1>1, <1>3, <1>5, MappedFacts
<1>8. \E r \in SeedRoutes : IsIPv4(r) /\ Contains(r, wire)
  BY <1>6, <1>7
<1>9. netmapIP(wire, a) = dst
  BY <1>1, <1>5, <1>7, MappedBack
<1> HIDE DEF wire
<1>10. Translate("shoot", "PREROUTING", wire) = netmapIP(wire, a)
  <2> DEFINE r == Rule(4, "PREROUTING", b, a)
  <2>1. InRule(r)
    BY <1>5 DEF InRule
  <2>2. r \in AllRules /\ r.family = 4 /\ r.chain = "PREROUTING" /\ r.match = b
    BY DEF Rule, AllRules, Chains
  <2> HIDE DEF r
  <2>3. Has("shoot", r)
    <3>1. Required("shoot", r)
      BY <1>3, <2>1 DEF Required
    <3> QED
      BY <1>2, <2>2, <3>1, RunningHas
  <2>4. PICK j \in DOMAIN rules["shoot"] :
           /\ rules["shoot"][j].chain = "PREROUTING"
           /\ Contains(rules["shoot"][j].match, wire)
           /\ Translate("shoot", "PREROUTING", wire) = netmapIP(wire, rules["shoot"][j].to)
    BY <1>6, <2>2, <2>3, TranslateFirst DEF Has, Sides
  <2>5. InRule(rules["shoot"][j])
    BY <2>4 DEF NATInv, RulesPossible, Possible, Sides
  <2>6. PICK x \in IPNets, y \in IPNets :
           IsMapped(x, y) /\ rules["shoot"][j] = Rule(4, "PREROUTING", y, x)
    BY <2>5 DEF InRule
  <2>7. rules["shoot"][j].match = y /\ rules["shoot"][j].to = x
    BY <2>6, RuleFields
  <2>8. x = a
    BY <1>1, <1>5, <1>6, <2>4, <2>6, <2>7, MappedUnique
  <2> QED
    BY <2>4, <2>7, <2>8
<1> QED
  BY <1>8, <1>9, <1>10 DEF wire

\* The answer finds its way back.
LEMMA ReturnMapped ==
    ASSUME NATInv, Running("seed"), cfg.families[1] = 4, doNetmap, IsIPv4(cfg.seedPod),
           NEW src \in 0 .. 2^W - 1, Contains(cfg.seedPod, src)
    PROVE  Translate("seed", "POSTROUTING", src) \in ReturnRoute(src)
<1> DEFINE r == Rule(4, "POSTROUTING", cfg.seedPod, SeedMapped)
<1>1. src \in Nat /\ SeedMapped \in IPNets
  BY PowerType, WidthAssumption, DoubleNATAssumption
<1>2. PICK c \in Containers : Side(c) = "seed" /\ pc[c] = "running"
  BY DEF Running
<1>3. SeedPodRule(r) /\ \A x : SeedPodRule(x) => x = r
  BY DEF SeedPodRule
<1>4. /\ r \in AllRules /\ r.family = 4 /\ r.chain = "POSTROUTING"
      /\ r.match = cfg.seedPod /\ r.to = SeedMapped
  BY <1>1 DEF Rule, AllRules, Chains, IsIPv4
<1> HIDE DEF r
<1>5. Has("seed", r)
  <2>1. Required("seed", r)
    BY <1>3 DEF Required, Mapping
  <2> QED
    BY <1>2, <1>4, <2>1, RunningHas
<1>6. PICK j \in DOMAIN rules["seed"] :
         /\ rules["seed"][j].chain = "POSTROUTING"
         /\ Translate("seed", "POSTROUTING", src) = netmapIP(src, rules["seed"][j].to)
  BY <1>4, <1>5, TranslateFirst DEF Has, Sides
<1>7. SeedPodRule(rules["seed"][j])
  BY <1>6 DEF NATInv, RulesPossible, Possible, Sides
<1>8. Translate("seed", "POSTROUTING", src) = netmapIP(src, SeedMapped)
  BY <1>3, <1>4, <1>6, <1>7
<1>9. netmapIP(src, SeedMapped) \in 0 .. 2^W - 1 /\ Contains(SeedMapped, netmapIP(src, SeedMapped))
  BY <1>1, MappedAddress
<1> QED
  BY <1>8, <1>9 DEF ReturnRoute, doNetmap

\* Without mapped networks, addresses stay what they are.
LEMMA DeliveredUnmapped ==
    ASSUME NATInv, ~doNetmap, MappingFits,
           NEW i \in DOMAIN ShootNetworks, IsIPv4(ShootNetworks[i]),
           NEW dst, Contains(ShootNetworks[i], dst), NEW src
    PROVE  LET wire == Translate("seed", "OUTPUT", dst)
           IN  /\ \E r \in SeedRoutes : IsIPv4(r) /\ Contains(r, wire)
               /\ Translate("shoot", "PREROUTING", wire) = dst
               /\ Translate("seed", "POSTROUTING", src) \in ReturnRoute(src)
<1>1. /\ \A j \in DOMAIN rules["seed"] : rules["seed"][j].chain \notin {"OUTPUT", "POSTROUTING"}
      /\ \A j \in DOMAIN rules["shoot"] : rules["shoot"][j].chain # "PREROUTING"
  BY DEF NATInv, RulesPossible, Possible, Sides
<1>2. /\ Translate("seed", "OUTPUT", dst) = dst
      /\ Translate("shoot", "PREROUTING", dst) = dst
      /\ Translate("seed", "POSTROUTING", src) = src
  BY <1>1, TranslateFirst DEF Sides
<1>3. ShootNetworks[i] \in SeedRoutes
  <2>1. PICK k \in Kinds : \E j \in DOMAIN ListOf(k) : ShootNetworks[i] = ListOf(k)[j]
    BY NetworkOfList DEF NATInv, TypeInv
  <2>2. ShootNetworks[i] \in RoutedNetworks
    BY <2>1 DEF RoutedNetworks, ListOf, Kinds
  <2> QED
    BY <2>2 DEF SeedRoutes
<1>4. ReturnRoute(src) = {src}
  BY DEF ReturnRoute, doNetmap
<1> QED
  BY <1>2, <1>3, <1>4

\* Once OpenVPN runs on both sides, packets from the seed arrive at their
\* address in the shoot and the answers come back, for every configuration, any
\* overlap of the networks, any number of containers and starts, and whatever
\* was interrupted before; if nothing has to be mapped, with IS_HA, only if the
\* networks would fit into the reserved ranges (iptables.go of both sides,
\* netmap.go, values.go, client_router.go updateRouting).
THEOREM DeliveredTheorem == Spec => []Delivered
<1>1. NATInv => Delivered
  <2> SUFFICES ASSUME NATInv, Running("seed"), Running("shoot"), cfg.families[1] = 4,
                      IsHA /\ ~overlap => MappingFits,
                      NEW i \in DOMAIN ShootNetworks, NEW dst \in 0 .. 2^W - 1,
                      NEW src \in 0 .. 2^W - 1,
                      IsIPv4(ShootNetworks[i]), Contains(ShootNetworks[i], dst),
                      IsIPv4(cfg.seedPod), Contains(cfg.seedPod, src)
               PROVE  LET wire == Translate("seed", "OUTPUT", dst)
                      IN  /\ \E r \in SeedRoutes : IsIPv4(r) /\ Contains(r, wire)
                          /\ Translate("shoot", "PREROUTING", wire) = dst
                          /\ Translate("seed", "POSTROUTING", src) \in ReturnRoute(src)
    BY DEF Delivered
  <2>1. CASE doNetmap
    BY <2>1, DeliveredMapped, ReturnMapped
  <2>2. CASE ~doNetmap
    <3>1. MappingFits
      BY <2>2 DEF doNetmap
    <3> QED
      BY <2>2, <3>1, DeliveredUnmapped
  <2> QED
    BY <2>1, <2>2
<1> QED
  BY <1>1, NATInvariant, PTL
=============================================================================
