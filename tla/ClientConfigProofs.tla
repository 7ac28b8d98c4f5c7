-------------------------- MODULE ClientConfigProofs --------------------------
(* What the clients are given and what they decide, for every list of rules, all  *)
(* groups and every value of the constants: the rules and the groups of the       *)
(* clients (ClientRules, ClientGroups), the compiled index of a ruleset           *)
(* (RuleMatcher) and the shared matchers of local rule files (RuleIndexCache).    *)
EXTENDS MCAgents, ClientGroups, WellFoundedInduction, FiniteSetTheorems, TLAPS

(* --------------------------------- induction --------------------------------- *)
(* Every set of numbers that is not empty has a least one.                         *)
LEMMA Least == ASSUME NEW S \in SUBSET Nat, S # {} PROVE \E n \in S : \A m \in S : n <= m
<1> DEFINE Before == {pair \in Nat \X Nat : pair[1] < pair[2]}
<1>1. IsWellFoundedOn(Before, Nat)
  BY NatLessThanWellFounded, Zenon DEF OpToRel
<1>2. PICK n \in S : \A m \in S : <<m, n>> \notin Before
  <2> HIDE DEF Before
  <2> QED BY <1>1, WFMin
<1>3. ASSUME NEW m \in S PROVE ~(m < n)
  <2>1. <<m, n>> \in Nat \X Nat
    OBVIOUS
  <2> QED BY <1>2, <2>1
<1> QED BY <1>3

(* What holds at 0 and is handed on by every step holds at the end.               *)
LEMMA StepByStep ==
  ASSUME NEW n \in Nat, NEW T, 0 \in T, \A k \in 1..n : k - 1 \in T => k \in T
  PROVE  \A k \in 0..n : k \in T
<1> DEFINE Left == {k \in 0..n : k \notin T}
<1>1. SUFFICES ASSUME Left # {} PROVE FALSE
  OBVIOUS
<1>2. Left \in SUBSET Nat
  OBVIOUS
<1>3. PICK k \in Left : \A m \in Left : k <= m
  <2> HIDE DEF Left
  <2> QED BY <1>1, <1>2, Least
<1>4. k \in 0..n /\ k \notin T
  OBVIOUS
<1>5. k # 0 /\ k - 1 \in 0..n /\ k \in 1..n /\ ~(k <= k - 1)
  BY <1>4
<1>6. k - 1 \notin Left
  BY <1>3, <1>5
<1> QED BY <1>4, <1>5, <1>6

Chain(f, n, S, base, g) == f \in [0..n -> S] /\ f[0] = base /\ \A k \in 1..n : f[k] = g[<<k, f[k - 1]>>]

(* A function that is given by its value at 0 and by each value from the one       *)
(* before exists.                                                                  *)
LEMMA Recursion ==
  ASSUME NEW S, NEW base \in S, NEW n \in Nat, NEW g \in [(1..n) \X S -> S]
  PROVE  \E f : Chain(f, n, S, base, g)
<1> DEFINE T == {k \in 0..n : \E f : Chain(f, k, S, base, g)}
<1>1. 0 \in T
  <2>1. Chain([j \in 0..0 |-> base], 0, S, base, g) /\ 0 \in 0..n
    BY DEF Chain
  <2> QED BY <2>1
<1>2. ASSUME NEW k \in 1..n, k - 1 \in T PROVE k \in T
  <2>1. PICK f : Chain(f, k - 1, S, base, g)
    BY <1>2
  <2> DEFINE h == [j \in 0..k |-> IF j = k THEN g[<<k, f[k - 1]>>] ELSE f[j]]
  <2>2. f[k - 1] \in S /\ <<k, f[k - 1]>> \in (1..n) \X S
    BY <2>1 DEF Chain
  <2>3. h \in [0..k -> S]
    BY <2>1, <2>2 DEF Chain
  <2>4. h[0] = base
    BY <2>1 DEF Chain
  <2>5. ASSUME NEW j \in 1..k PROVE h[j] = g[<<j, h[j - 1]>>]
    <3>1. j - 1 \in 0..k /\ j - 1 # k /\ j \in 0..k
      OBVIOUS
    <3>2. h[j - 1] = f[j - 1]
      BY <3>1
    <3>3. CASE j = k
      BY <3>1, <3>2, <3>3
    <3>4. CASE j # k
      <4>1. j \in 1..(k - 1)
        BY <3>4
      <4> QED BY <2>1, <3>1, <3>2, <3>4, <4>1 DEF Chain
    <3> QED BY <3>3, <3>4
  <2> HIDE DEF h
  <2>6. Chain(h, k, S, base, g)
    BY <2>3, <2>4, <2>5 DEF Chain
  <2> QED BY <2>6
<1>3. n \in T
  <2>1. \A k \in 1..n : k - 1 \in T => k \in T
    BY <1>2
  <2> HIDE DEF T
  <2>2. \A k \in 0..n : k \in T
    BY <1>1, <2>1, StepByStep
  <2> QED BY <2>2
<1> QED BY <1>3

(* ------------------------------- the compiled index -------------------------- *)
RetainedStep(lines, k, before) == IF Matcher!Keep(lines, k) THEN Append(before, lines[k]) ELSE before

(* The retained lines are collected line by line (_RuleIndex.__init__).            *)
LEMMA RetainedIsCollected ==
  ASSUME NEW S, NEW lines \in Seq(S)
  PROVE  \E kept \in [0..Len(lines) -> Seq(S)] :
           /\ Matcher!Retained(lines) = kept[Len(lines)]
           /\ kept[0] = <<>>
           /\ \A k \in 1..Len(lines) : kept[k] = RetainedStep(lines, k, kept[k - 1])
<1> DEFINE n == Len(lines)
           g == [x \in (1..n) \X Seq(S) |-> RetainedStep(lines, x[1], x[2])]
           Good(f) == f = [k \in 0..n |-> IF k = 0 THEN <<>> ELSE
                             IF Matcher!Keep(lines, k) THEN Append(f[k - 1], lines[k]) ELSE f[k - 1]]
           kept == CHOOSE f : Good(f)
<1>1. n \in Nat /\ <<>> \in Seq(S) /\ \A k \in 1..n : lines[k] \in S
  OBVIOUS
<1>2. ASSUME NEW k \in 1..n, NEW s \in Seq(S) PROVE RetainedStep(lines, k, s) \in Seq(S)
  <2>1. Append(s, lines[k]) \in Seq(S)
    BY <1>1
  <2> QED BY <2>1 DEF RetainedStep
<1>3. g \in [(1..n) \X Seq(S) -> Seq(S)]
  BY <1>2
<1>4. PICK f : Chain(f, n, Seq(S), <<>>, g)
  <2> HIDE DEF g, n
  <2> QED BY <1>1, <1>3, Recursion
<1>5. ASSUME NEW k \in 0..n
      PROVE  f[k] = IF k = 0 THEN <<>> ELSE IF Matcher!Keep(lines, k) THEN Append(f[k - 1], lines[k]) ELSE f[k - 1]
  <2>1. CASE k # 0
    <3>1. k \in 1..n /\ k - 1 \in 0..n
      BY <2>1
    <3>2. <<k, f[k - 1]>> \in (1..n) \X Seq(S)
      BY <1>4, <3>1 DEF Chain
    <3> QED BY <1>4, <3>1, <3>2 DEF RetainedStep, Chain
  <2> QED BY <1>4, <2>1 DEF Chain
<1>6. Good(f)
  <2>1. f = [k \in 0..n |-> f[k]]
    BY <1>4 DEF Chain
  <2> QED BY <1>5, <2>1
<1>7. Good(kept)
  <2> HIDE DEF Good
  <2> QED BY <1>6
<1>8. Matcher!Retained(lines) = kept[n]
  BY DEF Matcher!Retained
<1> DEFINE T == {k \in 0..n : kept[k] \in Seq(S)}
<1>9. 0 \in T /\ kept[0] = <<>>
  <2> HIDE DEF kept
  <2> QED BY <1>1, <1>7
<1>10. ASSUME NEW k \in 1..n PROVE kept[k] = RetainedStep(lines, k, kept[k - 1]) /\ (k - 1 \in T => k \in T)
  <2> HIDE DEF kept
  <2>1. k \in 0..n /\ k # 0
    OBVIOUS
  <2>2. kept[k] = RetainedStep(lines, k, kept[k - 1])
    BY <1>7, <2>1 DEF RetainedStep
  <2> QED BY <1>2, <2>2
<1>11. \A k \in 0..n : k \in T
  <2> HIDE DEF T, n
  <2> QED BY <1>1, <1>9, <1>10, StepByStep
<1>12. kept \in [0..n -> Seq(S)]
  BY <1>7, <1>11
<1> HIDE DEF kept
<1> QED BY <1>8, <1>9, <1>10, <1>12

(* The retained lines are those that are kept, in their order.                     *)
Places(lines, n, s, p) ==
  /\ p \in [1..Len(s) -> 1..n]
  /\ \A a, b \in 1..Len(s) : a < b => p[a] < p[b]
  /\ \A a \in 1..Len(s) : s[a] = lines[p[a]] /\ Matcher!Keep(lines, p[a])
  /\ \A i \in 1..n : Matcher!Keep(lines, i) => \E a \in 1..Len(s) : p[a] = i

LEMMA PlacesGrow ==
  ASSUME NEW S, NEW lines \in Seq(S), NEW n \in 1..Len(lines), NEW s \in Seq(S), NEW p, Places(lines, n - 1, s, p)
  PROVE  \E q : Places(lines, n, RetainedStep(lines, n, s), q)
<1>1. CASE ~Matcher!Keep(lines, n)
  <2>1. RetainedStep(lines, n, s) = s
    BY <1>1 DEF RetainedStep
  <2>2. \A i \in 1..n : Matcher!Keep(lines, i) => i \in 1..(n - 1)
    BY <1>1
  <2>3. p \in [1..Len(s) -> 1..n]
    BY DEF Places
  <2>4. \A i \in 1..n : Matcher!Keep(lines, i) => \E a \in 1..Len(s) : p[a] = i
    BY <2>2 DEF Places
  <2>5. Places(lines, n, s, p)
    BY <2>3, <2>4 DEF Places
  <2> QED BY <2>1, <2>5
<1>2. CASE Matcher!Keep(lines, n)
  <2> DEFINE t == Append(s, lines[n])
             q == [a \in 1..Len(t) |-> IF a = Len(t) THEN n ELSE p[a]]
  <2>1. /\ RetainedStep(lines, n, s) = t
        /\ Len(s) \in Nat /\ Len(t) = Len(s) + 1 /\ t[Len(t)] = lines[n] /\ \A a \in 1..Len(s) : t[a] = s[a]
    BY <1>2 DEF RetainedStep
  <2> HIDE DEF t
  <2>2. ASSUME NEW a \in 1..Len(t), a # Len(t) PROVE a \in 1..Len(s) /\ q[a] = p[a] /\ p[a] \in 1..(n - 1)
    BY <2>1, <2>2 DEF Places
  <2>3. q[Len(t)] = n
    BY <2>1
  <2>4. q \in [1..Len(t) -> 1..n]
    BY <2>2
  <2>5. ASSUME NEW a \in 1..Len(t), NEW b \in 1..Len(t), a < b PROVE q[a] < q[b]
    BY <2>1, <2>5, <2>2, <2>3 DEF Places
  <2>6. ASSUME NEW a \in 1..Len(t) PROVE t[a] = lines[q[a]] /\ Matcher!Keep(lines, q[a])
    BY <1>2, <2>1, <2>3, <2>2 DEF Places
  <2>7. ASSUME NEW i \in 1..n, Matcher!Keep(lines, i) PROVE \E a \in 1..Len(t) : q[a] = i
    <3>1. CASE i = n
      BY <2>1, <2>3, <3>1
    <3>2. CASE i # n
      <4>1. PICK a \in 1..Len(s) : p[a] = i
        BY <2>7, <3>2 DEF Places
      <4> QED BY <2>1, <2>2, <4>1
    <3> QED BY <3>1, <3>2
  <2> HIDE DEF q
  <2>8. Places(lines, n, t, q)
    BY <2>4, <2>5, <2>6, <2>7 DEF Places
  <2> QED BY <2>1, <2>8
<1> QED BY <1>1, <1>2

LEMMA RetainedInOrder ==
  ASSUME NEW S, NEW lines \in Seq(S)
  PROVE  Matcher!Retained(lines) \in Seq(S) /\ \E p : Places(lines, Len(lines), Matcher!Retained(lines), p)
<1> DEFINE n == Len(lines)
<1>1. PICK kept \in [0..n -> Seq(S)] :
        /\ Matcher!Retained(lines) = kept[n] /\ kept[0] = <<>>
        /\ \A k \in 1..n : kept[k] = RetainedStep(lines, k, kept[k - 1])
  BY RetainedIsCollected
<1> DEFINE T == {k \in 0..n : \E p : Places(lines, k, kept[k], p)}
<1>2. 0 \in T
  <2>1. Places(lines, 0, <<>>, [a \in 1..0 |-> a])
    BY DEF Places
  <2> QED BY <1>1, <2>1
<1>3. ASSUME NEW k \in 1..n, k - 1 \in T PROVE k \in T
  BY <1>3, PlacesGrow, <1>1
<1>4. \A k \in 0..n : k \in T
  <2>1. n \in Nat
    OBVIOUS
  <2> HIDE DEF T, n
  <2> QED BY <1>2, <1>3, <2>1, StepByStep
<1> QED BY <1>1, <1>4

Builders(S) == [blob : Seq(S), references : Seq(S), order : Seq(Int)]
NewBuilder == [blob |-> <<>>, references |-> <<>>, order |-> <<>>]

LEMMA PackedIs ==
  ASSUME NEW S, NEW b \in Builders(S), NEW line \in S
  PROVE  /\ Matcher!Packed(b, line) \in Builders(S)
         /\ line.shared => /\ Matcher!Packed(b, line).blob = b.blob
                           /\ Matcher!Packed(b, line).references = Append(b.references, line)
                           /\ Matcher!Packed(b, line).order = Append(b.order, -Len(b.references) - 1)
         /\ ~line.shared => /\ Matcher!Packed(b, line).blob = Append(b.blob, line)
                            /\ Matcher!Packed(b, line).references = b.references
                            /\ Matcher!Packed(b, line).order = Append(b.order, Len(b.blob))
<1>1. /\ b.blob \in Seq(S) /\ b.references \in Seq(S) /\ b.order \in Seq(Int)
      /\ Len(b.blob) \in Int /\ -Len(b.references) - 1 \in Int
  BY DEF Builders
<1>2. Append(b.references, line) \in Seq(S) /\ Append(b.blob, line) \in Seq(S)
  BY <1>1
<1>3. Append(b.order, -Len(b.references) - 1) \in Seq(Int) /\ Append(b.order, Len(b.blob)) \in Seq(Int)
  BY <1>1
<1> QED BY <1>1, <1>2, <1>3 DEF Matcher!Packed, Builders

(* The packed lines are collected line by line (_SourceLinesBuilder.append).       *)
LEMMA LinesArePacked ==
  ASSUME NEW S, NEW lines \in Seq(S)
  PROVE  \E builder \in [0..Len(lines) -> Builders(S)] :
           /\ Matcher!Builder(lines) = builder[Len(lines)]
           /\ builder[0] = NewBuilder
           /\ \A k \in 1..Len(lines) : builder[k] = Matcher!Packed(builder[k - 1], lines[k])
<1> DEFINE n == Len(lines)
           B == Builders(S)
           g == [x \in (1..n) \X B |-> Matcher!Packed(x[2], lines[x[1]])]
           Good(f) == f = [k \in 0..n |-> IF k = 0 THEN NewBuilder ELSE Matcher!Packed(f[k - 1], lines[k])]
           builder == CHOOSE f : Good(f)
<1>1. n \in Nat /\ NewBuilder \in B /\ \A k \in 1..n : lines[k] \in S
  BY DEF Builders, NewBuilder
<1>2. ASSUME NEW k \in 1..n, NEW b \in B PROVE Matcher!Packed(b, lines[k]) \in B
  BY <1>1, PackedIs
<1>3. g \in [(1..n) \X B -> B]
  <2> HIDE DEF B
  <2> QED BY <1>2
<1>4. PICK f : Chain(f, n, B, NewBuilder, g)
  <2> HIDE DEF g, n, B
  <2> QED BY <1>1, <1>3, Recursion
<1>5. ASSUME NEW k \in 0..n
      PROVE  f[k] = IF k = 0 THEN NewBuilder ELSE Matcher!Packed(f[k - 1], lines[k])
  <2>1. CASE k # 0
    BY <2>1, <1>4 DEF Chain
  <2> QED BY <1>4, <2>1 DEF Chain
<1>6. Good(f)
  <2>1. f = [k \in 0..n |-> f[k]]
    BY <1>4 DEF Chain
  <2> QED BY <1>5, <2>1
<1>7. Good(builder)
  <2> HIDE DEF Good
  <2> QED BY <1>6
<1>8. Matcher!Builder(lines) = builder[n]
  BY DEF Matcher!Builder, NewBuilder
<1> DEFINE T == {k \in 0..n : builder[k] \in B}
<1>9. 0 \in T /\ builder[0] = NewBuilder
  <2> HIDE DEF builder, B
  <2> QED BY <1>1, <1>7
<1>10. ASSUME NEW k \in 1..n PROVE builder[k] = Matcher!Packed(builder[k - 1], lines[k]) /\ (k - 1 \in T => k \in T)
  <2> HIDE DEF builder, B
  <2>1. k \in 0..n /\ k # 0
    OBVIOUS
  <2>2. builder[k] = Matcher!Packed(builder[k - 1], lines[k])
    BY <1>7, <2>1
  <2> QED BY <1>2, <2>2
<1>11. \A k \in 0..n : k \in T
  <2> HIDE DEF T, n
  <2> QED BY <1>1, <1>9, <1>10, StepByStep
<1>12. builder \in [0..n -> B]
  BY <1>7, <1>11
<1> HIDE DEF builder
<1> QED BY <1>8, <1>9, <1>10, <1>12

(* What the two buffers and the order hold of the first n lines.                   *)
Found(lines, k, b) ==
  IF lines[k].shared
  THEN b.order[k] < 0 /\ -b.order[k] \in 1..Len(b.references) /\ b.references[-b.order[k]] = lines[k]
  ELSE b.order[k] >= 0 /\ b.order[k] + 1 \in 1..Len(b.blob) /\ b.blob[b.order[k] + 1] = lines[k]
Holds(lines, n, b) ==
  /\ Len(b.order) = n
  /\ \A k \in 1..n : Found(lines, k, b)
  /\ b.blob = <<>> => Len(b.references) = n /\ \A k \in 1..n : b.references[k] = lines[k]
  /\ b.references = <<>> => Len(b.blob) = n /\ \A k \in 1..n : b.blob[k] = lines[k]

LEMMA HoldsGrows ==
  ASSUME NEW S, NEW lines \in Seq(S), NEW n \in 1..Len(lines), NEW b \in Builders(S), Holds(lines, n - 1, b)
  PROVE  Holds(lines, n, Matcher!Packed(b, lines[n]))
<1> DEFINE line == lines[n]
           c == Matcher!Packed(b, line)
<1>1. line \in S /\ n \in Nat /\ n - 1 \in Nat
  OBVIOUS
<1>2. b.blob \in Seq(S) /\ b.references \in Seq(S) /\ b.order \in Seq(Int) /\ Len(b.order) = n - 1
  BY DEF Builders, Holds
<1>3. \A k \in 1..n : k # n => k \in 1..(n - 1)
  OBVIOUS
<1>4. CASE line.shared
  <2>1. c.blob = b.blob /\ c.references = Append(b.references, line) /\ c.order = Append(b.order, -Len(b.references) - 1)
    BY <1>1, <1>4, PackedIs
  <2> HIDE DEF c
  <2>2. /\ Len(c.references) = Len(b.references) + 1 /\ c.references[Len(b.references) + 1] = line
        /\ \A k \in 1..Len(b.references) : c.references[k] = b.references[k]
    BY <1>1, <1>2, <2>1
  <2>3. /\ Len(c.order) = n /\ c.order[n] = -Len(b.references) - 1
        /\ \A k \in 1..(n - 1) : c.order[k] = b.order[k] /\ b.order[k] \in Int
    BY <1>1, <1>2, <2>1
  <2>4. Len(b.references) \in Nat /\ Len(b.blob) \in Nat /\ c.references # <<>>
    BY <1>2, <2>2
  <2>5. ASSUME NEW k \in 1..n PROVE Found(lines, k, c)
    <3>1. CASE k = n
      BY <1>4, <2>2, <2>3, <2>4, <3>1 DEF Found
    <3>2. CASE k # n
      <4>1. k \in 1..(n - 1) /\ Found(lines, k, b)
        BY <1>3, <3>2 DEF Holds
      <4>2. c.order[k] = b.order[k] /\ b.order[k] \in Int
        BY <2>3, <4>1
      <4>3. CASE lines[k].shared
        BY <2>2, <2>4, <4>1, <4>2, <4>3 DEF Found
      <4>4. CASE ~lines[k].shared
        BY <2>1, <4>1, <4>2, <4>4 DEF Found
      <4> QED BY <4>3, <4>4
    <3> QED BY <3>1, <3>2
  <2>6. ASSUME c.blob = <<>> PROVE Len(c.references) = n /\ \A k \in 1..n : c.references[k] = lines[k]
    BY <2>1, <2>6, <1>1, <1>3, <2>2 DEF Holds
  <2>7. Holds(lines, n, c)
    BY <2>3, <2>4, <2>5, <2>6 DEF Holds
  <2> QED BY <2>7 DEF c
<1>5. CASE ~line.shared
  <2>1. c.blob = Append(b.blob, line) /\ c.references = b.references /\ c.order = Append(b.order, Len(b.blob))
    BY <1>1, <1>5, PackedIs
  <2> HIDE DEF c
  <2>2. /\ Len(c.blob) = Len(b.blob) + 1 /\ c.blob[Len(b.blob) + 1] = line
        /\ \A k \in 1..Len(b.blob) : c.blob[k] = b.blob[k]
    BY <1>1, <1>2, <2>1
  <2>3. /\ Len(c.order) = n /\ c.order[n] = Len(b.blob)
        /\ \A k \in 1..(n - 1) : c.order[k] = b.order[k] /\ b.order[k] \in Int
    BY <1>1, <1>2, <2>1
  <2>4. Len(b.references) \in Nat /\ Len(b.blob) \in Nat /\ c.blob # <<>>
    BY <1>2, <2>2
  <2>5. ASSUME NEW k \in 1..n PROVE Found(lines, k, c)
    <3>1. CASE k = n
      BY <1>5, <2>2, <2>3, <2>4, <3>1 DEF Found
    <3>2. CASE k # n
      <4>1. k \in 1..(n - 1) /\ Found(lines, k, b)
        BY <1>3, <3>2 DEF Holds
      <4>2. c.order[k] = b.order[k] /\ b.order[k] \in Int
        BY <2>3, <4>1
      <4>3. CASE lines[k].shared
        BY <2>1, <4>1, <4>2, <4>3 DEF Found
      <4>4. CASE ~lines[k].shared
        BY <2>2, <2>4, <4>1, <4>2, <4>4 DEF Found
      <4> QED BY <4>3, <4>4
    <3> QED BY <3>1, <3>2
  <2>6. ASSUME c.references = <<>> PROVE Len(c.blob) = n /\ \A k \in 1..n : c.blob[k] = lines[k]
    BY <2>1, <2>6, <1>1, <1>3, <2>2 DEF Holds
  <2>7. Holds(lines, n, c)
    BY <2>3, <2>4, <2>5, <2>6 DEF Holds
  <2> QED BY <2>7 DEF c
<1> QED BY <1>4, <1>5

(* Packing loses and confuses no line (_PackedSourceLines).                        *)
LEMMA SourceLineIs ==
  ASSUME NEW S, NEW lines \in Seq(S), NEW k \in 1..Len(lines)
  PROVE  Matcher!SourceLine(Matcher!Builder(lines), k) = lines[k]
<1> DEFINE n == Len(lines)
<1>1. PICK builder \in [0..n -> Builders(S)] :
        /\ Matcher!Builder(lines) = builder[n] /\ builder[0] = NewBuilder
        /\ \A i \in 1..n : builder[i] = Matcher!Packed(builder[i - 1], lines[i])
  BY LinesArePacked
<1> DEFINE T == {i \in 0..n : Holds(lines, i, builder[i])}
<1>2. 0 \in T
  BY <1>1 DEF Holds, NewBuilder
<1>3. ASSUME NEW i \in 1..n, i - 1 \in T PROVE i \in T
  BY <1>3, HoldsGrows, <1>1
<1>4. \A i \in 0..n : i \in T
  <2>1. n \in Nat
    OBVIOUS
  <2> HIDE DEF T, n
  <2> QED BY <1>2, <1>3, <2>1, StepByStep
<1>5. Holds(lines, n, Matcher!Builder(lines))
  BY <1>1, <1>4
<1> DEFINE b == Matcher!Builder(lines)
<1>6. b \in Builders(S) /\ n \in Nat /\ k \in Nat
  BY <1>1
<1> HIDE DEF b
<1>7. Found(lines, k, b) /\ Holds(lines, n, b)
  BY <1>5 DEF b, Holds
<1>8. Matcher!SourceLine(b, k) = lines[k]
  <2>1. CASE b.blob = <<>>
    BY <1>7, <2>1 DEF Holds, Matcher!SourceLine
  <2>2. CASE b.blob # <<>> /\ b.references = <<>>
    BY <1>7, <2>2 DEF Holds, Matcher!SourceLine
  <2>3. CASE b.blob # <<>> /\ b.references # <<>>
    <3>1. CASE lines[k].shared
      BY <1>7, <2>3, <3>1 DEF Found, Matcher!SourceLine
    <3>2. CASE ~lines[k].shared
      <4>1. ~(b.order[k] < 0) /\ b.blob[b.order[k] + 1] = lines[k]
        <5>1. Len(b.order) = n /\ b.order \in Seq(Int)
          BY <1>6, <1>7 DEF Holds, Builders
        <5>2. b.order[k] \in Int
          BY <5>1
        <5> QED BY <1>7, <3>2, <5>2 DEF Found
      <4> QED BY <2>3, <4>1 DEF Matcher!SourceLine
    <3> QED BY <3>1, <3>2
  <2> QED BY <2>1, <2>2, <2>3
<1> QED BY <1>8 DEF b

LEMMA LeastIs ==
  ASSUME NEW S \in SUBSET Nat, NEW n \in S, \A m \in S : n <= m
  PROVE  Matcher!Min(S) = n
<1>1. n \in S /\ \A m \in S : n =< m
  OBVIOUS
<1>2. Matcher!Min(S) \in S /\ \A m \in S : Matcher!Min(S) =< m
  BY <1>1 DEF Matcher!Min
<1>3. Matcher!Min(S) \in Nat /\ n \in Nat
  BY <1>2
<1> HIDE DEF Matcher!Min
<1> QED BY <1>1, <1>2, <1>3

(* A domain ends in s when s is one of the sequences its parents are looked up by. *)
LEMMA SuffixIs ==
  ASSUME NEW S, NEW s \in Seq(S), NEW t \in Seq(S), s # <<>>
  PROVE  /\ Matcher!IsSuffix(s, t) <=> s \in Matcher!WithParents(t)
         /\ Matcher!IsSuffix(s, t) /\ Len(t) = Len(s) + 1 <=> Len(t) > 1 /\ s = Tail(t)
<1> DEFINE m == Len(s)
           n == Len(t)
<1>1. m \in Nat /\ n \in Nat /\ m > 0
  OBVIOUS
<1>2. Matcher!Reverse(s) = [i \in 1..m |-> s[(m - i) + 1]] /\ Matcher!Reverse(t) = [i \in 1..n |-> t[(n - i) + 1]]
  BY DEF Matcher!Reverse
<1>3. Matcher!Reverse(s) \in Seq(S) /\ Len(Matcher!Reverse(s)) = m /\ Matcher!Reverse(t) \in Seq(S) /\ Len(Matcher!Reverse(t)) = n
  BY <1>1, <1>2
<1>4. Matcher!IsSuffix(s, t) <=> m <= n /\ \A i \in 1..m : s[(m - i) + 1] = t[(n - i) + 1]
  <2> DEFINE a == Matcher!Reverse(s)
             b == Matcher!Reverse(t)
  <2>1. a \in Seq(S) /\ b \in Seq(S) /\ Len(a) = m /\ Len(b) = n
    BY <1>3
  <2>2. \A i \in 1..m : a[i] = s[(m - i) + 1]
    BY <1>2
  <2>3. m <= n => \A i \in 1..m : b[i] = t[(n - i) + 1]
    BY <1>1, <1>2
  <2>4. Matcher!IsSuffix(s, t) <=> m <= n /\ SubSeq(a, 1, m) = SubSeq(b, 1, m)
    BY <2>1 DEF Matcher!IsSuffix, Matcher!IsPrefix
  <2> HIDE DEF a, b, m, n
  <2>5. m <= n => (SubSeq(a, 1, m) = SubSeq(b, 1, m) <=> \A i \in 1..m : a[i] = b[i])
    BY <1>1, <2>1
  <2>6. CASE m <= n
    <3>1. \A i \in 1..m : a[i] = b[i] <=> s[(m - i) + 1] = t[(n - i) + 1]
      BY <2>2, <2>3, <2>6
    <3> QED BY <2>4, <2>5, <2>6, <3>1
  <2>7. CASE ~(m <= n)
    BY <2>4, <2>7
  <2> QED BY <2>6, <2>7
<1>5. ASSUME m <= n PROVE Matcher!IsSuffix(s, t) <=> s = SubSeq(t, n - m + 1, n)
  <2> DEFINE u == SubSeq(t, n - m + 1, n)
  <2>1. u \in Seq(S) /\ Len(u) = m /\ \A i \in 1..m : u[i] = t[n - m + i]
    BY <1>1, <1>5
  <2> HIDE DEF u, m, n
  <2>2. s = u <=> \A i \in 1..m : s[i] = t[n - m + i]
    BY <2>1 DEF m
  <2>3. ASSUME \A i \in 1..m : s[i] = t[n - m + i], NEW i \in 1..m PROVE s[(m - i) + 1] = t[(n - i) + 1]
    BY <1>1, <2>3
  <2>4. ASSUME \A i \in 1..m : s[(m - i) + 1] = t[(n - i) + 1], NEW i \in 1..m PROVE s[i] = t[n - m + i]
    BY <1>1, <2>4
  <2> QED BY <1>4, <1>5, <2>2, <2>3, <2>4 DEF u
<1>6. ASSUME NEW i \in 1..n, s = SubSeq(t, i, n) PROVE m <= n /\ i = n - m + 1
  BY <1>1, <1>6
<1>7. Matcher!IsSuffix(s, t) => s \in Matcher!WithParents(t)
  <2> SUFFICES ASSUME Matcher!IsSuffix(s, t) PROVE s \in Matcher!WithParents(t)
    OBVIOUS
  <2>1. m <= n /\ s = SubSeq(t, n - m + 1, n) /\ n - m + 1 \in 1..n /\ DOMAIN t = 1..n
    BY <1>1, <1>4, <1>5
  <2> QED BY <2>1 DEF Matcher!WithParents
<1>8. s \in Matcher!WithParents(t) => Matcher!IsSuffix(s, t)
  <2> SUFFICES ASSUME s \in Matcher!WithParents(t) PROVE Matcher!IsSuffix(s, t)
    OBVIOUS
  <2>1. PICK i \in 1..n : s = SubSeq(t, i, n)
    <3>1. DOMAIN t = 1..n
      OBVIOUS
    <3> QED BY <3>1 DEF Matcher!WithParents
  <2> QED BY <1>5, <1>6, <2>1
<1>9. n = m + 1 => Tail(t) = SubSeq(t, n - m + 1, n)
  BY <1>1
<1>10. n > 1 /\ s = Tail(t) => n = m + 1
  BY <1>1
<1>11. n = m + 1 => m <= n
  BY <1>1
<1>12. n = m + 1 => n > 1
  BY <1>1
<1> HIDE DEF m, n
<1>13. Matcher!IsSuffix(s, t) /\ n = m + 1 <=> n > 1 /\ s = Tail(t)
  BY <1>5, <1>9, <1>10, <1>11, <1>12
<1> QED BY <1>7, <1>8, <1>13 DEF m, n

(* The index finds a line of a list of lines exactly when the scan does.           *)
IndexHits(lines, q) ==
  IF "domain" \in DOMAIN q THEN Matcher!DomainHits(lines, q.domain) \cup Matcher!PatternHits(lines, q.domain)
  ELSE Matcher!AddressHits(lines, q.address)

LEMMA HitsAreMatches ==
  ASSUME NEW q, MayBeQuery(q),
         NEW lines, NEW k \in DOMAIN lines, MayBeLine(lines[k])
  PROVE  k \in IndexHits(lines, q) <=> Matcher!MatchQuery(q, lines[k])
<1> DEFINE type == lines[k].type
           value == lines[k].value
<1>1. CASE "domain" \notin DOMAIN q
  BY <1>1 DEF Matcher!MatchQuery, IndexHits, Matcher!AddressHits, Matcher!Lookup, Matcher!MatchIp, Matcher!Key
<1>2. CASE "domain" \in DOMAIN q
  <2> DEFINE d == q.domain
             S == Range(d) \cup Range(value)
  <2>1. Matcher!MatchQuery(q, lines[k]) <=> Matcher!MatchDomain(d, type, value)
    BY <1>2 DEF Matcher!MatchQuery
  <2>2. IndexHits(lines, q) = Matcher!DomainHits(lines, d) \cup Matcher!PatternHits(lines, d)
    BY <1>2 DEF IndexHits
  <2>3. d \in Seq(S)
    <3>1. d \in Seq(Range(d))
      BY <1>2 DEF Labels, MayBeQuery
    <3> QED BY <3>1
  <2>4. ASSUME NEW t PROVE k \in Matcher!Lookup(lines, t, value) <=> type = t
    BY DEF Matcher!Lookup
  <2>5. ASSUME NEW t, NEW v PROVE k \in Matcher!Lookup(lines, t, v) <=> type = t /\ v = value
    BY DEF Matcher!Lookup
  <2>6. k \in Matcher!DomainHits(lines, d) <=>
          \/ type = "DOMAIN" /\ d = value
          \/ type = "DOMAIN-SUFFIX" /\ value \in Matcher!WithParents(d)
          \/ type = "SUBDOMAIN-ONLY" /\ value \in Matcher!WithParents(d) /\ value # d
          \/ type = "DIRECT-SUBDOMAIN" /\ Len(d) > 1 /\ value = Tail(d)
    <3> HIDE DEF d, type, value
    <3> DEFINE A == Matcher!Lookup(lines, "DOMAIN", d)
               B == UNION {Matcher!Lookup(lines, "DOMAIN-SUFFIX", s) : s \in Matcher!WithParents(d)}
               C == UNION {Matcher!Lookup(lines, "SUBDOMAIN-ONLY", s) : s \in Matcher!WithParents(d) \ {d}}
               D == IF Len(d) > 1 THEN Matcher!Lookup(lines, "DIRECT-SUBDOMAIN", Tail(d)) ELSE {}
    <3>1. Matcher!DomainHits(lines, d) = A \cup B \cup C \cup D
      BY DEF Matcher!DomainHits
    <3>2. k \in A <=> type = "DOMAIN" /\ d = value
      BY <2>5
    <3>3. k \in B <=> type = "DOMAIN-SUFFIX" /\ value \in Matcher!WithParents(d)
      BY <2>5
    <3>4. k \in C <=> type = "SUBDOMAIN-ONLY" /\ value \in Matcher!WithParents(d) /\ value # d
      BY <2>5
    <3>5. k \in D <=> type = "DIRECT-SUBDOMAIN" /\ Len(d) > 1 /\ value = Tail(d)
      <4>1. CASE Len(d) > 1
        <5>1. k \in Matcher!Lookup(lines, "DIRECT-SUBDOMAIN", Tail(d)) <=> type = "DIRECT-SUBDOMAIN" /\ Tail(d) = value
          BY <2>5
        <5> QED BY <4>1, <5>1
      <4>2. CASE ~(Len(d) > 1)
        BY <4>2
      <4> QED BY <4>1, <4>2
    <3> HIDE DEF A, B, C, D
    <3> QED BY <3>1, <3>2, <3>3, <3>4, <3>5
  <2>7. k \in Matcher!PatternHits(lines, d) <=> type \in Matcher!Patterns /\ Matcher!MatchDomain(d, type, value)
    BY DEF Matcher!PatternHits
  <2>8. ASSUME Labels(value)
        PROVE  /\ Matcher!HasSuffix(d, value) <=> value \in Matcher!WithParents(d)
               /\ Matcher!HasSuffix(d, value) /\ Len(d) = Len(value) + 1 <=> Len(d) > 1 /\ value = Tail(d)
    <3>1. value \in Seq(S) /\ value # <<>>
      BY <2>8 DEF Labels
    <3> HIDE DEF S, d, value
    <3> QED BY <2>3, <3>1, SuffixIs DEF Matcher!HasSuffix
  <2>9. type \in {"DOMAIN-SUFFIX", "SUBDOMAIN-ONLY", "DIRECT-SUBDOMAIN"} => Labels(value)
    BY DEF MayBeLine
  <2> HIDE DEF d, type, value
  <2>10. CASE type \in {"DOMAIN-SUFFIX", "SUBDOMAIN-ONLY", "DIRECT-SUBDOMAIN"}
    BY <2>1, <2>2, <2>6, <2>7, <2>8, <2>9, <2>10 DEF Matcher!MatchDomain, Matcher!Patterns
  <2>11. CASE type = "DOMAIN"
    BY <2>1, <2>2, <2>6, <2>7, <2>11 DEF Matcher!MatchDomain, Matcher!Patterns
  <2>12. CASE type \in Matcher!Patterns
    BY <2>1, <2>2, <2>6, <2>7, <2>12 DEF Matcher!Patterns
  <2>13. CASE type \notin {"DOMAIN", "DOMAIN-SUFFIX", "SUBDOMAIN-ONLY", "DIRECT-SUBDOMAIN"} \cup Matcher!Patterns
    BY <2>1, <2>2, <2>6, <2>7, <2>13 DEF Matcher!MatchDomain, Matcher!Patterns
  <2> QED BY <2>10, <2>11, <2>12, <2>13
<1> QED BY <1>1, <1>2

(* Lines with one key match alike, and no other line matches anything.             *)
LEMMA SameKeySameMatch ==
  ASSUME NEW q, NEW a, NEW b, a.type \in Matcher!Exact, b.type \in Matcher!Exact, Matcher!Key(a) = Matcher!Key(b)
  PROVE  Matcher!MatchQuery(q, a) <=> Matcher!MatchQuery(q, b)
<1>1. CASE a.type = "IP-CIDR" /\ b.type = "IP-CIDR"
  BY <1>1 DEF Matcher!Key, Matcher!MatchQuery, Matcher!MatchDomain, Matcher!MatchIp
<1>2. CASE a.type # "IP-CIDR" /\ b.type # "IP-CIDR"
  <2>1. a.type = b.type /\ a.value = b.value
    BY <1>2 DEF Matcher!Key
  <2> QED BY <2>1 DEF Matcher!MatchQuery
<1>3. CASE a.type = "IP-CIDR" /\ b.type # "IP-CIDR"
  BY <1>3 DEF Matcher!Key
<1>4. CASE a.type # "IP-CIDR" /\ b.type = "IP-CIDR"
  BY <1>4 DEF Matcher!Key
<1> QED BY <1>1, <1>2, <1>3, <1>4

LEMMA OnlyKnownTypesMatch ==
  ASSUME NEW q, NEW a, Matcher!MatchQuery(q, a)
  PROVE  a.type \in Matcher!Exact \cup Matcher!Patterns
BY DEF Matcher!MatchQuery, Matcher!MatchDomain, Matcher!MatchIp, Matcher!Exact, Matcher!Patterns

(* The compiled index answers what the scan answers.                               *)
LEMMA IndexAnswers ==
  ASSUME NEW q, MayBeQuery(q),
         NEW S, \A l \in S : MayBeLine(l), ruleset \in Seq(S)
  PROVE  Matcher!IndexMatch(q) = Matcher!FirstMatch(q)
<1> DEFINE r == Matcher!Retained(ruleset)
           H == {i \in DOMAIN ruleset : Matcher!MatchQuery(q, ruleset[i])}
           K == IndexHits(r, q)
<1>1. r \in Seq(S) /\ \E p : Places(ruleset, Len(ruleset), r, p)
  BY RetainedInOrder
<1>2. PICK p : Places(ruleset, Len(ruleset), r, p)
  BY <1>1
<1>3. Matcher!IndexMatch(q) = IF K = {} THEN <<>> ELSE <<Matcher!SourceLine(Matcher!Builder(r), Matcher!Min(K))>>
  BY DEF Matcher!IndexMatch, IndexHits
<1>4. Matcher!FirstMatch(q) = IF H = {} THEN <<>> ELSE <<ruleset[Matcher!Min(H)]>>
  BY DEF Matcher!FirstMatch
<1>5. DOMAIN ruleset = 1..Len(ruleset) /\ DOMAIN r = 1..Len(r) /\ Len(ruleset) \in Nat /\ Len(r) \in Nat
  BY <1>1
<1> HIDE DEF r
<1>6. K \subseteq DOMAIN r
  BY DEF Matcher!Lookup, Matcher!PatternHits, Matcher!AddressHits, Matcher!DomainHits, IndexHits
<1>7. ASSUME NEW a \in DOMAIN r PROVE a \in K <=> p[a] \in H
  BY <1>1, <1>5, <1>2, HitsAreMatches DEF Places
<1> HIDE DEF K, H
<1>8. CASE H = {}
  <2>1. K = {}
    BY <1>6, <1>7, <1>8
  <2> QED BY <1>3, <1>4, <1>8, <2>1
<1>9. CASE H # {}
  <2>1. H \subseteq DOMAIN ruleset /\ H \in SUBSET Nat
    BY <1>5 DEF H
  <2>2. PICK m \in H : \A i \in H : m <= i
    BY <1>9, <2>1, Least
  <2>3. m \in 1..Len(ruleset) /\ Matcher!MatchQuery(q, ruleset[m])
    BY <1>5, <2>2 DEF H
  <2>4. Matcher!Keep(ruleset, m)
    <3>1. SUFFICES ASSUME ruleset[m].type \in Matcher!Exact, NEW j \in 1..(m - 1), Matcher!Key(ruleset[j]) = Matcher!Key(ruleset[m])
                   PROVE  FALSE
      BY <2>3, OnlyKnownTypesMatch DEF Matcher!Keep
    <3>2. j \in DOMAIN ruleset /\ ~(m <= j)
      BY <1>5, <2>3
    <3>3. ruleset[j].type = ruleset[m].type
      BY <3>1 DEF Matcher!Key
    <3>4. Matcher!MatchQuery(q, ruleset[j])
      BY <2>3, <3>1, <3>3, SameKeySameMatch
    <3>5. j \in H
      BY <3>2, <3>4 DEF H
    <3> QED BY <2>2, <3>2, <3>5
  <2>5. PICK a \in 1..Len(r) : p[a] = m
    BY <1>2, <2>3, <2>4 DEF Places
  <2>6. a \in K
    BY <1>5, <1>7, <2>2, <2>5
  <2>7. ASSUME NEW b \in K PROVE a <= b
    BY <1>5, <1>6, <1>7, <2>1, <2>2, <1>2, <2>5 DEF Places
  <2>8. Matcher!Min(K) = a
    <3>1. K \in SUBSET Nat
      BY <1>5, <1>6
    <3> QED BY <2>6, <2>7, <3>1, LeastIs
  <2>9. Matcher!Min(H) = m
    BY <2>1, <2>2, LeastIs
  <2>10. Matcher!SourceLine(Matcher!Builder(r), a) = ruleset[m]
    BY <1>1, SourceLineIs, <1>2, <2>5 DEF Places
  <2> QED BY <1>3, <1>4, <1>9, <2>6, <2>8, <2>9, <2>10
<1> QED BY <1>8, <1>9

(* ---------------------------- the shared matchers ---------------------------- *)
(* What a matcher holds: what it has read as far as it need not be read again is  *)
(* what the file holds as long as that has the stamp the matcher was taken for,   *)
(* and a remembered result follows from what was read.                            *)
ReadOrNot == Contents \cup {{Index!NotRead}}
FieldsOf(m) ==
  /\ m = [stamps |-> m.stamps, seen |-> m.seen, inline |-> m.inline, index |-> m.index, failed |-> m.failed,
          retryAt |-> m.retryAt, results |-> m.results]
  /\ m.stamps \in [Index!Rulesets -> Nat] /\ m.seen \in [Index!Rulesets -> Nat]
  /\ m.inline \in [Index!Rulesets -> Contents]
  /\ m.index \in [Index!Rulesets -> ReadOrNot]
  /\ m.failed \subseteq Index!Rulesets
WasRead(m, r) == Index!NotRead \notin m.index[r]
TrueFor(m, r) ==
  /\ m.stamps[r] <= m.seen[r] /\ m.seen[r] <= files[r].stamp
  /\ WasRead(m, r) /\ r \notin m.failed /\ files[r].stamp = m.stamps[r] => m.index[r] = files[r].content
Follows(m, x, n) ==
  /\ n \in 0..Len(Order)
  /\ \A i \in 1..Len(Order) : n = 0 \/ i < n => WasRead(m, Order[i]) /\ x \notin m.index[Order[i]]
  /\ n # 0 => WasRead(m, Order[n]) /\ x \in m.index[Order[n]]
MatcherOk(m) ==
  /\ FieldsOf(m)
  /\ \A r \in Index!Rulesets : TrueFor(m, r)
  /\ \A x \in DOMAIN m.results : Follows(m, x, m.results[x])

Slots == 1..Cardinality(Holders) + 1
CacheTyped ==
  /\ files \in [Index!Rulesets -> [stamp : Nat \ {0}, content : Contents]]
  /\ library \in [Index!Rulesets -> Contents]
  /\ handles = [h \in Slots |-> handles[h]]
  /\ slot \in {Index!None} \cup Slots
  /\ held \in [Holders -> {Index!None} \cup Slots]
CacheInv == CacheTyped /\ \A h \in Slots : MatcherOk(handles[h])

LEMMA OrderIs == \A i \in 1..Len(Order) : Order[i] \in Index!Rulesets
  BY IndexAssumption

(* A read changes the index of one ruleset, and nothing else that results follow  *)
(* from (_LocalSource).                                                           *)
Later(c, m, r) ==
  /\ FieldsOf(c) /\ c.stamps = m.stamps /\ c.inline = m.inline /\ c.results = m.results
  /\ m.failed \subseteq c.failed /\ \A s \in Index!Rulesets \ {r} : c.index[s] = m.index[s] /\ c.seen[s] = m.seen[s]
                                                              /\ (s \in c.failed <=> s \in m.failed)

LEMMA LaterIsOk ==
  ASSUME NEW m, MatcherOk(m), NEW r \in Index!Rulesets, ~WasRead(m, r), NEW c, Later(c, m, r), TrueFor(c, r)
  PROVE  MatcherOk(c)
BY OrderIs DEF Later, MatcherOk, TrueFor, WasRead, Follows

LEMMA FailingIs ==
  ASSUME NEW m, FieldsOf(m), NEW r \in Index!Rulesets, NEW content \in ReadOrNot
  PROVE  LET c == [Index!Failing(m, r) EXCEPT !.index[r] = content]
         IN  /\ Later(c, m, r) /\ c.index[r] = content /\ c.seen = m.seen /\ r \in c.failed
<1> DEFINE c == [Index!Failing(m, r) EXCEPT !.index[r] = content]
           due == IF m.retryAt = 0 THEN index_clock + RetryDelay ELSE m.retryAt
<1>1. c = [stamps |-> m.stamps, seen |-> m.seen, inline |-> m.inline, index |-> [m.index EXCEPT ![r] = content],
           failed |-> m.failed \cup {r}, retryAt |-> due, results |-> m.results]
  <2>1. Index!Failing(m, r) = [stamps |-> m.stamps, seen |-> m.seen, inline |-> m.inline, index |-> m.index,
                               failed |-> m.failed \cup {r}, retryAt |-> due, results |-> m.results]
    <3>1. Index!Failing(m, r) = [m EXCEPT !.failed = m.failed \cup {r}, !.retryAt = due]
      BY DEF Index!Failing
    <3> HIDE DEF due
    <3>2. m = [stamps |-> m.stamps, seen |-> m.seen, inline |-> m.inline, index |-> m.index, failed |-> m.failed,
               retryAt |-> m.retryAt, results |-> m.results]
      BY DEF FieldsOf
    <3> QED BY <3>1, <3>2
  <2> HIDE DEF due
  <2> QED BY <2>1
<1> HIDE DEF c, due
<1>2. /\ c.stamps = m.stamps /\ c.seen = m.seen /\ c.inline = m.inline /\ c.index = [m.index EXCEPT ![r] = content]
      /\ c.failed = m.failed \cup {r} /\ c.retryAt = due /\ c.results = m.results
  BY <1>1
<1>3. c.index \in [Index!Rulesets -> ReadOrNot] /\ c.index[r] = content
      /\ \A s \in Index!Rulesets \ {r} : c.index[s] = m.index[s]
  BY <1>2 DEF FieldsOf
<1>4. FieldsOf(c)
  BY <1>1, <1>2, <1>3 DEF FieldsOf
<1>5. Later(c, m, r)
  BY <1>2, <1>3, <1>4 DEF Later
<1> QED BY <1>2, <1>3, <1>5 DEF c

LEMMA LoadedIs ==
  ASSUME CacheTyped, NEW m, MatcherOk(m), NEW r \in Index!Rulesets, ~WasRead(m, r)
  PROVE  /\ MatcherOk(Index!Loaded(m, r)) /\ Later(Index!Loaded(m, r), m, r) /\ WasRead(Index!Loaded(m, r), r)
<1>1. /\ files[r].stamp \in Nat \ {0} /\ files[r].content \in Contents /\ m.inline[r] \in Contents /\ FieldsOf(m)
      /\ m.inline[r] \in ReadOrNot /\ files[r].content \in ReadOrNot
      /\ Index!NotRead \notin m.inline[r] /\ Index!NotRead \notin files[r].content
      /\ m.seen[r] \in Nat /\ m.stamps[r] \in Nat /\ m.stamps[r] <= m.seen[r] /\ m.seen[r] <= files[r].stamp
  BY IndexAssumption DEF CacheTyped, MatcherOk, FieldsOf, ReadOrNot, TrueFor
<1> DEFINE c == Index!Loaded(m, r)
<1>2. CASE r \in blocked
  <2>1. c = [Index!Failing(m, r) EXCEPT !.index[r] = m.inline[r]]
    BY <1>2 DEF Index!Loaded
  <2>2. Later(c, m, r) /\ c.index[r] = m.inline[r] /\ c.seen = m.seen /\ r \in c.failed
    BY <1>1, <2>1, FailingIs
  <2> HIDE DEF c
  <2>3. TrueFor(c, r) /\ WasRead(c, r)
    BY <1>1, <2>2 DEF TrueFor, WasRead, Later
  <2> QED BY <2>2, <2>3, LaterIsOk DEF c
<1>3. CASE r \notin blocked /\ files[r].stamp # m.seen[r]
  <2> DEFINE b == [Index!Failing(m, r) EXCEPT !.index[r] = files[r].content]
  <2>1. c = [b EXCEPT !.seen[r] = files[r].stamp]
    BY <1>1, <1>3 DEF Index!Loaded
  <2>2. Later(b, m, r) /\ b.index[r] = files[r].content /\ b.seen = m.seen /\ r \in b.failed
    BY <1>1, FailingIs
  <2> HIDE DEF b, c
  <2>3. FieldsOf(b)
    BY <2>2 DEF Later
  <2>4. c = [stamps |-> b.stamps, seen |-> [b.seen EXCEPT ![r] = files[r].stamp], inline |-> b.inline, index |-> b.index,
             failed |-> b.failed, retryAt |-> b.retryAt, results |-> b.results]
    BY <2>1, <2>3 DEF FieldsOf
  <2>5. /\ c.stamps = b.stamps /\ c.seen = [b.seen EXCEPT ![r] = files[r].stamp] /\ c.inline = b.inline
        /\ c.index = b.index /\ c.failed = b.failed /\ c.retryAt = b.retryAt /\ c.results = b.results
    BY <2>4
  <2>6. c.seen \in [Index!Rulesets -> Nat] /\ c.seen[r] = files[r].stamp /\ \A s \in Index!Rulesets \ {r} : c.seen[s] = b.seen[s]
    BY <1>1, <2>3, <2>5 DEF FieldsOf
  <2>7. FieldsOf(c)
    BY <2>3, <2>4, <2>5, <2>6 DEF FieldsOf
  <2>8. Later(c, m, r)
    BY <2>2, <2>5, <2>6, <2>7 DEF Later
  <2>9. TrueFor(c, r) /\ WasRead(c, r)
    BY <1>1, <2>2, <2>5, <2>6 DEF TrueFor, WasRead, Later
  <2> QED BY <2>8, <2>9, LaterIsOk DEF c
<1>4. CASE r \notin blocked /\ files[r].stamp = m.seen[r]
  <2>1. c = [[m EXCEPT !.index[r] = files[r].content] EXCEPT !.seen[r] = files[r].stamp]
    BY <1>1, <1>4 DEF Index!Loaded
  <2> HIDE DEF c
  <2>2. c = [stamps |-> m.stamps, seen |-> [m.seen EXCEPT ![r] = files[r].stamp], inline |-> m.inline,
             index |-> [m.index EXCEPT ![r] = files[r].content], failed |-> m.failed, retryAt |-> m.retryAt,
             results |-> m.results]
    BY <1>1, <2>1 DEF FieldsOf
  <2>3. /\ c.stamps = m.stamps /\ c.seen = [m.seen EXCEPT ![r] = files[r].stamp] /\ c.inline = m.inline
        /\ c.index = [m.index EXCEPT ![r] = files[r].content] /\ c.failed = m.failed /\ c.retryAt = m.retryAt
        /\ c.results = m.results
    BY <2>2
  <2>4. c.seen \in [Index!Rulesets -> Nat] /\ c.seen[r] = files[r].stamp /\ \A s \in Index!Rulesets \ {r} : c.seen[s] = m.seen[s]
    BY <1>1, <2>3 DEF FieldsOf
  <2>5. c.index \in [Index!Rulesets -> ReadOrNot] /\ c.index[r] = files[r].content
        /\ \A s \in Index!Rulesets \ {r} : c.index[s] = m.index[s]
    BY <1>1, <2>3 DEF FieldsOf
  <2>6. FieldsOf(c)
    BY <1>1, <2>2, <2>3, <2>4, <2>5 DEF FieldsOf
  <2>7. Later(c, m, r)
    BY <2>3, <2>4, <2>5, <2>6 DEF Later
  <2>8. TrueFor(c, r) /\ WasRead(c, r)
    BY <1>1, <2>3, <2>4, <2>5 DEF TrueFor, WasRead
  <2> QED BY <2>7, <2>8, LaterIsOk DEF c
<1> QED BY <1>2, <1>3, <1>4

(* The rulesets are read in their order until one matches (_RuleConfigMatcher).    *)
ReadStep(host, k, before) ==
  LET after == IF Index!NotRead \in before.m.index[Order[k]] THEN Index!Loaded(before.m, Order[k]) ELSE before.m
  IN IF before.hit THEN before ELSE [m |-> after, hit |-> host \in after.index[Order[k]], at |-> k]
Nothing(m) == [m |-> m, hit |-> FALSE, at |-> 0]
ReadTo(f, m, host, n) == f = [k \in 0..n |-> IF k = 0 THEN Nothing(m) ELSE ReadStep(host, k, f[k - 1])]

LEMMA ReadingExists ==
  ASSUME NEW m, NEW host, NEW n \in Nat
  PROVE  \E f : ReadTo(f, m, host, n)
<1> DEFINE T == {k \in 0..n : \E f : ReadTo(f, m, host, k)}
<1>1. 0 \in T
  <2> DEFINE f == [k \in 0..0 |-> Nothing(m)]
  <2>1. \A k \in 0..0 : k = 0
    OBVIOUS
  <2>2. f = [k \in 0..0 |-> IF k = 0 THEN Nothing(m) ELSE ReadStep(host, k, f[k - 1])]
    BY <2>1
  <2>3. ReadTo(f, m, host, 0)
    BY <2>2 DEF ReadTo
  <2> HIDE DEF f
  <2> QED BY <2>3
<1>2. ASSUME NEW k \in 1..n, k - 1 \in T PROVE k \in T
  <2>1. PICK f : ReadTo(f, m, host, k - 1)
    BY <1>2
  <2> DEFINE h == [j \in 0..k |-> IF j = k THEN ReadStep(host, k, f[k - 1]) ELSE f[j]]
  <2>2. ASSUME NEW j \in 0..k PROVE h[j] = IF j = 0 THEN Nothing(m) ELSE ReadStep(host, j, h[j - 1])
    BY <2>1 DEF ReadTo
  <2>3. h = [j \in 0..k |-> h[j]]
    OBVIOUS
  <2> HIDE DEF h
  <2>4. ReadTo(h, m, host, k)
    BY <2>2, <2>3 DEF ReadTo
  <2> QED BY <2>4
<1>3. n \in T
  <2>1. \A k \in 1..n : k - 1 \in T => k \in T
    BY <1>2
  <2> HIDE DEF T
  <2>2. \A k \in 0..n : k \in T
    BY <1>1, <2>1, StepByStep
  <2> QED BY <2>2
<1> QED BY <1>3

LEMMA ReadsAre ==
  ASSUME NEW m, NEW host
  PROVE  \E f : ReadTo(f, m, host, Len(Order)) /\ Index!Reads(m, host) = f[Len(Order)]
<1> DEFINE Good(f) == f = [n \in 0..Len(Order) |->
                             IF n = 0 THEN [m |-> m, hit |-> FALSE, at |-> 0]
                             ELSE LET before == f[n - 1].m
                                      after == IF Index!NotRead \in before.index[Order[n]]
                                               THEN Index!Loaded(before, Order[n]) ELSE before
                                  IN IF f[n - 1].hit THEN f[n - 1]
                                     ELSE [m |-> after, hit |-> host \in after.index[Order[n]], at |-> n]]
           read == CHOOSE f : Good(f)
<1>1. \A f : Good(f) <=> ReadTo(f, m, host, Len(Order))
  BY DEF ReadTo, ReadStep, Nothing
<1>2. \E f : Good(f)
  <2>1. Len(Order) \in Nat
    BY IndexAssumption
  <2> HIDE DEF Good
  <2> QED BY <1>1, <2>1, ReadingExists
<1>3. Good(read)
  <2> HIDE DEF Good
  <2> QED BY <1>2
<1>4. Index!Reads(m, host) = read[Len(Order)]
  BY DEF Index!Reads
<1> HIDE DEF Good, read
<1> QED BY <1>1, <1>3, <1>4

ReadOk(m, host, k, b) ==
  /\ MatcherOk(b.m) /\ b.m.results = m.results /\ m.failed \subseteq b.m.failed /\ b.hit \in BOOLEAN
  /\ b.hit => b.at \in 1..k /\ Follows(b.m, host, b.at)
  /\ ~b.hit => \A i \in 1..k : WasRead(b.m, Order[i]) /\ host \notin b.m.index[Order[i]]

LEMMA ReadStepIsOk ==
  ASSUME CacheTyped, NEW m, NEW host, NEW k \in 1..Len(Order), NEW b, ReadOk(m, host, k - 1, b)
  PROVE  ReadOk(m, host, k, ReadStep(host, k, b))
<1>1. CASE b.hit
  <2>1. ReadStep(host, k, b) = b
    BY <1>1 DEF ReadStep
  <2>2. b.at \in 1..k
    BY <1>1 DEF ReadOk
  <2> QED BY <1>1, <2>1, <2>2 DEF ReadOk
<1>2. CASE ~b.hit
  <2> DEFINE r == Order[k]
             after == IF Index!NotRead \in b.m.index[r] THEN Index!Loaded(b.m, r) ELSE b.m
             c == ReadStep(host, k, b)
  <2>1. c = [m |-> after, hit |-> host \in after.index[r], at |-> k]
    BY <1>2 DEF ReadStep
  <2>2. r \in Index!Rulesets /\ k \in Nat
    BY OrderIs
  <2>3. /\ MatcherOk(after) /\ after.results = m.results /\ m.failed \subseteq after.failed /\ WasRead(after, r)
        /\ \A s \in Index!Rulesets \ {r} : after.index[s] = b.m.index[s]
        /\ WasRead(b.m, r) => after = b.m
    BY <2>2, LoadedIs DEF WasRead, ReadOk, Later
  <2> HIDE DEF after
  <2>4. c.m = after /\ c.at = k /\ c.hit = (host \in after.index[r]) /\ c.hit \in BOOLEAN
    BY <2>1
  <2> HIDE DEF c, r
  <2>5. ASSUME NEW i \in 1..(k - 1) PROVE WasRead(after, Order[i]) /\ host \notin after.index[Order[i]]
    BY <1>2, OrderIs, <2>3 DEF ReadOk, WasRead
  <2>6. ASSUME c.hit PROVE c.at \in 1..k /\ Follows(c.m, host, c.at)
    <3>1. k # 0 /\ k \in 0..Len(Order) /\ k \in 1..k
      OBVIOUS
    <3>2. \A i \in 1..Len(Order) : i < k => i \in 1..(k - 1)
      OBVIOUS
    <3>3. WasRead(after, Order[k]) /\ host \in after.index[Order[k]]
      BY <2>3, <2>4, <2>6 DEF r
    <3>4. Follows(after, host, k)
      BY <2>5, <3>1, <3>2, <3>3 DEF Follows
    <3> QED BY <2>4, <3>1, <3>4
  <2>7. ASSUME ~c.hit, NEW i \in 1..k PROVE WasRead(c.m, Order[i]) /\ host \notin c.m.index[Order[i]]
    <3>1. CASE i = k
      BY <2>3, <2>4, <2>7, <3>1 DEF r
    <3>2. CASE i # k
      BY <2>4, <2>5, <3>2
    <3> QED BY <3>1, <3>2
  <2>8. ReadOk(m, host, k, c)
    BY <2>3, <2>4, <2>6, <2>7 DEF ReadOk
  <2> QED BY <2>8 DEF c
<1> QED BY <1>1, <1>2

LEMMA ReadsAreOk ==
  ASSUME CacheTyped, NEW m, MatcherOk(m), NEW host
  PROVE  LET b == Index!Reads(m, host)
         IN  /\ MatcherOk(b.m) /\ b.m.results = m.results /\ m.failed \subseteq b.m.failed
             /\ Follows(b.m, host, IF b.hit THEN b.at ELSE 0)
<1> DEFINE n == Len(Order)
<1>1. PICK f : ReadTo(f, m, host, n) /\ Index!Reads(m, host) = f[n]
  BY ReadsAre
<1> DEFINE T == {k \in 0..n : ReadOk(m, host, k, f[k])}
<1>2. n \in Nat
  BY IndexAssumption
<1>3. 0 \in T
  BY <1>1, <1>2 DEF ReadTo, ReadOk, Nothing
<1>4. ASSUME NEW k \in 1..n, k - 1 \in T PROVE k \in T
  BY <1>1, <1>4, ReadStepIsOk DEF ReadTo
<1>5. n \in T
  <2> HIDE DEF T, n
  <2>1. \A k \in 0..n : k \in T
    BY <1>2, <1>3, <1>4, StepByStep
  <2> QED BY <1>2, <2>1
<1>6. ReadOk(m, host, n, f[n])
  BY <1>5
<1> DEFINE b == f[n]
<1> HIDE DEF b
<1>7. ReadOk(m, host, n, b)
  BY <1>6 DEF b
<1>8. Follows(b.m, host, IF b.hit THEN b.at ELSE 0)
  BY <1>2, <1>7 DEF ReadOk, Follows
<1>9. /\ MatcherOk(b.m) /\ b.m.results = m.results /\ m.failed \subseteq b.m.failed
      /\ Follows(b.m, host, IF b.hit THEN b.at ELSE 0)
  BY <1>7, <1>8 DEF ReadOk
<1>10. Index!Reads(m, host) = b
  BY <1>1 DEF b
<1> QED BY <1>9, <1>10

(* ----------------------- every step of the shared matchers ------------------- *)
LEMMA RetriedIsOk ==
  ASSUME NEW m, MatcherOk(m)
  PROVE  MatcherOk(Index!Retried(m))
<1> DEFINE c == Index!Retried(m)
           none == [x \in {} |-> 0]
<1>1. m = [stamps |-> m.stamps, seen |-> m.seen, inline |-> m.inline, index |-> m.index, failed |-> m.failed,
           retryAt |-> m.retryAt, results |-> m.results]
  BY DEF MatcherOk, FieldsOf
<1> DEFINE index == [r \in Index!Rulesets |-> IF r \in m.failed THEN {Index!NotRead} ELSE m.index[r]]
<1>2. c = [m EXCEPT !.index = index, !.failed = {}, !.retryAt = 0, !.results = none]
  BY DEF Index!Retried
<1> HIDE DEF c, none, index
<1>3. /\ c.stamps = m.stamps /\ c.seen = m.seen /\ c.inline = m.inline /\ c.index = index /\ c.failed = {} /\ c.retryAt = 0
      /\ c.results = none
      /\ c = [stamps |-> c.stamps, seen |-> c.seen, inline |-> c.inline, index |-> c.index, failed |-> c.failed,
              retryAt |-> c.retryAt, results |-> c.results]
  BY <1>1, <1>2
<1>4. index \in [Index!Rulesets -> ReadOrNot]
  BY DEF index, MatcherOk, FieldsOf, ReadOrNot
<1>5. FieldsOf(c)
  BY <1>3, <1>4 DEF FieldsOf, MatcherOk
<1>6. ASSUME NEW r \in Index!Rulesets PROVE TrueFor(c, r)
  BY <1>3 DEF index, MatcherOk, TrueFor, WasRead
<1>7. \A x \in DOMAIN c.results : Follows(c, x, c.results[x])
  BY <1>3 DEF none
<1> QED BY <1>5, <1>6, <1>7 DEF MatcherOk, c

LEMMA RememberIsOk ==
  ASSUME NEW m, MatcherOk(m), NEW x, NEW n, Follows(m, x, n)
  PROVE  MatcherOk(Index!Remember(m, x, n))
<1> DEFINE c == Index!Remember(m, x, n)
           all == [y \in DOMAIN m.results \cup {x} |-> IF y = x THEN n ELSE m.results[y]]
<1>1. m = [stamps |-> m.stamps, seen |-> m.seen, inline |-> m.inline, index |-> m.index, failed |-> m.failed,
           retryAt |-> m.retryAt, results |-> m.results]
  BY DEF MatcherOk, FieldsOf
<1>2. c = [m EXCEPT !.results = all]
  BY <1>1 DEF Index!Remember
<1> HIDE DEF c, all
<1>3. /\ c.stamps = m.stamps /\ c.seen = m.seen /\ c.inline = m.inline /\ c.index = m.index /\ c.failed = m.failed
      /\ c.retryAt = m.retryAt /\ c.results = all
      /\ c = [stamps |-> c.stamps, seen |-> c.seen, inline |-> c.inline, index |-> c.index, failed |-> c.failed,
              retryAt |-> c.retryAt, results |-> c.results]
  BY <1>1, <1>2
<1>4. FieldsOf(c)
  BY <1>3 DEF FieldsOf, MatcherOk
<1>5. ASSUME NEW r \in Index!Rulesets PROVE TrueFor(c, r)
  BY <1>3 DEF TrueFor, WasRead, MatcherOk
<1>6. \A y, k : Follows(m, y, k) => Follows(c, y, k)
  BY <1>3 DEF Follows, WasRead
<1>7. ASSUME NEW y \in DOMAIN c.results PROVE Follows(m, y, c.results[y])
  BY <1>3 DEF all, MatcherOk
<1> QED BY <1>4, <1>5, <1>6, <1>7 DEF MatcherOk, c

(* Whatever is written gets a stamp no matcher has seen (write_shared_text).       *)
Written(r) == files'[r].stamp \in Nat \ {0} /\ files[r].stamp < files'[r].stamp
TrueIn(fs, m, r) ==
  /\ m.stamps[r] <= m.seen[r] /\ m.seen[r] <= fs[r].stamp
  /\ WasRead(m, r) /\ r \notin m.failed /\ fs[r].stamp = m.stamps[r] => m.index[r] = fs[r].content
OkIn(fs, m) ==
  /\ FieldsOf(m) /\ \A r \in Index!Rulesets : TrueIn(fs, m, r)
  /\ \A x \in DOMAIN m.results : Follows(m, x, m.results[x])

LEMMA FilesMove ==
  ASSUME CacheTyped, NEW m, MatcherOk(m), \A r \in Index!Rulesets : files'[r] = files[r] \/ Written(r)
  PROVE  OkIn(files', m)
BY DEF MatcherOk, FieldsOf, CacheTyped, TrueFor, TrueIn, Written, OkIn

LEMMA AllMatchersOk ==
  ASSUME CacheTyped, CacheTyped', \A r \in Index!Rulesets : files'[r] = files[r] \/ Written(r),
         \A g \in Slots : MatcherOk(handles'[g])
  PROVE  CacheInv'
<1>1. ASSUME NEW g \in Slots PROVE MatcherOk(handles[g])'
  <2>1. OkIn(files', handles'[g])
    BY FilesMove
  <2> QED BY <2>1 DEF OkIn, MatcherOk, FieldsOf, TrueIn, TrueFor, Follows, WasRead, ReadOrNot
<1> QED BY <1>1 DEF CacheInv, Slots

LEMMA OneMatcherChanges ==
  ASSUME CacheInv, CacheTyped', \A r \in Index!Rulesets : files'[r] = files[r] \/ Written(r),
         NEW h \in Slots, NEW m, MatcherOk(m), handles' = [handles EXCEPT ![h] = m]
  PROVE  CacheInv'
BY AllMatchersOk DEF CacheInv, CacheTyped

LEMMA NewIsOk ==
  ASSUME CacheTyped
  PROVE  MatcherOk(Index!NewHandle)
BY DEF Index!NewHandle, Index!Stamps, CacheTyped, FieldsOf, ReadOrNot, TrueFor, WasRead, MatcherOk

(* There is room for one more matcher: who asks holds none.                        *)
LEMMA RoomForOneMore ==
  ASSUME CacheTyped, NEW u \in Holders, held[u] = Index!None
  PROVE  \E h \in Slots : h \notin Index!Used
<1>1. SUFFICES ASSUME Slots \subseteq Index!Used PROVE FALSE
  OBVIOUS
<1>2. Cardinality(Holders) \in Nat /\ IsFiniteSet(Holders)
  BY IndexAssumption, FS_CardinalityType
<1>3. IsFiniteSet(Slots) /\ Cardinality(Slots) = Cardinality(Holders) + 1 /\ \A h \in Slots : h # Index!None
  BY <1>2, FS_Interval DEF Slots, Index!None
<1> DEFINE f == [h \in Slots |-> IF h = slot THEN u ELSE CHOOSE v \in Holders : held[v] = h]
<1>4. ASSUME NEW h \in Slots PROVE f[h] \in Holders /\ (h = slot \/ (held[f[h]] = h /\ f[h] # u)) /\ (h = slot => f[h] = u)
  BY <1>1, <1>3 DEF Index!Used
<1>5. f \in [Slots -> Holders]
  BY <1>4
<1> HIDE DEF f
<1>6. Cardinality(Holders) < Cardinality(Slots)
  BY <1>2, <1>3
<1>7. PICK x, y \in Slots : x # y /\ f[x] = f[y]
  BY <1>2, <1>3, <1>5, <1>6, FS_PigeonHole
<1> QED BY <1>4, <1>7

(* With no handle at all every matcher is a new one.                               *)
LEMMA CacheStarts ==
  ASSUME Index!CacheInit
  PROVE  CacheInv
BY IndexAssumption, NewIsOk DEF Index!CacheInit, Index!Cardinality, Cardinality, Slots, CacheTyped, CacheInv

LEMMA AcquireKeeps ==
  ASSUME CacheInv, NEW u \in Holders, Index!Acquire(u)
  PROVE  CacheInv'
BY AllMatchersOk, RoomForOneMore, NewIsOk, OneMatcherChanges DEF Index!Acquire, CacheInv, CacheTyped, Slots

LEMMA HeldIsOk ==
  ASSUME CacheInv, NEW u \in Holders, held[u] # Index!None
  PROVE  held[u] \in Slots /\ MatcherOk(handles[held[u]])
BY DEF CacheInv, CacheTyped

LEMMA LookupIsOk ==
  ASSUME CacheInv, NEW m, MatcherOk(m), NEW x
  PROVE  LET read == Index!Reads(m, x)
         IN  MatcherOk(Index!Remember(read.m, x, IF read.hit THEN read.at ELSE 0)) /\ m.failed \subseteq read.m.failed
BY ReadsAreOk, RememberIsOk DEF CacheInv

LEMMA MatchHostKeeps ==
  ASSUME CacheInv, NEW u \in Holders, NEW x, Index!MatchHost(u, x)
  PROVE  CacheInv'
BY HeldIsOk, RetriedIsOk, LookupIsOk, OneMatcherChanges DEF Index!MatchHost, CacheInv, CacheTyped, Slots

LEMMA MatchRacedKeeps ==
  ASSUME CacheInv, NEW u \in Holders, NEW x, Index!MatchRaced(u, x)
  PROVE  CacheInv'
<1> DEFINE h == held[u]
           m == IF Index!Due(handles[h]) THEN Index!Retried(handles[h]) ELSE handles[h]
           r == Order[1]
           failing == [Index!Failing(m, r) EXCEPT !.index[r] = files[r].content]
           read == Index!Reads(failing, x)
           next == Index!Remember(read.m, x, IF read.hit THEN read.at ELSE 0)
<1>1. /\ held[u] # Index!None /\ Index!NotRead \in m.index[r]
      /\ handles' = [handles EXCEPT ![h] = next] /\ UNCHANGED <<library, slot, held>>
  BY DEF Index!MatchRaced
<1>2. PICK c \in Contents : files' = [files EXCEPT ![r] = [stamp |-> files[r].stamp + 1, content |-> c]]
  BY DEF Index!MatchRaced
<1>3. h \in Slots /\ MatcherOk(handles[h])
  BY <1>1, HeldIsOk
<1> HIDE DEF h
<1>4. MatcherOk(m)
  BY <1>3, RetriedIsOk
<1> HIDE DEF m
<1>5. r \in Index!Rulesets
  BY IndexAssumption, OrderIs
<1> HIDE DEF r
<1>6. files[r].stamp \in Nat \ {0} /\ files[r].content \in Contents /\ m.seen[r] \in Nat /\ TrueFor(m, r)
  BY <1>4, <1>5 DEF CacheInv, CacheTyped, MatcherOk, FieldsOf
<1>7. Later(failing, m, r) /\ failing.seen = m.seen /\ r \in failing.failed
  BY <1>4, <1>5, <1>6, FailingIs DEF MatcherOk, ReadOrNot
<1> HIDE DEF failing
<1>8. MatcherOk(failing)
  <2>1. TrueFor(failing, r)
    BY <1>6, <1>7 DEF TrueFor, Later
  <2> QED BY <1>1, <1>4, <1>5, <1>7, <2>1, LaterIsOk DEF WasRead
<1>9. MatcherOk(next)
  BY <1>8, LookupIsOk
<1> HIDE DEF next
<1>10. CacheTyped' /\ \A s \in Index!Rulesets : files'[s] = files[s] \/ Written(s)
  <2>1. files' \in [Index!Rulesets -> [stamp : Nat \ {0}, content : Contents]]
    BY <1>2, <1>5, <1>6 DEF CacheInv, CacheTyped
  <2>2. ASSUME NEW s \in Index!Rulesets PROVE files'[s] = files[s] \/ Written(s)
    BY <1>2, <1>5, <1>6 DEF CacheInv, CacheTyped, Written
  <2> QED BY <1>1, <2>1, <2>2 DEF CacheInv, CacheTyped, Slots
<1> QED BY <1>1, <1>3, <1>9, <1>10, OneMatcherChanges

LEMMA NoMatcherChanges ==
  ASSUME CacheInv, handles' = handles, CacheTyped', \A r \in Index!Rulesets : files'[r] = files[r] \/ Written(r)
  PROVE  CacheInv'
BY AllMatchersOk DEF CacheInv

LEMMA CacheStepKeeps ==
  ASSUME CacheInv, [Index!CacheNext]_IndexVars
  PROVE  CacheInv'
<1>1. ASSUME NEW u \in Holders, Index!Acquire(u) PROVE CacheInv'
  BY <1>1, AcquireKeeps
<1>2. ASSUME NEW u \in Holders, Index!Release(u) PROVE CacheInv'
  BY <1>2, NoMatcherChanges DEF Index!Release, CacheInv, CacheTyped, Slots
<1>3. ASSUME NEW u \in Holders, NEW x \in Hosts, Index!MatchHost(u, x) PROVE CacheInv'
  BY <1>3, MatchHostKeeps
<1>4. ASSUME NEW u \in Holders, NEW x \in Hosts, Index!MatchRaced(u, x) PROVE CacheInv'
  BY <1>4, MatchRacedKeeps
<1>5. CASE Index!Evict
  BY <1>5, NoMatcherChanges DEF Index!Evict, CacheInv, CacheTyped, Slots
<1>6. CASE Index!EditLibrary
  BY <1>6, NoMatcherChanges DEF Index!EditLibrary, CacheInv, CacheTyped, Slots
<1>7. CASE Index!SaveFile
  BY <1>7, NoMatcherChanges DEF Index!SaveFile, CacheInv, CacheTyped, Written, Slots
<1>8. CASE Index!Block \/ Index!Unblock \/ Index!Tick \/ UNCHANGED IndexVars
  BY <1>8, NoMatcherChanges DEF Index!Block, Index!Unblock, Index!Tick, IndexVars, CacheInv, CacheTyped, Slots
<1> QED BY <1>1, <1>2, <1>3, <1>4, <1>5, <1>6, <1>7, <1>8 DEF Index!CacheNext

(* What a matcher for the present files remembers is what a scan of them gives.    *)
LEMMA CurrentIsRight ==
  ASSUME CacheInv
  PROVE  Index!CurrentHandleIsRight
<1> SUFFICES ASSUME NEW h \in Index!Used, Index!Signature(h) = <<Index!Stamps, library>>, handles[h].failed = {},
                    NEW x \in DOMAIN handles[h].results
             PROVE  handles[h].results[x] = Index!Truth(x)
  BY DEF Index!CurrentHandleIsRight
<1> DEFINE m == handles[h]
           n == m.results[x]
           N == Len(Order)
           hits == {i \in DOMAIN Order : x \in files[Order[i]].content}
<1>1. h \in Slots /\ MatcherOk(m)
  BY DEF CacheInv, CacheTyped, Index!Used
<1>2. N \in Nat /\ DOMAIN Order = 1..N
  BY IndexAssumption
<1>3. ASSUME NEW r \in Index!Rulesets PROVE m.stamps[r] = files[r].stamp
  BY DEF Index!Signature, Index!Stamps
<1>4. ASSUME NEW r \in Index!Rulesets, WasRead(m, r) PROVE m.index[r] = files[r].content
  BY <1>1, <1>3, <1>4 DEF MatcherOk, TrueFor
<1>5. Follows(m, x, n)
  BY <1>1 DEF MatcherOk
<1> HIDE DEF m, n
<1>6. \A i \in 1..N : (n = 0 \/ i < n) => i \notin hits
  BY <1>2, <1>4, <1>5, OrderIs DEF Follows
<1>7. n # 0 => n \in hits
  BY <1>2, <1>5, <1>4, OrderIs DEF Follows
<1>8. n \in 0..N
  BY <1>5 DEF Follows
<1>9. Index!Truth(x) = IF hits = {} THEN 0 ELSE CHOOSE i \in hits : \A j \in hits : i <= j
  BY DEF Index!Truth
<1>10. hits \subseteq 1..N
  BY <1>2
<1> HIDE DEF hits, N
<1>11. ASSUME n = 0 PROVE Index!Truth(x) = n
  BY <1>6, <1>9, <1>10, <1>11
<1>12. ASSUME n # 0 PROVE Index!Truth(x) = n
  <2>1. \A j \in hits : n <= j
    BY <1>2, <1>6, <1>8, <1>10
  <2> DEFINE least == CHOOSE i \in hits : \A j \in hits : i <= j
  <2>2. least \in hits /\ \A j \in hits : least <= j
    BY <1>7, <1>12, <2>1
  <2> HIDE DEF least
  <2>3. least = n
    BY <1>2, <1>7, <1>8, <1>10, <1>12, <2>1, <2>2
  <2> QED BY <1>7, <1>9, <1>12, <2>3 DEF least
<1> QED BY <1>11, <1>12 DEF n, m

(* ---------------------------------- the rules -------------------------------- *)
(* Both clients read the same list; only no-resolve of a logic rule differs.      *)
LEMMA SameLines ==
  ASSUME NEW q,
         q.name = NoName \/ \A i \in Rules!Positions : Rules!Shown(i) /\ rules[i].noResolve => rules[i].form.type # "logic"
  PROVE  \A i \in Rules!Positions : Rules!Hits("surge", i, q) <=> Rules!Hits("mihomo", i, q)
  BY DEF Rules!Hits, Rules!Resolved, Rules!Resolves, Rules!Says, Rules!NoResolve, Rules!Shown, Rules!Positions, Rules!Precedes

(* Surge decides every request by the item Mihomo decides it by (surge.py).        *)
LEMMA SurgeIsMihomo == Rules!SurgeDecidesAsMihomo
  BY SameLines DEF Rules!SurgeDecidesAsMihomo, Rules!Decides, Rules!Precedes

(* The rules of Surge, at every moment.                                           *)
THEOREM SurgeFollowsMihomo == Spec => []Rules!SurgeDecidesAsMihomo
  BY SurgeIsMihomo, PTL

(* What Loon can say matches there what it matches in Mihomo (loon.py).            *)
LEMMA SameHits ==
  ASSUME NEW q, Rules!Plain(q), NEW i \in Rules!Positions, Rules!Says("loon", i)
  PROVE  Rules!Hits("loon", i, q) <=> Rules!Hits("mihomo", i, q)
  BY DEF Rules!Hits, Rules!Resolved, Rules!Resolves, Rules!Says, Rules!NoResolve, Rules!Shown, Rules!Plain

(* Loon reads some items in another order, but none of them earlier than Mihomo   *)
(* does unless it is a local rule and what it overtakes is none.                  *)
LEMMA LoonIsMihomo == Rules!LoonOnlyPrefersLocal
BY SameHits DEF Rules!Decides, Rules!Hits, Rules!Precedes, Rules!Positions, Rules!Turn, Rules!IsLocal,
   Rules!LoonOnlyPrefersLocal

(* The rules of Loon, at every moment.                                            *)
THEOREM LoonFollowsMihomo == Spec => []Rules!LoonOnlyPrefersLocal
  BY LoonIsMihomo, PTL

(* A duplicate matches nothing that the item above it does not                     *)
(* (find_duplicate_rules).                                                        *)
LEMMA DuplicatesAreIdle == Rules!DuplicatesDecideNothing
<1>1. ASSUME NEW q, NEW i \in Rules!Positions, NEW j \in Rules!Positions, Rules!Plain(q), Rules!Duplicate(i, j), Rules!Hits("mihomo", j, q)
      PROVE  Rules!Hits("mihomo", i, q)
  BY <1>1 DEF Rules!NamesIn, Rules!AddressesIn, Rules!Duplicate, Rules!Hits, Rules!Resolved, Rules!Resolves,
     Rules!Says, Rules!NoResolve, Rules!Plain
<1> QED BY <1>1 DEF Rules!DuplicatesDecideNothing, Rules!Decides, Rules!Precedes, Rules!Duplicate

(* Duplicates, at every moment.                                                   *)
THEOREM DuplicatesMayGo == Spec => []Rules!DuplicatesDecideNothing
  BY DuplicatesAreIdle, PTL

(* -------------------------------- the whole run ------------------------------ *)
(* Lines are only added, one of the possible ones at a time.                      *)
MatcherTyped == ruleset \in Seq(Lines)

LEMMA IndexIsRight ==
  ASSUME MatcherTyped
  PROVE  Matcher!IndexIsFirstMatch
BY MatcherAssumption, IndexAnswers DEF MatcherTyped, Matcher!IndexIsFirstMatch, Matcher!Match

MatchingInv == MatcherTyped /\ CacheInv

(* What a lookup answers is the first line that matches, what a matcher of the    *)
(* present files remembers is what they hold, and the clients decide alike        *)
(* (rule_matcher.py, domain_matcher_cache.py, surge.py, loon.py, routes/rules.py): *)
(* for all lines, queries, files, holders and rules, however reads fail and race. *)
THEOREM MatchingHolds == Spec => []MatchingIsRight
<1>1. Init => MatchingInv
  BY CacheStarts DEF Init, Matcher!MatcherInit, MatchingInv, MatcherTyped
<1>2. MatchingInv /\ [Next]_vars => MatchingInv'
  BY CacheStepKeeps DEF Matcher!AddLine, MatchingInv, MatcherTyped, Matcher!Toggle, Matcher!MatcherNext,
     MatcherVars, Next, vars
<1>3. MatchingInv => MatchingIsRight
  BY IndexIsRight, CurrentIsRight, SurgeIsMihomo, LoonIsMihomo, DuplicatesAreIdle DEF MatchingInv, MatchingIsRight
<1> QED BY <1>1, <1>2, <1>3, PTL DEF Spec

(* --------------------------------- the groups -------------------------------- *)
GroupsSpec == GroupsInit /\ [][GroupsNext]_groupsVars

(* Every set of groups that hold each other and something Loon knows stays, and   *)
(* what is done has no empty group.                                               *)
Held(groups) == \A g \in groups : NonEmpty(g, groups)
GroupsInv ==
  /\ emitted \subseteq ShownGroups \/ phase = "editing"
  /\ phase = "done" => Held(emitted)
  /\ phase # "editing" => \A groups \in SUBSET ShownGroups : Held(groups) => groups \subseteq emitted

(* More groups make no group unusable.                                            *)
LEMMA UsableGrows ==
  ASSUME NEW g, NEW small, NEW large, small \subseteq large, NonEmpty(g, small)
  PROVE  NonEmpty(g, large)
  BY DEF NonEmpty

(* What a group holds depends on the document alone.                              *)
LEMMA SameDocument ==
  ASSUME UNCHANGED <<body, on>>
  PROVE  /\ ShownGroups' = ShownGroups
         /\ \A g, groups : NonEmpty(g, groups)' <=> NonEmpty(g, groups)
  BY DEF ShownGroups, NonEmpty, LoonLeaves, LoonGroupsOf, LoonNodes, Effective, MemberRefs

(* The order in which empty groups are removed does not matter: what can be used  *)
(* is used by groups that are not removed either.                                 *)
THEOREM LoonGroupsHold == GroupsSpec => []LoonGroupsAreUsable
<1>1. GroupsInit => GroupsInv
  BY DEF GroupsInit, GroupsInv
<1>2. GroupsInv /\ [GroupsNext]_groupsVars => GroupsInv'
  <2> SUFFICES ASSUME GroupsInv, [GroupsNext]_groupsVars PROVE GroupsInv'
    OBVIOUS
  <2>1. CASE Generate
    BY <2>1, SameDocument DEF Generate, GroupsInv
  <2>2. ASSUME NEW g \in Groups, Omit(g) PROVE GroupsInv'
    BY <2>2, UsableGrows, SameDocument DEF Omit, GroupsInv, Held
  <2>3. CASE Emit
    BY <2>3, SameDocument DEF Emit, Held, GroupsInv
  <2>4. ASSUME NEW g \in Groups, NEW b \in GroupBodies, PutGroup(g, b) PROVE GroupsInv'
    BY <2>4 DEF PutGroup, EditGroups, GroupsInv
  <2>5. ASSUME NEW x, Switch(x) PROVE GroupsInv'
    BY <2>5 DEF Switch, EditGroups, GroupsInv
  <2>6. CASE UNCHANGED groupsVars
    <3>1. UNCHANGED <<body, on, emitted, phase>>
      BY <2>6 DEF groupsVars
    <3> QED BY <3>1, SameDocument DEF GroupsInv, Held
  <2> QED BY <2>1, <2>2, <2>3, <2>4, <2>5, <2>6 DEF GroupsNext
<1>3. GroupsInv => LoonGroupsAreUsable
  BY DEF GroupsInv, LoonGroupsAreUsable, Held
<1> QED BY <1>1, <1>2, <1>3, PTL DEF GroupsSpec

(* A node that a group names is among those Surge is given, if Surge can say it:  *)
(* what an aggregation brings is left out only where no group chooses it          *)
(* (generate_surge_config).  Groups include groups, and a body follows one.       *)
THEOREM SurgeNodesHold ==
  ASSUME \A b \in GroupBodies : b.included \subseteq Groups, Groups \cap Nodes = {}
  PROVE  GroupsSpec => []SurgeDefinesWhatItNames
<1> DEFINE Typed == body \in [Groups -> GroupBodies]
<1>1. GroupsInit => Typed
  BY DEF GroupsInit
<1>2. Typed /\ [GroupsNext]_groupsVars => Typed'
  BY DEF GroupsNext, groupsVars, Generate, Omit, Emit, PutGroup, Switch
<1>3. Typed => SurgeDefinesWhatItNames
  BY DEF SurgeDefinesWhatItNames, SurgeGroups, ShownGroups, Effective, SurgeNames, MemberRefs, UsedNodes,
     ChosenNodes, SurgeNodes, OnlyInSources
<1> QED BY <1>1, <1>2, <1>3, PTL DEF GroupsSpec
=============================================================================
