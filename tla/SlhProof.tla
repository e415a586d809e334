------------------------------ MODULE SlhProof ------------------------------
(***************************************************************************)
(* Proofs about SLH-DSA, for trees of every height, any number of layers,  *)
(* FORS trees and calls, and every base of the digits: the loops keep to   *)
(* their bounds and the shared ADRS to what the callers need; xmss_node    *)
(* and fors_node return the node they were asked for; no value has all its *)
(* chains as long as those of another; no WOTS+ key signs two values; and  *)
(* slh_verify accepts exactly what slh_sign made for the same message.     *)
(* At the end, of SHA-2, for every size of a block and of a digest: an     *)
(* object has absorbed what was put into it, and all digests are right.    *)
(***************************************************************************)
EXTENDS Slh, Sha2, FiniteSetTheorems, TLAPS

-----------------------------------------------------------------------------
\* Induction over a set of naturals: the library's induction theorem for
\* well-founded relations in the form of a minimal element.
Less == {ss \in Nat \X Nat : ss[1] < ss[2]}

LEMMA LessWellFounded == IsWellFoundedOn(Less, Nat)
  BY NatLessThanWellFounded DEF OpToRel, Less

LEMMA SetInduction ==
  ASSUME NEW S, 0 \in S, \A n \in Nat : n \in S => n + 1 \in S
  PROVE  Nat \subseteq S
<1> SUFFICES ASSUME Nat \ S # {} PROVE FALSE
  OBVIOUS
<1>1. PICK x \in Nat \ S : \A y \in Nat \ S : ~ (<<y, x>> \in Less)
  <2> DEFINE T == Nat \ S
  <2>1. T \subseteq Nat /\ T # {}
    OBVIOUS
  <2> HIDE DEF T
  <2>2. \E x \in T : \A y \in T : ~ (<<y, x>> \in Less)
    BY <2>1, WFMin, LessWellFounded
  <2>. QED
    BY <2>2 DEF T
<1>2. \A y \in Nat \ S : ~(y < x)
  BY <1>1 DEF Less
<1>3. x - 1 \in Nat /\ x - 1 < x /\ x - 1 \in S
  BY <1>2
<1>. QED
  BY <1>3

\* Powers of two count subsets.
LEMMA TwoSubsets ==
  ASSUME NEW n \in Nat
  PROVE  /\ 2 ^ n \in Nat
         /\ IsFiniteSet(SUBSET (1 .. n)) /\ Cardinality(SUBSET (1 .. n)) = 2 ^ n
<1>1. IsFiniteSet(1 .. n) /\ Cardinality(1 .. n) = n
  BY FS_Interval
<1>2. IsFiniteSet(SUBSET (1 .. n)) /\ Cardinality(SUBSET (1 .. n)) = 2 ^ n
  BY <1>1, FS_SUBSET
<1>. QED
  BY <1>2, FS_CardinalityType

LEMMA TwoZero == 2 ^ 0 = 1
<1>1. 1 .. 0 = {} /\ SUBSET {} = {{}}
  OBVIOUS
<1>2. Cardinality(SUBSET (1 .. 0)) = 1
  BY <1>1, FS_Singleton
<1>. QED
  BY <1>2, TwoSubsets

LEMMA TwoNext ==
  ASSUME NEW n \in Nat
  PROVE  2 ^ (n + 1) = 2 * 2 ^ n
<1> DEFINE Old == SUBSET (1 .. n)
           New == {s \cup {n + 1} : s \in Old}
           f == [s \in Old |-> s \cup {n + 1}]
<1>1. \A s \in Old : n + 1 \notin s
  OBVIOUS
<1>2. SUBSET (1 .. n + 1) = Old \cup New
  <2>1. ASSUME NEW s \in SUBSET (1 .. n + 1), n + 1 \in s PROVE s \in New
    <3>1. s \ {n + 1} \in Old /\ s = (s \ {n + 1}) \cup {n + 1}
      BY <2>1
    <3>. QED
      BY <3>1
  <2>2. ASSUME NEW s \in SUBSET (1 .. n + 1), n + 1 \notin s PROVE s \in Old
    BY <2>2
  <2>3. 1 .. n + 1 = (1 .. n) \cup {n + 1}
    OBVIOUS
  <2>4. Old \subseteq SUBSET (1 .. n + 1) /\ New \subseteq SUBSET (1 .. n + 1)
    BY <2>3
  <2> HIDE DEF Old, New
  <2>. QED
    BY <2>1, <2>2, <2>4
<1>3. Old \cap New = {}
  BY <1>1
<1>4. f \in Bijection(Old, New)
  <2>1. \A s, u \in Old : f[s] = f[u] => s = u
    <3> TAKE s, u \in Old
    <3> HAVE f[s] = f[u]
    <3>1. s = f[s] \ {n + 1} /\ u = f[u] \ {n + 1}
      BY <1>1
    <3>. QED
      BY <3>1
  <2>2. f \in [Old -> New] /\ \A v \in New : \E s \in Old : f[s] = v
    OBVIOUS
  <2>. QED
    BY <2>1, <2>2, Zenon DEF Bijection, Injection, Surjection, IsInjective
<1>5. IsFiniteSet(Old) /\ Cardinality(Old) = 2 ^ n /\ 2 ^ n \in Nat
  BY TwoSubsets
<1> HIDE DEF Old, New, f
<1>6. IsFiniteSet(New) /\ Cardinality(New) = 2 ^ n
  BY <1>4, <1>5, FS_Bijection DEF ExistsBijection
<1>7. Cardinality(Old \cup New) = 2 ^ n + 2 ^ n
  <2>1. Cardinality(Old \cup New) = Cardinality(Old) + Cardinality(New) - Cardinality(Old \cap New)
    BY <1>5, <1>6, FS_Union
  <2>. QED
    BY <2>1, <1>3, <1>5, <1>6, FS_EmptySet
<1>8. n + 1 \in Nat
  OBVIOUS
<1>9. Cardinality(SUBSET (1 .. n + 1)) = 2 ^ (n + 1)
  BY <1>8, TwoSubsets, Zenon
<1>10. 2 ^ (n + 1) = 2 ^ n + 2 ^ n
  BY <1>2, <1>7, <1>9, Zenon
<1>. QED
  BY <1>5, <1>10

LEMMA TwoPositive == \A n \in Nat : 2 ^ n \in Nat \ {0}
<1> DEFINE S == {n \in Nat : 2 ^ n \in Nat \ {0}}
<1>1. 0 \in S
  BY TwoZero
<1>2. \A n \in Nat : n \in S => n + 1 \in S
  BY TwoNext
<1> HIDE DEF S
<1>3. Nat \subseteq S
  BY <1>1, <1>2, SetInduction
<1>. QED
  BY <1>3 DEF S

LEMMA TwoAdd == \A m1, n \in Nat : 2 ^ (m1 + n) = 2 ^ m1 * 2 ^ n
<1> SUFFICES ASSUME NEW m1 \in Nat PROVE \A n \in Nat : 2 ^ (m1 + n) = 2 ^ m1 * 2 ^ n
  OBVIOUS
<1> DEFINE S == {n \in Nat : 2 ^ (m1 + n) = 2 ^ m1 * 2 ^ n}
<1>1. 0 \in S
  BY TwoZero, TwoPositive
<1>2. ASSUME NEW n \in Nat, n \in S PROVE n + 1 \in S
  <2>1. 2 ^ (m1 + (n + 1)) = 2 * 2 ^ (m1 + n)
    BY TwoNext
  <2>2. 2 ^ (n + 1) = 2 * 2 ^ n /\ 2 ^ n \in Nat /\ 2 ^ m1 \in Nat
    BY TwoNext, TwoPositive
  <2>. QED
    BY <2>1, <2>2, <1>2
<1> HIDE DEF S
<1>3. Nat \subseteq S
  BY <1>1, <1>2, SetInduction
<1>. QED
  BY <1>3 DEF S

-----------------------------------------------------------------------------
\* The chain function exists, and its values do not depend on where it ends.
IsLink(f, a, x, from, s) ==
  f = [n \in 0 .. s |-> IF n = 0 THEN x ELSE Hash([a EXCEPT !.w7 = from + n - 1], <<f[n - 1]>>)]

LEMMA LinkExists ==
  ASSUME NEW a, NEW x, NEW from
  PROVE  \A s \in Nat : \E f : IsLink(f, a, x, from, s)
<1> DEFINE S == {s \in Nat : \E f : IsLink(f, a, x, from, s)}
<1>1. 0 \in S
  <2>1. IsLink([n \in 0 .. 0 |-> x], a, x, from, 0)
    BY DEF IsLink
  <2>. QED
    BY <2>1
<1>2. ASSUME NEW s \in Nat, s \in S PROVE s + 1 \in S
  <2>1. PICK f : IsLink(f, a, x, from, s)
    BY <1>2
  <2> DEFINE last == Hash([a EXCEPT !.w7 = from + (s + 1) - 1], <<f[s]>>)
             g == [n \in 0 .. s + 1 |-> IF n \in 0 .. s THEN f[n] ELSE last]
  <2>2. ASSUME NEW n \in 0 .. s + 1
        PROVE  g[n] = IF n = 0 THEN x ELSE Hash([a EXCEPT !.w7 = from + n - 1], <<g[n - 1]>>)
    <3>1. CASE n = 0
      <4>1. f[0] = x
        BY <2>1 DEF IsLink
      <4>. QED
        BY <3>1, <4>1
    <3>2. CASE n = s + 1
      <4>1. g[s] = f[s] /\ g[s + 1] = last /\ n - 1 = s /\ n # 0
        BY <3>2
      <4> HIDE DEF g
      <4>. QED
        BY <3>2, <4>1, Zenon
    <3>3. CASE n \in 0 .. s /\ n # 0
      <4>1. n - 1 \in 0 .. s /\ n \in 0 .. s
        BY <3>3
      <4>2. f[n] = Hash([a EXCEPT !.w7 = from + n - 1], <<f[n - 1]>>)
        BY <2>1, <3>3 DEF IsLink
      <4>3. g[n] = f[n] /\ g[n - 1] = f[n - 1]
        BY <4>1
      <4> HIDE DEF g
      <4>. QED
        BY <3>3, <4>2, <4>3, Zenon
    <3>. QED
      BY <3>1, <3>2, <3>3
  <2>3. g = [n \in 0 .. s + 1 |-> g[n]]
    OBVIOUS
  <2> HIDE DEF g
  <2>4. IsLink(g, a, x, from, s + 1)
    BY <2>2, <2>3, Zenon DEF IsLink
  <2>. QED
    BY <2>4
<1> HIDE DEF S
<1>3. Nat \subseteq S
  BY <1>1, <1>2, SetInduction
<1>. QED
  BY <1>3 DEF S

LEMMA LinkUnique ==
  ASSUME NEW a, NEW x, NEW from, NEW s \in Nat, NEW u \in s .. s + 1,
         NEW f, NEW g, IsLink(f, a, x, from, s), IsLink(g, a, x, from, u)
  PROVE  \A n \in 0 .. s : f[n] = g[n]
<1> DEFINE S == {n \in Nat : n <= s => f[n] = g[n]}
<1>1. 0 \in S
  BY DEF IsLink
<1>2. ASSUME NEW n \in Nat, n \in S PROVE n + 1 \in S
  <2>1. SUFFICES ASSUME n + 1 <= s PROVE f[n + 1] = g[n + 1]
    OBVIOUS
  <2>2. n + 1 \in 0 .. s /\ n + 1 \in 0 .. u /\ n + 1 # 0 /\ (n + 1) - 1 = n /\ f[n] = g[n]
    BY <2>1, <1>2
  <2>3. f[n + 1] = Hash([a EXCEPT !.w7 = from + (n + 1) - 1], <<f[(n + 1) - 1]>>)
    BY <2>2, Zenon DEF IsLink
  <2>4. g[n + 1] = Hash([a EXCEPT !.w7 = from + (n + 1) - 1], <<g[(n + 1) - 1]>>)
    BY <2>2, Zenon DEF IsLink
  <2>. QED
    BY <2>2, <2>3, <2>4, Zenon
<1> HIDE DEF S
<1>3. Nat \subseteq S
  BY <1>1, <1>2, SetInduction
<1>. QED
  BY <1>3 DEF S

LEMMA ChainLink ==
  ASSUME NEW a, NEW x, NEW from, NEW s \in Nat
  PROVE  \E f : IsLink(f, a, x, from, s) /\ Chain(a, x, from, s) = f[s]
<1> DEFINE f == CHOOSE f : IsLink(f, a, x, from, s)
<1>1. Chain(a, x, from, s) = f[s]
  BY DEF Chain, IsLink
<1>2. IsLink(f, a, x, from, s)
  BY LinkExists
<1>. QED
  BY <1>1, <1>2

\* A chain of no hashes, and one more hash.
LEMMA ChainStep ==
  ASSUME NEW a, NEW x, NEW from \in Nat
  PROVE  /\ Chain(a, x, from, 0) = x
         /\ \A s \in Nat : Chain(a, x, from, s + 1)
                             = Hash([a EXCEPT !.w7 = from + s], <<Chain(a, x, from, s)>>)
<1>1. Chain(a, x, from, 0) = x
  <2>1. PICK f : IsLink(f, a, x, from, 0) /\ Chain(a, x, from, 0) = f[0]
    BY ChainLink
  <2>2. f[0] = x
    BY <2>1 DEF IsLink
  <2>. QED
    BY <2>1, <2>2
<1>2. ASSUME NEW s \in Nat
      PROVE  Chain(a, x, from, s + 1) = Hash([a EXCEPT !.w7 = from + s], <<Chain(a, x, from, s)>>)
  <2>1. PICK f : IsLink(f, a, x, from, s) /\ Chain(a, x, from, s) = f[s]
    BY ChainLink
  <2>2. PICK g : IsLink(g, a, x, from, s + 1) /\ Chain(a, x, from, s + 1) = g[s + 1]
    BY ChainLink
  <2>3. f[s] = g[s]
    BY <2>1, <2>2, LinkUnique
  <2>4. s + 1 \in 0 .. s + 1 /\ s + 1 # 0 /\ (s + 1) - 1 = s /\ from + (s + 1) - 1 = from + s
    OBVIOUS
  <2>5. g[s + 1] = Hash([a EXCEPT !.w7 = from + (s + 1) - 1], <<g[(s + 1) - 1]>>)
    BY <2>2, <2>4, Zenon DEF IsLink
  <2>. QED
    BY <2>1, <2>2, <2>3, <2>4, <2>5, Zenon
<1>. QED
  BY <1>1, <1>2

-----------------------------------------------------------------------------
Types == {"WOTS_HASH", "WOTS_PK", "WOTS_PRF", "TREE", "FORS_TREE", "FORS_ROOTS", "FORS_PRF"}

Adrs == [layer : Nat, tree : Nat, type : Types, kp : Nat, w6 : Nat, w7 : Nat]

\* A hash is right exactly if its input is, and it has an input.
LEMMA RightHash ==
  ASSUME NEW a, NEW in
  PROVE  /\ in = Input(a) => Hash(a, in) = Value(a)
         /\ \A b : in # <<>> /\ Hash(a, in) = Value(b) => a = b /\ in = Input(a)
BY DEF Hash, Value

LEMMA SameValue ==
  ASSUME NEW a, NEW b, Value(a) = Value(b)
  PROVE  a = b
BY DEF Value

LEMMA InputOf ==
  ASSUME NEW a
  PROVE  /\ a.type \in {"WOTS_PRF", "FORS_PRF"} => Input(a) = <<Seed>>
         /\ a.type = "WOTS_HASH" =>
              Input(a) = <<Value(IF a.w7 = 0 THEN SetType(a, "WOTS_PRF") ELSE [a EXCEPT !.w7 = @ - 1])>>
         /\ a.type = "WOTS_PK" =>
              Input(a) = [c \in 1 .. Len12 |->
                            Value([a EXCEPT !.type = "WOTS_HASH", !.w6 = c - 1, !.w7 = W - 2])]
         /\ a.type = "FORS_TREE" /\ a.w6 = 0 => Input(a) = <<Value(SetType(a, "FORS_PRF"))>>
         /\ a.type = "FORS_TREE" /\ a.w6 # 0 =>
              Input(a) = <<Value([a EXCEPT !.w6 = @ - 1, !.w7 = 2 * a.w7]),
                           Value([a EXCEPT !.w6 = @ - 1, !.w7 = 2 * a.w7 + 1])>>
         /\ a.type = "TREE" /\ a.w6 = 1 =>
              Input(a) = <<Value([SetTypeAndClear(a, "WOTS_PK") EXCEPT !.kp = 2 * a.w7]),
                           Value([SetTypeAndClear(a, "WOTS_PK") EXCEPT !.kp = 2 * a.w7 + 1])>>
         /\ a.type = "TREE" /\ a.w6 # 1 =>
              Input(a) = <<Value([a EXCEPT !.w6 = @ - 1, !.w7 = 2 * a.w7]),
                           Value([a EXCEPT !.w6 = @ - 1, !.w7 = 2 * a.w7 + 1])>>
         /\ a.type = "FORS_ROOTS" =>
              Input(a) = [x \in 1 .. K |-> Value([a EXCEPT !.type = "FORS_TREE", !.w6 = A, !.w7 = x - 1])]
<1>1. a.type \in {"WOTS_PRF", "FORS_PRF"} => Input(a) = <<Seed>>
  BY DEF Input
<1>2. a.type = "WOTS_HASH" =>
           Input(a) = <<Value(IF a.w7 = 0 THEN SetType(a, "WOTS_PRF") ELSE [a EXCEPT !.w7 = @ - 1])>>
  BY DEF Input
<1>3. a.type = "WOTS_PK" =>
           Input(a) = [c \in 1 .. Len12 |->
                         Value([a EXCEPT !.type = "WOTS_HASH", !.w6 = c - 1, !.w7 = W - 2])]
  BY DEF Input
<1>4. a.type = "FORS_TREE" /\ a.w6 = 0 => Input(a) = <<Value(SetType(a, "FORS_PRF"))>>
  BY DEF Input
<1>5. a.type = "FORS_TREE" /\ a.w6 # 0 =>
           Input(a) = <<Value([a EXCEPT !.w6 = @ - 1, !.w7 = 2 * a.w7]),
                        Value([a EXCEPT !.w6 = @ - 1, !.w7 = 2 * a.w7 + 1])>>
  BY DEF Input
<1>6. a.type = "TREE" /\ a.w6 = 1 =>
           Input(a) = <<Value([SetTypeAndClear(a, "WOTS_PK") EXCEPT !.kp = 2 * a.w7]),
                        Value([SetTypeAndClear(a, "WOTS_PK") EXCEPT !.kp = 2 * a.w7 + 1])>>
  BY DEF Input
<1>7. a.type = "TREE" /\ a.w6 # 1 =>
           Input(a) = <<Value([a EXCEPT !.w6 = @ - 1, !.w7 = 2 * a.w7]),
                        Value([a EXCEPT !.w6 = @ - 1, !.w7 = 2 * a.w7 + 1])>>
  BY DEF Input
<1>8. a.type = "FORS_ROOTS" =>
           Input(a) = [x \in 1 .. K |-> Value([a EXCEPT !.type = "FORS_TREE", !.w6 = A, !.w7 = x - 1])]
  BY DEF Input
<1>. QED
  BY <1>1, <1>2, <1>3, <1>4, <1>5, <1>6, <1>7, <1>8, Zenon

\* What a chain has after s hashes.
ChainValue(a, s) ==
  Value(IF s = 0 THEN [a EXCEPT !.type = "WOTS_PRF", !.w7 = 0]
                 ELSE [a EXCEPT !.type = "WOTS_HASH", !.w7 = s - 1])

LEMMA ChainInput ==
  ASSUME NEW a \in Adrs, NEW s \in Nat
  PROVE  /\ ChainValue(a, s + 1) = Value([SetType(a, "WOTS_HASH") EXCEPT !.w7 = s])
         /\ Input([SetType(a, "WOTS_HASH") EXCEPT !.w7 = s]) = <<ChainValue(a, s)>>
<1> DEFINE b == [SetType(a, "WOTS_HASH") EXCEPT !.w7 = s]
<1>1. b = [a EXCEPT !.type = "WOTS_HASH", !.w7 = s] /\ b.type = "WOTS_HASH" /\ b.w7 = s
  BY DEF Adrs, SetType
<1>2. /\ s = 0 => SetType(b, "WOTS_PRF") = [a EXCEPT !.type = "WOTS_PRF", !.w7 = 0]
      /\ [b EXCEPT !.w7 = @ - 1] = [a EXCEPT !.type = "WOTS_HASH", !.w7 = s - 1]
  BY DEF Adrs, SetType
<1>3. ChainValue(a, s + 1) = Value(b)
  <2>1. s + 1 # 0 /\ (s + 1) - 1 = s
    OBVIOUS
  <2>2. ChainValue(a, s + 1) = Value([a EXCEPT !.type = "WOTS_HASH", !.w7 = (s + 1) - 1])
    BY <2>1, Zenon DEF ChainValue
  <2>. QED
    BY <1>1, <2>1, <2>2, Zenon
<1> HIDE DEF b
<1>4. Input(b) = <<Value(IF b.w7 = 0 THEN SetType(b, "WOTS_PRF") ELSE [b EXCEPT !.w7 = @ - 1])>>
  BY <1>1, InputOf
<1>5. Input(b) = <<ChainValue(a, s)>>
  BY <1>1, <1>2, <1>4 DEF ChainValue
<1>. QED
  BY <1>3, <1>5 DEF b

\* Hashing on from the value after "from" hashes gives the value after as many
\* more, and hashing on from any other value does not.
LEMMA ChainRight ==
  ASSUME NEW a \in Adrs, NEW x, NEW from \in Nat
  PROVE  \A s \in Nat : Chain(SetType(a, "WOTS_HASH"), x, from, s) = ChainValue(a, from + s)
                          <=> x = ChainValue(a, from)
<1> DEFINE ch(s) == Chain(SetType(a, "WOTS_HASH"), x, from, s)
           S == {s \in Nat : ch(s) = ChainValue(a, from + s) <=> x = ChainValue(a, from)}
<1>1. ch(0) = x /\ \A s \in Nat : ch(s + 1) = Hash([SetType(a, "WOTS_HASH") EXCEPT !.w7 = from + s], <<ch(s)>>)
  BY ChainStep
<1> HIDE DEF ch
<1>2. 0 \in S
  BY <1>1
<1>3. ASSUME NEW s \in Nat, s \in S PROVE s + 1 \in S
  <2> DEFINE b == [SetType(a, "WOTS_HASH") EXCEPT !.w7 = from + s]
  <2>1. from + s \in Nat /\ from + (s + 1) = (from + s) + 1
    OBVIOUS
  <2>2. ch(s + 1) = Hash(b, <<ch(s)>>)
    BY <1>1
  <2>3. ChainValue(a, (from + s) + 1) = Value(b) /\ Input(b) = <<ChainValue(a, from + s)>>
    BY <2>1, ChainInput
  <2> HIDE DEF b
  <2>4. <<ch(s)>> # <<>> /\ (<<ch(s)>> = <<ChainValue(a, from + s)>> <=> ch(s) = ChainValue(a, from + s))
    OBVIOUS
  <2>5. Hash(b, <<ch(s)>>) = Value(b) <=> ch(s) = ChainValue(a, from + s)
    BY <2>3, <2>4, RightHash, Zenon
  <2>. QED
    BY <1>3, <2>1, <2>2, <2>3, <2>5
<1> HIDE DEF S
<1>4. Nat \subseteq S
  BY <1>2, <1>3, SetInduction
<1>. QED
  BY <1>4 DEF S, ch

LEMMA WotsChainRight ==
  ASSUME NEW a \in Adrs, NEW s \in Nat
  PROVE  WotsChain(a, s) = ChainValue(a, s)
<1> DEFINE p == [a EXCEPT !.type = "WOTS_PRF", !.w7 = 0]
<1>1. Hash(p, <<Seed>>) = Value(p)
  <2>1. p.type = "WOTS_PRF"
    BY DEF Adrs
  <2> HIDE DEF p
  <2>. QED
    BY <2>1, InputOf, RightHash
<1>2. Hash(p, <<Seed>>) = ChainValue(a, 0)
  BY <1>1 DEF ChainValue
<1>3. Chain(SetType(a, "WOTS_HASH"), Hash(p, <<Seed>>), 0, s) = ChainValue(a, 0 + s)
  BY <1>2, ChainRight
<1>. QED
  BY <1>3 DEF WotsChain

-----------------------------------------------------------------------------
(***************************************************************************)
(* The stack of xmss_node and fors_node, without the values: slot s holds  *)
(* the node of height hs[s] and index c[s] in the subtree at hand.  The    *)
(* n leaves done so far are cut up into them, as the bits of n tell.       *)
(***************************************************************************)
Cut(n, p, hs, c) ==
  /\ hs \in [0 .. p -> Nat] /\ c \in [0 .. p -> Nat]
  /\ p >= 0 => c[0] = 0
  /\ \A s \in 1 .. p : (c[s - 1] + 1) * 2 ^ hs[s - 1] = c[s] * 2 ^ hs[s] /\ c[s - 1] % 2 = 0
  /\ n = IF p = -1 THEN 0 ELSE (c[p] + 1) * 2 ^ hs[p]

\* The slots up to q leave room for others above them.
Room(z, q, hs) ==
  /\ \A s \in 0 .. q : hs[s] + s < z
  /\ \A s \in 1 .. q : hs[s] < hs[s - 1]

\* At a leaf, and when the node in slot p may have to be merged.
LeafCut(z, n, p, hs, c) ==
  /\ Cut(n, p, hs, c) /\ Room(z, p, hs)
  /\ \A s \in 0 .. p : c[s] % 2 = 0

MergeCut(z, n, p, hs, c) ==
  /\ p >= 0 /\ Cut(n, p, hs, c) /\ Room(z, p - 1, hs)
  /\ hs[p] + p <= z
  /\ p > 0 => hs[p] <= hs[p - 1]

\* A leaf is put on the stack.
LEMMA CutLeaf ==
  ASSUME NEW z \in Nat, NEW n \in Nat, NEW p \in Nat \cup {-1}, NEW hs, NEW c,
         LeafCut(z, n, p, hs, c)
  PROVE  LET hs1 == [s \in 0 .. p + 1 |-> IF s \in 0 .. p THEN hs[s] ELSE 0]
             c1  == [s \in 0 .. p + 1 |-> IF s \in 0 .. p THEN c[s] ELSE n]
         IN  MergeCut(z, n + 1, p + 1, hs1, c1)
<1> DEFINE hs1 == [s \in 0 .. p + 1 |-> IF s \in 0 .. p THEN hs[s] ELSE 0]
           c1  == [s \in 0 .. p + 1 |-> IF s \in 0 .. p THEN c[s] ELSE n]
<1>1. hs \in [0 .. p -> Nat] /\ c \in [0 .. p -> Nat]
  BY DEF LeafCut, Cut
<1>2. /\ hs1 \in [0 .. p + 1 -> Nat] /\ c1 \in [0 .. p + 1 -> Nat]
      /\ \A s \in 0 .. p : hs1[s] = hs[s] /\ c1[s] = c[s]
      /\ hs1[p + 1] = 0 /\ c1[p + 1] = n
  BY <1>1
<1> HIDE DEF hs1, c1
<1>3. c1[0] = 0
  <2>1. CASE p = -1
    BY <2>1, <1>2 DEF LeafCut, Cut
  <2>2. CASE p # -1
    BY <2>2, <1>2 DEF LeafCut, Cut
  <2>. QED
    BY <2>1, <2>2
<1>4. ASSUME NEW s \in 1 .. p + 1
      PROVE  (c1[s - 1] + 1) * 2 ^ hs1[s - 1] = c1[s] * 2 ^ hs1[s] /\ c1[s - 1] % 2 = 0
  <2>1. CASE s = p + 1
    <3>1. p \in 0 .. p /\ c1[p] = c[p] /\ hs1[p] = hs[p] /\ s - 1 = p
      BY <2>1, <1>2
    <3>2. n = (c[p] + 1) * 2 ^ hs[p] /\ c[p] % 2 = 0
      BY <2>1, <3>1 DEF LeafCut, Cut
    <3>3. c1[s] * 2 ^ hs1[s] = n * 2 ^ 0 /\ n * 2 ^ 0 = n
      BY <2>1, <1>2, TwoZero
    <3>. QED
      BY <3>1, <3>2, <3>3, Zenon
  <2>2. CASE s \in 1 .. p
    <3>1. s \in 0 .. p /\ s - 1 \in 0 .. p
      BY <2>2
    <3>2. c1[s] = c[s] /\ c1[s - 1] = c[s - 1] /\ hs1[s] = hs[s] /\ hs1[s - 1] = hs[s - 1]
      BY <3>1, <1>2
    <3>3. (c[s - 1] + 1) * 2 ^ hs[s - 1] = c[s] * 2 ^ hs[s] /\ c[s - 1] % 2 = 0
      BY <2>2, Zenon DEF LeafCut, Cut
    <3>. QED
      BY <3>2, <3>3, Zenon
  <2>. QED
    BY <2>1, <2>2
<1>5. n + 1 = (c1[p + 1] + 1) * 2 ^ hs1[p + 1]
  BY <1>2, TwoZero
<1>6. Cut(n + 1, p + 1, hs1, c1)
  <2>1. p + 1 # -1
    OBVIOUS
  <2>. QED
    BY <1>2, <1>3, <1>4, <1>5, <2>1, Zenon DEF Cut
<1>7. Room(z, (p + 1) - 1, hs1)
  <2>1. (p + 1) - 1 = p /\ Room(z, p, hs) /\ \A s \in 1 .. p : s \in 0 .. p /\ s - 1 \in 0 .. p
    BY DEF LeafCut
  <2>2. Room(z, p, hs1)
    BY <2>1, <1>2 DEF Room
  <2>. QED
    BY <2>1, <2>2
<1>8. hs1[p + 1] + (p + 1) <= z /\ (p + 1 > 0 => hs1[p + 1] <= hs1[(p + 1) - 1])
  <2>1. CASE p = -1
    BY <2>1, <1>2
  <2>2. CASE p \in Nat
    BY <2>2, <1>1, <1>2, SMTT(60) DEF LeafCut, Room
  <2>. QED
    BY <2>1, <2>2
<1>9. p + 1 >= 0
  OBVIOUS
<1>. QED
  BY <1>6, <1>7, <1>8, <1>9, Zenon DEF MergeCut, hs1, c1

LEMMA CutPush ==
  ASSUME NEW z \in Nat, NEW n \in Nat, NEW p \in Nat \cup {-1}, NEW hs, NEW c,
         LeafCut(z, n, p, hs, c)
  PROVE  \E hs1, c1 : /\ MergeCut(z, n + 1, p + 1, hs1, c1)
                      /\ \A s \in 0 .. p : hs1[s] = hs[s] /\ c1[s] = c[s]
                      /\ hs1[p + 1] = 0 /\ c1[p + 1] = n
<1> DEFINE hs1 == [s \in 0 .. p + 1 |-> IF s \in 0 .. p THEN hs[s] ELSE 0]
           c1  == [s \in 0 .. p + 1 |-> IF s \in 0 .. p THEN c[s] ELSE n]
<1>1. MergeCut(z, n + 1, p + 1, hs1, c1)
  BY CutLeaf
<1>2. (\A s \in 0 .. p : hs1[s] = hs[s] /\ c1[s] = c[s]) /\ hs1[p + 1] = 0 /\ c1[p + 1] = n
  OBVIOUS
<1> HIDE DEF hs1, c1
<1>. QED
  BY <1>1, <1>2

LEMMA TwoGrows == \A m1, n \in Nat : m1 <= n => 2 ^ m1 <= 2 ^ n
<1> SUFFICES ASSUME NEW m1 \in Nat, NEW n \in Nat, m1 <= n PROVE 2 ^ m1 <= 2 ^ n
  OBVIOUS
<1>1. n - m1 \in Nat /\ n = m1 + (n - m1)
  OBVIOUS
<1>2. 2 ^ n = 2 ^ m1 * 2 ^ (n - m1)
  BY <1>1, TwoAdd, Zenon
<1>3. 2 ^ m1 \in Nat /\ 2 ^ (n - m1) \in Nat \ {0}
  BY <1>1, TwoPositive
<1> DEFINE b == 2 ^ m1
           d == 2 ^ (n - m1)
<1>4. b \in Nat /\ d \in Nat \ {0}
  BY <1>3
<1>5. 2 ^ n = b * d
  BY <1>2
<1> HIDE DEF b, d
<1>6. b <= b * d
  BY <1>4
<1>. QED
  BY <1>5, <1>6 DEF b

\* Between two powers lies an even factor.
LEMMA TwoApart ==
  ASSUME NEW g \in Nat, NEW k \in Nat, k < g, NEW v, v = 2 ^ k
  PROVE  \E u \in Nat \ {0} : 2 ^ g = (2 * u) * v
<1>1. (g - 1) - k \in Nat /\ g - 1 = k + ((g - 1) - k) /\ g - 1 \in Nat /\ g = (g - 1) + 1
  OBVIOUS
<1>2. 2 ^ g = 2 * 2 ^ (g - 1)
  BY <1>1, TwoNext, Zenon
<1>3. 2 ^ (g - 1) = 2 ^ k * 2 ^ ((g - 1) - k)
  BY <1>1, TwoAdd, Zenon
<1>4. PICK u \in Nat \ {0} : u = 2 ^ ((g - 1) - k)
  BY <1>1, TwoPositive
<1>5. v \in Nat
  BY TwoPositive
<1>6. 2 ^ g = 2 * (v * u)
  BY <1>2, <1>3, <1>4, <1>5
<1>7. 2 * (v * u) = (2 * u) * v
  BY <1>4, <1>5
<1>. QED
  BY <1>4, <1>5, <1>6, <1>7

\* Two nodes of the same height are merged exactly if the upper one is odd.
LEMMA CutOdd ==
  ASSUME NEW z \in Nat, NEW n \in Nat, NEW p \in Nat, NEW hs, NEW c,
         MergeCut(z, n, p, hs, c)
  PROVE  /\ p > 0 /\ c[p] % 2 = 1 => hs[p - 1] = hs[p] /\ c[p] = c[p - 1] + 1
         /\ p > 0 /\ c[p] % 2 = 0 => hs[p] < hs[p - 1]
         /\ c[p] % 2 = 1 => p > 0
<1>1. c[p] % 2 = 1 => p > 0
  BY DEF MergeCut, Cut
<1>2. ASSUME p > 0
      PROVE  /\ c[p] % 2 = 1 => hs[p - 1] = hs[p] /\ c[p] = c[p - 1] + 1
             /\ c[p] % 2 = 0 => hs[p] < hs[p - 1]
  <2>1. p \in 0 .. p /\ p - 1 \in 0 .. p /\ p \in 1 .. p
    BY <1>2
  <2>2. PICK g, k, b, d \in Nat : g = hs[p - 1] /\ k = hs[p] /\ b = c[p - 1] /\ d = c[p]
    BY <2>1 DEF MergeCut, Cut
  <2>3. (b + 1) * 2 ^ g = d * 2 ^ k /\ b % 2 = 0 /\ k <= g
    BY <2>1, <2>2, <1>2 DEF MergeCut, Cut
  <2>4. PICK v \in Nat \ {0} : v = 2 ^ k
    BY TwoPositive
  <2>5. ASSUME g = k PROVE d = b + 1
    <3>1. (b + 1) * v = d * v
      BY <2>3, <2>4, <2>5
    <3>. QED
      BY <3>1
  <2>6. ASSUME k < g PROVE d % 2 = 0
    <3>1. PICK u \in Nat \ {0} : 2 ^ g = (2 * u) * v
      BY <2>4, <2>6, TwoApart
    <3>2. (b + 1) * ((2 * u) * v) = d * v
      BY <2>3, <2>4, <3>1
    <3>3. (b + 1) * ((2 * u) * v) = (2 * ((b + 1) * u)) * v
      OBVIOUS
    <3>4. PICK w \in Nat : w = (b + 1) * u
      OBVIOUS
    <3>5. (2 * w) * v = d * v
      BY <3>2, <3>3, <3>4
    <3>6. d = 2 * w
      BY <3>5
    <3>. QED
      BY <3>6
  <2>7. (d % 2 = 1 => g = k /\ d = b + 1) /\ (d % 2 = 0 => k < g)
    <3>1. k < g \/ g = k
      BY <2>3
    <3>2. CASE k < g
      BY <2>6, <3>2
    <3>3. CASE g = k
      <4>1. d = b + 1 /\ b % 2 = 0
        BY <2>3, <2>5, <3>3
      <4>2. d % 2 = 1
        BY <4>1
      <4>. QED
        BY <3>3, <4>1, <4>2
    <3>. QED
      BY <3>1, <3>2, <3>3
  <2>. QED
    BY <2>2, <2>7, Zenon
<1>. QED
  BY <1>1, <1>2

\* Two nodes are merged.
LEMMA CutMerge ==
  ASSUME NEW z \in Nat, NEW n \in Nat, NEW p \in Nat, NEW hs, NEW c,
         MergeCut(z, n, p, hs, c), c[p] % 2 = 1, n <= 2 ^ z
  PROVE  LET hs1 == [s \in 0 .. p - 1 |-> IF s = p - 1 THEN hs[p] + 1 ELSE hs[s]]
             c1  == [s \in 0 .. p - 1 |-> IF s = p - 1 THEN (c[p] - 1) \div 2 ELSE c[s]]
         IN  MergeCut(z, n, p - 1, hs1, c1)
<1> DEFINE hs1 == [s \in 0 .. p - 1 |-> IF s = p - 1 THEN hs[p] + 1 ELSE hs[s]]
           c1  == [s \in 0 .. p - 1 |-> IF s = p - 1 THEN (c[p] - 1) \div 2 ELSE c[s]]
<1>1. p > 0 /\ hs[p - 1] = hs[p] /\ c[p] = c[p - 1] + 1
  BY CutOdd
<1>2. p \in 0 .. p /\ p - 1 \in 0 .. p /\ p - 1 \in Nat /\ p \in 1 .. p
  BY <1>1
<1>3. PICK k, d \in Nat : hs[p] = k /\ hs[p - 1] = k /\ c[p - 1] = 2 * d /\ c[p] = 2 * d + 1
  <2>1. hs[p] \in Nat /\ c[p] \in Nat /\ c[p - 1] \in Nat /\ c[p - 1] % 2 = 0
    BY <1>2 DEF MergeCut, Cut
  <2>2. PICK d \in Nat : c[p - 1] = 2 * d
    BY <2>1
  <2>. QED
    BY <1>1, <2>1, <2>2
<1>4. /\ hs1 \in [0 .. p - 1 -> Nat] /\ c1 \in [0 .. p - 1 -> Nat]
      /\ hs1[p - 1] = k + 1 /\ c1[p - 1] = d
      /\ \A s \in 0 .. p - 2 : hs1[s] = hs[s] /\ c1[s] = c[s]
  <2>1. (c[p] - 1) \div 2 = d
    BY <1>3
  <2>2. hs \in [0 .. p -> Nat] /\ c \in [0 .. p -> Nat]
    BY DEF MergeCut, Cut
  <2>. QED
    BY <1>2, <1>3, <2>1, <2>2
<1> HIDE DEF hs1, c1
<1>5. PICK v \in Nat \ {0} : v = 2 ^ k /\ 2 ^ (k + 1) = 2 * v
  BY TwoPositive, TwoNext
<1>6. c1[0] = 0
  <2>1. c[0] = 0
    BY DEF MergeCut, Cut
  <2>2. CASE p = 1
    BY <2>1, <2>2, <1>3, <1>4
  <2>3. CASE p # 1
    BY <2>1, <2>3, <1>2, <1>4
  <2>. QED
    BY <2>2, <2>3
<1>7. ASSUME NEW s \in 1 .. p - 1
      PROVE  (c1[s - 1] + 1) * 2 ^ hs1[s - 1] = c1[s] * 2 ^ hs1[s] /\ c1[s - 1] % 2 = 0
  <2>1. s \in 1 .. p /\ s - 1 \in 0 .. p - 2
    OBVIOUS
  <2>2. (c[s - 1] + 1) * 2 ^ hs[s - 1] = c[s] * 2 ^ hs[s] /\ c[s - 1] % 2 = 0
    BY <2>1, Zenon DEF MergeCut, Cut
  <2>3. c1[s - 1] = c[s - 1] /\ hs1[s - 1] = hs[s - 1]
    BY <2>1, <1>4
  <2>4. c1[s] * 2 ^ hs1[s] = c[s] * 2 ^ hs[s]
    <3>1. CASE s = p - 1
      <4>1. c1[s] * 2 ^ hs1[s] = d * (2 * v)
        BY <3>1, <1>4, <1>5
      <4>2. c[s] * 2 ^ hs[s] = (2 * d) * v
        BY <3>1, <1>3, <1>5
      <4>. QED
        BY <4>1, <4>2
    <3>2. CASE s \in 0 .. p - 2
      BY <3>2, <1>4, Zenon
    <3>. QED
      BY <3>1, <3>2
  <2>. QED
    BY <2>2, <2>3, <2>4, Zenon
<1>8. n = (c1[p - 1] + 1) * 2 ^ hs1[p - 1]
  <2>1. n = (2 * d + 1 + 1) * v
    <3>1. n = (c[p] + 1) * 2 ^ hs[p]
      BY <1>2 DEF MergeCut, Cut
    <3>. QED
      BY <3>1, <1>3, <1>5
  <2>2. (c1[p - 1] + 1) * 2 ^ hs1[p - 1] = (d + 1) * (2 * v)
    BY <1>4, <1>5
  <2>. QED
    BY <2>1, <2>2
<1>9. Cut(n, p - 1, hs1, c1)
  <2>1. p - 1 # -1
    BY <1>2
  <2>. QED
    BY <1>4, <1>6, <1>7, <1>8, <2>1, Zenon DEF Cut
<1>10. Room(z, (p - 1) - 1, hs1)
  <2>1. (p - 1) - 1 = p - 2 /\ Room(z, p - 1, hs)
    BY DEF MergeCut
  <2>2. \A s \in 0 .. p - 2 : s \in 0 .. p - 1 /\ (s # 0 => s - 1 \in 0 .. p - 2)
    OBVIOUS
  <2>3. \A s \in 0 .. p - 2 : hs1[s] + s < z
    BY <2>1, <2>2, <1>4 DEF Room
  <2>4. ASSUME NEW s \in 1 .. p - 2 PROVE hs1[s] < hs1[s - 1]
    <3>1. s \in 0 .. p - 2 /\ s - 1 \in 0 .. p - 2 /\ s \in 1 .. p - 1
      OBVIOUS
    <3>2. hs[s] < hs[s - 1]
      BY <2>1, <3>1 DEF Room
    <3>. QED
      BY <3>1, <3>2, <1>4
  <2>5. Room(z, p - 2, hs1)
    BY <2>3, <2>4 DEF Room
  <2>. QED
    BY <2>1, <2>5
<1>11. hs1[p - 1] + (p - 1) <= z
  BY <1>2, <1>3, <1>4 DEF MergeCut
<1>12. p - 1 > 0 => hs1[p - 1] <= hs1[(p - 1) - 1]
  <2>1. SUFFICES ASSUME p - 1 > 0 PROVE hs1[p - 1] <= hs1[(p - 1) - 1]
    OBVIOUS
  <2>2. (p - 1) - 1 = p - 2 /\ p - 2 \in 0 .. p - 2 /\ p - 1 \in 1 .. p - 1 /\ p - 2 \in 0 .. p
    BY <2>1
  <2>3. hs[p - 1] < hs[p - 2] /\ hs[p - 2] \in Nat
    BY <2>2 DEF MergeCut, Room, Cut
  <2>. QED
    BY <2>2, <2>3, <1>3, <1>4, SMTT(60)
<1>13. p - 1 >= 0
  BY <1>1
<1>. QED
  BY <1>9, <1>10, <1>11, <1>12, <1>13, Zenon DEF MergeCut, hs1, c1

\* Nothing is to be merged, and there are leaves left.
LEMMA CutNext ==
  ASSUME NEW z \in Nat, NEW n \in Nat, NEW p \in Nat, NEW hs, NEW c,
         MergeCut(z, n, p, hs, c), c[p] % 2 = 0, n < 2 ^ z
  PROVE  LeafCut(z, n, p, hs, c)
<1>1. hs[p] \in Nat /\ c[p] \in Nat /\ hs[p] + p <= z /\ Room(z, p - 1, hs)
  BY DEF MergeCut, Cut
<1>2. p > 0 => hs[p] < hs[p - 1]
  BY CutOdd
<1>3. hs[p] + p < z
  <2>1. CASE p > 0
    <3>1. p - 1 \in 0 .. p - 1 /\ hs[p - 1] \in Nat
      BY <2>1 DEF MergeCut, Cut
    <3>2. hs[p - 1] + (p - 1) < z
      BY <3>1, <1>1 DEF Room
    <3>. QED
      BY <3>1, <3>2, <2>1, <1>1, <1>2
  <2>2. CASE p = 0
    <3>1. n = 2 ^ hs[p]
      <4>1. c[p] = 0 /\ n = (c[p] + 1) * 2 ^ hs[p] /\ 2 ^ hs[p] \in Nat
        BY <2>2, <1>1, TwoPositive DEF MergeCut, Cut
      <4>. QED
        BY <4>1
    <3>2. hs[p] # z
      BY <3>1, TwoPositive
    <3>. QED
      BY <3>2, <2>2, <1>1
  <2>. QED
    BY <2>1, <2>2
<1>4. Room(z, p, hs)
  <2>1. \A s \in 0 .. p : s = p \/ s \in 0 .. p - 1
    OBVIOUS
  <2>2. \A s \in 1 .. p : s = p \/ s \in 1 .. p - 1
    OBVIOUS
  <2>. QED
    BY <2>1, <2>2, <1>1, <1>2, <1>3 DEF Room
<1>5. \A s \in 0 .. p : c[s] % 2 = 0
  <2>1. \A s \in 0 .. p : s = p \/ (s + 1 \in 1 .. p /\ (s + 1) - 1 = s)
    OBVIOUS
  <2>2. \A s \in 1 .. p : c[s - 1] % 2 = 0
    BY DEF MergeCut, Cut
  <2>. QED
    BY <2>1, <2>2
<1>. QED
  BY <1>4, <1>5 DEF LeafCut, MergeCut

\* Nothing is to be merged, and all leaves are done: one node is left.
LEMMA CutLast ==
  ASSUME NEW z \in Nat, NEW p \in Nat, NEW hs, NEW c,
         MergeCut(z, 2 ^ z, p, hs, c), c[p] % 2 = 0
  PROVE  p = 0 /\ hs[0] = z /\ c[0] = 0
<1>1. p \in 0 .. p /\ hs[p] \in Nat /\ c[p] \in Nat /\ hs[p] + p <= z
  BY DEF MergeCut, Cut
<1>2. PICK k, d \in Nat : k = hs[p] /\ c[p] = 2 * d
  BY <1>1
<1>3. PICK v \in Nat \ {0} : v = 2 ^ k
  BY TwoPositive
<1>4. 2 ^ z = (2 * d + 1) * v
  BY <1>2, <1>3 DEF MergeCut, Cut
<1>5. ~ (k < z)
  <2>1. SUFFICES ASSUME k < z PROVE FALSE
    OBVIOUS
  <2>2. PICK u \in Nat \ {0} : 2 ^ z = (2 * u) * v
    <3>1. z \in Nat /\ k \in Nat /\ k < z /\ v = 2 ^ k
      BY <2>1, <1>3
    <3>2. \E u \in Nat \ {0} : 2 ^ z = (2 * u) * v
      BY <3>1, TwoApart, ZenonT(60)
    <3>. QED
      BY <3>2
  <2>3. (2 * d + 1) * v = (2 * u) * v
    BY <1>4, <2>2
  <2>4. 2 * d + 1 = 2 * u
    BY <2>3
  <2>. QED
    BY <2>4
<1>6. p = 0 /\ k = z
  BY <1>1, <1>2, <1>5
<1>. QED
  BY <1>2, <1>6 DEF MergeCut, Cut

-----------------------------------------------------------------------------
\* The checksum's partial sums.
IsSum(f, v, s) == f = [n \in 0 .. s |-> IF n = 0 THEN 0 ELSE f[n - 1] + (W - 1 - v[n])]

LEMMA SumExists ==
  ASSUME NEW v
  PROVE  \A s \in Nat : \E f : IsSum(f, v, s)
<1> DEFINE S == {s \in Nat : \E f : IsSum(f, v, s)}
<1>1. 0 \in S
  <2>1. IsSum([n \in 0 .. 0 |-> 0], v, 0)
    BY DEF IsSum
  <2>. QED
    BY <2>1
<1>2. ASSUME NEW s \in Nat, s \in S PROVE s + 1 \in S
  <2>1. PICK f : IsSum(f, v, s)
    BY <1>2
  <2> DEFINE last == f[s] + (W - 1 - v[s + 1])
             g == [n \in 0 .. s + 1 |-> IF n \in 0 .. s THEN f[n] ELSE last]
  <2>2. ASSUME NEW n \in 0 .. s + 1
        PROVE  g[n] = IF n = 0 THEN 0 ELSE g[n - 1] + (W - 1 - v[n])
    <3>1. CASE n = 0
      <4>1. f[0] = 0
        BY <2>1 DEF IsSum
      <4>. QED
        BY <3>1, <4>1
    <3>2. CASE n = s + 1
      <4>1. g[s] = f[s] /\ g[s + 1] = last /\ n - 1 = s /\ n # 0
        BY <3>2
      <4> HIDE DEF g
      <4>. QED
        BY <3>2, <4>1, Zenon
    <3>3. CASE n \in 0 .. s /\ n # 0
      <4>1. n - 1 \in 0 .. s /\ n \in 0 .. s
        BY <3>3
      <4>2. f[n] = f[n - 1] + (W - 1 - v[n])
        BY <2>1, <3>3 DEF IsSum
      <4>3. g[n] = f[n] /\ g[n - 1] = f[n - 1]
        BY <4>1
      <4> HIDE DEF g
      <4>. QED
        BY <3>3, <4>2, <4>3, Zenon
    <3>. QED
      BY <3>1, <3>2, <3>3
  <2>3. g = [n \in 0 .. s + 1 |-> g[n]]
    OBVIOUS
  <2> HIDE DEF g
  <2>4. IsSum(g, v, s + 1)
    BY <2>2, <2>3, Zenon DEF IsSum
  <2>. QED
    BY <2>4
<1> HIDE DEF S
<1>3. Nat \subseteq S
  BY <1>1, <1>2, SetInduction
<1>. QED
  BY <1>3 DEF S

LEMMA DigitSizes == /\ W \in Nat /\ W >= 2 /\ Len12 = Len1 + Len2
                    /\ Len1 \in Nat \ {0} /\ Len2 \in Nat \ {0}
  BY HashSizesAssumption DEF Len12

Digits == [1 .. Len1 -> 0 .. W - 1]

LEMMA ChecksumSum ==
  ASSUME NEW v
  PROVE  \E f : /\ f[0] = 0 /\ \A n \in 1 .. Len1 : f[n] = f[n - 1] + (W - 1 - v[n])
                /\ Checksum(v) = f[Len1]
<1> DEFINE f == CHOOSE f : IsSum(f, v, Len1)
<1>1. Checksum(v) = f[Len1]
  BY DEF Checksum, IsSum
<1>2. IsSum(f, v, Len1)
  BY HashSizesAssumption, SumExists
<1> HIDE DEF f
<1>3. f[0] = 0
  BY <1>2, HashSizesAssumption DEF IsSum
<1>4. \A n \in 1 .. Len1 : f[n] = f[n - 1] + (W - 1 - v[n])
  <2> TAKE n \in 1 .. Len1
  <2>1. n \in 0 .. Len1 /\ n # 0
    BY HashSizesAssumption
  <2>. QED
    BY <1>2, <2>1, Zenon DEF IsSum
<1>. QED
  BY <1>1, <1>3, <1>4

LEMMA ChecksumBound ==
  ASSUME NEW v \in Digits
  PROVE  Checksum(v) \in 0 .. Len1 * (W - 1)
<1>1. PICK f : /\ f[0] = 0 /\ \A n \in 1 .. Len1 : f[n] = f[n - 1] + (W - 1 - v[n])
               /\ Checksum(v) = f[Len1]
  BY ChecksumSum
<1> DEFINE S == {n \in Nat : n <= Len1 => f[n] \in 0 .. n * (W - 1)}
<1>2. 0 \in S
  BY <1>1, HashSizesAssumption
<1>3. ASSUME NEW n \in Nat, n \in S PROVE n + 1 \in S
  <2>1. SUFFICES ASSUME n + 1 <= Len1 PROVE f[n + 1] \in 0 .. (n + 1) * (W - 1)
    OBVIOUS
  <2>2. n + 1 \in 1 .. Len1 /\ (n + 1) - 1 = n /\ f[n] \in 0 .. n * (W - 1)
    BY <2>1, <1>3, HashSizesAssumption
  <2>3. f[n + 1] = f[n] + (W - 1 - v[n + 1]) /\ v[n + 1] \in 0 .. W - 1
    BY <2>2, <1>1 DEF Digits
  <2>. QED
    BY <2>2, <2>3, HashSizesAssumption
<1> HIDE DEF S
<1>4. Nat \subseteq S
  BY <1>2, <1>3, SetInduction
<1>. QED
  BY <1>1, <1>4, HashSizesAssumption DEF S

\* If no digit is less and one is more, the checksum is less.
LEMMA ChecksumLess ==
  ASSUME NEW v \in Digits, NEW w \in Digits, v # w, \A n \in 1 .. Len1 : v[n] >= w[n]
  PROVE  Checksum(v) < Checksum(w)
<1>1. PICK f : /\ f[0] = 0 /\ \A n \in 1 .. Len1 : f[n] = f[n - 1] + (W - 1 - v[n])
               /\ Checksum(v) = f[Len1]
  BY ChecksumSum
<1>2. PICK g : /\ g[0] = 0 /\ \A n \in 1 .. Len1 : g[n] = g[n - 1] + (W - 1 - w[n])
               /\ Checksum(w) = g[Len1]
  BY ChecksumSum
<1>3. PICK r \in 1 .. Len1 : v[r] # w[r]
  <2>1. v = [n \in 1 .. Len1 |-> v[n]] /\ w = [n \in 1 .. Len1 |-> w[n]]
    BY DEF Digits
  <2>2. SUFFICES ASSUME \A n \in 1 .. Len1 : v[n] = w[n] PROVE FALSE
    OBVIOUS
  <2>. QED
    BY <2>1, <2>2, Zenon
<1> DEFINE Good(n) == f[n] \in Int /\ g[n] \in Int /\ f[n] <= g[n] /\ (r <= n => f[n] < g[n])
           S == {n \in Nat : n <= Len1 => Good(n)}
<1>4. Good(0)
  BY <1>1, <1>2, <1>3
<1>5. ASSUME NEW n \in Nat, n + 1 <= Len1, Good(n) PROVE Good(n + 1)
  <2>1. n + 1 \in 1 .. Len1 /\ (n + 1) - 1 = n
    BY <1>5, DigitSizes
  <2>2. f[n + 1] = f[n] + (W - 1 - v[n + 1]) /\ g[n + 1] = g[n] + (W - 1 - w[n + 1])
    BY <2>1, <1>1, <1>2
  <2>3. v[n + 1] \in 0 .. W - 1 /\ w[n + 1] \in 0 .. W - 1 /\ v[n + 1] >= w[n + 1]
        /\ (r = n + 1 => v[n + 1] # w[n + 1])
    BY <2>1, <1>3 DEF Digits
  <2>4. PICK fn, gn, x, y \in Int : fn = f[n] /\ gn = g[n] /\ x = v[n + 1] /\ y = w[n + 1]
    BY <1>5, <2>3, DigitSizes
  <2>5. fn <= gn /\ (r <= n => fn < gn) /\ x >= y /\ (r = n + 1 => x # y)
    BY <1>5, <2>3, <2>4
  <2>6. f[n + 1] = fn + (W - 1 - x) /\ g[n + 1] = gn + (W - 1 - y)
    BY <2>2, <2>4
  <2>. QED
    BY <1>3, <2>5, <2>6, DigitSizes
<1> HIDE DEF Good
<1>6. 0 \in S
  BY <1>4
<1>7. ASSUME NEW n \in Nat, n \in S PROVE n + 1 \in S
  BY <1>5, <1>7, DigitSizes
<1> HIDE DEF S
<1>8. Nat \subseteq S
  BY <1>6, <1>7, SetInduction
<1>9. Good(Len1)
  BY <1>8, DigitSizes DEF S
<1>. QED
  BY <1>1, <1>2, <1>3, <1>9, DigitSizes DEF Good

\* Of a quotient and a remainder, both come back.
LEMMA Divided ==
  ASSUME NEW q \in Nat, NEW d \in Nat \ {0}, NEW r \in 0 .. d - 1
  PROVE  (q * d + r) \div d = q /\ (q * d + r) % d = r
OBVIOUS

LEMMA DivideOnce ==
  ASSUME NEW n \in Nat, NEW d \in Nat \ {0}
  PROVE  \E q \in Nat, r \in 0 .. d - 1 : n = q * d + r /\ n \div d = q /\ n % d = r
<1>1. n \div d \in Nat /\ n % d \in 0 .. d - 1 /\ n = (n \div d) * d + (n % d)
  OBVIOUS
<1>. QED
  BY <1>1

LEMMA DivideTwice ==
  ASSUME NEW n \in Nat, NEW d \in Nat \ {0}, NEW e \in Nat \ {0}
  PROVE  (n \div d) \div e = n \div (d * e)
<1>1. PICK q \in Nat, r \in 0 .. d - 1 : n = q * d + r /\ n \div d = q
  BY DivideOnce
<1>2. PICK u \in Nat, v \in 0 .. e - 1 : q = u * e + v /\ q \div e = u
  BY DivideOnce
<1>3. n = (u * e + v) * d + r
  BY <1>1, <1>2
<1>4. (u * e + v) * d + r = u * (d * e) + (v * d + r)
  OBVIOUS
<1>5. v * d <= (e - 1) * d /\ v * d >= 0
  OBVIOUS
<1>6. (e - 1) * d = d * e - d
  OBVIOUS
<1>7. PICK vd, de \in Int : vd = v * d /\ de = d * e
  OBVIOUS
<1>8. vd + r \in 0 .. de - 1 /\ de \in Nat \ {0}
  BY <1>5, <1>6, <1>7
<1>9. (u * de + (vd + r)) \div de = u
  BY <1>8, Divided
<1>10. n = u * de + (vd + r)
  BY <1>3, <1>4, <1>7
<1>. QED
  BY <1>1, <1>2, <1>7, <1>9, <1>10

IsPower(f, s) == f = [n \in 0 .. s |-> IF n = 0 THEN 1 ELSE W * f[n - 1]]

LEMMA PowerExists == \A s \in Nat : \E f : IsPower(f, s)
<1> DEFINE S == {s \in Nat : \E f : IsPower(f, s)}
<1>1. 0 \in S
  <2>1. IsPower([n \in 0 .. 0 |-> 1], 0)
    BY DEF IsPower
  <2>. QED
    BY <2>1
<1>2. ASSUME NEW s \in Nat, s \in S PROVE s + 1 \in S
  <2>1. PICK f : IsPower(f, s)
    BY <1>2
  <2> DEFINE last == W * f[s]
             g == [n \in 0 .. s + 1 |-> IF n \in 0 .. s THEN f[n] ELSE last]
  <2>2. ASSUME NEW n \in 0 .. s + 1 PROVE g[n] = IF n = 0 THEN 1 ELSE W * g[n - 1]
    <3>1. CASE n = 0
      <4>1. f[0] = 1
        BY <2>1 DEF IsPower
      <4>. QED
        BY <3>1, <4>1
    <3>2. CASE n = s + 1
      <4>1. g[s] = f[s] /\ g[s + 1] = last /\ n - 1 = s /\ n # 0
        BY <3>2
      <4> HIDE DEF g
      <4>. QED
        BY <3>2, <4>1, Zenon
    <3>3. CASE n \in 0 .. s /\ n # 0
      <4>1. n - 1 \in 0 .. s /\ n \in 0 .. s
        BY <3>3
      <4>2. f[n] = W * f[n - 1]
        BY <2>1, <3>3 DEF IsPower
      <4>3. g[n] = f[n] /\ g[n - 1] = f[n - 1]
        BY <4>1
      <4> HIDE DEF g
      <4>. QED
        BY <3>3, <4>2, <4>3, Zenon
    <3>. QED
      BY <3>1, <3>2, <3>3
  <2>3. g = [n \in 0 .. s + 1 |-> g[n]]
    OBVIOUS
  <2> HIDE DEF g
  <2>4. IsPower(g, s + 1)
    BY <2>2, <2>3, Zenon DEF IsPower
  <2>. QED
    BY <2>4
<1> HIDE DEF S
<1>3. Nat \subseteq S
  BY <1>1, <1>2, SetInduction
<1>. QED
  BY <1>3 DEF S

LEMMA PowerUnique ==
  ASSUME NEW s \in Nat, NEW f, NEW g, IsPower(f, s), IsPower(g, s + 1)
  PROVE  f[s] = g[s]
<1> DEFINE S == {n \in Nat : n <= s => f[n] = g[n]}
<1>1. 0 \in S
  BY DEF IsPower
<1>2. ASSUME NEW n \in Nat, n \in S PROVE n + 1 \in S
  <2>1. SUFFICES ASSUME n + 1 <= s PROVE f[n + 1] = g[n + 1]
    OBVIOUS
  <2>2. n + 1 \in 0 .. s /\ n + 1 \in 0 .. s + 1 /\ n + 1 # 0 /\ (n + 1) - 1 = n /\ f[n] = g[n]
    BY <2>1, <1>2
  <2>3. f[n + 1] = W * f[(n + 1) - 1]
    BY <2>2, Zenon DEF IsPower
  <2>4. g[n + 1] = W * g[(n + 1) - 1]
    BY <2>2, Zenon DEF IsPower
  <2>. QED
    BY <2>2, <2>3, <2>4, Zenon
<1> HIDE DEF S
<1>3. Nat \subseteq S
  BY <1>1, <1>2, SetInduction
<1>. QED
  BY <1>3 DEF S

LEMMA PowerSteps ==
  Power[0] = 1 /\ \A n \in Nat : Power[n + 1] = W * Power[n]
<1> DEFINE pw(s) == CHOOSE f : IsPower(f, s)
           all == [n \in Nat |-> pw(n)[n]]
<1>1. \A s \in Nat : IsPower(pw(s), s)
  BY PowerExists
<1> HIDE DEF pw
<1>2. all[0] = 1
  BY <1>1 DEF IsPower
<1>3. ASSUME NEW n \in Nat PROVE all[n + 1] = W * all[n]
  <2>1. IsPower(pw(n), n) /\ IsPower(pw(n + 1), n + 1)
    BY <1>1
  <2>2. n + 1 \in 0 .. n + 1 /\ n + 1 # 0 /\ (n + 1) - 1 = n
    OBVIOUS
  <2>3. pw(n + 1)[n + 1] = W * pw(n + 1)[(n + 1) - 1]
    BY <2>1, <2>2, Zenon DEF IsPower
  <2>4. pw(n)[n] = pw(n + 1)[n]
    BY <2>1, PowerUnique
  <2>. QED
    BY <2>2, <2>3, <2>4
<1>4. all = [n \in Nat |-> IF n = 0 THEN 1 ELSE W * all[n - 1]]
  <2>1. ASSUME NEW n \in Nat PROVE all[n] = IF n = 0 THEN 1 ELSE W * all[n - 1]
    <3>1. CASE n = 0
      BY <3>1, <1>2
    <3>2. CASE n # 0
      <4>1. n - 1 \in Nat /\ (n - 1) + 1 = n
        BY <3>2
      <4>2. all[(n - 1) + 1] = W * all[n - 1]
        BY <4>1, <1>3
      <4> HIDE DEF all
      <4>. QED
        BY <3>2, <4>1, <4>2
    <3>. QED
      BY <3>1, <3>2
  <2>2. all = [n \in Nat |-> all[n]]
    OBVIOUS
  <2> HIDE DEF all
  <2>. QED
    BY <2>1, <2>2, Zenon
<1> HIDE DEF all
<1>5. Power = [n \in Nat |-> IF n = 0 THEN 1 ELSE W * Power[n - 1]]
  BY <1>4 DEF Power
<1>6. Power[0] = 1
  BY <1>5
<1>7. ASSUME NEW n \in Nat PROVE Power[n + 1] = W * Power[n]
  <2>1. n + 1 \in Nat /\ n + 1 # 0 /\ (n + 1) - 1 = n
    OBVIOUS
  <2>2. Power[n + 1] = W * Power[(n + 1) - 1]
    BY <1>5, <2>1, Zenon
  <2>. QED
    BY <2>1, <2>2
<1>. QED
  BY <1>6, <1>7

LEMMA PowerPositive == \A n \in Nat : Power[n] \in Nat \ {0}
<1> DEFINE S == {n \in Nat : Power[n] \in Nat \ {0}}
<1>1. 0 \in S
  BY PowerSteps
<1>2. ASSUME NEW n \in Nat, n \in S PROVE n + 1 \in S
  <2>1. PICK x \in Nat \ {0} : Power[n] = x /\ Power[n + 1] = W * x
    BY <1>2, PowerSteps
  <2>2. W * x \in Nat \ {0}
    BY DigitSizes
  <2>. QED
    BY <2>1, <2>2
<1> HIDE DEF S
<1>3. Nat \subseteq S
  BY <1>1, <1>2, SetInduction
<1>. QED
  BY <1>3 DEF S

\* A number with no digit less than another's is not less.
LEMMA DigitsOrder ==
  \A n \in Nat : \A x, y \in 0 .. Power[n] - 1 :
    (\A c \in 0 .. n - 1 : (x \div Power[c]) % W >= (y \div Power[c]) % W) => x >= y
<1> DEFINE S == {n \in Nat : \A x, y \in 0 .. Power[n] - 1 :
                   (\A c \in 0 .. n - 1 : (x \div Power[c]) % W >= (y \div Power[c]) % W) => x >= y}
<1>1. 0 \in S
  <2>1. 0 .. Power[0] - 1 = {0}
    BY PowerSteps
  <2>. QED
    BY <2>1
<1>2. ASSUME NEW n \in Nat, n \in S PROVE n + 1 \in S
  <2>1. SUFFICES ASSUME NEW x \in 0 .. Power[n + 1] - 1, NEW y \in 0 .. Power[n + 1] - 1,
                        \A c \in 0 .. n : (x \div Power[c]) % W >= (y \div Power[c]) % W
                 PROVE  x >= y
    OBVIOUS
  <2>2. PICK b \in Nat \ {0} : b = Power[n] /\ Power[n + 1] = W * b
    BY PowerPositive, PowerSteps
  <2>3. W \in Nat \ {0} /\ x \in Nat /\ y \in Nat /\ x < W * b /\ y < W * b
    BY <2>2, DigitSizes, PowerPositive
  <2>4. PICK q \in Nat, r \in 0 .. W - 1 : x = q * W + r /\ x \div W = q /\ x % W = r
    BY <2>3, DivideOnce
  <2>5. PICK u \in Nat, v \in 0 .. W - 1 : y = u * W + v /\ y \div W = u /\ y % W = v
    BY <2>3, DivideOnce
  <2>6. r >= v
    <3>1. (x \div Power[0]) % W >= (y \div Power[0]) % W
      BY <2>1
    <3>2. x \div 1 = x /\ y \div 1 = y
      BY <2>3
    <3>. QED
      BY <2>4, <2>5, <3>1, <3>2, PowerSteps
  <2>7. q < b /\ u < b
    <3>1. W * q <= x /\ W * u <= y
      BY <2>3, <2>4, <2>5
    <3>. QED
      BY <2>3, <3>1
  <2>8. ASSUME NEW c \in 0 .. n - 1 PROVE (q \div Power[c]) % W >= (u \div Power[c]) % W
    <3>1. Power[c] \in Nat \ {0} /\ Power[c + 1] = W * Power[c] /\ c + 1 \in 0 .. n
      BY PowerPositive, PowerSteps
    <3>2. (x \div W) \div Power[c] = x \div (W * Power[c]) /\ (y \div W) \div Power[c] = y \div (W * Power[c])
      BY <2>3, <3>1, DivideTwice
    <3>3. (x \div Power[c + 1]) % W >= (y \div Power[c + 1]) % W
      BY <2>1, <3>1
    <3>. QED
      BY <2>4, <2>5, <3>1, <3>2, <3>3
  <2>9. q >= u
    <3>1. q \in 0 .. Power[n] - 1 /\ u \in 0 .. Power[n] - 1
      BY <2>2, <2>7
    <3>. QED
      BY <3>1, <2>8, <1>2
  <2>10. q * W >= u * W
    BY <2>9, <2>3
  <2>. QED
    BY <2>4, <2>5, <2>6, <2>10, <2>3
<1> HIDE DEF S
<1>3. Nat \subseteq S
  BY <1>1, <1>2, SetInduction
<1>. QED
  BY <1>3 DEF S

LEMMA CsumDigits ==
  ASSUME NEW v \in Digits
  PROVE  /\ \A c \in 1 .. Len1 : WotsCsum(v)[c] = v[c]
         /\ \A c \in 1 .. Len2 : WotsCsum(v)[Len1 + c] = (Checksum(v) \div Power[Len2 - c]) % W
         /\ \A c \in 1 .. Len12 : WotsCsum(v)[c] \in 0 .. W - 1
<1> DEFINE tail == [c \in 1 .. Len2 |-> (Checksum(v) \div Power[Len2 - c]) % W]
<1>1. \A c \in 1 .. Len2 : tail[c] \in 0 .. W - 1
  <2> TAKE c \in 1 .. Len2
  <2>1. Len2 - c \in Nat /\ Checksum(v) \in Nat
    BY ChecksumBound, DigitSizes
  <2>2. Power[Len2 - c] \in Nat \ {0}
    BY <2>1, PowerPositive
  <2>3. Checksum(v) \div Power[Len2 - c] \in Nat
    BY <2>1, <2>2
  <2> HIDE DEF tail
  <2>4. (Checksum(v) \div Power[Len2 - c]) % W \in 0 .. W - 1
    BY <2>3, DigitSizes
  <2>. QED
    BY <2>4 DEF tail
<1>2. tail = [c \in 1 .. Len2 |-> tail[c]] /\ \A c \in 1 .. Len2 : tail[c] = (Checksum(v) \div Power[Len2 - c]) % W
  OBVIOUS
<1>3. WotsCsum(v) = v \o tail
  BY DEF WotsCsum
<1> HIDE DEF tail
<1>4. tail \in [1 .. Len2 -> 0 .. W - 1] /\ v \in [1 .. Len1 -> 0 .. W - 1]
  BY <1>1, <1>2 DEF Digits
<1>5. /\ v \in Seq(0 .. W - 1) /\ tail \in Seq(0 .. W - 1)
      /\ Len(v) = Len1 /\ Len(tail) = Len2
  BY <1>4, DigitSizes
<1>6. /\ \A c \in 1 .. Len1 : (v \o tail)[c] = v[c]
      /\ \A c \in 1 .. Len2 : (v \o tail)[Len1 + c] = tail[c]
  BY <1>5, DigitSizes, SMTT(60)
<1>7. ASSUME NEW c \in 1 .. Len12 PROVE (v \o tail)[c] \in 0 .. W - 1
  <2>1. CASE c \in 1 .. Len1
    BY <2>1, <1>4, <1>6
  <2>2. CASE c \notin 1 .. Len1
    <3>1. c - Len1 \in 1 .. Len2 /\ Len1 + (c - Len1) = c
      BY <2>2, DigitSizes
    <3>2. (v \o tail)[Len1 + (c - Len1)] = tail[c - Len1]
      BY <3>1, <1>6
    <3>. QED
      BY <3>1, <3>2, <1>1
  <2>. QED
    BY <2>1, <2>2
<1>. QED
  BY <1>2, <1>3, <1>6, <1>7

\* Of two values with different digits, each has a chain shorter than the other's.
LEMMA ShorterChain ==
  ASSUME NEW v \in Digits, NEW w \in Digits, v # w
  PROVE  \E c \in 1 .. Len12 : WotsCsum(v)[c] < WotsCsum(w)[c]
<1> SUFFICES ASSUME \A c \in 1 .. Len12 : ~ (WotsCsum(v)[c] < WotsCsum(w)[c]) PROVE FALSE
  OBVIOUS
<1>1. \A c \in 1 .. Len12 : WotsCsum(v)[c] >= WotsCsum(w)[c]
  <2> TAKE c \in 1 .. Len12
  <2>1. WotsCsum(v)[c] \in Int /\ WotsCsum(w)[c] \in Int
    BY CsumDigits, DigitSizes
  <2>. QED
    BY <2>1
<1>2. ASSUME NEW c \in 1 .. Len1 PROVE v[c] >= w[c]
  <2>1. c \in 1 .. Len12
    BY DigitSizes
  <2>. QED
    BY <2>1, <1>1, CsumDigits
<1>3. Checksum(v) < Checksum(w)
  BY <1>2, ChecksumLess
<1>4. Checksum(v) \in 0 .. Power[Len2] - 1 /\ Checksum(w) \in 0 .. Power[Len2] - 1
  <2>1. PICK x, y, b, e \in Nat : x = Checksum(v) /\ y = Checksum(w) /\ b = Power[Len2] /\ e = Len1 * (W - 1)
    BY ChecksumBound, PowerPositive, DigitSizes
  <2>2. x <= e /\ y <= e /\ e < b
    BY <2>1, ChecksumBound, HashSizesAssumption
  <2>. QED
    BY <2>1, <2>2
<1>5. ASSUME NEW c \in 0 .. Len2 - 1
      PROVE  (Checksum(v) \div Power[c]) % W >= (Checksum(w) \div Power[c]) % W
  <2>1. Len2 - c \in 1 .. Len2 /\ Len2 - (Len2 - c) = c /\ Len1 + (Len2 - c) \in 1 .. Len12
    BY DigitSizes
  <2>2. WotsCsum(v)[Len1 + (Len2 - c)] >= WotsCsum(w)[Len1 + (Len2 - c)]
    BY <2>1, <1>1
  <2>3. /\ WotsCsum(v)[Len1 + (Len2 - c)] = (Checksum(v) \div Power[Len2 - (Len2 - c)]) % W
        /\ WotsCsum(w)[Len1 + (Len2 - c)] = (Checksum(w) \div Power[Len2 - (Len2 - c)]) % W
    BY <2>1, CsumDigits
  <2>. QED
    BY <2>1, <2>2, <2>3
<1>6. Checksum(v) >= Checksum(w)
  BY <1>4, <1>5, DigitsOrder, DigitSizes
<1>. QED
  BY <1>3, <1>6, ChecksumBound, DigitSizes

-----------------------------------------------------------------------------
(***************************************************************************)
(* What the values should be.                                              *)
(***************************************************************************)

\* The node of height k and index x of the tree tr in layer l.
XNode(l, tr, k, x) ==
  Value([layer |-> l, tree |-> tr, type |-> IF k = 0 THEN "WOTS_PK" ELSE "TREE",
         kp |-> IF k = 0 THEN x ELSE 0, w6 |-> k, w7 |-> IF k = 0 THEN 0 ELSE x])

\* The node of height k and index x of the FORS trees.
FAdrs(d, y, k, x) ==
  [layer |-> 0, tree |-> d.tree, type |-> y, kp |-> d.leaf, w6 |-> k, w7 |-> x]
FNode(d, k, x) == Value(FAdrs(d, "FORS_TREE", k, x))

\* Where the signature of d goes through layer l.
TreeAt(d, l) == Shift(d.tree, HP * l)
LeafAt(d, l) == IF l = 0 THEN d.leaf ELSE Shift(d.tree, HP * (l - 1)) % 2 ^ HP

\* What the key pair lf of the tree tr in layer l signs: the FORS trees that
\* belong to it, or the root of the tree below it.
Signs(l, tr, lf) ==
  IF l = 0
  THEN Value([layer |-> 0, tree |-> tr, type |-> "FORS_ROOTS", kp |-> lf, w6 |-> 0, w7 |-> 0])
  ELSE XNode(l - 1, tr * 2 ^ HP + lf, HP, 0)
SignsAt(d, l) == Signs(l, TreeAt(d, l), LeafAt(d, l))

\* The values in the signature of d.
Leaf(d, x) == x * 2 ^ A + d.md[x]
ForsPart(d, x, s) ==
  IF s = 0 THEN Value(FAdrs(d, "FORS_PRF", 0, Leaf(d, x)))
  ELSE FNode(d, s - 1, x * 2 ^ (A - (s - 1)) + Sibling(Shift(d.md[x], s - 1)))
AuthPart(d, l, s) == XNode(l, TreeAt(d, l), s, Sibling(Shift(LeafAt(d, l), s)))
WotsAdrs(l, tr, lf, c) ==
  [layer |-> l, tree |-> tr, type |-> "WOTS_HASH", kp |-> lf, w6 |-> c - 1, w7 |-> 0]
WotsPart(d, l, c, v) == ChainValue(WotsAdrs(l, TreeAt(d, l), LeafAt(d, l), c), WotsCsum(v)[c])

-----------------------------------------------------------------------------
ForsTreePcs == {"fleaf", "fmerge", "fdone"}
XmssPcs == {"xleaf", "xmerge", "xdone"}
ForsPcs == ForsTreePcs \cup {"forssk", "forsauth", "forspk", "forsclimb"}
LayerPcs == XmssPcs \cup {"auth", "wotspk", "climb"}

NodeType ==
  /\ DOMAIN nd = {"i", "z", "j", "k", "p", "h"}
  /\ nd.i \in Nat /\ nd.z \in 0 .. Deepest /\ nd.j \in Nat /\ nd.k \in Nat /\ nd.p \in Nat \cup {-1}
  /\ DOMAIN nd.h = 0 .. Deepest

TypeInv ==
  /\ op \in {"none", "keygen", "sign", "verify"}
  /\ pc \in {"start", "ready"} \cup ForsPcs \cup LayerPcs
  /\ adrs \in Adrs
  /\ dg \in Digests /\ tree \in Nat /\ leaf \in Nat
  /\ layer \in 0 .. D - 1 /\ i \in 0 .. K /\ t \in Nat
  /\ NodeType
  /\ calls \in 0 .. MaxCalls

\* Which loop runs for whom, and its bounds.
FlowInv ==
  /\ pc = "start" => tree = 0
  /\ pc \in ForsTreePcs \cup {"forssk", "forsauth"} => op = "sign" /\ i < K
  /\ pc \in ForsTreePcs => t < A
  /\ pc = "forsauth" => t <= A
  /\ pc \in {"forspk", "forsclimb", "wotspk", "climb"} => op \in {"sign", "verify"}
  /\ pc = "forsclimb" => i < K /\ t <= A
  /\ pc \in XmssPcs => \/ op = "keygen" /\ layer = D - 1 /\ tree = 0
                       \/ op = "sign" /\ t < HP
  /\ pc = "auth" => op = "sign" /\ t <= HP
  /\ pc = "climb" => t <= HP

\* What of the ADRS is right whoever changed it last.
AdrsInv ==
  /\ pc \in LayerPcs => adrs.layer = layer /\ adrs.tree = tree
  /\ pc \in ForsPcs => /\ adrs.layer = 0 /\ adrs.tree = dg.tree /\ adrs.kp = dg.leaf
                       /\ tree = dg.tree /\ leaf = dg.leaf
  /\ pc \in {"fmerge", "fdone", "forspk", "forsclimb"} => adrs.type = "FORS_TREE"
  /\ pc = "forsauth" /\ t > 0 => adrs.type = "FORS_TREE"
  /\ pc = "climb" => adrs.type = "TREE" /\ adrs.kp = 0

\* The node that is asked for.
Called == IF pc \in ForsTreePcs THEN i * 2 ^ (A - t) + Sibling(Shift(dg.md[i], t))
          ELSE IF op = "keygen" THEN 0 ELSE Sibling(Shift(leaf, t))
Height == IF op = "keygen" THEN HP ELSE t
NodeAt(k, x) == IF pc \in ForsTreePcs THEN FNode(dg, k, x) ELSE XNode(layer, tree, k, x)

\* Slot s holds the node of height hs[s] and of index c[s] below the node at hand.
Holds(hs, c) ==
  \A s \in 0 .. nd.p : nd.h[s] = NodeAt(hs[s], Called * 2 ^ (nd.z - hs[s]) + c[s])

NodeInv ==
  /\ pc \in ForsTreePcs \cup XmssPcs => nd.z = Height /\ nd.i = Called * 2 ^ nd.z + nd.j
  /\ pc \in {"fleaf", "xleaf"} =>
       nd.j < 2 ^ nd.z /\ \E hs, c : LeafCut(nd.z, nd.j, nd.p, hs, c) /\ Holds(hs, c)
  /\ pc \in {"fmerge", "xmerge"} =>
       nd.j < 2 ^ nd.z /\ \E hs, c : /\ MergeCut(nd.z, nd.j + 1, nd.p, hs, c) /\ Holds(hs, c)
                                     /\ nd.k = hs[nd.p]
  /\ pc \in {"fdone", "xdone"} => nd.j = 2 ^ nd.z /\ nd.h[0] = NodeAt(nd.z, Called)

\* How often the call may still ask for digits.
Left ==
  IF pc \in ForsPcs THEN D
  ELSE IF pc = "climb" \/ (pc = "wotspk" /\ op = "sign") THEN D - 1 - layer
  ELSE IF pc \in LayerPcs /\ op # "keygen" THEN D - layer
  ELSE 0

DigitsInv ==
  /\ digits \in [DOMAIN digits -> Digits]
  /\ \A x, y \in DOMAIN digits : x # y => digits[x] # digits[y]
  /\ deal \in Seq(Digits) /\ Len(deal) >= D * (MaxCalls - calls) + Left
  /\ \A x \in DOMAIN digits, n \in 1 .. Len(deal) : digits[x] # deal[n]
  /\ \A x, y \in 1 .. Len(deal) : x # y => deal[x] # deal[y]
  /\ pc = "wotspk" /\ op = "sign" => m \in DOMAIN digits

-----------------------------------------------------------------------------
(***************************************************************************)
(* Types and the flow of control.                                          *)
(***************************************************************************)
LEMMA Sizes ==
  /\ A \in Nat \ {0} /\ K \in Nat \ {0} /\ HP \in Nat \ {0} /\ D \in Nat \ {0} /\ MaxCalls \in Nat
  /\ Deepest \in Nat /\ A <= Deepest /\ HP <= Deepest
BY HashSizesAssumption, SizesAssumption DEF Deepest

LEMMA DigestTypes ==
  ASSUME NEW d \in Digests
  PROVE  /\ d.tree \in Nat /\ d.leaf \in Nat /\ d.tree < 2 ^ (HP * (D - 1)) /\ d.leaf < 2 ^ HP
         /\ \A x \in 0 .. K - 1 : d.md[x] \in Nat /\ d.md[x] < 2 ^ A
<1>1. d \in [md : [0 .. K - 1 -> 0 .. 2 ^ A - 1], tree : 0 .. 2 ^ (HP * (D - 1)) - 1, leaf : 0 .. 2 ^ HP - 1]
  BY SizesAssumption
<1>2. PICK x, y, z \in Nat : x = 2 ^ A /\ y = 2 ^ (HP * (D - 1)) /\ z = 2 ^ HP
  <2>1. D - 1 \in Nat
    BY Sizes
  <2>2. HP * (D - 1) \in Nat
    BY <2>1, Sizes
  <2>. QED
    BY <2>2, TwoPositive, Sizes
<1>3. d \in [md : [0 .. K - 1 -> 0 .. x - 1], tree : 0 .. y - 1, leaf : 0 .. z - 1]
  BY <1>1, <1>2
<1>4. d.tree \in 0 .. y - 1 /\ d.leaf \in 0 .. z - 1 /\ d.md \in [0 .. K - 1 -> 0 .. x - 1]
  BY <1>3
<1>5. \A u \in 0 .. K - 1 : d.md[u] \in 0 .. x - 1
  BY <1>4
<1>. QED
  BY <1>2, <1>4, <1>5

LEMMA ShiftNat == \A x, n \in Nat : Shift(x, n) \in Nat
<1> TAKE x, n \in Nat
<1>1. PICK d \in Nat \ {0} : d = 2 ^ n
  BY TwoPositive
<1>. QED
  BY <1>1 DEF Shift

LEMMA SiblingNat == \A x \in Nat : Sibling(x) \in Nat
BY DEF Sibling

LEMMA AdrsClosed ==
  ASSUME NEW a \in Adrs, NEW n \in Nat, NEW k \in Nat, NEW y \in Types
  PROVE  /\ ZeroAdrs \in Adrs
         /\ SetType(a, y) \in Adrs /\ SetTypeAndClearNotKp(a, y) \in Adrs /\ SetTypeAndClear(a, y) \in Adrs
         /\ [a EXCEPT !.layer = n] \in Adrs /\ [a EXCEPT !.tree = n] \in Adrs
         /\ [a EXCEPT !.layer = n, !.tree = k] \in Adrs
         /\ [a EXCEPT !.kp = n] \in Adrs /\ [a EXCEPT !.w6 = n] \in Adrs /\ [a EXCEPT !.w7 = n] \in Adrs
         /\ [a EXCEPT !.w6 = n, !.w7 = k] \in Adrs
BY DEF Adrs, Types, ZeroAdrs, SetType, SetTypeAndClearNotKp, SetTypeAndClear

LEMMA NodeCallType ==
  ASSUME NodeType, NEW x \in Nat, NEW z \in 0 .. Deepest
  PROVE  /\ DOMAIN Node(x, z) = {"i", "z", "j", "k", "p", "h"}
         /\ Node(x, z).i \in Nat /\ Node(x, z).z \in 0 .. Deepest /\ Node(x, z).j \in Nat
         /\ Node(x, z).k \in Nat /\ Node(x, z).p \in Nat \cup {-1}
         /\ DOMAIN Node(x, z).h = 0 .. Deepest
<1>1. z \in Nat
  BY Sizes
<1>2. PICK d \in Nat : d = 2 ^ z
  BY <1>1, TwoPositive
<1>3. x * 2 ^ z \in Nat
  BY <1>2
<1>. QED
  BY <1>3 DEF Node, NodeType

\* The digits of m, as they are asked for.
DigitsOf == IF m \in DOMAIN digits THEN digits[m] ELSE Head(deal)

LEMMA VmType ==
  ASSUME TypeInv, DigitsInv, pc = "wotspk" \/ pc = "auth", op \in {"sign", "verify"}
  PROVE  /\ DigitsOf \in Digits /\ Vm = WotsCsum(DigitsOf)
         /\ \A c \in 1 .. Len12 : Vm[c] \in 0 .. W - 1
         /\ m \notin DOMAIN digits => Len(deal) > 0
<1>1. m \notin DOMAIN digits => Len(deal) > 0
  <2>1. SUFFICES ASSUME m \notin DOMAIN digits PROVE Len(deal) > 0
    OBVIOUS
  <2>2. Left = D - layer
    BY <2>1 DEF DigitsInv, Left, ForsPcs, LayerPcs, ForsTreePcs, XmssPcs
  <2>3. D - layer > 0 /\ layer \in Nat
    BY Sizes DEF TypeInv
  <2>4. D * (MaxCalls - calls) \in Nat
    BY Sizes DEF TypeInv
  <2>5. Len(deal) \in Nat /\ Len(deal) >= D * (MaxCalls - calls) + Left
    BY DEF DigitsInv
  <2>. QED
    BY <2>2, <2>3, <2>4, <2>5, Sizes
<1>2. DigitsOf \in Digits
  <2>1. CASE m \in DOMAIN digits
    BY <2>1 DEF DigitsOf, DigitsInv
  <2>2. CASE m \notin DOMAIN digits
    <3>1. deal \in Seq(Digits) /\ deal # <<>>
      BY <1>1, <2>2 DEF DigitsInv
    <3>2. Head(deal) \in Digits
      BY <3>1
    <3>. QED
      BY <3>2, <2>2 DEF DigitsOf
  <2>. QED
    BY <2>1, <2>2
<1>3. Vm = WotsCsum(DigitsOf)
  BY DEF Vm, DigitsOf
<1>. QED
  BY <1>1, <1>2, <1>3, CsumDigits


LEMMA TypeNodes ==
  ASSUME NodeType, NEW s \in Int, NEW v, NEW q \in Nat \cup {-1}, NEW k \in Nat
  PROVE  /\ DOMAIN [Put(s, v) EXCEPT !.p = q, !.k = k] = {"i", "z", "j", "k", "p", "h"}
         /\ LET n == [Put(s, v) EXCEPT !.p = q, !.k = k]
            IN  /\ n.i = nd.i /\ n.z = nd.z /\ n.j = nd.j /\ n.k = k /\ n.p = q
                /\ DOMAIN n.h = 0 .. Deepest
                /\ \A u \in 0 .. Deepest : n.h[u] = IF u = s THEN v ELSE nd.h[u]
BY DEF NodeType, Put

LEMMA CutShift ==
  ASSUME NEW z \in Nat, NEW j \in Nat, NEW p \in Nat, NEW hs, NEW c,
         MergeCut(z, j + 1, p, hs, c)
  PROVE  Shift(j, hs[p]) = c[p]
<1>1. PICK k, e \in Nat : k = hs[p] /\ e = c[p]
  BY DEF MergeCut, Cut
<1>2. PICK v \in Nat \ {0} : v = 2 ^ k
  BY TwoPositive
<1>3. j = e * v + (v - 1) /\ v - 1 \in 0 .. v - 1
  <2>1. j + 1 = (e + 1) * v
    BY <1>1, <1>2 DEF MergeCut, Cut
  <2>. QED
    BY <2>1
<1>4. (e * v + (v - 1)) \div v = e
  BY <1>3, Divided
<1>. QED
  BY <1>1, <1>2, <1>3, <1>4 DEF Shift

\* The index of the node that two are merged into, and those of the two.
Merged(x, z, j, hs, c, p) ==
  \E u \in Nat : /\ u = Shift(x * 2 ^ z + j, hs[p] + 1)
                 /\ u = x * 2 ^ (z - (hs[p] + 1)) + (c[p] - 1) \div 2
                 /\ 2 * u = x * 2 ^ (z - hs[p - 1]) + c[p - 1]
                 /\ 2 * u + 1 = x * 2 ^ (z - hs[p]) + c[p]

LEMMA CutIndex ==
  ASSUME NEW z \in Nat, NEW j \in Nat, NEW n \in Nat, n = j + 1, NEW p \in Nat, NEW hs, NEW c, NEW x \in Nat,
         MergeCut(z, n, p, hs, c), c[p] % 2 = 1
  PROVE  Merged(x, z, j, hs, c, p)
<1>1. PICK k, e \in Nat : k = hs[p] /\ e = c[p] /\ k + p <= z
  BY DEF MergeCut, Cut
<1>2. PICK v \in Nat \ {0} : v = 2 ^ k /\ 2 ^ (k + 1) = 2 * v
  BY TwoPositive, TwoNext
<1>3. j + 1 = (e + 1) * v
  BY <1>1, <1>2 DEF MergeCut, Cut
<1>4. j = e * v + (v - 1) /\ v - 1 \in 0 .. v - 1
  BY <1>3
<1>6. \E u \in Nat : /\ u = Shift(x * 2 ^ z + j, hs[p] + 1)
                     /\ u = x * 2 ^ (z - (hs[p] + 1)) + (c[p] - 1) \div 2
                     /\ 2 * u = x * 2 ^ (z - hs[p - 1]) + c[p - 1]
                     /\ 2 * u + 1 = x * 2 ^ (z - hs[p]) + c[p]
  <2>1. p > 0 /\ hs[p - 1] = k /\ c[p] = c[p - 1] + 1
    BY <1>1, CutOdd
  <2>2. PICK d \in Nat : e = 2 * d + 1 /\ (e - 1) \div 2 = d
    BY <1>1
  <2>3. c[p - 1] = 2 * d
    <3>1. c[p - 1] \in Nat
      BY <2>1 DEF MergeCut, Cut
    <3>. QED
      BY <3>1, <2>1, <2>2, <1>1
  <2>4. k + 1 <= z /\ k + 1 \in Nat /\ z - (k + 1) \in Nat /\ z = (k + 1) + (z - (k + 1)) /\ z - k = (z - (k + 1)) + 1
    BY <1>1, <2>1
  <2>5. PICK w \in Nat \ {0} : w = 2 ^ (z - (k + 1))
    BY <2>4, TwoPositive
  <2>6. 2 ^ z = (2 * v) * w
    <3>1. 2 ^ z = 2 ^ (k + 1) * 2 ^ (z - (k + 1))
      BY <2>4, TwoAdd, Zenon
    <3>. QED
      BY <3>1, <1>2, <2>5
  <2>7. 2 ^ (z - k) = 2 * w
    BY <2>4, <2>5, TwoNext
  <2>8. j = d * (2 * v) + (2 * v - 1)
    BY <1>4, <2>2
  <2>9. x * 2 ^ z + j = (x * w + d) * (2 * v) + (2 * v - 1)
    <3>1. x * ((2 * v) * w) = (x * w) * (2 * v)
      OBVIOUS
    <3>2. (x * w) * (2 * v) + d * (2 * v) = (x * w + d) * (2 * v)
      OBVIOUS
    <3>. QED
      BY <2>6, <2>8, <3>1, <3>2
  <2>10. Shift(x * 2 ^ z + j, k + 1) = x * w + d
    <3>1. x * w + d \in Nat /\ 2 * v \in Nat \ {0} /\ 2 * v - 1 \in 0 .. 2 * v - 1
      OBVIOUS
    <3>2. ((x * w + d) * (2 * v) + (2 * v - 1)) \div (2 * v) = x * w + d
      BY <3>1, Divided
    <3>. QED
      BY <2>9, <3>2, <1>2 DEF Shift
  <2>11. 2 * (x * w + d) = x * (2 * w) + 2 * d
    OBVIOUS
  <2>12. x * w + d \in Nat
    OBVIOUS
  <2>13. hs[p] = k /\ hs[p - 1] = k /\ c[p] = 2 * d + 1 /\ c[p - 1] = 2 * d /\ (c[p] - 1) \div 2 = d
    BY <1>1, <2>1, <2>2, <2>3
  <2>14. 2 * (x * w + d) + 1 = x * (2 * w) + (2 * d + 1)
    BY <2>11
  <2>15. PICK u \in Nat : u = x * w + d
    BY <2>12
  <2>16. u = Shift(x * 2 ^ z + j, hs[p] + 1)
    BY <2>10, <2>13, <2>15
  <2>17. u = x * 2 ^ (z - (hs[p] + 1)) + (c[p] - 1) \div 2
    BY <2>5, <2>13, <2>15
  <2>18. 2 * u = x * 2 ^ (z - hs[p - 1]) + c[p - 1] /\ 2 * u + 1 = x * 2 ^ (z - hs[p]) + c[p]
    BY <2>7, <2>11, <2>13, <2>14, <2>15
  <2>. QED
    BY <2>15, <2>16, <2>17, <2>18, Zenon
<1>. QED
  BY <1>6 DEF Merged

LEMMA MergePossible ==
  ASSUME TypeInv, NodeInv, pc \in {"xmerge", "fmerge"}
  PROVE  nd.p \in Nat /\ (OddRound => nd.p > 0)
<1>1. PICK hs, c : MergeCut(nd.z, nd.j + 1, nd.p, hs, c) /\ nd.k = hs[nd.p]
  BY DEF NodeInv
<1>2. nd.p \in Nat /\ nd.z \in Nat /\ nd.j \in Nat
  BY <1>1, Sizes DEF MergeCut, TypeInv, NodeType
<1>3. Shift(nd.j, hs[nd.p]) = c[nd.p]
  BY <1>1, <1>2, CutShift
<1>4. OddRound => c[nd.p] % 2 = 1
  BY <1>1, <1>3 DEF OddRound
<1>. QED
  BY <1>1, <1>2, <1>4, CutOdd


LEMMA IndexNat ==
  ASSUME dg \in Digests, i \in 0 .. K - 1
  PROVE  Index \in Nat /\ Index = Leaf(dg, i)
<1>1. PICK b \in Nat \ {0} : b = 2 ^ A
  BY TwoPositive, Sizes
<1>2. dg.md[i] \in Nat
  BY DigestTypes
<1>. QED
  BY <1>1, <1>2, Sizes DEF Index, Leaf

LEMMA CalledNat ==
  ASSUME dg \in Digests, i \in 0 .. K - 1, t \in 0 .. A
  PROVE  i * 2 ^ (A - t) + Sibling(Shift(dg.md[i], t)) \in Nat
<1>1. PICK b \in Nat \ {0} : b = 2 ^ (A - t)
  <2>1. A - t \in Nat
    BY Sizes
  <2>. QED
    BY <2>1, TwoPositive
<1>2. Sibling(Shift(dg.md[i], t)) \in Nat
  <2>1. dg.md[i] \in Nat /\ t \in Nat
    BY DigestTypes, Sizes
  <2>2. Shift(dg.md[i], t) \in Nat
    BY <2>1, ShiftNat
  <2>. QED
    BY <2>2, SiblingNat
<1>. QED
  BY <1>1, <1>2, Sizes

Inv1 == TypeInv /\ FlowInv /\ AdrsInv /\ NodeInv /\ DigitsInv

\* What both node functions do to nd.
LEMMA LeafNode ==
  ASSUME TypeInv, NEW v, nd' = [Put(nd.p + 1, v) EXCEPT !.p = @ + 1, !.k = 0]
  PROVE  /\ NodeType'
         /\ nd'.i = nd.i /\ nd'.z = nd.z /\ nd'.j = nd.j /\ nd'.p = nd.p + 1 /\ nd'.k = 0
         /\ \A u \in 0 .. Deepest : nd'.h[u] = IF u = nd.p + 1 THEN v ELSE nd.h[u]
<1> DEFINE n == [Put(nd.p + 1, v) EXCEPT !.p = nd.p + 1, !.k = 0]
<1>1. Put(nd.p + 1, v).p = nd.p /\ NodeType /\ nd.p + 1 \in Int /\ nd.p + 1 \in Nat
  BY DEF TypeInv, NodeType, Put
<1>2. nd' = n
  BY <1>1
<1>3. /\ DOMAIN n = {"i", "z", "j", "k", "p", "h"}
      /\ n.i = nd.i /\ n.z = nd.z /\ n.j = nd.j /\ n.k = 0 /\ n.p = nd.p + 1
      /\ DOMAIN n.h = 0 .. Deepest
      /\ \A u \in 0 .. Deepest : n.h[u] = IF u = nd.p + 1 THEN v ELSE nd.h[u]
  BY <1>1, TypeNodes
<1> HIDE DEF n
<1>4. nd.i \in Nat /\ nd.z \in 0 .. Deepest /\ nd.j \in Nat
  BY <1>1 DEF NodeType
<1>5. /\ DOMAIN nd' = {"i", "z", "j", "k", "p", "h"} /\ DOMAIN nd'.h = 0 .. Deepest
      /\ nd'.i \in Nat /\ nd'.z \in 0 .. Deepest /\ nd'.j \in Nat
      /\ nd'.k \in Nat /\ nd'.p \in Nat
  <2>1. 0 \in Nat
    OBVIOUS
  <2>. QED
    BY <2>1, <1>1, <1>2, <1>3, <1>4, Zenon
<1>6. NodeType'
  BY <1>5 DEF NodeType
<1>. QED
  BY <1>2, <1>3, <1>6, Zenon

LEMMA MergeNode ==
  ASSUME TypeInv, nd.p \in Nat, NEW v, nd' = [Put(nd.p - 1, v) EXCEPT !.p = nd.p - 1, !.k = @ + 1]
  PROVE  /\ NodeType'
         /\ nd'.i = nd.i /\ nd'.z = nd.z /\ nd'.j = nd.j /\ nd'.p = nd.p - 1 /\ nd'.k = nd.k + 1
         /\ \A u \in 0 .. Deepest : nd'.h[u] = IF u = nd.p - 1 THEN v ELSE nd.h[u]
<1> DEFINE n == [Put(nd.p - 1, v) EXCEPT !.p = nd.p - 1, !.k = nd.k + 1]
<1>1. /\ Put(nd.p - 1, v).k = nd.k /\ NodeType
      /\ nd.p - 1 \in Int /\ nd.p - 1 \in Nat \cup {-1} /\ nd.k + 1 \in Nat
  BY SMTT(60) DEF TypeInv, NodeType, Put
<1>2. nd' = n
  BY <1>1
<1>3. /\ DOMAIN n = {"i", "z", "j", "k", "p", "h"}
      /\ n.i = nd.i /\ n.z = nd.z /\ n.j = nd.j /\ n.k = nd.k + 1 /\ n.p = nd.p - 1
      /\ DOMAIN n.h = 0 .. Deepest
      /\ \A u \in 0 .. Deepest : n.h[u] = IF u = nd.p - 1 THEN v ELSE nd.h[u]
  BY <1>1, TypeNodes
<1> HIDE DEF n
<1>. QED
  BY <1>1, <1>2, <1>3 DEF NodeType

LEMMA CallNode ==
  ASSUME TypeInv, NEW x \in Nat, NEW z \in 0 .. Deepest, nd' = Node(x, z)
  PROVE  NodeType' /\ nd'.i = x * 2 ^ z /\ nd'.z = z /\ nd'.j = 0 /\ nd'.p = -1
<1>1. nd'.i = x * 2 ^ z /\ nd'.z = z /\ nd'.j = 0 /\ nd'.p = -1
  BY DEF Node
<1>2. NodeType'
  BY NodeCallType DEF NodeType, TypeInv
<1>. QED
  BY <1>1, <1>2

LEMMA NextNode ==
  ASSUME TypeInv, nd' = [nd EXCEPT !.i = @ + 1, !.j = @ + 1]
  PROVE  /\ NodeType'
         /\ nd'.i = nd.i + 1 /\ nd'.z = nd.z /\ nd'.j = nd.j + 1 /\ nd'.p = nd.p /\ nd'.h = nd.h
BY SMTT(60) DEF TypeInv, NodeType

\* The digits and what they give to the ADRS.
LEMMA WotsSignAdrs ==
  ASSUME Inv1, WotsSign
  PROVE  adrs' \in Adrs /\ adrs'.layer = adrs.layer /\ adrs'.tree = adrs.tree
<1>1. pc = "auth" /\ op = "sign" /\ adrs \in Adrs /\ leaf \in Nat
  BY DEF Inv1, TypeInv, FlowInv, WotsSign
<1>2. Vm[Len12] \in Nat
  <2>1. Len12 \in 1 .. Len12 /\ TypeInv /\ DigitsInv
    BY DigitSizes DEF Inv1
  <2>. QED
    BY <1>1, <2>1, VmType, DigitSizes
<1> DEFINE a == [[SetTypeAndClearNotKp(adrs, "WOTS_HASH") EXCEPT !.kp = leaf] EXCEPT !.w6 = Len12 - 1]
<1>3. a \in Adrs /\ a.layer = adrs.layer /\ a.tree = adrs.tree
  <2>1. Len12 - 1 \in Nat
    BY DigitSizes
  <2>. QED
    BY <1>1, <2>1 DEF Adrs, Types, SetTypeAndClearNotKp
<1>4. adrs' \in WotsChainAdrs(a, Vm[Len12])
  BY DEF WotsSign
<1> HIDE DEF a
<1>5. PICK n \in Nat : adrs' = [a EXCEPT !.type = "WOTS_HASH", !.w7 = n]
  <2>1. PICK n \in {0, IF Vm[Len12] = 0 THEN 0 ELSE Vm[Len12] - 1} : adrs' = [a EXCEPT !.type = "WOTS_HASH", !.w7 = n]
    BY <1>4 DEF WotsChainAdrs
  <2>2. n \in Nat
    BY <1>2, <2>1
  <2>. QED
    BY <2>1, <2>2
<1>. QED
  BY <1>3, <1>5 DEF Adrs, Types

\* Where the digest, the path and the node at hand stay.
LEMMA TypeKept ==
  ASSUME TypeInv, UNCHANGED <<op, dg, tree, leaf, layer, nd, calls>>,
         adrs' \in Adrs, i' \in 0 .. K, t' \in Nat, pc' \in {"ready"} \cup ForsPcs \cup LayerPcs
  PROVE  TypeInv'
BY DEF TypeInv, NodeType

LEMMA TypeStep ==
  ASSUME Inv1, [Next]_vars
  PROVE  TypeInv'
<1> SUFFICES ASSUME Next PROVE TypeInv'
  <2>1. CASE UNCHANGED vars
    BY <2>1 DEF vars, Inv1, TypeInv, NodeType
  <2>. QED
    BY <2>1
<1>. USE Sizes
<1>0. TypeInv /\ FlowInv /\ NodeInv /\ NodeType /\ leaf \in Nat /\ tree \in Nat /\ dg \in Digests
  BY DEF Inv1, TypeInv
<1>01. \A x, n \in Nat : Shift(x, n) \in Nat /\ Sibling(x) \in Nat
  BY ShiftNat, SiblingNat
<1>1. ASSUME Keygen PROVE TypeInv'
  <2>1. NodeType'
    BY <1>0, <1>1, CallNode DEF Keygen
  <2>2. adrs' \in Adrs
    BY <1>1 DEF Keygen, Adrs, Types, ZeroAdrs
  <2>. QED
    BY <1>0, <1>1, <2>1, <2>2 DEF Keygen, TypeInv, ForsPcs, LayerPcs, ForsTreePcs, XmssPcs
<1>2. ASSUME KeygenReturn PROVE TypeInv'
  BY <1>0, <1>2 DEF KeygenReturn, TypeInv, FlowInv, ForsPcs, LayerPcs, ForsTreePcs, XmssPcs, NodeType
<1>3. ASSUME XmssLeaf PROVE TypeInv'
  <2>1. NodeType'
    BY <1>0, <1>3, LeafNode DEF XmssLeaf
  <2>2. adrs' = SetTypeAndClearNotKp([adrs EXCEPT !.kp = nd.i], "WOTS_PK")
    BY <1>3 DEF XmssLeaf
  <2>3. adrs' \in Adrs
    BY <1>0, <2>2 DEF Adrs, Types, TypeInv, NodeType, SetType, SetTypeAndClearNotKp, ForsLeafAdrs, ForsPrfAdrs
  <2>. QED
    BY <1>0, <1>3, <2>1, <2>3 DEF XmssLeaf, TypeInv, ForsPcs, LayerPcs, ForsTreePcs, XmssPcs
<1>4. ASSUME ForsLeaf PROVE TypeInv'
  <2>1. NodeType'
    BY <1>0, <1>4, LeafNode DEF ForsLeaf
  <2>2. adrs' = ForsLeafAdrs([adrs EXCEPT !.w7 = nd.i])
    BY <1>4 DEF ForsLeaf
  <2>3. adrs' \in Adrs
    BY <1>0, <2>2 DEF Adrs, Types, TypeInv, NodeType, SetType, SetTypeAndClearNotKp, ForsLeafAdrs, ForsPrfAdrs
  <2>. QED
    BY <1>0, <1>4, <2>1, <2>3 DEF ForsLeaf, TypeInv, ForsPcs, LayerPcs, ForsTreePcs, XmssPcs
<1>5. ASSUME XmssMerge PROVE TypeInv'
  <2>0. nd.p \in Nat
    BY <1>0, <1>5, MergePossible DEF XmssMerge
  <2>1. NodeType'
    BY <1>0, <1>5, <2>0, MergeNode DEF XmssMerge
  <2>2. adrs' = [SetTypeAndClear(adrs, "TREE") EXCEPT !.w6 = nd.k + 1, !.w7 = Shift(nd.i, nd.k + 1)]
    BY <1>5 DEF XmssMerge
  <2>3. adrs' \in Adrs
    <3>1. nd.k + 1 \in Nat /\ Shift(nd.i, nd.k + 1) \in Nat
      <4>1. nd.k + 1 \in Nat /\ nd.i \in Nat
        BY <1>0 DEF NodeType
      <4>. QED
        BY <4>1, ShiftNat
    <3>. QED
      BY <1>0, <2>2, <3>1 DEF Adrs, Types, TypeInv, SetTypeAndClear, SetTypeAndClearNotKp
  <2>. QED
    BY <1>0, <1>5, <2>1, <2>3 DEF XmssMerge, TypeInv, ForsPcs, LayerPcs, ForsTreePcs, XmssPcs
<1>6. ASSUME ForsMerge PROVE TypeInv'
  <2>0. nd.p \in Nat
    BY <1>0, <1>6, MergePossible DEF ForsMerge
  <2>1. NodeType'
    BY <1>0, <1>6, <2>0, MergeNode DEF ForsMerge
  <2>2. adrs' = [adrs EXCEPT !.w6 = nd.k + 1, !.w7 = Shift(nd.i, nd.k + 1)]
    BY <1>6 DEF ForsMerge
  <2>3. adrs' \in Adrs
    <3>1. nd.k + 1 \in Nat /\ Shift(nd.i, nd.k + 1) \in Nat
      <4>1. nd.k + 1 \in Nat /\ nd.i \in Nat
        BY <1>0 DEF NodeType
      <4>. QED
        BY <4>1, ShiftNat
    <3>. QED
      BY <1>0, <2>2, <3>1 DEF Adrs, Types, TypeInv, SetTypeAndClear, SetTypeAndClearNotKp
  <2>. QED
    BY <1>0, <1>6, <2>1, <2>3 DEF ForsMerge, TypeInv, ForsPcs, LayerPcs, ForsTreePcs, XmssPcs
<1>7. ASSUME NodeNext PROVE TypeInv'
  <2>1. NodeType'
    BY <1>0, <1>7, NextNode DEF NodeNext
  <2>. QED
    BY <1>0, <1>7, <2>1 DEF NodeNext, TypeInv, ForsPcs, LayerPcs, ForsTreePcs, XmssPcs
<1>8. ASSUME NEW d \in Digests, Sign(d) \/ Verify(d) PROVE TypeInv'
  <2>1. Call(op', d) /\ op' \in {"sign", "verify"} /\ pc' \in {"forssk", "forspk"}
    BY <1>8 DEF Sign, Verify, Call
  <2>2. d.tree \in Nat /\ d.leaf \in Nat
    BY DigestTypes
  <2>3. adrs' \in Adrs
    BY <2>1, <2>2 DEF Call, ForsAdrs, Adrs, Types, ZeroAdrs, SetTypeAndClearNotKp
  <2>. QED
    BY <1>0, <2>1, <2>2, <2>3 DEF Call, TypeInv, ForsPcs, NodeType
<1>9. ASSUME Damage PROVE TypeInv'
  BY <1>0, <1>9 DEF Damage, TypeInv, FlowInv, ForsPcs, LayerPcs, ForsTreePcs, XmssPcs, NodeType
<1>10. ASSUME ForsSk PROVE TypeInv'
  <2>1. Index \in Nat
    BY <1>0, <1>10, IndexNat DEF ForsSk, TypeInv
  <2>2. adrs' = ForsPrfAdrs([adrs EXCEPT !.w7 = Index])
    BY <1>10 DEF ForsSk
  <2>3. adrs' \in Adrs
    BY <1>0, <2>1, <2>2 DEF ForsPrfAdrs, Adrs, Types, TypeInv
  <2>4. /\ UNCHANGED <<op, dg, tree, leaf, layer, nd, calls>>
        /\ t' = 0 /\ i' = i /\ pc' = "forsauth"
    BY <1>10 DEF ForsSk
  <2>. QED
    BY <1>0, <2>3, <2>4, TypeKept DEF TypeInv, ForsPcs, LayerPcs
<1>11. ASSUME ForsAuthCall PROVE TypeInv'
  <2>1. i * 2 ^ (A - t) + Sibling(Shift(dg.md[i], t)) \in Nat /\ t \in 0 .. Deepest
    BY <1>0, <1>11, CalledNat DEF ForsAuthCall, TypeInv, FlowInv, ForsTreePcs
  <2>2. NodeType'
    BY <1>0, <1>11, <2>1, CallNode DEF ForsAuthCall
  <2>. QED
    BY <1>0, <1>11, <2>2 DEF ForsAuthCall, TypeInv, ForsPcs, ForsTreePcs
<1>12. ASSUME ForsAuthNode PROVE TypeInv'
  <2>1. /\ UNCHANGED <<op, dg, tree, leaf, layer, nd, calls>>
        /\ t' = t + 1 /\ i' = i /\ pc' = "forsauth" /\ adrs' = adrs
    BY <1>12 DEF ForsAuthNode
  <2>. QED
    BY <1>0, <2>1, TypeKept DEF TypeInv, ForsPcs, LayerPcs
<1>13. ASSUME ForsSigned PROVE TypeInv'
  <2>1. /\ UNCHANGED <<op, dg, tree, leaf, layer, nd, calls>>
        /\ t' = t /\ i' \in 0 .. K /\ pc' \in {"forssk", "forspk"} /\ adrs' = adrs
    BY <1>0, <1>13 DEF ForsSigned, TypeInv, FlowInv, ForsTreePcs
  <2>. QED
    BY <1>0, <2>1, TypeKept DEF TypeInv, ForsPcs, LayerPcs
<1>14. ASSUME ForsPkLeaf PROVE TypeInv'
  <2>1. Index \in Nat
    BY <1>0, <1>14, IndexNat DEF ForsPkLeaf, TypeInv
  <2>2. adrs' = [adrs EXCEPT !.w6 = 0, !.w7 = Index]
    BY <1>14 DEF ForsPkLeaf
  <2>3. adrs' \in Adrs
    BY <1>0, <2>1, <2>2 DEF Adrs, TypeInv
  <2>4. /\ UNCHANGED <<op, dg, tree, leaf, layer, nd, calls>>
        /\ t' = 0 /\ i' = i /\ pc' = "forsclimb"
    BY <1>14 DEF ForsPkLeaf
  <2>. QED
    BY <1>0, <2>3, <2>4, TypeKept DEF TypeInv, ForsPcs, LayerPcs
<1>15. ASSUME ForsClimb PROVE TypeInv'
  <2>1. Shift(Index, t + 1) \in Nat /\ t + 1 \in Nat
    <3>1. Index \in Nat
      BY <1>0, <1>15, IndexNat DEF ForsClimb, FlowInv, TypeInv
    <3>. QED
      BY <1>0, <1>01, <3>1 DEF TypeInv
  <2>2. adrs' = [adrs EXCEPT !.w6 = t + 1, !.w7 = Shift(Index, t + 1)]
    BY <1>15 DEF ForsClimb
  <2>3. adrs' \in Adrs
    BY <1>0, <2>1, <2>2 DEF Adrs, TypeInv
  <2>4. /\ UNCHANGED <<op, dg, tree, leaf, layer, nd, calls>>
        /\ t' = t + 1 /\ i' = i /\ pc' = "forsclimb"
    BY <1>15 DEF ForsClimb
  <2>. QED
    BY <1>0, <2>3, <2>4, TypeKept DEF TypeInv, ForsPcs, LayerPcs
<1>16. ASSUME ForsNextTree PROVE TypeInv'
  <2>1. /\ UNCHANGED <<op, dg, tree, leaf, layer, nd, calls>>
        /\ t' = t /\ i' = i + 1 /\ i' \in 0 .. K /\ pc' = "forspk" /\ adrs' = adrs
    BY <1>0, <1>16 DEF ForsNextTree, TypeInv, FlowInv, ForsTreePcs
  <2>. QED
    BY <1>0, <2>1, TypeKept DEF TypeInv, ForsPcs, LayerPcs
<1>17. ASSUME ForsRoots PROVE TypeInv'
  <2>1. adrs' = [ZeroAdrs EXCEPT !.tree = tree]
    BY <1>17 DEF ForsRoots
  <2>2. adrs' \in Adrs
    BY <1>0, <2>1 DEF ZeroAdrs, Adrs, Types
  <2>. QED
    BY <1>0, <1>17, <2>2, SMTT(60) DEF ForsRoots, TypeInv, LayerPcs, NodeType
<1>18. ASSUME AuthCall PROVE TypeInv'
  <2>1. Sibling(Shift(leaf, t)) \in Nat /\ t \in 0 .. Deepest
    BY <1>0, <1>01, <1>18 DEF AuthCall, TypeInv
  <2>2. NodeType'
    BY <1>0, <1>18, <2>1, CallNode DEF AuthCall
  <2>. QED
    BY <1>0, <1>18, <2>2 DEF AuthCall, TypeInv, LayerPcs, XmssPcs
<1>19. ASSUME AuthNode PROVE TypeInv'
  <2>1. /\ UNCHANGED <<op, dg, tree, leaf, layer, nd, calls>>
        /\ t' = t + 1 /\ i' = i /\ pc' = "auth" /\ adrs' = adrs
    BY <1>19 DEF AuthNode
  <2>. QED
    BY <1>0, <2>1, TypeKept DEF TypeInv, ForsPcs, LayerPcs
<1>20. ASSUME WotsSign PROVE TypeInv'
  <2>1. adrs' \in Adrs
    BY <1>0, <1>20, WotsSignAdrs DEF WotsSign
  <2>2. /\ UNCHANGED <<op, dg, tree, leaf, layer, nd, calls>>
        /\ t' = t /\ i' = i /\ pc' \in {"wotspk", "ready"}
    BY <1>20 DEF WotsSign
  <2>. QED
    BY <1>0, <2>1, <2>2, TypeKept DEF TypeInv, ForsPcs, LayerPcs
<1>21. ASSUME WotsPk PROVE TypeInv'
  <2>1. adrs' = SetTypeAndClear(adrs, "TREE")
    BY <1>21 DEF WotsPk
  <2>2. adrs' \in Adrs
    BY <1>0, <2>1 DEF SetTypeAndClear, SetTypeAndClearNotKp, Adrs, Types, TypeInv
  <2>3. /\ UNCHANGED <<op, dg, tree, leaf, layer, nd, calls>>
        /\ t' = 0 /\ i' = i /\ pc' = "climb"
    BY <1>21 DEF WotsPk
  <2>. QED
    BY <1>0, <2>2, <2>3, TypeKept DEF TypeInv, ForsPcs, LayerPcs
<1>22. ASSUME Climb PROVE TypeInv'
  <2>1. Shift(leaf, t + 1) \in Nat /\ t + 1 \in Nat
    BY <1>0, <1>01 DEF TypeInv
  <2>2. adrs' = [adrs EXCEPT !.w6 = t + 1, !.w7 = Shift(leaf, t + 1)]
    BY <1>22 DEF Climb
  <2>3. adrs' \in Adrs
    BY <1>0, <2>1, <2>2 DEF Adrs, TypeInv
  <2>4. /\ UNCHANGED <<op, dg, tree, leaf, layer, nd, calls>>
        /\ t' = t + 1 /\ i' = i /\ pc' = "climb"
    BY <1>0, <1>22 DEF Climb
  <2>. QED
    BY <1>0, <2>3, <2>4, TypeKept DEF TypeInv, ForsPcs, LayerPcs
<1>23. ASSUME NextLayer PROVE TypeInv'
  <2>1. leaf' \in Nat /\ tree' \in Nat
    <3>1. PICK b \in Nat \ {0} : b = 2 ^ HP
      BY TwoPositive
    <3>2. tree % b \in Nat
      BY <1>0
    <3>3. Shift(tree, HP) \in Nat
      BY <1>0, ShiftNat
    <3>. QED
      BY <1>23, <3>1, <3>2, <3>3 DEF NextLayer
  <2>2. layer' \in 0 .. D - 1
    BY <1>0, <1>23 DEF NextLayer, TypeInv
  <2>3. adrs' = [adrs EXCEPT !.layer = layer', !.tree = tree']
    BY <1>23 DEF NextLayer
  <2>4. adrs' \in Adrs
    <3>1. adrs \in Adrs /\ layer' \in Nat /\ tree' \in Nat
      BY <1>0, <2>1, <2>2 DEF TypeInv
    <3>. QED
      BY <2>3, <3>1 DEF Adrs
  <2>. QED
    BY <1>0, <1>23, <2>1, <2>2, <2>4 DEF NextLayer, TypeInv, LayerPcs, NodeType
<1>24. ASSUME Compare PROVE TypeInv'
  <2>1. /\ UNCHANGED <<op, dg, tree, leaf, layer, nd, calls>>
        /\ t' = t /\ i' = i /\ pc' = "ready" /\ adrs' = adrs
    BY <1>24 DEF Compare
  <2>. QED
    BY <1>0, <2>1, TypeKept DEF TypeInv, ForsPcs, LayerPcs
<1>. QED
  BY <1>1, <1>2, <1>3, <1>4, <1>5, <1>6, <1>7, <1>8, <1>9, <1>10, <1>11, <1>12, <1>13, <1>14, <1>15, <1>16, <1>17, <1>18, <1>19, <1>20, <1>21, <1>22, <1>23, <1>24, Zenon DEF Next


LEMMA FlowStep ==
  ASSUME Inv1, [Next]_vars
  PROVE  FlowInv'
<1> SUFFICES ASSUME Next PROVE FlowInv'
  <2>1. CASE UNCHANGED vars
    BY <2>1 DEF vars, Inv1, FlowInv, TypeInv, ForsPcs, LayerPcs, ForsTreePcs, XmssPcs
  <2>. QED
    BY <2>1
<1>0. TypeInv /\ FlowInv
  BY DEF Inv1
<1>. USE Sizes
<1>1. ASSUME Keygen PROVE FlowInv'
  BY <1>0, <1>1 DEF Keygen, FlowInv, TypeInv, ForsPcs, LayerPcs, ForsTreePcs, XmssPcs
<1>2. ASSUME KeygenReturn PROVE FlowInv'
  BY <1>0, <1>2 DEF KeygenReturn, FlowInv, TypeInv, ForsPcs, LayerPcs, ForsTreePcs, XmssPcs
<1>3. ASSUME XmssLeaf PROVE FlowInv'
  BY <1>0, <1>3 DEF XmssLeaf, FlowInv, TypeInv, ForsPcs, LayerPcs, ForsTreePcs, XmssPcs
<1>4. ASSUME XmssMerge PROVE FlowInv'
  BY <1>0, <1>4 DEF XmssMerge, FlowInv, TypeInv, ForsPcs, LayerPcs, ForsTreePcs, XmssPcs
<1>5. ASSUME ForsLeaf PROVE FlowInv'
  BY <1>0, <1>5 DEF ForsLeaf, FlowInv, TypeInv, ForsPcs, LayerPcs, ForsTreePcs, XmssPcs
<1>6. ASSUME ForsMerge PROVE FlowInv'
  BY <1>0, <1>6 DEF ForsMerge, FlowInv, TypeInv, ForsPcs, LayerPcs, ForsTreePcs, XmssPcs
<1>7. ASSUME NodeNext PROVE FlowInv'
  BY <1>0, <1>7 DEF NodeNext, FlowInv, TypeInv, ForsPcs, LayerPcs, ForsTreePcs, XmssPcs
<1>8. ASSUME NEW d \in Digests, Sign(d) \/ Verify(d) PROVE FlowInv'
  BY <1>0, <1>8 DEF Sign, Verify, Call, FlowInv, TypeInv, ForsPcs, LayerPcs, ForsTreePcs, XmssPcs
<1>9. ASSUME Damage PROVE FlowInv'
  BY <1>0, <1>9 DEF Damage, FlowInv, TypeInv, ForsPcs, LayerPcs, ForsTreePcs, XmssPcs
<1>10. ASSUME ForsSk PROVE FlowInv'
  BY <1>0, <1>10 DEF ForsSk, FlowInv, TypeInv, ForsPcs, LayerPcs, ForsTreePcs, XmssPcs
<1>11. ASSUME ForsAuthCall PROVE FlowInv'
  BY <1>0, <1>11 DEF ForsAuthCall, FlowInv, TypeInv, ForsPcs, LayerPcs, ForsTreePcs, XmssPcs
<1>12. ASSUME ForsAuthNode PROVE FlowInv'
  BY <1>0, <1>12 DEF ForsAuthNode, FlowInv, TypeInv, ForsPcs, LayerPcs, ForsTreePcs, XmssPcs
<1>13. ASSUME ForsSigned PROVE FlowInv'
  BY <1>0, <1>13 DEF ForsSigned, FlowInv, TypeInv, ForsPcs, LayerPcs, ForsTreePcs, XmssPcs
<1>14. ASSUME ForsPkLeaf PROVE FlowInv'
  BY <1>0, <1>14 DEF ForsPkLeaf, FlowInv, TypeInv, ForsPcs, LayerPcs, ForsTreePcs, XmssPcs
<1>15. ASSUME ForsClimb PROVE FlowInv'
  BY <1>0, <1>15 DEF ForsClimb, FlowInv, TypeInv, ForsPcs, LayerPcs, ForsTreePcs, XmssPcs
<1>16. ASSUME ForsNextTree PROVE FlowInv'
  BY <1>0, <1>16 DEF ForsNextTree, FlowInv, TypeInv, ForsPcs, LayerPcs, ForsTreePcs, XmssPcs
<1>17. ASSUME ForsRoots PROVE FlowInv'
  BY <1>0, <1>17 DEF ForsRoots, FlowInv, TypeInv, ForsPcs, LayerPcs, ForsTreePcs, XmssPcs
<1>18. ASSUME AuthCall PROVE FlowInv'
  BY <1>0, <1>18 DEF AuthCall, FlowInv, TypeInv, ForsPcs, LayerPcs, ForsTreePcs, XmssPcs
<1>19. ASSUME AuthNode PROVE FlowInv'
  BY <1>0, <1>19 DEF AuthNode, FlowInv, TypeInv, ForsPcs, LayerPcs, ForsTreePcs, XmssPcs
<1>20. ASSUME WotsSign PROVE FlowInv'
  <2>1. op' = "sign" /\ pc' \in {"wotspk", "ready"}
    BY <1>0, <1>20 DEF WotsSign, FlowInv
  <2>. QED
    BY <2>1 DEF FlowInv, ForsTreePcs, XmssPcs
<1>21. ASSUME WotsPk PROVE FlowInv'
  <2>1. op' = op /\ op \in {"sign", "verify"} /\ t' = 0 /\ pc' = "climb"
    BY <1>0, <1>21 DEF WotsPk, FlowInv
  <2>. QED
    BY <2>1 DEF FlowInv, ForsTreePcs, XmssPcs
<1>22. ASSUME Climb PROVE FlowInv'
  BY <1>0, <1>22 DEF Climb, FlowInv, TypeInv, ForsPcs, LayerPcs, ForsTreePcs, XmssPcs
<1>23. ASSUME NextLayer PROVE FlowInv'
  <2>1. op' = op /\ op \in {"sign", "verify"} /\ t' = 0 /\ pc' = IF op = "sign" THEN "auth" ELSE "wotspk"
    BY <1>0, <1>23 DEF NextLayer, FlowInv
  <2>. QED
    BY <2>1 DEF FlowInv, ForsTreePcs, XmssPcs
<1>24. ASSUME Compare PROVE FlowInv'
  BY <1>0, <1>24 DEF Compare, FlowInv, TypeInv, ForsPcs, LayerPcs, ForsTreePcs, XmssPcs
<1>. QED
  BY <1>1, <1>2, <1>3, <1>4, <1>5, <1>6, <1>7, <1>8, <1>9, <1>10, <1>11, <1>12, <1>13, <1>14, <1>15, <1>16, <1>17, <1>18, <1>19, <1>20, <1>21, <1>22, <1>23, <1>24, Zenon DEF Next

LEMMA AdrsStep ==
  ASSUME Inv1, [Next]_vars
  PROVE  AdrsInv'
<1> SUFFICES ASSUME Next PROVE AdrsInv'
  <2>1. CASE UNCHANGED vars
    BY <2>1 DEF vars, Inv1, AdrsInv, ForsPcs, LayerPcs, ForsTreePcs, XmssPcs
  <2>. QED
    BY <2>1
<1>0. TypeInv /\ FlowInv /\ AdrsInv /\ adrs \in Adrs
  BY DEF Inv1, TypeInv
<1>. USE Sizes
<1>1. ASSUME Keygen PROVE AdrsInv'
  <2>1. adrs' = [ZeroAdrs EXCEPT !.layer = D - 1]
    BY <1>1 DEF Keygen
  <2>2. adrs'.layer = D - 1 /\ adrs'.tree = 0
    BY <1>0, <2>1 DEF Adrs, ZeroAdrs
  <2>. QED
    BY <1>0, <1>1, <2>2 DEF Keygen, AdrsInv, FlowInv, TypeInv, ForsPcs, LayerPcs, ForsTreePcs, XmssPcs
<1>2. ASSUME KeygenReturn PROVE AdrsInv'
  BY <1>0, <1>2 DEF KeygenReturn, AdrsInv, FlowInv, TypeInv, ForsPcs, LayerPcs, ForsTreePcs, XmssPcs
<1>3. ASSUME XmssLeaf PROVE AdrsInv'
  <2>1. adrs' = SetTypeAndClearNotKp([adrs EXCEPT !.kp = nd.i], "WOTS_PK")
    BY <1>3 DEF XmssLeaf
  <2>2. adrs'.layer = adrs.layer /\ adrs'.tree = adrs.tree
    BY <1>0, <2>1 DEF Adrs, SetTypeAndClearNotKp
  <2>. QED
    BY <1>0, <1>3, <2>2 DEF XmssLeaf, AdrsInv, FlowInv, TypeInv, ForsPcs, LayerPcs, ForsTreePcs, XmssPcs
<1>4. ASSUME XmssMerge PROVE AdrsInv'
  <2>1. adrs' = [SetTypeAndClear(adrs, "TREE") EXCEPT !.w6 = nd.k + 1, !.w7 = Shift(nd.i, nd.k + 1)]
    BY <1>4 DEF XmssMerge
  <2>2. adrs'.layer = adrs.layer /\ adrs'.tree = adrs.tree
    BY <1>0, <2>1 DEF Adrs, SetTypeAndClearNotKp, SetTypeAndClear
  <2>. QED
    BY <1>0, <1>4, <2>2 DEF XmssMerge, AdrsInv, FlowInv, TypeInv, ForsPcs, LayerPcs, ForsTreePcs, XmssPcs
<1>5. ASSUME ForsLeaf PROVE AdrsInv'
  <2>1. adrs' = ForsLeafAdrs([adrs EXCEPT !.w7 = nd.i])
    BY <1>5 DEF ForsLeaf
  <2>2. adrs'.layer = adrs.layer /\ adrs'.tree = adrs.tree /\ adrs'.kp = adrs.kp /\ adrs'.type = "FORS_TREE"
    BY <1>0, <2>1 DEF Adrs, ForsLeafAdrs, ForsPrfAdrs, SetType
  <2>. QED
    BY <1>0, <1>5, <2>2 DEF ForsLeaf, AdrsInv, FlowInv, TypeInv, ForsPcs, LayerPcs, ForsTreePcs, XmssPcs
<1>6. ASSUME ForsMerge PROVE AdrsInv'
  <2>1. adrs' = [adrs EXCEPT !.w6 = nd.k + 1, !.w7 = Shift(nd.i, nd.k + 1)]
    BY <1>6 DEF ForsMerge
  <2>2. adrs'.layer = adrs.layer /\ adrs'.tree = adrs.tree /\ adrs'.kp = adrs.kp /\ adrs'.type = adrs.type
    BY <1>0, <2>1 DEF Adrs, Adrs
  <2>. QED
    BY <1>0, <1>6, <2>2 DEF ForsMerge, AdrsInv, FlowInv, TypeInv, ForsPcs, LayerPcs, ForsTreePcs, XmssPcs
<1>7. ASSUME NodeNext PROVE AdrsInv'
  BY <1>0, <1>7 DEF NodeNext, AdrsInv, FlowInv, TypeInv, ForsPcs, LayerPcs, ForsTreePcs, XmssPcs
<1>8. ASSUME NEW d \in Digests, Sign(d) \/ Verify(d) PROVE AdrsInv'
  <2>1. adrs' = ForsAdrs(d) /\ dg' = d /\ tree' = d.tree /\ leaf' = d.leaf /\ pc' \in {"forssk", "forspk"}
    BY <1>8 DEF Sign, Verify, Call
  <2>2. adrs'.layer = 0 /\ adrs'.tree = d.tree /\ adrs'.kp = d.leaf /\ adrs'.type = "FORS_TREE"
    BY <2>1 DEF ForsAdrs, ZeroAdrs, SetTypeAndClearNotKp
  <2>. QED
    BY <2>1, <2>2 DEF AdrsInv, ForsPcs, LayerPcs, ForsTreePcs, XmssPcs
<1>9. ASSUME Damage PROVE AdrsInv'
  BY <1>0, <1>9 DEF Damage, AdrsInv, FlowInv, TypeInv, ForsPcs, LayerPcs, ForsTreePcs, XmssPcs
<1>10. ASSUME ForsSk PROVE AdrsInv'
  <2>1. adrs' = ForsPrfAdrs([adrs EXCEPT !.w7 = Index])
    BY <1>10 DEF ForsSk
  <2>2. adrs'.layer = adrs.layer /\ adrs'.tree = adrs.tree /\ adrs'.kp = adrs.kp
    BY <1>0, <2>1 DEF Adrs, ForsPrfAdrs
  <2>. QED
    BY <1>0, <1>10, <2>2 DEF ForsSk, AdrsInv, FlowInv, TypeInv, ForsPcs, LayerPcs, ForsTreePcs, XmssPcs
<1>11. ASSUME ForsAuthCall PROVE AdrsInv'
  BY <1>0, <1>11 DEF ForsAuthCall, AdrsInv, FlowInv, TypeInv, ForsPcs, LayerPcs, ForsTreePcs, XmssPcs
<1>12. ASSUME ForsAuthNode PROVE AdrsInv'
  BY <1>0, <1>12 DEF ForsAuthNode, AdrsInv, FlowInv, TypeInv, ForsPcs, LayerPcs, ForsTreePcs, XmssPcs
<1>13. ASSUME ForsSigned PROVE AdrsInv'
  BY <1>0, <1>13 DEF ForsSigned, AdrsInv, FlowInv, TypeInv, ForsPcs, LayerPcs, ForsTreePcs, XmssPcs
<1>14. ASSUME ForsPkLeaf PROVE AdrsInv'
  <2>1. adrs' = [adrs EXCEPT !.w6 = 0, !.w7 = Index]
    BY <1>14 DEF ForsPkLeaf
  <2>2. adrs'.layer = adrs.layer /\ adrs'.tree = adrs.tree /\ adrs'.kp = adrs.kp /\ adrs'.type = adrs.type
    BY <1>0, <2>1 DEF Adrs, Adrs
  <2>. QED
    BY <1>0, <1>14, <2>2 DEF ForsPkLeaf, AdrsInv, FlowInv, TypeInv, ForsPcs, LayerPcs, ForsTreePcs, XmssPcs
<1>15. ASSUME ForsClimb PROVE AdrsInv'
  <2>1. adrs' = [adrs EXCEPT !.w6 = t + 1, !.w7 = Shift(Index, t + 1)]
    BY <1>15 DEF ForsClimb
  <2>2. adrs'.layer = adrs.layer /\ adrs'.tree = adrs.tree /\ adrs'.kp = adrs.kp /\ adrs'.type = adrs.type
    BY <1>0, <2>1 DEF Adrs, Adrs
  <2>. QED
    BY <1>0, <1>15, <2>2 DEF ForsClimb, AdrsInv, FlowInv, TypeInv, ForsPcs, LayerPcs, ForsTreePcs, XmssPcs
<1>16. ASSUME ForsNextTree PROVE AdrsInv'
  BY <1>0, <1>16 DEF ForsNextTree, AdrsInv, FlowInv, TypeInv, ForsPcs, LayerPcs, ForsTreePcs, XmssPcs
<1>17. ASSUME ForsRoots PROVE AdrsInv'
  <2>1. adrs' = [ZeroAdrs EXCEPT !.tree = tree]
    BY <1>17 DEF ForsRoots
  <2>2. adrs'.layer = 0 /\ adrs'.tree = tree
    BY <1>0, <2>1 DEF Adrs, ZeroAdrs
  <2>. QED
    BY <1>0, <1>17, <2>2 DEF ForsRoots, AdrsInv, FlowInv, TypeInv, ForsPcs, LayerPcs, ForsTreePcs, XmssPcs
<1>18. ASSUME AuthCall PROVE AdrsInv'
  BY <1>0, <1>18 DEF AuthCall, AdrsInv, FlowInv, TypeInv, ForsPcs, LayerPcs, ForsTreePcs, XmssPcs
<1>19. ASSUME AuthNode PROVE AdrsInv'
  BY <1>0, <1>19 DEF AuthNode, AdrsInv, FlowInv, TypeInv, ForsPcs, LayerPcs, ForsTreePcs, XmssPcs
<1>20. ASSUME WotsSign PROVE AdrsInv'
  <2>1. adrs'.layer = adrs.layer /\ adrs'.tree = adrs.tree
    BY <1>20, WotsSignAdrs
  <2>. QED
    BY <1>0, <1>20, <2>1 DEF WotsSign, AdrsInv, FlowInv, ForsPcs, LayerPcs, ForsTreePcs, XmssPcs
<1>21. ASSUME WotsPk PROVE AdrsInv'
  <2>1. adrs' = SetTypeAndClear(adrs, "TREE")
    BY <1>21 DEF WotsPk
  <2>2. adrs'.layer = adrs.layer /\ adrs'.tree = adrs.tree /\ adrs'.type = "TREE" /\ adrs'.kp = 0
    BY <1>0, <2>1 DEF Adrs, SetTypeAndClearNotKp, SetTypeAndClear
  <2>. QED
    BY <1>0, <1>21, <2>2 DEF WotsPk, AdrsInv, FlowInv, TypeInv, ForsPcs, LayerPcs, ForsTreePcs, XmssPcs
<1>22. ASSUME Climb PROVE AdrsInv'
  <2>1. adrs' = [adrs EXCEPT !.w6 = t + 1, !.w7 = Shift(leaf, t + 1)]
    BY <1>22 DEF Climb
  <2>2. adrs'.layer = adrs.layer /\ adrs'.tree = adrs.tree /\ adrs'.kp = adrs.kp /\ adrs'.type = adrs.type
    BY <1>0, <2>1 DEF Adrs, Adrs
  <2>. QED
    BY <1>0, <1>22, <2>2 DEF Climb, AdrsInv, FlowInv, TypeInv, ForsPcs, LayerPcs, ForsTreePcs, XmssPcs
<1>23. ASSUME NextLayer PROVE AdrsInv'
  <2>1. adrs' = [adrs EXCEPT !.layer = layer', !.tree = tree']
    BY <1>23 DEF NextLayer
  <2>2. adrs'.layer = layer' /\ adrs'.tree = tree'
    BY <1>0, <2>1 DEF Adrs, Adrs
  <2>. QED
    BY <1>0, <1>23, <2>2 DEF NextLayer, AdrsInv, FlowInv, TypeInv, ForsPcs, LayerPcs, ForsTreePcs, XmssPcs
<1>24. ASSUME Compare PROVE AdrsInv'
  BY <1>0, <1>24 DEF Compare, AdrsInv, FlowInv, TypeInv, ForsPcs, LayerPcs, ForsTreePcs, XmssPcs
<1>. QED
  BY <1>1, <1>2, <1>3, <1>4, <1>5, <1>6, <1>7, <1>8, <1>9, <1>10, <1>11, <1>12, <1>13, <1>14, <1>15, <1>16, <1>17, <1>18, <1>19, <1>20, <1>21, <1>22, <1>23, <1>24, Zenon DEF Next

-----------------------------------------------------------------------------
(***************************************************************************)
(* The right input of each kind of hash.                                   *)
(***************************************************************************)
LEMMA AdrsIs ==
  ASSUME NEW r \in Adrs
  PROVE  r = [layer |-> r.layer, tree |-> r.tree, type |-> r.type, kp |-> r.kp, w6 |-> r.w6, w7 |-> r.w7]
BY DEF Adrs

LEMMA XTreeInput ==
  ASSUME NEW l \in Nat, NEW tr \in Nat, NEW k \in Nat, NEW u \in Nat,
         NEW a, a = [layer |-> l, tree |-> tr, type |-> "TREE", kp |-> 0, w6 |-> k + 1, w7 |-> u]
  PROVE  /\ XNode(l, tr, k + 1, u) = Value(a)
         /\ Input(a) = <<XNode(l, tr, k, 2 * u), XNode(l, tr, k, 2 * u + 1)>>
<1>1. XNode(l, tr, k + 1, u) = Value(a)
  <2>1. k + 1 # 0
    OBVIOUS
  <2>. QED
    BY <2>1 DEF XNode
<1>2. CASE k = 0
  <2>1. a.type = "TREE" /\ a.w6 = 1 /\ a.w7 = u
    BY <1>2
  <2>2. Input(a) = <<Value([SetTypeAndClear(a, "WOTS_PK") EXCEPT !.kp = 2 * a.w7]),
                     Value([SetTypeAndClear(a, "WOTS_PK") EXCEPT !.kp = 2 * a.w7 + 1])>>
    BY <2>1, InputOf
  <2>3. ASSUME NEW n \in Nat PROVE Value([SetTypeAndClear(a, "WOTS_PK") EXCEPT !.kp = n]) = XNode(l, tr, 0, n)
    <3> DEFINE b == [SetTypeAndClear(a, "WOTS_PK") EXCEPT !.kp = n]
    <3>1. b \in Adrs /\ b.layer = l /\ b.tree = tr /\ b.type = "WOTS_PK" /\ b.kp = n /\ b.w6 = 0 /\ b.w7 = 0
      BY DEF SetTypeAndClear, SetTypeAndClearNotKp, Adrs, Types
    <3> HIDE DEF b
    <3>2. b = [layer |-> l, tree |-> tr, type |-> "WOTS_PK", kp |-> n, w6 |-> 0, w7 |-> 0]
      BY <3>1, AdrsIs
    <3>3. Value(b) = XNode(l, tr, 0, n)
      BY <3>2 DEF XNode
    <3>. QED
      BY <3>3 DEF b
  <2>4. 2 * u \in Nat /\ 2 * u + 1 \in Nat
    OBVIOUS
  <2>. QED
    BY <1>1, <1>2, <2>1, <2>2, <2>3, <2>4
<1>3. CASE k # 0
  <2>1. a.type = "TREE" /\ a.w6 # 1 /\ a.w7 = u /\ a.w6 - 1 = k
    BY <1>3
  <2>2. Input(a) = <<Value([a EXCEPT !.w6 = @ - 1, !.w7 = 2 * a.w7]),
                     Value([a EXCEPT !.w6 = @ - 1, !.w7 = 2 * a.w7 + 1])>>
    BY <2>1, InputOf
  <2>3. ASSUME NEW n \in Nat PROVE Value([a EXCEPT !.w6 = @ - 1, !.w7 = n]) = XNode(l, tr, k, n)
    <3> DEFINE b == [a EXCEPT !.w6 = @ - 1, !.w7 = n]
    <3>1. b \in Adrs /\ b.layer = l /\ b.tree = tr /\ b.type = "TREE" /\ b.kp = 0 /\ b.w6 = k /\ b.w7 = n
      BY <2>1 DEF Adrs, Types
    <3> HIDE DEF b
    <3>2. b = [layer |-> l, tree |-> tr, type |-> "TREE", kp |-> 0, w6 |-> k, w7 |-> n]
      BY <3>1, AdrsIs
    <3>3. Value(b) = XNode(l, tr, k, n)
      BY <1>3, <3>2 DEF XNode
    <3>. QED
      BY <3>3 DEF b
  <2>4. 2 * u \in Nat /\ 2 * u + 1 \in Nat
    OBVIOUS
  <2>. QED
    BY <1>1, <2>1, <2>2, <2>3, <2>4
<1>. QED
  BY <1>2, <1>3

LEMMA FTreeInput ==
  ASSUME NEW d \in Digests, NEW k \in Nat, NEW u \in Nat
  PROVE  /\ FNode(d, k + 1, u) = Value(FAdrs(d, "FORS_TREE", k + 1, u))
         /\ Input(FAdrs(d, "FORS_TREE", k + 1, u)) = <<FNode(d, k, 2 * u), FNode(d, k, 2 * u + 1)>>
<1>0. PICK a : a = FAdrs(d, "FORS_TREE", k + 1, u)
  OBVIOUS
<1>1. /\ a \in Adrs /\ a.layer = 0 /\ a.tree = d.tree /\ a.kp = d.leaf /\ a.type = "FORS_TREE"
      /\ a.w6 = k + 1 /\ a.w6 # 0 /\ a.w7 = u
  <2>1. d.tree \in Nat /\ d.leaf \in Nat
    BY DigestTypes
  <2>. QED
    BY <1>0, <2>1 DEF FAdrs, Adrs, Types
<1>2. Input(a) = <<Value([a EXCEPT !.w6 = @ - 1, !.w7 = 2 * a.w7]),
                   Value([a EXCEPT !.w6 = @ - 1, !.w7 = 2 * a.w7 + 1])>>
  BY <1>1, InputOf
<1>3. ASSUME NEW n \in Nat PROVE Value([a EXCEPT !.w6 = @ - 1, !.w7 = n]) = FNode(d, k, n)
  <2> DEFINE b == [a EXCEPT !.w6 = @ - 1, !.w7 = n]
  <2>1. b \in Adrs /\ b.layer = 0 /\ b.tree = d.tree /\ b.type = "FORS_TREE" /\ b.kp = d.leaf
        /\ b.w6 = k /\ b.w7 = n
    <3>1. a.w6 - 1 = k
      BY <1>1
    <3>. QED
      BY <1>1, <3>1 DEF Adrs
  <2> HIDE DEF b
  <2>2. b = FAdrs(d, "FORS_TREE", k, n)
    BY <2>1, AdrsIs DEF FAdrs
  <2>3. Value(b) = FNode(d, k, n)
    BY <2>2 DEF FNode
  <2>. QED
    BY <2>3 DEF b
<1>4. Value([a EXCEPT !.w6 = @ - 1, !.w7 = 2 * a.w7]) = FNode(d, k, 2 * u)
  <2>1. 2 * u \in Nat
    OBVIOUS
  <2>. QED
    BY <1>1, <1>3, <2>1, Zenon
<1>5. Value([a EXCEPT !.w6 = @ - 1, !.w7 = 2 * a.w7 + 1]) = FNode(d, k, 2 * u + 1)
  <2>1. 2 * u + 1 \in Nat
    OBVIOUS
  <2>. QED
    BY <1>1, <1>3, <2>1, Zenon
<1>. QED
  BY <1>0, <1>2, <1>4, <1>5, Zenon DEF FNode

LEMMA FLeafInput ==
  ASSUME NEW d, NEW u \in Nat
  PROVE  /\ FNode(d, 0, u) = Value(FAdrs(d, "FORS_TREE", 0, u))
         /\ Input(FAdrs(d, "FORS_TREE", 0, u)) = <<Value(FAdrs(d, "FORS_PRF", 0, u))>>
         /\ Input(FAdrs(d, "FORS_PRF", 0, u)) = <<Seed>>
<1> DEFINE a == FAdrs(d, "FORS_TREE", 0, u)
           b == FAdrs(d, "FORS_PRF", 0, u)
<1>1. a.type = "FORS_TREE" /\ a.w6 = 0 /\ SetType(a, "FORS_PRF") = b /\ b.type = "FORS_PRF"
  BY DEF FAdrs, SetType
<1> HIDE DEF a, b
<1>2. Input(a) = <<Value(b)>> /\ Input(b) = <<Seed>>
  BY <1>1, InputOf
<1>. QED
  BY <1>2 DEF a, b, FNode

LEMMA WotsPkInput ==
  ASSUME NEW a \in Adrs, NEW l \in Nat, NEW tr \in Nat, NEW lf \in Nat,
         a.layer = l, a.tree = tr, a.kp = lf, a.type = "WOTS_PK", a.w6 = 0, a.w7 = 0
  PROVE  /\ XNode(l, tr, 0, lf) = Value(a)
         /\ Input(a) = [c \in 1 .. Len12 |-> ChainValue(WotsAdrs(l, tr, lf, c), W - 1)]
<1>1. XNode(l, tr, 0, lf) = Value(a)
  BY AdrsIs DEF XNode
<1>2. a.type = "WOTS_PK"
  OBVIOUS
<1>3. Input(a) = [c \in 1 .. Len12 |-> Value([a EXCEPT !.type = "WOTS_HASH", !.w6 = c - 1, !.w7 = W - 2])]
  BY <1>2, InputOf
<1>4. ASSUME NEW c \in 1 .. Len12
      PROVE  Value([a EXCEPT !.type = "WOTS_HASH", !.w6 = c - 1, !.w7 = W - 2])
               = ChainValue(WotsAdrs(l, tr, lf, c), W - 1)
  <2> DEFINE b == [a EXCEPT !.type = "WOTS_HASH", !.w6 = c - 1, !.w7 = W - 2]
             e == [WotsAdrs(l, tr, lf, c) EXCEPT !.type = "WOTS_HASH", !.w7 = W - 2]
  <2>1. W - 1 # 0 /\ (W - 1) - 1 = W - 2 /\ W - 2 \in Nat /\ c - 1 \in Nat
    BY DigitSizes
  <2>2. b \in Adrs /\ b.layer = l /\ b.tree = tr /\ b.type = "WOTS_HASH" /\ b.kp = lf
        /\ b.w6 = c - 1 /\ b.w7 = W - 2
    BY <2>1 DEF Adrs, Types
  <2>3. e \in Adrs /\ e.layer = l /\ e.tree = tr /\ e.type = "WOTS_HASH" /\ e.kp = lf
        /\ e.w6 = c - 1 /\ e.w7 = W - 2
    BY <2>1 DEF Adrs, Types, WotsAdrs
  <2>4. ChainValue(WotsAdrs(l, tr, lf, c), W - 1) = Value(e)
    BY <2>1 DEF ChainValue
  <2> HIDE DEF b, e
  <2>5. b = e
    BY <2>2, <2>3, AdrsIs
  <2>. QED
    BY <2>4, <2>5 DEF b
<1>. QED
  BY <1>1, <1>3, <1>4

\* Type and hash address do not matter to a chain.
LEMMA ChainPlace ==
  ASSUME NEW a \in Adrs, NEW l \in Nat, NEW tr \in Nat, NEW lf \in Nat, NEW c \in Nat \ {0}, NEW s \in Nat,
         a.layer = l, a.tree = tr, a.kp = lf, a.w6 = c - 1
  PROVE  ChainValue(a, s) = ChainValue(WotsAdrs(l, tr, lf, c), s)
<1>1. ASSUME NEW y \in Types, NEW n \in Nat
      PROVE  [a EXCEPT !.type = y, !.w7 = n] = [WotsAdrs(l, tr, lf, c) EXCEPT !.type = y, !.w7 = n]
  <2> DEFINE b == [a EXCEPT !.type = y, !.w7 = n]
             e == [WotsAdrs(l, tr, lf, c) EXCEPT !.type = y, !.w7 = n]
  <2>1. b \in Adrs /\ b.layer = l /\ b.tree = tr /\ b.type = y /\ b.kp = lf /\ b.w6 = c - 1 /\ b.w7 = n
    BY DEF Adrs
  <2>2. e \in Adrs /\ e.layer = l /\ e.tree = tr /\ e.type = y /\ e.kp = lf /\ e.w6 = c - 1 /\ e.w7 = n
    BY DEF Adrs, WotsAdrs
  <2> HIDE DEF b, e
  <2>3. b = e
    BY <2>1, <2>2, AdrsIs
  <2>. QED
    BY <2>3 DEF b, e
<1>2. "WOTS_PRF" \in Types /\ "WOTS_HASH" \in Types
  BY DEF Types
<1>3. CASE s = 0
  BY <1>1, <1>2, <1>3 DEF ChainValue
<1>4. CASE s # 0
  <2>1. s - 1 \in Nat
    BY <1>4
  <2>. QED
    BY <1>1, <1>2, <1>4, <2>1 DEF ChainValue
<1>. QED
  BY <1>3, <1>4

-----------------------------------------------------------------------------
(***************************************************************************)
(* xmss_node and fors_node.                                                *)
(***************************************************************************)

\* Nothing that the node at hand depends on changes.
Same(pc1) == (pc' \in ForsTreePcs <=> pc \in ForsTreePcs) /\ pc' = pc1
             /\ UNCHANGED <<op, dg, tree, leaf, layer, i, t>>

LEMMA SameNode ==
  ASSUME NEW pc1, Same(pc1)
  PROVE  Called' = Called /\ Height' = Height /\ \A k, x : NodeAt(k, x)' = NodeAt(k, x)
BY DEF Same, Called, Height, NodeAt, FNode, FAdrs, XNode, Value

LEMMA CalledTyped ==
  ASSUME Inv1, pc \in ForsTreePcs \cup XmssPcs
  PROVE  Called \in Nat
<1>1. TypeInv /\ FlowInv /\ dg \in Digests /\ t \in Nat /\ i \in 0 .. K /\ leaf \in Nat
  BY DEF Inv1, TypeInv
<1>2. CASE pc \in ForsTreePcs
  <2>1. i \in 0 .. K - 1 /\ t \in 0 .. A
    BY <1>1, <1>2, Sizes DEF FlowInv
  <2>. QED
    BY <1>1, <1>2, <2>1, CalledNat DEF Called
<1>3. CASE pc \notin ForsTreePcs
  <2>1. Sibling(Shift(leaf, t)) \in Nat
    BY <1>1, ShiftNat, SiblingNat
  <2>. QED
    BY <1>3, <2>1 DEF Called
<1>. QED
  BY <1>2, <1>3

LEMMA PushLeaf ==
  ASSUME Inv1, pc \in {"xleaf", "fleaf"}, Same(IF pc = "xleaf" THEN "xmerge" ELSE "fmerge"),
         NEW v, v = NodeAt(0, nd.i),
         /\ nd'.i = nd.i /\ nd'.z = nd.z /\ nd'.j = nd.j /\ nd'.p = nd.p + 1 /\ nd'.k = 0
         /\ \A u \in 0 .. Deepest : nd'.h[u] = IF u = nd.p + 1 THEN v ELSE nd.h[u]
  PROVE  NodeInv' 
<1>1. /\ nd.z \in 0 .. Deepest /\ nd.z \in Nat /\ nd.j \in Nat /\ nd.p \in Nat \cup {-1}
      /\ TypeInv /\ NodeInv
  BY Sizes DEF Inv1, TypeInv, NodeType
<1>2. nd.z = Height /\ nd.i = Called * 2 ^ nd.z + nd.j /\ nd.j < 2 ^ nd.z
  BY <1>1 DEF NodeInv, ForsTreePcs, XmssPcs
<1>3. PICK hs, c : LeafCut(nd.z, nd.j, nd.p, hs, c) /\ Holds(hs, c)
  BY <1>1 DEF NodeInv
<1>4. /\ nd'.i = nd.i /\ nd'.z = nd.z /\ nd'.j = nd.j /\ nd'.p = nd.p + 1 /\ nd'.k = 0
      /\ \A u \in 0 .. Deepest : nd'.h[u] = IF u = nd.p + 1 THEN v ELSE nd.h[u]
  OBVIOUS
<1>5. Called' = Called /\ Height' = Height /\ \A k, x : NodeAt(k, x)' = NodeAt(k, x)
  BY SameNode
<1>6. PICK hs1, c1 : /\ MergeCut(nd.z, nd.j + 1, nd.p + 1, hs1, c1)
                     /\ \A s \in 0 .. nd.p : hs1[s] = hs[s] /\ c1[s] = c[s]
                     /\ hs1[nd.p + 1] = 0 /\ c1[nd.p + 1] = nd.j
  BY <1>1, <1>3, CutPush
<1>8. nd.p + 1 <= nd.z /\ nd.p + 1 \in Nat
  BY <1>1, <1>6 DEF MergeCut
<1>9. ASSUME NEW s \in 0 .. nd.p + 1
      PROVE  nd'.h[s] = NodeAt(hs1[s], Called * 2 ^ (nd.z - hs1[s]) + c1[s])
  <2>1. s \in 0 .. Deepest
    BY <1>1, <1>8, Sizes
  <2>2. CASE s = nd.p + 1
    <3>1. nd.z - 0 = nd.z
      BY <1>1
    <3>. QED
      BY <2>1, <2>2, <3>1, <1>2, <1>4, <1>6
  <2>3. CASE s # nd.p + 1
    <3>1. s \in 0 .. nd.p
      BY <2>3, <1>1
    <3>2. nd'.h[s] = nd.h[s]
      BY <2>1, <2>3, <1>4
    <3>3. nd.h[s] = NodeAt(hs[s], Called * 2 ^ (nd.z - hs[s]) + c[s])
      BY <3>1, <1>3 DEF Holds
    <3>. QED
      BY <3>1, <3>2, <3>3, <1>6
  <2>. QED
    BY <2>2, <2>3
<1>10. Holds(hs1, c1)'
  BY <1>4, <1>5, <1>9, Zenon DEF Holds
<1>11. pc' \in {"xmerge", "fmerge"}
  BY DEF Same
<1>12. MergeCut(nd'.z, nd'.j + 1, nd'.p, hs1, c1) /\ nd'.k = hs1[nd'.p]
  BY <1>4, <1>6
<1>13. nd'.j < 2 ^ nd'.z /\ nd'.z = Height' /\ nd'.i = Called' * 2 ^ nd'.z + nd'.j
  BY <1>2, <1>4, <1>5
<1>. QED
  BY <1>10, <1>11, <1>12, <1>13, Zenon DEF NodeInv

LEMMA MergeTwo ==
  ASSUME Inv1, pc \in {"xmerge", "fmerge"}, OddRound, Same(pc),
         NEW v, nd' = [Put(nd.p - 1, v) EXCEPT !.p = nd.p - 1, !.k = @ + 1],
         LET u == Shift(nd.i, nd.k + 1)
         IN  u \in Nat /\ nd.h[nd.p - 1] = NodeAt(nd.k, 2 * u) /\ nd.h[nd.p] = NodeAt(nd.k, 2 * u + 1)
               => v = NodeAt(nd.k + 1, u)
  PROVE  NodeInv'
<1>1. /\ nd.z \in 0 .. Deepest /\ nd.z \in Nat /\ nd.j \in Nat /\ nd.k \in Nat
      /\ TypeInv /\ NodeInv /\ nd.p \in Nat /\ nd.p > 0
  BY Sizes, MergePossible DEF Inv1, TypeInv, NodeType
<1>2. nd.z = Height /\ nd.i = Called * 2 ^ nd.z + nd.j /\ nd.j < 2 ^ nd.z
  BY <1>1 DEF NodeInv, ForsTreePcs, XmssPcs
<1>3. PICK hs, c : MergeCut(nd.z, nd.j + 1, nd.p, hs, c) /\ Holds(hs, c) /\ nd.k = hs[nd.p]
  BY <1>1 DEF NodeInv
<1>4. /\ nd'.i = nd.i /\ nd'.z = nd.z /\ nd'.j = nd.j /\ nd'.p = nd.p - 1 /\ nd'.k = nd.k + 1
      /\ \A u \in 0 .. Deepest : nd'.h[u] = IF u = nd.p - 1 THEN v ELSE nd.h[u]
  BY <1>1, MergeNode, Zenon
<1>5. Called' = Called /\ Height' = Height /\ \A k, x : NodeAt(k, x)' = NodeAt(k, x)
  BY SameNode
<1>6. c[nd.p] % 2 = 1
  <2>1. Shift(nd.j, hs[nd.p]) = c[nd.p]
    BY <1>1, <1>3, CutShift
  <2>. QED
    BY <1>3, <2>1 DEF OddRound
<1>7. hs[nd.p - 1] = nd.k /\ nd.p <= nd.z
  <2>1. nd.j + 1 \in Nat
    BY <1>1
  <2>2. hs[nd.p - 1] = hs[nd.p]
    <3>1. PICK n \in Nat : n = nd.j + 1
      BY <2>1
    <3>2. MergeCut(nd.z, n, nd.p, hs, c)
      BY <1>3, <3>1
    <3>. QED
      BY <1>1, <1>6, <3>2, CutOdd
  <2>. QED
    BY <1>1, <1>3, <2>2 DEF MergeCut
<1>8. PICK x \in Nat : x = Called
  BY CalledTyped DEF ForsTreePcs, XmssPcs
<1>9. PICK u \in Nat : /\ u = Shift(nd.i, nd.k + 1)
                       /\ u = x * 2 ^ (nd.z - (nd.k + 1)) + (c[nd.p] - 1) \div 2
                       /\ 2 * u = x * 2 ^ (nd.z - hs[nd.p - 1]) + c[nd.p - 1]
                       /\ 2 * u + 1 = x * 2 ^ (nd.z - hs[nd.p]) + c[nd.p]
  <2>1. nd.i = x * 2 ^ nd.z + nd.j
    BY <1>2, <1>8
  <2>2. nd.j + 1 \in Nat /\ MergeCut(nd.z, nd.j + 1, nd.p, hs, c)
    BY <1>1, <1>3
  <2>3. nd.k = hs[nd.p]
    BY <1>3
  <2>4. Merged(x, nd.z, nd.j, hs, c, nd.p)
    BY <1>1, <1>6, <2>2, CutIndex
  <2>. QED
    BY <2>1, <2>3, <2>4 DEF Merged
<1>10. nd.h[nd.p - 1] = NodeAt(nd.k, 2 * u) /\ nd.h[nd.p] = NodeAt(nd.k, 2 * u + 1)
  <2>1. nd.p \in 0 .. nd.p /\ nd.p - 1 \in 0 .. nd.p
    BY <1>1
  <2>2. /\ nd.h[nd.p] = NodeAt(hs[nd.p], x * 2 ^ (nd.z - hs[nd.p]) + c[nd.p])
        /\ nd.h[nd.p - 1] = NodeAt(hs[nd.p - 1], x * 2 ^ (nd.z - hs[nd.p - 1]) + c[nd.p - 1])
    BY <1>3, <1>8, <2>1 DEF Holds
  <2>3. /\ nd.h[nd.p] = NodeAt(hs[nd.p], 2 * u + 1)
        /\ nd.h[nd.p - 1] = NodeAt(hs[nd.p - 1], 2 * u)
    BY <1>9, <2>2, ZenonT(60)
  <2>4. hs[nd.p] = nd.k /\ hs[nd.p - 1] = nd.k
    BY <1>3, <1>7
  <2>. QED
    BY <2>3, <2>4, ZenonT(60)
<1>11. v = NodeAt(nd.k + 1, x * 2 ^ (nd.z - (nd.k + 1)) + (c[nd.p] - 1) \div 2)
  BY <1>9, <1>10
<1>12. PICK hs1, c1 : /\ MergeCut(nd.z, nd.j + 1, nd.p - 1, hs1, c1)
                      /\ \A s \in 0 .. nd.p - 2 : hs1[s] = hs[s] /\ c1[s] = c[s]
                      /\ hs1[nd.p - 1] = nd.k + 1 /\ c1[nd.p - 1] = (c[nd.p] - 1) \div 2
  <2> DEFINE hs1 == [s \in 0 .. nd.p - 1 |-> IF s = nd.p - 1 THEN hs[nd.p] + 1 ELSE hs[s]]
             c1  == [s \in 0 .. nd.p - 1 |-> IF s = nd.p - 1 THEN (c[nd.p] - 1) \div 2 ELSE c[s]]
  <2>1. nd.j + 1 \in Nat /\ nd.j + 1 <= 2 ^ nd.z
    BY <1>1, <1>2, TwoPositive
  <2>2. MergeCut(nd.z, nd.j + 1, nd.p - 1, hs1, c1)
    <3>1. nd.z \in Nat /\ nd.p \in Nat /\ MergeCut(nd.z, nd.j + 1, nd.p, hs, c) /\ c[nd.p] % 2 = 1
      BY <1>1, <1>3, <1>6
    <3>. QED
      BY <2>1, <3>1, CutMerge, SMTT(60)
  <2>3. /\ \A s \in 0 .. nd.p - 2 : hs1[s] = hs[s] /\ c1[s] = c[s]
        /\ hs1[nd.p - 1] = nd.k + 1 /\ c1[nd.p - 1] = (c[nd.p] - 1) \div 2
    BY <1>1, <1>3, SMTT(60)
  <2> HIDE DEF hs1, c1
  <2>. QED
    BY <2>2, <2>3
<1>13. ASSUME NEW s \in 0 .. nd.p - 1
       PROVE  nd'.h[s] = NodeAt(hs1[s], Called * 2 ^ (nd.z - hs1[s]) + c1[s])
  <2>1. s \in 0 .. Deepest /\ s \in 0 .. nd.p
    BY <1>1, <1>7, Sizes
  <2>2. CASE s = nd.p - 1
    BY <2>1, <2>2, <1>4, <1>8, <1>11, <1>12
  <2>3. CASE s # nd.p - 1
    <3>1. s \in 0 .. nd.p - 2
      BY <2>3, <1>1
    <3>2. nd'.h[s] = nd.h[s]
      BY <2>1, <2>3, <1>4
    <3>3. nd.h[s] = NodeAt(hs[s], Called * 2 ^ (nd.z - hs[s]) + c[s])
      BY <2>1, <1>3 DEF Holds
    <3>. QED
      BY <3>1, <3>2, <3>3, <1>12
  <2>. QED
    BY <2>2, <2>3
<1>14. Holds(hs1, c1)'
  BY <1>4, <1>5, <1>13, Zenon DEF Holds
<1>15. pc' \in {"xmerge", "fmerge"}
  BY DEF Same
<1>16. MergeCut(nd'.z, nd'.j + 1, nd'.p, hs1, c1) /\ nd'.k = hs1[nd'.p]
  BY <1>4, <1>12
<1>17. nd'.j < 2 ^ nd'.z /\ nd'.z = Height' /\ nd'.i = Called' * 2 ^ nd'.z + nd'.j
  BY <1>2, <1>4, <1>5
<1>. QED
  BY <1>14, <1>15, <1>16, <1>17, Zenon DEF NodeInv

LEMMA NextLeaf ==
  ASSUME Inv1, NodeNext
  PROVE  NodeInv'
<1>1. /\ nd.z \in Nat /\ nd.j \in Nat /\ nd.p \in Nat /\ nd.i \in Nat
      /\ TypeInv /\ NodeInv /\ pc \in {"xmerge", "fmerge"} /\ ~OddRound
  BY Sizes, MergePossible DEF Inv1, TypeInv, NodeType, NodeNext
<1>2. nd.z = Height /\ nd.i = Called * 2 ^ nd.z + nd.j /\ nd.j < 2 ^ nd.z
  BY <1>1 DEF NodeInv, ForsTreePcs, XmssPcs
<1>3. PICK hs, c : MergeCut(nd.z, nd.j + 1, nd.p, hs, c) /\ Holds(hs, c) /\ nd.k = hs[nd.p]
  BY <1>1 DEF NodeInv
<1>4. /\ nd'.i = nd.i + 1 /\ nd'.z = nd.z /\ nd'.j = nd.j + 1 /\ nd'.p = nd.p /\ nd'.h = nd.h
  BY <1>1, NextNode DEF NodeNext
<1>5. pc' = IF nd.j + 1 < 2 ^ nd.z
            THEN (IF pc = "xmerge" THEN "xleaf" ELSE "fleaf")
            ELSE (IF pc = "xmerge" THEN "xdone" ELSE "fdone")
  BY DEF NodeNext
<1>6. Called' = Called /\ Height' = Height /\ \A k, x : NodeAt(k, x)' = NodeAt(k, x)
  <2>1. Same(pc')
    BY <1>1, <1>5 DEF NodeNext, Same, ForsTreePcs
  <2>. QED
    BY <2>1, SameNode
<1>7. c[nd.p] % 2 = 0
  <2>1. Shift(nd.j, hs[nd.p]) = c[nd.p]
    BY <1>1, <1>3, CutShift
  <2>2. c[nd.p] \in Nat
    BY <1>1, <1>3 DEF MergeCut, Cut
  <2>. QED
    BY <1>1, <1>3, <2>1, <2>2 DEF OddRound
<1>8. PICK x, b \in Nat : x = Called /\ b = 2 ^ nd.z
  BY <1>1, CalledTyped, TwoPositive DEF ForsTreePcs, XmssPcs
<1>9. nd'.z = Height' /\ nd'.i = Called' * 2 ^ nd'.z + nd'.j
  <2>1. nd.i + 1 = x * b + (nd.j + 1)
    BY <1>1, <1>2, <1>8
  <2>. QED
    BY <2>1, <1>2, <1>4, <1>6, <1>8
<1>10. CASE nd.j + 1 < 2 ^ nd.z
  <2>1. pc' \in {"xleaf", "fleaf"}
    BY <1>5, <1>10
  <2>2. LeafCut(nd.z, nd.j + 1, nd.p, hs, c)
    <3>1. PICK n \in Nat : n = nd.j + 1
      BY <1>1
    <3>2. LeafCut(nd.z, n, nd.p, hs, c)
      BY <1>1, <1>3, <1>7, <1>10, <3>1, CutNext
    <3>. QED
      BY <3>1, <3>2
  <2>3. LeafCut(nd'.z, nd'.j, nd'.p, hs, c) /\ nd'.j < 2 ^ nd'.z
    BY <2>2, <1>4, <1>10
  <2>4. Holds(hs, c)'
    BY <1>3, <1>4, <1>6, Zenon DEF Holds
  <2>. QED
    BY <2>1, <2>3, <2>4, <1>9, Zenon DEF NodeInv
<1>11. CASE ~ (nd.j + 1 < 2 ^ nd.z)
  <2>1. pc' \in {"xdone", "fdone"}
    BY <1>5, <1>11
  <2>2. nd.j + 1 = 2 ^ nd.z
    BY <1>1, <1>2, <1>8, <1>11
  <2>3. MergeCut(nd.z, 2 ^ nd.z, nd.p, hs, c)
    BY <2>2, <1>3
  <2>4. nd.p = 0 /\ hs[0] = nd.z /\ c[0] = 0
    BY <2>3, <1>1, <1>7, CutLast
  <2>5. nd.h[0] = NodeAt(nd.z, Called)
    <3>1. 0 \in 0 .. nd.p
      BY <2>4
    <3>2. nd.h[0] = NodeAt(hs[0], Called * 2 ^ (nd.z - hs[0]) + c[0])
      BY <1>3, <3>1 DEF Holds
    <3>3. x * 2 ^ (nd.z - nd.z) + 0 = x
      <4>1. nd.z - nd.z = 0
        BY <1>1
      <4>2. 2 ^ (nd.z - nd.z) = 1
        BY <4>1, TwoZero, Zenon
      <4>3. x * 1 + 0 = x
        BY <1>8
      <4>. QED
        BY <4>2, <4>3, Zenon
    <3>. QED
      BY <3>2, <3>3, <2>4, <1>8
  <2>6. nd'.j = 2 ^ nd'.z /\ nd'.h[0] = NodeAt(nd.z, Called)'
    BY <2>2, <2>5, <1>4, <1>6, Zenon
  <2>. QED
    BY <2>1, <2>6, <1>9, Zenon DEF NodeInv
<1>. QED
  BY <1>10, <1>11

LEMMA CallsNode ==
  ASSUME TypeInv, NEW x \in Nat, NEW z \in 0 .. Deepest, nd' = Node(x, z),
         pc' \in {"xleaf", "fleaf"}, Called' = x, Height' = z
  PROVE  NodeInv'
<1>1. nd'.i = x * 2 ^ z /\ nd'.z = z /\ nd'.j = 0 /\ nd'.p = -1
  BY CallNode
<1>2. z \in Nat
  BY Sizes
<1>3. PICK b \in Nat \ {0} : b = 2 ^ z
  BY <1>2, TwoPositive
<1>4. nd'.z = Height' /\ nd'.i = Called' * 2 ^ nd'.z + nd'.j /\ nd'.j < 2 ^ nd'.z
  BY <1>1, <1>3
<1>5. PICK hs : hs = [s \in 0 .. -1 |-> 0] /\ hs \in [0 .. -1 -> Nat]
  <2> DEFINE hs == [s \in 0 .. -1 |-> 0]
  <2>1. hs = [s \in 0 .. -1 |-> 0] /\ hs \in [0 .. -1 -> Nat]
    OBVIOUS
  <2>. QED
    BY <2>1
<1>6. LeafCut(z, 0, -1, hs, hs)
  BY <1>5 DEF LeafCut, Cut, Room
<1>7. Holds(hs, hs)'
  BY <1>1 DEF Holds
<1>. QED
  BY <1>1, <1>4, <1>6, <1>7 DEF NodeInv

LEMMA NotInNode ==
  ASSUME pc' \notin ForsTreePcs \cup XmssPcs
  PROVE  NodeInv'
BY DEF NodeInv, ForsTreePcs, XmssPcs

\* What each hash of the node functions gives.
LEMMA XLeafValue ==
  ASSUME NEW a \in Adrs, NEW l \in Nat, NEW tr \in Nat, NEW lf \in Nat,
         a.layer = l, a.tree = tr, a.kp = lf
  PROVE  Hash(SetTypeAndClearNotKp(a, "WOTS_PK"), [c \in 1 .. Len12 |-> WotsChain([a EXCEPT !.w6 = c - 1], W - 1)])
           = XNode(l, tr, 0, lf)
<1> DEFINE pk == SetTypeAndClearNotKp(a, "WOTS_PK")
           tmp == [c \in 1 .. Len12 |-> WotsChain([a EXCEPT !.w6 = c - 1], W - 1)]
<1>1. /\ pk \in Adrs /\ pk.layer = l /\ pk.tree = tr /\ pk.type = "WOTS_PK" /\ pk.kp = lf
      /\ pk.w6 = 0 /\ pk.w7 = 0
  BY DEF SetTypeAndClearNotKp, Adrs, Types
<1>2. ASSUME NEW c \in 1 .. Len12
      PROVE  WotsChain([a EXCEPT !.w6 = c - 1], W - 1) = ChainValue(WotsAdrs(l, tr, lf, c), W - 1)
  <2> DEFINE b == [a EXCEPT !.w6 = c - 1]
  <2>1. c - 1 \in Nat /\ W - 1 \in Nat /\ c \in Nat \ {0}
    BY DigitSizes
  <2>2. b \in Adrs /\ b.layer = l /\ b.tree = tr /\ b.kp = lf /\ b.w6 = c - 1
    BY <2>1 DEF Adrs
  <2> HIDE DEF b
  <2>3. WotsChain(b, W - 1) = ChainValue(b, W - 1)
    BY <2>1, <2>2, WotsChainRight
  <2>4. ChainValue(b, W - 1) = ChainValue(WotsAdrs(l, tr, lf, c), W - 1)
    BY <2>1, <2>2, ChainPlace
  <2>. QED
    BY <2>3, <2>4 DEF b
<1>3. tmp = [c \in 1 .. Len12 |-> ChainValue(WotsAdrs(l, tr, lf, c), W - 1)]
  BY <1>2
<1> HIDE DEF pk, tmp
<1>4. Input(pk) = tmp /\ XNode(l, tr, 0, lf) = Value(pk)
  <2>1. /\ Input(pk) = [c \in 1 .. Len12 |-> ChainValue(WotsAdrs(l, tr, lf, c), W - 1)]
        /\ XNode(l, tr, 0, lf) = Value(pk)
    BY <1>1, WotsPkInput
  <2>. QED
    BY <2>1, <1>3
<1>5. Hash(pk, tmp) = Value(pk)
  BY <1>4, RightHash
<1>. QED
  BY <1>4, <1>5 DEF pk, tmp

LEMMA XTreeValue ==
  ASSUME NEW a \in Adrs, NEW k \in Nat, NEW u \in Nat
  PROVE  Hash([SetTypeAndClear(a, "TREE") EXCEPT !.w6 = k + 1, !.w7 = u],
              <<XNode(a.layer, a.tree, k, 2 * u), XNode(a.layer, a.tree, k, 2 * u + 1)>>)
           = XNode(a.layer, a.tree, k + 1, u)
<1>0. PICK l, tr \in Nat : l = a.layer /\ tr = a.tree
  BY DEF Adrs
<1> DEFINE b == [SetTypeAndClear(a, "TREE") EXCEPT !.w6 = k + 1, !.w7 = u]
<1>1. b = [layer |-> l, tree |-> tr, type |-> "TREE", kp |-> 0, w6 |-> k + 1, w7 |-> u]
  <2>1. /\ b \in Adrs /\ b.layer = l /\ b.tree = tr /\ b.type = "TREE" /\ b.kp = 0
        /\ b.w6 = k + 1 /\ b.w7 = u
    <3>1. PICK n \in Nat : n = k + 1
      OBVIOUS
    <3>. QED
      BY <1>0, <3>1 DEF SetTypeAndClear, SetTypeAndClearNotKp, Adrs, Types
  <2> HIDE DEF b
  <2>. QED
    BY <2>1, AdrsIs
<1> HIDE DEF b
<1>2. XNode(l, tr, k + 1, u) = Value(b) /\ Input(b) = <<XNode(l, tr, k, 2 * u), XNode(l, tr, k, 2 * u + 1)>>
  BY <1>1, XTreeInput
<1>3. Hash(b, <<XNode(l, tr, k, 2 * u), XNode(l, tr, k, 2 * u + 1)>>) = Value(b)
  BY <1>2, RightHash
<1>. QED
  BY <1>0, <1>2, <1>3 DEF b

LEMMA FLeafValue ==
  ASSUME NEW d \in Digests, NEW a \in Adrs, NEW u \in Nat,
         a.layer = 0, a.tree = d.tree, a.kp = d.leaf, a.w7 = u
  PROVE  ForsSecret(a) = Value(FAdrs(d, "FORS_PRF", 0, u)) /\ ForsHashed(a) = FNode(d, 0, u)
<1> DEFINE p == ForsPrfAdrs(a)
           b == ForsLeafAdrs(a)
<1>1. p = FAdrs(d, "FORS_PRF", 0, u)
  <2>1. /\ p \in Adrs /\ p.layer = 0 /\ p.tree = d.tree /\ p.type = "FORS_PRF" /\ p.kp = d.leaf
        /\ p.w6 = 0 /\ p.w7 = u
    BY DEF ForsPrfAdrs, Adrs, Types
  <2> HIDE DEF p
  <2>. QED
    BY <2>1, AdrsIs DEF FAdrs
<1>2. b = FAdrs(d, "FORS_TREE", 0, u)
  <2>1. /\ b \in Adrs /\ b.layer = 0 /\ b.tree = d.tree /\ b.type = "FORS_TREE" /\ b.kp = d.leaf
        /\ b.w6 = 0 /\ b.w7 = u
    BY DEF ForsLeafAdrs, SetType, ForsPrfAdrs, Adrs, Types
  <2> HIDE DEF b
  <2>. QED
    BY <2>1, AdrsIs DEF FAdrs
<1> HIDE DEF p, b
<1>3. Input(b) = <<Value(p)>> /\ Input(p) = <<Seed>> /\ FNode(d, 0, u) = Value(b)
  BY <1>1, <1>2, FLeafInput
<1>4. Hash(p, <<Seed>>) = Value(p) /\ Hash(b, <<Value(p)>>) = Value(b)
  BY <1>3, RightHash
<1>5. ForsSecret(a) = Value(p) /\ ForsHashed(a) = Hash(b, <<ForsSecret(a)>>)
  BY <1>4 DEF ForsSecret, ForsHashed, p, b
<1>. QED
  BY <1>1, <1>3, <1>4, <1>5

LEMMA FTreeValue ==
  ASSUME NEW d \in Digests, NEW a \in Adrs, NEW k \in Nat, NEW u \in Nat,
         a.layer = 0, a.tree = d.tree, a.kp = d.leaf, a.type = "FORS_TREE"
  PROVE  Hash([a EXCEPT !.w6 = k + 1, !.w7 = u], <<FNode(d, k, 2 * u), FNode(d, k, 2 * u + 1)>>)
           = FNode(d, k + 1, u)
<1> DEFINE b == [a EXCEPT !.w6 = k + 1, !.w7 = u]
<1>1. /\ b \in Adrs /\ b.layer = 0 /\ b.tree = d.tree /\ b.type = "FORS_TREE" /\ b.kp = d.leaf
      /\ b.w6 = k + 1 /\ b.w7 = u
  <2>1. PICK n \in Nat : n = k + 1
    OBVIOUS
  <2>. QED
    BY <2>1 DEF Adrs, Types
<1> HIDE DEF b
<1>2. FNode(d, k + 1, u) = Value(b) /\ Input(b) = <<FNode(d, k, 2 * u), FNode(d, k, 2 * u + 1)>>
  <2>1. b = FAdrs(d, "FORS_TREE", k + 1, u)
    BY <1>1, AdrsIs DEF FAdrs
  <2>. QED
    BY <2>1, FTreeInput, Zenon
<1>3. Hash(b, <<FNode(d, k, 2 * u), FNode(d, k, 2 * u + 1)>>) = Value(b)
  BY <1>2, RightHash
<1>. QED
  BY <1>2, <1>3 DEF b

LEMMA XmssLeafNode ==
  ASSUME Inv1, XmssLeaf
  PROVE  NodeInv'
<1>1. /\ TypeInv /\ AdrsInv /\ adrs \in Adrs /\ pc = "xleaf" /\ nd.i \in Nat /\ layer \in Nat /\ tree \in Nat
      /\ nd.p \in Nat \cup {-1}
  BY Sizes DEF Inv1, TypeInv, NodeType, XmssLeaf
<1> DEFINE a == [adrs EXCEPT !.kp = nd.i]
           v == Hash(SetTypeAndClearNotKp(a, "WOTS_PK"),
                     [c \in 1 .. Len12 |-> WotsChain([a EXCEPT !.w6 = c - 1], W - 1)])
<1>2. a \in Adrs /\ a.layer = layer /\ a.tree = tree /\ a.kp = nd.i
  BY <1>1 DEF Adrs, AdrsInv, LayerPcs, XmssPcs
<1>3. nd' = [Put(nd.p + 1, v) EXCEPT !.p = @ + 1, !.k = 0]
  BY DEF XmssLeaf
<1> HIDE DEF a
<1>4. v = XNode(layer, tree, 0, nd.i)
  BY <1>1, <1>2, XLeafValue
<1> HIDE DEF v
<1>5. v = NodeAt(0, nd.i)
  BY <1>1, <1>4 DEF NodeAt, ForsTreePcs
<1>6. /\ nd'.i = nd.i /\ nd'.z = nd.z /\ nd'.j = nd.j /\ nd'.p = nd.p + 1 /\ nd'.k = 0
      /\ \A u \in 0 .. Deepest : nd'.h[u] = IF u = nd.p + 1 THEN v ELSE nd.h[u]
  BY <1>1, <1>3, LeafNode
<1>7. Same(IF pc = "xleaf" THEN "xmerge" ELSE "fmerge") /\ pc \in {"xleaf", "fleaf"}
  BY <1>1 DEF XmssLeaf, Same, ForsTreePcs
<1>. QED
  BY <1>5, <1>6, <1>7, PushLeaf

LEMMA ForsLeafNode ==
  ASSUME Inv1, ForsLeaf
  PROVE  NodeInv'
<1>1. /\ TypeInv /\ AdrsInv /\ adrs \in Adrs /\ pc = "fleaf" /\ nd.i \in Nat /\ dg \in Digests
      /\ nd.p \in Nat \cup {-1}
  BY Sizes DEF Inv1, TypeInv, NodeType, ForsLeaf
<1> DEFINE a == [adrs EXCEPT !.w7 = nd.i]
           v == ForsHashed(a)
<1>2. a \in Adrs /\ a.layer = 0 /\ a.tree = dg.tree /\ a.kp = dg.leaf /\ a.w7 = nd.i
  BY <1>1 DEF Adrs, AdrsInv, ForsPcs, ForsTreePcs
<1>3. nd' = [Put(nd.p + 1, v) EXCEPT !.p = @ + 1, !.k = 0]
  BY DEF ForsLeaf
<1> HIDE DEF a
<1>4. v = FNode(dg, 0, nd.i)
  BY <1>1, <1>2, FLeafValue
<1> HIDE DEF v
<1>5. v = NodeAt(0, nd.i)
  BY <1>1, <1>4 DEF NodeAt, ForsTreePcs
<1>6. /\ nd'.i = nd.i /\ nd'.z = nd.z /\ nd'.j = nd.j /\ nd'.p = nd.p + 1 /\ nd'.k = 0
      /\ \A u \in 0 .. Deepest : nd'.h[u] = IF u = nd.p + 1 THEN v ELSE nd.h[u]
  BY <1>1, <1>3, LeafNode
<1>7. Same(IF pc = "xleaf" THEN "xmerge" ELSE "fmerge") /\ pc \in {"xleaf", "fleaf"}
  BY <1>1 DEF ForsLeaf, Same, ForsTreePcs
<1>. QED
  BY <1>5, <1>6, <1>7, PushLeaf

LEMMA XmssMergeNode ==
  ASSUME Inv1, XmssMerge
  PROVE  NodeInv'
<1>1. /\ TypeInv /\ AdrsInv /\ adrs \in Adrs /\ pc = "xmerge" /\ nd.k \in Nat /\ layer \in Nat /\ tree \in Nat
      /\ OddRound
  BY Sizes DEF Inv1, TypeInv, NodeType, XmssMerge
<1>2. adrs.layer = layer /\ adrs.tree = tree
  BY <1>1 DEF AdrsInv, LayerPcs, XmssPcs
<1> DEFINE u == Shift(nd.i, nd.k + 1)
           a == [SetTypeAndClear(adrs, "TREE") EXCEPT !.w6 = nd.k + 1, !.w7 = u]
           v == Hash(a, <<nd.h[nd.p - 1], nd.h[nd.p]>>)
<1>3. nd' = [Put(nd.p - 1, v) EXCEPT !.p = nd.p - 1, !.k = @ + 1]
  BY DEF XmssMerge
<1>4. ASSUME u \in Nat, nd.h[nd.p - 1] = NodeAt(nd.k, 2 * u), nd.h[nd.p] = NodeAt(nd.k, 2 * u + 1)
      PROVE  v = NodeAt(nd.k + 1, u)
  <2> HIDE DEF u
  <2>1. \A k, x : NodeAt(k, x) = XNode(layer, tree, k, x)
    BY <1>1 DEF NodeAt, ForsTreePcs
  <2>2. v = Hash(a, <<XNode(layer, tree, nd.k, 2 * u), XNode(layer, tree, nd.k, 2 * u + 1)>>)
    BY <1>4, <2>1
  <2>3. Hash(a, <<XNode(layer, tree, nd.k, 2 * u), XNode(layer, tree, nd.k, 2 * u + 1)>>)
          = XNode(layer, tree, nd.k + 1, u)
    <3>1. PICK k \in Nat : k = nd.k
      BY <1>1
    <3>2. Hash([SetTypeAndClear(adrs, "TREE") EXCEPT !.w6 = k + 1, !.w7 = u],
               <<XNode(adrs.layer, adrs.tree, k, 2 * u), XNode(adrs.layer, adrs.tree, k, 2 * u + 1)>>)
            = XNode(adrs.layer, adrs.tree, k + 1, u)
      BY <1>1, <1>4, XTreeValue
    <3>. QED
      BY <1>2, <3>1, <3>2
  <2> HIDE DEF v
  <2>. QED
    BY <2>1, <2>2, <2>3, Zenon
<1>5. Same(pc) /\ pc \in {"xmerge", "fmerge"}
  BY <1>1 DEF XmssMerge, Same
<1> HIDE DEF v
<1>. QED
  BY <1>1, <1>3, <1>4, <1>5, MergeTwo

LEMMA ForsMergeNode ==
  ASSUME Inv1, ForsMerge
  PROVE  NodeInv'
<1>1. /\ TypeInv /\ AdrsInv /\ adrs \in Adrs /\ pc = "fmerge" /\ nd.k \in Nat /\ dg \in Digests /\ OddRound
  BY Sizes DEF Inv1, TypeInv, NodeType, ForsMerge
<1>2. adrs.layer = 0 /\ adrs.tree = dg.tree /\ adrs.kp = dg.leaf /\ adrs.type = "FORS_TREE"
  BY <1>1 DEF AdrsInv, ForsPcs, ForsTreePcs
<1> DEFINE u == Shift(nd.i, nd.k + 1)
           a == [adrs EXCEPT !.w6 = nd.k + 1, !.w7 = u]
           v == Hash(a, <<nd.h[nd.p - 1], nd.h[nd.p]>>)
<1>3. nd' = [Put(nd.p - 1, v) EXCEPT !.p = nd.p - 1, !.k = @ + 1]
  BY DEF ForsMerge
<1>4. ASSUME u \in Nat, nd.h[nd.p - 1] = NodeAt(nd.k, 2 * u), nd.h[nd.p] = NodeAt(nd.k, 2 * u + 1)
      PROVE  v = NodeAt(nd.k + 1, u)
  <2> HIDE DEF u
  <2>1. \A k, x : NodeAt(k, x) = FNode(dg, k, x)
    BY <1>1 DEF NodeAt, ForsTreePcs
  <2>2. v = Hash(a, <<FNode(dg, nd.k, 2 * u), FNode(dg, nd.k, 2 * u + 1)>>)
    BY <1>4, <2>1
  <2>3. Hash(a, <<FNode(dg, nd.k, 2 * u), FNode(dg, nd.k, 2 * u + 1)>>) = FNode(dg, nd.k + 1, u)
    BY <1>1, <1>2, <1>4, FTreeValue
  <2> HIDE DEF v
  <2>. QED
    BY <2>1, <2>2, <2>3, Zenon
<1>5. Same(pc) /\ pc \in {"xmerge", "fmerge"}
  BY <1>1 DEF ForsMerge, Same
<1> HIDE DEF v
<1>. QED
  BY <1>1, <1>3, <1>4, <1>5, MergeTwo

LEMMA NodeStep ==
  ASSUME Inv1, [Next]_vars
  PROVE  NodeInv'
<1>0. TypeInv /\ FlowInv /\ NodeInv /\ dg \in Digests /\ t \in Nat /\ leaf \in Nat /\ i \in 0 .. K
  BY DEF Inv1, TypeInv
<1>1. ASSUME UNCHANGED vars PROVE NodeInv'
  BY <1>0, <1>1 DEF vars, NodeInv, Called, Height, NodeAt, Holds
<1>2. ASSUME Keygen PROVE NodeInv'
  <2>1. 0 \in Nat /\ HP \in 0 .. Deepest
    BY Sizes
  <2>2. nd' = Node(0, HP) /\ pc' = "xleaf" /\ op' = "keygen"
    BY <1>2 DEF Keygen
  <2>3. Called' = 0 /\ Height' = HP
    BY <2>2 DEF Called, Height, ForsTreePcs
  <2>. QED
    BY <1>0, <2>1, <2>2, <2>3, CallsNode
<1>3. ASSUME ForsAuthCall PROVE NodeInv'
  <2> DEFINE x == i * 2 ^ (A - t) + Sibling(Shift(dg.md[i], t))
  <2>1. pc = "forsauth" /\ t < A /\ i \in 0 .. K - 1 /\ op = "sign"
    BY <1>0, <1>3, Sizes DEF ForsAuthCall, FlowInv
  <2>2. x \in Nat /\ t \in 0 .. Deepest
    BY <1>0, <2>1, CalledNat, Sizes
  <2>3. nd' = Node(x, t) /\ pc' = "fleaf"
    BY <1>3 DEF ForsAuthCall
  <2>4. Called' = x /\ Height' = t
    BY <1>3, <2>1, <2>3 DEF ForsAuthCall, Called, Height, ForsTreePcs
  <2> HIDE DEF x
  <2>. QED
    BY <1>0, <2>2, <2>3, <2>4, CallsNode
<1>4. ASSUME AuthCall PROVE NodeInv'
  <2> DEFINE x == Sibling(Shift(leaf, t))
  <2>1. pc = "auth" /\ t < HP /\ op = "sign"
    BY <1>0, <1>4 DEF AuthCall, FlowInv
  <2>2. x \in Nat /\ t \in 0 .. Deepest
    BY <1>0, <2>1, ShiftNat, SiblingNat, Sizes
  <2>3. nd' = Node(x, t) /\ pc' = "xleaf"
    BY <1>4 DEF AuthCall
  <2>4. Called' = x /\ Height' = t
    BY <1>4, <2>1, <2>3 DEF AuthCall, Called, Height, ForsTreePcs
  <2> HIDE DEF x
  <2>. QED
    BY <1>0, <2>2, <2>3, <2>4, CallsNode
<1>5. ASSUME \/ KeygenReturn \/ (\E d \in Digests : Sign(d) \/ Verify(d)) \/ Damage
             \/ ForsSk \/ ForsAuthNode \/ ForsSigned
             \/ ForsPkLeaf \/ ForsClimb \/ ForsNextTree \/ ForsRoots
             \/ AuthNode \/ WotsSign
             \/ WotsPk \/ Climb \/ NextLayer \/ Compare
      PROVE  NodeInv'
  <2>1. pc' \notin ForsTreePcs \cup XmssPcs
    BY <1>5 DEF KeygenReturn, Sign, Verify, Damage, ForsSk, ForsAuthNode, ForsSigned, ForsPkLeaf,
                ForsClimb, ForsNextTree, ForsRoots, AuthNode, WotsSign, WotsPk, Climb, NextLayer, Compare,
                ForsTreePcs, XmssPcs
  <2>. QED
    BY <2>1, NotInNode
<1>. QED
  BY <1>1, <1>2, <1>3, <1>4, <1>5, XmssLeafNode, ForsLeafNode, XmssMergeNode, ForsMergeNode, NextLeaf, Zenon
     DEF Next

-----------------------------------------------------------------------------
(***************************************************************************)
(* The digits that are dealt out.                                          *)
(***************************************************************************)
LEMMA LeftInt ==
  ASSUME TypeInv
  PROVE  Left \in Nat /\ D * (MaxCalls - calls) \in Nat
<1>1. D - layer \in Nat /\ D - 1 - layer \in Nat /\ D \in Nat /\ MaxCalls - calls \in Nat
  BY Sizes DEF TypeInv
<1>2. D * (MaxCalls - calls) \in Nat
  BY <1>1
<1>. QED
  BY <1>1, <1>2 DEF Left

LEMMA LeftNext ==
  ASSUME TypeInv'
  PROVE  Left' \in Nat
<1>1. PICK x \in 0 .. D - 1 : x = layer'
  BY DEF TypeInv
<1>2. D \in Nat
  BY Sizes
<1>3. \A e \in Nat : \A y \in 0 .. e - 1 : e - y \in Nat /\ e - 1 - y \in Nat
  OBVIOUS
<1>4. D - x \in Nat /\ D - 1 - x \in Nat
  BY <1>1, <1>2, <1>3, Zenon
<1>. QED
  BY <1>1, <1>2, <1>4 DEF Left

LEMMA Quiet ==
  ASSUME TypeInv, TypeInv', DigitsInv, UNCHANGED <<digits, deal, calls>>, Left' <= Left,
         pc' = "wotspk" /\ op' = "sign" => m' \in DOMAIN digits
  PROVE  DigitsInv'
<1>1. PICK b, x, y \in Nat : b = D * (MaxCalls - calls) /\ x = Left /\ y = Left'
  <2>1. Left' \in Nat
    BY LeftNext
  <2>. QED
    BY <2>1, LeftInt
<1>2. D * (MaxCalls - calls') = b
  BY <1>1
<1>3. Len(deal) \in Nat /\ Len(deal) >= b + x /\ y <= x
  BY <1>1 DEF DigitsInv
<1>4. Len(deal') >= D * (MaxCalls - calls') + Left'
  BY <1>1, <1>2, <1>3
<1>. QED
  BY <1>4 DEF DigitsInv

LEMMA Remembered ==
  ASSUME TypeInv, TypeInv', DigitsInv, Remember, calls' = calls, m \notin DOMAIN digits => Len(deal) > 0,
         Left' <= Left, m \notin DOMAIN digits => Left' < Left,
         pc' = "wotspk" /\ op' = "sign" => m' = m
  PROVE  DigitsInv'
<1>1. CASE m \in DOMAIN digits
  BY <1>1, Quiet DEF Remember
<1>2. CASE m \notin DOMAIN digits
  <2>1. /\ digits' = [v \in DOMAIN digits \cup {m} |-> IF v = m THEN Head(deal) ELSE digits[v]]
        /\ deal' = Tail(deal)
    BY <1>2 DEF Remember
  <2>2. deal \in Seq(Digits) /\ deal # <<>> /\ Len(deal) \in Nat \ {0}
    BY <1>2 DEF DigitsInv
  <2>3. /\ deal' \in Seq(Digits) /\ Len(deal') = Len(deal) - 1
        /\ \A n \in 1 .. Len(deal') : deal'[n] = deal[n + 1]
        /\ Head(deal) = deal[1] /\ deal[1] \in Digits
    BY <2>1, <2>2
  <2>4. /\ DOMAIN digits' = DOMAIN digits \cup {m}
        /\ digits'[m] = deal[1] /\ \A v \in DOMAIN digits : digits'[v] = digits[v]
    BY <1>2, <2>1, <2>3
  <2>5. digits' \in [DOMAIN digits' -> Digits]
    <3>1. \A v \in DOMAIN digits' : digits'[v] \in Digits
      BY <2>3, <2>4 DEF DigitsInv
    <3>2. digits' = [v \in DOMAIN digits' |-> digits'[v]]
      BY <2>1
    <3>. QED
      BY <3>1, <3>2
  <2>6. 1 \in 1 .. Len(deal) /\ \A n \in 1 .. Len(deal') : n + 1 \in 1 .. Len(deal) /\ n + 1 # 1
    BY <2>2, <2>3
  <2>7. \A x, y \in DOMAIN digits' : x # y => digits'[x] # digits'[y]
    BY <2>4, <2>6 DEF DigitsInv
  <2>8. \A x \in DOMAIN digits', n \in 1 .. Len(deal') : digits'[x] # deal'[n]
    <3> TAKE x \in DOMAIN digits', n \in 1 .. Len(deal')
    <3>1. CASE x = m
      <4>1. deal[1] # deal[n + 1]
        BY <2>6 DEF DigitsInv
      <4>. QED
        BY <3>1, <4>1, <2>3, <2>4
    <3>2. CASE x \in DOMAIN digits
      BY <3>2, <2>3, <2>4, <2>6 DEF DigitsInv
    <3>. QED
      BY <3>1, <3>2, <2>4
  <2>9. \A x, y \in 1 .. Len(deal') : x # y => deal'[x] # deal'[y]
    <3> TAKE x, y \in 1 .. Len(deal')
    <3> HAVE x # y
    <3>1. x + 1 # y + 1
      OBVIOUS
    <3>2. deal[x + 1] # deal[y + 1]
      BY <3>1, <2>6 DEF DigitsInv
    <3>. QED
      BY <3>2, <2>3
  <2>10. Len(deal') >= D * (MaxCalls - calls') + Left'
    <3>1. PICK b, x, y \in Nat : b = D * (MaxCalls - calls) /\ x = Left /\ y = Left'
      <4>1. Left' \in Nat
        BY LeftNext
      <4>. QED
        BY <4>1, LeftInt
    <3>2. D * (MaxCalls - calls') = b
      BY <3>1
    <3>3. Len(deal) >= b + x /\ y < x
      BY <1>2, <3>1 DEF DigitsInv
    <3>. QED
      BY <3>1, <3>2, <3>3, <2>2, <2>3
  <2>11. pc' = "wotspk" /\ op' = "sign" => m' \in DOMAIN digits'
    BY <2>4
  <2>. QED
    BY <2>3, <2>5, <2>7, <2>8, <2>9, <2>10, <2>11 DEF DigitsInv
<1>. QED
  BY <1>1, <1>2

LEMMA DigitsStep ==
  ASSUME Inv1, [Next]_vars
  PROVE  DigitsInv'
<1>0. TypeInv /\ FlowInv /\ DigitsInv /\ TypeInv' /\ layer \in 0 .. D - 1 /\ D \in Nat \ {0}
  BY TypeStep, Sizes DEF Inv1, TypeInv
<1>1. ASSUME UNCHANGED vars PROVE DigitsInv'
  BY <1>0, <1>1 DEF vars, DigitsInv, Left
<1>2. ASSUME \/ Keygen \/ KeygenReturn
             \/ XmssLeaf \/ XmssMerge \/ ForsLeaf \/ ForsMerge \/ NodeNext
             \/ Damage
             \/ ForsSk \/ ForsAuthCall \/ ForsAuthNode \/ ForsSigned
             \/ ForsPkLeaf \/ ForsClimb \/ ForsNextTree \/ ForsRoots
             \/ AuthCall \/ AuthNode \/ Climb \/ NextLayer \/ Compare
      PROVE  DigitsInv'
  <2>1. UNCHANGED <<digits, deal, calls>>
    BY <1>2 DEF Keygen, KeygenReturn, XmssLeaf, XmssMerge, ForsLeaf, ForsMerge, NodeNext, Damage,
                ForsSk, ForsAuthCall, ForsAuthNode, ForsSigned, ForsPkLeaf, ForsClimb, ForsNextTree, ForsRoots,
                AuthCall, AuthNode, Climb, NextLayer, Compare
  <2>2. ~ (pc' = "wotspk" /\ op' = "sign")
    BY <1>0, <1>2 DEF FlowInv, ForsTreePcs, XmssPcs,
                Keygen, KeygenReturn, XmssLeaf, XmssMerge, ForsLeaf, ForsMerge, NodeNext, Damage,
                ForsSk, ForsAuthCall, ForsAuthNode, ForsSigned, ForsPkLeaf, ForsClimb, ForsNextTree, ForsRoots,
                AuthCall, AuthNode, Climb, NextLayer, Compare
  <2>3. Left' <= Left
    <3>1. ASSUME Keygen \/ KeygenReturn \/ XmssLeaf \/ XmssMerge \/ NodeNext \/ AuthCall \/ AuthNode
          PROVE  Left' <= Left
      BY <1>0, <3>1 DEF FlowInv, Left, ForsPcs, LayerPcs, ForsTreePcs, XmssPcs,
                Keygen, KeygenReturn, XmssLeaf, XmssMerge, NodeNext, AuthCall, AuthNode
    <3>2. ASSUME \/ ForsLeaf \/ ForsMerge \/ ForsSk \/ ForsAuthCall \/ ForsAuthNode \/ ForsSigned
                 \/ ForsPkLeaf \/ ForsClimb \/ ForsNextTree
          PROVE  Left' <= Left
      BY <1>0, <3>2 DEF FlowInv, Left, ForsPcs, LayerPcs, ForsTreePcs, XmssPcs,
                ForsLeaf, ForsMerge, ForsSk, ForsAuthCall, ForsAuthNode, ForsSigned, ForsPkLeaf, ForsClimb, ForsNextTree
    <3>3. ASSUME ForsRoots \/ Climb \/ NextLayer \/ Compare \/ Damage
          PROVE  Left' <= Left
      BY <1>0, <3>3 DEF FlowInv, TypeInv, Left, ForsPcs, LayerPcs, ForsTreePcs, XmssPcs,
                ForsRoots, Climb, NextLayer, Compare, Damage
    <3>. QED
      BY <1>2, <3>1, <3>2, <3>3
  <2>. QED
    BY <1>0, <2>1, <2>2, <2>3, Quiet
<1>3. ASSUME NEW o, NEW d \in Digests, Call(o, d), pc' \in {"forssk", "forspk"} PROVE DigitsInv'
  <2>1. /\ UNCHANGED <<digits, deal>> /\ calls' = calls + 1 /\ Left = 0 /\ Left' = D
    BY <1>3 DEF Call, Left, ForsPcs, LayerPcs, ForsTreePcs, XmssPcs
  <2>2. PICK b, e \in Nat : /\ b = D * (MaxCalls - calls) /\ e = D * (MaxCalls - calls') /\ b = e + D
    <3>1. MaxCalls - calls \in Nat /\ MaxCalls - calls' \in Nat /\ MaxCalls - calls = (MaxCalls - calls') + 1
      BY <1>0, <2>1, Sizes DEF TypeInv
    <3>2. PICK x \in Nat : x = MaxCalls - calls'
      BY <3>1
    <3>3. D * (x + 1) = D * x + D /\ D * x \in Nat
      BY <1>0
    <3>. QED
      BY <1>0, <3>1, <3>2, <3>3
  <2>3. Len(deal') >= D * (MaxCalls - calls') + Left'
    BY <1>0, <2>1, <2>2 DEF DigitsInv
  <2>. QED
    BY <1>0, <1>3, <2>1, <2>3 DEF DigitsInv
<1>4. ASSUME NEW d \in Digests, Sign(d) \/ Verify(d) PROVE DigitsInv'
  <2>1. PICK o : Call(o, d) /\ pc' \in {"forssk", "forspk"}
    BY <1>4 DEF Sign, Verify
  <2>. QED
    BY <1>3, <2>1
<1>5. ASSUME WotsSign PROVE DigitsInv'
  <2>1. op = "sign" /\ pc = "auth" /\ op' = op /\ calls' = calls /\ m' = m /\ layer' = layer /\ Remember
        /\ pc' \in {"wotspk", "ready"}
    BY <1>0, <1>5 DEF WotsSign, FlowInv
  <2>2. Left = D - layer /\ Left' <= D - 1 - layer
    BY <1>0, <2>1 DEF Left, ForsPcs, LayerPcs, ForsTreePcs, XmssPcs
  <2>3. Left' < Left /\ Left' <= Left
    BY <1>0, <2>2, LeftNext
  <2>. QED
    BY <1>0, <2>1, <2>3, VmType, Remembered
<1>6. ASSUME WotsPk PROVE DigitsInv'
  <2>1. op \in {"sign", "verify"} /\ pc = "wotspk" /\ op' = op /\ calls' = calls /\ layer' = layer /\ Remember
        /\ pc' = "climb"
    BY <1>0, <1>6 DEF WotsPk, FlowInv
  <2>2. Left = (IF op = "sign" THEN D - 1 - layer ELSE D - layer) /\ Left' = D - 1 - layer
    BY <2>1 DEF Left, ForsPcs, LayerPcs, ForsTreePcs, XmssPcs
  <2>3. Left' <= Left
    BY <1>0, <2>2
  <2>4. m \notin DOMAIN digits => Left' < Left
    BY <1>0, <2>1, <2>2 DEF DigitsInv
  <2>. QED
    BY <1>0, <2>1, <2>3, <2>4, VmType, Remembered
<1>. QED
  BY <1>1, <1>2, <1>4, <1>5, <1>6, Zenon DEF Next

-----------------------------------------------------------------------------
LEMMA Begin ==
  ASSUME Init
  PROVE  Inv1
<1>1. TypeInv
  <2>1. dg \in Digests
    BY SizesAssumption DEF Init
  <2>2. adrs \in Adrs
    BY DEF Init, ZeroAdrs, Adrs, Types
  <2>3. NodeType
    BY Sizes DEF Init, NodeType
  <2>. QED
    BY <2>1, <2>2, <2>3, Sizes DEF Init, TypeInv
<1>2. FlowInv /\ AdrsInv /\ NodeInv
  BY DEF Init, FlowInv, AdrsInv, NodeInv, ForsPcs, LayerPcs, ForsTreePcs, XmssPcs
<1>3. DigitsInv
  <2>1. digits = <<>> /\ deal \in Deals /\ calls = 0 /\ Left = 0 /\ pc = "start"
    BY DEF Init, Left, ForsPcs, LayerPcs, ForsTreePcs, XmssPcs
  <2>2. /\ deal \in Seq(Digits) /\ Len(deal) >= D * MaxCalls
        /\ \A x, y \in DOMAIN deal : x # y => deal[x] # deal[y]
    BY <2>1, SizesAssumption DEF Digits
  <2>3. DOMAIN deal = 1 .. Len(deal) /\ DOMAIN digits = {} /\ digits \in [DOMAIN digits -> Digits]
    BY <2>1, <2>2
  <2>4. Len(deal) >= D * (MaxCalls - calls) + Left
    <3>1. PICK b \in Nat : b = D * MaxCalls
      BY Sizes
    <3>2. MaxCalls - calls = MaxCalls
      BY <2>1, Sizes
    <3>3. D * (MaxCalls - calls) = b
      BY <3>1, <3>2, Zenon
    <3>. QED
      BY <2>1, <2>2, <3>1, <3>3
  <2>. QED
    BY <2>1, <2>2, <2>3, <2>4 DEF DigitsInv
<1>. QED
  BY <1>1, <1>2, <1>3 DEF Inv1

\* In every reachable state the parts of the invariant hold: the loops and their
\* bounds, what of the shared ADRS is right whoever changed it last, the stack of
\* xmss_node and fors_node, and the digits that are dealt out.
THEOREM SlhInvariant == Spec => []Inv1
<1>1. Inv1 /\ [Next]_vars => Inv1'
  BY TypeStep, FlowStep, AdrsStep, NodeStep, DigitsStep DEF Inv1
<1>. QED
  BY <1>1, Begin, PTL DEF Spec

\* xmss_node and fors_node return the node that they were asked for.
THEOREM NodesAreRight == Spec => []NodesRight
<1>1. ASSUME Inv1 PROVE NodesRight
  <2>1. TypeInv /\ NodeInv /\ nd.z \in Nat /\ layer \in Nat /\ tree \in Nat /\ dg \in Digests
    BY <1>1, Sizes DEF Inv1, TypeInv, NodeType
  <2>2. ASSUME pc \in {"xdone", "fdone"}
        PROVE  /\ nd.h[0] = NodeAt(nd.z, Shift(nd.i - 1, nd.z)) /\ Shift(nd.i - 1, nd.z) \in Nat
    <3>1. PICK x, b \in Nat : x = Called /\ b = 2 ^ nd.z /\ b # 0
      BY <1>1, <2>1, <2>2, CalledTyped, TwoPositive DEF ForsTreePcs, XmssPcs
    <3>2. nd.i = x * b + b /\ nd.h[0] = NodeAt(nd.z, x)
      BY <2>1, <2>2, <3>1 DEF NodeInv, ForsTreePcs, XmssPcs
    <3>3. nd.i - 1 = x * b + (b - 1) /\ b - 1 \in 0 .. b - 1 /\ b \in Nat \ {0}
      BY <3>1, <3>2
    <3>4. (x * b + (b - 1)) \div b = x
      BY <3>1, <3>3, Divided
    <3>5. Shift(nd.i - 1, nd.z) = x
      BY <3>1, <3>3, <3>4 DEF Shift
    <3>. QED
      BY <3>1, <3>2, <3>5
  <2> DEFINE index == Shift(nd.i - 1, nd.z)
             here == [ZeroAdrs EXCEPT !.layer = layer, !.tree = tree]
  <2>3. ASSUME pc = "xdone"
        PROVE  nd.h[0] = Value(IF nd.z = 0
                               THEN [SetType(here, "WOTS_PK") EXCEPT !.kp = index]
                               ELSE [SetType(here, "TREE") EXCEPT !.w6 = nd.z, !.w7 = index])
    <3> DEFINE a == [SetType(here, "WOTS_PK") EXCEPT !.kp = index]
               b == [SetType(here, "TREE") EXCEPT !.w6 = nd.z, !.w7 = index]
    <3>1. nd.h[0] = XNode(layer, tree, nd.z, index) /\ index \in Nat
      BY <2>2, <2>3 DEF NodeAt, ForsTreePcs
    <3> HIDE DEF index
    <3>2. /\ a \in Adrs /\ a.layer = layer /\ a.tree = tree /\ a.type = "WOTS_PK" /\ a.kp = index
          /\ a.w6 = 0 /\ a.w7 = 0
      BY <2>1, <3>1 DEF SetType, ZeroAdrs, Adrs, Types
    <3>3. /\ b \in Adrs /\ b.layer = layer /\ b.tree = tree /\ b.type = "TREE" /\ b.kp = 0
          /\ b.w6 = nd.z /\ b.w7 = index
      BY <2>1, <3>1 DEF SetType, ZeroAdrs, Adrs, Types
    <3> HIDE DEF a, b
    <3>4. CASE nd.z = 0
      BY <3>1, <3>2, <3>4, AdrsIs DEF XNode, a
    <3>5. CASE nd.z # 0
      BY <3>1, <3>3, <3>5, AdrsIs DEF XNode, b
    <3>. QED
      BY <3>4, <3>5
  <2>4. ASSUME pc = "fdone"
        PROVE  nd.h[0] = Value([ForsAdrs(dg) EXCEPT !.w6 = nd.z, !.w7 = index])
    <3> DEFINE a == [ForsAdrs(dg) EXCEPT !.w6 = nd.z, !.w7 = index]
    <3>1. nd.h[0] = FNode(dg, nd.z, index) /\ index \in Nat
      BY <2>2, <2>4 DEF NodeAt, ForsTreePcs
    <3>2. dg.tree \in Nat /\ dg.leaf \in Nat
      BY <2>1, DigestTypes
    <3> HIDE DEF index
    <3>3. /\ a \in Adrs /\ a.layer = 0 /\ a.tree = dg.tree /\ a.type = "FORS_TREE" /\ a.kp = dg.leaf
          /\ a.w6 = nd.z /\ a.w7 = index
      BY <2>1, <3>1, <3>2 DEF ForsAdrs, SetTypeAndClearNotKp, ZeroAdrs, Adrs, Types
    <3> HIDE DEF a
    <3>4. nd.h[0] = Value(a)
      BY <3>1, <3>3, AdrsIs DEF FNode, FAdrs
    <3>. QED
      BY <3>4 DEF a
  <2>. QED
    BY <2>3, <2>4 DEF NodesRight
<1>. QED
  BY <1>1, SlhInvariant, PTL

\* Of the chains of two values, each has one that is longer than in the other:
\* what wots_csum's checksum is for, for all numbers and sizes of the digits.
THEOREM NoDominated == Spec => []NoDominance
<1>1. ASSUME Inv1 PROVE NoDominance
  <2>1. DigitsInv
    BY <1>1 DEF Inv1
  <2>2. ASSUME NEW x \in DOMAIN digits, NEW y \in DOMAIN digits, x # y
        PROVE  \E c \in 1 .. Len12 : WotsCsum(digits[x])[c] < WotsCsum(digits[y])[c]
    <3>1. digits[x] \in Digits /\ digits[y] \in Digits /\ digits[x] # digits[y]
      BY <2>1, <2>2 DEF DigitsInv
    <3>. QED
      BY <3>1, ShorterChain
  <2>. QED
    BY <2>2 DEF NoDominance
<1>. QED
  BY <1>1, SlhInvariant, PTL

-----------------------------------------------------------------------------
(***************************************************************************)
(* Arithmetic of the paths through the trees.                              *)
(***************************************************************************)
LEMMA ShiftZero == \A x \in Nat : Shift(x, 0) = x
BY TwoZero DEF Shift

LEMMA ShiftAdd == \A x, n, k \in Nat : Shift(Shift(x, n), k) = Shift(x, n + k)
<1> TAKE x, n, k \in Nat
<1>1. PICK d, e \in Nat \ {0} : d = 2 ^ n /\ e = 2 ^ k
  BY TwoPositive
<1>2. 2 ^ (n + k) = d * e
  BY <1>1, TwoAdd
<1>3. (x \div d) \div e = x \div (d * e)
  BY <1>1, DivideTwice
<1>. QED
  BY <1>1, <1>2, <1>3 DEF Shift

LEMMA TwoOne == 2 ^ 1 = 2
<1>1. 2 ^ (0 + 1) = 2 * 2 ^ 0
  BY TwoNext
<1>. QED
  BY <1>1, TwoZero

\* One level up.
LEMMA ShiftUp == \A x, n \in Nat : Shift(x, n + 1) = Shift(x, n) \div 2
<1> TAKE x, n \in Nat
<1>1. Shift(Shift(x, n), 1) = Shift(x, n + 1)
  BY ShiftAdd
<1>. QED
  BY <1>1, TwoOne DEF Shift

LEMMA ShiftOut == \A x, n \in Nat : x < 2 ^ n => Shift(x, n) = 0
<1> TAKE x, n \in Nat
<1>1. PICK d \in Nat \ {0} : d = 2 ^ n
  BY TwoPositive
<1>2. x < d => x \div d = 0
  BY <1>1
<1>. QED
  BY <1>1, <1>2 DEF Shift

\* A node and its sibling are the children of the node above.
LEMMA Children ==
  ASSUME NEW u \in Nat
  PROVE  IF u % 2 = 0 THEN u = 2 * (u \div 2) /\ Sibling(u) = 2 * (u \div 2) + 1
         ELSE u = 2 * (u \div 2) + 1 /\ Sibling(u) = 2 * (u \div 2)
BY DEF Sibling

\* Leaf x of all FORS trees, s levels up.
LEMMA LeafShift ==
  ASSUME NEW d \in Digests, NEW x \in 0 .. K - 1, NEW s \in 0 .. A
  PROVE  /\ Leaf(d, x) \in Nat /\ d.md[x] \in Nat
         /\ Shift(Leaf(d, x), s) = x * 2 ^ (A - s) + Shift(d.md[x], s)
<1>0. x \in Nat /\ s \in Nat
  BY Sizes
<1>1. PICK b, v, w, y \in Nat : /\ b = 2 ^ A /\ v = 2 ^ s /\ w = 2 ^ (A - s) /\ y = d.md[x]
                                /\ v \in Nat \ {0} /\ b = w * v
  <2>1. A \in Nat /\ s \in Nat /\ A - s \in Nat /\ A = (A - s) + s /\ x \in Nat
    BY Sizes
  <2>2. 2 ^ A = 2 ^ (A - s) * 2 ^ s
    BY <2>1, TwoAdd, Zenon
  <2>. QED
    BY <2>1, <2>2, TwoPositive, DigestTypes
<1>2. Leaf(d, x) = x * b + y
  BY <1>1 DEF Leaf
<1>3. PICK q \in Nat, r \in 0 .. v - 1 : y = q * v + r /\ y \div v = q
  <2>1. y \in Nat /\ v \in Nat \ {0}
    BY <1>1
  <2>. QED
    BY <2>1, DivideOnce, SMTT(60)
<1>4. x * b + y = (x * w + q) * v + r
  <2>1. x * (w * v) = (x * w) * v
    BY <1>0
  <2>2. (x * w) * v + q * v = (x * w + q) * v
    BY <1>0
  <2>3. x * b \in Nat /\ q * v \in Nat /\ (x * w) * v \in Nat /\ (x * w + q) * v \in Nat
    BY <1>0
  <2>. QED
    BY <1>1, <1>3, <2>1, <2>2, <2>3
<1>5. (x * b + y) \div v = x * w + q
  <2>1. PICK z \in Nat : z = x * w + q
    BY <1>0
  <2>2. (z * v + r) \div v = z
    BY <1>1, <1>3, Divided
  <2>. QED
    BY <2>1, <2>2, <1>4
<1>. QED
  BY <1>0, <1>1, <1>2, <1>3, <1>5 DEF Shift

\* The parity of a node is that of its place in its tree.
LEMMA LeafSibling ==
  ASSUME NEW d \in Digests, NEW x \in 0 .. K - 1, NEW s \in 0 .. A - 1
  PROVE  /\ Shift(Leaf(d, x), s) \in Nat /\ Shift(d.md[x], s) \in Nat
         /\ Shift(Leaf(d, x), s) % 2 = Shift(d.md[x], s) % 2
         /\ Sibling(Shift(Leaf(d, x), s)) = x * 2 ^ (A - s) + Sibling(Shift(d.md[x], s))
<1>1. s \in 0 .. A /\ s \in Nat /\ x \in Nat
  BY Sizes
<1>2. Leaf(d, x) \in Nat /\ d.md[x] \in Nat /\ Shift(Leaf(d, x), s) = x * 2 ^ (A - s) + Shift(d.md[x], s)
  BY <1>1, LeafShift
<1>3. Shift(Leaf(d, x), s) \in Nat /\ Shift(d.md[x], s) \in Nat
  BY <1>1, <1>2, ShiftNat
<1>4. PICK w \in Nat : 2 ^ (A - s) = 2 * w
  <2>1. A - s - 1 \in Nat /\ A - s = (A - s - 1) + 1
    BY Sizes
  <2>2. 2 ^ (A - s) = 2 * 2 ^ (A - s - 1)
    BY <2>1, TwoNext, Zenon
  <2>. QED
    BY <2>1, <2>2, TwoPositive
<1>5. PICK y, z \in Nat : y = Shift(d.md[x], s) /\ z = x * w /\ Shift(Leaf(d, x), s) = 2 * z + y
  <2>1. x * (2 * w) = 2 * (x * w)
    BY <1>1, <1>4
  <2>. QED
    BY <1>1, <1>2, <1>3, <1>4, <2>1
<1>6. (2 * z + y) % 2 = y % 2
  BY <1>5
<1>7. Sibling(2 * z + y) = 2 * z + Sibling(y)
  BY <1>6 DEF Sibling
<1>8. x * 2 ^ (A - s) = 2 * z
  BY <1>1, <1>4, <1>5
<1>. QED
  BY <1>3, <1>5, <1>6, <1>7, <1>8

LEMMA LeafTop ==
  ASSUME NEW d \in Digests, NEW x \in 0 .. K - 1
  PROVE  Shift(Leaf(d, x), A) = x
<1>1. A \in 0 .. A /\ A \in Nat /\ A - A = 0 /\ x \in Nat
  BY Sizes
<1>2. Shift(Leaf(d, x), A) = x * 2 ^ 0 + Shift(d.md[x], A)
  BY <1>1, LeafShift, Zenon
<1>3. Shift(d.md[x], A) = 0
  BY <1>1, DigestTypes, ShiftOut
<1>. QED
  BY <1>1, <1>2, <1>3, TwoZero

\* The path through the layers.
LEMMA TreePath ==
  ASSUME NEW d \in Digests, NEW l \in Nat
  PROVE  /\ TreeAt(d, l) \in Nat /\ LeafAt(d, l) \in Nat /\ LeafAt(d, l) < 2 ^ HP
         /\ TreeAt(d, l + 1) = Shift(TreeAt(d, l), HP)
         /\ LeafAt(d, l + 1) = TreeAt(d, l) % 2 ^ HP
         /\ TreeAt(d, l + 1) * 2 ^ HP + LeafAt(d, l + 1) = TreeAt(d, l)
<1>1. d.tree \in Nat /\ d.leaf \in Nat /\ d.leaf < 2 ^ HP /\ HP \in Nat /\ HP * l \in Nat
  BY Sizes, DigestTypes
<1>2. PICK b \in Nat \ {0} : b = 2 ^ HP
  BY <1>1, TwoPositive
<1>3. TreeAt(d, l) \in Nat
  BY <1>1, ShiftNat DEF TreeAt
<1>4. TreeAt(d, l + 1) = Shift(TreeAt(d, l), HP)
  <2>1. HP * (l + 1) = HP * l + HP
    BY <1>1
  <2>2. Shift(Shift(d.tree, HP * l), HP) = Shift(d.tree, HP * l + HP)
    <3>1. PICK x, c, h \in Nat : x = d.tree /\ c = HP * l /\ h = HP
      BY <1>1
    <3>2. Shift(Shift(x, c), h) = Shift(x, c + h)
      BY ShiftAdd
    <3>. QED
      BY <3>1, <3>2
  <2>. QED
    BY <2>1, <2>2 DEF TreeAt
<1>5. LeafAt(d, l + 1) = TreeAt(d, l) % 2 ^ HP
  <2>1. l + 1 # 0 /\ (l + 1) - 1 = l
    OBVIOUS
  <2>. QED
    BY <2>1, Zenon DEF LeafAt, TreeAt
<1>6. LeafAt(d, l) \in Nat /\ LeafAt(d, l) < 2 ^ HP
  <2>1. CASE l = 0
    BY <2>1, <1>1 DEF LeafAt
  <2>2. CASE l # 0
    <3>1. HP * (l - 1) \in Nat
      <4>1. l - 1 \in Nat
        BY <2>2
      <4>. QED
        BY <1>1, <4>1
    <3>2. PICK y \in Nat : y = Shift(d.tree, HP * (l - 1))
      BY <1>1, <3>1, ShiftNat
    <3>3. y % b \in 0 .. b - 1
      BY <1>2, <3>2
    <3>. QED
      BY <1>2, <2>2, <3>2, <3>3 DEF LeafAt
  <2>. QED
    BY <2>1, <2>2
<1>7. TreeAt(d, l + 1) * 2 ^ HP + LeafAt(d, l + 1) = TreeAt(d, l)
  <2>1. PICK y \in Nat : y = TreeAt(d, l)
    BY <1>3
  <2>2. PICK q \in Nat, r \in 0 .. b - 1 : y = q * b + r /\ y \div b = q /\ y % b = r
    BY <1>2, <2>1, DivideOnce
  <2>. QED
    BY <1>2, <1>4, <1>5, <2>1, <2>2 DEF Shift
<1>. QED
  BY <1>3, <1>4, <1>5, <1>6, <1>7

LEMMA TreeEnds ==
  ASSUME NEW d \in Digests
  PROVE  TreeAt(d, 0) = d.tree /\ LeafAt(d, 0) = d.leaf /\ TreeAt(d, D - 1) = 0
<1>1. HP * 0 = 0 /\ HP * (D - 1) \in Nat /\ d.tree \in Nat /\ d.tree < 2 ^ (HP * (D - 1))
  <2>1. D - 1 \in Nat /\ HP \in Nat
    BY Sizes
  <2>. QED
    BY <2>1, DigestTypes
<1>2. Shift(d.tree, HP * (D - 1)) = 0
  BY <1>1, ShiftOut
<1>3. Shift(d.tree, HP * 0) = d.tree
  BY <1>1, ShiftZero
<1>. QED
  BY <1>2, <1>3 DEF TreeAt, LeafAt

\* A layer signs the root of the tree below it.
LEMMA SignsNext ==
  ASSUME NEW d \in Digests, NEW l \in Nat
  PROVE  SignsAt(d, l + 1) = XNode(l, TreeAt(d, l), HP, 0)
<1>1. l + 1 # 0 /\ (l + 1) - 1 = l
  OBVIOUS
<1>2. TreeAt(d, l + 1) * 2 ^ HP + LeafAt(d, l + 1) = TreeAt(d, l)
  BY TreePath
<1>. QED
  BY <1>1, <1>2, Zenon DEF SignsAt, Signs

-----------------------------------------------------------------------------
(***************************************************************************)
(* The signature and what is computed from it.                             *)
(***************************************************************************)

\* These parts of g are those of the signature of d, where ds has the digits.
ForsOk(g, d, x, s) == \A u \in 0 .. s : g.fors[x][u] = ForsPart(d, x, u)
AuthOk(g, d, l, s) == \A u \in 0 .. s - 1 : g.auth[l][u] = AuthPart(d, l, u)
IsWots(g, ds, d, l, c) ==
  SignsAt(d, l) \in DOMAIN ds /\ g.wots[l][c] = WotsPart(d, l, c, ds[SignsAt(d, l)])
WotsOk(g, ds, d, l) == \A c \in 1 .. Len12 : IsWots(g, ds, d, l, c)

AllFors(g, d, n) == \A x \in 0 .. n - 1 : ForsOk(g, d, x, A)
AllLayers(g, ds, d, n) == \A l \in 0 .. n - 1 : WotsOk(g, ds, d, l) /\ AuthOk(g, d, l, HP)

\* Some part of g is wrong, and no part of a WOTS+ signature is that of another.
Spoilt(g, ds, d) ==
  /\ \A l \in 0 .. D - 1, c \in 1 .. Len12 : g.wots[l][c] = Odd \/ IsWots(g, ds, d, l, c)
  /\ \/ \E x \in 0 .. K - 1, s \in 0 .. A : g.fors[x][s] = Odd
     \/ \E l \in 0 .. D - 1, c \in 1 .. Len12 : g.wots[l][c] = Odd
     \/ \E l \in 0 .. D - 1, s \in 0 .. HP - 1 : g.auth[l][s] = Odd

IsSig(g) ==
  /\ DOMAIN g = {"fors", "wots", "auth"}
  /\ DOMAIN g.fors = 0 .. K - 1 /\ \A x \in 0 .. K - 1 : DOMAIN g.fors[x] = 0 .. A
  /\ DOMAIN g.wots = 0 .. D - 1 /\ \A l \in 0 .. D - 1 : DOMAIN g.wots[l] = 1 .. Len12
  /\ DOMAIN g.auth = 0 .. D - 1 /\ \A l \in 0 .. D - 1 : DOMAIN g.auth[l] = 0 .. HP - 1

\* The path through the layers, and the root.
PathInv == pc \in LayerPcs /\ op # "keygen" => tree = TreeAt(dg, layer) /\ leaf = LeafAt(dg, layer)
RootInv ==
  \/ pc = "start" /\ op = "none"
  \/ pc \in XmssPcs /\ op = "keygen"
  \/ pc # "start" /\ root = XNode(D - 1, 0, HP, 0)

Signing == op = "sign" /\ pc # "ready"
ForsSignPcs == ForsTreePcs \cup {"forssk", "forsauth"}

\* What of the signature is made.
SigInv ==
  /\ IsSig(sig) /\ signed \in [dg : Digests, intact : BOOLEAN]
  /\ Signing =>
       /\ signed.dg = dg /\ signed.intact
       /\ pc \in ForsSignPcs => AllFors(sig, dg, i)
       /\ pc \in ForsTreePcs \cup {"forsauth"} => ForsOk(sig, dg, i, t)
       /\ pc \notin ForsSignPcs => AllFors(sig, dg, K)
       /\ pc \in LayerPcs => AllLayers(sig, digits, dg, layer)
       /\ pc \in XmssPcs \cup {"auth"} => AuthOk(sig, dg, layer, t)
       /\ pc \in {"wotspk", "climb"} => /\ layer < D - 1 /\ AuthOk(sig, dg, layer, HP)
                                        /\ WotsOk(sig, digits, dg, layer)
  /\ ~Signing => IF signed.intact
                 THEN AllFors(sig, signed.dg, K) /\ AllLayers(sig, digits, signed.dg, D)
                 ELSE Spoilt(sig, digits, signed.dg)

\* The signature at hand is that of the digest at hand.
Good == op = "sign" \/ (signed.intact /\ dg = signed.dg)

\* What is computed from it is right exactly if the parts used so far are.
RootOk(x) == roots[x + 1] = FNode(dg, A, x)
ForsInv ==
  /\ pc \in ForsSignPcs => roots = <<>>
  /\ pc \in {"forspk", "forsclimb"} => \E S : roots \in Seq(S)
  /\ pc = "forspk" => Len(roots) = i
  /\ pc = "forsclimb" => /\ Len(roots) = i + 1
                         /\ roots[i + 1] = FNode(dg, t, Shift(Leaf(dg, i), t)) <=> ForsOk(sig, dg, i, t)
  /\ pc \in {"forspk", "forsclimb"} => \A x \in 0 .. i - 1 : RootOk(x) <=> ForsOk(sig, dg, x, A)

MOk == m = IF pc = "climb" THEN XNode(layer, tree, t, Shift(leaf, t)) ELSE Signs(layer, tree, leaf)
MInv ==
  pc \in LayerPcs /\ op # "keygen" =>
    /\ Good => MOk
    /\ MOk => AllFors(sig, dg, K) /\ AllLayers(sig, digits, dg, layer)
    /\ MOk /\ pc = "climb" => WotsOk(sig, digits, dg, layer) /\ AuthOk(sig, dg, layer, t)

KeysInv == \A x \in keys : x.m = Signs(x.layer, x.tree, x.leaf)

Inv2 == PathInv /\ RootInv /\ SigInv /\ ForsInv /\ MInv /\ KeysInv /\ Agreed

-----------------------------------------------------------------------------
(***************************************************************************)
(* Each hash of the verifier gives the right value exactly if its input is *)
(* right.                                                                  *)
(***************************************************************************)
LEMMA HashIff ==
  ASSUME NEW a, NEW in, in # <<>>
  PROVE  Hash(a, in) = Value(a) <=> in = Input(a)
BY RightHash

LEMMA PairIff ==
  ASSUME NEW u \in Nat, NEW n, NEW s, NEW x, NEW y
  PROVE  /\ Pair(u, n, s) # <<>>
         /\ Pair(u, n, s) = Pair(u, x, y) <=> n = x /\ s = y
BY DEF Pair

\* A node and its sibling, hashed.
LEMMA XClimb ==
  ASSUME NEW l \in Nat, NEW tr \in Nat, NEW k \in Nat, NEW u \in Nat, NEW a \in Adrs, NEW n, NEW s,
         a.layer = l, a.tree = tr, a.type = "TREE", a.kp = 0, a.w6 = k + 1, a.w7 = u \div 2
  PROVE  Hash(a, Pair(u, n, s)) = XNode(l, tr, k + 1, u \div 2)
           <=> n = XNode(l, tr, k, u) /\ s = XNode(l, tr, k, Sibling(u))
<1>1. PICK v \in Nat : v = u \div 2
  OBVIOUS
<1>2. a = [layer |-> l, tree |-> tr, type |-> "TREE", kp |-> 0, w6 |-> k + 1, w7 |-> v]
  BY <1>1, AdrsIs
<1>3. XNode(l, tr, k + 1, v) = Value(a) /\ Input(a) = <<XNode(l, tr, k, 2 * v), XNode(l, tr, k, 2 * v + 1)>>
  BY <1>2, XTreeInput
<1>4. Input(a) = Pair(u, XNode(l, tr, k, u), XNode(l, tr, k, Sibling(u)))
  <2>1. CASE u % 2 = 0
    <3>1. u = 2 * v /\ Sibling(u) = 2 * v + 1
      BY <2>1, <1>1, Children
    <3>. QED
      BY <2>1, <3>1, <1>3 DEF Pair
  <2>2. CASE u % 2 # 0
    <3>1. u = 2 * v + 1 /\ Sibling(u) = 2 * v
      BY <2>2, <1>1, Children
    <3>. QED
      BY <2>2, <3>1, <1>3 DEF Pair
  <2>. QED
    BY <2>1, <2>2
<1>5. Hash(a, Pair(u, n, s)) = Value(a) <=> Pair(u, n, s) = Input(a)
  BY PairIff, HashIff
<1>6. Pair(u, n, s) = Input(a) <=> n = XNode(l, tr, k, u) /\ s = XNode(l, tr, k, Sibling(u))
  BY <1>4, PairIff
<1>. QED
  BY <1>1, <1>3, <1>5, <1>6

LEMMA FClimb ==
  ASSUME NEW d \in Digests, NEW k \in Nat, NEW u \in Nat, NEW a \in Adrs, NEW n, NEW s,
         a.layer = 0, a.tree = d.tree, a.kp = d.leaf, a.type = "FORS_TREE", a.w6 = k + 1, a.w7 = u \div 2
  PROVE  Hash(a, Pair(u, n, s)) = FNode(d, k + 1, u \div 2)
           <=> n = FNode(d, k, u) /\ s = FNode(d, k, Sibling(u))
<1>1. PICK v \in Nat : v = u \div 2
  OBVIOUS
<1>2. FNode(d, k + 1, v) = Value(a) /\ Input(a) = <<FNode(d, k, 2 * v), FNode(d, k, 2 * v + 1)>>
  <2>1. a = FAdrs(d, "FORS_TREE", k + 1, v)
    BY <1>1, AdrsIs DEF FAdrs
  <2>. QED
    BY <2>1, FTreeInput, ZenonT(60)
<1>3. Input(a) = Pair(u, FNode(d, k, u), FNode(d, k, Sibling(u)))
  <2>1. CASE u % 2 = 0
    <3>1. u = 2 * v /\ Sibling(u) = 2 * v + 1
      BY <2>1, <1>1, Children
    <3>. QED
      BY <2>1, <3>1, <1>2 DEF Pair
  <2>2. CASE u % 2 # 0
    <3>1. u = 2 * v + 1 /\ Sibling(u) = 2 * v
      BY <2>2, <1>1, Children
    <3>. QED
      BY <2>2, <3>1, <1>2 DEF Pair
  <2>. QED
    BY <2>1, <2>2
<1>4. Hash(a, Pair(u, n, s)) = Value(a) <=> Pair(u, n, s) = Input(a)
  BY PairIff, HashIff
<1>5. Pair(u, n, s) = Input(a) <=> n = FNode(d, k, u) /\ s = FNode(d, k, Sibling(u))
  BY <1>3, PairIff
<1>. QED
  BY <1>1, <1>2, <1>4, <1>5

LEMMA FLeafIff ==
  ASSUME NEW d \in Digests, NEW a \in Adrs, NEW u \in Nat, NEW v,
         a.layer = 0, a.tree = d.tree, a.kp = d.leaf, a.type = "FORS_TREE", a.w6 = 0, a.w7 = u
  PROVE  Hash(a, <<v>>) = FNode(d, 0, u) <=> v = Value(FAdrs(d, "FORS_PRF", 0, u))
<1>1. a = FAdrs(d, "FORS_TREE", 0, u)
  BY AdrsIs DEF FAdrs
<1>2. FNode(d, 0, u) = Value(a) /\ Input(a) = <<Value(FAdrs(d, "FORS_PRF", 0, u))>>
  BY <1>1, FLeafInput
<1>3. Hash(a, <<v>>) = Value(a) <=> <<v>> = Input(a)
  <2>1. <<v>> # <<>>
    OBVIOUS
  <2>. QED
    BY <2>1, HashIff
<1>. QED
  BY <1>2, <1>3

LEMMA RootsIff ==
  ASSUME NEW d \in Digests, NEW a \in Adrs, NEW S, NEW r \in Seq(S), Len(r) = K,
         a.layer = 0, a.tree = d.tree, a.kp = d.leaf
  PROVE  Hash(SetTypeAndClearNotKp(a, "FORS_ROOTS"), r) = Signs(0, d.tree, d.leaf)
           <=> \A x \in 0 .. K - 1 : r[x + 1] = FNode(d, A, x)
<1> DEFINE b == SetTypeAndClearNotKp(a, "FORS_ROOTS")
<1>1. /\ b \in Adrs /\ b.layer = 0 /\ b.tree = d.tree /\ b.type = "FORS_ROOTS" /\ b.kp = d.leaf
      /\ b.w6 = 0 /\ b.w7 = 0
  BY DEF SetTypeAndClearNotKp, Adrs, Types
<1> HIDE DEF b
<1>2. Signs(0, d.tree, d.leaf) = Value(b)
  BY <1>1, AdrsIs DEF Signs
<1>3. Input(b) = [x \in 1 .. K |-> FNode(d, A, x - 1)]
  <2>1. Input(b) = [x \in 1 .. K |-> Value([b EXCEPT !.type = "FORS_TREE", !.w6 = A, !.w7 = x - 1])]
    BY <1>1, InputOf
  <2>2. ASSUME NEW x \in 1 .. K
        PROVE  Value([b EXCEPT !.type = "FORS_TREE", !.w6 = A, !.w7 = x - 1]) = FNode(d, A, x - 1)
    <3> DEFINE e == [b EXCEPT !.type = "FORS_TREE", !.w6 = A, !.w7 = x - 1]
    <3>1. x - 1 \in Nat /\ A \in Nat
      BY Sizes
    <3>2. /\ e \in Adrs /\ e.layer = 0 /\ e.tree = d.tree /\ e.type = "FORS_TREE" /\ e.kp = d.leaf
          /\ e.w6 = A /\ e.w7 = x - 1
      BY <1>1, <3>1 DEF Adrs, Types
    <3> HIDE DEF e
    <3>3. e = FAdrs(d, "FORS_TREE", A, x - 1)
      BY <3>2, AdrsIs DEF FAdrs
    <3>. QED
      BY <3>3 DEF FNode, e
  <2>. QED
    BY <2>1, <2>2
<1>4. DOMAIN r = 1 .. K /\ r = [x \in 1 .. K |-> r[x]] /\ r # <<>>
  BY Sizes
<1>5. Hash(b, r) = Value(b) <=> r = Input(b)
  BY <1>4, HashIff
<1>6. r = Input(b) <=> \A x \in 1 .. K : r[x] = FNode(d, A, x - 1)
  BY <1>3, <1>4
<1>7. (\A x \in 1 .. K : r[x] = FNode(d, A, x - 1)) <=> \A x \in 0 .. K - 1 : r[x + 1] = FNode(d, A, x)
  <2>1. ASSUME \A x \in 1 .. K : r[x] = FNode(d, A, x - 1), NEW x \in 0 .. K - 1
        PROVE  r[x + 1] = FNode(d, A, x)
    <3>1. x + 1 \in 1 .. K /\ (x + 1) - 1 = x
      BY Sizes
    <3>. QED
      BY <2>1, <3>1, Zenon
  <2>2. ASSUME \A x \in 0 .. K - 1 : r[x + 1] = FNode(d, A, x), NEW x \in 1 .. K
        PROVE  r[x] = FNode(d, A, x - 1)
    <3>1. x - 1 \in 0 .. K - 1 /\ (x - 1) + 1 = x
      BY Sizes
    <3>. QED
      BY <2>2, <3>1, Zenon
  <2>. QED
    BY <2>1, <2>2, Zenon
<1>. QED
  BY <1>2, <1>5, <1>6, <1>7 DEF b

\* The address of a chain in wots_sign and wots_pk_from_sig, and what the latter
\* hashes, from the values f at the digits v.
WotsBase(a, lf) == [SetTypeAndClearNotKp(a, "WOTS_HASH") EXCEPT !.kp = lf]
ChainAdrs(a, lf, c) == [WotsBase(a, lf) EXCEPT !.w6 = c - 1]
ChainEnds(a, lf, f, v) ==
  [c \in 1 .. Len12 |-> Chain(ChainAdrs(a, lf, c), f[c], v[c], W - 1 - v[c])]

LEMMA ChainAdrsIs ==
  ASSUME NEW a \in Adrs, NEW lf \in Nat, NEW c \in 1 .. Len12
  PROVE  /\ ChainAdrs(a, lf, c) \in Adrs
         /\ SetType(ChainAdrs(a, lf, c), "WOTS_HASH") = ChainAdrs(a, lf, c)
         /\ \A s \in Nat : ChainValue(ChainAdrs(a, lf, c), s) = ChainValue(WotsAdrs(a.layer, a.tree, lf, c), s)
<1>1. c - 1 \in Nat /\ c \in Nat \ {0}
  BY DigitSizes
<1>2. PICK l, tr \in Nat : l = a.layer /\ tr = a.tree
  BY DEF Adrs
<1>3. PICK b : b = ChainAdrs(a, lf, c)
  OBVIOUS
<1>4. /\ b \in Adrs /\ b.layer = l /\ b.tree = tr /\ b.kp = lf /\ b.w6 = c - 1
      /\ b.type = "WOTS_HASH"
  BY <1>1, <1>2, <1>3 DEF ChainAdrs, WotsBase, SetTypeAndClearNotKp, Adrs, Types
<1>5. SetType(b, "WOTS_HASH") = b
  BY <1>4 DEF SetType, Adrs
<1>6. \A s \in Nat : ChainValue(b, s) = ChainValue(WotsAdrs(l, tr, lf, c), s)
  BY <1>1, <1>4, ChainPlace
<1>. QED
  BY <1>2, <1>3, <1>4, <1>5, <1>6, Zenon

LEMMA WotsSignValue ==
  ASSUME NEW a \in Adrs, NEW lf \in Nat, NEW c \in 1 .. Len12, NEW s \in Nat
  PROVE  WotsChain(ChainAdrs(a, lf, c), s) = ChainValue(WotsAdrs(a.layer, a.tree, lf, c), s)
<1>1. /\ ChainAdrs(a, lf, c) \in Adrs
      /\ ChainValue(ChainAdrs(a, lf, c), s) = ChainValue(WotsAdrs(a.layer, a.tree, lf, c), s)
  BY ChainAdrsIs
<1>2. WotsChain(ChainAdrs(a, lf, c), s) = ChainValue(ChainAdrs(a, lf, c), s)
  BY <1>1, WotsChainRight
<1>. QED
  BY <1>1, <1>2

LEMMA ChainEndIff ==
  ASSUME NEW a \in Adrs, NEW lf \in Nat, NEW f, NEW v, NEW c \in 1 .. Len12, v[c] \in 0 .. W - 1
  PROVE  ChainEnds(a, lf, f, v)[c] = ChainValue(WotsAdrs(a.layer, a.tree, lf, c), W - 1)
           <=> f[c] = ChainValue(WotsAdrs(a.layer, a.tree, lf, c), v[c])
<1>1. PICK x, y \in Nat : x = v[c] /\ y = W - 1 - x /\ x + y = W - 1
  BY DigitSizes
<1>2. PICK e \in Adrs : e = ChainAdrs(a, lf, c)
  BY ChainAdrsIs
<1>3. /\ SetType(e, "WOTS_HASH") = e
      /\ \A s \in Nat : ChainValue(e, s) = ChainValue(WotsAdrs(a.layer, a.tree, lf, c), s)
  BY <1>2, ChainAdrsIs
<1>4. ChainEnds(a, lf, f, v)[c] = Chain(e, f[c], x, y)
  BY <1>1, <1>2 DEF ChainEnds
<1>5. Chain(SetType(e, "WOTS_HASH"), f[c], x, y) = ChainValue(e, x + y) <=> f[c] = ChainValue(e, x)
  BY ChainRight
<1>. QED
  BY <1>1, <1>3, <1>4, <1>5

LEMMA WotsPkIff ==
  ASSUME NEW a \in Adrs, NEW lf \in Nat, NEW f, NEW v, \A c \in 1 .. Len12 : v[c] \in 0 .. W - 1
  PROVE  Hash(SetTypeAndClearNotKp(WotsBase(a, lf), "WOTS_PK"), ChainEnds(a, lf, f, v))
             = XNode(a.layer, a.tree, 0, lf)
           <=> \A c \in 1 .. Len12 : f[c] = ChainValue(WotsAdrs(a.layer, a.tree, lf, c), v[c])
<1>1. PICK l, tr \in Nat : l = a.layer /\ tr = a.tree
  BY DEF Adrs
<1>2. PICK tmp : tmp = ChainEnds(a, lf, f, v)
  OBVIOUS
<1>3. \A c \in 1 .. Len12 : tmp[c] = ChainValue(WotsAdrs(l, tr, lf, c), W - 1)
                              <=> f[c] = ChainValue(WotsAdrs(l, tr, lf, c), v[c])
  BY <1>1, <1>2, ChainEndIff
<1>4. PICK pk : pk = SetTypeAndClearNotKp(WotsBase(a, lf), "WOTS_PK")
  OBVIOUS
<1>5. pk \in Adrs /\ pk.layer = l /\ pk.tree = tr /\ pk.type = "WOTS_PK" /\ pk.kp = lf /\ pk.w6 = 0 /\ pk.w7 = 0
  BY <1>1, <1>4 DEF WotsBase, SetTypeAndClearNotKp, Adrs, Types
<1>6. /\ XNode(l, tr, 0, lf) = Value(pk)
      /\ Input(pk) = [c \in 1 .. Len12 |-> ChainValue(WotsAdrs(l, tr, lf, c), W - 1)]
  BY <1>5, WotsPkInput
<1>7. DOMAIN tmp = 1 .. Len12 /\ tmp = [c \in 1 .. Len12 |-> tmp[c]]
  BY <1>2 DEF ChainEnds
<1>8. tmp # <<>>
  <2>1. 1 \in 1 .. Len12
    BY DigitSizes
  <2>. QED
    BY <2>1, <1>7
<1>9. Hash(pk, tmp) = Value(pk) <=> tmp = Input(pk)
  BY <1>8, HashIff
<1>10. tmp = Input(pk) <=> \A c \in 1 .. Len12 : tmp[c] = ChainValue(WotsAdrs(l, tr, lf, c), W - 1)
  BY <1>6, <1>7
<1>11. Hash(pk, tmp) = XNode(l, tr, 0, lf)
         <=> \A c \in 1 .. Len12 : f[c] = ChainValue(WotsAdrs(l, tr, lf, c), v[c])
  BY <1>3, <1>6, <1>9, <1>10
<1>. QED
  BY <1>1, <1>2, <1>4, <1>11, Zenon

\* What is nowhere in a tree, and what is in one place only.
LEMMA NotOdd ==
  /\ \A l, tr, lf, c, s : ChainValue(WotsAdrs(l, tr, lf, c), s) # Odd
  /\ \A l, tr, k, x : XNode(l, tr, k, x) # Odd
  /\ \A d, x, s : ForsPart(d, x, s) # Odd
BY DEF ChainValue, WotsAdrs, XNode, ForsPart, FNode, FAdrs, Odd, ZeroAdrs, Value

LEMMA SameChain ==
  ASSUME NEW l, NEW tr, NEW lf, NEW c, NEW s \in Nat, NEW tr2, NEW lf2, NEW s2 \in Nat,
         ChainValue(WotsAdrs(l, tr, lf, c), s) = ChainValue(WotsAdrs(l, tr2, lf2, c), s2)
  PROVE  tr = tr2 /\ lf = lf2 /\ s = s2
<1>1. ASSUME NEW x, NEW y, NEW n \in Nat
      PROVE  \E r : /\ ChainValue(WotsAdrs(l, x, y, c), n) = Value(r)
                    /\ r.tree = x /\ r.kp = y
                    /\ IF n = 0 THEN r.type = "WOTS_PRF" ELSE r.type = "WOTS_HASH" /\ r.w7 = n - 1
  <2>1. CASE n = 0
    <3> DEFINE r == [WotsAdrs(l, x, y, c) EXCEPT !.type = "WOTS_PRF", !.w7 = 0]
    <3>1. r.tree = x /\ r.kp = y /\ r.type = "WOTS_PRF"
      BY DEF WotsAdrs
    <3>. QED
      BY <2>1, <3>1 DEF ChainValue
  <2>2. CASE n # 0
    <3> DEFINE r == [WotsAdrs(l, x, y, c) EXCEPT !.type = "WOTS_HASH", !.w7 = n - 1]
    <3>1. r.tree = x /\ r.kp = y /\ r.type = "WOTS_HASH" /\ r.w7 = n - 1
      BY DEF WotsAdrs
    <3>. QED
      BY <2>2, <3>1 DEF ChainValue
  <2>. QED
    BY <2>1, <2>2
<1>2. PICK r : /\ ChainValue(WotsAdrs(l, tr, lf, c), s) = Value(r)
               /\ r.tree = tr /\ r.kp = lf
               /\ IF s = 0 THEN r.type = "WOTS_PRF" ELSE r.type = "WOTS_HASH" /\ r.w7 = s - 1
  BY <1>1
<1>3. PICK q : /\ ChainValue(WotsAdrs(l, tr2, lf2, c), s2) = Value(q)
               /\ q.tree = tr2 /\ q.kp = lf2
               /\ IF s2 = 0 THEN q.type = "WOTS_PRF" ELSE q.type = "WOTS_HASH" /\ q.w7 = s2 - 1
  BY <1>1
<1>4. r = q
  BY <1>2, <1>3, SameValue
<1>. QED
  BY <1>2, <1>3, <1>4

-----------------------------------------------------------------------------
(***************************************************************************)
(* Writing into the signature, and asking for digits.                      *)
(***************************************************************************)
PutFors(g, x, s, v) == [g EXCEPT !.fors[x][s] = v]
PutAuth(g, l, s, v) == [g EXCEPT !.auth[l][s] = v]
PutWots(g, l, w) == [g EXCEPT !.wots[l] = w]

LEMMA PutForsIs ==
  ASSUME NEW g, IsSig(g), NEW x \in 0 .. K - 1, NEW s \in 0 .. A, NEW v
  PROVE  /\ IsSig(PutFors(g, x, s, v))
         /\ PutFors(g, x, s, v).wots = g.wots /\ PutFors(g, x, s, v).auth = g.auth
         /\ \A y \in 0 .. K - 1, u \in 0 .. A :
              PutFors(g, x, s, v).fors[y][u] = IF y = x /\ u = s THEN v ELSE g.fors[y][u]
BY DEF IsSig, PutFors

LEMMA PutAuthIs ==
  ASSUME NEW g, IsSig(g), NEW l \in 0 .. D - 1, NEW s \in 0 .. HP - 1, NEW v
  PROVE  /\ IsSig(PutAuth(g, l, s, v))
         /\ PutAuth(g, l, s, v).wots = g.wots /\ PutAuth(g, l, s, v).fors = g.fors
         /\ \A y \in 0 .. D - 1, u \in 0 .. HP - 1 :
              PutAuth(g, l, s, v).auth[y][u] = IF y = l /\ u = s THEN v ELSE g.auth[y][u]
BY DEF IsSig, PutAuth

LEMMA PutWotsIs ==
  ASSUME NEW g, IsSig(g), NEW l \in 0 .. D - 1, NEW w, DOMAIN w = 1 .. Len12
  PROVE  /\ IsSig(PutWots(g, l, w))
         /\ PutWots(g, l, w).fors = g.fors /\ PutWots(g, l, w).auth = g.auth
         /\ \A y \in 0 .. D - 1 : PutWots(g, l, w).wots[y] = IF y = l THEN w ELSE g.wots[y]
BY DEF IsSig, PutWots

\* More digits are known.
Grows(ds, es) == \A v \in DOMAIN ds : v \in DOMAIN es /\ es[v] = ds[v]

LEMMA Grown ==
  ASSUME NEW g, NEW ds, NEW es, Grows(ds, es), NEW d
  PROVE  /\ \A l, c : IsWots(g, ds, d, l, c) => IsWots(g, es, d, l, c)
         /\ \A l : WotsOk(g, ds, d, l) => WotsOk(g, es, d, l)
         /\ \A n : AllLayers(g, ds, d, n) => AllLayers(g, es, d, n)
         /\ Spoilt(g, ds, d) => Spoilt(g, es, d)
<1>1. \A l, c : IsWots(g, ds, d, l, c) => IsWots(g, es, d, l, c)
  BY DEF Grows, IsWots
<1>2. \A l : WotsOk(g, ds, d, l) => WotsOk(g, es, d, l)
  BY <1>1 DEF WotsOk
<1>3. \A n : AllLayers(g, ds, d, n) => AllLayers(g, es, d, n)
  BY <1>2 DEF AllLayers
<1>4. Spoilt(g, ds, d) => Spoilt(g, es, d)
  BY <1>1 DEF Spoilt
<1>. QED
  BY <1>1, <1>2, <1>3, <1>4

LEMMA RememberGrows ==
  ASSUME Remember
  PROVE  /\ Grows(digits, digits') /\ m \in DOMAIN digits'
         /\ digits'[m] = DigitsOf
<1>1. CASE m \in DOMAIN digits
  BY <1>1 DEF Remember, Grows, DigitsOf
<1>2. CASE m \notin DOMAIN digits
  BY <1>2 DEF Remember, Grows, DigitsOf
<1>. QED
  BY <1>1, <1>2

\* Of the parts that are there, one more is right.
LEMMA ForsPut ==
  ASSUME NEW g, IsSig(g), NEW d, NEW x \in 0 .. K - 1, NEW s \in 0 .. A
  PROVE  LET h == PutFors(g, x, s, ForsPart(d, x, s))
         IN  /\ AllFors(g, d, x) => AllFors(h, d, x)
             /\ s = 0 \/ ForsOk(g, d, x, s - 1) => ForsOk(h, d, x, s)
<1> DEFINE h == PutFors(g, x, s, ForsPart(d, x, s))
<1>1. \A y \in 0 .. K - 1, u \in 0 .. A : h.fors[y][u] = IF y = x /\ u = s THEN ForsPart(d, x, s) ELSE g.fors[y][u]
  BY PutForsIs
<1> HIDE DEF h
<1>2. AllFors(g, d, x) => AllFors(h, d, x)
  <2>1. ASSUME NEW y \in 0 .. x - 1, NEW u \in 0 .. A PROVE h.fors[y][u] = g.fors[y][u]
    <3>1. y \in 0 .. K - 1 /\ y # x
      BY Sizes
    <3>. QED
      BY <1>1, <3>1
  <2>. QED
    BY <2>1 DEF AllFors, ForsOk
<1>3. s = 0 \/ ForsOk(g, d, x, s - 1) => ForsOk(h, d, x, s)
  <2>1. ASSUME s = 0 \/ ForsOk(g, d, x, s - 1), NEW u \in 0 .. s PROVE h.fors[x][u] = ForsPart(d, x, u)
    <3>1. u \in 0 .. A /\ (u # s => s # 0 /\ u \in 0 .. s - 1)
      BY Sizes
    <3>. QED
      BY <1>1, <2>1, <3>1 DEF ForsOk
  <2>. QED
    BY <2>1 DEF ForsOk
<1>. QED
  BY <1>2, <1>3 DEF h

LEMMA AuthPut ==
  ASSUME NEW g, IsSig(g), NEW ds, NEW d, NEW l \in 0 .. D - 1, NEW s \in 0 .. HP - 1
  PROVE  LET h == PutAuth(g, l, s, AuthPart(d, l, s))
         IN  /\ AllFors(g, d, K) => AllFors(h, d, K)
             /\ AllLayers(g, ds, d, l) => AllLayers(h, ds, d, l)
             /\ AuthOk(g, d, l, s) => AuthOk(h, d, l, s + 1)
<1> DEFINE h == PutAuth(g, l, s, AuthPart(d, l, s))
<1>1. /\ h.wots = g.wots /\ h.fors = g.fors
      /\ \A y \in 0 .. D - 1, u \in 0 .. HP - 1 :
           h.auth[y][u] = IF y = l /\ u = s THEN AuthPart(d, l, s) ELSE g.auth[y][u]
  BY PutAuthIs
<1> HIDE DEF h
<1>2. AllFors(g, d, K) => AllFors(h, d, K)
  BY <1>1 DEF AllFors, ForsOk
<1>3. AllLayers(g, ds, d, l) => AllLayers(h, ds, d, l)
  <2>1. ASSUME NEW y \in 0 .. l - 1
        PROVE  (WotsOk(g, ds, d, y) => WotsOk(h, ds, d, y)) /\ (AuthOk(g, d, y, HP) => AuthOk(h, d, y, HP))
    <3>1. y \in 0 .. D - 1 /\ y # l
      BY Sizes
    <3>2. \A u \in 0 .. HP - 1 : h.auth[y][u] = g.auth[y][u]
      BY <1>1, <3>1
    <3>. QED
      BY <1>1, <3>2 DEF WotsOk, IsWots, AuthOk
  <2>. QED
    BY <2>1 DEF AllLayers
<1>4. AuthOk(g, d, l, s) => AuthOk(h, d, l, s + 1)
  <2>1. ASSUME AuthOk(g, d, l, s), NEW u \in 0 .. (s + 1) - 1 PROVE h.auth[l][u] = AuthPart(d, l, u)
    <3>1. u \in 0 .. HP - 1 /\ (u # s => u \in 0 .. s - 1)
      BY Sizes
    <3>. QED
      BY <1>1, <2>1, <3>1 DEF AuthOk
  <2>. QED
    BY <2>1 DEF AuthOk
<1>. QED
  BY <1>2, <1>3, <1>4 DEF h

LEMMA WotsPut ==
  ASSUME NEW g, IsSig(g), NEW ds, NEW d, NEW l \in 0 .. D - 1, NEW w, DOMAIN w = 1 .. Len12,
         SignsAt(d, l) \in DOMAIN ds,
         \A c \in 1 .. Len12 : w[c] = WotsPart(d, l, c, ds[SignsAt(d, l)])
  PROVE  LET h == PutWots(g, l, w)
         IN  /\ AllFors(g, d, K) => AllFors(h, d, K)
             /\ AllLayers(g, ds, d, l) => AllLayers(h, ds, d, l)
             /\ WotsOk(h, ds, d, l)
             /\ \A s : AuthOk(g, d, l, s) => AuthOk(h, d, l, s)
<1> DEFINE h == PutWots(g, l, w)
<1>1. /\ h.auth = g.auth /\ h.fors = g.fors
      /\ \A y \in 0 .. D - 1 : h.wots[y] = IF y = l THEN w ELSE g.wots[y]
  BY PutWotsIs
<1> HIDE DEF h
<1>2. AllFors(g, d, K) => AllFors(h, d, K)
  BY <1>1 DEF AllFors, ForsOk
<1>3. AllLayers(g, ds, d, l) => AllLayers(h, ds, d, l)
  <2>1. ASSUME NEW y \in 0 .. l - 1
        PROVE  (WotsOk(g, ds, d, y) => WotsOk(h, ds, d, y)) /\ (AuthOk(g, d, y, HP) => AuthOk(h, d, y, HP))
    <3>1. y \in 0 .. D - 1 /\ y # l
      BY Sizes
    <3>2. h.wots[y] = g.wots[y]
      BY <1>1, <3>1
    <3>. QED
      BY <1>1, <3>2 DEF WotsOk, IsWots, AuthOk
  <2>. QED
    BY <2>1 DEF AllLayers
<1>4. WotsOk(h, ds, d, l)
  BY <1>1 DEF WotsOk, IsWots
<1>5. \A s : AuthOk(g, d, l, s) => AuthOk(h, d, l, s)
  BY <1>1 DEF AuthOk
<1>. QED
  BY <1>2, <1>3, <1>4, <1>5 DEF h

\* The next tree and the next layer.
LEMMA OneMore ==
  ASSUME NEW g, NEW ds, NEW d, NEW n \in Nat
  PROVE  /\ AllFors(g, d, 0) /\ AllLayers(g, ds, d, 0) /\ \A l : AuthOk(g, d, l, 0)
         /\ AllFors(g, d, n) /\ ForsOk(g, d, n, A) => AllFors(g, d, n + 1)
         /\ AllLayers(g, ds, d, n) /\ WotsOk(g, ds, d, n) /\ AuthOk(g, d, n, HP) => AllLayers(g, ds, d, n + 1)
<1>1. \A x \in 0 .. (n + 1) - 1 : x = n \/ x \in 0 .. n - 1
  OBVIOUS
<1>2. 0 .. 0 - 1 = {}
  OBVIOUS
<1>3. AllFors(g, d, 0) /\ AllLayers(g, ds, d, 0) /\ \A l : AuthOk(g, d, l, 0)
  BY <1>2 DEF AllFors, AllLayers, AuthOk
<1>4. AllFors(g, d, n) /\ ForsOk(g, d, n, A) => AllFors(g, d, n + 1)
  BY <1>1, Zenon DEF AllFors
<1>5. AllLayers(g, ds, d, n) /\ WotsOk(g, ds, d, n) /\ AuthOk(g, d, n, HP) => AllLayers(g, ds, d, n + 1)
  BY <1>1, Zenon DEF AllLayers
<1>. QED
  BY <1>3, <1>4, <1>5

-----------------------------------------------------------------------------
(***************************************************************************)
(* The steps.                                                              *)
(***************************************************************************)
LEMMA PathStep ==
  ASSUME Inv1, PathInv, [Next]_vars
  PROVE  PathInv'
<1>0. TypeInv /\ FlowInv /\ AdrsInv /\ dg \in Digests /\ layer \in Nat
  BY Sizes DEF Inv1, TypeInv
<1>1. ASSUME UNCHANGED vars PROVE PathInv'
  BY <1>1 DEF vars, PathInv, LayerPcs, XmssPcs, TreeAt, LeafAt
<1>2. ASSUME ForsRoots PROVE PathInv'
  <2>1. tree = dg.tree /\ leaf = dg.leaf
    BY <1>0, <1>2 DEF ForsRoots, AdrsInv, ForsPcs
  <2>2. dg' = dg /\ layer' = 0 /\ tree' = tree /\ leaf' = leaf
    BY <1>2 DEF ForsRoots
  <2>. QED
    BY <1>0, <2>1, <2>2, TreeEnds DEF PathInv
<1>3. ASSUME NextLayer PROVE PathInv'
  <2>1. /\ tree = TreeAt(dg, layer) /\ op' = op /\ dg' = dg
        /\ tree' = Shift(tree, HP) /\ leaf' = tree % 2 ^ HP /\ layer' = layer + 1
    BY <1>0, <1>3 DEF NextLayer, PathInv, FlowInv, LayerPcs
  <2>2. TreeAt(dg, layer + 1) = Shift(TreeAt(dg, layer), HP) /\ LeafAt(dg, layer + 1) = TreeAt(dg, layer) % 2 ^ HP
    BY <1>0, TreePath
  <2>3. TreeAt(dg', layer') = tree' /\ LeafAt(dg', layer') = leaf'
    BY <2>1, <2>2
  <2>. QED
    BY <2>3 DEF PathInv
<1>4. ASSUME \/ KeygenReturn \/ (\E d \in Digests : Sign(d) \/ Verify(d)) \/ Damage
             \/ ForsLeaf \/ ForsMerge \/ ForsSk \/ ForsAuthCall \/ ForsAuthNode \/ ForsSigned
             \/ ForsPkLeaf \/ ForsClimb \/ ForsNextTree \/ Keygen \/ Compare
      PROVE  PathInv'
  <2>1. pc' \notin LayerPcs \/ op' = "keygen"
    BY <1>0, <1>4 DEF KeygenReturn, Sign, Verify, Damage, ForsLeaf, ForsMerge, ForsSk, ForsAuthCall, ForsAuthNode,
              ForsSigned, ForsPkLeaf, ForsClimb, ForsNextTree, Keygen, Compare, LayerPcs, XmssPcs, ForsTreePcs
  <2>. QED
    BY <2>1 DEF PathInv
<1>5. ASSUME \/ XmssLeaf \/ XmssMerge \/ AuthCall \/ AuthNode \/ WotsSign \/ WotsPk \/ Climb
      PROVE  PathInv'
  <2>1. pc \in LayerPcs /\ op' = op /\ dg' = dg /\ tree' = tree /\ leaf' = leaf /\ layer' = layer
    BY <1>5 DEF XmssLeaf, XmssMerge, AuthCall, AuthNode, WotsSign, WotsPk, Climb, LayerPcs, XmssPcs
  <2>. QED
    BY <2>1 DEF PathInv
<1>6. ASSUME NodeNext PROVE PathInv'
  <2>1. (pc' \in LayerPcs => pc \in LayerPcs) /\ op' = op /\ dg' = dg /\ tree' = tree /\ leaf' = leaf /\ layer' = layer
    BY <1>6 DEF NodeNext, LayerPcs, XmssPcs
  <2>. QED
    BY <2>1 DEF PathInv
<1>. QED
  BY <1>1, <1>2, <1>3, <1>4, <1>5, <1>6, Zenon DEF Next

LEMMA RootStep ==
  ASSUME Inv1, RootInv, [Next]_vars
  PROVE  RootInv'
<1>0. TypeInv /\ FlowInv /\ NodeInv /\ dg \in Digests /\ layer \in Nat
  BY Sizes DEF Inv1, TypeInv
<1>1. ASSUME UNCHANGED vars PROVE RootInv'
  BY <1>1 DEF vars, RootInv
<1>2. ASSUME Keygen PROVE RootInv'
  BY <1>2 DEF Keygen, RootInv, XmssPcs
<1>3. ASSUME KeygenReturn PROVE RootInv'
  <2>1. pc = "xdone" /\ op = "keygen" /\ root' = nd.h[0] /\ pc' = "ready"
    BY <1>3 DEF KeygenReturn
  <2>2. nd.h[0] = NodeAt(nd.z, Called) /\ nd.z = HP /\ Called = 0 /\ layer = D - 1 /\ tree = 0
    BY <1>0, <2>1 DEF NodeInv, FlowInv, Height, Called, ForsTreePcs, XmssPcs
  <2>. QED
    BY <2>1, <2>2 DEF RootInv, NodeAt, ForsTreePcs
<1>4. ASSUME \/ XmssLeaf \/ XmssMerge \/ AuthCall \/ AuthNode \/ WotsSign \/ WotsPk \/ Climb \/ NextLayer \/ Compare
             \/ ForsRoots \/ (\E d \in Digests : Sign(d) \/ Verify(d)) \/ Damage
             \/ ForsSk \/ ForsAuthCall \/ ForsAuthNode \/ ForsSigned
             \/ ForsPkLeaf \/ ForsClimb \/ ForsNextTree
      PROVE  RootInv'
  <2>1. /\ pc # "start" /\ pc' # "start" /\ root' = root
        /\ pc \in XmssPcs /\ op = "keygen" => pc' \in XmssPcs /\ op' = op
    BY <1>4 DEF XmssLeaf, XmssMerge, AuthCall, AuthNode, WotsSign, WotsPk, Climb, NextLayer, Compare, ForsRoots,
              Sign, Verify, Call, Damage, ForsSk, ForsAuthCall, ForsAuthNode,
              ForsSigned, ForsPkLeaf, ForsClimb, ForsNextTree, XmssPcs
  <2>. QED
    BY <2>1 DEF RootInv
<1>5. ASSUME ForsLeaf \/ ForsMerge \/ NodeNext PROVE RootInv'
  <2>1. /\ pc # "start" /\ pc' # "start" /\ root' = root
        /\ pc \in XmssPcs /\ op = "keygen" => pc' \in XmssPcs /\ op' = op
    BY <1>0, <1>5 DEF ForsLeaf, ForsMerge, NodeNext, XmssPcs, FlowInv, ForsTreePcs
  <2>. QED
    BY <2>1 DEF RootInv
<1>. QED
  BY <1>1, <1>2, <1>3, <1>4, <1>5, Zenon DEF Next

\* The verifier at work, or nobody.
LEMMA OthersSig ==
  ASSUME SigInv, ~Signing, ~Signing', sig' = sig, signed' = signed, Grows(digits, digits')
  PROVE  SigInv'
<1>1. /\ IsSig(sig') /\ signed' \in [dg : Digests, intact : BOOLEAN]
  BY DEF SigInv
<1>2. IF signed.intact
      THEN AllFors(sig, signed.dg, K) /\ AllLayers(sig, digits, signed.dg, D)
      ELSE Spoilt(sig, digits, signed.dg)
  BY DEF SigInv
<1>3. IF signed'.intact
      THEN AllFors(sig', signed'.dg, K) /\ AllLayers(sig', digits', signed'.dg, D)
      ELSE Spoilt(sig', digits', signed'.dg)
  BY <1>2, Grown
<1>. QED
  BY <1>1, <1>3 DEF SigInv

LEMMA SameGrows == ASSUME digits' = digits PROVE Grows(digits, digits')
BY DEF Grows

\* The signer, where the signature does not change.
LEMMA SignerSig ==
  ASSUME Inv1, SigInv, Signing,
         \/ XmssLeaf \/ XmssMerge \/ ForsLeaf \/ ForsMerge \/ NodeNext \/ ForsAuthCall \/ ForsSigned
         \/ ForsPkLeaf \/ ForsClimb \/ ForsNextTree \/ ForsRoots \/ AuthCall \/ WotsPk \/ Climb \/ NextLayer
  PROVE  SigInv' /\ Signing'
<1>0. TypeInv /\ FlowInv /\ dg \in Digests /\ layer \in Nat /\ i \in Nat /\ op = "sign" /\ pc # "ready"
  BY Sizes DEF Inv1, TypeInv, Signing
<1>1. sig' = sig /\ signed' = signed /\ dg' = dg /\ op' = op
  BY DEF XmssLeaf, XmssMerge, ForsLeaf, ForsMerge, NodeNext, ForsAuthCall, ForsSigned,
         ForsPkLeaf, ForsClimb, ForsNextTree, ForsRoots, AuthCall, WotsPk, Climb, NextLayer
<1>2. IsSig(sig) /\ signed \in [dg : Digests, intact : BOOLEAN] /\ signed.dg = dg /\ signed.intact
  BY DEF SigInv
<1>3. pc' # "ready"
  BY DEF XmssLeaf, XmssMerge, ForsLeaf, ForsMerge, NodeNext, ForsAuthCall, ForsSigned,
         ForsPkLeaf, ForsClimb, ForsNextTree, ForsRoots, AuthCall, WotsPk, Climb, NextLayer
<1>4. Signing'
  BY <1>0, <1>1, <1>3 DEF Signing
<1> SUFFICES /\ pc' \in ForsSignPcs => AllFors(sig, dg, i')
             /\ pc' \in ForsTreePcs \cup {"forsauth"} => ForsOk(sig, dg, i', t')
             /\ pc' \notin ForsSignPcs => AllFors(sig, dg, K)
             /\ pc' \in LayerPcs => AllLayers(sig, digits', dg, layer')
             /\ pc' \in XmssPcs \cup {"auth"} => AuthOk(sig, dg, layer', t')
             /\ pc' \in {"wotspk", "climb"} => /\ layer' < D - 1 /\ AuthOk(sig, dg, layer', HP)
                                               /\ WotsOk(sig, digits', dg, layer')
  BY <1>0, <1>1, <1>2, <1>4 DEF SigInv
<1>5. /\ pc \in ForsSignPcs => AllFors(sig, dg, i)
      /\ pc \in ForsTreePcs \cup {"forsauth"} => ForsOk(sig, dg, i, t)
      /\ pc \notin ForsSignPcs => AllFors(sig, dg, K)
      /\ pc \in LayerPcs => AllLayers(sig, digits, dg, layer)
      /\ pc \in XmssPcs \cup {"auth"} => AuthOk(sig, dg, layer, t)
      /\ pc \in {"wotspk", "climb"} => /\ layer < D - 1 /\ AuthOk(sig, dg, layer, HP)
                                       /\ WotsOk(sig, digits, dg, layer)
  BY <1>0 DEF SigInv
<1>6. CASE XmssLeaf \/ XmssMerge \/ AuthCall
  <2>1. /\ pc \in XmssPcs \cup {"auth"} /\ pc' \in XmssPcs
        /\ UNCHANGED <<i, t, layer, digits>>
    BY <1>6 DEF XmssLeaf, XmssMerge, AuthCall, XmssPcs
  <2>. QED
    BY <1>5, <2>1 DEF XmssPcs, LayerPcs, ForsSignPcs, ForsTreePcs
<1>7. CASE ForsLeaf \/ ForsMerge \/ ForsAuthCall
  <2>1. /\ pc \in ForsTreePcs \cup {"forsauth"} /\ pc' \in ForsTreePcs
        /\ UNCHANGED <<i, t, layer, digits>>
    BY <1>7 DEF ForsLeaf, ForsMerge, ForsAuthCall, ForsTreePcs
  <2>. QED
    BY <1>5, <2>1 DEF XmssPcs, LayerPcs, ForsSignPcs, ForsTreePcs
<1>8. CASE NodeNext
  <2>1. /\ \/ pc \in XmssPcs /\ pc' \in XmssPcs
           \/ pc \in ForsTreePcs /\ pc' \in ForsTreePcs
        /\ UNCHANGED <<i, t, layer, digits>>
    BY <1>8 DEF NodeNext, ForsTreePcs, XmssPcs
  <2>. QED
    BY <1>5, <2>1 DEF XmssPcs, LayerPcs, ForsSignPcs, ForsTreePcs
<1>9. CASE ForsSigned
  <2>1. /\ pc = "forsauth" /\ t = A /\ i < K /\ UNCHANGED <<layer, digits>>
        /\ IF i + 1 < K THEN i' = i + 1 /\ pc' = "forssk" ELSE i' = 0 /\ pc' = "forspk"
    BY <1>0, <1>9 DEF ForsSigned, FlowInv
  <2>2. AllFors(sig, dg, i + 1)
    BY <1>0, <1>5, <2>1, OneMore DEF ForsSignPcs, ForsTreePcs
  <2>3. i + 1 = K \/ i + 1 < K
    BY <1>0, <2>1, Sizes
  <2>. QED
    BY <2>1, <2>2, <2>3 DEF XmssPcs, LayerPcs, ForsSignPcs, ForsTreePcs
<1>10. CASE ForsPkLeaf \/ ForsClimb \/ ForsNextTree
  <2>1. pc \in {"forspk", "forsclimb"} /\ pc' \in {"forspk", "forsclimb"}
    BY <1>10 DEF ForsPkLeaf, ForsClimb, ForsNextTree
  <2>. QED
    BY <1>5, <2>1 DEF XmssPcs, LayerPcs, ForsSignPcs, ForsTreePcs
<1>11. CASE ForsRoots
  <2>1. pc = "forspk" /\ pc' = "auth" /\ layer' = 0 /\ t' = 0 /\ digits' = digits
    BY <1>0, <1>11 DEF ForsRoots
  <2>. QED
    BY <1>5, <2>1, OneMore DEF XmssPcs, LayerPcs, ForsSignPcs, ForsTreePcs
<1>12. CASE WotsPk
  <2>1. pc = "wotspk" /\ pc' = "climb" /\ layer' = layer /\ Remember
    BY <1>12 DEF WotsPk
  <2>2. Grows(digits, digits')
    BY <2>1, RememberGrows
  <2>3. AllLayers(sig, digits', dg, layer) /\ WotsOk(sig, digits', dg, layer)
    BY <1>5, <2>1, <2>2, Grown DEF LayerPcs
  <2>. QED
    BY <1>5, <2>1, <2>3 DEF XmssPcs, LayerPcs, ForsSignPcs, ForsTreePcs
<1>13. CASE Climb
  <2>1. pc = "climb" /\ pc' = "climb" /\ UNCHANGED <<layer, digits>>
    BY <1>13 DEF Climb
  <2>. QED
    BY <1>5, <2>1 DEF XmssPcs, LayerPcs, ForsSignPcs, ForsTreePcs
<1>14. CASE NextLayer
  <2>1. pc = "climb" /\ pc' = "auth" /\ layer' = layer + 1 /\ t' = 0 /\ digits' = digits
    BY <1>0, <1>14 DEF NextLayer
  <2>2. AllLayers(sig, digits, dg, layer + 1)
    BY <1>0, <1>5, <2>1, OneMore DEF LayerPcs
  <2>. QED
    BY <1>5, <2>1, <2>2, OneMore DEF XmssPcs, LayerPcs, ForsSignPcs, ForsTreePcs
<1>. QED
  BY <1>4, <1>6, <1>7, <1>8, <1>9, <1>10, <1>11, <1>12, <1>13, <1>14

LEMMA ForsSkSig ==
  ASSUME Inv1, SigInv, ForsSk
  PROVE  SigInv'
<1>0. /\ TypeInv /\ FlowInv /\ AdrsInv /\ dg \in Digests /\ i \in 0 .. K - 1 /\ adrs \in Adrs
      /\ pc = "forssk" /\ op = "sign" /\ Signing
  BY Sizes DEF Inv1, TypeInv, FlowInv, ForsSk, Signing
<1>1. PICK a : a = [adrs EXCEPT !.w7 = Index]
  OBVIOUS
<1>2. Index \in Nat /\ Index = Leaf(dg, i)
  BY <1>0, IndexNat
<1>3. a \in Adrs /\ a.layer = 0 /\ a.tree = dg.tree /\ a.kp = dg.leaf /\ a.w7 = Index
  BY <1>0, <1>1, <1>2 DEF AdrsInv, ForsPcs, Adrs
<1>4. ForsSecret(a) = ForsPart(dg, i, 0)
  BY <1>0, <1>2, <1>3, FLeafValue DEF ForsPart
<1>5. sig' = PutFors(sig, i, 0, ForsPart(dg, i, 0))
  BY <1>1, <1>4 DEF ForsSk, PutFors
<1>6. /\ IsSig(sig) /\ signed \in [dg : Digests, intact : BOOLEAN] /\ signed.dg = dg /\ signed.intact
      /\ AllFors(sig, dg, i)
  BY <1>0 DEF SigInv, ForsSignPcs
<1>7. IsSig(sig') /\ AllFors(sig', dg, i) /\ ForsOk(sig', dg, i, 0)
  <2>1. 0 \in 0 .. A
    BY Sizes
  <2>. QED
    BY <1>0, <1>5, <1>6, <2>1, PutForsIs, ForsPut
<1>8. op' = op /\ dg' = dg /\ signed' = signed /\ i' = i /\ t' = 0 /\ pc' = "forsauth"
  BY DEF ForsSk
<1>. QED
  BY <1>0, <1>6, <1>7, <1>8 DEF SigInv, Signing, ForsSignPcs, ForsTreePcs, LayerPcs, XmssPcs

LEMMA ForsAuthNodeSig ==
  ASSUME Inv1, SigInv, ForsAuthNode
  PROVE  SigInv'
<1>0. /\ TypeInv /\ FlowInv /\ NodeInv /\ dg \in Digests /\ i \in 0 .. K - 1 /\ t \in 0 .. A - 1
      /\ pc = "fdone" /\ op = "sign" /\ Signing
  BY Sizes DEF Inv1, TypeInv, FlowInv, ForsAuthNode, Signing, ForsTreePcs
<1>1. t + 1 \in 0 .. A /\ t + 1 # 0 /\ (t + 1) - 1 = t
  BY <1>0, Sizes
<1>2. nd.h[0] = FNode(dg, t, i * 2 ^ (A - t) + Sibling(Shift(dg.md[i], t)))
  BY <1>0 DEF NodeInv, NodeAt, Called, Height, ForsTreePcs
<1>3. nd.h[0] = ForsPart(dg, i, t + 1)
  BY <1>1, <1>2, Zenon DEF ForsPart
<1>4. sig' = PutFors(sig, i, t + 1, ForsPart(dg, i, t + 1))
  BY <1>3 DEF ForsAuthNode, PutFors
<1>5. /\ IsSig(sig) /\ signed \in [dg : Digests, intact : BOOLEAN] /\ signed.dg = dg /\ signed.intact
      /\ AllFors(sig, dg, i) /\ ForsOk(sig, dg, i, t)
  BY <1>0 DEF SigInv, ForsSignPcs, ForsTreePcs
<1>6. IsSig(sig') /\ AllFors(sig', dg, i) /\ ForsOk(sig', dg, i, t + 1)
  BY <1>0, <1>1, <1>4, <1>5, PutForsIs, ForsPut
<1>7. op' = op /\ dg' = dg /\ signed' = signed /\ i' = i /\ t' = t + 1 /\ pc' = "forsauth"
  BY DEF ForsAuthNode
<1>. QED
  BY <1>0, <1>5, <1>6, <1>7 DEF SigInv, Signing, ForsSignPcs, ForsTreePcs, LayerPcs, XmssPcs

LEMMA AuthNodeSig ==
  ASSUME Inv1, PathInv, SigInv, AuthNode
  PROVE  SigInv'
<1>0. /\ TypeInv /\ FlowInv /\ NodeInv /\ dg \in Digests /\ layer \in 0 .. D - 1 /\ t \in 0 .. HP - 1
      /\ pc = "xdone" /\ op = "sign" /\ Signing
  BY Sizes DEF Inv1, TypeInv, FlowInv, AuthNode, Signing, XmssPcs
<1>1. tree = TreeAt(dg, layer) /\ leaf = LeafAt(dg, layer)
  BY <1>0 DEF PathInv, LayerPcs, XmssPcs
<1>2. nd.h[0] = XNode(layer, tree, t, Sibling(Shift(leaf, t)))
  BY <1>0 DEF NodeInv, NodeAt, Called, Height, ForsTreePcs, XmssPcs
<1>3. nd.h[0] = AuthPart(dg, layer, t)
  BY <1>1, <1>2 DEF AuthPart
<1>4. sig' = PutAuth(sig, layer, t, AuthPart(dg, layer, t))
  BY <1>3 DEF AuthNode, PutAuth
<1>5. /\ IsSig(sig) /\ signed \in [dg : Digests, intact : BOOLEAN] /\ signed.dg = dg /\ signed.intact
      /\ AllFors(sig, dg, K) /\ AllLayers(sig, digits, dg, layer) /\ AuthOk(sig, dg, layer, t)
  BY <1>0 DEF SigInv, ForsSignPcs, ForsTreePcs, LayerPcs, XmssPcs
<1>6. /\ IsSig(sig') /\ AllFors(sig', dg, K) /\ AllLayers(sig', digits, dg, layer)
      /\ AuthOk(sig', dg, layer, t + 1)
  BY <1>0, <1>4, <1>5, PutAuthIs, AuthPut
<1>7. op' = op /\ dg' = dg /\ signed' = signed /\ layer' = layer /\ t' = t + 1 /\ pc' = "auth" /\ digits' = digits
  BY DEF AuthNode
<1>. QED
  BY <1>0, <1>5, <1>6, <1>7 DEF SigInv, Signing, ForsSignPcs, ForsTreePcs, LayerPcs, XmssPcs

\* The value that the layer signs.
LEMMA SignerValue ==
  ASSUME PathInv, MInv, pc \in LayerPcs \ {"climb"}, op = "sign"
  PROVE  m = Signs(layer, tree, leaf) /\ m = SignsAt(dg, layer)
BY DEF PathInv, MInv, Good, MOk, SignsAt

LEMMA WotsSignSig ==
  ASSUME Inv1, PathInv, SigInv, MInv, WotsSign
  PROVE  SigInv'
<1>0. /\ TypeInv /\ FlowInv /\ AdrsInv /\ DigitsInv /\ dg \in Digests /\ layer \in 0 .. D - 1 /\ adrs \in Adrs
      /\ leaf \in Nat /\ pc = "auth" /\ t = HP /\ op = "sign" /\ Signing
  BY DEF Inv1, TypeInv, FlowInv, WotsSign, Signing
<1>1. tree = TreeAt(dg, layer) /\ leaf = LeafAt(dg, layer) /\ m = SignsAt(dg, layer)
  BY <1>0, SignerValue DEF PathInv, LayerPcs
<1>2. Grows(digits, digits') /\ m \in DOMAIN digits' /\ digits'[m] = DigitsOf
  BY RememberGrows DEF WotsSign
<1>3. Vm = WotsCsum(digits'[m]) /\ \A c \in 1 .. Len12 : Vm[c] \in 0 .. W - 1
  BY <1>0, <1>2, VmType
<1> DEFINE w == [c \in 1 .. Len12 |-> WotsChain(ChainAdrs(adrs, leaf, c), Vm[c])]
<1>4. sig' = PutWots(sig, layer, w)
  BY DEF WotsSign, PutWots, ChainAdrs, WotsBase
<1>5. DOMAIN w = 1 .. Len12
  OBVIOUS
<1>6. ASSUME NEW c \in 1 .. Len12
      PROVE  w[c] = WotsPart(dg, layer, c, digits'[SignsAt(dg, layer)])
  <2>1. Vm[c] \in Nat /\ adrs.layer = layer /\ adrs.tree = tree
    BY <1>0, <1>3, DigitSizes DEF AdrsInv, LayerPcs
  <2>2. WotsChain(ChainAdrs(adrs, leaf, c), Vm[c]) = ChainValue(WotsAdrs(layer, tree, leaf, c), Vm[c])
    BY <1>0, <2>1, WotsSignValue
  <2>3. WotsPart(dg, layer, c, digits'[SignsAt(dg, layer)]) = ChainValue(WotsAdrs(layer, tree, leaf, c), Vm[c])
    BY <1>1, <1>3 DEF WotsPart
  <2>. QED
    BY <2>2, <2>3
<1> HIDE DEF w
<1>7. /\ IsSig(sig) /\ signed \in [dg : Digests, intact : BOOLEAN] /\ signed.dg = dg /\ signed.intact
      /\ AllFors(sig, dg, K) /\ AllLayers(sig, digits, dg, layer) /\ AuthOk(sig, dg, layer, HP)
  BY <1>0 DEF SigInv, ForsSignPcs, ForsTreePcs, LayerPcs, XmssPcs
<1>8. AllLayers(sig, digits', dg, layer) /\ SignsAt(dg, layer) \in DOMAIN digits'
  BY <1>1, <1>2, <1>7, Grown
<1>9. /\ IsSig(sig') /\ AllFors(sig', dg, K) /\ AllLayers(sig', digits', dg, layer)
      /\ WotsOk(sig', digits', dg, layer) /\ AuthOk(sig', dg, layer, HP)
  <2>1. IsSig(PutWots(sig, layer, w))
    BY <1>0, <1>5, <1>7, PutWotsIs
  <2>. QED
    BY <1>0, <1>4, <1>5, <1>6, <1>7, <1>8, <2>1, WotsPut
<1>10. op' = op /\ dg' = dg /\ signed' = signed /\ layer' = layer /\ t' = t
       /\ pc' = IF layer < D - 1 THEN "wotspk" ELSE "ready"
  BY DEF WotsSign
<1>11. CASE layer < D - 1
  BY <1>0, <1>7, <1>9, <1>10, <1>11 DEF SigInv, Signing, ForsSignPcs, ForsTreePcs, LayerPcs, XmssPcs
<1>12. CASE layer >= D - 1
  <2>1. layer + 1 = D /\ layer \in Nat /\ ~(layer < D - 1)
    BY <1>0, <1>12, Sizes
  <2>2. AllLayers(sig', digits', dg, D)
    BY <1>9, <2>1, OneMore
  <2>. QED
    BY <1>7, <1>9, <1>10, <2>1, <2>2 DEF SigInv, Signing
<1>. QED
  BY <1>0, <1>11, <1>12, Sizes

LEMMA DamageSig ==
  ASSUME SigInv, Damage
  PROVE  SigInv'
<1>1. /\ ~Signing /\ ~Signing' /\ IsSig(sig) /\ signed \in [dg : Digests, intact : BOOLEAN] /\ signed.intact
      /\ digits' = digits
  BY DEF Damage, Signing, SigInv
<1>2. AllLayers(sig, digits, signed.dg, D)
  BY <1>1 DEF SigInv
<1>3. signed' \in [dg : Digests, intact : BOOLEAN] /\ ~signed'.intact /\ signed'.dg = signed.dg
  BY <1>1 DEF Damage
<1>4. \A l \in 0 .. D - 1, c \in 1 .. Len12 : IsWots(sig, digits, signed.dg, l, c)
  BY <1>2 DEF AllLayers, WotsOk
<1>5. IsSig(sig') /\ Spoilt(sig', digits, signed.dg)
  <2>1. ASSUME NEW x \in 0 .. K - 1, NEW s \in 0 .. A, sig' = PutFors(sig, x, s, Odd)
        PROVE  IsSig(sig') /\ Spoilt(sig', digits, signed.dg)
    <3>1. IsSig(sig') /\ sig'.wots = sig.wots /\ sig'.fors[x][s] = Odd
      BY <1>1, <2>1, PutForsIs
    <3>. QED
      BY <1>4, <3>1 DEF Spoilt, IsWots
  <2>2. ASSUME NEW l \in 0 .. D - 1, NEW c \in 1 .. Len12, sig' = [sig EXCEPT !.wots[l][c] = Odd]
        PROVE  IsSig(sig') /\ Spoilt(sig', digits, signed.dg)
    <3>1. /\ IsSig(sig')
          /\ \A y \in 0 .. D - 1, b \in 1 .. Len12 : sig'.wots[y][b] = IF y = l /\ b = c THEN Odd ELSE sig.wots[y][b]
      BY <1>1, <2>2 DEF IsSig
    <3>. QED
      BY <1>4, <3>1 DEF Spoilt, IsWots
  <2>3. ASSUME NEW l \in 0 .. D - 1, NEW s \in 0 .. HP - 1, sig' = PutAuth(sig, l, s, Odd)
        PROVE  IsSig(sig') /\ Spoilt(sig', digits, signed.dg)
    <3>1. IsSig(sig') /\ sig'.wots = sig.wots /\ sig'.auth[l][s] = Odd
      BY <1>1, <2>3, PutAuthIs
    <3>. QED
      BY <1>4, <3>1 DEF Spoilt, IsWots
  <2>4. \/ \E x \in 0 .. K - 1, s \in 0 .. A : sig' = PutFors(sig, x, s, Odd)
        \/ \E l \in 0 .. D - 1, c \in 1 .. Len12 : sig' = [sig EXCEPT !.wots[l][c] = Odd]
        \/ \E l \in 0 .. D - 1, s \in 0 .. HP - 1 : sig' = PutAuth(sig, l, s, Odd)
    BY Zenon DEF Damage, PutFors, PutAuth
  <2>. QED
    BY <2>1, <2>2, <2>3, <2>4
<1>. QED
  BY <1>1, <1>3, <1>5 DEF SigInv

LEMMA SigStep ==
  ASSUME Inv1, PathInv, RootInv, SigInv, MInv, [Next]_vars
  PROVE  SigInv'
<1>0. TypeInv /\ FlowInv /\ dg \in Digests
  BY DEF Inv1, TypeInv
<1>1. ASSUME UNCHANGED vars PROVE SigInv'
  <2>1. UNCHANGED <<sig, signed, dg, op, pc, i, t, layer, digits>>
    BY <1>1 DEF vars
  <2>. QED
    BY <2>1 DEF SigInv, Signing, Spoilt, AllFors, ForsOk, AllLayers, AuthOk, WotsOk, IsWots
<1>2. ASSUME \/ XmssLeaf \/ XmssMerge \/ ForsLeaf \/ ForsMerge \/ NodeNext \/ ForsAuthCall \/ ForsSigned
             \/ ForsPkLeaf \/ ForsClimb \/ ForsNextTree \/ ForsRoots \/ AuthCall \/ WotsPk \/ Climb \/ NextLayer
      PROVE  SigInv'
  <2>1. CASE Signing
    BY <1>2, <2>1, SignerSig
  <2>2. CASE ~Signing
    <3>1. sig' = sig /\ signed' = signed /\ op' = op /\ pc # "ready"
      BY <1>2 DEF XmssLeaf, XmssMerge, ForsLeaf, ForsMerge, NodeNext, ForsAuthCall, ForsSigned,
         ForsPkLeaf, ForsClimb, ForsNextTree, ForsRoots, AuthCall, WotsPk, Climb, NextLayer
    <3>2. digits' = digits \/ Remember
      BY <1>2 DEF XmssLeaf, XmssMerge, ForsLeaf, ForsMerge, NodeNext, ForsAuthCall, ForsSigned,
         ForsPkLeaf, ForsClimb, ForsNextTree, ForsRoots, AuthCall, WotsPk, Climb, NextLayer
    <3>3. Grows(digits, digits')
      BY <3>2, SameGrows, RememberGrows
    <3>. QED
      BY <2>2, <3>1, <3>3, OthersSig DEF Signing
  <2>. QED
    BY <2>1, <2>2
<1>3. ASSUME Keygen \/ KeygenReturn \/ Compare \/ (\E d \in Digests : Verify(d)) PROVE SigInv'
  <2>1. sig' = sig /\ signed' = signed /\ digits' = digits
    BY <1>3 DEF Keygen, KeygenReturn, Compare, Verify, Call
  <2>2. ~Signing'
    BY <1>3 DEF Keygen, KeygenReturn, Compare, Verify, Call, Signing
  <2>3. ~Signing
    <3>1. CASE Keygen
      BY <3>1 DEF Keygen, RootInv, Signing, XmssPcs
    <3>2. CASE KeygenReturn \/ (\E d \in Digests : Verify(d))
      BY <3>2 DEF KeygenReturn, Verify, Call, Signing
    <3>3. CASE Compare
      <4>1. Signing => layer < D - 1
        BY <3>3 DEF SigInv, Compare
      <4>2. layer = D - 1 /\ D - 1 \in Nat
        BY <3>3, Sizes DEF Compare
      <4>. QED
        BY <4>1, <4>2
    <3>. QED
      BY <1>3, <3>1, <3>2, <3>3
  <2>. QED
    BY <2>1, <2>2, <2>3, SameGrows, OthersSig
<1>4. ASSUME NEW d \in Digests, Sign(d) PROVE SigInv'
  <2>1. /\ sig' = sig /\ signed' = [dg |-> d, intact |-> TRUE] /\ dg' = d /\ i' = 0 /\ pc' = "forssk" /\ op' = "sign"
    BY <1>4 DEF Sign, Call
  <2>2. AllFors(sig', dg', i')
    BY <2>1, OneMore
  <2>3. IsSig(sig') /\ signed' \in [dg : Digests, intact : BOOLEAN] /\ signed'.dg = dg' /\ signed'.intact
    BY <2>1 DEF SigInv
  <2>. QED
    BY <2>1, <2>2, <2>3 DEF SigInv, Signing, ForsSignPcs, ForsTreePcs, LayerPcs, XmssPcs
<1>. QED
  BY <1>1, <1>2, <1>3, <1>4, ForsSkSig, ForsAuthNodeSig, AuthNodeSig, WotsSignSig, DamageSig, Zenon DEF Next

\* The FORS trees of the verifier.
LEMMA PkLeafFors ==
  ASSUME Inv1, ForsInv, ForsPkLeaf
  PROVE  ForsInv'
<1>0. /\ TypeInv /\ FlowInv /\ AdrsInv /\ dg \in Digests /\ i \in 0 .. K - 1 /\ i \in Nat /\ adrs \in Adrs
      /\ pc = "forspk"
  BY Sizes, SMTT(60) DEF Inv1, TypeInv, FlowInv, ForsPkLeaf
<1>1. Index \in Nat /\ Index = Leaf(dg, i)
  BY <1>0, IndexNat
<1>2. PICK a : a = [adrs EXCEPT !.w6 = 0, !.w7 = Index]
  OBVIOUS
<1>3. /\ a \in Adrs /\ a.layer = 0 /\ a.tree = dg.tree /\ a.kp = dg.leaf /\ a.type = "FORS_TREE"
      /\ a.w6 = 0 /\ a.w7 = Index
  BY <1>0, <1>1, <1>2 DEF AdrsInv, ForsPcs, Adrs
<1>4. PICK v : v = Hash(a, <<sig.fors[i][0]>>)
  OBVIOUS
<1>5. v = FNode(dg, 0, Index) <=> sig.fors[i][0] = ForsPart(dg, i, 0)
  BY <1>0, <1>1, <1>3, <1>4, FLeafIff DEF ForsPart
<1>6. /\ roots' = Append(roots, v) /\ UNCHANGED <<dg, i, sig>> /\ t' = 0 /\ pc' = "forsclimb"
  BY <1>2, <1>4 DEF ForsPkLeaf
<1>7. PICK S : roots \in Seq(S)
  BY <1>0 DEF ForsInv
<1>8. Len(roots) = i /\ \A x \in 0 .. i - 1 : RootOk(x) <=> ForsOk(sig, dg, x, A)
  BY <1>0 DEF ForsInv
<1>9. /\ roots' \in Seq(S \cup {v}) /\ Len(roots') = i + 1 /\ roots'[i + 1] = v
      /\ \A x \in 0 .. i - 1 : roots'[x + 1] = roots[x + 1]
  BY <1>0, <1>6, <1>7, <1>8
<1>10. ForsOk(sig, dg, i, 0) <=> sig.fors[i][0] = ForsPart(dg, i, 0)
  BY DEF ForsOk
<1>11. Shift(Leaf(dg, i), 0) = Index
  BY <1>1, ShiftZero
<1>12. \A x \in 0 .. i - 1 : roots'[x + 1] = FNode(dg, A, x) <=> ForsOk(sig, dg, x, A)
  BY <1>8, <1>9 DEF RootOk
<1>. QED
  BY <1>5, <1>6, <1>9, <1>10, <1>11, <1>12 DEF ForsInv, RootOk, ForsSignPcs, ForsTreePcs

LEMMA ClimbFors ==
  ASSUME Inv1, ForsInv, ForsClimb
  PROVE  ForsInv'
<1>0. /\ TypeInv /\ FlowInv /\ AdrsInv /\ dg \in Digests /\ i \in 0 .. K - 1 /\ i \in Nat /\ adrs \in Adrs
      /\ pc = "forsclimb" /\ t \in 0 .. A - 1 /\ t \in Nat /\ t + 1 # 0 /\ (t + 1) - 1 = t
  BY Sizes DEF Inv1, TypeInv, FlowInv, ForsClimb
<1>1. Index \in Nat /\ Index = Leaf(dg, i)
  BY <1>0, IndexNat
<1>2. PICK u : u = Shift(Leaf(dg, i), t)
  OBVIOUS
<1>3. /\ u \in Nat /\ Shift(dg.md[i], t) \in Nat /\ u % 2 = Shift(dg.md[i], t) % 2
      /\ Sibling(u) = i * 2 ^ (A - t) + Sibling(Shift(dg.md[i], t))
  BY <1>0, <1>2, LeafSibling
<1>4. Shift(Index, t + 1) = u \div 2 /\ u \div 2 \in Nat
  BY <1>0, <1>1, <1>2, <1>3, ShiftUp
<1>5. PICK a : a = [adrs EXCEPT !.w6 = t + 1, !.w7 = Shift(Index, t + 1)]
  OBVIOUS
<1>6. /\ a \in Adrs /\ a.layer = 0 /\ a.tree = dg.tree /\ a.kp = dg.leaf /\ a.type = "FORS_TREE"
      /\ a.w6 = t + 1 /\ a.w7 = u \div 2
  <2>1. PICK k, y \in Nat : k = t + 1 /\ y = u \div 2
    BY <1>0, <1>4
  <2>2. a = [adrs EXCEPT !.w6 = k, !.w7 = y]
    BY <1>4, <1>5, <2>1
  <2>. QED
    BY <1>0, <2>1, <2>2 DEF AdrsInv, ForsPcs, Adrs
<1>7. PICK v : v = Hash(a, Pair(Shift(dg.md[i], t), roots[i + 1], sig.fors[i][t + 1]))
  OBVIOUS
<1>8. Pair(Shift(dg.md[i], t), roots[i + 1], sig.fors[i][t + 1]) = Pair(u, roots[i + 1], sig.fors[i][t + 1])
  BY <1>3 DEF Pair
<1>9. v = FNode(dg, t + 1, u \div 2)
        <=> roots[i + 1] = FNode(dg, t, u) /\ sig.fors[i][t + 1] = FNode(dg, t, Sibling(u))
  BY <1>0, <1>3, <1>6, <1>7, <1>8, FClimb
<1>10. FNode(dg, t, Sibling(u)) = ForsPart(dg, i, t + 1)
  BY <1>0, <1>3, Zenon DEF ForsPart
<1>11. roots[i + 1] = FNode(dg, t, u) <=> ForsOk(sig, dg, i, t)
  BY <1>0, <1>2 DEF ForsInv
<1>12. ForsOk(sig, dg, i, t + 1) <=> ForsOk(sig, dg, i, t) /\ sig.fors[i][t + 1] = ForsPart(dg, i, t + 1)
  <2>1. 0 .. t + 1 = (0 .. t) \cup {t + 1}
    BY <1>0
  <2>. QED
    BY <2>1, Zenon DEF ForsOk
<1>13. v = FNode(dg, t + 1, Shift(Leaf(dg, i), t + 1)) <=> ForsOk(sig, dg, i, t + 1)
  BY <1>1, <1>4, <1>9, <1>10, <1>11, <1>12
<1>14. PICK S : roots \in Seq(S)
  BY <1>0 DEF ForsInv
<1>15. Len(roots) = i + 1 /\ \A x \in 0 .. i - 1 : RootOk(x) <=> ForsOk(sig, dg, x, A)
  BY <1>0 DEF ForsInv
<1>16. roots' = [roots EXCEPT ![i + 1] = v] /\ UNCHANGED <<dg, i, sig>> /\ t' = t + 1 /\ pc' = "forsclimb"
  BY <1>0, <1>5, <1>7 DEF ForsClimb
<1>17. /\ roots' \in Seq(S \cup {v}) /\ Len(roots') = i + 1 /\ roots'[i + 1] = v
       /\ \A x \in 0 .. i - 1 : roots'[x + 1] = roots[x + 1]
  BY <1>0, <1>14, <1>15, <1>16
<1>18. \A x \in 0 .. i - 1 : roots'[x + 1] = FNode(dg, A, x) <=> ForsOk(sig, dg, x, A)
  BY <1>15, <1>17 DEF RootOk
<1>. QED
  BY <1>13, <1>16, <1>17, <1>18 DEF ForsInv, RootOk, ForsSignPcs, ForsTreePcs

LEMMA NextTreeFors ==
  ASSUME Inv1, ForsInv, ForsNextTree
  PROVE  ForsInv'
<1>0. /\ TypeInv /\ dg \in Digests /\ i \in 0 .. K - 1 /\ i \in Nat /\ pc = "forsclimb" /\ t = A
  BY Sizes DEF Inv1, TypeInv, FlowInv, ForsNextTree
<1>1. UNCHANGED <<roots, dg, sig>> /\ i' = i + 1 /\ pc' = "forspk"
  BY DEF ForsNextTree
<1>2. /\ Len(roots) = i + 1 /\ \A x \in 0 .. i - 1 : RootOk(x) <=> ForsOk(sig, dg, x, A)
      /\ roots[i + 1] = FNode(dg, t, Shift(Leaf(dg, i), t)) <=> ForsOk(sig, dg, i, t)
  BY <1>0 DEF ForsInv
<1>3. RootOk(i) <=> ForsOk(sig, dg, i, A)
  BY <1>0, <1>2, LeafTop DEF RootOk
<1>4. \A x \in 0 .. i : RootOk(x) <=> ForsOk(sig, dg, x, A)
  BY <1>0, <1>2, <1>3
<1>5. i' - 1 = i
  BY <1>0, <1>1
<1>6. \E S : roots \in Seq(S)
  BY <1>0 DEF ForsInv
<1>. QED
  BY <1>1, <1>2, <1>4, <1>5, <1>6 DEF ForsInv, RootOk, ForsSignPcs, ForsTreePcs

LEMMA ForsStep ==
  ASSUME Inv1, ForsInv, [Next]_vars
  PROVE  ForsInv'
<1>0. TypeInv /\ FlowInv
  BY DEF Inv1, TypeInv
<1>1. ASSUME UNCHANGED vars PROVE ForsInv'
  <2>1. UNCHANGED <<roots, sig, dg, i, t, pc>>
    BY <1>1 DEF vars
  <2>. QED
    BY <2>1 DEF ForsInv, RootOk, ForsOk
<1>2. ASSUME NEW d \in Digests, Sign(d) \/ Verify(d) PROVE ForsInv'
  <2>1. roots' = <<>> /\ i' = 0 /\ pc' \in {"forssk", "forspk"}
    BY <1>2 DEF Sign, Verify, Call
  <2>2. roots' \in Seq({}) /\ Len(roots') = 0 /\ 0 .. i' - 1 = {}
    BY <2>1
  <2>. QED
    BY <2>1, <2>2 DEF ForsInv, ForsSignPcs, ForsTreePcs
<1>3. ASSUME ForsSigned PROVE ForsInv'
  <2>1. roots' = <<>> /\ (pc' = "forssk" \/ (pc' = "forspk" /\ i' = 0))
    BY <1>3 DEF ForsSigned, ForsInv, ForsSignPcs, ForsTreePcs
  <2>2. roots' \in Seq({}) /\ Len(roots') = 0
    BY <2>1
  <2>. QED
    BY <2>1, <2>2 DEF ForsInv, ForsSignPcs, ForsTreePcs
<1>4. ASSUME ForsLeaf \/ ForsMerge \/ ForsSk \/ ForsAuthCall \/ ForsAuthNode PROVE ForsInv'
  <2>1. pc \in ForsSignPcs /\ pc' \in ForsSignPcs /\ roots' = roots
    BY <1>4 DEF ForsLeaf, ForsMerge, ForsSk, ForsAuthCall, ForsAuthNode, ForsSignPcs, ForsTreePcs
  <2>. QED
    BY <2>1 DEF ForsInv, ForsSignPcs, ForsTreePcs
<1>5. ASSUME NodeNext PROVE ForsInv'
  <2>1. roots' = roots /\ pc' \notin {"forspk", "forsclimb"} /\ (pc' \in ForsSignPcs => pc \in ForsSignPcs)
    BY <1>5 DEF NodeNext, ForsSignPcs, ForsTreePcs
  <2>. QED
    BY <2>1 DEF ForsInv
<1>6. ASSUME \/ Keygen \/ KeygenReturn \/ XmssLeaf \/ XmssMerge \/ AuthCall \/ AuthNode \/ WotsSign
             \/ WotsPk \/ Climb \/ NextLayer \/ Compare \/ ForsRoots \/ Damage
      PROVE  ForsInv'
  <2>1. pc' \notin ForsSignPcs \cup {"forspk", "forsclimb"}
    BY <1>6 DEF Keygen, KeygenReturn, XmssLeaf, XmssMerge, AuthCall, AuthNode, WotsSign, WotsPk, Climb,
              NextLayer, Compare, ForsRoots, Damage, ForsSignPcs, ForsTreePcs
  <2>. QED
    BY <2>1 DEF ForsInv
<1>. QED
  BY <1>1, <1>2, <1>3, <1>4, <1>5, <1>6, PkLeafFors, ClimbFors, NextTreeFors, Zenon DEF Next

\* What a layer signs.
LEMMA RootsM ==
  ASSUME Inv1, SigInv, ForsInv, ForsRoots
  PROVE  /\ m' = Signs(0, tree, leaf) <=> AllFors(sig, dg, K)
         /\ Good => AllFors(sig, dg, K)
<1>0. /\ TypeInv /\ FlowInv /\ AdrsInv /\ dg \in Digests /\ adrs \in Adrs /\ pc = "forspk" /\ i = K
      /\ op \in {"sign", "verify"}
  BY DEF Inv1, TypeInv, FlowInv, ForsRoots
<1>1. PICK S : roots \in Seq(S)
  BY <1>0 DEF ForsInv
<1>2. Len(roots) = K /\ \A x \in 0 .. K - 1 : RootOk(x) <=> ForsOk(sig, dg, x, A)
  BY <1>0 DEF ForsInv
<1>3. adrs.layer = 0 /\ adrs.tree = dg.tree /\ adrs.kp = dg.leaf /\ tree = dg.tree /\ leaf = dg.leaf
  BY <1>0 DEF AdrsInv, ForsPcs
<1>4. m' = Hash(SetTypeAndClearNotKp(adrs, "FORS_ROOTS"), roots)
  BY DEF ForsRoots
<1>5. m' = Signs(0, dg.tree, dg.leaf) <=> \A x \in 0 .. K - 1 : roots[x + 1] = FNode(dg, A, x)
  BY <1>0, <1>1, <1>2, <1>3, <1>4, RootsIff
<1>6. m' = Signs(0, tree, leaf) <=> AllFors(sig, dg, K)
  BY <1>2, <1>3, <1>5 DEF RootOk, AllFors
<1>7. Good => AllFors(sig, dg, K)
  BY <1>0 DEF Good, SigInv, Signing, ForsSignPcs, ForsTreePcs
<1>. QED
  BY <1>6, <1>7

\* The signer computes what the layers sign.
LEMMA SignerM ==
  ASSUME Inv1', SigInv', op' = "sign", pc' # "ready", MOk'
  PROVE  MInv'
<1>1. Signing'
  BY DEF Signing
<1>2. pc' \in LayerPcs => AllLayers(sig', digits', dg', layer') /\ AllFors(sig', dg', K)
  BY <1>1 DEF SigInv, ForsSignPcs, ForsTreePcs, LayerPcs, XmssPcs
<1>3. pc' = "climb" => WotsOk(sig', digits', dg', layer') /\ AuthOk(sig', dg', layer', HP)
  BY <1>1 DEF SigInv
<1>4. pc' = "climb" => AuthOk(sig', dg', layer', t')
  <2>1. pc' = "climb" => t' \in 0 .. HP
    BY Sizes DEF Inv1, TypeInv, FlowInv
  <2>2. ASSUME pc' = "climb" PROVE 0 .. t' - 1 \subseteq 0 .. HP - 1
    BY <2>1, <2>2, Sizes
  <2>. QED
    BY <1>3, <2>2 DEF AuthOk
<1>. QED
  BY <1>2, <1>3, <1>4 DEF MInv

\* Digits that begin two equal rows of chain lengths are equal.
LEMMA SameDigits ==
  ASSUME NEW v \in Digits, NEW w \in Digits, \A c \in 1 .. Len12 : WotsCsum(v)[c] = WotsCsum(w)[c]
  PROVE  v = w
<1>1. \A c \in 1 .. Len1 : c \in 1 .. Len12
  BY DigitSizes
<1>2. \A c \in 1 .. Len1 : v[c] = w[c]
  BY <1>1, CsumDigits
<1>3. v = [c \in 1 .. Len1 |-> v[c]] /\ w = [c \in 1 .. Len1 |-> w[c]]
  BY Zenon DEF Digits
<1>. QED
  BY <1>2, <1>3, Zenon

\* The chains of the signature, hashed on, give the key of the pair exactly if
\* the key signed this value.
LEMMA WotsM ==
  ASSUME Inv1, PathInv, SigInv, MInv, WotsPk
  PROVE  /\ Good => m' = XNode(layer, tree, 0, leaf)
         /\ op = "verify" /\ m' = XNode(layer, tree, 0, leaf) =>
              AllFors(sig, dg, K) /\ AllLayers(sig, digits', dg, layer) /\ WotsOk(sig, digits', dg, layer)
<1>0. /\ TypeInv /\ FlowInv /\ DigitsInv /\ dg \in Digests /\ layer \in 0 .. D - 1 /\ adrs \in Adrs /\ leaf \in Nat
      /\ pc = "wotspk" /\ op \in {"sign", "verify"} /\ adrs.layer = layer /\ adrs.tree = tree
      /\ pc \in LayerPcs /\ op # "keygen"
  BY DEF Inv1, TypeInv, FlowInv, AdrsInv, WotsPk, LayerPcs
<1>1. tree = TreeAt(dg, layer) /\ leaf = LeafAt(dg, layer)
  BY <1>0 DEF PathInv
<1>2. Grows(digits, digits') /\ m \in DOMAIN digits' /\ digits'[m] = DigitsOf
  BY RememberGrows DEF WotsPk
<1>3. DigitsOf \in Digits /\ Vm = WotsCsum(DigitsOf) /\ \A c \in 1 .. Len12 : Vm[c] \in 0 .. W - 1
  BY <1>0, VmType
<1>4. m' = Hash(SetTypeAndClearNotKp(WotsBase(adrs, leaf), "WOTS_PK"), ChainEnds(adrs, leaf, sig.wots[layer], Vm))
  BY DEF WotsPk, WotsBase, ChainEnds, ChainAdrs
<1>5. m' = XNode(layer, tree, 0, leaf)
        <=> \A c \in 1 .. Len12 : sig.wots[layer][c] = ChainValue(WotsAdrs(layer, tree, leaf, c), Vm[c])
  <2>1. Hash(SetTypeAndClearNotKp(WotsBase(adrs, leaf), "WOTS_PK"), ChainEnds(adrs, leaf, sig.wots[layer], Vm))
          = XNode(adrs.layer, adrs.tree, 0, leaf)
        <=> \A c \in 1 .. Len12 : sig.wots[layer][c] = ChainValue(WotsAdrs(adrs.layer, adrs.tree, leaf, c), Vm[c])
    BY <1>0, <1>3, WotsPkIff
  <2>. QED
    BY <1>0, <1>4, <2>1
<1>6. /\ Good => MOk
      /\ MOk => AllFors(sig, dg, K) /\ AllLayers(sig, digits, dg, layer)
      /\ MOk <=> m = Signs(layer, tree, leaf)
      /\ SignsAt(dg, layer) = Signs(layer, tree, leaf)
  BY <1>0, <1>1 DEF MInv, MOk, SignsAt
<1>7. ASSUME Good PROVE m' = XNode(layer, tree, 0, leaf)
  <2>1. m = SignsAt(dg, layer)
    BY <1>6, <1>7
  <2>2. WotsOk(sig, digits, dg, layer)
    <3>1. CASE op = "sign"
      BY <1>0, <3>1 DEF SigInv, Signing
    <3>2. CASE op = "verify"
      <4>1. AllLayers(sig, digits, dg, D)
        BY <1>7, <3>2 DEF SigInv, Signing, Good
      <4>. QED
        BY <1>0, <4>1 DEF AllLayers
    <3>. QED
      BY <1>0, <3>1, <3>2
  <2>3. m \in DOMAIN digits /\ DigitsOf = digits[m]
    BY <2>1, <2>2, DigitSizes DEF WotsOk, IsWots, DigitsOf
  <2>4. \A c \in 1 .. Len12 : sig.wots[layer][c] = ChainValue(WotsAdrs(layer, tree, leaf, c), Vm[c])
    BY <1>1, <1>3, <2>1, <2>2, <2>3 DEF WotsOk, IsWots, WotsPart
  <2>. QED
    BY <1>5, <2>4
<1>8. ASSUME op = "verify", m' = XNode(layer, tree, 0, leaf)
      PROVE  AllFors(sig, dg, K) /\ AllLayers(sig, digits', dg, layer) /\ WotsOk(sig, digits', dg, layer)
  <2>1. \A c \in 1 .. Len12 : sig.wots[layer][c] = ChainValue(WotsAdrs(layer, tree, leaf, c), Vm[c])
    BY <1>5, <1>8
  <2>2. \A c \in 1 .. Len12 : sig.wots[layer][c] = Odd \/ IsWots(sig, digits, signed.dg, layer, c)
    BY <1>0, <1>8 DEF SigInv, Signing, AllLayers, WotsOk, Spoilt
  <2>3. \A c \in 1 .. Len12 : IsWots(sig, digits, signed.dg, layer, c)
    BY <2>1, <2>2, NotOdd
  <2>4. PICK sd, w : sd = SignsAt(signed.dg, layer) /\ w = digits[sd]
    OBVIOUS
  <2>5. sd \in DOMAIN digits /\ w \in Digits
    BY <1>0, <2>3, <2>4, DigitSizes DEF IsWots, DigitsInv
  <2>6. ASSUME NEW c \in 1 .. Len12
        PROVE  tree = TreeAt(signed.dg, layer) /\ leaf = LeafAt(signed.dg, layer) /\ Vm[c] = WotsCsum(w)[c]
    <3>1. Vm[c] \in Nat /\ WotsCsum(w)[c] \in Nat
      BY <1>3, <2>5, CsumDigits, DigitSizes
    <3>2. ChainValue(WotsAdrs(layer, tree, leaf, c), Vm[c])
            = ChainValue(WotsAdrs(layer, TreeAt(signed.dg, layer), LeafAt(signed.dg, layer), c), WotsCsum(w)[c])
      BY <2>1, <2>3, <2>4 DEF IsWots, WotsPart
    <3>. QED
      BY <3>1, <3>2, SameChain
  <2>7. tree = TreeAt(signed.dg, layer) /\ leaf = LeafAt(signed.dg, layer)
    BY <2>6, DigitSizes
  <2>8. DigitsOf = w
    BY <1>3, <2>5, <2>6, SameDigits
  <2>9. m = sd
    <3>1. m \in DOMAIN digits
      <4>1. SUFFICES ASSUME m \notin DOMAIN digits PROVE FALSE
        OBVIOUS
      <4>2. Len(deal) > 0 /\ deal \in Seq(Digits) /\ DigitsOf = Head(deal)
        BY <1>0, <4>1, VmType DEF DigitsInv, DigitsOf
      <4>3. 1 \in 1 .. Len(deal) /\ Head(deal) = deal[1]
        BY <4>2
      <4>. QED
        BY <1>0, <2>4, <2>5, <2>8, <4>2, <4>3 DEF DigitsInv
    <3>2. digits[m] = digits[sd]
      BY <2>4, <2>8, <3>1 DEF DigitsOf
    <3>. QED
      BY <1>0, <2>5, <3>1, <3>2 DEF DigitsInv
  <2>10. MOk
    BY <1>6, <2>4, <2>7, <2>9 DEF SignsAt
  <2>11. AllFors(sig, dg, K) /\ AllLayers(sig, digits', dg, layer)
    BY <1>2, <1>6, <2>10, Grown
  <2>12. \A c \in 1 .. Len12 : IsWots(sig, digits', dg, layer, c)
    BY <1>1, <1>2, <1>3, <1>6, <2>1, <2>10 DEF IsWots, WotsPart
  <2>. QED
    BY <2>11, <2>12 DEF WotsOk
<1>. QED
  BY <1>7, <1>8

LEMMA ClimbM ==
  ASSUME Inv1, PathInv, SigInv, MInv, Climb
  PROVE  /\ MOk' <=> MOk /\ sig.auth[layer][t] = AuthPart(dg, layer, t)
         /\ Good => sig.auth[layer][t] = AuthPart(dg, layer, t)
<1>0. /\ TypeInv /\ FlowInv /\ AdrsInv /\ dg \in Digests /\ layer \in 0 .. D - 1 /\ layer \in Nat
      /\ tree \in Nat /\ leaf \in Nat /\ adrs \in Adrs /\ t \in 0 .. HP - 1 /\ t \in Nat
      /\ pc = "climb" /\ op \in {"sign", "verify"} /\ op # "keygen" /\ pc \in LayerPcs
  BY Sizes DEF Inv1, TypeInv, FlowInv, Climb, LayerPcs
<1>1. tree = TreeAt(dg, layer) /\ leaf = LeafAt(dg, layer)
  BY <1>0 DEF PathInv
<1>2. PICK u : u = Shift(leaf, t)
  OBVIOUS
<1>3. u \in Nat /\ Shift(leaf, t + 1) = u \div 2 /\ u \div 2 \in Nat
  BY <1>0, <1>2, ShiftNat, ShiftUp
<1>4. PICK a : a = [adrs EXCEPT !.w6 = t + 1, !.w7 = Shift(leaf, t + 1)]
  OBVIOUS
<1>5. /\ a \in Adrs /\ a.layer = layer /\ a.tree = tree /\ a.kp = 0 /\ a.type = "TREE"
      /\ a.w6 = t + 1 /\ a.w7 = u \div 2
  <2>1. PICK k, y \in Nat : k = t + 1 /\ y = u \div 2
    BY <1>0, <1>3
  <2>2. a = [adrs EXCEPT !.w6 = k, !.w7 = y]
    BY <1>3, <1>4, <2>1
  <2>. QED
    BY <1>0, <2>1, <2>2 DEF AdrsInv, Adrs
<1>6. m' = Hash(a, Pair(u, m, sig.auth[layer][t]))
  BY <1>2, <1>4 DEF Climb
<1>7. m' = XNode(layer, tree, t + 1, u \div 2)
        <=> m = XNode(layer, tree, t, u) /\ sig.auth[layer][t] = XNode(layer, tree, t, Sibling(u))
  <2>1. PICK l, tr, k \in Nat : l = layer /\ tr = tree /\ k = t
    BY <1>0
  <2>2. /\ a \in Adrs /\ a.layer = l /\ a.tree = tr /\ a.kp = 0 /\ a.type = "TREE"
        /\ a.w6 = k + 1 /\ a.w7 = u \div 2
    BY <1>5, <2>1
  <2>3. u \in Nat
    BY <1>3
  <2>4. \A n, s : Hash(a, Pair(u, n, s)) = XNode(l, tr, k + 1, u \div 2)
                    <=> n = XNode(l, tr, k, u) /\ s = XNode(l, tr, k, Sibling(u))
    BY <2>2, <2>3, XClimb
  <2>5. Hash(a, Pair(u, m, sig.auth[layer][t])) = XNode(l, tr, k + 1, u \div 2)
          <=> m = XNode(l, tr, k, u) /\ sig.auth[layer][t] = XNode(l, tr, k, Sibling(u))
    BY <2>4, Zenon
  <2>. QED
    BY <1>6, <2>1, <2>5
<1>8. AuthPart(dg, layer, t) = XNode(layer, tree, t, Sibling(u))
  BY <1>1, <1>2 DEF AuthPart
<1>9. MOk <=> m = XNode(layer, tree, t, u)
  BY <1>0, <1>2 DEF MOk
<1>10. MOk' <=> m' = XNode(layer, tree, t + 1, u \div 2)
  <2>1. pc' = "climb" /\ layer' = layer /\ tree' = tree /\ leaf' = leaf /\ t' = t + 1
    BY <1>0 DEF Climb
  <2>. QED
    BY <1>3, <2>1 DEF MOk
<1>11. ASSUME Good PROVE sig.auth[layer][t] = AuthPart(dg, layer, t)
  <2>1. CASE op = "sign"
    BY <1>0, <2>1 DEF SigInv, Signing, AuthOk
  <2>2. CASE op = "verify"
    <3>1. AllLayers(sig, digits, dg, D)
      BY <1>11, <2>2 DEF SigInv, Signing, Good
    <3>. QED
      BY <1>0, <3>1 DEF AllLayers, AuthOk
  <2>. QED
    BY <1>0, <2>1, <2>2
<1>. QED
  BY <1>7, <1>8, <1>9, <1>10, <1>11

\* At the top of a tree.
LEMMA TopM ==
  ASSUME Inv1, PathInv, pc = "climb", t = HP
  PROVE  MOk <=> m = XNode(layer, tree, HP, 0)
<1>0. /\ TypeInv /\ FlowInv /\ dg \in Digests /\ layer \in Nat /\ op # "keygen" /\ pc \in LayerPcs
  BY Sizes DEF Inv1, TypeInv, FlowInv, LayerPcs
<1>1. leaf = LeafAt(dg, layer) /\ LeafAt(dg, layer) \in Nat /\ LeafAt(dg, layer) < 2 ^ HP
  BY <1>0, TreePath DEF PathInv
<1>2. Shift(leaf, HP) = 0
  BY <1>1, ShiftOut, Sizes
<1>. QED
  BY <1>2 DEF MOk

LEMMA NextLayerM ==
  ASSUME Inv1, PathInv, NextLayer
  PROVE  MOk' <=> MOk
<1>0. /\ TypeInv /\ FlowInv /\ dg \in Digests /\ layer \in Nat /\ op \in {"sign", "verify"} /\ pc \in LayerPcs
      /\ pc = "climb" /\ t = HP
  BY Sizes DEF Inv1, TypeInv, FlowInv, LayerPcs, NextLayer
<1>1. /\ tree' = Shift(tree, HP) /\ leaf' = tree % 2 ^ HP /\ layer' = layer + 1 /\ m' = m /\ pc' # "climb"
  BY DEF NextLayer
<1>2. tree = TreeAt(dg, layer)
  BY <1>0 DEF PathInv
<1>3. Signs(layer', tree', leaf') = SignsAt(dg, layer + 1)
  BY <1>0, <1>1, <1>2, TreePath DEF SignsAt
<1>4. SignsAt(dg, layer + 1) = XNode(layer, tree, HP, 0)
  BY <1>0, <1>2, SignsNext
<1>. QED
  BY <1>0, <1>1, <1>3, <1>4, TopM DEF MOk

LEMMA MStep ==
  ASSUME Inv1, Inv1', PathInv, SigInv, SigInv', ForsInv, MInv, [Next]_vars
  PROVE  MInv'
<1>0. TypeInv /\ FlowInv
  BY DEF Inv1
<1>1. ASSUME UNCHANGED vars PROVE MInv'
  <2>1. UNCHANGED <<pc, op, m, layer, tree, leaf, t, dg, signed, sig, digits>>
    BY <1>1 DEF vars
  <2>. QED
    BY <2>1 DEF MInv, Good, MOk, AllFors, ForsOk, AllLayers, AuthOk, WotsOk, IsWots
<1>2. ASSUME \/ Keygen \/ KeygenReturn \/ (\E d \in Digests : Sign(d) \/ Verify(d)) \/ Damage
             \/ ForsLeaf \/ ForsMerge \/ ForsSk \/ ForsAuthCall \/ ForsAuthNode \/ ForsSigned
             \/ ForsPkLeaf \/ ForsClimb \/ ForsNextTree \/ Compare
      PROVE  MInv'
  <2>1. pc' \notin LayerPcs \/ op' = "keygen"
    BY <1>0, <1>2 DEF KeygenReturn, Sign, Verify, Damage, ForsLeaf, ForsMerge, ForsSk, ForsAuthCall, ForsAuthNode,
              ForsSigned, ForsPkLeaf, ForsClimb, ForsNextTree, Keygen, Compare, LayerPcs, XmssPcs, ForsTreePcs
  <2>. QED
    BY <2>1 DEF MInv
<1>3. ASSUME XmssLeaf \/ XmssMerge \/ NodeNext \/ AuthCall \/ AuthNode \/ WotsSign PROVE MInv'
  <2>1. UNCHANGED <<op, m, layer, tree, leaf>>
    BY <1>3 DEF XmssLeaf, XmssMerge, NodeNext, AuthCall, AuthNode, WotsSign
  <2>2. CASE pc' \in LayerPcs /\ op' # "keygen"
    <3>1. pc \in LayerPcs \ {"climb"} /\ pc' \in LayerPcs \ {"climb"} /\ op = "sign" /\ pc' # "ready"
      BY <1>0, <1>3, <2>1, <2>2 DEF XmssLeaf, XmssMerge, NodeNext, AuthCall, AuthNode, WotsSign, FlowInv,
         LayerPcs, XmssPcs
    <3>2. MOk'
      BY <2>1, <3>1, SignerValue DEF MOk
    <3>. QED
      BY <2>1, <3>1, <3>2, SignerM
  <2>3. CASE ~(pc' \in LayerPcs /\ op' # "keygen")
    BY <2>3 DEF MInv
  <2>. QED
    BY <2>2, <2>3
<1>4. ASSUME ForsRoots PROVE MInv'
  <2>1. /\ UNCHANGED <<op, tree, leaf, dg, sig, signed, digits>> /\ layer' = 0
        /\ pc' = IF op = "sign" THEN "auth" ELSE "wotspk"
    BY <1>4 DEF ForsRoots
  <2>2. (MOk' <=> AllFors(sig, dg, K)) /\ (Good => AllFors(sig, dg, K))
    BY <1>4, <2>1, RootsM DEF MOk
  <2>3. CASE op = "sign"
    BY <2>1, <2>2, <2>3, SignerM DEF Good
  <2>4. CASE op # "sign"
    BY <2>1, <2>2, <2>4, OneMore DEF MInv, Good
  <2>. QED
    BY <2>3, <2>4
<1>5. ASSUME WotsPk PROVE MInv'
  <2>1. UNCHANGED <<op, layer, tree, leaf, dg, sig, signed>> /\ t' = 0 /\ pc' = "climb" /\ op \in {"sign", "verify"}
    BY <1>0, <1>5 DEF WotsPk, FlowInv
  <2>2. MOk' <=> m' = XNode(layer, tree, 0, leaf)
    <3>1. Shift(leaf, 0) = leaf
      BY <1>0, ShiftZero DEF TypeInv
    <3>. QED
      BY <2>1, <3>1 DEF MOk
  <2>3. CASE op = "sign"
    BY <1>5, <2>1, <2>2, <2>3, WotsM, SignerM DEF Good
  <2>4. CASE op = "verify"
    BY <1>5, <2>1, <2>2, <2>4, WotsM, OneMore DEF MInv, Good
  <2>. QED
    BY <2>1, <2>3, <2>4
<1>6. ASSUME Climb PROVE MInv'
  <2>1. /\ UNCHANGED <<op, layer, tree, leaf, dg, sig, signed, digits>> /\ t' = t + 1 /\ pc = "climb" /\ pc' = "climb"
        /\ op \in {"sign", "verify"} /\ pc \in LayerPcs /\ t \in Nat
    BY <1>0, <1>6 DEF Climb, FlowInv, LayerPcs, TypeInv
  <2>2. /\ MOk' <=> MOk /\ sig.auth[layer][t] = AuthPart(dg, layer, t)
        /\ Good => sig.auth[layer][t] = AuthPart(dg, layer, t)
    BY <1>6, ClimbM
  <2>3. CASE op = "sign"
    BY <2>1, <2>2, <2>3, SignerM DEF Good, MInv
  <2>4. CASE op = "verify"
    <3>1. AuthOk(sig, dg, layer, t) /\ sig.auth[layer][t] = AuthPart(dg, layer, t) => AuthOk(sig, dg, layer, t + 1)
      <4>1. 0 .. (t + 1) - 1 = (0 .. t - 1) \cup {t}
        BY <2>1
      <4>. QED
        BY <4>1, Zenon DEF AuthOk
    <3>. QED
      BY <2>1, <2>2, <2>4, <3>1 DEF MInv, Good
  <2>. QED
    BY <2>1, <2>3, <2>4
<1>7. ASSUME NextLayer PROVE MInv'
  <2>1. /\ UNCHANGED <<op, dg, sig, signed, digits>> /\ layer' = layer + 1 /\ pc = "climb" /\ pc' # "climb" /\ t = HP
        /\ op \in {"sign", "verify"} /\ pc \in LayerPcs /\ pc' # "ready" /\ layer \in Nat
    BY <1>0, <1>7, Sizes DEF NextLayer, FlowInv, LayerPcs, TypeInv
  <2>2. MOk' <=> MOk
    BY <1>7, NextLayerM
  <2>3. CASE op = "sign"
    BY <2>1, <2>2, <2>3, SignerM DEF Good, MInv
  <2>4. CASE op = "verify"
    BY <2>1, <2>2, <2>4, OneMore DEF MInv, Good
  <2>. QED
    BY <2>1, <2>3, <2>4
<1>. QED
  BY <1>1, <1>2, <1>3, <1>4, <1>5, <1>6, <1>7, Zenon DEF Next

LEMMA KeysStep ==
  ASSUME Inv1, PathInv, MInv, KeysInv, [Next]_vars
  PROVE  KeysInv'
<1>1. ASSUME WotsSign PROVE KeysInv'
  <2>1. pc \in LayerPcs \ {"climb"} /\ op = "sign"
    BY <1>1 DEF WotsSign, LayerPcs, Inv1, FlowInv
  <2>2. m = Signs(layer, tree, leaf)
    BY <2>1, SignerValue
  <2>3. keys' = keys \cup {[layer |-> layer, tree |-> tree, leaf |-> leaf, m |-> m]}
    BY <1>1 DEF WotsSign
  <2>. QED
    BY <2>2, <2>3 DEF KeysInv
<1>2. ASSUME keys' = keys PROVE KeysInv'
  BY <1>2 DEF KeysInv
<1>3. WotsSign \/ keys' = keys
  <2>1. ASSUME \/ Keygen \/ KeygenReturn \/ (\E d \in Digests : Sign(d) \/ Verify(d)) \/ Damage
               \/ XmssLeaf \/ XmssMerge \/ ForsLeaf \/ ForsMerge \/ NodeNext
               \/ ForsSk \/ ForsAuthCall \/ ForsAuthNode \/ ForsSigned
        PROVE  keys' = keys
    BY <2>1 DEF Keygen, KeygenReturn, Sign, Verify, Call, Damage, XmssLeaf, XmssMerge, ForsLeaf, ForsMerge,
                NodeNext, ForsSk, ForsAuthCall, ForsAuthNode, ForsSigned
  <2>2. ASSUME \/ ForsPkLeaf \/ ForsClimb \/ ForsNextTree \/ ForsRoots
               \/ AuthCall \/ AuthNode \/ WotsPk \/ Climb \/ NextLayer \/ Compare
        PROVE  keys' = keys
    BY <2>2 DEF ForsPkLeaf, ForsClimb, ForsNextTree, ForsRoots, AuthCall, AuthNode, WotsPk, Climb, NextLayer, Compare
  <2>3. UNCHANGED vars => keys' = keys
    BY DEF vars
  <2>. QED
    BY <2>1, <2>2, <2>3, Zenon DEF Next
<1>. QED
  BY <1>1, <1>2, <1>3

\* The FORS part of the signatures of two digests differs.
LEMMA SameFors ==
  ASSUME NEW d \in Digests, NEW e \in Digests, NEW g, AllFors(g, d, K), AllFors(g, e, K)
  PROVE  d = e
<1>1. ASSUME NEW x \in 0 .. K - 1 PROVE d.tree = e.tree /\ d.leaf = e.leaf /\ d.md[x] = e.md[x]
  <2>1. 0 \in 0 .. A
    BY Sizes
  <2>2. ForsPart(d, x, 0) = ForsPart(e, x, 0)
    BY <2>1 DEF AllFors, ForsOk
  <2>3. FAdrs(d, "FORS_PRF", 0, Leaf(d, x)) = FAdrs(e, "FORS_PRF", 0, Leaf(e, x))
    BY <2>2, SameValue DEF ForsPart
  <2>4. d.tree = e.tree /\ d.leaf = e.leaf /\ Leaf(d, x) = Leaf(e, x)
    BY <2>3, Zenon DEF FAdrs
  <2>5. PICK b \in Nat : b = x * 2 ^ A
    <3>1. PICK c \in Nat : c = 2 ^ A
      BY TwoPositive, Sizes
    <3>2. x * c \in Nat
      BY <3>1, Sizes
    <3>. QED
      BY <3>1, <3>2
  <2>6. b + d.md[x] = b + e.md[x] /\ d.md[x] \in Nat /\ e.md[x] \in Nat
    BY <2>4, <2>5, DigestTypes DEF Leaf
  <2>. QED
    BY <2>4, <2>6
<1>2. 0 \in 0 .. K - 1
  BY Sizes
<1>3. PICK S, T, U : /\ d \in [md : [0 .. K - 1 -> S], tree : T, leaf : U]
                     /\ e \in [md : [0 .. K - 1 -> S], tree : T, leaf : U]
  BY SizesAssumption, Zenon
<1>4. d.md = e.md
  <2>1. d.md \in [0 .. K - 1 -> S] /\ e.md \in [0 .. K - 1 -> S]
    BY <1>3
  <2>2. d.md = [x \in 0 .. K - 1 |-> d.md[x]] /\ e.md = [x \in 0 .. K - 1 |-> e.md[x]]
    BY <2>1, Zenon
  <2>. QED
    BY <1>1, <2>2, Zenon
<1>. QED
  BY <1>1, <1>2, <1>3, <1>4

LEMMA AgreedStep ==
  ASSUME Inv1, PathInv, RootInv, SigInv, MInv, Agreed, [Next]_vars
  PROVE  Agreed'
<1>0. TypeInv /\ FlowInv /\ dg \in Digests
  BY DEF Inv1, TypeInv
<1>1. ASSUME UNCHANGED vars PROVE Agreed'
  BY <1>1 DEF vars, Agreed
<1>2. ASSUME Compare PROVE Agreed'
  <2>1. /\ pc = "climb" /\ pc \in LayerPcs /\ t = HP /\ layer = D - 1 /\ ok' = (m = root)
        /\ UNCHANGED <<op, dg, signed>>
    BY <1>2 DEF Compare, LayerPcs
  <2>2. layer \in Nat /\ layer \in 0 .. D - 1 /\ layer + 1 = D /\ op \in {"sign", "verify"} /\ op # "keygen"
    BY <1>0, <2>1, Sizes DEF FlowInv
  <2>3. op = "verify"
    <3>1. op = "sign" => layer < D - 1
      BY <2>1 DEF SigInv, Signing
    <3>. QED
      BY <2>1, <2>2, <3>1
  <2>4. root = XNode(D - 1, 0, HP, 0) /\ tree = 0
    BY <1>0, <2>1, <2>2, TreeEnds DEF RootInv, PathInv, XmssPcs
  <2>5. m = root <=> MOk
    BY <2>1, <2>4, TopM
  <2>6. Good <=> signed.intact /\ dg = signed.dg
    BY <2>3 DEF Good
  <2>7. ASSUME MOk PROVE Good
    <3>1. /\ AllFors(sig, dg, K) /\ AllLayers(sig, digits, dg, layer)
          /\ WotsOk(sig, digits, dg, layer) /\ AuthOk(sig, dg, layer, HP)
      BY <2>1, <2>2, <2>7 DEF MInv
    <3>2. AllLayers(sig, digits, dg, D)
      BY <2>2, <3>1, OneMore
    <3>3. CASE signed.intact
      <4>1. AllFors(sig, signed.dg, K) /\ signed.dg \in Digests
        BY <2>3, <3>3 DEF SigInv, Signing
      <4>. QED
        BY <1>0, <2>6, <3>1, <3>3, <4>1, SameFors
    <3>4. CASE ~signed.intact
      <4>1. Spoilt(sig, digits, signed.dg)
        BY <2>3, <3>4 DEF SigInv, Signing
      <4>2. \A x \in 0 .. K - 1, s \in 0 .. A : sig.fors[x][s] # Odd
        BY <3>1, NotOdd DEF AllFors, ForsOk
      <4>3. \A l \in 0 .. D - 1, c \in 1 .. Len12 : sig.wots[l][c] # Odd
        BY <3>2, NotOdd DEF AllLayers, WotsOk, IsWots, WotsPart
      <4>4. \A l \in 0 .. D - 1, s \in 0 .. HP - 1 : sig.auth[l][s] # Odd
        BY <3>2, NotOdd DEF AllLayers, AuthOk, AuthPart
      <4>. QED
        BY <4>1, <4>2, <4>3, <4>4 DEF Spoilt
    <3>. QED
      BY <3>3, <3>4
  <2>8. Good => MOk
    BY <2>1, <2>2 DEF MInv
  <2>. QED
    BY <2>1, <2>5, <2>6, <2>7, <2>8 DEF Agreed
<1>3. ASSUME \/ Keygen \/ KeygenReturn \/ (\E d \in Digests : Sign(d) \/ Verify(d)) \/ Damage
             \/ XmssLeaf \/ XmssMerge \/ ForsLeaf \/ ForsMerge \/ NodeNext
             \/ ForsSk \/ ForsAuthCall \/ ForsAuthNode \/ ForsSigned
      PROVE  Agreed'
  <2>1. ~(pc' = "ready" /\ op' = "verify")
    BY <1>3 DEF Keygen, KeygenReturn, Sign, Verify, Call, Damage, XmssLeaf, XmssMerge, ForsLeaf, ForsMerge,
                NodeNext, ForsSk, ForsAuthCall, ForsAuthNode, ForsSigned
  <2>. QED
    BY <2>1 DEF Agreed
<1>4. ASSUME \/ ForsPkLeaf \/ ForsClimb \/ ForsNextTree \/ ForsRoots
             \/ AuthCall \/ AuthNode \/ WotsSign \/ WotsPk \/ Climb \/ NextLayer
      PROVE  Agreed'
  <2>1. ~(pc' = "ready" /\ op' = "verify")
    BY <1>0, <1>4 DEF ForsPkLeaf, ForsClimb, ForsNextTree, ForsRoots, AuthCall, AuthNode, WotsSign, WotsPk, Climb,
                NextLayer, FlowInv
  <2>. QED
    BY <2>1 DEF Agreed
<1>. QED
  BY <1>1, <1>2, <1>3, <1>4, Zenon DEF Next

LEMMA Begin2 ==
  ASSUME Init
  PROVE  Inv2
<1>1. /\ sig = NoSig /\ op = "none" /\ pc = "start"
      /\ signed \in [dg : Digests, intact : BOOLEAN] /\ ~signed.intact
  <2>1. dg \in Digests /\ signed = [dg |-> dg, intact |-> FALSE]
    BY SizesAssumption DEF Init
  <2>. QED
    BY <2>1 DEF Init
<1>2. IsSig(sig)
  BY <1>1 DEF IsSig, NoSig
<1>3. Spoilt(sig, digits, signed.dg)
  <2>1. \A l \in 0 .. D - 1, c \in 1 .. Len12 : sig.wots[l][c] = Odd
    BY <1>1 DEF NoSig
  <2>2. 0 \in 0 .. K - 1 /\ 0 \in 0 .. A /\ sig.fors[0][0] = Odd
    BY <1>1, Sizes DEF NoSig
  <2>. QED
    BY <2>1, <2>2 DEF Spoilt
<1>4. SigInv
  BY <1>1, <1>2, <1>3 DEF SigInv, Signing
<1>5. KeysInv
  BY DEF Init, KeysInv
<1>. QED
  BY <1>1, <1>4, <1>5 DEF Inv2, PathInv, RootInv, ForsInv, MInv, Agreed, LayerPcs, XmssPcs, ForsSignPcs, ForsTreePcs

THEOREM SlhInvariant2 == Spec => []Inv2
<1>1. ASSUME Inv1, Inv1', Inv2, [Next]_vars PROVE Inv2'
  BY <1>1, PathStep, RootStep, SigStep, ForsStep, MStep, KeysStep, AgreedStep DEF Inv2
<1>. QED
  BY <1>1, Begin2, SlhInvariant, PTL DEF Spec

\* No WOTS+ key signs two values, in any number of signatures.
THEOREM KeysSignOnce == Spec => []OneTime
<1>1. Inv2 => OneTime
  BY DEF Inv2, KeysInv, OneTime
<1>. QED
  BY <1>1, SlhInvariant2, PTL

\* slh_verify accepts the signature of the message as slh_sign made it, and no
\* other: not with one value in it changed, not for another digest.
THEOREM VerifierAgrees == Spec => []Agreed
<1>1. Inv2 => Agreed
  BY DEF Inv2
<1>. QED
  BY <1>1, SlhInvariant2, PTL

-----------------------------------------------------------------------------
\* SHA-2: the constants.
LEMMA Sha2Sizes ==
  /\ Base \in Nat /\ Base > 0 /\ Blk \in Nat /\ Blk > 0 /\ LenSz \in Nat /\ LenSz > 0 /\ MaxMsg \in Nat
  /\ N \in Nat /\ DigLen \in Nat /\ DigLen > 0 /\ HeadLen \in Nat
  /\ MaxChain \in 0 .. Base - 1 /\ Hmsgs \subseteq Nat
  /\ (HeadLen + 1 + N) + 1 <= Blk - LenSz
BY Sha2Assumption

\* Sequences of any bytes.
LEMMA WordFacts ==
  ASSUME NEW a, Word(a)
  PROVE  Len(a) \in Nat /\ a = [j \in 1 .. Len(a) |-> a[j]] /\ DOMAIN a = 1 .. Len(a)
<1>1. PICK S : a \in Seq(S)
  BY DEF Word
<1> QED
  BY <1>1

LEMMA FnWord ==
  ASSUME NEW n \in Nat, NEW a, a = [j \in 1 .. n |-> a[j]]
  PROVE  Word(a) /\ Len(a) = n
<1> DEFINE S == {a[j] : j \in DOMAIN a}
<1>1. DOMAIN a = 1 .. n
  OBVIOUS
<1>2. a \in [1 .. n -> S]
  BY <1>1
<1>3. a \in Seq(S) /\ Len(a) = n
  BY <1>2
<1> QED
  BY <1>3 DEF Word

LEMMA SeqWord ==
  ASSUME NEW S, NEW a \in Seq(S)
  PROVE  Word(a)
<1>1. a = [j \in 1 .. Len(a) |-> a[j]] /\ Len(a) \in Nat
  OBVIOUS
<1> QED
  BY <1>1, FnWord

LEMMA WordEq ==
  ASSUME NEW a, NEW b, Word(a), Word(b), Len(a) = Len(b), \A j \in 1 .. Len(a) : a[j] = b[j]
  PROVE  a = b
BY WordFacts

LEMMA Cat ==
  ASSUME NEW a, NEW b, Word(a), Word(b)
  PROVE  /\ Word(a \o b) /\ Len(a \o b) = Len(a) + Len(b)
         /\ \A j \in 1 .. Len(a) : (a \o b)[j] = a[j]
         /\ \A j \in 1 .. Len(b) : (a \o b)[Len(a) + j] = b[j]
<1> DEFINE S == {a[j] : j \in DOMAIN a} \cup {b[j] : j \in DOMAIN b}
<1>1. a \in Seq(S) /\ b \in Seq(S)
  <2>1. a \in [1 .. Len(a) -> S] /\ b \in [1 .. Len(b) -> S] /\ Len(a) \in Nat /\ Len(b) \in Nat
    BY WordFacts
  <2> QED
    BY <2>1
<1> HIDE DEF S
<1>2. /\ a \o b \in Seq(S) /\ Len(a \o b) = Len(a) + Len(b)
      /\ \A j \in 1 .. Len(a) + Len(b) : (a \o b)[j] = IF j <= Len(a) THEN a[j] ELSE b[j - Len(a)]
  BY <1>1, SMTT(60)
<1>3. Len(a) \in Nat /\ Len(b) \in Nat
  BY WordFacts
<1>4. Word(a \o b)
  BY <1>2, SeqWord
<1>5. \A j \in 1 .. Len(b) : Len(a) + j \in 1 .. Len(a) + Len(b) /\ ~(Len(a) + j <= Len(a)) /\ (Len(a) + j) - Len(a) = j
  BY <1>3
<1>6. \A j \in 1 .. Len(a) : j \in 1 .. Len(a) + Len(b) /\ j <= Len(a)
  BY <1>3
<1>7. \A j \in 1 .. Len(a) : (a \o b)[j] = a[j]
  BY <1>2, <1>6, SMTT(60)
<1>8. \A j \in 1 .. Len(b) : (a \o b)[Len(a) + j] = b[j]
  <2>1. ASSUME NEW j \in 1 .. Len(b) PROVE (a \o b)[Len(a) + j] = b[j]
    <3>1. PICK y : y = Len(a) + j
      OBVIOUS
    <3>2. y \in 1 .. Len(a) + Len(b) /\ ~(y <= Len(a)) /\ y - Len(a) = j
      BY <1>5, <3>1, Zenon
    <3>3. (a \o b)[y] = IF y <= Len(a) THEN a[y] ELSE b[y - Len(a)]
      BY <1>2, <3>2, Zenon
    <3>4. (a \o b)[y] = b[y - Len(a)]
      BY <3>2, <3>3, Zenon
    <3> QED
      BY <3>1, <3>2, <3>4, Zenon
  <2> QED
    BY <2>1
<1> QED
  BY <1>2, <1>4, <1>7, <1>8

LEMMA Slice ==
  ASSUME NEW a, Word(a), NEW x \in Int, NEW y \in Int, 1 <= x, x <= y + 1, y <= Len(a)
  PROVE  /\ Word(SubSeq(a, x, y)) /\ Len(SubSeq(a, x, y)) = y - x + 1
         /\ \A j \in 1 .. y - x + 1 : SubSeq(a, x, y)[j] = a[x + j - 1]
<1>1. SubSeq(a, x, y) = [j \in 1 .. y - x + 1 |-> a[x + j - 1]]
  BY DEF SubSeq
<1>2. y - x + 1 \in Nat
  OBVIOUS
<1> QED
  BY <1>1, <1>2, FnWord

\* One byte, and the same byte often.
LEMMA OneWord ==
  ASSUME NEW v
  PROVE  Word(<<v>>) /\ Len(<<v>>) = 1 /\ <<v>>[1] = v
<1>1. <<v>> = [j \in 1 .. 1 |-> <<v>>[j]]
  OBVIOUS
<1> QED
  BY <1>1, FnWord

LEMMA BytesWord ==
  ASSUME NEW v, NEW n \in Nat
  PROVE  Word(Bytes(v, n)) /\ Len(Bytes(v, n)) = n /\ \A j \in 1 .. n : Bytes(v, n)[j] = Byte(v)
<1>1. Bytes(v, n) = [j \in 1 .. n |-> Bytes(v, n)[j]] /\ \A j \in 1 .. n : Bytes(v, n)[j] = Byte(v)
  BY DEF Bytes
<1> QED
  BY <1>1, FnWord

LEMMA ToByteWord ==
  ASSUME NEW v, NEW n \in Nat
  PROVE  /\ Word(ToByte(v, n)) /\ Len(ToByte(v, n)) = n
         /\ \A j \in 1 .. n : ToByte(v, n)[j] = Byte((v \div (Base ^ (n - j))) % Base)
<1>1. /\ ToByte(v, n) = [j \in 1 .. n |-> ToByte(v, n)[j]]
      /\ \A j \in 1 .. n : ToByte(v, n)[j] = Byte((v \div (Base ^ (n - j))) % Base)
  BY DEF ToByte
<1> QED
  BY <1>1, FnWord

LEMMA TakeWord ==
  ASSUME NEW v, NEW n \in Nat
  PROVE  Word(Take(v, n)) /\ Len(Take(v, n)) = n /\ \A j \in 1 .. n : Take(v, n)[j] = <<v, j>>
<1>1. Take(v, n) = [j \in 1 .. n |-> Take(v, n)[j]] /\ \A j \in 1 .. n : Take(v, n)[j] = <<v, j>>
  BY DEF Take
<1> QED
  BY <1>1, FnWord

LEMMA BlocksWord ==
  ASSUME NEW a, NEW n \in Nat
  PROVE  Word(Blocks(a, n)) /\ Len(Blocks(a, n)) = n /\ \A b \in 1 .. n : Blocks(a, n)[b] = Block(a, b)
<1>1. Blocks(a, n) = [b \in 1 .. n |-> Blocks(a, n)[b]] /\ \A b \in 1 .. n : Blocks(a, n)[b] = Block(a, b)
  BY DEF Blocks
<1> QED
  BY <1>1, FnWord

-----------------------------------------------------------------------------
\* Blocks of sequences that agree, and of one put behind another.
LEMMA Times ==
  ASSUME NEW x \in Int, NEW y \in Int, NEW z \in Nat, x <= y
  PROVE  x * z <= y * z
<1>1. PICK d \in Nat : y = x + d
  <2>1. y - x \in Nat /\ y = x + (y - x)
    OBVIOUS
  <2> QED
    BY <2>1
<1>2. y * z = (x * z) + (d * z) /\ d * z >= 0 /\ x * z \in Int /\ d * z \in Int
  BY <1>1
<1> QED
  BY <1>2

LEMMA InBlock ==
  ASSUME NEW n \in Int, NEW b \in 1 .. n, NEW j \in 0 .. Blk - 1
  PROVE  ((b - 1) * Blk) + j + 1 \in 1 .. n * Blk
<1>1. PICK l \in Nat : l = Blk
  BY Sha2Sizes
<1>2. 0 * l <= (b - 1) * l /\ b * l <= n * l /\ (b - 1) * l = (b * l) - l
  BY Times
<1>3. PICK bl \in Int, nl \in Int, pl \in Int : bl = b * l /\ nl = n * l /\ pl = (b - 1) * l
  BY <1>1
<1> QED
  BY <1>1, <1>2, <1>3

LEMMA SameBlocks ==
  ASSUME NEW a, NEW e, NEW n \in Nat, \A j \in 1 .. n * Blk : a[j] = e[j]
  PROVE  Blocks(a, n) = Blocks(e, n)
<1>1. ASSUME NEW b \in 1 .. n PROVE Block(a, b) = Block(e, b)
  BY InBlock DEF Block
<1> QED
  BY <1>1 DEF Blocks

LEMMA MoreBlocks ==
  ASSUME NEW e, NEW f, NEW n \in Nat, NEW x \in Nat, NEW xb \in Int, xb = x * Blk,
         \A j \in 1 .. n * Blk : f[j] = e[xb + j]
  PROVE  Blocks(e, x) \o Blocks(f, n) = Blocks(e, x + n)
<1>0. PICK l \in Nat : l = Blk
  BY Sha2Sizes
<1>1. ASSUME NEW b \in 1 .. n PROVE Block(f, b) = Block(e, x + b)
  <2>1. ASSUME NEW j \in 0 .. Blk - 1 PROVE f[((b - 1) * Blk) + j + 1] = e[(((x + b) - 1) * Blk) + j + 1]
    <3>1. ((b - 1) * Blk) + j + 1 \in 1 .. n * Blk
      BY InBlock
    <3>2. xb + (((b - 1) * Blk) + j + 1) = (((x + b) - 1) * Blk) + j + 1
      BY <1>0
    <3> QED
      BY <3>1, <3>2, <1>0
  <2> QED
    BY <2>1 DEF Block
<1> DEFINE h == Blocks(e, x) \o Blocks(f, n)
           g == Blocks(e, x + n)
<1>2. /\ Word(Blocks(e, x)) /\ Len(Blocks(e, x)) = x /\ \A b \in 1 .. x : Blocks(e, x)[b] = Block(e, b)
      /\ Word(Blocks(f, n)) /\ Len(Blocks(f, n)) = n /\ \A b \in 1 .. n : Blocks(f, n)[b] = Block(f, b)
      /\ Word(g) /\ Len(g) = x + n /\ \A b \in 1 .. x + n : g[b] = Block(e, b)
  BY BlocksWord
<1>3. /\ Word(h) /\ Len(h) = x + n
      /\ \A b \in 1 .. x : h[b] = Blocks(e, x)[b]
      /\ \A b \in 1 .. n : h[x + b] = Blocks(f, n)[b]
  BY <1>2, Cat, SMTT(60)
<1> HIDE DEF h, g
<1>4. ASSUME NEW b \in 1 .. x + n PROVE h[b] = g[b]
  <2>1. CASE b <= x
    <3>1. b \in 1 .. x
      BY <2>1
    <3> QED
      BY <3>1, <1>2, <1>3
  <2>2. CASE ~(b <= x)
    <3>1. b - x \in 1 .. n /\ x + (b - x) = b
      BY <2>2
    <3> QED
      BY <3>1, <1>1, <1>2, <1>3
  <2> QED
    BY <2>1, <2>2
<1>5. h = g
  BY <1>2, <1>3, <1>4, WordEq
<1> QED
  BY <1>5 DEF h, g

-----------------------------------------------------------------------------
\* An object, and that it holds what was put in: whole blocks in the chaining
\* value, the rest at the beginning of the block.
Object(c) ==
  /\ c = [s |-> c.s, mp |-> c.mp, i |-> c.i, len |-> c.len]
  /\ c.mp = [j \in 0 .. Blk - 1 |-> c.mp[j]]

Absorbed(c, a) ==
  /\ Object(c) /\ c.len = Len(a) /\ c.i \in 0 .. Blk - 1
  /\ \E n \in Nat : /\ Len(a) = (n * Blk) + c.i /\ c.s = Blocks(a, n)
                    /\ \A j \in 0 .. c.i - 1 : c.mp[j] = a[(n * Blk) + j + 1]

LEMMA Fields ==
  ASSUME NEW c, Object(c)
  PROVE  \E vs, vm, vi, vl : c = [s |-> vs, mp |-> vm, i |-> vi, len |-> vl]
BY DEF Object

LEMMA PutBlock ==
  ASSUME NEW c, Object(c), NEW mp
  PROVE  [c EXCEPT !.mp = mp] = [s |-> c.s, mp |-> mp, i |-> c.i, len |-> c.len]
BY Fields

LEMMA PutChain ==
  ASSUME NEW c, Object(c), NEW s
  PROVE  [c EXCEPT !.s = s] = [s |-> s, mp |-> c.mp, i |-> c.i, len |-> c.len]
BY Fields

LEMMA StoreIs ==
  ASSUME NEW c, Object(c), NEW at \in Int, NEW a
  PROVE  /\ Object(Store(c, at, a))
         /\ Store(c, at, a).s = c.s /\ Store(c, at, a).i = c.i /\ Store(c, at, a).len = c.len
         /\ \A j \in 0 .. Blk - 1 :
              Store(c, at, a).mp[j] = IF at <= j /\ j < at + Len(a) THEN a[j - at + 1] ELSE c.mp[j]
<1> DEFINE mp == [j \in 0 .. Blk - 1 |-> IF at <= j /\ j < at + Len(a) THEN a[j - at + 1] ELSE c.mp[j]]
<1>1. Store(c, at, a) = [s |-> c.s, mp |-> mp, i |-> c.i, len |-> c.len]
  <2>1. Store(c, at, a) = [c EXCEPT !.mp = mp]
    BY DEF Store
  <2> HIDE DEF mp
  <2> QED
    BY <2>1, PutBlock
<1>2. mp = [j \in 0 .. Blk - 1 |-> mp[j]]
  OBVIOUS
<1>3. \A j \in 0 .. Blk - 1 : mp[j] = IF at <= j /\ j < at + Len(a) THEN a[j - at + 1] ELSE c.mp[j]
  OBVIOUS
<1> HIDE DEF mp
<1>4. PICK r : r = Store(c, at, a)
  OBVIOUS
<1>5. r.s = c.s /\ r.mp = mp /\ r.i = c.i /\ r.len = c.len
  BY <1>1, <1>4
<1>6. Object(r)
  BY <1>1, <1>2, <1>4 DEF Object
<1> QED
  BY <1>3, <1>4, <1>5, <1>6

LEMMA CompressIs ==
  ASSUME NEW c, Object(c)
  PROVE  /\ Object(compress(c))
         /\ compress(c).s = c.s \o <<c.mp>> /\ compress(c).mp = c.mp
         /\ compress(c).i = c.i /\ compress(c).len = c.len
<1>1. compress(c) = [s |-> c.s \o <<c.mp>>, mp |-> c.mp, i |-> c.i, len |-> c.len]
  <2>1. PICK s : s = c.s \o <<c.mp>>
    OBVIOUS
  <2>2. compress(c) = [c EXCEPT !.s = s]
    BY <2>1 DEF compress
  <2> QED
    BY <2>1, <2>2, PutChain
<1> QED
  BY <1>1 DEF Object

\* A block that is full is one more.
LEMMA FullBlock ==
  ASSUME NEW c, Object(c), NEW a, NEW n \in Nat, c.s = Blocks(a, n), NEW nb \in Int, nb = n * Blk,
         \A j \in 0 .. Blk - 1 : c.mp[j] = a[nb + j + 1]
  PROVE  compress(c).s = Blocks(a, n + 1)
<1>1. c.mp = Block(a, n + 1)
  <2>1. \A j \in 0 .. Blk - 1 : (((n + 1) - 1) * Blk) + j + 1 = nb + j + 1
    OBVIOUS
  <2>2. c.mp = [j \in 0 .. Blk - 1 |-> c.mp[j]]
    BY DEF Object
  <2> QED
    BY <2>1, <2>2 DEF Block
<1>2. Blocks(a, n) \o <<Block(a, n + 1)>> = Blocks(a, n + 1)
  <2> DEFINE h == Blocks(a, n) \o <<Block(a, n + 1)>>
             g == Blocks(a, n + 1)
  <2>1. /\ Word(Blocks(a, n)) /\ Len(Blocks(a, n)) = n /\ \A b \in 1 .. n : Blocks(a, n)[b] = Block(a, b)
        /\ Word(g) /\ Len(g) = n + 1 /\ \A b \in 1 .. n + 1 : g[b] = Block(a, b)
        /\ Word(<<Block(a, n + 1)>>) /\ Len(<<Block(a, n + 1)>>) = 1
        /\ <<Block(a, n + 1)>>[1] = Block(a, n + 1)
    BY BlocksWord, OneWord
  <2>2. /\ Word(h) /\ Len(h) = n + 1
        /\ \A b \in 1 .. n : h[b] = Blocks(a, n)[b]
        /\ h[n + 1] = <<Block(a, n + 1)>>[1]
    BY <2>1, Cat
  <2> HIDE DEF h, g
  <2>3. \A b \in 1 .. n + 1 : h[b] = g[b]
    BY <2>1, <2>2
  <2>4. h = g
    BY <2>1, <2>2, <2>3, WordEq
  <2> QED
    BY <2>4 DEF h, g
<1> QED
  BY <1>1, <1>2, CompressIs

LEMMA InitHolds ==
  ASSUME NEW c, Object(c)
  PROVE  Absorbed(init(c), <<>>)
<1>1. init(c) = [s |-> <<>>, mp |-> c.mp, i |-> 0, len |-> 0]
  BY DEF init
<1>2. Blocks(<<>>, 0) = <<>>
  BY DEF Blocks
<1>3. 0 * Blk = 0 /\ 0 \in 0 .. Blk - 1
  BY Sha2Sizes
<1> QED
  BY <1>1, <1>2, <1>3 DEF Absorbed, Object

LEMMA CopyHolds ==
  ASSUME NEW c, Object(c), NEW e, NEW a, Absorbed(e, a)
  PROVE  Absorbed(copy(c, e), a)
<1> DEFINE mp == [j \in 0 .. Blk - 1 |-> IF j < e.i THEN e.mp[j] ELSE c.mp[j]]
<1>1. copy(c, e) = [s |-> e.s, mp |-> mp, i |-> e.i, len |-> e.len]
  <2>1. copy(c, e) = [e EXCEPT !.mp = mp]
    BY DEF copy
  <2> HIDE DEF mp
  <2> QED
    BY <2>1, PutBlock DEF Absorbed
<1>2. \A j \in 0 .. e.i - 1 : mp[j] = e.mp[j]
  <2>1. \A j \in 0 .. e.i - 1 : j \in 0 .. Blk - 1 /\ j < e.i
    BY Sha2Sizes DEF Absorbed
  <2> QED
    BY <2>1
<1>3. mp = [j \in 0 .. Blk - 1 |-> mp[j]]
  OBVIOUS
<1> HIDE DEF mp
<1>4. /\ Object(copy(c, e)) /\ copy(c, e).s = e.s /\ copy(c, e).i = e.i /\ copy(c, e).len = e.len
      /\ \A j \in 0 .. e.i - 1 : copy(c, e).mp[j] = e.mp[j]
  BY <1>1, <1>2, <1>3 DEF Object
<1>5. /\ e.len = Len(a) /\ e.i \in 0 .. Blk - 1
      /\ \E n \in Nat : /\ Len(a) = (n * Blk) + e.i /\ e.s = Blocks(a, n)
                        /\ \A j \in 0 .. e.i - 1 : e.mp[j] = a[(n * Blk) + j + 1]
  BY DEF Absorbed
<1> QED
  BY <1>4, <1>5 DEF Absorbed

LEMMA AbsorbedFacts ==
  ASSUME NEW c, NEW a, Word(a), Absorbed(c, a)
  PROVE  /\ Blk \in Nat /\ Blk > 0 /\ c.i \in Nat /\ c.i < Blk /\ Len(a) \in Nat
         /\ c.len = Len(a) /\ Object(c)
<1>1. Len(a) \in Nat
  BY WordFacts
<1> QED
  BY <1>1, Sha2Sizes, SMTT(60) DEF Absorbed

\* The part of an input that fills the block up.
Filled(c, b) == IF c.i > 0 THEN Blk - c.i ELSE 0

LEMMA FillUpIs ==
  ASSUME NEW c, NEW a, NEW b, Word(a), Word(b), Absorbed(c, a), ~Fits(c, b)
  PROVE  /\ Object(FillUp(c, b)) /\ FillUp(c, b).len = Len(a \o b)
         /\ Filled(c, b) \in 0 .. Len(b)
         /\ \E x \in Nat : /\ FillUp(c, b).s = Blocks(a \o b, x)
                          /\ x * Blk = Len(a) + Filled(c, b)
<1>0. PICK d, e :
      /\ d = [c EXCEPT !.len = @ + Len(b)]
      /\ e = IF c.i > 0 THEN compress(Store(d, c.i, SubSeq(b, 1, Blk - c.i))) ELSE d
      /\ FillUp(c, b) = e
  BY DEF FillUp
<1>1. Object(d) /\ d.s = c.s /\ d.i = c.i /\ d.mp = c.mp /\ d.len = Len(a \o b)
  <2>1. d = [s |-> c.s, mp |-> c.mp, i |-> c.i, len |-> c.len + Len(b)] /\ Object(c) /\ c.len = Len(a)
    BY <1>0, Fields DEF Absorbed
  <2> QED
    BY <2>1, Cat DEF Object
<1>2. PICK n \in Nat : /\ Len(a) = (n * Blk) + c.i /\ c.s = Blocks(a, n)
                       /\ \A j \in 0 .. c.i - 1 : c.mp[j] = a[(n * Blk) + j + 1]
  BY DEF Absorbed
<1>3. Blk \in Nat /\ c.i \in 0 .. Blk - 1 /\ Len(a) \in Nat /\ Len(b) \in Nat /\ Len(b) >= Blk - c.i
  <2>1. Len(b) \in Nat
    BY WordFacts
  <2> QED
    BY <2>1, AbsorbedFacts DEF Fits
<1>4. PICK nb \in Nat : /\ nb = n * Blk /\ (n + 1) * Blk = nb + Blk
                        /\ Len(a) = nb + c.i /\ \A j \in 0 .. c.i - 1 : c.mp[j] = a[nb + j + 1]
  <2>1. PICK nb : nb = n * Blk
    OBVIOUS
  <2>2. nb \in Nat /\ (n + 1) * Blk = nb + Blk
    BY <2>1, <1>3
  <2>3. Len(a) = nb + c.i /\ \A j \in 0 .. c.i - 1 : c.mp[j] = a[nb + j + 1]
    BY <2>1, <1>2
  <2> QED
    BY <2>1, <2>2, <2>3
<1>5. /\ \A j \in 1 .. Len(a) : (a \o b)[j] = a[j]
      /\ \A j \in 1 .. Len(b) : (a \o b)[Len(a) + j] = b[j]
  BY Cat
<1>6. Blocks(a, n) = Blocks(a \o b, n)
  <2>1. \A j \in 1 .. n * Blk : j \in 1 .. Len(a)
    BY <1>2, <1>3, <1>4
  <2> QED
    BY <2>1, <1>5, SameBlocks
<1>7. CASE ~(c.i > 0)
  BY <1>0, <1>1, <1>2, <1>3, <1>4, <1>6, <1>7, SMTT(60) DEF Filled
<1>8. CASE c.i > 0
  <2> DEFINE f == SubSeq(b, 1, Blk - c.i)
             g == Store(d, c.i, f)
  <2>1. Len(f) = Blk - c.i /\ \A j \in 1 .. Blk - c.i : f[j] = b[j]
    BY <1>3, Slice
  <2> HIDE DEF f
  <2>2. /\ Object(g) /\ g.s = d.s /\ g.len = d.len
        /\ \A j \in 0 .. Blk - 1 : g.mp[j] = IF c.i <= j /\ j < c.i + Len(f) THEN f[j - c.i + 1] ELSE d.mp[j]
    BY <1>1, <1>3, StoreIs, SMTT(60)
  <2> HIDE DEF g
  <2>3. ASSUME NEW j \in 0 .. Blk - 1 PROVE g.mp[j] = (a \o b)[nb + j + 1]
    <3>1. CASE j < c.i
      <4>1. g.mp[j] = a[nb + j + 1] /\ nb + j + 1 \in 1 .. Len(a)
        <5>1. g.mp[j] = c.mp[j] /\ j \in 0 .. c.i - 1
          BY <1>1, <3>1, <2>2, <1>3
        <5> QED
          BY <5>1, <1>3, <1>4
      <4> QED
        BY <4>1, <1>5
    <3>2. CASE ~(j < c.i)
      <4>1. /\ g.mp[j] = f[j - c.i + 1] /\ j - c.i + 1 \in 1 .. Blk - c.i /\ j - c.i + 1 \in 1 .. Len(b)
            /\ Len(a) + (j - c.i + 1) = nb + j + 1
        <5>1. c.i <= j /\ j < c.i + Len(f) /\ j - c.i + 1 \in 1 .. Blk - c.i
          BY <3>2, <2>1, <1>3, SMTT(60)
        <5>2. g.mp[j] = f[j - c.i + 1]
          BY <5>1, <2>2
        <5>3. j - c.i + 1 \in 1 .. Len(b)
          BY <3>2, <1>3, SMTT(60)
        <5>4. Len(a) = nb + c.i
          BY <1>4
        <5>5. Len(a) + (j - c.i + 1) = nb + j + 1
          BY <5>4, <1>3
        <5> QED
          BY <5>1, <5>2, <5>3, <5>5
      <4> QED
        BY <4>1, <2>1, <1>5
    <3> QED
      BY <3>1, <3>2
  <2>4. compress(g).s = Blocks(a \o b, n + 1)
    <3>1. n \in Nat /\ nb \in Int /\ nb = n * Blk
      BY <1>4
    <3>2. g.s = Blocks(a \o b, n)
      BY <2>2, <1>1, <1>2, <1>6
    <3> QED
      BY <2>2, <2>3, <3>1, <3>2, FullBlock
  <2>5. e = compress(g)
    BY <1>8, <1>0 DEF g, f
  <2>6. Object(e) /\ e.len = d.len
    BY <1>1, <2>2, <2>5, CompressIs
  <2>7. Filled(c, b) = Blk - c.i /\ (n + 1) * Blk = Len(a) + (Blk - c.i)
    BY <1>2, <1>3, <1>4, <1>8 DEF Filled
  <2>8. n + 1 \in Nat /\ Filled(c, b) \in 0 .. Len(b)
    BY <2>7, <1>3
  <2>9. e.s = Blocks(a \o b, n + 1)
    BY <2>4, <2>5
  <2> QED
    BY <2>6, <2>7, <2>8, <2>9, <1>0, <1>1
<1> QED
  BY <1>7, <1>8

LEMMA DivideLen ==
  ASSUME NEW v \in Nat, NEW n \in Nat, n > 0
  PROVE  /\ v \div n \in Nat /\ (v \div n) * n <= v /\ v < ((v \div n) * n) + n
<1>1. v = (n * (v \div n)) + (v % n) /\ v \div n \in Int /\ 0 <= v % n /\ v % n < n
  OBVIOUS
<1>2. PICK q \in Int, y \in Int : q = v \div n /\ y = v % n
  BY <1>1
<1>3. PICK nq \in Int : nq = n * q /\ nq = q * n
  OBVIOUS
<1>4. v = nq + y /\ 0 <= y /\ y < n
  BY <1>1, <1>2, <1>3
<1>5. q >= 0
  <2>1. ASSUME q <= -1 PROVE FALSE
    <3>1. q * n <= (-1) * n
      BY <2>1, Times
    <3> QED
      BY <3>1, <1>3, <1>4
  <2> QED
    BY <2>1
<1> QED
  BY <1>2, <1>3, <1>4, <1>5

LEMMA RestIs ==
  ASSUME NEW c, NEW a, NEW b, Word(a), Word(b), Absorbed(c, a), ~Fits(c, b)
  PROVE  /\ Word(Rest(c, b)) /\ Len(Rest(c, b)) = Len(b) - Filled(c, b)
         /\ \A j \in 1 .. Len(b) - Filled(c, b) : Rest(c, b)[j] = b[Filled(c, b) + j]
<1>1. Blk \in Nat /\ c.i \in 0 .. Blk - 1 /\ Len(b) \in Nat /\ Len(b) >= Blk - c.i
  <2>1. Len(b) \in Nat
    BY WordFacts
  <2> QED
    BY <2>1, AbsorbedFacts DEF Fits
<1>2. CASE c.i > 0
  <2>1. PICK l \in Nat : l = Blk - c.i /\ Filled(c, b) = l /\ l <= Len(b)
    BY <1>1, <1>2 DEF Filled
  <2>2. Rest(c, b) = SubSeq(b, l + 1, Len(b))
    BY <1>2, <2>1 DEF Rest
  <2>3. Len(b) - (l + 1) + 1 = Len(b) - l /\ \A j \in Int : (l + 1) + j - 1 = l + j
    BY <1>1, <2>1
  <2>4. l + 1 \in Int /\ 1 <= l + 1 /\ l + 1 <= Len(b) + 1 /\ Len(b) \in Int
    BY <1>1, <2>1
  <2>5. /\ Word(SubSeq(b, l + 1, Len(b))) /\ Len(SubSeq(b, l + 1, Len(b))) = Len(b) - (l + 1) + 1
        /\ \A j \in 1 .. Len(b) - (l + 1) + 1 : SubSeq(b, l + 1, Len(b))[j] = b[(l + 1) + j - 1]
    BY <2>4, Slice
  <2>6. \A j \in 1 .. Len(b) - l : SubSeq(b, l + 1, Len(b))[j] = b[l + j]
    <3>1. ASSUME NEW j \in 1 .. Len(b) - l PROVE j \in 1 .. Len(b) - (l + 1) + 1 /\ (l + 1) + j - 1 = l + j
      BY <1>1, <2>1
    <3>2. ASSUME NEW j \in 1 .. Len(b) - l PROVE SubSeq(b, l + 1, Len(b))[j] = b[l + j]
      <4>1. SubSeq(b, l + 1, Len(b))[j] = b[(l + 1) + j - 1]
        BY <2>5, <3>1
      <4> QED
        BY <4>1, <3>1
    <3> QED
      BY <3>2
  <2> QED
    BY <2>1, <2>2, <2>3, <2>5, <2>6
<1>3. CASE ~(c.i > 0)
  BY <1>1, <1>3 DEF Filled, Rest
<1> QED
  BY <1>2, <1>3

LEMMA WholeHolds ==
  ASSUME NEW c, Object(c), NEW e, Word(e), NEW b, Word(b), NEW x \in Nat, NEW xn \in Nat, xn = x * Blk,
         c.s = Blocks(e, x), c.len = Len(e), Len(e) = xn + Len(b),
         \A j \in 1 .. Len(b) : b[j] = e[xn + j]
  PROVE  Absorbed(Whole(c, b), e)
<1>1. Blk \in Nat /\ Blk > 0 /\ Len(b) \in Nat
  BY Sha2Sizes, WordFacts
<1>2. PICK n : n = Len(b) \div Blk
  OBVIOUS
<1>3. n \in Nat /\ n * Blk <= Len(b) /\ Len(b) < (n * Blk) + Blk
  BY <1>1, <1>2, DivideLen
<1>4. PICK nn \in Nat : nn = n * Blk /\ (x + n) * Blk = xn + nn
  BY <1>1, <1>3
<1>5. PICK last : last = SubSeq(b, nn + 1, Len(b))
  OBVIOUS
<1>6. Len(last) = Len(b) - nn /\ \A j \in 1 .. Len(b) - nn : last[j] = b[nn + j]
  <2>1. /\ Len(last) = Len(b) - (nn + 1) + 1
        /\ \A j \in 1 .. Len(b) - (nn + 1) + 1 : last[j] = b[(nn + 1) + j - 1]
    <3>1. nn + 1 \in Int /\ 1 <= nn + 1 /\ nn + 1 <= Len(b) + 1 /\ Len(b) \in Int
      BY <1>1, <1>3, <1>4
    <3> QED
      BY <3>1, <1>5, Slice
  <2>2. Len(b) - (nn + 1) + 1 = Len(b) - nn /\ \A j \in Int : (nn + 1) + j - 1 = nn + j
    BY <1>1
  <2> QED
    BY <2>1, <2>2
<1>7. c.s \o Blocks(b, n) = Blocks(e, x + n)
  <2>1. \A j \in 1 .. n * Blk : j \in 1 .. Len(b)
    BY <1>1, <1>3, <1>4
  <2>2. \A j \in 1 .. n * Blk : b[j] = e[xn + j]
    BY <2>1
  <2>3. xn \in Int
    OBVIOUS
  <2>4. Blocks(e, x) \o Blocks(b, n) = Blocks(e, x + n)
    BY <2>2, <2>3, <1>3, MoreBlocks, ZenonT(60)
  <2> QED
    BY <2>4
<1>8. PICK d : /\ Object(d) /\ d.s = Blocks(e, x + n) /\ d.i = Len(last) /\ d.len = Len(e)
              /\ Whole(c, b) = Store(d, 0, last)
  <2>1. PICK mp : mp = IF n = 0 THEN c.mp ELSE Block(b, n)
    OBVIOUS
  <2>2. mp = [j \in 0 .. Blk - 1 |-> mp[j]]
    <3>1. Block(b, n) = [j \in 0 .. Blk - 1 |-> Block(b, n)[j]]
      BY DEF Block
    <3> QED
      BY <2>1, <3>1 DEF Object
  <2>3. PICK d : d = [s |-> c.s \o Blocks(b, n), mp |-> mp, i |-> Len(last), len |-> c.len]
    OBVIOUS
  <2>4. Whole(c, b) = Store(d, 0, last)
    BY <1>2, <1>4, <1>5, <2>1, <2>3 DEF Whole
  <2> QED
    BY <1>7, <2>2, <2>3, <2>4 DEF Object
<1>9. PICK g : g = Whole(c, b) /\ Object(g) /\ g.s = Blocks(e, x + n) /\ g.i = Len(last) /\ g.len = Len(e)
              /\ \A j \in 0 .. Blk - 1 : g.mp[j] = IF 0 <= j /\ j < 0 + Len(last) THEN last[j - 0 + 1] ELSE d.mp[j]
  BY <1>8, StoreIs
<1>10. Len(last) \in 0 .. Blk - 1 /\ Len(e) = ((x + n) * Blk) + Len(last)
  BY <1>1, <1>3, <1>4, <1>6
<1>11. ASSUME NEW j \in 0 .. Len(last) - 1 PROVE g.mp[j] = e[((x + n) * Blk) + j + 1]
  <2>1. j \in 0 .. Blk - 1 /\ g.mp[j] = last[j + 1] /\ j + 1 \in 1 .. Len(b) - nn
    <3>1. j \in 0 .. Blk - 1 /\ 0 <= j /\ j < 0 + Len(last) /\ j - 0 + 1 = j + 1 /\ j + 1 \in 1 .. Len(b) - nn
      BY <1>1, <1>6, <1>10, SMTT(60)
    <3> QED
      BY <3>1, <1>9
  <2>2. nn + (j + 1) \in 1 .. Len(b) /\ xn + (nn + (j + 1)) = ((x + n) * Blk) + j + 1
    BY <2>1, <1>1, <1>3, <1>4
  <2> QED
    BY <2>1, <2>2, <1>4, <1>6
<1>12. x + n \in Nat
  BY <1>3
<1> QED
  BY <1>9, <1>10, <1>11, <1>12 DEF Absorbed

LEMMA FitsHolds ==
  ASSUME NEW c, NEW a, NEW b, Word(a), Word(b), Absorbed(c, a), Fits(c, b)
  PROVE  Absorbed(update(c, b), a \o b)
<1>1. Blk \in Nat /\ Blk > 0 /\ c.i \in 0 .. Blk - 1 /\ Len(a) \in Nat /\ Len(b) \in Nat /\ c.len = Len(a) /\ Object(c)
  <2>1. Len(b) \in Nat
    BY WordFacts
  <2> QED
    BY <2>1, AbsorbedFacts
<1>2. PICK e : e = a \o b
  OBVIOUS
<1>3. /\ Word(e) /\ Len(e) = Len(a) + Len(b)
      /\ \A j \in 1 .. Len(a) : e[j] = a[j]
      /\ \A j \in 1 .. Len(b) : e[Len(a) + j] = b[j]
  BY <1>2, Cat
<1>4. PICK mp : /\ mp = Store(c, c.i, b).mp /\ mp = [j \in 0 .. Blk - 1 |-> mp[j]]
               /\ \A j \in 0 .. Blk - 1 : mp[j] = IF c.i <= j /\ j < c.i + Len(b) THEN b[j - c.i + 1] ELSE c.mp[j]
  <2>1. c.i \in Int
    BY <1>1
  <2>2. PICK g : g = Store(c, c.i, b)
    OBVIOUS
  <2>3. /\ Object(g)
        /\ \A j \in 0 .. Blk - 1 : g.mp[j] = IF c.i <= j /\ j < c.i + Len(b) THEN b[j - c.i + 1] ELSE c.mp[j]
    BY <1>1, <2>1, <2>2, StoreIs
  <2>4. g.mp = [j \in 0 .. Blk - 1 |-> g.mp[j]]
    BY <2>3 DEF Object
  <2> QED
    BY <2>2, <2>3, <2>4
<1>5. update(c, b) = [s |-> c.s, mp |-> mp, i |-> c.i + Len(b), len |-> c.len + Len(b)]
  BY <1>4 DEF update
<1>6. PICK n \in Nat : /\ Len(a) = (n * Blk) + c.i /\ c.s = Blocks(a, n)
                       /\ \A j \in 0 .. c.i - 1 : c.mp[j] = a[(n * Blk) + j + 1]
  BY DEF Absorbed
<1>7. PICK m1 \in Nat : /\ m1 = n * Blk /\ Len(a) = m1 + c.i
                        /\ \A j \in 0 .. c.i - 1 : c.mp[j] = a[m1 + j + 1]
  <2>1. PICK m1 : m1 = n * Blk
    OBVIOUS
  <2>2. m1 \in Nat
    BY <2>1, <1>1
  <2>3. Len(a) = m1 + c.i /\ \A j \in 0 .. c.i - 1 : c.mp[j] = a[m1 + j + 1]
    BY <2>1, <1>6
  <2> QED
    BY <2>1, <2>2, <2>3
<1>8. Blocks(a, n) = Blocks(e, n)
  <2>1. \A j \in 1 .. n * Blk : j \in 1 .. Len(a)
    BY <1>1, <1>6, <1>7
  <2> QED
    BY <2>1, <1>3, SameBlocks
<1>9. c.i + Len(b) \in 0 .. Blk - 1 /\ Len(e) = (n * Blk) + (c.i + Len(b))
  BY <1>1, <1>3, <1>6, <1>7 DEF Fits
<1>10. ASSUME NEW j \in 0 .. (c.i + Len(b)) - 1 PROVE mp[j] = e[(n * Blk) + j + 1]
  <2>1. j \in 0 .. Blk - 1
    BY <1>1, <1>9
  <2>2. CASE j < c.i
    <3>1. mp[j] = a[m1 + j + 1] /\ m1 + j + 1 \in 1 .. Len(a)
      <4>1. mp[j] = c.mp[j] /\ j \in 0 .. c.i - 1
        BY <2>1, <2>2, <1>1, <1>4
      <4> QED
        BY <4>1, <1>1, <1>7, SMTT(60)
    <3> QED
      BY <3>1, <1>3, <1>7
  <2>3. CASE ~(j < c.i)
    <3>1. /\ mp[j] = b[j - c.i + 1] /\ j - c.i + 1 \in 1 .. Len(b)
          /\ Len(a) + (j - c.i + 1) = m1 + j + 1
      <4>1. c.i <= j /\ j < c.i + Len(b)
        BY <2>3, <1>1
      <4>2. mp[j] = b[j - c.i + 1]
        BY <4>1, <2>1, <1>4
      <4>3. j - c.i + 1 \in 1 .. Len(b) /\ Len(a) + (j - c.i + 1) = m1 + j + 1
        BY <4>1, <2>3, <1>1, <1>7
      <4> QED
        BY <4>2, <4>3
    <3> QED
      BY <3>1, <1>3, <1>7
  <2> QED
    BY <2>2, <2>3
<1>11. PICK g : /\ g = update(c, b) /\ Object(g) /\ g.s = Blocks(e, n) /\ g.mp = mp
               /\ g.i = c.i + Len(b) /\ g.len = Len(e)
  <2>1. PICK g : g = [s |-> Blocks(e, n), mp |-> mp, i |-> c.i + Len(b), len |-> Len(e)]
    OBVIOUS
  <2>2. g = update(c, b)
    <3>1. c.s = Blocks(e, n) /\ c.len + Len(b) = Len(e)
      BY <1>1, <1>3, <1>6, <1>8
    <3> QED
      BY <1>5, <2>1, <3>1
  <2>3. Object(g) /\ g.s = Blocks(e, n) /\ g.mp = mp /\ g.i = c.i + Len(b) /\ g.len = Len(e)
    <3>1. PICK z1, z2, z3, z4 : z1 = Blocks(e, n) /\ z2 = mp /\ z3 = c.i + Len(b) /\ z4 = Len(e)
      OBVIOUS
    <3>2. g = [s |-> z1, mp |-> z2, i |-> z3, len |-> z4]
      BY <2>1, <3>1
    <3> HIDE <2>1
    <3>3. g.s = z1 /\ g.mp = z2 /\ g.i = z3 /\ g.len = z4 /\ g = [s |-> g.s, mp |-> g.mp, i |-> g.i, len |-> g.len]
      BY <3>2
    <3> QED
      BY <3>1, <3>3, <1>4 DEF Object
  <2> QED
    BY <2>2, <2>3
<1> QED
  BY <1>2, <1>9, <1>10, <1>11 DEF Absorbed

\* sha256_update, however the input ends in a block.
LEMMA UpdateHolds ==
  ASSUME NEW c, NEW a, NEW b, Word(a), Word(b), Absorbed(c, a)
  PROVE  Word(a \o b) /\ Len(a \o b) = Len(a) + Len(b) /\ Absorbed(update(c, b), a \o b)
<1>1. Word(a \o b) /\ Len(a \o b) = Len(a) + Len(b)
  BY Cat
<1>2. CASE ~Fits(c, b)
  <2>1. PICK x \in Nat, xn \in Nat :
                         /\ xn = x * Blk
                         /\ Object(FillUp(c, b)) /\ FillUp(c, b).len = Len(a \o b)
                         /\ FillUp(c, b).s = Blocks(a \o b, x) /\ x * Blk = Len(a) + Filled(c, b)
                         /\ Filled(c, b) \in 0 .. Len(b)
    <3>1. /\ Object(FillUp(c, b)) /\ FillUp(c, b).len = Len(a \o b)
          /\ Filled(c, b) \in 0 .. Len(b)
          /\ \E x \in Nat : /\ FillUp(c, b).s = Blocks(a \o b, x)
                            /\ x * Blk = Len(a) + Filled(c, b)
      BY <1>2, FillUpIs, Zenon
    <3>2. PICK x \in Nat : /\ FillUp(c, b).s = Blocks(a \o b, x)
                           /\ x * Blk = Len(a) + Filled(c, b)
      BY <3>1
    <3>3. PICK l : l = Blk /\ l \in Nat
      BY Sha2Sizes
    <3>4. x * l \in Nat
      BY <3>3
    <3> QED
      BY <3>1, <3>2, <3>3, <3>4
  <2>2. /\ Word(Rest(c, b)) /\ Len(Rest(c, b)) = Len(b) - Filled(c, b)
        /\ \A j \in 1 .. Len(b) - Filled(c, b) : Rest(c, b)[j] = b[Filled(c, b) + j]
    BY <1>2, RestIs
  <2>3. Len(a) \in Nat /\ Len(b) \in Nat
    BY WordFacts
  <2>4. Len(a \o b) = xn + Len(Rest(c, b))
    BY <1>1, <2>1, <2>2, <2>3
  <2>5. ASSUME NEW j \in 1 .. Len(Rest(c, b)) PROVE Rest(c, b)[j] = (a \o b)[xn + j]
    <3>1. Filled(c, b) + j \in 1 .. Len(b) /\ Len(a) + (Filled(c, b) + j) = xn + j
      BY <2>1, <2>2, <2>3
    <3> QED
      BY <3>1, <2>2, Cat
  <2>6. Absorbed(Whole(FillUp(c, b), Rest(c, b)), a \o b)
    BY <1>1, <2>1, <2>2, <2>4, <2>5, WholeHolds
  <2>7. update(c, b) = Whole(FillUp(c, b), Rest(c, b))
    BY <1>2 DEF update
  <2> QED
    BY <1>1, <2>6, <2>7
<1> QED
  BY <1>1, <1>2, FitsHolds

-----------------------------------------------------------------------------
\* Padding: the one bit, zeros, and the length.
LEMMA Remainder ==
  ASSUME NEW v \in Int, NEW n \in Nat, NEW z \in Nat, z < n, NEW k \in Int, v = (k * n) + z
  PROVE  v % n = z
<1>1. PICK q \in Int, y \in Int : v = (n * q) + y /\ 0 <= y /\ y < n /\ y = v % n
  BY SMT
<1>2. PICK kn \in Int, qn \in Int : kn = k * n /\ qn = q * n /\ n * q = qn
  OBVIOUS
<1>3. kn + z = qn + y
  BY <1>1, <1>2
<1>4. CASE k = q
  <2>1. kn = qn
    BY <1>2, <1>4
  <2>2. z = y
    BY <2>1, <1>1, <1>2, <1>3
  <2> QED
    BY <2>2, <1>1
<1>5. CASE k < q
  <2>1. (k + 1) * n <= q * n /\ (k + 1) * n = kn + n
    BY <1>2, <1>5, Times
  <2> QED
    BY <2>1, <1>1, <1>2, <1>3
<1>6. CASE q < k
  <2>1. (q + 1) * n <= k * n /\ (q + 1) * n = qn + n
    BY <1>2, <1>6, Times
  <2> QED
    BY <2>1, <1>1, <1>2, <1>3
<1> QED
  BY <1>4, <1>5, <1>6

LEMMA PaddedIs ==
  ASSUME NEW a, Word(a), NEW z \in Nat, z = (Blk - LenSz - Len(a) - 1) % Blk
  PROVE  /\ Word(Padded(a)) /\ Len(Padded(a)) = Len(a) + 1 + z + LenSz
         /\ \A j \in 1 .. Len(a) : Padded(a)[j] = a[j]
         /\ Padded(a)[Len(a) + 1] = Byte(Base \div 2)
         /\ \A j \in 1 .. z : Padded(a)[Len(a) + 1 + j] = Byte(0)
         /\ \A j \in 1 .. LenSz : Padded(a)[Len(a) + 1 + z + j] = ToByte(8 * Len(a), LenSz)[j]
<1>1. PICK l \in Nat : l = Len(a)
  BY WordFacts
<1>2. PICK x1, x2, x3, x4, x5 :
        /\ x1 = <<Byte(Base \div 2)>> /\ x2 = Bytes(0, z) /\ x3 = ToByte(8 * Len(a), LenSz)
        /\ x4 = a \o x1 /\ x5 = x4 \o x2
  OBVIOUS
<1>3. Padded(a) = x5 \o x3
  BY <1>2 DEF Padded
<1>4. /\ Word(x1) /\ Len(x1) = 1 /\ x1[1] = Byte(Base \div 2)
      /\ Word(x2) /\ Len(x2) = z /\ \A j \in 1 .. z : x2[j] = Byte(0)
      /\ Word(x3) /\ Len(x3) = LenSz
  BY <1>2, OneWord, BytesWord, ToByteWord, Sha2Sizes
<1>5. /\ Word(x4) /\ Len(x4) = l + 1
      /\ \A j \in 1 .. l : x4[j] = a[j]
      /\ x4[l + 1] = Byte(Base \div 2)
  BY <1>1, <1>2, <1>4, Cat
<1>6. PICK l4, l5 : l4 = l + 1 /\ l5 = l + 1 + z /\ l4 \in Nat /\ l5 \in Nat
  <2>1. l + 1 \in Nat /\ l + 1 + z \in Nat
    OBVIOUS
  <2> QED
    BY <2>1
<1>7. /\ Word(x5) /\ Len(x5) = l5
      /\ \A j \in 1 .. l4 : x5[j] = x4[j]
      /\ \A j \in 1 .. z : x5[l4 + j] = x2[j]
  <2>1. Len(x4) = l4 /\ l4 + z = l5
    BY <1>5, <1>6
  <2>2. Len(x2) = z /\ x5 = x4 \o x2
    BY <1>2, <1>4
  <2>3. Word(x4) /\ Word(x2)
    BY <1>4, <1>5
  <2>4. /\ Word(x4 \o x2) /\ Len(x4 \o x2) = Len(x4) + Len(x2)
        /\ \A j \in 1 .. Len(x4) : (x4 \o x2)[j] = x4[j]
        /\ \A j \in 1 .. Len(x2) : (x4 \o x2)[Len(x4) + j] = x2[j]
    BY <2>3, Cat
  <2> QED
    BY <2>1, <2>2, <2>4
<1>8. /\ Word(Padded(a)) /\ Len(Padded(a)) = l5 + LenSz
      /\ \A j \in 1 .. l5 : Padded(a)[j] = x5[j]
      /\ \A j \in 1 .. LenSz : Padded(a)[l5 + j] = x3[j]
  <2>1. /\ Word(x5 \o x3) /\ Len(x5 \o x3) = Len(x5) + Len(x3)
        /\ \A j \in 1 .. Len(x5) : (x5 \o x3)[j] = x5[j]
        /\ \A j \in 1 .. Len(x3) : (x5 \o x3)[Len(x5) + j] = x3[j]
    BY <1>4, <1>7, Cat
  <2> QED
    BY <2>1, <1>3, <1>4, <1>7
<1>9. \A j \in 1 .. l : Padded(a)[j] = a[j]
  <2>1. \A j \in 1 .. l : j \in 1 .. l4 /\ j \in 1 .. l5
    BY <1>6
  <2> QED
    BY <2>1, <1>5, <1>7, <1>8
<1>10. Padded(a)[l + 1] = Byte(Base \div 2)
  <2>1. l + 1 \in 1 .. l4 /\ l + 1 \in 1 .. l5 /\ l + 1 = l4
    BY <1>6
  <2> QED
    BY <2>1, <1>5, <1>7, <1>8
<1>11. \A j \in 1 .. z : Padded(a)[l + 1 + j] = Byte(0)
  <2>1. \A j \in 1 .. z : l4 + j \in 1 .. l5 /\ l + 1 + j = l4 + j
    BY <1>6
  <2> QED
    BY <2>1, <1>4, <1>7, <1>8
<1> QED
  BY <1>1, <1>2, <1>6, <1>8, <1>9, <1>10, <1>11

LEMMA ClearIs ==
  ASSUME NEW c, Object(c), NEW from \in 0 .. Blk
  PROVE  /\ Object(Clear(c, from))
         /\ Clear(c, from).s = c.s /\ Clear(c, from).len = c.len
         /\ \A j \in 0 .. Blk - 1 : Clear(c, from).mp[j] = IF j < from THEN c.mp[j] ELSE Byte(0)
<1>1. PICK l \in Nat : l = Blk - from /\ Blk = l + from
  BY Sha2Sizes
<1>2. PICK z : z = Bytes(0, l)
  OBVIOUS
<1>3. Len(z) = l /\ \A j \in 1 .. l : z[j] = Byte(0)
  BY <1>2, BytesWord
<1>4. PICK g : /\ g = Clear(c, from) /\ Object(g) /\ g.s = c.s /\ g.len = c.len
               /\ \A j \in 0 .. Blk - 1 : g.mp[j] = IF from <= j /\ j < from + Len(z) THEN z[j - from + 1] ELSE c.mp[j]
  <2>1. Clear(c, from) = Store(c, from, z)
    BY <1>1, <1>2 DEF Clear
  <2> QED
    BY <2>1, StoreIs
<1>5. ASSUME NEW j \in 0 .. Blk - 1 PROVE g.mp[j] = IF j < from THEN c.mp[j] ELSE Byte(0)
  <2>1. CASE j < from
    <3>1. ~(from <= j)
      BY <2>1
    <3> QED
      BY <2>1, <3>1, <1>4
  <2>2. CASE ~(j < from)
    <3>1. from <= j /\ j < from + Len(z) /\ j - from + 1 \in 1 .. l
      BY <2>2, <1>1, <1>3
    <3> QED
      BY <2>2, <3>1, <1>3, <1>4
  <2> QED
    BY <2>1, <2>2
<1> QED
  BY <1>4, <1>5

\* The block behind the message: the one bit, then zeros.
LEMMA OneBit ==
  ASSUME NEW c, Object(c), c.i \in 0 .. Blk - 1, NEW one,
         one = Clear(Store(c, c.i, <<Byte(Base \div 2)>>), c.i + 1)
  PROVE  /\ Object(one) /\ one.s = c.s /\ one.len = c.len
         /\ \A j \in 0 .. Blk - 1 :
              one.mp[j] = IF j < c.i THEN c.mp[j] ELSE IF j = c.i THEN Byte(Base \div 2) ELSE Byte(0)
<1>1. PICK v : v = <<Byte(Base \div 2)>>
  OBVIOUS
<1>2. Len(v) = 1 /\ v[1] = Byte(Base \div 2)
  BY <1>1, OneWord
<1>3. PICK g : /\ g = Store(c, c.i, v) /\ Object(g) /\ g.s = c.s /\ g.len = c.len
               /\ \A j \in 0 .. Blk - 1 : g.mp[j] = IF c.i <= j /\ j < c.i + Len(v) THEN v[j - c.i + 1] ELSE c.mp[j]
  <2>1. c.i \in Int
    BY Sha2Sizes
  <2> QED
    BY <2>1, StoreIs
<1>4. c.i + 1 \in 0 .. Blk
  BY Sha2Sizes
<1>5. /\ Object(one) /\ one.s = g.s /\ one.len = g.len
      /\ \A j \in 0 .. Blk - 1 : one.mp[j] = IF j < c.i + 1 THEN g.mp[j] ELSE Byte(0)
  <2>1. one = Clear(g, c.i + 1)
    BY <1>1, <1>3
  <2> QED
    BY <2>1, <1>3, <1>4, ClearIs
<1>6. ASSUME NEW j \in 0 .. Blk - 1
      PROVE  one.mp[j] = IF j < c.i THEN c.mp[j] ELSE IF j = c.i THEN Byte(Base \div 2) ELSE Byte(0)
  <2>1. CASE j < c.i
    <3>1. j < c.i + 1 /\ ~(c.i <= j)
      BY <2>1, Sha2Sizes
    <3> QED
      BY <2>1, <3>1, <1>3, <1>5
  <2>2. CASE j = c.i
    <3>1. j < c.i + 1 /\ c.i <= j /\ j < c.i + Len(v) /\ j - c.i + 1 = 1 /\ ~(j < c.i)
      BY <2>2, <1>2, Sha2Sizes
    <3> QED
      BY <2>2, <3>1, <1>2, <1>3, <1>5
  <2>3. CASE j > c.i
    <3>1. ~(j < c.i + 1) /\ ~(j < c.i) /\ j # c.i
      BY <2>3, Sha2Sizes
    <3> QED
      BY <3>1, <1>5
  <2>4. j < c.i \/ j = c.i \/ j > c.i
    BY Sha2Sizes
  <2> QED
    BY <2>1, <2>2, <2>3, <2>4
<1> QED
  BY <1>3, <1>5, <1>6

\* The length over zeros: its bytes, the leading zeros too.
LEMMA LengthIs ==
  ASSUME NEW c, Object(c), NEW x \in Nat,
         \A j \in 0 .. Blk - 1 : j >= Blk - LenSz => c.mp[j] = Byte(0)
  PROVE  /\ Object(PutLength(c, x)) /\ PutLength(c, x).s = c.s
         /\ \A j \in 0 .. Blk - 1 :
              PutLength(c, x).mp[j] = IF j < Blk - LenSz THEN c.mp[j] ELSE ToByte(x, LenSz)[j - (Blk - LenSz) + 1]
<1> DEFINE y(j) == IF Blk - 1 - j >= LenSz THEN 0 ELSE x \div (Base ^ (Blk - 1 - j))
<1>1. PICK mp : mp = [j \in 0 .. Blk - 1 |-> IF y(j) > 0 THEN Byte(y(j) % Base) ELSE c.mp[j]]
  OBVIOUS
<1>2. PutLength(c, x) = [s |-> c.s, mp |-> mp, i |-> c.i, len |-> c.len]
  <2>1. PutLength(c, x) = [c EXCEPT !.mp = mp]
    BY <1>1 DEF PutLength
  <2> QED
    BY <2>1, PutBlock
<1>3. \A j \in 0 .. Blk - 1 : mp[j] = IF y(j) > 0 THEN Byte(y(j) % Base) ELSE c.mp[j]
  BY <1>1
<1>4. mp = [j \in 0 .. Blk - 1 |-> mp[j]]
  BY <1>1
<1>5. ASSUME NEW j \in 0 .. Blk - 1
      PROVE  mp[j] = IF j < Blk - LenSz THEN c.mp[j] ELSE ToByte(x, LenSz)[j - (Blk - LenSz) + 1]
  <2>1. CASE j < Blk - LenSz
    <3>1. y(j) = 0
      BY <2>1, Sha2Sizes
    <3> HIDE DEF y
    <3> QED
      BY <2>1, <3>1, <1>3
  <2>2. CASE ~(j < Blk - LenSz)
    <3>1. /\ j - (Blk - LenSz) + 1 \in 1 .. LenSz /\ LenSz - (j - (Blk - LenSz) + 1) = Blk - 1 - j
          /\ Blk - 1 - j \in 0 .. LenSz /\ ~(Blk - 1 - j >= LenSz)
      BY <2>2, Sha2Sizes
    <3>2. y(j) = x \div (Base ^ (Blk - 1 - j)) /\ Base ^ (Blk - 1 - j) \in Nat \ {0}
      BY <3>1, Sha2Assumption
    <3>3. y(j) \in Nat
      <4>1. PICK p \in Nat : p > 0 /\ p = Base ^ (Blk - 1 - j)
        BY <3>2
      <4>2. x \div p \in Nat
        BY <4>1, DivideLen
      <4> QED
        BY <4>1, <4>2, <3>2
    <3>4. ToByte(x, LenSz)[j - (Blk - LenSz) + 1] = Byte(y(j) % Base)
      <4>1. PICK k : k = j - (Blk - LenSz) + 1
        OBVIOUS
      <4>2. ToByte(x, LenSz)[k] = Byte((x \div (Base ^ (LenSz - k))) % Base)
        BY <3>1, <4>1, ToByteWord, Sha2Sizes
      <4> QED
        BY <3>1, <3>2, <4>1, <4>2
    <3>5. y(j) = 0 => y(j) % Base = 0
      <4>1. 0 % Base = 0
        BY Sha2Sizes
      <4> QED
        BY <4>1
    <3>6. c.mp[j] = Byte(0)
      BY <2>2, Sha2Sizes
    <3> HIDE DEF y
    <3>7. mp[j] = Byte(y(j) % Base)
      BY <1>3, <3>3, <3>5, <3>6
    <3> QED
      BY <2>2, <3>4, <3>7
  <2> QED
    BY <2>1, <2>2
<1> HIDE DEF y
<1> QED
  BY <1>2, <1>4, <1>5 DEF Object

\* The number of zeros: the message ends in block n, at i0.
LEMMA Zeros ==
  ASSUME NEW a, Word(a), NEW n \in Nat, NEW i0 \in 0 .. Blk - 1, Len(a) = (n * Blk) + i0
  PROVE  /\ i0 + 1 <= Blk - LenSz => (Blk - LenSz - Len(a) - 1) % Blk = Blk - LenSz - i0 - 1
         /\ i0 + 1 > Blk - LenSz => (Blk - LenSz - Len(a) - 1) % Blk = (2 * Blk) - LenSz - i0 - 1
<1>1. PICK l, w : l = Blk /\ w = LenSz /\ l \in Nat /\ l > 0 /\ w \in Nat /\ w > 0 /\ w <= l
  BY Sha2Sizes
<1>2. PICK nl \in Int : nl = n * l /\ (-n) * l = -nl /\ (-n - 1) * l = -nl - l
  BY <1>1
<1>3. PICK v \in Int : v = Blk - LenSz - Len(a) - 1 /\ v = l - w - nl - i0 - 1
  BY <1>1, <1>2
<1>4. ASSUME i0 + 1 <= l - w PROVE v % l = l - w - i0 - 1
  <2>1. PICK z \in Nat : z = l - w - i0 - 1 /\ z < l
    BY <1>1, <1>4
  <2>2. -n \in Int /\ v = ((-n) * l) + z
    BY <1>1, <1>2, <1>3, <2>1
  <2> QED
    BY <1>1, <2>1, <2>2, Remainder
<1>5. ASSUME i0 + 1 > l - w PROVE v % l = (2 * l) - w - i0 - 1
  <2>1. PICK z \in Nat : z = (2 * l) - w - i0 - 1 /\ z < l
    BY <1>1, <1>5
  <2>2. -n - 1 \in Int /\ v = ((-n - 1) * l) + z
    BY <1>1, <1>2, <1>3, <2>1
  <2> QED
    BY <1>1, <2>1, <2>2, Remainder
<1> QED
  BY <1>1, <1>3, <1>4, <1>5

\* sha256_final_pad leaves the last block of the padded message, and the
\* blocks before it are in the chaining value.
LEMMA PadIs ==
  ASSUME NEW c, NEW a, Word(a), Absorbed(c, a)
  PROVE  /\ Object(final_pad(c)) /\ Word(Padded(a))
         /\ \E q \in Nat : /\ Len(Padded(a)) = (q + 1) * Blk
                          /\ final_pad(c).s = Blocks(Padded(a), q)
                          /\ \A j \in 0 .. Blk - 1 : final_pad(c).mp[j] = Padded(a)[(q * Blk) + j + 1]
<1>1. PICK n \in Nat : /\ Len(a) = (n * Blk) + c.i /\ c.s = Blocks(a, n)
                       /\ \A j \in 0 .. c.i - 1 : c.mp[j] = a[(n * Blk) + j + 1]
  BY DEF Absorbed
<1>2. PICK l, w, i0 : /\ l = Blk /\ w = LenSz /\ l \in Nat /\ l > 0 /\ w \in Nat /\ w > 0 /\ w <= l
                      /\ i0 = c.i /\ i0 \in 0 .. Blk - 1
  BY Sha2Sizes DEF Absorbed
<1>3. PICK nl : nl = n * l /\ nl \in Nat /\ (n + 1) * l = nl + l /\ (n + 2) * l = nl + (2 * l)
  BY <1>2
<1>4. /\ Len(a) = nl + i0 /\ Len(a) \in Nat
      /\ \A j \in 0 .. i0 - 1 : c.mp[j] = a[nl + j + 1]
  BY <1>1, <1>2, <1>3
<1>5. PICK z, v : z = (Blk - LenSz - Len(a) - 1) % Blk /\ v = Padded(a)
  OBVIOUS
<1>6. /\ i0 + 1 <= l - w => z = l - w - i0 - 1
      /\ i0 + 1 > l - w => z = (2 * l) - w - i0 - 1
  BY <1>1, <1>2, <1>5, Zeros
<1>7. z \in Nat
  BY <1>2, <1>6
<1>8. /\ Word(v) /\ Len(v) = nl + i0 + 1 + z + w
      /\ \A j \in 1 .. nl + i0 : v[j] = a[j]
      /\ v[nl + i0 + 1] = Byte(Base \div 2)
      /\ \A j \in 1 .. z : v[nl + i0 + 1 + j] = Byte(0)
      /\ \A j \in 1 .. w : v[nl + i0 + 1 + z + j] = ToByte(8 * Len(a), LenSz)[j]
  <2>1. /\ Word(v) /\ Len(v) = Len(a) + 1 + z + LenSz
        /\ \A j \in 1 .. Len(a) : v[j] = a[j]
        /\ v[Len(a) + 1] = Byte(Base \div 2)
        /\ \A j \in 1 .. z : v[Len(a) + 1 + j] = Byte(0)
        /\ \A j \in 1 .. LenSz : v[Len(a) + 1 + z + j] = ToByte(8 * Len(a), LenSz)[j]
    BY <1>5, <1>7, PaddedIs
  <2>2. PICK x : x = Len(a) /\ x = nl + i0
    BY <1>4
  <2> QED
    BY <2>1, <2>2, <1>2
<1>9. PICK one : one = Clear(Store(c, c.i, <<Byte(Base \div 2)>>), c.i + 1)
  OBVIOUS
<1>10. /\ Object(one) /\ one.s = c.s
       /\ \A j \in 0 .. l - 1 :
            one.mp[j] = IF j < i0 THEN c.mp[j] ELSE IF j = i0 THEN Byte(Base \div 2) ELSE Byte(0)
  <2>1. Object(c) /\ c.i \in 0 .. Blk - 1
    BY <1>2 DEF Absorbed
  <2> QED
    BY <1>2, <1>9, <2>1, OneBit
<1>11. ASSUME NEW j \in 0 .. l - 1, j <= i0 + z PROVE one.mp[j] = v[nl + j + 1]
  <2>1. CASE j < i0
    <3>1. j \in 0 .. i0 - 1 /\ nl + j + 1 \in 1 .. nl + i0
      BY <1>2, <1>3, <2>1
    <3> QED
      BY <2>1, <3>1, <1>4, <1>8, <1>10
  <2>2. CASE j = i0
    BY <2>2, <1>2, <1>8, <1>10
  <2>3. CASE j > i0
    <3>1. ~(j < i0) /\ j # i0 /\ j - i0 \in 1 .. z /\ nl + i0 + 1 + (j - i0) = nl + j + 1
      BY <1>2, <1>3, <1>7, <1>11, <2>3
    <3> QED
      BY <3>1, <1>8, <1>10
  <2> QED
    BY <1>2, <2>1, <2>2, <2>3
<1>12. c.s = Blocks(v, n)
  <2>1. \A j \in 1 .. n * Blk : j \in 1 .. nl + i0
    BY <1>2, <1>3
  <2>2. \A j \in 1 .. n * Blk : a[j] = v[j]
    BY <2>1, <1>8
  <2> QED
    BY <1>1, <2>2, SameBlocks
\* What is put before the length: one block, or the second of two.
<1>13. PICK g, q, ql :
         /\ g = IF c.i + 1 > Blk - LenSz THEN Clear(compress(one), 0) ELSE one
         /\ Object(g) /\ q \in Nat /\ ql \in Nat /\ ql = q * l /\ (q + 1) * l = ql + l
         /\ ql + l = nl + i0 + 1 + z + w
         /\ g.s = Blocks(v, q)
         /\ \A j \in 0 .. l - 1 : j < l - w => g.mp[j] = v[ql + j + 1]
         /\ \A j \in 0 .. l - 1 : j >= l - w => g.mp[j] = Byte(0)
  <2>1. CASE i0 + 1 <= l - w
    <3>1. ~(c.i + 1 > Blk - LenSz) /\ z = l - w - i0 - 1 /\ nl + l = nl + i0 + 1 + z + w
      BY <1>2, <1>3, <1>6, <2>1
    <3>2. \A j \in 0 .. l - 1 : j < l - w => one.mp[j] = v[nl + j + 1]
      <4>1. \A j \in 0 .. l - 1 : j < l - w => j <= i0 + z
        BY <1>2, <3>1
      <4> QED
        BY <4>1, <1>11
    <3>3. \A j \in 0 .. l - 1 : j >= l - w => one.mp[j] = Byte(0)
      <4>1. \A j \in 0 .. l - 1 : j >= l - w => ~(j < i0) /\ j # i0
        BY <1>2, <2>1
      <4> QED
        BY <4>1, <1>10
    <3>4. one.s = Blocks(v, n)
      BY <1>10, <1>12
    <3>5. /\ one = IF c.i + 1 > Blk - LenSz THEN Clear(compress(one), 0) ELSE one
          /\ Object(one)
      BY <3>1, <1>10
    <3>6. n \in Nat /\ nl \in Nat /\ nl = n * l /\ (n + 1) * l = nl + l
      BY <1>3
    <3>7. nl + l = nl + i0 + 1 + z + w
      BY <3>1
    <3> WITNESS one, n, nl
    <3> QED
      BY <3>2, <3>3, <3>4, <3>5, <3>6, <3>7
  <2>2. CASE i0 + 1 > l - w
    <3>1. c.i + 1 > Blk - LenSz /\ z = (2 * l) - w - i0 - 1 /\ (nl + l) + l = nl + i0 + 1 + z + w
      BY <1>2, <1>3, <1>6, <2>2
    <3>2. \A j \in 0 .. Blk - 1 : one.mp[j] = v[nl + j + 1]
      <4>1. \A j \in 0 .. l - 1 : j <= i0 + z
        BY <1>2, <3>1
      <4> QED
        BY <4>1, <1>2, <1>11
    <3>3. compress(one).s = Blocks(v, n + 1) /\ Object(compress(one))
      <4>1. nl \in Int /\ nl = n * Blk /\ one.s = Blocks(v, n) /\ Object(one)
        BY <1>2, <1>3, <1>10, <1>12
      <4>2. compress(one).s = Blocks(v, n + 1)
        BY <3>2, <4>1, FullBlock
      <4> QED
        BY <4>1, <4>2, CompressIs
    <3>4. PICK g : g = Clear(compress(one), 0)
      OBVIOUS
    <3>5. Object(g) /\ g.s = Blocks(v, n + 1) /\ \A j \in 0 .. l - 1 : g.mp[j] = Byte(0)
      <4>1. 0 \in 0 .. Blk
        BY Sha2Sizes
      <4>2. /\ Object(g) /\ g.s = compress(one).s
            /\ \A j \in 0 .. Blk - 1 : g.mp[j] = IF j < 0 THEN compress(one).mp[j] ELSE Byte(0)
        BY <3>3, <3>4, <4>1, ClearIs
      <4>3. \A j \in 0 .. l - 1 : j \in 0 .. Blk - 1 /\ ~(j < 0)
        BY <1>2
      <4> QED
        BY <3>3, <4>2, <4>3
    <3>6. ASSUME NEW j \in 0 .. l - 1, j < l - w PROVE v[(nl + l) + j + 1] = Byte(0)
      <4>1. l + j - i0 \in 1 .. z /\ nl + i0 + 1 + (l + j - i0) = (nl + l) + j + 1
        BY <1>2, <1>3, <3>1, <3>6
      <4> QED
        BY <4>1, <1>8
    <3>7. n + 1 \in Nat /\ nl + l \in Nat /\ nl + l = (n + 1) * l /\ ((n + 1) + 1) * l = (nl + l) + l
      BY <1>2, <1>3
    <3>8. \A j \in 0 .. l - 1 : j < l - w => g.mp[j] = v[(nl + l) + j + 1]
      BY <3>5, <3>6
    <3>9. g = IF c.i + 1 > Blk - LenSz THEN Clear(compress(one), 0) ELSE one
      BY <3>1, <3>4
    <3> QED
      BY <3>1, <3>5, <3>7, <3>8, <3>9
  <2> QED
    BY <1>2, <2>1, <2>2
<1>14. PICK h : h = final_pad(c)
  OBVIOUS
<1>15. /\ Object(h) /\ h.s = Blocks(v, q)
       /\ \A j \in 0 .. l - 1 : h.mp[j] = IF j < l - w THEN g.mp[j] ELSE ToByte(8 * Len(a), LenSz)[j - (l - w) + 1]
  <2>1. h = PutLength(g, 8 * Len(a))
    <3>1. c.len = Len(a)
      BY DEF Absorbed
    <3> QED
      BY <1>9, <1>13, <1>14, <3>1 DEF final_pad
  <2>2. 8 * Len(a) \in Nat
    BY <1>4
  <2>3. \A j \in 0 .. Blk - 1 : j >= Blk - LenSz => g.mp[j] = Byte(0)
    BY <1>2, <1>13
  <2>4. /\ Object(h) /\ h.s = g.s
        /\ \A j \in 0 .. Blk - 1 :
             h.mp[j] = IF j < Blk - LenSz THEN g.mp[j] ELSE ToByte(8 * Len(a), LenSz)[j - (Blk - LenSz) + 1]
    BY <1>13, <2>1, <2>2, <2>3, LengthIs
  <2> QED
    BY <1>2, <1>13, <2>4
<1>16. ASSUME NEW j \in 0 .. l - 1 PROVE h.mp[j] = v[ql + j + 1]
  <2>1. CASE j < l - w
    BY <2>1, <1>13, <1>15
  <2>2. CASE ~(j < l - w)
    <3>1. j - (l - w) + 1 \in 1 .. w /\ nl + i0 + 1 + z + (j - (l - w) + 1) = ql + j + 1
      <4>1. ql + l = nl + i0 + 1 + z + w
        BY <1>13
      <4>2. ql \in Nat
        BY <1>13
      <4> QED
        BY <1>2, <1>3, <1>7, <2>2, <4>1, <4>2
    <3> QED
      BY <2>2, <3>1, <1>8, <1>15
  <2> QED
    BY <2>1, <2>2
<1>17. q \in Nat /\ Len(v) = (q + 1) * Blk /\ \A j \in 0 .. Blk - 1 : h.mp[j] = v[(q * Blk) + j + 1]
  <2>1. q \in Nat /\ ql = q * Blk /\ Len(v) = (q + 1) * Blk
    BY <1>2, <1>8, <1>13
  <2> QED
    BY <1>2, <1>16, <2>1
<1> QED
  BY <1>5, <1>8, <1>14, <1>15, <1>17

\* sha256_final_len: the digest of the bytes that were put in.
LEMMA FinalIs ==
  ASSUME NEW c, NEW a, Word(a), Absorbed(c, a)
  PROVE  /\ Object(final_pad(c)) /\ Object(compress(final_pad(c)))
         /\ \A n \in Nat : Take(compress(final_pad(c)).s, n) = SHA(a, n) /\ final_len(c, n) = SHA(a, n)
<1>1. PICK q \in Nat : /\ Len(Padded(a)) = (q + 1) * Blk
                      /\ final_pad(c).s = Blocks(Padded(a), q)
                      /\ \A j \in 0 .. Blk - 1 : final_pad(c).mp[j] = Padded(a)[(q * Blk) + j + 1]
  BY PadIs
<1>2. Object(final_pad(c)) /\ Object(compress(final_pad(c)))
  BY PadIs, CompressIs
<1>3. PICK qb \in Int : qb = q * Blk
  BY Sha2Sizes
<1>4. \A j \in 0 .. Blk - 1 : final_pad(c).mp[j] = Padded(a)[qb + j + 1]
  BY <1>1, <1>3
<1>5. compress(final_pad(c)).s = Blocks(Padded(a), q + 1)
  BY <1>1, <1>2, <1>3, <1>4, FullBlock
<1>6. Len(Padded(a)) \div Blk = q + 1
  <2>1. PICK l : l = Blk /\ l \in Nat /\ l > 0
    BY Sha2Sizes
  <2>2. ((q + 1) * l) \div l = q + 1
    BY <2>1
  <2> QED
    BY <1>1, <2>1, <2>2
<1> QED
  BY <1>2, <1>5, <1>6 DEF SHA, final_len

-----------------------------------------------------------------------------
\* The chain: messages of one length are padded alike.
LEMMA SamePadding ==
  ASSUME NEW a, NEW b, Word(a), Word(b), Len(a) = Len(b), NEW j \in Int, Len(a) < j, j <= Len(Padded(a))
  PROVE  Padded(a)[j] = Padded(b)[j]
<1>1. PICK x, l, w : x = (Blk - LenSz - Len(a) - 1) % Blk /\ l = Len(a) /\ w = LenSz /\ l \in Nat /\ w \in Nat
  BY WordFacts, Sha2Sizes
<1>2. x \in Nat
  BY <1>1, Sha2Sizes
<1>3. PICK y, v : y = Padded(a) /\ v = Padded(b)
  OBVIOUS
<1>4. /\ Len(y) = l + 1 + x + w
      /\ y[l + 1] = Byte(Base \div 2) /\ \A k \in 1 .. x : y[l + 1 + k] = Byte(0)
      /\ \A k \in 1 .. w : y[l + 1 + x + k] = ToByte(8 * l, LenSz)[k]
  <2>1. /\ Len(y) = Len(a) + 1 + x + LenSz
        /\ y[Len(a) + 1] = Byte(Base \div 2)
        /\ \A k \in 1 .. x : y[Len(a) + 1 + k] = Byte(0)
        /\ \A k \in 1 .. LenSz : y[Len(a) + 1 + x + k] = ToByte(8 * Len(a), LenSz)[k]
    BY <1>1, <1>2, <1>3, PaddedIs
  <2> QED
    BY <2>1, <1>1
<1>5. /\ v[l + 1] = Byte(Base \div 2) /\ \A k \in 1 .. x : v[l + 1 + k] = Byte(0)
      /\ \A k \in 1 .. w : v[l + 1 + x + k] = ToByte(8 * l, LenSz)[k]
  <2>0. x = (Blk - LenSz - Len(b) - 1) % Blk
    BY <1>1
  <2>1. /\ v[Len(b) + 1] = Byte(Base \div 2)
        /\ \A k \in 1 .. x : v[Len(b) + 1 + k] = Byte(0)
        /\ \A k \in 1 .. LenSz : v[Len(b) + 1 + x + k] = ToByte(8 * Len(b), LenSz)[k]
    BY <2>0, <1>2, <1>3, PaddedIs
  <2> QED
    BY <2>1, <1>1
<1>6. l < j /\ j <= l + 1 + x + w
  BY <1>1, <1>3, <1>4
<1>7. CASE j = l + 1
  BY <1>3, <1>4, <1>5, <1>7
<1>8. CASE l + 1 < j /\ j <= l + 1 + x
  <2>1. PICK k \in 1 .. x : j = l + 1 + k
    <3>1. j - (l + 1) \in 1 .. x /\ j = l + 1 + (j - (l + 1))
      BY <1>1, <1>2, <1>8
    <3> QED
      BY <3>1
  <2> QED
    BY <2>1, <1>3, <1>4, <1>5
<1>9. CASE l + 1 + x < j
  <2>1. PICK k \in 1 .. w : j = l + 1 + x + k
    <3>1. j - (l + 1 + x) \in 1 .. w /\ j = l + 1 + x + (j - (l + 1 + x))
      BY <1>1, <1>2, <1>6, <1>9, SMTT(60)
    <3> QED
      BY <3>1
  <2> QED
    BY <2>1, <1>3, <1>4, <1>5
<1>10. j = l + 1 \/ (l + 1 < j /\ j <= l + 1 + x) \/ l + 1 + x < j
  BY <1>1, <1>2, <1>6
<1> QED
  BY <1>7, <1>8, <1>9, <1>10

LEMMA PrefixIs == Word(Prefix) /\ Len(Prefix) = Blk
<1>1. PICK a, b : a = PkSeed /\ b = Bytes(0, Blk - N) /\ Prefix = a \o b
  BY DEF Prefix
<1>2. Blk - N \in Nat /\ N + (Blk - N) = Blk
  BY Sha2Sizes
<1>3. Word(a) /\ Len(a) = N /\ Word(b) /\ Len(b) = Blk - N
  BY <1>1, <1>2, BytesWord, Sha2Sizes DEF PkSeed
<1>4. Word(a \o b) /\ Len(a \o b) = Len(a) + Len(b)
  BY <1>3, Cat
<1> QED
  BY <1>1, <1>2, <1>3, <1>4

LEMMA ADRScIs ==
  ASSUME NEW h
  PROVE  /\ Word(ADRSc(h)) /\ Len(ADRSc(h)) = HeadLen + 1
         /\ \A j \in 1 .. HeadLen : ADRSc(h)[j] = Byte(5)
         /\ ADRSc(h)[HeadLen + 1] = Byte(h)
<1>1. PICK a, b : a = Bytes(5, HeadLen) /\ b = <<Byte(h)>> /\ ADRSc(h) = a \o b
  BY DEF ADRSc
<1>2. Word(a) /\ Len(a) = HeadLen /\ \A j \in 1 .. HeadLen : a[j] = Byte(5)
  BY <1>1, BytesWord, Sha2Sizes
<1>3. Word(b) /\ Len(b) = 1 /\ b[1] = Byte(h)
  BY <1>1, OneWord
<1>4. /\ Word(a \o b) /\ Len(a \o b) = Len(a) + Len(b)
      /\ \A j \in 1 .. Len(a) : (a \o b)[j] = a[j]
      /\ \A j \in 1 .. Len(b) : (a \o b)[Len(a) + j] = b[j]
  <2>1. Word(a) /\ Word(b)
    BY <1>2, <1>3
  <2> QED
    BY <2>1, Cat
<1> QED
  BY <1>1, <1>2, <1>3, <1>4, SMTT(60)

\* What F hashes.
Hashed(h, x) == (Prefix \o ADRSc(h)) \o x

LEMMA HashedIs ==
  ASSUME NEW h, NEW x, Word(x), Len(x) = N
  PROVE  /\ Word(Hashed(h, x)) /\ Len(Hashed(h, x)) = Blk + (HeadLen + 1 + N)
         /\ \A j \in 1 .. Blk : Hashed(h, x)[j] = Prefix[j]
         /\ \A j \in 1 .. HeadLen : Hashed(h, x)[Blk + j] = Byte(5)
         /\ Hashed(h, x)[Blk + (HeadLen + 1)] = Byte(h)
         /\ \A j \in 1 .. N : Hashed(h, x)[Blk + (HeadLen + 1 + j)] = x[j]
<1>1. PICK a, b, e, f : a = Prefix /\ b = ADRSc(h) /\ e = a \o b /\ f = e \o x /\ Hashed(h, x) = f
  BY DEF Hashed
<1>2. PICK l, d, n : l = Blk /\ d = HeadLen /\ n = N /\ l \in Nat /\ d \in Nat /\ n \in Nat
  BY Sha2Sizes
<1>3. Word(a) /\ Len(a) = l /\ Word(b) /\ Len(b) = d + 1 /\ (\A j \in 1 .. d : b[j] = Byte(5)) /\ b[d + 1] = Byte(h)
  BY <1>1, <1>2, PrefixIs, ADRScIs
<1>4. /\ Word(e) /\ Len(e) = l + (d + 1)
      /\ \A j \in 1 .. l : e[j] = a[j]
      /\ \A j \in 1 .. d + 1 : e[l + j] = b[j]
  BY <1>1, <1>3, Cat, SMTT(60)
<1>5. PICK k : k = l + (d + 1)
  OBVIOUS
<1>6. k \in Nat
  BY <1>2, <1>5
<1>7. /\ Word(f) /\ Len(f) = k + n
      /\ \A j \in 1 .. k : f[j] = e[j]
      /\ \A j \in 1 .. n : f[k + j] = x[j]
  <2>1. Word(e)
    BY <1>4
  <2>2. /\ Word(e \o x) /\ Len(e \o x) = Len(e) + Len(x)
        /\ \A j \in 1 .. Len(e) : (e \o x)[j] = e[j]
        /\ \A j \in 1 .. Len(x) : (e \o x)[Len(e) + j] = x[j]
    BY <2>1, Cat
  <2>3. Len(e) = k /\ Len(x) = n /\ f = e \o x
    BY <1>1, <1>2, <1>4, <1>5
  <2> QED
    BY <2>2, <2>3
<1>8. Len(f) = l + (d + 1 + n)
  BY <1>2, <1>5, <1>7
<1>9. \A j \in 1 .. l : f[j] = a[j]
  <2>1. \A j \in 1 .. l : j \in 1 .. k
    BY <1>2, <1>5
  <2> QED
    BY <2>1, <1>4, <1>7
<1>10. \A j \in 1 .. d + 1 : f[l + j] = b[j]
  <2>1. \A j \in 1 .. d + 1 : l + j \in 1 .. k
    BY <1>2, <1>5
  <2> QED
    BY <2>1, <1>4, <1>7
<1>11. \A j \in 1 .. n : f[l + (d + 1 + j)] = x[j]
  <2>1. \A j \in 1 .. n : k + j = l + (d + 1 + j)
    BY <1>2, <1>5
  <2> QED
    BY <2>1, <1>7
<1>12. (\A j \in 1 .. d : f[l + j] = Byte(5)) /\ f[l + (d + 1)] = Byte(h)
  <2>1. (\A j \in 1 .. d : j \in 1 .. d + 1) /\ d + 1 \in 1 .. d + 1
    BY <1>2
  <2> QED
    BY <2>1, <1>3, <1>10
<1> QED
  BY <1>1, <1>2, <1>7, <1>8, <1>9, <1>11, <1>12

\* F hashes two blocks, the first of them the prefix.
LEMMA HashedPadded ==
  ASSUME NEW h, NEW x, Word(x), Len(x) = N
  PROVE  /\ Len(Padded(Hashed(h, x))) = 2 * Blk
         /\ \A j \in 1 .. Blk + (HeadLen + 1 + N) : Padded(Hashed(h, x))[j] = Hashed(h, x)[j]
<1>1. PICK a : a = Hashed(h, x)
  OBVIOUS
<1>2. PICK l, d, w : /\ l = Blk /\ d = HeadLen + 1 + N /\ w = LenSz
                     /\ l \in Nat /\ d \in Nat /\ w \in Nat /\ d + 1 <= l - w /\ w > 0
  BY Sha2Sizes
<1>3. Word(a) /\ Len(a) = l + d
  BY <1>1, <1>2, HashedIs
<1>4. (Blk - LenSz - Len(a) - 1) % Blk = l - w - d - 1
  <2>1. 1 \in Nat /\ d \in 0 .. Blk - 1 /\ Len(a) = (1 * Blk) + d /\ d + 1 <= Blk - LenSz
    BY <1>2, <1>3
  <2>2. (Blk - LenSz - Len(a) - 1) % Blk = Blk - LenSz - d - 1
    BY <2>1, <1>3, Zeros
  <2> QED
    BY <2>2, <1>2
<1>5. PICK z : z = l - w - d - 1 /\ z \in Nat
  BY <1>2
<1>6. Len(Padded(a)) = Len(a) + 1 + z + LenSz /\ \A j \in 1 .. Len(a) : Padded(a)[j] = a[j]
  <2>1. z \in Nat /\ z = (Blk - LenSz - Len(a) - 1) % Blk
    BY <1>4, <1>5
  <2> QED
    BY <2>1, <1>3, PaddedIs
<1>7. Len(Padded(a)) = 2 * l
  <2>1. Len(Padded(a)) = (l + d) + 1 + z + w
    BY <1>2, <1>3, <1>6
  <2> QED
    BY <2>1, <1>2, <1>5, SMTT(60)
<1> QED
  BY <1>1, <1>2, <1>3, <1>6, <1>7

\* sha256_chain's first: the two blocks of such a hash, the second not yet
\* compressed.
Chained(e) ==
  /\ Object(e)
  /\ \E h, x : /\ Word(x) /\ Len(x) = N
               /\ e.s = Blocks(Padded(Hashed(h, x)), 1)
               /\ \A j \in 0 .. Blk - 1 : e.mp[j] = Padded(Hashed(h, x))[Blk + j + 1]

LEMMA LoadedHolds ==
  ASSUME Object(sha2), Absorbed(ctx, Prefix), NEW h, NEW x, Word(x)
  PROVE  Word(Hashed(h, x)) /\ Absorbed(Loaded(h, x), Hashed(h, x))
<1>1. Word(Prefix) /\ Word(ADRSc(h))
  BY PrefixIs, ADRScIs
<1>2. Absorbed(copy(sha2, ctx), Prefix)
  BY CopyHolds
<1>3. PICK c, a : c = update(copy(sha2, ctx), ADRSc(h)) /\ a = Prefix \o ADRSc(h)
  OBVIOUS
<1>4. Word(a) /\ Absorbed(c, a)
  BY <1>1, <1>2, <1>3, UpdateHolds
<1>5. Word(a \o x) /\ Absorbed(update(c, x), a \o x)
  BY <1>4, UpdateHolds
<1> QED
  BY <1>3, <1>5 DEF Loaded, Hashed

LEMMA FIs ==
  ASSUME NEW h, NEW x, Word(x), Len(x) = N
  PROVE  F(h, x) = Take(Blocks(Padded(Hashed(h, x)), 2), N)
<1>1. Len(Padded(Hashed(h, x))) \div Blk = 2
  <2>1. PICK l : l = Blk /\ l \in Nat /\ l > 0
    BY Sha2Sizes
  <2>2. (2 * l) \div l = 2
    BY <2>1
  <2> QED
    BY <2>1, <2>2, HashedPadded
<1> QED
  BY <1>1 DEF F, SHA, Hashed

LEMMA ChainStart ==
  ASSUME Object(sha2), Absorbed(ctx, Prefix), NEW h, NEW x, Word(x), Len(x) = N
  PROVE  /\ Chained(final_pad(Loaded(h, x)))
         /\ Take(compress(final_pad(Loaded(h, x))).s, N) = F(h, x)
         /\ final_len(Loaded(h, x), N) = F(h, x)
<1>1. PICK c, a : c = Loaded(h, x) /\ a = Hashed(h, x)
  OBVIOUS
<1>2. Word(a) /\ Absorbed(c, a)
  BY <1>1, LoadedHolds
<1>3. PICK e : e = final_pad(c) /\ Object(e)
  BY <1>2, PadIs
<1>4. PICK q \in Nat : /\ Len(Padded(a)) = (q + 1) * Blk /\ e.s = Blocks(Padded(a), q)
                      /\ \A j \in 0 .. Blk - 1 : e.mp[j] = Padded(a)[(q * Blk) + j + 1]
  BY <1>2, <1>3, PadIs
<1>5. q = 1
  <2>1. PICK l : l = Blk /\ l \in Nat /\ l > 0
    BY Sha2Sizes
  <2>2. (q + 1) * l = 2 * l
    BY <1>1, <1>4, <2>1, HashedPadded
  <2>3. ((q + 1) * l) \div l = q + 1 /\ (2 * l) \div l = 2
    BY <2>1
  <2> QED
    BY <2>2, <2>3
<1>6. 1 * Blk = Blk
  BY Sha2Sizes
<1>7. e.s = Blocks(Padded(a), 1) /\ \A j \in 0 .. Blk - 1 : e.mp[j] = Padded(a)[Blk + j + 1]
  BY <1>4, <1>5, <1>6
<1>8. Chained(e)
  BY <1>1, <1>3, <1>7 DEF Chained
<1>9. Take(compress(e).s, N) = SHA(a, N) /\ final_len(c, N) = SHA(a, N)
  BY <1>2, <1>3, FinalIs, Sha2Sizes
<1>10. SHA(a, N) = F(h, x)
  BY <1>1 DEF F, Hashed
<1> QED
  BY <1>1, <1>3, <1>8, <1>9, <1>10

LEMMA ChainRoundRight ==
  ASSUME Chained(first), NEW h
  PROVE  Take(compress(ChainBlock(h)).s, N) = F(h, Take(sp.s, N))
<1>1. PICK h0, x : /\ Word(x) /\ Len(x) = N
                   /\ first.s = Blocks(Padded(Hashed(h0, x)), 1)
                   /\ \A j \in 0 .. Blk - 1 : first.mp[j] = Padded(Hashed(h0, x))[Blk + j + 1]
  BY DEF Chained
<1>2. PICK y : y = Take(sp.s, N)
  OBVIOUS
<1>3. Word(y) /\ Len(y) = N /\ \A j \in 1 .. N : y[j] = <<sp.s, j>>
  BY <1>2, TakeWord, Sha2Sizes
<1>4. PICK a0, a, p0, p : a0 = Hashed(h0, x) /\ a = Hashed(h, y) /\ p0 = Padded(a0) /\ p = Padded(a)
  OBVIOUS
<1>5. PICK l, d, n : l = Blk /\ d = HeadLen /\ n = N /\ l \in Nat /\ l > 0 /\ d \in Nat /\ n \in Nat /\ d + 1 + n < l
  BY Sha2Sizes
<1>6. /\ Word(a) /\ Word(a0) /\ Len(a) = l + (d + 1 + n) /\ Len(a0) = l + (d + 1 + n)
      /\ Len(p) = 2 * l /\ Len(p0) = 2 * l
  BY <1>1, <1>3, <1>4, <1>5, HashedIs, HashedPadded
<1>7. /\ \A j \in 1 .. l + (d + 1 + n) : p[j] = a[j] /\ p0[j] = a0[j]
      /\ \A j \in 1 .. l : a[j] = Prefix[j] /\ a0[j] = Prefix[j]
      /\ \A j \in 1 .. d : a[l + j] = Byte(5) /\ a0[l + j] = Byte(5)
      /\ a[l + (d + 1)] = Byte(h)
      /\ \A j \in 1 .. n : a[l + (d + 1 + j)] = y[j]
  <2>1. /\ \A j \in 1 .. Blk : a[j] = Prefix[j]
        /\ \A j \in 1 .. HeadLen : a[Blk + j] = Byte(5)
        /\ a[Blk + (HeadLen + 1)] = Byte(h)
        /\ \A j \in 1 .. N : a[Blk + (HeadLen + 1 + j)] = y[j]
    BY <1>3, <1>4, HashedIs, SMTT(60)
  <2>2. /\ \A j \in 1 .. Blk : a0[j] = Prefix[j]
        /\ \A j \in 1 .. HeadLen : a0[Blk + j] = Byte(5)
    BY <1>1, <1>4, HashedIs
  <2>3. \A j \in 1 .. Blk + (HeadLen + 1 + N) : p[j] = a[j]
    BY <1>3, <1>4, HashedPadded
  <2>4. \A j \in 1 .. Blk + (HeadLen + 1 + N) : p0[j] = a0[j]
    BY <1>1, <1>4, HashedPadded
  <2> QED
    BY <2>1, <2>2, <2>3, <2>4, <1>5
<1>8. PICK mp : mp = [j \in 0 .. Blk - 1 |->
                       IF j < HeadLen THEN first.mp[j]
                       ELSE IF j = HeadLen THEN Byte(h)
                       ELSE IF j <= HeadLen + N THEN <<sp.s, j - HeadLen>> ELSE first.mp[j]]
  OBVIOUS
<1>9. PICK g : /\ g = ChainBlock(h) /\ g = [s |-> first.s, mp |-> mp, i |-> first.i, len |-> first.len]
  <2>1. ChainBlock(h) = [first EXCEPT !.mp = mp]
    BY <1>8 DEF ChainBlock
  <2> QED
    BY <2>1, PutBlock DEF Chained
<1>10. Object(g) /\ g.s = first.s /\ g.mp = mp
  <2>1. mp = [j \in 0 .. Blk - 1 |-> mp[j]]
    BY <1>8
  <2> QED
    BY <1>9, <2>1 DEF Object
<1>11. \A j \in 0 .. l - 1 : mp[j] = IF j < d THEN first.mp[j]
                                     ELSE IF j = d THEN Byte(h)
                                     ELSE IF j <= d + n THEN <<sp.s, j - d>> ELSE first.mp[j]
  BY <1>5, <1>8
<1>12. \A j \in 0 .. l - 1 : first.mp[j] = p0[l + j + 1]
  BY <1>1, <1>4, <1>5
<1>13. ASSUME NEW j \in 0 .. l - 1 PROVE mp[j] = p[l + j + 1]
  <2>1. CASE j < d
    <3>1. j + 1 \in 1 .. d /\ l + (j + 1) = l + j + 1 /\ l + j + 1 \in 1 .. l + (d + 1 + n)
      BY <1>5, <2>1
    <3>2. p0[l + j + 1] = Byte(5) /\ p[l + j + 1] = Byte(5)
      BY <1>7, <3>1
    <3> QED
      BY <2>1, <3>2, <1>11, <1>12
  <2>2. CASE j = d
    <3>1. l + (d + 1) = l + j + 1 /\ l + j + 1 \in 1 .. l + (d + 1 + n) /\ ~(j < d)
      BY <1>5, <2>2
    <3>2. p[l + j + 1] = Byte(h)
      BY <1>7, <3>1
    <3> QED
      BY <2>2, <3>1, <3>2, <1>11
  <2>3. CASE d < j /\ j <= d + n
    <3>1. /\ j - d \in 1 .. n /\ l + (d + 1 + (j - d)) = l + j + 1 /\ l + j + 1 \in 1 .. l + (d + 1 + n)
          /\ ~(j < d) /\ j # d
      BY <1>5, <2>3
    <3>2. p[l + j + 1] = y[j - d]
      BY <1>7, <3>1
    <3>3. y[j - d] = <<sp.s, j - d>>
      BY <1>3, <1>5, <3>1
    <3> QED
      BY <2>3, <3>1, <3>2, <3>3, <1>11
  <2>4. CASE d + n < j
    <3>1. ~(j < d) /\ j # d /\ ~(j <= d + n)
      BY <1>5, <2>4
    <3>2. l + j + 1 \in Int /\ l + (d + 1 + n) < l + j + 1 /\ l + j + 1 <= 2 * l
      BY <1>5, <2>4
    <3>3. p0[l + j + 1] = p[l + j + 1]
      <4>1. PICK k \in Int : k = l + j + 1 /\ Len(a0) < k /\ k <= Len(p0) /\ Len(a0) = Len(a)
        BY <1>6, <3>2
      <4> QED
        BY <1>4, <1>6, <4>1, SamePadding
    <3> QED
      BY <3>1, <3>3, <1>11, <1>12
  <2> QED
    BY <1>5, <2>1, <2>2, <2>3, <2>4
<1>14. g.s = Blocks(p, 1)
  <2>1. \A j \in 1 .. 1 * Blk : j \in 1 .. l /\ j \in 1 .. l + (d + 1 + n)
    BY <1>5
  <2>2. \A j \in 1 .. 1 * Blk : p0[j] = p[j]
    BY <1>7, <2>1
  <2>3. Blocks(p0, 1) = Blocks(p, 1)
    BY <2>2, SameBlocks
  <2> QED
    BY <1>1, <1>4, <1>10, <2>3
<1>15. compress(g).s = Blocks(p, 2)
  <2>1. l \in Int /\ l = 1 * Blk /\ 1 \in Nat /\ 1 + 1 = 2
    BY <1>5
  <2>2. \A j \in 0 .. Blk - 1 : g.mp[j] = p[l + j + 1]
    BY <1>5, <1>10, <1>13
  <2>3. compress(g).s = Blocks(p, 1 + 1)
    BY <1>10, <1>14, <2>1, <2>2, FullBlock
  <2> QED
    BY <2>1, <2>3
<1>16. F(h, y) = Take(Blocks(p, 2), N)
  BY <1>3, <1>4, FIs
<1> QED
  BY <1>2, <1>9, <1>15, <1>16

-----------------------------------------------------------------------------
\* MGF1: the counter goes with the seed that is in mgf.
LEMMA Opened ==
  ASSUME NEW c, Object(c), NEW b, Word(b)
  PROVE  Absorbed(update(init(c), b), b)
<1>1. Word(<<>>) /\ Len(<<>>) = 0
  <2>1. <<>> = [j \in 1 .. 0 |-> <<>>[j]]
    OBVIOUS
  <2> QED
    BY <2>1, FnWord
<1>2. Absorbed(init(c), <<>>)
  BY InitHolds
<1>3. Absorbed(update(init(c), b), <<>> \o b)
  BY <1>1, <1>2, UpdateHolds
<1>4. <<>> \o b = b
  <2>1. /\ Word(<<>> \o b) /\ Len(<<>> \o b) = 0 + Len(b)
        /\ \A j \in 1 .. Len(b) : (<<>> \o b)[0 + j] = b[j]
    BY <1>1, Cat
  <2>2. Len(b) \in Nat
    BY WordFacts
  <2>3. Len(<<>> \o b) = Len(b) /\ \A j \in 1 .. Len(b) : (<<>> \o b)[j] = b[j]
    BY <2>1, <2>2
  <2> QED
    BY <2>1, <2>3, WordEq
<1> QED
  BY <1>3, <1>4

\* The leading octets of a sequence and a digest behind it.
LEMMA Lead ==
  ASSUME NEW a, NEW b, Word(a), Word(b), NEW n \in Nat, Len(a) <= n, n <= Len(a) + Len(b)
  PROVE  /\ SubSeq(a \o b, 1, n) = a \o SubSeq(b, 1, n - Len(a))
         /\ Word(SubSeq(a \o b, 1, n)) /\ Len(SubSeq(a \o b, 1, n)) = n
<1>1. PICK la, lb : la = Len(a) /\ lb = Len(b) /\ la \in Nat /\ lb \in Nat
  BY WordFacts
<1>2. PICK e, f, g : e = a \o b /\ f = SubSeq(e, 1, n) /\ g = SubSeq(b, 1, n - la)
  OBVIOUS
<1>3. /\ Word(e) /\ Len(e) = la + lb
      /\ \A j \in 1 .. la : e[j] = a[j]
      /\ \A j \in 1 .. lb : e[la + j] = b[j]
  BY <1>1, <1>2, Cat
<1>4. Word(f) /\ Len(f) = n /\ \A j \in 1 .. n : f[j] = e[j]
  <2>1. 1 \in Int /\ n \in Int /\ 1 <= 1 /\ 1 <= n + 1 /\ n <= Len(e)
    BY <1>1, <1>3
  <2>2. Word(f) /\ Len(f) = n - 1 + 1 /\ \A j \in 1 .. n - 1 + 1 : f[j] = e[1 + j - 1]
    BY <1>2, <1>3, <2>1, Slice
  <2>3. n - 1 + 1 = n /\ \A j \in 1 .. n : 1 + j - 1 = j
    OBVIOUS
  <2> QED
    BY <2>2, <2>3
<1>5. PICK k : k = n - la /\ k \in Nat /\ k <= lb
  BY <1>1
<1>6. Word(g) /\ Len(g) = k /\ \A j \in 1 .. k : g[j] = b[j]
  <2>1. 1 \in Int /\ k \in Int /\ 1 <= 1 /\ 1 <= k + 1 /\ k <= Len(b)
    BY <1>1, <1>5
  <2>2. Word(g) /\ Len(g) = k - 1 + 1 /\ \A j \in 1 .. k - 1 + 1 : g[j] = b[1 + j - 1]
    BY <1>2, <1>5, <2>1, Slice
  <2>3. k - 1 + 1 = k /\ \A j \in 1 .. k : 1 + j - 1 = j
    BY <1>5
  <2> QED
    BY <2>2, <2>3
<1>7. PICK h : h = a \o g
  OBVIOUS
<1>8. /\ Word(h) /\ Len(h) = la + k
      /\ \A j \in 1 .. la : h[j] = a[j]
      /\ \A j \in 1 .. k : h[la + j] = g[j]
  <2>1. Word(g)
    BY <1>6
  <2>2. /\ Word(a \o g) /\ Len(a \o g) = Len(a) + Len(g)
        /\ \A j \in 1 .. Len(a) : (a \o g)[j] = a[j]
        /\ \A j \in 1 .. Len(g) : (a \o g)[Len(a) + j] = g[j]
    BY <2>1, Cat
  <2> QED
    BY <1>1, <1>6, <1>7, <2>2
<1>9. ASSUME NEW j \in 1 .. n PROVE f[j] = h[j]
  <2>1. CASE j <= la
    <3>1. j \in 1 .. la
      BY <2>1
    <3> QED
      BY <3>1, <1>3, <1>4, <1>8
  <2>2. CASE ~(j <= la)
    <3>1. j - la \in 1 .. k /\ j - la \in 1 .. lb /\ la + (j - la) = j
      BY <1>1, <1>5, <2>2
    <3>2. f[j] = e[la + (j - la)] /\ h[j] = h[la + (j - la)]
      BY <1>4, <3>1
    <3>3. e[la + (j - la)] = b[j - la] /\ h[la + (j - la)] = g[j - la] /\ g[j - la] = b[j - la]
      BY <1>3, <1>6, <1>8, <3>1
    <3> QED
      BY <3>2, <3>3
  <2> QED
    BY <2>1, <2>2
<1>10. Len(h) = n
  BY <1>1, <1>5, <1>8
<1>11. f = h
  BY <1>4, <1>8, <1>9, <1>10, WordEq
<1> QED
  BY <1>1, <1>2, <1>4, <1>7, <1>11

\* A digest of n bytes.
LEMMA SHAWord ==
  ASSUME NEW a, NEW n \in Nat
  PROVE  Word(SHA(a, n)) /\ Len(SHA(a, n)) = n
BY TakeWord DEF SHA

-----------------------------------------------------------------------------
\* The inductive invariant: the objects hold what was put into them.
MgfInv ==
  /\ round \in Nat /\ goal \in Nat /\ out = want
  /\ round < goal => mgf = key /\ Word(key) /\ Word(want) /\ Len(want) = round

Sha2Inv ==
  /\ Object(ctx) /\ Object(sha2)
  /\ made => Absorbed(ctx, Prefix)
  /\ msg # Closed => Word(msg) /\ Absorbed(sha2, msg)
  /\ HashRight
  /\ doing \in {"call", "chain", "mgf"}
  /\ doing = "chain" => Chained(first) /\ want = Take(sp.s, N)
  /\ doing = "mgf" => MgfInv

LEMMA InitSha2 == Sha2Init => Sha2Inv
<1> SUFFICES ASSUME Sha2Init PROVE Sha2Inv
  OBVIOUS
<1>1. Object(sha2)
  <2>1. PICK mp : mp = [j \in 0 .. Blk - 1 |-> Garbage]
    OBVIOUS
  <2>2. mp = [j \in 0 .. Blk - 1 |-> mp[j]]
    BY <2>1
  <2>3. sha2 = [s |-> <<>>, mp |-> mp, i |-> 0, len |-> 0]
    BY <2>1 DEF Sha2Init
  <2> QED
    BY <2>2, <2>3 DEF Object
<1> QED
  BY <1>1 DEF Sha2Init, Sha2Inv, HashRight

\* One step of MGF1.
LEMMA MgfStep ==
  ASSUME Sha2Inv, MgfRound
  PROVE  MgfInv'
<1>1. doing = "mgf" /\ round < goal /\ MgfInv /\ Object(sha2)
  BY DEF Sha2Inv, MgfRound
<1>2. /\ round \in Nat /\ goal \in Nat /\ out = want /\ mgf = key /\ Word(key) /\ Word(want) /\ Len(want) = round
  BY <1>1 DEF MgfInv
<1>3. PICK d : d = final_len(update(init(sha2), mgf \o ToByte(round \div DigLen, 1)), DigLen)
  OBVIOUS
<1>4. d = SHA(key \o ToByte(Len(want) \div DigLen, 1), DigLen) /\ Word(d) /\ Len(d) = DigLen
  <2>1. PICK x : x = key \o ToByte(round \div DigLen, 1)
    OBVIOUS
  <2>2. Word(ToByte(round \div DigLen, 1))
    BY ToByteWord
  <2>3. Word(x)
    BY <1>2, <2>1, <2>2, Cat
  <2>4. Absorbed(update(init(sha2), x), x)
    BY <1>1, <2>3, Opened
  <2>5. DigLen \in Nat
    BY Sha2Sizes
  <2>6. final_len(update(init(sha2), x), DigLen) = SHA(x, DigLen)
    BY <2>3, <2>4, <2>5, FinalIs
  <2> QED
    BY <1>2, <1>3, <2>1, <2>5, <2>6, SHAWord
<1>5. PICK n : n = IF Len(want \o d) < goal THEN Len(want \o d) ELSE goal
  OBVIOUS
<1>6. want' = SubSeq(want \o d, 1, n) /\ round' = round + DigLen /\ goal' = goal
  BY <1>4, <1>5 DEF MgfRound, MGF1
<1>7. Len(want \o d) = round + DigLen /\ DigLen \in Nat /\ DigLen > 0
  BY <1>2, <1>4, Cat, Sha2Sizes
<1>8. n \in Nat /\ Len(want) <= n /\ n <= Len(want) + Len(d)
  BY <1>1, <1>2, <1>4, <1>5, <1>7
<1>9. want' = want \o SubSeq(d, 1, n - round) /\ Word(want') /\ Len(want') = n
  <2>1. Word(want) /\ Word(d)
    BY <1>2, <1>4
  <2>2. /\ SubSeq(want \o d, 1, n) = want \o SubSeq(d, 1, n - Len(want))
        /\ Word(SubSeq(want \o d, 1, n)) /\ Len(SubSeq(want \o d, 1, n)) = n
    BY <1>8, <2>1, Lead
  <2> QED
    BY <1>2, <1>6, <2>2
<1>10. CASE goal - round >= DigLen
  <2>1. n = round + DigLen /\ n - round = DigLen
    BY <1>2, <1>5, <1>7, <1>10
  <2>2. SubSeq(d, 1, DigLen) = d
    <3>1. 1 \in Int /\ DigLen \in Int /\ 1 <= 1 /\ 1 <= DigLen + 1 /\ DigLen <= Len(d)
      BY <1>4, <1>7
    <3>2. PICK e : e = SubSeq(d, 1, DigLen)
      OBVIOUS
    <3>3. Word(e) /\ Len(e) = DigLen - 1 + 1 /\ \A j \in 1 .. DigLen - 1 + 1 : e[j] = d[1 + j - 1]
      BY <1>4, <3>1, <3>2, Slice
    <3>4. DigLen - 1 + 1 = DigLen /\ \A j \in 1 .. DigLen : 1 + j - 1 = j
      BY <1>7
    <3>5. Len(e) = Len(d) /\ \A j \in 1 .. Len(e) : e[j] = d[j]
      BY <1>4, <3>3, <3>4
    <3> QED
      BY <1>4, <3>2, <3>3, <3>5, WordEq
  <2>3. out' = out \o d /\ mgf' = mgf /\ key' = key
    BY <1>3, <1>10 DEF MgfRound
  <2>4. out' = want'
    BY <1>2, <1>9, <2>1, <2>2, <2>3
  <2>5. Len(want') = round'
    BY <1>6, <1>9, <2>1
  <2>6. round' \in Nat /\ goal' \in Nat
    BY <1>2, <1>6, <1>7
  <2> QED
    BY <1>2, <1>9, <2>3, <2>4, <2>5, <2>6 DEF MgfInv
<1>11. CASE ~(goal - round >= DigLen)
  <2>1. n = goal
    BY <1>2, <1>5, <1>7, <1>11
  <2>2. out' = out \o SubSeq(d, 1, goal - round)
    BY <1>3, <1>11 DEF MgfRound
  <2>3. out' = want'
    BY <1>2, <1>9, <2>1, <2>2
  <2>4. ~(round' < goal') /\ round' \in Nat /\ goal' \in Nat
    BY <1>2, <1>6, <1>7, <1>11
  <2> QED
    BY <2>3, <2>4 DEF MgfInv
<1> QED
  BY <1>10, <1>11

LEMMA ChunkWord ==
  ASSUME NEW a \in Chunk \cup {<<>>, Bytes(6, N), Bytes(7, N), Bytes(8, N)}
  PROVE  Word(a)
<1>1. Word(<<>>)
  <2>1. <<>> = [j \in 1 .. 0 |-> <<>>[j]]
    OBVIOUS
  <2> QED
    BY <2>1, FnWord
<1>2. Word(Bytes(6, N)) /\ Word(Bytes(7, N)) /\ Word(Bytes(8, N))
  BY BytesWord, Sha2Sizes
<1> QED
  BY <1>1, <1>2, Sha2Assumption

\* What the functions of slh_sha2.c that have no loop return.
LEMMA KeyedRight ==
  ASSUME Object(sha2), Absorbed(ctx, Prefix), NEW h, NEW a, NEW b, Word(a), Word(b)
  PROVE  final_len(update(update(update(copy(sha2, ctx), ADRSc(h)), a), b), N)
           = SHA(((Prefix \o ADRSc(h)) \o a) \o b, N)
<1>1. PICK c : c = Loaded(h, a)
  OBVIOUS
<1>2. Word(Hashed(h, a)) /\ Absorbed(c, Hashed(h, a))
  BY <1>1, LoadedHolds
<1>3. Word(Hashed(h, a) \o b) /\ Absorbed(update(c, b), Hashed(h, a) \o b)
  BY <1>2, UpdateHolds
<1>4. final_len(update(c, b), N) = SHA(Hashed(h, a) \o b, N)
  BY <1>3, FinalIs, Sha2Sizes
<1> QED
  BY <1>1, <1>4 DEF Loaded, Hashed

LEMMA TwoInputs ==
  ASSUME Object(sha2), NEW a, NEW b, Word(a), Word(b), NEW n \in Nat
  PROVE  final_len(update(update(init(sha2), a), b), n) = SHA(a \o b, n)
<1>1. Absorbed(update(init(sha2), a), a)
  BY Opened
<1>2. Word(a \o b) /\ Absorbed(update(update(init(sha2), a), b), a \o b)
  BY <1>1, UpdateHolds
<1> QED
  BY <1>2, FinalIs

LEMMA ThreeInputs ==
  ASSUME Object(sha2), NEW a, NEW b, NEW e, Word(a), Word(b), Word(e), NEW n \in Nat
  PROVE  final_len(update(update(update(init(sha2), a), b), e), n) = SHA((a \o b) \o e, n)
<1>1. Absorbed(update(init(sha2), a), a)
  BY Opened
<1>2. PICK c, f : c = update(update(init(sha2), a), b) /\ f = a \o b
  OBVIOUS
<1>3. Word(f) /\ Absorbed(c, f)
  BY <1>1, <1>2, UpdateHolds
<1>4. Word(f \o e) /\ Absorbed(update(c, e), f \o e)
  BY <1>3, UpdateHolds
<1> QED
  BY <1>2, <1>4, FinalIs

LEMMA FourInputs ==
  ASSUME Object(sha2), NEW a, NEW b, NEW e, NEW f, Word(a), Word(b), Word(e), Word(f), NEW n \in Nat
  PROVE  final_len(update(update(update(update(init(sha2), a), b), e), f), n) = SHA(((a \o b) \o e) \o f, n)
<1>1. Absorbed(update(init(sha2), a), a)
  BY Opened
<1>2. PICK c, x : c = update(update(init(sha2), a), b) /\ x = a \o b
  OBVIOUS
<1>3. Word(x) /\ Absorbed(c, x)
  BY <1>1, <1>2, UpdateHolds
<1>4. PICK d, y : d = update(c, e) /\ y = x \o e
  OBVIOUS
<1>5. Word(y) /\ Absorbed(d, y)
  BY <1>3, <1>4, UpdateHolds
<1>6. Word(y \o f) /\ Absorbed(update(d, f), y \o f)
  BY <1>5, UpdateHolds
<1> QED
  BY <1>2, <1>4, <1>6, FinalIs

LEMMA MkCtxHolds ==
  ASSUME Object(ctx)
  PROVE  Absorbed(update(update(init(ctx), PkSeed), Bytes(0, Blk - N)), Prefix)
<1>1. Word(PkSeed) /\ Word(Bytes(0, Blk - N))
  <2>1. N \in Nat /\ Blk - N \in Nat
    BY Sha2Sizes
  <2> QED
    BY <2>1, BytesWord DEF PkSeed
<1>2. Absorbed(update(init(ctx), PkSeed), PkSeed)
  BY <1>1, Opened
<1> QED
  BY <1>1, <1>2, UpdateHolds DEF Prefix

LEMMA PadWord ==
  ASSUME NEW k, NEW pad
  PROVE  Word(Pad(k, pad))
<1>1. Pad(k, pad) = [j \in 1 .. Blk |-> Pad(k, pad)[j]]
  BY DEF Pad
<1> QED
  BY <1>1, FnWord, Sha2Sizes

LEMMA PrfRight ==
  ASSUME Object(sha2), NEW k, NEW a, NEW b, Word(a), Word(b)
  PROVE  final_len(update(update(init(sha2), Pad(k, 92)),
                          final_len(update(update(update(init(sha2), Pad(k, 54)), a), b), DigLen)), N)
           = SHA(Pad(k, 92) \o SHA((Pad(k, 54) \o a) \o b, DigLen), N)
<1>1. N \in Nat /\ DigLen \in Nat
  BY Sha2Sizes
<1>2. PICK x, y : x = Pad(k, 54) /\ y = Pad(k, 92)
  OBVIOUS
<1>3. Word(x) /\ Word(y)
  BY <1>2, PadWord
<1>4. PICK d : d = final_len(update(update(update(init(sha2), x), a), b), DigLen)
  OBVIOUS
<1>5. d = SHA((x \o a) \o b, DigLen)
  BY <1>1, <1>3, <1>4, ThreeInputs
<1>6. Word(d)
  BY <1>1, <1>5, SHAWord
<1>7. final_len(update(update(init(sha2), y), d), N) = SHA(y \o d, N)
  BY <1>1, <1>3, <1>6, TwoInputs
<1> QED
  BY <1>2, <1>4, <1>5, <1>7

\* A call that ends: the loops' variables do not matter.
LEMMA CallEnds ==
  ASSUME Object(ctx'), Object(sha2'), made' => Absorbed(ctx', Prefix), doing' = "call", out' = want',
         msg' # Closed => Word(msg') /\ Absorbed(sha2', msg')
  PROVE  Sha2Inv'
BY DEF Sha2Inv, HashRight

LEMMA ObjectCalls ==
  ASSUME Sha2Inv, NoLoop,
         \/ InitObject \/ Copy \/ MkCtx
         \/ \E a \in Chunk : Update(a)
         \/ \E n \in {N, DigLen} : Final(n)
  PROVE  Sha2Inv'
<1>1. /\ Object(ctx) /\ Object(sha2) /\ (made => Absorbed(ctx, Prefix)) /\ doing' = "call" /\ doing = "call"
      /\ (msg # Closed => Word(msg) /\ Absorbed(sha2, msg)) /\ out = want
  BY DEF Sha2Inv, NoLoop, HashRight
<1>2. CASE InitObject
  <2>1. Absorbed(sha2', msg') /\ Word(msg')
    <3>1. Word(<<>>)
      BY ChunkWord
    <3> QED
      BY <1>1, <1>2, <3>1, InitHolds DEF InitObject
  <2>2. Object(sha2')
    BY <2>1 DEF Absorbed
  <2> QED
    BY <1>1, <1>2, <2>1, <2>2, CallEnds DEF InitObject
<1>3. CASE Copy
  <2>1. Absorbed(sha2', msg') /\ Word(msg')
    BY <1>1, <1>3, CopyHolds, PrefixIs DEF Copy
  <2>2. Object(sha2')
    BY <2>1 DEF Absorbed
  <2> QED
    BY <1>1, <1>3, <2>1, <2>2, CallEnds DEF Copy
<1>4. CASE MkCtx
  <2>1. Absorbed(ctx', Prefix)
    BY <1>1, <1>4, MkCtxHolds DEF MkCtx
  <2>2. Object(ctx')
    BY <2>1 DEF Absorbed
  <2> QED
    BY <1>1, <1>4, <2>1, <2>2, CallEnds DEF MkCtx
<1>5. ASSUME NEW a \in Chunk, Update(a) PROVE Sha2Inv'
  <2>0. Word(msg) /\ Absorbed(sha2, msg) /\ Word(a)
    BY <1>1, <1>5, ChunkWord DEF Update
  <2>1. Absorbed(sha2', msg') /\ Word(msg')
    BY <1>5, <2>0, UpdateHolds DEF Update
  <2>2. Object(sha2')
    BY <2>1 DEF Absorbed
  <2> QED
    BY <1>1, <1>5, <2>1, <2>2, CallEnds DEF Update
<1>6. ASSUME NEW n \in {N, DigLen}, Final(n) PROVE Sha2Inv'
  <2>1. Word(msg) /\ Absorbed(sha2, msg) /\ n \in Nat
    BY <1>1, <1>6, Sha2Sizes DEF Final
  <2>2. Object(sha2') /\ out' = want'
    BY <1>6, <2>1, FinalIs DEF Final
  <2> QED
    BY <1>1, <1>6, <2>2, CallEnds DEF Final
<1> QED
  BY <1>2, <1>3, <1>4, <1>5, <1>6

LEMMA OneCall ==
  ASSUME Sha2Inv, NoLoop,
         \/ \E h \in {0, MaxChain}, a \in Chunk, b \in {<<>>, Bytes(7, N)} : Keyed(h, a, b)
         \/ \E h, k \in 0 .. MaxChain : ShortChain(Bytes(6, N), h, k)
         \/ \E a \in Chunk : PrfMsg(Bytes(8, N), Bytes(7, N), a)
  PROVE  Sha2Inv'
<1>1. /\ Object(ctx) /\ Object(sha2) /\ (made => Absorbed(ctx, Prefix)) /\ doing' = "call"
      /\ (msg # Closed => Word(msg) /\ Absorbed(sha2, msg))
  BY DEF Sha2Inv, NoLoop
<1>2. ASSUME ctx' = ctx, sha2' = sha2, made' = made, msg' = msg, out' = want' PROVE Sha2Inv'
  BY <1>1, <1>2, CallEnds
<1>3. ASSUME NEW h \in {0, MaxChain}, NEW a \in Chunk, NEW b \in {<<>>, Bytes(7, N)}, Keyed(h, a, b)
      PROVE  Sha2Inv'
  <2>1. Word(a) /\ Word(b) /\ Absorbed(ctx, Prefix)
    BY <1>1, <1>3, ChunkWord DEF Keyed
  <2>2. out' = want'
    BY <1>1, <1>3, <2>1, KeyedRight DEF Keyed, Return
  <2> QED
    BY <1>2, <1>3, <2>2 DEF Keyed, Return
<1>4. ASSUME NEW h \in 0 .. MaxChain, NEW k \in 0 .. MaxChain, ShortChain(Bytes(6, N), h, k)
      PROVE  Sha2Inv'
  <2>1. Word(Bytes(6, N)) /\ Len(Bytes(6, N)) = N /\ Absorbed(ctx, Prefix)
    BY <1>1, <1>4, BytesWord, Sha2Sizes DEF ShortChain
  <2>2. final_len(Loaded(h, Bytes(6, N)), N) = F(h, Bytes(6, N))
    BY <1>1, <2>1, ChainStart
  <2>3. out' = want'
    <3>1. PICK x, y, z : x = Bytes(6, N) /\ y = final_len(Loaded(h, x), N) /\ z = F(h, x)
      OBVIOUS
    <3>2. (out' = x /\ want' = x) \/ (out' = y /\ want' = z)
      BY <1>4, <3>1 DEF ShortChain, Return
    <3>3. y = z
      BY <2>2, <3>1
    <3> QED
      BY <3>2, <3>3
  <2> QED
    BY <1>2, <1>4, <2>3 DEF ShortChain, Return
<1>5. ASSUME NEW a \in Chunk, PrfMsg(Bytes(8, N), Bytes(7, N), a) PROVE Sha2Inv'
  <2>1. Word(a) /\ Word(Bytes(7, N))
    BY ChunkWord
  <2>2. out' = want'
    <3>1. PICK k, b, x, y :
            /\ k = Bytes(8, N) /\ b = Bytes(7, N)
            /\ x = final_len(update(update(init(sha2), Pad(k, 92)),
                                  final_len(update(update(update(init(sha2), Pad(k, 54)), b), a), DigLen)), N)
            /\ y = SHA(Pad(k, 92) \o SHA((Pad(k, 54) \o b) \o a, DigLen), N)
      OBVIOUS
    <3>2. x = y
      BY <1>1, <2>1, <3>1, PrfRight
    <3>3. out' = x /\ want' = y
      BY <1>5, <3>1 DEF PrfMsg, Return
    <3> QED
      BY <3>2, <3>3
  <2> QED
    BY <1>2, <1>5, <2>2 DEF PrfMsg, Return
<1> QED
  BY <1>3, <1>4, <1>5

LEMMA LoopSteps ==
  ASSUME Sha2Inv,
         \/ \E h, k \in 0 .. MaxChain : ChainCall(Bytes(6, N), h, k)
         \/ ChainRound \/ ChainReturn
         \/ \E a \in Chunk, n \in Hmsgs : HMsgCall(Bytes(7, N), a, n)
         \/ MgfRound \/ MgfReturn
  PROVE  Sha2Inv'
<1>1. /\ Object(ctx) /\ Object(sha2) /\ (made => Absorbed(ctx, Prefix))
      /\ (msg # Closed => Word(msg) /\ Absorbed(sha2, msg))
  BY DEF Sha2Inv
<1>2. ASSUME NEW h \in 0 .. MaxChain, NEW k \in 0 .. MaxChain, ChainCall(Bytes(6, N), h, k)
      PROVE  Sha2Inv'
  <2>1. Word(Bytes(6, N)) /\ Len(Bytes(6, N)) = N /\ Absorbed(ctx, Prefix)
    BY <1>1, <1>2, BytesWord, Sha2Sizes DEF ChainCall
  <2>2. PICK c, x : c = final_pad(Loaded(h, x)) /\ x = Bytes(6, N)
    OBVIOUS
  <2>3. Chained(c) /\ Take(compress(c).s, N) = F(h, x)
    BY <1>1, <2>1, <2>2, ChainStart
  <2>4. first' = c /\ sp' = compress(c) /\ want' = F(h, x) /\ doing' = "chain"
    BY <1>2, <2>2 DEF ChainCall
  <2>5. Chained(first') /\ want' = Take(sp'.s, N)
    BY <2>3, <2>4
  <2>6. (Chained(first) /\ want = Take(sp.s, N))'
    BY <2>5 DEF Chained
  <2>7. ctx' = ctx /\ sha2' = sha2 /\ made' = made /\ msg' = msg
    BY <1>2 DEF ChainCall
  <2> QED
    BY <1>1, <2>4, <2>6, <2>7 DEF Sha2Inv, HashRight
<1>3. CASE ChainRound
  <2>1. Chained(first) /\ want = Take(sp.s, N)
    BY <1>3 DEF Sha2Inv, ChainRound
  <2>2. Take(compress(ChainBlock(round)).s, N) = F(round, want)
    BY <2>1, ChainRoundRight
  <2>3. want' = Take(sp'.s, N) /\ first' = first /\ doing' = "chain"
    BY <1>3, <2>2 DEF ChainRound
  <2>4. Chained(first)'
    BY <2>1, <2>3
  <2>5. ctx' = ctx /\ sha2' = sha2 /\ made' = made /\ msg' = msg
    BY <1>3 DEF ChainRound
  <2> QED
    BY <1>1, <2>3, <2>4, <2>5 DEF Sha2Inv, HashRight
<1>4. CASE ChainReturn
  <2>1. out' = want' /\ doing' = "call"
    BY <1>4 DEF Sha2Inv, ChainReturn, LoopEnds
  <2>2. ctx' = ctx /\ sha2' = sha2 /\ made' = made /\ msg' = msg
    BY <1>4 DEF ChainReturn
  <2> QED
    BY <1>1, <2>1, <2>2, CallEnds
<1>5. ASSUME NEW a \in Chunk, NEW n \in Hmsgs, HMsgCall(Bytes(7, N), a, n) PROVE Sha2Inv'
  <2>1. PICK r : r = Bytes(7, N)
    OBVIOUS
  <2>2. Word(r) /\ Word(a) /\ Word(PkSeed) /\ Word(PkRoot)
    BY <2>1, ChunkWord, BytesWord, Sha2Sizes DEF PkSeed, PkRoot
  <2>3. PICK d : d = final_len(update(update(update(update(init(sha2), r), PkSeed), PkRoot), a), DigLen)
    OBVIOUS
  <2>4. d = SHA(((r \o PkSeed) \o PkRoot) \o a, DigLen) /\ Word(d)
    <3>1. d = SHA(((r \o PkSeed) \o PkRoot) \o a, DigLen)
      BY <1>1, <2>2, <2>3, FourInputs, Sha2Sizes
    <3> QED
      BY <3>1, SHAWord, Sha2Sizes
  <2>5. mgf' = (r \o PkSeed) \o d /\ key' = mgf' /\ Word(key')
    <3>1. mgf' = (r \o PkSeed) \o d /\ key' = (r \o PkSeed) \o SHA(((r \o PkSeed) \o PkRoot) \o a, DigLen)
      BY <1>5, <2>1, <2>3 DEF HMsgCall
    <3>2. Word((r \o PkSeed) \o d)
      <4>1. Word(r \o PkSeed)
        BY <2>2, Cat
      <4> QED
        BY <2>4, <4>1, Cat
    <3> QED
      BY <2>4, <3>1, <3>2
  <2>6. round' = 0 /\ goal' \in Nat /\ out' = <<>> /\ want' = <<>> /\ doing' = "mgf"
    BY <1>5, Sha2Sizes DEF HMsgCall
  <2>7. Word(want') /\ Len(want') = round'
    BY <2>6, ChunkWord
  <2>8. MgfInv'
    BY <2>5, <2>6, <2>7 DEF MgfInv
  <2>9. ctx' = ctx /\ sha2' = sha2 /\ made' = made /\ msg' = msg
    BY <1>5 DEF HMsgCall
  <2> QED
    BY <1>1, <2>6, <2>8, <2>9 DEF Sha2Inv, HashRight
<1>6. CASE MgfRound
  <2>1. MgfInv'
    BY <1>6, MgfStep
  <2>2. doing' = "mgf" /\ ctx' = ctx /\ sha2' = sha2 /\ made' = made /\ msg' = msg
    BY <1>6 DEF MgfRound
  <2> QED
    BY <1>1, <2>1, <2>2 DEF Sha2Inv, HashRight
<1>7. CASE MgfReturn
  <2>1. out' = want' /\ doing' = "call" /\ ctx' = ctx /\ sha2' = sha2 /\ made' = made /\ msg' = msg
    BY <1>7 DEF Sha2Inv, MgfInv, MgfReturn, LoopEnds
  <2> QED
    BY <1>1, <2>1, CallEnds
<1> QED
  BY <1>2, <1>3, <1>4, <1>5, <1>6, <1>7

LEMMA StepSha2 == Sha2Inv /\ [Sha2Next]_Sha2Vars => Sha2Inv'
<1> SUFFICES ASSUME Sha2Inv, [Sha2Next]_Sha2Vars PROVE Sha2Inv'
  OBVIOUS
<1>1. CASE UNCHANGED Sha2Vars
  <2>1. /\ ctx' = ctx /\ sha2' = sha2 /\ made' = made /\ msg' = msg /\ out' = out /\ want' = want /\ doing' = doing
        /\ round' = round /\ goal' = goal /\ first' = first /\ sp' = sp /\ mgf' = mgf /\ key' = key
    BY <1>1 DEF Sha2Vars, Locals
  <2> QED
    BY <2>1 DEF Sha2Inv, HashRight, MgfInv
<1>2. CASE Sha2Next
  <2>1. ASSUME \/ InitObject \/ Copy \/ MkCtx
               \/ \E a \in Chunk : Update(a)
               \/ \E n \in {N, DigLen} : Final(n)
        PROVE  Sha2Inv'
    <3>1. NoLoop
      BY <2>1 DEF InitObject, Copy, MkCtx, Update, Final
    <3> QED
      BY <2>1, <3>1, ObjectCalls
  <2>2. ASSUME \/ \E h \in {0, MaxChain}, a \in Chunk, b \in {<<>>, Bytes(7, N)} : Keyed(h, a, b)
               \/ \E h, k \in 0 .. MaxChain : ShortChain(Bytes(6, N), h, k)
               \/ \E a \in Chunk : PrfMsg(Bytes(8, N), Bytes(7, N), a)
        PROVE  Sha2Inv'
    <3>1. NoLoop
      BY <2>2 DEF Keyed, ShortChain, PrfMsg
    <3> QED
      BY <2>2, <3>1, OneCall
  <2> QED
    BY <1>2, <2>1, <2>2, LoopSteps DEF Sha2Next
<1> QED
  BY <1>1, <1>2

\* Every object that may be used holds what was put into it, and the loops of
\* the chain and of MGF1 are where FIPS 205 has them.
THEOREM Sha2Invariant == Sha2Spec => []Sha2Inv
BY InitSha2, StepSha2, PTL DEF Sha2Spec

\* Each digest is that of FIPS 180-4 for the bytes put in, however they were
\* cut into calls, and each function of slh_sha2.c returns what FIPS 205 says.
THEOREM DigestsRight == Sha2Spec => []HashRight
<1>1. Sha2Inv => HashRight
  BY DEF Sha2Inv
<1> QED
  BY <1>1, Sha2Invariant, PTL
=============================================================================
