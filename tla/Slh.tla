-------------------------------- MODULE Slh ---------------------------------
(***************************************************************************)
(* slh_dsa.c: slh_keygen, slh_sign and slh_verify, as the loops that they  *)
(* are, over the ADRS that all functions share and change.                 *)
(*                                                                         *)
(* A digest is what h_msg and split_digest make of a message: the leaves   *)
(* of the FORS trees, i_tree and i_leaf.  Which digits base_16 finds in a  *)
(* hash value is dealt out when they are first asked for, different ones   *)
(* for different values.                                                   *)
(***************************************************************************)
EXTENDS SlhHash, FiniteSets

CONSTANTS
  HP,        \* prm->hp, height of a tree
  D,         \* prm->d, layers of trees
  Digests,   \* of the messages
  Deals,     \* sequences of digits that hash values may have
  MaxCalls   \* bound on the calls of slh_sign and slh_verify

ASSUME SizesAssumption ==
  /\ HP \in Nat \ {0} /\ D \in Nat \ {0} /\ MaxCalls \in Nat
  /\ Digests # {}
  /\ Digests \subseteq [md : [0 .. K - 1 -> 0 .. 2 ^ A - 1],
                        tree : 0 .. 2 ^ (HP * (D - 1)) - 1, leaf : 0 .. 2 ^ HP - 1]
  /\ \A deal \in Deals : /\ deal \in Seq([1 .. Len1 -> 0 .. W - 1])
                         /\ Len(deal) >= D * MaxCalls    \* a call asks once in a layer
                         /\ \A x, y \in DOMAIN deal : x # y => deal[x] # deal[y]

VARIABLES
  op, pc,
  adrs,
  root,            \* pk_root
  dg,              \* the digest of the call
  tree, leaf,      \* i_tree, i_leaf
  layer,           \* j of ht_sign, ht_verify
  i,               \* the FORS tree
  t,               \* the height in a FORS or XMSS tree
  nd,              \* locals of xmss_node, fors_node: h[0] is node, h[s + 1] is h[s]
  roots,           \* of the FORS trees
  m,               \* the value signed by the layer
  sig,
  digits, deal,    \* the digits dealt out, and the others
  ok,
  signed,          \* history: the digest that was signed, and whether sig is still the signature
  keys,            \* history: which WOTS+ key signed which value
  calls

vars == <<op, pc, adrs, root, dg, tree, leaf, layer, i, t, nd, roots, m, sig,
          digits, deal, ok, signed, keys, calls>>

Shift(x, n) == x \div 2 ^ n
Sibling(x)  == IF x % 2 = 0 THEN x + 1 ELSE x - 1

\* Nothing is on the stack: the call node(x, z).
Node(x, z) == [i |-> x * 2 ^ z, z |-> z, j |-> 0, k |-> 0, p |-> -1, h |-> nd.h]

Deepest == IF A > HP THEN A ELSE HP

NoSig == [fors |-> [x \in 0 .. K - 1 |-> [s \in 0 .. A |-> Odd]],
          wots |-> [l \in 0 .. D - 1 |-> [c \in 1 .. Len12 |-> Odd]],
          auth |-> [l \in 0 .. D - 1 |-> [s \in 0 .. HP - 1 |-> Odd]]]

-----------------------------------------------------------------------------
Init ==
  /\ op = "none" /\ pc = "start"
  /\ adrs = ZeroAdrs
  /\ root = Odd
  /\ dg = (CHOOSE d \in Digests : TRUE) /\ tree = 0 /\ leaf = 0 /\ layer = 0 /\ i = 0 /\ t = 0
  /\ nd = [i |-> 0, z |-> 0, j |-> 0, k |-> 0, p |-> -1, h |-> [s \in 0 .. Deepest |-> Odd]]
  /\ roots = <<>>
  /\ m = Odd
  /\ sig = NoSig
  /\ digits = <<>> /\ deal \in Deals
  /\ ok = FALSE
  /\ signed = [dg |-> dg, intact |-> FALSE]
  /\ keys = {}
  /\ calls = 0

\* slh_keygen up to the call of xmss_node.
Keygen ==
  /\ pc = "start"
  /\ op' = "keygen"
  /\ adrs' = [ZeroAdrs EXCEPT !.layer = D - 1]
  /\ layer' = D - 1
  /\ nd' = Node(0, HP)
  /\ pc' = "xleaf"
  /\ UNCHANGED <<root, dg, tree, leaf, i, t, roots, m, sig, digits, deal, ok, signed, keys, calls>>

KeygenReturn ==
  /\ pc = "xdone" /\ op = "keygen"
  /\ root' = nd.h[0]
  /\ pc' = "ready"
  /\ UNCHANGED <<op, adrs, dg, tree, leaf, layer, i, t, nd, roots, m, sig, digits, deal, ok, signed, keys, calls>>

-----------------------------------------------------------------------------
\* nd with v as the value that h0 points to, slot s.
Put(s, v) == [nd EXCEPT !.h[s] = v]

\* The bit of j that decides whether two nodes are merged.
OddRound == Shift(nd.j, nd.k) % 2 = 1

\* xmss_node: the public key of the WOTS+ key pair i.
XmssLeaf ==
  /\ pc = "xleaf"
  /\ LET a  == [adrs EXCEPT !.kp = nd.i]
         pk == SetTypeAndClearNotKp(a, "WOTS_PK")
         tmp == [c \in 1 .. Len12 |-> WotsChain([a EXCEPT !.w6 = c - 1], W - 1)]
     IN  /\ adrs' = pk
         /\ nd' = [Put(nd.p + 1, Hash(pk, tmp)) EXCEPT !.p = @ + 1, !.k = 0]
  /\ pc' = "xmerge"
  /\ UNCHANGED <<op, root, dg, tree, leaf, layer, i, t, roots, m, sig, digits, deal, ok, signed, keys, calls>>

\* Mutant: h0 is one node too high.
XmssMergeHigh ==
  /\ pc = "xmerge" /\ OddRound
  /\ LET a == [SetTypeAndClear(adrs, "TREE") EXCEPT !.w6 = nd.k + 1, !.w7 = Shift(nd.i, nd.k + 1)]
         s == IF nd.p - 1 > 1 THEN nd.p - 1 ELSE 0
     IN  /\ adrs' = a
         /\ nd' = [Put(s, Hash(a, <<nd.h[s], nd.h[nd.p]>>)) EXCEPT !.p = @ - 1, !.k = @ + 1]
  /\ UNCHANGED <<op, pc, root, dg, tree, leaf, layer, i, t, roots, m, sig, digits, deal, ok, signed, keys, calls>>

XmssMerge ==
  /\ pc = "xmerge" /\ OddRound
  /\ LET a == [SetTypeAndClear(adrs, "TREE") EXCEPT !.w6 = nd.k + 1, !.w7 = Shift(nd.i, nd.k + 1)]
         s == nd.p - 1
     IN  /\ adrs' = a
         /\ nd' = [Put(s, Hash(a, <<nd.h[s], nd.h[nd.p]>>)) EXCEPT !.p = s, !.k = @ + 1]
  /\ UNCHANGED <<op, pc, root, dg, tree, leaf, layer, i, t, roots, m, sig, digits, deal, ok, signed, keys, calls>>

\* fors_node: the hashed secret value i.
ForsLeaf ==
  /\ pc = "fleaf"
  /\ LET a == [adrs EXCEPT !.w7 = nd.i]
     IN  /\ adrs' = ForsLeafAdrs(a)
         /\ nd' = [Put(nd.p + 1, ForsHashed(a)) EXCEPT !.p = @ + 1, !.k = 0]
  /\ pc' = "fmerge"
  /\ UNCHANGED <<op, root, dg, tree, leaf, layer, i, t, roots, m, sig, digits, deal, ok, signed, keys, calls>>

ForsMerge ==
  /\ pc = "fmerge" /\ OddRound
  /\ LET a == [adrs EXCEPT !.w6 = nd.k + 1, !.w7 = Shift(nd.i, nd.k + 1)]
         s == nd.p - 1
     IN  /\ adrs' = a
         /\ nd' = [Put(s, Hash(a, <<nd.h[s], nd.h[nd.p]>>)) EXCEPT !.p = s, !.k = @ + 1]
  /\ UNCHANGED <<op, pc, root, dg, tree, leaf, layer, i, t, roots, m, sig, digits, deal, ok, signed, keys, calls>>

\* Of both: the next leaf, or the return.
NodeNext ==
  /\ pc \in {"xmerge", "fmerge"} /\ ~OddRound
  /\ nd' = [nd EXCEPT !.i = @ + 1, !.j = @ + 1]
  /\ pc' = IF nd.j + 1 < 2 ^ nd.z
           THEN (IF pc = "xmerge" THEN "xleaf" ELSE "fleaf")
           ELSE (IF pc = "xmerge" THEN "xdone" ELSE "fdone")
  /\ UNCHANGED <<op, adrs, root, dg, tree, leaf, layer, i, t, roots, m, sig, digits, deal, ok, signed, keys, calls>>

-----------------------------------------------------------------------------
\* slh_do_sign and slh_verify prepare the ADRS in the same way.
ForsAdrs(d) ==
  [SetTypeAndClearNotKp([ZeroAdrs EXCEPT !.tree = d.tree], "FORS_TREE") EXCEPT !.kp = d.leaf]

Call(o, d) ==
  /\ pc = "ready"
  /\ calls < MaxCalls
  /\ op' = o /\ dg' = d
  /\ tree' = d.tree /\ leaf' = d.leaf
  /\ adrs' = ForsAdrs(d)
  /\ i' = 0 /\ roots' = <<>>
  /\ calls' = calls + 1
  /\ UNCHANGED <<root, layer, t, nd, m, sig, digits, deal, ok, keys>>

Sign(d) ==
  /\ Call("sign", d)
  /\ signed' = [dg |-> d, intact |-> TRUE]
  /\ pc' = "forssk"

\* Of what the application has as a signature.
Verify(d) ==
  /\ sig # NoSig
  /\ Call("verify", d)
  /\ pc' = "forspk"
  /\ UNCHANGED signed

\* As in kat_test.c, the signature changes somewhere.
Damage ==
  /\ pc = "ready"
  /\ signed.intact
  /\ \/ \E x \in 0 .. K - 1, s \in 0 .. A : sig' = [sig EXCEPT !.fors[x][s] = Odd]
     \/ \E l \in 0 .. D - 1, c \in 1 .. Len12 : sig' = [sig EXCEPT !.wots[l][c] = Odd]
     \/ \E l \in 0 .. D - 1, s \in 0 .. HP - 1 : sig' = [sig EXCEPT !.auth[l][s] = Odd]
  /\ signed' = [signed EXCEPT !.intact = FALSE]
  /\ op' = "none"
  /\ UNCHANGED <<pc, adrs, root, dg, tree, leaf, layer, i, t, nd, roots, m, digits, deal, ok, keys, calls>>

-----------------------------------------------------------------------------
Index == i * 2 ^ A + dg.md[i]      \* the leaf of FORS tree i, in all trees

\* fors_sign: the secret value of a tree.
ForsSk ==
  /\ pc = "forssk" /\ i < K
  /\ LET a == [adrs EXCEPT !.w7 = Index]
     IN  /\ adrs' = ForsPrfAdrs(a)
         /\ sig' = [sig EXCEPT !.fors[i][0] = ForsSecret(a)]
  /\ t' = 0
  /\ pc' = "forsauth"
  /\ UNCHANGED <<op, root, dg, tree, leaf, layer, i, nd, roots, m, digits, deal, ok, signed, keys, calls>>

ForsAuthCall ==
  /\ pc = "forsauth" /\ t < A
  /\ nd' = Node(i * 2 ^ (A - t) + Sibling(Shift(dg.md[i], t)), t)
  /\ pc' = "fleaf"
  /\ UNCHANGED <<op, adrs, root, dg, tree, leaf, layer, i, t, roots, m, sig, digits, deal, ok, signed, keys, calls>>

ForsAuthNode ==
  /\ pc = "fdone"
  /\ sig' = [sig EXCEPT !.fors[i][t + 1] = nd.h[0]]
  /\ t' = t + 1
  /\ pc' = "forsauth"
  /\ UNCHANGED <<op, adrs, root, dg, tree, leaf, layer, i, nd, roots, m, digits, deal, ok, signed, keys, calls>>

ForsSigned ==
  /\ pc = "forsauth" /\ t = A
  /\ IF i + 1 < K THEN i' = i + 1 /\ pc' = "forssk" ELSE i' = 0 /\ pc' = "forspk"
  /\ UNCHANGED <<op, adrs, root, dg, tree, leaf, layer, t, nd, roots, m, sig, digits, deal, ok, signed, keys, calls>>

\* fors_pk_from_sig: from the secret value up to the root.
ForsPkLeaf ==
  /\ pc = "forspk" /\ i < K
  /\ adrs' = [adrs EXCEPT !.w6 = 0, !.w7 = Index]
  /\ roots' = Append(roots, Hash(adrs', <<sig.fors[i][0]>>))
  /\ t' = 0
  /\ pc' = "forsclimb"
  /\ UNCHANGED <<op, root, dg, tree, leaf, layer, i, nd, m, sig, digits, deal, ok, signed, keys, calls>>

\* A node and its sibling in the order of the bit of x.
Pair(x, node, sibling) == IF x % 2 = 0 THEN <<node, sibling>> ELSE <<sibling, node>>

ForsClimb ==
  /\ pc = "forsclimb" /\ t < A
  /\ adrs' = [adrs EXCEPT !.w6 = t + 1, !.w7 = Shift(Index, t + 1)]
  /\ roots' = [roots EXCEPT ![i + 1] =
                 Hash(adrs', Pair(Shift(dg.md[i], t), @, sig.fors[i][t + 1]))]
  /\ t' = t + 1
  /\ UNCHANGED <<op, pc, root, dg, tree, leaf, layer, i, nd, m, sig, digits, deal, ok, signed, keys, calls>>

ForsNextTree ==
  /\ pc = "forsclimb" /\ t = A
  /\ i' = i + 1
  /\ pc' = "forspk"
  /\ UNCHANGED <<op, adrs, root, dg, tree, leaf, layer, t, nd, roots, m, sig, digits, deal, ok, signed, keys, calls>>

\* Then ht_sign or ht_verify begins.
ForsRoots ==
  /\ pc = "forspk" /\ i = K
  /\ m' = Hash(SetTypeAndClearNotKp(adrs, "FORS_ROOTS"), roots)
  /\ adrs' = [ZeroAdrs EXCEPT !.tree = tree]
  /\ layer' = 0 /\ t' = 0
  /\ pc' = IF op = "sign" THEN "auth" ELSE "wotspk"
  /\ UNCHANGED <<op, root, dg, tree, leaf, i, nd, roots, sig, digits, deal, ok, signed, keys, calls>>

-----------------------------------------------------------------------------
\* xmss_sign: the authentication path.
AuthCall ==
  /\ pc = "auth" /\ t < HP
  /\ nd' = Node(Sibling(Shift(leaf, t)), t)
  /\ pc' = "xleaf"
  /\ UNCHANGED <<op, adrs, root, dg, tree, leaf, layer, i, t, roots, m, sig, digits, deal, ok, signed, keys, calls>>

AuthNode ==
  /\ pc = "xdone" /\ op = "sign"
  /\ sig' = [sig EXCEPT !.auth[layer][t] = nd.h[0]]
  /\ t' = t + 1
  /\ pc' = "auth"
  /\ UNCHANGED <<op, adrs, root, dg, tree, leaf, layer, i, nd, roots, m, digits, deal, ok, signed, keys, calls>>

\* The digits of m, which are remembered.
Vm == WotsCsum(IF m \in DOMAIN digits THEN digits[m] ELSE Head(deal))

Remember ==
  IF m \in DOMAIN digits
  THEN UNCHANGED <<digits, deal>>
  ELSE /\ digits' = [v \in DOMAIN digits \cup {m} |-> IF v = m THEN Head(deal) ELSE digits[v]]
       /\ deal' = Tail(deal)

\* wots_sign; the layers above sign the root of this one.
WotsSign ==
  /\ pc = "auth" /\ t = HP
  /\ LET a == [SetTypeAndClearNotKp(adrs, "WOTS_HASH") EXCEPT !.kp = leaf]
     IN  /\ sig' = [sig EXCEPT !.wots[layer] =
                      [c \in 1 .. Len12 |-> WotsChain([a EXCEPT !.w6 = c - 1], Vm[c])]]
         /\ adrs' \in WotsChainAdrs([a EXCEPT !.w6 = Len12 - 1], Vm[Len12])
  /\ Remember
  /\ keys' = keys \cup {[layer |-> layer, tree |-> tree, leaf |-> leaf, m |-> m]}
  /\ pc' = IF layer < D - 1 THEN "wotspk" ELSE "ready"
  /\ UNCHANGED <<op, root, dg, tree, leaf, layer, i, t, nd, roots, m, ok, signed, calls>>

\* Mutant: the key pair address is left as it is.
WotsPkStale ==
  /\ pc = "wotspk"
  /\ LET a   == SetTypeAndClearNotKp(adrs, "WOTS_HASH")
         tmp == [c \in 1 .. Len12 |->
                   Chain([a EXCEPT !.w6 = c - 1], sig.wots[layer][c], Vm[c], W - 1 - Vm[c])]
     IN  m' = Hash(SetTypeAndClearNotKp(a, "WOTS_PK"), tmp)
  /\ adrs' = SetTypeAndClear(adrs, "TREE")
  /\ Remember
  /\ t' = 0
  /\ pc' = "climb"
  /\ UNCHANGED <<op, root, dg, tree, leaf, layer, i, nd, roots, sig, ok, signed, keys, calls>>

\* wots_pk_from_sig.
WotsPk ==
  /\ pc = "wotspk"
  /\ LET a   == [SetTypeAndClearNotKp(adrs, "WOTS_HASH") EXCEPT !.kp = leaf]
         tmp == [c \in 1 .. Len12 |->
                   Chain([a EXCEPT !.w6 = c - 1], sig.wots[layer][c], Vm[c], W - 1 - Vm[c])]
     IN  m' = Hash(SetTypeAndClearNotKp(a, "WOTS_PK"), tmp)
  /\ adrs' = SetTypeAndClear(adrs, "TREE")
  /\ Remember
  /\ t' = 0
  /\ pc' = "climb"
  /\ UNCHANGED <<op, root, dg, tree, leaf, layer, i, nd, roots, sig, ok, signed, keys, calls>>

\* xmss_pk_from_sig: up to the root.
Climb ==
  /\ pc = "climb" /\ t < HP
  /\ adrs' = [adrs EXCEPT !.w6 = t + 1, !.w7 = Shift(leaf, t + 1)]
  /\ m' = Hash(adrs', Pair(Shift(leaf, t), m, sig.auth[layer][t]))
  /\ t' = t + 1
  /\ UNCHANGED <<op, pc, root, dg, tree, leaf, layer, i, nd, roots, sig, digits, deal, ok, signed, keys, calls>>

\* Mutant: i_leaf is not taken from i_tree.
NextLayerSameLeaf ==
  /\ pc = "climb" /\ t = HP /\ layer < D - 1
  /\ tree' = Shift(tree, HP)
  /\ layer' = layer + 1
  /\ adrs' = [adrs EXCEPT !.layer = layer', !.tree = tree']
  /\ t' = 0
  /\ pc' = IF op = "sign" THEN "auth" ELSE "wotspk"
  /\ UNCHANGED <<op, root, dg, leaf, i, nd, roots, m, sig, digits, deal, ok, signed, keys, calls>>

NextLayer ==
  /\ pc = "climb" /\ t = HP /\ layer < D - 1
  /\ leaf' = tree % 2 ^ HP
  /\ tree' = Shift(tree, HP)
  /\ layer' = layer + 1
  /\ adrs' = [adrs EXCEPT !.layer = layer', !.tree = tree']
  /\ t' = 0
  /\ pc' = IF op = "sign" THEN "auth" ELSE "wotspk"
  /\ UNCHANGED <<op, root, dg, i, nd, roots, m, sig, digits, deal, ok, signed, keys, calls>>

\* ht_verify compares with pk_root.
Compare ==
  /\ pc = "climb" /\ t = HP /\ layer = D - 1
  /\ ok' = (m = root)
  /\ pc' = "ready"
  /\ UNCHANGED <<op, adrs, root, dg, tree, leaf, layer, i, t, nd, roots, m, sig, digits, deal, signed, keys, calls>>

Next ==
  \/ Keygen \/ KeygenReturn
  \/ XmssLeaf \/ XmssMerge \/ ForsLeaf \/ ForsMerge \/ NodeNext
  \/ \E d \in Digests : Sign(d) \/ Verify(d)
  \/ Damage
  \/ ForsSk \/ ForsAuthCall \/ ForsAuthNode \/ ForsSigned
  \/ ForsPkLeaf \/ ForsClimb \/ ForsNextTree \/ ForsRoots
  \/ AuthCall \/ AuthNode \/ WotsSign
  \/ WotsPk \/ Climb \/ NextLayer \/ Compare

Spec == Init /\ [][Next]_vars

-----------------------------------------------------------------------------
\* xmss_node and fors_node return the node that they were asked for, with the
\* right input to each hash below it, whatever address they were called with
\* and whatever was in h: the place of the node in the hypertree is its name.
NodesRight ==
  LET index == Shift(nd.i - 1, nd.z)      \* i was advanced over all leaves
      here  == [ZeroAdrs EXCEPT !.layer = layer, !.tree = tree]
  IN  /\ pc = "xdone" =>
           nd.h[0] = Value(IF nd.z = 0
                           THEN [SetType(here, "WOTS_PK") EXCEPT !.kp = index]
                           ELSE [SetType(here, "TREE") EXCEPT !.w6 = nd.z, !.w7 = index])
      /\ pc = "fdone" =>
           nd.h[0] = Value([ForsAdrs(dg) EXCEPT !.w6 = nd.z, !.w7 = index])

\* Verification accepts the signature of the message, and with one value in it
\* changed, or for another message, it does not, though signer and verifier
\* come to each hash with an ADRS that different functions left.
Agreed ==
  pc = "ready" /\ op = "verify" => (ok <=> signed.intact /\ dg = signed.dg)

\* No WOTS+ key ever signs two values, in any number of signatures.
OneTime ==
  \A x, y \in keys :
    x.layer = y.layer /\ x.tree = y.tree /\ x.leaf = y.leaf => x.m = y.m

\* Of the chains of two values, each has one that is longer than in the other:
\* nobody gets from one WOTS+ signature to that of another value by hashing on.
NoDominance ==
  \A x, y \in DOMAIN digits : x # y =>
    \E c \in 1 .. Len12 : WotsCsum(digits[x])[c] < WotsCsum(digits[y])[c]
=============================================================================
