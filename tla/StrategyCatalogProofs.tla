------------------------ MODULE StrategyCatalogProofs ------------------------
(***************************************************************************)
(* TLAPS proofs about StrategyCatalog, for any versions, definitions,      *)
(* events, recorders and files.                                            *)
(*                                                                         *)
(* Decisions: a node of a tree is decided by the nodes before it, so a     *)
(* decision that changed with the facts would have a first node that       *)
(* changed.  The catalog: what a step records was read several steps       *)
(* before.  HeldInv and CallInv say what of it still holds, whatever other *)
(* processes did in between: HeldInv of the definitions an evaluator has   *)
(* read, CallInv of the version and the file of a call of record_file.     *)
(***************************************************************************)
EXTENDS StrategyCatalog, FiniteSetTheorems, WellFoundedInduction, TLAPS

-----------------------------------------------------------------------------
(* Decisions *)

\* Every set of natural numbers has a least one: the form in which the proofs below
\* use induction.  The initial segments of the numbers are finite sets, which strict
\* inclusion orders well.
LEMMA LeastNumber ==
  ASSUME NEW T \in SUBSET Nat, T # {}
  PROVE  \E x \in T : \A y \in T : x <= y
<1> DEFINE segments == {0..n : n \in T}
<1>1. segments \subseteq FiniteSubsetsOf(Nat) /\ segments # {}
  <2>1. \A n \in T : IsFiniteSet(0..n) /\ 0..n \in SUBSET Nat
    BY FS_Interval
  <2> QED
    BY <2>1 DEF FiniteSubsetsOf
<1>2. PICK s \in segments : \A r \in segments : ~(<<r, s>> \in StrictSubsetOrdering(Nat))
  <2> HIDE DEF segments
  <2> QED
    BY <1>1, FS_StrictSubsetOrderingWellFounded, WFMin
<1>3. PICK x \in T : s = 0..x
  BY <1>2
<1>4. ASSUME NEW y \in T, y < x
      PROVE  FALSE
  <2>1. 0..y \in segments
    OBVIOUS
  <2>2. 0..y \subseteq 0..x /\ 0..y # 0..x /\ 0..y \in SUBSET Nat /\ 0..x \in SUBSET Nat
    <3>1. x \in 0..x /\ x \notin 0..y
      BY <1>4
    <3> QED
      BY <1>4, <3>1
  <2>3. <<0..y, s>> \in StrictSubsetOrdering(Nat)
    BY <1>3, <2>2 DEF StrictSubsetOrdering
  <2> QED
    BY <1>2, <2>1, <2>3
<1> QED
  BY <1>4

\* Operands are looked at in turn: if those of two evaluations agree up to the first
\* that fails in the one, its result is an error or that of the other.
LEMMA InTurnStable ==
  ASSUME NEW n \in Nat, NEW stopped \in BOOLEAN,
         NEW F \in SUBSET (1..n), NEW S \in SUBSET (1..n),
         NEW G \in SUBSET (1..n), NEW T \in SUBSET (1..n),
         \A k \in 1..n : (\A j \in 1..k : j \notin F) => k \notin G /\ (k \in S <=> k \in T)
  PROVE  InTurn(F, S, stopped) \in {Error, InTurn(G, T, stopped)}
<1> DEFINE ends == F \cup S
<1>1. CASE ends = {}
  <2>1. G \cup T = {}
    BY <1>1
  <2> QED
    BY <1>1, <2>1 DEF InTurn
<1>2. CASE ends # {} /\ \E k \in F : \A j \in ends : k <= j
  BY <1>2 DEF InTurn
<1>3. CASE ends # {} /\ ~\E k \in F : \A j \in ends : k <= j
  <2>1. PICK k \in ends : \A j \in ends : k <= j
    <3>1. ends \in SUBSET Nat
      OBVIOUS
    <3> HIDE DEF ends
    <3> QED
      BY <1>3, <3>1, LeastNumber
  <2>2. k \in 1..n /\ k \notin F /\ k \in S
    BY <1>3, <2>1
  <2>3. \A j \in 1..k : j \notin F /\ j \in 1..n
    BY <2>1, <2>2
  <2>4. \A j \in 1..k : j \notin G /\ (j \in S <=> j \in T)
    <3> SUFFICES ASSUME NEW j \in 1..k
                 PROVE  j \notin G /\ (j \in S <=> j \in T)
      OBVIOUS
    <3>1. j \in 1..n /\ \A i \in 1..j : i \notin F
      BY <2>2, <2>3
    <3> QED
      BY <3>1
  <2>5. k \in T /\ k \in 1..k
    BY <2>2, <2>4
  <2>6. ~\E i \in G : \A j \in G \cup T : i <= j
    <3> SUFFICES ASSUME NEW i \in G, \A j \in G \cup T : i <= j
                 PROVE  FALSE
      OBVIOUS
    <3>1. i \in 1..k
      BY <2>2, <2>5
    <3> QED
      BY <2>4, <3>1
  <2> QED
    BY <1>3, <2>5, <2>6 DEF InTurn
<1> QED
  BY <1>1, <1>2, <1>3

\* A context says no less than another one, and nothing else.
Extends(d, c) == \A id \in DOMAIN c : id \in DOMAIN d /\ d[id] = c[id]

\* An operand that has failed fails the operator.
LEMMA FailedOperand ==
  /\ \A op, v : IsError(v) => Unary(op, v) = Error
  /\ \A op, v, w : IsError(v) \/ IsError(w) => Binary(op, v, w) = Error
  BY DEF Unary, Binary

\* If every operand has failed or is the same in two evaluations, the second of which
\* knows more, so does and is the node.
LEMMA NodeStable ==
  ASSUME NEW i \in Nat, NEW node, IsNode(node, i), NEW c, NEW d, Extends(d, c), NEW f, NEW g,
         \A k \in 1..i - 1 : IsError(f[k]) \/ f[k] = g[k]
  PROVE  \/ IsError(NodeValue(node, f, c))
         \/ NodeValue(node, f, c) = NodeValue(node, g, d)
<1> DEFINE x(k) == f[node.args[k]]
           y(k) == g[node.args[k]]
           n == Len(node.args)
<1>0. IsError(Error)
  BY DEF IsError, Error, Number
<1>1. CASE node.op = "constant"
  BY <1>1 DEF NodeValue
<1>2. CASE node.op = "name"
  <2>1. NodeValue(node, f, c) = LookUp(node.id, c) /\ NodeValue(node, g, d) = LookUp(node.id, d)
    BY <1>2 DEF NodeValue
  <2> QED
    BY <1>0, <2>1 DEF LookUp, Extends
<1>3. ASSUME node.op \notin {"constant", "name"}
      PROVE  /\ n \in Nat /\ DOMAIN node.args = 1..n
             /\ \A k \in 1..n : IsError(x(k)) \/ x(k) = y(k)
  <2>1. node.args \in Seq(1..i - 1)
    BY <1>3 DEF IsNode
  <2>2. n \in Nat /\ DOMAIN node.args = 1..n /\ \A k \in 1..n : node.args[k] \in 1..i - 1
    BY <2>1
  <2> QED
    BY <2>2
<1> DEFINE F == {k \in DOMAIN node.args : IsError(x(k))}
           G == {k \in DOMAIN node.args : IsError(y(k))}
           P == {k \in DOMAIN node.args : IsTrue(x(k))}
           Q == {k \in DOMAIN node.args : IsTrue(y(k))}
<1>4. CASE node.op = "and"
  <2>1. /\ NodeValue(node, f, c) = InTurn(F, DOMAIN node.args \ P, FALSE)
        /\ NodeValue(node, g, d) = InTurn(G, DOMAIN node.args \ Q, FALSE)
    BY <1>4 DEF NodeValue
  <2>2. /\ n \in Nat /\ DOMAIN node.args = 1..n
        /\ \A k \in 1..n : k \notin F => x(k) = y(k)
    BY <1>3, <1>4
  <2>3. \A k \in 1..n : k \notin F =>
          k \notin G /\ (k \in DOMAIN node.args \ P <=> k \in DOMAIN node.args \ Q)
    <3> HIDE DEF x, y
    <3> QED
      BY <2>2
  <2>4. \A k \in 1..n : (\A j \in 1..k : j \notin F) =>
          k \notin G /\ (k \in DOMAIN node.args \ P <=> k \in DOMAIN node.args \ Q)
    <3> HIDE DEF F, G, P, Q, n
    <3> QED
      BY <2>2, <2>3
  <2>5. /\ F \in SUBSET (1..n) /\ G \in SUBSET (1..n)
        /\ DOMAIN node.args \ P \in SUBSET (1..n) /\ DOMAIN node.args \ Q \in SUBSET (1..n)
    BY <2>2
  <2> HIDE DEF F, G, P, Q, n
  <2>6. InTurn(F, DOMAIN node.args \ P, FALSE)
          \in {Error, InTurn(G, DOMAIN node.args \ Q, FALSE)}
    BY <2>2, <2>4, <2>5, InTurnStable
  <2> QED
    BY <1>0, <2>1, <2>6
<1>5. CASE node.op = "or"
  <2>1. /\ NodeValue(node, f, c) = InTurn(F, P, TRUE)
        /\ NodeValue(node, g, d) = InTurn(G, Q, TRUE)
    BY <1>5 DEF NodeValue
  <2>2. /\ n \in Nat /\ DOMAIN node.args = 1..n
        /\ \A k \in 1..n : k \notin F => x(k) = y(k)
    BY <1>3, <1>5
  <2>3. \A k \in 1..n : k \notin F => k \notin G /\ (k \in P <=> k \in Q)
    <3> HIDE DEF x, y
    <3> QED
      BY <2>2
  <2>4. \A k \in 1..n : (\A j \in 1..k : j \notin F) => k \notin G /\ (k \in P <=> k \in Q)
    <3> HIDE DEF F, G, P, Q, n
    <3> QED
      BY <2>2, <2>3
  <2>5. /\ F \in SUBSET (1..n) /\ G \in SUBSET (1..n)
        /\ P \in SUBSET (1..n) /\ Q \in SUBSET (1..n)
    BY <2>2
  <2> HIDE DEF F, G, P, Q, n
  <2>6. InTurn(F, P, TRUE) \in {Error, InTurn(G, Q, TRUE)}
    BY <2>2, <2>4, <2>5, InTurnStable
  <2> QED
    BY <1>0, <2>1, <2>6
<1>6. CASE node.op = "unary"
  <2>1. /\ NodeValue(node, f, c) = Unary(node.sign, x(1))
        /\ NodeValue(node, g, d) = Unary(node.sign, y(1))
    BY <1>6 DEF NodeValue
  <2>2. IsError(x(1)) \/ x(1) = y(1)
    <3>1. n = 1
      BY <1>6 DEF IsNode
    <3> QED
      BY <1>3, <1>6, <3>1
  <2>3. IsError(x(1)) => Unary(node.sign, x(1)) = Error
    <3> HIDE DEF x
    <3> QED
      BY FailedOperand
  <2> QED
    BY <1>0, <2>1, <2>2, <2>3
<1>7. CASE node.op = "binary"
  <2>1. /\ NodeValue(node, f, c) = Binary(node.sign, x(1), x(2))
        /\ NodeValue(node, g, d) = Binary(node.sign, y(1), y(2))
    BY <1>7 DEF NodeValue
  <2>2. (IsError(x(1)) \/ x(1) = y(1)) /\ (IsError(x(2)) \/ x(2) = y(2))
    <3>1. n = 2
      BY <1>7 DEF IsNode
    <3> QED
      BY <1>3, <1>7, <3>1
  <2>3. IsError(x(1)) \/ IsError(x(2)) => Binary(node.sign, x(1), x(2)) = Error
    <3> HIDE DEF x
    <3> QED
      BY FailedOperand
  <2> QED
    BY <1>0, <2>1, <2>2, <2>3
<1>8. CASE node.op = "compare"
  <2> DEFINE cmps == node.cmps
             m == Len(cmps)
             F1 == {k \in DOMAIN cmps : IsError(x(k + 1))}
             G1 == {k \in DOMAIN cmps : IsError(y(k + 1))}
             S1 == {k \in DOMAIN cmps : ~Compare(cmps[k], x(k), x(k + 1))}
             T1 == {k \in DOMAIN cmps : ~Compare(cmps[k], y(k), y(k + 1))}
  <2>1. /\ NodeValue(node, f, c) = IF 1 \in F THEN Error ELSE InTurn(F1, S1, FALSE)
        /\ NodeValue(node, g, d) = IF 1 \in G THEN Error ELSE InTurn(G1, T1, FALSE)
    BY <1>8 DEF NodeValue
  <2>2. /\ m \in Nat /\ DOMAIN cmps = 1..m /\ n = m + 1
        /\ DOMAIN node.args = 1..m + 1
        /\ \A k \in 1..m + 1 : IsError(x(k)) \/ x(k) = y(k)
    <3>1. cmps \in Seq(STRING) /\ n = m + 1
      BY <1>8 DEF IsNode
    <3>2. m \in Nat /\ DOMAIN cmps = 1..m
      BY <3>1
    <3> QED
      BY <1>3, <1>8, <3>1, <3>2
  <2>3. CASE 1 \in F
    BY <1>0, <2>1, <2>3
  <2>4. CASE 1 \notin F
    <3>1. 1 \in 1..m + 1 /\ ~IsError(x(1)) /\ x(1) = y(1)
      BY <2>2, <2>4
    <3>2. 1 \notin G
      <4> HIDE DEF x, y
      <4> QED
        BY <3>1
    <3>3. ASSUME NEW k \in 1..m, \A j \in 1..k : j \notin F1
          PROVE  k \notin G1 /\ (k \in S1 <=> k \in T1)
      <4>1. k + 1 \in 1..m + 1 /\ k \in DOMAIN cmps /\ k \in 1..k
        BY <2>2, <3>3
      <4>2. ~IsError(x(k + 1)) /\ x(k + 1) = y(k + 1)
        <5>1. ~IsError(x(k + 1))
          BY <3>3, <4>1
        <5> QED
          BY <2>2, <4>1, <5>1
      <4>3. x(k) = y(k)
        <5>1. CASE k = 1
          BY <3>1, <5>1
        <5>2. CASE k # 1
          <6>1. k - 1 \in 1..k /\ k - 1 \in DOMAIN cmps /\ k \in 1..m + 1 /\ k - 1 + 1 = k
            BY <2>2, <3>3, <5>2
          <6>2. ~IsError(x(k))
            BY <3>3, <6>1
          <6> QED
            BY <2>2, <6>1, <6>2
        <5> QED
          BY <5>1, <5>2
      <4> HIDE DEF x, y
      <4> QED
        BY <4>1, <4>2, <4>3
    <3>4. /\ F1 \in SUBSET (1..m) /\ G1 \in SUBSET (1..m)
          /\ S1 \in SUBSET (1..m) /\ T1 \in SUBSET (1..m)
      BY <2>2
    <3> HIDE DEF F1, G1, S1, T1, F, G, m
    <3>5. InTurn(F1, S1, FALSE) \in {Error, InTurn(G1, T1, FALSE)}
      BY <2>2, <3>3, <3>4, InTurnStable
    <3> QED
      BY <1>0, <2>1, <2>4, <3>2, <3>5
  <2> QED
    BY <2>3, <2>4
<1> QED
  BY <1>1, <1>2, <1>4, <1>5, <1>6, <1>7, <1>8 DEF IsNode

\* The value of a node is made of those of the nodes before it, and of no others.
LEMMA NodeValueLocal ==
  ASSUME NEW i \in Nat, NEW node, IsNode(node, i), NEW c, NEW f, NEW g,
         \A k \in 1..i - 1 : f[k] = g[k]
  PROVE  NodeValue(node, f, c) = NodeValue(node, g, c)
<1>1. CASE node.op \in {"constant", "name"}
  BY <1>1 DEF NodeValue
<1>2. ASSUME node.op \notin {"constant", "name"}
      PROVE  \A k \in 1..Len(node.args) : f[node.args[k]] = g[node.args[k]]
  <2>1. node.args \in Seq(1..i - 1)
    BY <1>2 DEF IsNode
  <2> QED
    BY <2>1
<1>3. node.op \notin {"constant", "name"} =>
        Len(node.args) \in Nat /\ DOMAIN node.args = 1..Len(node.args)
  <2>1. node.op \notin {"constant", "name"} => node.args \in Seq(1..i - 1)
    BY DEF IsNode
  <2> QED
    BY <2>1
<1>4. CASE node.op \in {"and", "or"}
  <2>1. \A k \in DOMAIN node.args : f[node.args[k]] = g[node.args[k]]
    BY <1>2, <1>3, <1>4
  <2>2. /\ {k \in DOMAIN node.args : IsError(f[node.args[k]])}
             = {k \in DOMAIN node.args : IsError(g[node.args[k]])}
        /\ {k \in DOMAIN node.args : IsTrue(f[node.args[k]])}
             = {k \in DOMAIN node.args : IsTrue(g[node.args[k]])}
    BY <2>1
  <2> QED
    BY <1>4, <2>2 DEF NodeValue
<1>5. CASE node.op = "unary"
  <2>1. f[node.args[1]] = g[node.args[1]]
    BY <1>2, <1>5 DEF IsNode
  <2> QED
    BY <1>5, <2>1 DEF NodeValue
<1>6. CASE node.op = "binary"
  <2>1. f[node.args[1]] = g[node.args[1]] /\ f[node.args[2]] = g[node.args[2]]
    BY <1>2, <1>6 DEF IsNode
  <2> QED
    BY <1>6, <2>1 DEF NodeValue
<1>7. CASE node.op = "compare"
  <2> DEFINE m == Len(node.cmps)
  <2>1. m \in Nat /\ DOMAIN node.cmps = 1..m /\ DOMAIN node.args = 1..m + 1
    <3>1. node.cmps \in Seq(STRING) /\ Len(node.args) = m + 1
      BY <1>7 DEF IsNode
    <3>2. m \in Nat /\ DOMAIN node.cmps = 1..m
      BY <3>1
    <3> QED
      BY <1>3, <1>7, <3>1, <3>2
  <2>2. \A k \in 1..m + 1 : f[node.args[k]] = g[node.args[k]]
    <3>1. Len(node.args) = m + 1
      BY <1>7 DEF IsNode
    <3> QED
      BY <1>2, <1>7, <3>1
  <2>3. \A k \in DOMAIN node.cmps : /\ f[node.args[k]] = g[node.args[k]]
                                    /\ f[node.args[k + 1]] = g[node.args[k + 1]]
    <3>1. \A k \in 1..m : k \in 1..m + 1 /\ k + 1 \in 1..m + 1
      BY <2>1
    <3> HIDE DEF m
    <3> QED
      BY <2>1, <2>2, <3>1
  <2>4. /\ {k \in DOMAIN node.args : IsError(f[node.args[k]])}
             = {k \in DOMAIN node.args : IsError(g[node.args[k]])}
        /\ {k \in DOMAIN node.cmps : IsError(f[node.args[k + 1]])}
             = {k \in DOMAIN node.cmps : IsError(g[node.args[k + 1]])}
        /\ {k \in DOMAIN node.cmps :
              ~Compare(node.cmps[k], f[node.args[k]], f[node.args[k + 1]])}
             = {k \in DOMAIN node.cmps :
                  ~Compare(node.cmps[k], g[node.args[k]], g[node.args[k + 1]])}
    BY <2>1, <2>2, <2>3
  <2> QED
    BY <1>7, <2>4 DEF NodeValue
<1> QED
  BY <1>1, <1>4, <1>5, <1>6, <1>7 DEF IsNode

\* Values solves its recursion: the values of the nodes of a tree exist.
LEMMA ValuesAre ==
  ASSUME NEW tree, IsTree(tree), NEW c
  PROVE  \A i \in 1..Len(tree) : Values(tree, c)[i] = NodeValue(tree[i], Values(tree, c), c)
<1> DEFINE turn(f, i) == NodeValue(tree[i], f, c)
           solves(f, n) == f = [i \in 1..n |-> turn(f, i)]
           unsolved == {n \in 0..Len(tree) : ~\E f : solves(f, n)}
<1>0. Len(tree) \in Nat /\ \A i \in 1..Len(tree) : IsNode(tree[i], i)
  BY DEF IsTree
<1>1. unsolved = {}
  <2> SUFFICES ASSUME unsolved # {}
               PROVE  FALSE
    OBVIOUS
  <2>1. PICK n \in unsolved : \A k \in unsolved : n <= k
    <3>1. unsolved \in SUBSET Nat
      BY <1>0
    <3> HIDE DEF unsolved
    <3> QED
      BY <3>1, LeastNumber
  <2>2. n # 0
    <3>1. solves([i \in 1..0 |-> Error], 0)
      OBVIOUS
    <3> QED
      BY <3>1
  <2>3. n \in 1..Len(tree) /\ n - 1 \in 0..Len(tree) /\ n - 1 \notin unsolved
    <3>1. n \in 0..Len(tree)
      OBVIOUS
    <3> HIDE DEF unsolved
    <3> QED
      BY <1>0, <2>1, <2>2, <3>1
  <2>4. PICK f : solves(f, n - 1)
    BY <2>3
  <2> DEFINE g == [i \in 1..n |-> IF i < n THEN f[i] ELSE turn(f, n)]
  <2>5. \A i \in 1..n : g[i] = turn(g, i)
    <3> SUFFICES ASSUME NEW i \in 1..n
                 PROVE  g[i] = turn(g, i)
      OBVIOUS
    <3>1. i \in Nat /\ IsNode(tree[i], i)
      BY <1>0, <2>3
    <3>2. \A k \in 1..i - 1 : f[k] = g[k]
      <4> SUFFICES ASSUME NEW k \in 1..i - 1
                   PROVE  f[k] = g[k]
        OBVIOUS
      <4> k \in 1..n /\ k < n
        BY <2>3
      <4> HIDE DEF turn
      <4> QED
        OBVIOUS
    <3>3. turn(f, i) = turn(g, i)
      <4> HIDE DEF g
      <4> QED
        BY <3>1, <3>2, NodeValueLocal
    <3>4. CASE i < n
      <4>1. i \in 1..n - 1 /\ g[i] = f[i]
        BY <2>3, <3>4
      <4>2. f[i] = turn(f, i)
        <5> HIDE DEF turn
        <5> QED
          BY <2>4, <4>1
      <4> QED
        BY <3>3, <4>1, <4>2
    <3>5. CASE i = n
      BY <3>3, <3>5
    <3> QED
      BY <2>3, <3>4, <3>5
  <2>6. g = [i \in 1..n |-> turn(g, i)]
    <3>1. g = [i \in 1..n |-> g[i]]
      OBVIOUS
    <3> HIDE DEF g, turn
    <3> QED
      BY <2>5, <3>1
  <2>7. solves(g, n)
    <3> HIDE DEF g, turn
    <3> QED
      BY <2>6
  <2> QED
    BY <2>1, <2>7
<1>2. \E f : solves(f, Len(tree))
  BY <1>0, <1>1
<1>3. Values(tree, c) = CHOOSE f : solves(f, Len(tree))
  BY DEF Values
<1>4. solves(Values(tree, c), Len(tree))
  <2> HIDE DEF turn
  <2> QED
    BY <1>2, <1>3
<1> QED
  <2> HIDE DEF turn
  <2>1. \A i \in 1..Len(tree) : Values(tree, c)[i] = turn(Values(tree, c), i)
    BY <1>4
  <2> QED
    BY <2>1 DEF turn

\* Every node of a tree fails in the context that knows less, or has its value in
\* the other one.
LEMMA ValuesStable ==
  ASSUME NEW tree, IsTree(tree), NEW c, NEW d, Extends(d, c)
  PROVE  \A i \in 1..Len(tree) :
           IsError(Values(tree, c)[i]) \/ Values(tree, c)[i] = Values(tree, d)[i]
<1> DEFINE stable(i) == IsError(Values(tree, c)[i]) \/ Values(tree, c)[i] = Values(tree, d)[i]
           unstable == {i \in 1..Len(tree) : ~stable(i)}
<1>0. Len(tree) \in Nat /\ \A i \in 1..Len(tree) : IsNode(tree[i], i)
  BY DEF IsTree
<1> SUFFICES ASSUME unstable # {}
             PROVE  FALSE
  OBVIOUS
<1>1. PICK i \in unstable : \A k \in unstable : i <= k
  <2>1. unstable \in SUBSET Nat
    BY <1>0
  <2> HIDE DEF unstable
  <2> QED
    BY <2>1, LeastNumber
<1>2. i \in 1..Len(tree) /\ i \in Nat /\ IsNode(tree[i], i)
  BY <1>0
<1>3. \A k \in 1..i - 1 : stable(k)
  <2> SUFFICES ASSUME NEW k \in 1..i - 1
               PROVE  stable(k)
    OBVIOUS
  <2>1. k \in 1..Len(tree) /\ ~(i <= k)
    BY <1>0, <1>2
  <2> HIDE DEF stable
  <2> QED
    BY <1>1, <2>1
<1>4. \/ IsError(NodeValue(tree[i], Values(tree, c), c))
      \/ NodeValue(tree[i], Values(tree, c), c) = NodeValue(tree[i], Values(tree, d), d)
  BY <1>2, <1>3, NodeStable
<1>5. /\ Values(tree, c)[i] = NodeValue(tree[i], Values(tree, c), c)
      /\ Values(tree, d)[i] = NodeValue(tree[i], Values(tree, d), d)
  BY <1>2, ValuesAre
<1> QED
  BY <1>4, <1>5

\* A definition that decides on some of the facts decides the same on all of them.
LEMMA DecideStable ==
  ASSUME NEW rule, IsTree(rule.tree), NEW facts, NEW known \in SUBSET DOMAIN facts,
         DOMAIN facts \cap DOMAIN rule.parameters = {}
  PROVE  Decide(rule, [x \in known |-> facts[x]]) \in {NoDecision, Decide(rule, facts)}
<1> DEFINE some == [x \in known |-> facts[x]]
           c == Joined(some, rule.parameters)
           d == Joined(facts, rule.parameters)
           less == ValueOf(rule.tree, c)
           more == ValueOf(rule.tree, d)
<1>1. Extends(d, c)
  BY DEF Extends, Joined
<1>2. Len(rule.tree) \in 1..Len(rule.tree)
  BY DEF IsTree
<1>3. IsError(less) \/ less = more
  <2> HIDE DEF c, d
  <2> QED
    BY <1>1, <1>2, ValuesStable DEF ValueOf
<1>4. CASE IsError(less)
  <2>1. IsError(Error)
    BY DEF IsError, Error, Number
  <2>2. IsError(Evaluate(rule.tree, c))
    BY <1>4, <2>1 DEF Evaluate
  <2> QED
    BY <2>2 DEF Decide
<1>5. CASE less = more
  <2>1. Evaluate(rule.tree, c) = Evaluate(rule.tree, d)
    BY <1>5 DEF Evaluate
  <2> QED
    BY <2>1 DEF Decide
<1> QED
  BY <1>3, <1>4, <1>5

-----------------------------------------------------------------------------
(* The catalog *)

USE CatalogAssumption

HeldInv ==
  /\ \A v \in DOMAIN held : v \in DOMAIN rules /\ rules[v] = held[v]
  /\ job = None => DOMAIN held = {}

Bound(r) ==
  /\ call[r].identity \in Identities
  /\ call[r].file \in Files
  /\ call[r].version \in Versions
  /\ call[r].version \in seen[r]
  /\ StrategyOf[call[r].version] = ScopeOf[r]
  /\ OwnerOf[call[r].file] = ScopeOf[r]

CallInv ==
  \A r \in Recorders :
    /\ at[r] # "idle" => Bound(r)
    /\ at[r] = "record" => call[r].content \in Contents

CatalogInv == CatalogTypeOK /\ HeldInv /\ CallInv

-----------------------------------------------------------------------------
\* Every decision is an action of a signal, or none.
LEMMA DecisionsTyped ==
  ASSUME NEW rule, NEW facts
  PROVE  /\ Decisions(rule, facts) \subseteq {NoDecision, "watch", "enter_long", "exit_long"}
         /\ rule.kind # "python" => Decisions(rule, facts) = {Decide(rule, facts)}
  BY DEF Decisions, Decide, NoDecision

\* publish_signal adds the signal it is given, or nothing.
LEMMA PublishedOne ==
  ASSUME NEW signal
  PROVE  Published(signal) \in {signals, signals \cup {signal}}
  BY DEF Published

\* An artifact is one of the strategy of the call that records it.
LEMMA ArtifactTyped ==
  ASSUME CatalogInv, NEW r \in Recorders, at[r] = "record"
  PROVE  ArtifactOf(r) \in Artifact
<1>1. Bound(r) /\ call[r].content \in Contents
  BY DEF CatalogInv, CallInv
<1>2. ScopeOf[r] \in StrategyIds
  BY <1>1 DEF Bound, StrategyIds
<1>3. now \in 0..MaxTime
  BY DEF CatalogInv, CatalogTypeOK
<1> QED
  BY <1>1, <1>2, <1>3 DEF ArtifactOf, Artifact, Bound

-----------------------------------------------------------------------------
\* What register writes.
LEMMA EnterKeeps ==
  ASSUME CatalogInv, NEW v \in Versions, NEW rule \in offered, NEW activate \in BOOLEAN,
         Register(v, rule, activate)
  PROVE  CatalogInv' /\ \A w \in DOMAIN rules : w \in DOMAIN rules' /\ rules'[w] = rules[w]
<1> USE DEF CatalogInv
<1>1. Enter(v, rule, activate) /\ (v \in DOMAIN rules => rules[v] = rule) /\ rule \in Rules
  BY DEF Register, CatalogTypeOK
<1>2. DOMAIN rules' = DOMAIN rules \cup {v}
  BY <1>1 DEF Enter
<1>3. \A w \in DOMAIN rules' : rules'[w] = IF w = v THEN rule ELSE rules[w]
  BY <1>1 DEF Enter
<1>4. \A w \in DOMAIN rules : rules'[w] = rules[w]
  BY <1>1, <1>2, <1>3
<1>5. active' \in {active, Activated(v)}
  BY <1>1 DEF Enter
<1>6. /\ active' \subseteq DOMAIN rules' /\ active' \subseteq Versions
      /\ \A w, x \in active' : StrategyOf[w] = StrategyOf[x] => w = x
  BY <1>2, <1>5 DEF Activated, CatalogTypeOK
<1>7. DOMAIN rules' \subseteq Versions /\ \A w \in DOMAIN rules' : rules'[w] \in Rules
  BY <1>1, <1>2, <1>3 DEF CatalogTypeOK
<1>8. /\ seen' \in [Recorders -> SUBSET Versions]
      /\ \A r \in Recorders : at[r] # "idle" => seen[r] \subseteq seen'[r]
  BY <1>1, <1>6 DEF Enter, CatalogTypeOK
<1>9. UNCHANGED <<offered, evaluatorVars, artifacts, content, now, recorderVars, answered>>
  BY <1>1 DEF Enter
<1>10. CatalogTypeOK'
  BY <1>6, <1>7, <1>8, <1>9 DEF CatalogTypeOK, evaluatorVars, recorderVars
<1>11. HeldInv'
  BY <1>2, <1>4, <1>9 DEF HeldInv, evaluatorVars
<1>12. CallInv'
  BY <1>8, <1>9 DEF CallInv, Bound, recorderVars
<1> QED
  BY <1>2, <1>4, <1>10, <1>11, <1>12

\* What an evaluation publishes.
LEMMA EvaluationPublishes ==
  ASSUME CatalogInv, NEW v \in Versions, Evaluation(v)
  PROVE  /\ CatalogInv'
         /\ \A g \in signals' \ signals :
              /\ g \in Signal
              /\ g.version \in DOMAIN rules
              /\ MeaningOf[rules[g.version]].kind # "python" =>
                   Decide(MeaningOf[rules[g.version]], FactsOf[g.event]) = g.action
<1> USE DEF CatalogInv
<1>1. v \in DOMAIN held /\ v \in DOMAIN rules /\ rules[v] = held[v] /\ job \in Events
  BY DEF Evaluation, HeldInv, CatalogTypeOK
<1>2. PICK action \in Decisions(MeaningOf[held[v]], FactsOf[job]) :
        signals' = IF action = NoDecision THEN signals
                   ELSE Published([version |-> v, event |-> job, action |-> action])
  BY DEF Evaluation
<1> DEFINE g == [version |-> v, event |-> job, action |-> action]
<1>3. action # NoDecision => g \in Signal
  BY <1>1, <1>2, DecisionsTyped DEF Signal, NoDecision
<1>4. signals' = signals \/ (action # NoDecision /\ signals' = signals \cup {g})
  BY <1>2, PublishedOne
<1>5. MeaningOf[rules[v]].kind # "python" => Decide(MeaningOf[rules[v]], FactsOf[job]) = action
  BY <1>1, <1>2, DecisionsTyped
<1>6. DOMAIN held' = DOMAIN held \ {v} /\ \A w \in DOMAIN held' : held'[w] = held[w]
  BY DEF Evaluation
<1>7. signals' \subseteq Signal
  BY <1>3, <1>4 DEF CatalogTypeOK
<1>8. UNCHANGED <<offered, rules, active, job, artifacts, content, now, recorderVars,
                  answered, seen>>
  BY DEF Evaluation
<1>9. CatalogTypeOK'
  BY <1>6, <1>7, <1>8 DEF CatalogTypeOK, recorderVars
<1>10. HeldInv'
  BY <1>1, <1>6, <1>8 DEF HeldInv, CatalogTypeOK
<1>11. CallInv'
  BY <1>8 DEF CallInv, Bound, recorderVars
<1> QED
  BY <1>1, <1>3, <1>4, <1>5, <1>9, <1>10, <1>11

\* What record_file has read stays that of the call.
LEMMA BeginBinds ==
  ASSUME CatalogInv, NEW r \in Recorders, NEW i \in Identities, NEW f \in Files, Begin(r, i, f)
  PROVE  CatalogInv'
<1> USE DEF CatalogInv
<1>1. PICK v \in ActiveOf(ScopeOf[r]) : Opened(r, i, f, v)
  BY DEF Begin
<1>2. v \in active /\ v \in Versions /\ StrategyOf[v] = ScopeOf[r] /\ active \subseteq Versions
  BY DEF ActiveOf, CatalogTypeOK
<1> DEFINE c == [NoCall EXCEPT !.identity = i, !.file = f, !.version = v]
<1>3. /\ call' = [call EXCEPT ![r] = c] /\ at' = [at EXCEPT ![r] = "hash"]
      /\ seen' = [seen EXCEPT ![r] = active] /\ OwnerOf[f] = ScopeOf[r]
  BY <1>1 DEF Opened, GoTo
<1>4. c \in Call /\ c.identity = i /\ c.file = f /\ c.version = v
  BY <1>2 DEF NoCall, Call
<1>5. UNCHANGED <<offered, rules, active, evaluatorVars, artifacts, content, now, answered>>
  BY <1>1 DEF Opened
<1> HIDE DEF c
<1>6. CatalogTypeOK'
  BY <1>2, <1>3, <1>4, <1>5 DEF CatalogTypeOK, evaluatorVars
<1>7. HeldInv'
  BY <1>5 DEF HeldInv, evaluatorVars
<1>8. ASSUME NEW q \in Recorders
      PROVE  (at'[q] # "idle" => Bound(q)') /\ (at'[q] = "record" => call'[q].content \in Contents)
  <2>1. CASE q = r
    BY <1>2, <1>3, <1>4, <2>1 DEF Bound, CatalogTypeOK
  <2>2. CASE q # r
    BY <1>3, <2>2 DEF Bound, CatalogTypeOK, CallInv
  <2> QED
    BY <2>1, <2>2
<1> QED
  BY <1>6, <1>7, <1>8 DEF CallInv

\* The hash is one of the file of the call.
LEMMA HashBinds ==
  ASSUME CatalogInv, NEW r \in Recorders, Hash(r)
  PROVE  CatalogInv'
<1> USE DEF CatalogInv
<1>1. Bound(r) /\ at[r] = "hash" /\ call[r] \in Call
  BY DEF Hash, CallInv, CatalogTypeOK
<1> DEFINE c == [call[r] EXCEPT !.content = content[call[r].file]]
<1>2. call' = [call EXCEPT ![r] = c] /\ at' = [at EXCEPT ![r] = "record"]
  BY DEF Hash, GoTo
<1>3. content[call[r].file] \in Contents
  BY <1>1 DEF Bound, CatalogTypeOK
<1>4. /\ c \in Call /\ c.content \in Contents /\ c.identity = call[r].identity
      /\ c.file = call[r].file /\ c.version = call[r].version
  BY <1>1, <1>3 DEF Call
<1>5. UNCHANGED <<offered, rules, active, evaluatorVars, artifacts, content, now, answered, seen>>
  BY DEF Hash
<1> HIDE DEF c
<1>6. CatalogTypeOK'
  BY <1>2, <1>4, <1>5 DEF CatalogTypeOK, evaluatorVars
<1>7. HeldInv'
  BY <1>5 DEF HeldInv, evaluatorVars
<1>8. ASSUME NEW q \in Recorders
      PROVE  (at'[q] # "idle" => Bound(q)') /\ (at'[q] = "record" => call'[q].content \in Contents)
  <2>1. CASE q = r
    BY <1>1, <1>2, <1>4, <1>5, <2>1 DEF Bound, CatalogTypeOK
  <2>2. CASE q # r
    BY <1>2, <1>5, <2>2 DEF Bound, CatalogTypeOK, CallInv
  <2> QED
    BY <2>1, <2>2
<1> QED
  BY <1>6, <1>7, <1>8 DEF CallInv

\* A call that ends leaves nothing behind but what it recorded.
LEMMA FinishKeeps ==
  ASSUME CatalogInv, NEW r \in Recorders, Finish(r), (artifacts \subseteq Artifact)',
         (answered \subseteq Artifact)',
         UNCHANGED <<offered, rules, active, evaluatorVars, content, now>>
  PROVE  CatalogInv'
<1> USE DEF CatalogInv
<1>1. /\ call' = [call EXCEPT ![r] = NoCall] /\ at' = [at EXCEPT ![r] = "idle"]
      /\ seen' = [seen EXCEPT ![r] = {}] /\ NoCall \in Call
  BY DEF Finish, GoTo, NoCall, Call
<1>2. CatalogTypeOK'
  BY <1>1 DEF CatalogTypeOK, evaluatorVars
<1>3. HeldInv'
  BY DEF HeldInv, evaluatorVars
<1>4. ASSUME NEW q \in Recorders
      PROVE  (at'[q] # "idle" => Bound(q)') /\ (at'[q] = "record" => call'[q].content \in Contents)
  <2>1. CASE q = r
    BY <1>1, <2>1 DEF CatalogTypeOK
  <2>2. CASE q # r
    BY <1>1, <2>2 DEF Bound, CatalogTypeOK, CallInv
  <2> QED
    BY <2>1, <2>2
<1> QED
  BY <1>2, <1>3, <1>4 DEF CallInv

\* record_artifact commits the row of its call, or nothing, and answers only with
\* a row that is in the table.
LEMMA RecordCommits ==
  ASSUME CatalogInv, NEW r \in Recorders, Record(r)
  PROVE  /\ CatalogInv'
         /\ artifacts' \subseteq artifacts \cup {ArtifactOf(r)}
         /\ AnswersAreStored => AnswersAreStored'
<1> DEFINE row == ArtifactOf(r)
<1>1. at[r] = "record" /\ row \in Artifact
  BY ArtifactTyped DEF Record
<1> HIDE DEF row
<1>2. \/ /\ Namesakes(row) \subseteq {row}
         /\ artifacts' = artifacts \cup {row}
         /\ answered' \in {answered, answered \cup {row}}
      \/ UNCHANGED <<artifacts, answered>>
  BY DEF Record, row
<1>3. artifacts \subseteq Artifact /\ answered \subseteq Artifact
  BY DEF CatalogInv, CatalogTypeOK
<1>4. artifacts' \subseteq Artifact /\ answered' \subseteq Artifact
  BY <1>1, <1>2, <1>3
<1>5. CatalogInv'
  BY <1>4, FinishKeeps DEF Record
<1>6. ASSUME AnswersAreStored PROVE AnswersAreStored'
  BY <1>2, <1>6 DEF AnswersAreStored, Namesakes
<1> QED
  BY <1>2, <1>5, <1>6 DEF row

-----------------------------------------------------------------------------
\* There is no evaluation and no call in an empty registry.
LEMMA CatalogInvInit == CatalogInit => CatalogInv
<1> SUFFICES ASSUME CatalogInit PROVE CatalogInv
  OBVIOUS
<1>1. DOMAIN rules = {} /\ DOMAIN held = {}
  BY DEF CatalogInit
<1>2. NoCall \in Call
  BY DEF NoCall, Call
<1>3. CatalogTypeOK
  BY <1>1, <1>2 DEF CatalogInit, CatalogTypeOK
<1>4. HeldInv /\ CallInv
  BY <1>1 DEF CatalogInit, HeldInv, CallInv
<1> QED
  BY <1>3, <1>4 DEF CatalogInv

\* What a step may add to the tables: versions beside the ones that are there,
\* signals that follow from their rows, and artifacts of the call that records.
Entered == \A v \in DOMAIN rules : v \in DOMAIN rules' /\ rules'[v] = rules[v]

Decided ==
  \A g \in signals' \ signals :
    /\ g \in Signal
    /\ g.version \in DOMAIN rules
    /\ MeaningOf[rules[g.version]].kind # "python" =>
         Decide(MeaningOf[rules[g.version]], FactsOf[g.event]) = g.action

Recorded ==
  \A row \in artifacts' \ artifacts : \E r \in Recorders :
    /\ at[r] = "record"
    /\ row.version \in seen[r]
    /\ row.strategy = OwnerOf[call[r].file]

\* No step, of whichever process, does anything else.
LEMMA CatalogStep ==
  ASSUME CatalogInv, [CatalogNext]_catalogVars
  PROVE  CatalogInv' /\ Entered /\ Decided /\ Recorded
         /\ (AnswersAreStored => AnswersAreStored')
<1> USE DEF Entered, Decided, Recorded
<1>1. CASE UNCHANGED catalogVars
  BY <1>1 DEF catalogVars, evaluatorVars, recorderVars, CatalogInv, CatalogTypeOK, HeldInv,
              CallInv, Bound, AnswersAreStored
<1>2. CASE Tick
  <2>1. now' \in 0..MaxTime
    BY <1>2 DEF Tick, CatalogInv, CatalogTypeOK
  <2> QED
    BY <1>2, <2>1 DEF Tick, evaluatorVars, recorderVars, CatalogInv, CatalogTypeOK, HeldInv,
                      CallInv, Bound, AnswersAreStored
<1>3. ASSUME NEW v \in Versions, NEW rule \in offered, NEW activate \in BOOLEAN,
             Register(v, rule, activate)
      PROVE  CatalogInv' /\ Entered /\ Decided /\ Recorded
             /\ (AnswersAreStored => AnswersAreStored')
  <2>1. CatalogInv' /\ Entered
    BY <1>3, EnterKeeps
  <2>2. UNCHANGED <<signals, artifacts, answered>>
    BY <1>3 DEF Register, Enter, evaluatorVars
  <2> QED
    BY <2>1, <2>2 DEF AnswersAreStored
<1>4. ASSUME NEW v \in Versions, Evaluation(v)
      PROVE  CatalogInv' /\ Entered /\ Decided /\ Recorded
             /\ (AnswersAreStored => AnswersAreStored')
  <2>1. CatalogInv' /\ Decided
    BY <1>4, EvaluationPublishes
  <2>2. UNCHANGED <<rules, artifacts, answered>>
    BY <1>4 DEF Evaluation
  <2> QED
    BY <2>1, <2>2 DEF AnswersAreStored
<1>5. ASSUME NEW e \in Events, ReadStrategies(e)
      PROVE  CatalogInv' /\ Entered /\ Decided /\ Recorded
             /\ (AnswersAreStored => AnswersAreStored')
  <2>1. DOMAIN held' = active /\ (\A v \in active : held'[v] = rules[v]) /\ job' = e
    BY <1>5 DEF ReadStrategies
  <2>2. e # None
    OBVIOUS
  <2>3. CatalogTypeOK' /\ HeldInv' /\ CallInv'
    BY <1>5, <2>1, <2>2 DEF ReadStrategies, recorderVars, CatalogInv, CatalogTypeOK, HeldInv,
                            CallInv, Bound
  <2> QED
    BY <1>5, <2>3 DEF ReadStrategies, CatalogInv, AnswersAreStored
<1>6. CASE EndEvaluation
  <2>1. DOMAIN held' = {} /\ job' = None
    BY <1>6 DEF EndEvaluation
  <2>2. CatalogTypeOK' /\ HeldInv' /\ CallInv'
    BY <1>6, <2>1 DEF EndEvaluation, recorderVars, CatalogInv, CatalogTypeOK, HeldInv, CallInv,
                      Bound
  <2> QED
    BY <1>6, <2>2 DEF EndEvaluation, CatalogInv, AnswersAreStored
<1>7. ASSUME NEW r \in Recorders, NEW i \in Identities, NEW f \in Files, Begin(r, i, f)
      PROVE  CatalogInv' /\ Entered /\ Decided /\ Recorded
             /\ (AnswersAreStored => AnswersAreStored')
  <2>1. UNCHANGED <<rules, signals, artifacts, answered>>
    BY <1>7 DEF Begin, Opened, evaluatorVars
  <2> QED
    BY <1>7, <2>1, BeginBinds DEF AnswersAreStored
<1>8. ASSUME NEW r \in Recorders, Hash(r)
      PROVE  CatalogInv' /\ Entered /\ Decided /\ Recorded
             /\ (AnswersAreStored => AnswersAreStored')
  <2>1. UNCHANGED <<rules, signals, artifacts, answered>>
    BY <1>8 DEF Hash, evaluatorVars
  <2> QED
    BY <1>8, <2>1, HashBinds DEF AnswersAreStored
<1>9. ASSUME NEW r \in Recorders, Record(r)
      PROVE  CatalogInv' /\ Entered /\ Decided /\ Recorded
             /\ (AnswersAreStored => AnswersAreStored')
  <2>1. UNCHANGED <<rules, signals>> /\ at[r] = "record"
    BY <1>9 DEF Record, evaluatorVars
  <2>2. /\ CatalogInv' /\ (AnswersAreStored => AnswersAreStored')
        /\ artifacts' \subseteq artifacts \cup {ArtifactOf(r)}
    BY <1>9, RecordCommits
  <2>3. Bound(r)
    BY <2>1 DEF CatalogInv, CallInv
  <2>4. /\ ArtifactOf(r).version \in seen[r]
        /\ ArtifactOf(r).strategy = OwnerOf[call[r].file]
    BY <2>3 DEF ArtifactOf, Bound
  <2> QED
    BY <2>1, <2>2, <2>4
<1>10. ASSUME NEW r \in Recorders, GiveUp(r)
       PROVE  CatalogInv' /\ Entered /\ Decided /\ Recorded
              /\ (AnswersAreStored => AnswersAreStored')
  <2>1. UNCHANGED <<offered, rules, active, evaluatorVars, artifacts, content, now, answered>>
    BY <1>10 DEF GiveUp
  <2>2. (artifacts \subseteq Artifact)' /\ (answered \subseteq Artifact)'
    BY <2>1 DEF CatalogInv, CatalogTypeOK
  <2>3. CatalogInv'
    BY <1>10, <2>1, <2>2, FinishKeeps DEF GiveUp
  <2> QED
    BY <2>1, <2>3 DEF AnswersAreStored, evaluatorVars
<1>11. ASSUME NEW f \in Files, NEW c \in Contents, WriteFile(f, c)
       PROVE  CatalogInv' /\ Entered /\ Decided /\ Recorded
              /\ (AnswersAreStored => AnswersAreStored')
  <2>1. content' \in [Files -> Contents]
    BY <1>11 DEF WriteFile, CatalogInv, CatalogTypeOK
  <2> QED
    BY <1>11, <2>1 DEF WriteFile, evaluatorVars, recorderVars, CatalogInv, CatalogTypeOK,
                       HeldInv, CallInv, Bound, AnswersAreStored
<1> QED
  BY <1>1, <1>2, <1>3, <1>4, <1>5, <1>6, <1>7, <1>8, <1>9, <1>10, <1>11 DEF CatalogNext

\* CatalogInv is an invariant.
LEMMA CatalogAlwaysInv == CatalogSpec => []CatalogInv
  BY CatalogInvInit, CatalogStep, PTL DEF CatalogSpec

\* The tables only ever hold rows of their types and at most one version of a
\* strategy is active (registry.py:99-134, 257-292, 319-359).
THEOREM CatalogAlwaysTyped == CatalogSpec => []CatalogTypeOK
<1>1. CatalogInv => CatalogTypeOK
  BY DEF CatalogInv
<1> QED
  BY <1>1, CatalogAlwaysInv, PTL

\* Every published signal follows from the version and the vector it names, for any
\* definitions, events and registrations in between.
THEOREM SignalsAlwaysReproducible == CatalogSpec => []SignalsReproducible
<1>1. CatalogInit => SignalsReproducible
  BY DEF CatalogInit, SignalsReproducible
<1>2. ASSUME CatalogInv, SignalsReproducible, [CatalogNext]_catalogVars
      PROVE  SignalsReproducible'
  <2>1. Entered /\ Decided
    BY <1>2, CatalogStep
  <2> QED
    BY <1>2, <2>1 DEF Entered, Decided, SignalsReproducible
<1> QED
  BY <1>1, <1>2, CatalogAlwaysInv, PTL DEF CatalogSpec

\* What record_file returned is what the table holds, for any number of recorders.
THEOREM AnswersAlwaysStored == CatalogSpec => []AnswersAreStored
<1>1. CatalogInit => AnswersAreStored
  BY DEF CatalogInit, AnswersAreStored
<1> QED
  BY <1>1, CatalogStep, CatalogAlwaysInv, PTL DEF CatalogSpec

\* An artifact names a version that was active during its call and a file of its
\* strategy, for any number of activations in between.
THEOREM EveryArtifactOfItsCall == CatalogSpec => ArtifactOfItsCall
<1>1. CatalogInv /\ [CatalogNext]_catalogVars => Recorded
  BY CatalogStep
<1> QED
  BY <1>1, CatalogAlwaysInv, PTL DEF CatalogSpec, ArtifactOfItsCall, Recorded

\* No registered definition decides on what a missing fact would have changed,
\* whatever its expression, for any vectors.
THEOREM DecisionsAreAlwaysStable == CatalogSpec => DecisionIsStable
<1> DEFINE Stable ==
      \A v \in DOMAIN rules' \ DOMAIN rules :
        LET rule == MeaningOf[rules'[v]]
        IN  rule.kind # "python" =>
              \A facts \in Vectors : \A known \in SUBSET DOMAIN facts :
                \/ Decide(rule, [x \in known |-> facts[x]])
                     \in {NoDecision, Decide(rule, facts)}
                \/ DOMAIN facts \cap DOMAIN rule.parameters # {}
<1>1. CatalogTypeOK' => Stable
  <2> SUFFICES ASSUME CatalogTypeOK', NEW v \in DOMAIN rules' \ DOMAIN rules,
                      MeaningOf[rules'[v]].kind # "python",
                      NEW facts \in Vectors, NEW known \in SUBSET DOMAIN facts,
                      DOMAIN facts \cap DOMAIN MeaningOf[rules'[v]].parameters = {}
               PROVE  Decide(MeaningOf[rules'[v]], [x \in known |-> facts[x]])
                        \in {NoDecision, Decide(MeaningOf[rules'[v]], facts)}
    OBVIOUS
  <2>1. rules'[v] \in Rules
    BY DEF CatalogTypeOK
  <2>2. IsTree(MeaningOf[rules'[v]].tree)
    BY <2>1, CatalogAssumption
  <2> HIDE DEF CatalogTypeOK
  <2> QED
    BY <2>2, DecideStable
<1>2. CatalogTypeOK' => [Stable]_catalogVars
  BY <1>1
<1> QED
  BY <1>2, CatalogAlwaysTyped, PTL DEF DecisionIsStable
=============================================================================
