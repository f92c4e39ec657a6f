-------------------------- MODULE MCStrategyCatalog --------------------------
(***************************************************************************)
(* A small instance of StrategyCatalog: two strategies, one with two       *)
(* versions, and three kinds of behaviours.  In one, two plain rules are   *)
(* evaluated; in one, artifacts are recorded; in each of the others one of *)
(* many trees is registered, for DecisionIsStable.                         *)
(***************************************************************************)
EXTENDS StrategyCatalog, FiniteSets, TLC

CONSTANTS momentum1, momentum2, other1, own, foreign, r1, r2, c1, low, high

MCVersions == {momentum1, momentum2, other1}
MCStrategyOf ==
  [v \in MCVersions |-> IF v = other1 THEN "other" ELSE "momentum"]
MCRecorders == {r1, r2}
MCScopeOf == [r \in MCRecorders |-> "momentum"]
MCFiles == {own, foreign}
MCOwnerOf == [f \in MCFiles |-> IF f = own THEN "momentum" ELSE "other"]

\* A vector may lack any of two facts.  The two events are of one moment.
MCVectors ==
  UNION {[known -> {Truth(FALSE), Number(2, 1)}] : known \in SUBSET {"x", "y"}}
MCEvents == {low, high}
MCFactsOf == [e \in MCEvents |-> [x |-> Number(IF e = low THEN 0 ELSE 2, 1)]]
MCAsofOf == [e \in MCEvents |-> 0]

Name(id) == [op |-> "name", id |-> id]
Constant(n) == [op |-> "constant", value |-> Number(n, 1)]
Node(op, sign, args) == [op |-> op, sign |-> sign, args |-> args]
Chain(args, cmps) == [op |-> "compare", args |-> args, cmps |-> cmps]

\* Three families of trees, numbered: l op m <= n, chains l < m == n, and x == 0
\* joined with y, negated, signed or both.
X == Name("x")
Y == Name("y")
Two == Constant(2)
Pick(options, unit, i) == options[((i \div unit) % Len(options)) + 1]
Leaf(unit, i) == Pick(<<X, Y, Constant(0), Two>>, unit, i)
Arithmetic == [i \in 1..160 |->
  <<Pick(<<X, Two>>, 1, i), Leaf(2, i),
    Node("binary", Pick(<<"+", "-", "*", "/", "%">>, 8, i), <<1, 2>>),
    Pick(<<Y, Two>>, 40, i), Chain(<<3, 4>>, <<Pick(<<"<=", "!=">>, 80, i)>>)>>]
Chains == [i \in 1..64 |->
  <<Pick(<<X, Y>>, 1, i), Leaf(2, i), Pick(<<X, Y>>, 8, i),
    Chain(<<1, 2, 3>>, <<Pick(<<"<", ">=">>, 16, i), Pick(<<"==", ">">>, 32, i)>>)>>]
Junctions == [i \in 1..24 |->
  <<X, Constant(0), Chain(<<1, 2>>, <<Pick(<<"==", ">">>, 1, i)>>), Y,
    Node("unary", Pick(<<"-", "+", "not">>, 2, i), <<4>>), Node("unary", "not", <<5>>),
    Node(Pick(<<"and", "or">>, 6, i), "", <<3, Pick(<<5, 6>>, 12, i)>>)>>]
Trees == Arithmetic \o Chains \o Junctions

Rule(tree) == [kind |-> "safe_expression", tree |-> tree, parameters |-> <<>>]
Threshold == [kind |-> "parameterized", parameters |-> [level |-> Number(1, 1)],
  tree |-> <<X, Name("level"), Chain(<<1, 2>>, <<">">>)>>]
Reserved == [Threshold EXCEPT !.parameters = [level |-> Number(1, 1), x |-> Number(0, 1)]]
Python == [kind |-> "python", tree |-> <<>>, parameters |-> <<>>]

MCMeaningOf == <<Threshold, Python, Reserved>> \o [i \in DOMAIN Trees |-> Rule(Trees[i])]
MCRules == DOMAIN MCMeaningOf
MCOffers == {{1, 2}} \cup {{rule} : rule \in MCRules \ {1}}

\* The constraint.  Evaluators and recorders only share the table of versions: they
\* are explored apart, and recorders once there are two versions that say nothing.
\* A tree is only registered.
NoRecording == now = 0 /\ artifacts = {} /\ \A r \in Recorders : at[r] = "idle"
NoEvaluation == job = None /\ signals = {}
MCBound ==
  /\ content[foreign] = c1
  /\ Cardinality(signals) <= 2
  /\ NoRecording \/ (offered = {2} /\ {momentum1, momentum2} \subseteq DOMAIN rules)
  /\ NoRecording => content[own] = c1
  /\ offered # {1, 2} => NoEvaluation /\ other1 \notin DOMAIN rules
  /\ offered \cap {1, 2} = {} => DOMAIN rules \subseteq {momentum1}

MCSymmetry == Permutations(MCRecorders)
=============================================================================
