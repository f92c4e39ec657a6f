----------------------------- MODULE Expressions -----------------------------
(***************************************************************************)
(* The expression language of strategies (expressions.py) and the decision *)
(* a definition makes on a feature vector (platform.py, _evaluate).        *)
(*                                                                         *)
(* A tree is the sequence of its nodes, operands before operators, the     *)
(* root last.  Values are booleans and exact rationals: rounding, floats   *)
(* that are not finite and strings are left out.                           *)
(***************************************************************************)
EXTENDS Integers, Sequences

\* True and False are the numbers 1 and 0 to arithmetic and comparison; only unary
\* minus and the result tell them from numbers.  Without denominator: an
\* ExpressionEvaluationError, or an ArithmeticError, which becomes one.
Number(n, d) == [bool |-> FALSE, n |-> n, d |-> d]
Truth(b) == [bool |-> TRUE, n |-> IF b THEN 1 ELSE 0, d |-> 1]
Error == Number(0, 0)
IsError(v) == v.d = 0
IsTrue(v) == v.n # 0

Signed(n, d) == IF d < 0 THEN Number(-n, -d) ELSE Number(n, d)

\* _BINARY: division by zero has no denominator; % rounds the quotient down.
Binary(op, x, y) ==
  LET quotient == Signed(x.n * y.d, x.d * y.n)
  IN  IF IsError(x) \/ IsError(y) THEN Error
      ELSE CASE op = "+" -> Number(x.n * y.d + y.n * x.d, x.d * y.d)
             [] op = "-" -> Number(x.n * y.d - y.n * x.d, x.d * y.d)
             [] op = "*" -> Number(x.n * y.n, x.d * y.d)
             [] op = "/" -> quotient
             [] op = "%" -> IF IsError(quotient) THEN Error
                ELSE LET whole == quotient.n \div quotient.d
                     IN  Number(x.n * y.d - whole * y.n * x.d, x.d * y.d)

Compare(op, x, y) ==
  LET left == x.n * y.d
      right == y.n * x.d
  IN  CASE op = "==" -> left = right
        [] op = "!=" -> left # right
        [] op = "<"  -> left < right
        [] op = "<=" -> left <= right
        [] op = ">"  -> left > right
        [] op = ">=" -> left >= right

Unary(op, x) ==
  IF IsError(x) THEN Error
  ELSE CASE op = "not" -> Truth(~IsTrue(x))
         [] op = "-"   -> IF x.bool THEN Error ELSE Number(-x.n, x.d)
         [] op = "+"   -> IF x.bool THEN Error ELSE x

\* Operands are evaluated from the left until one fails or stops: what comes after
\* it is not looked at.
InTurn(failing, stopping, stopped) ==
  LET ends == failing \cup stopping
  IN  IF ends = {} THEN Truth(~stopped)
      ELSE IF \E k \in failing : \A j \in ends : k <= j THEN Error
           ELSE Truth(stopped)

\* Mistake: a fact that is not there counts as zero.
LookUpOrZero(id, context) ==
  IF id \in DOMAIN context THEN context[id] ELSE Number(0, 1)

LookUp(id, context) == IF id \in DOMAIN context THEN context[id] ELSE Error

\* SafeExpression._evaluate of a node, `value' being the values of the nodes before it.
NodeValue(node, value, context) ==
  LET arg(k) == value[node.args[k]]
      failed == {k \in DOMAIN node.args : IsError(arg(k))}
      true == {k \in DOMAIN node.args : IsTrue(arg(k))}
      failedNext == {k \in DOMAIN node.cmps : IsError(arg(k + 1))}
      differing == {k \in DOMAIN node.cmps : ~Compare(node.cmps[k], arg(k), arg(k + 1))}
  IN  CASE node.op = "constant" -> node.value
        [] node.op = "name" -> LookUp(node.id, context)
        [] node.op = "and" -> InTurn(failed, DOMAIN node.args \ true, FALSE)
        [] node.op = "or" -> InTurn(failed, true, TRUE)
        [] node.op = "unary" -> Unary(node.sign, arg(1))
        [] node.op = "binary" -> Binary(node.sign, arg(1), arg(2))
        [] node.op = "compare" -> IF 1 \in failed THEN Error
                                  ELSE InTurn(failedNext, differing, FALSE)

Values(tree, context) ==
  LET value[i \in 1..Len(tree)] == NodeValue(tree[i], value, context)
  IN  value

ValueOf(tree, context) == Values(tree, context)[Len(tree)]

\* What ast.parse makes of an expression: a node has the operands its kind asks for,
\* and all of them come before it.
IsNode(node, i) ==
  /\ node.op \in {"constant", "name", "and", "or", "unary", "binary", "compare"}
  /\ node.op \notin {"constant", "name"} => node.args \in Seq(1..i - 1)
  /\ node.op = "unary" => Len(node.args) = 1
  /\ node.op = "binary" => Len(node.args) = 2
  /\ node.op = "compare" => node.cmps \in Seq(STRING) /\ Len(node.args) = Len(node.cmps) + 1

IsTree(tree) == Len(tree) \in Nat \ {0} /\ \A i \in 1..Len(tree) : IsNode(tree[i], i)

\* SafeExpression.evaluate: anything but a boolean is an error as well.
Evaluate(tree, context) ==
  LET value == ValueOf(tree, context) IN IF value.bool THEN value ELSE Error

-----------------------------------------------------------------------------
NoDecision == "none"

Joined(f, g) == [x \in DOMAIN f \cup DOMAIN g |-> IF x \in DOMAIN g THEN g[x] ELSE f[x]]

\* platform._evaluate of a declarative definition
Decide(rule, facts) ==
  LET result == Evaluate(rule.tree, Joined(facts, rule.parameters))
  IN  IF DOMAIN facts \cap DOMAIN rule.parameters # {} \/ IsError(result) THEN NoDecision
      ELSE IF IsTrue(result) THEN "enter_long" ELSE "watch"

\* A Python definition decides as its file says today, or not at all: a
\* PythonSandboxError of DockerPythonStrategyRunner.evaluate.
Decisions(rule, facts) ==
  IF rule.kind = "python" THEN {NoDecision, "watch", "enter_long", "exit_long"}
  ELSE {Decide(rule, facts)}
=============================================================================
