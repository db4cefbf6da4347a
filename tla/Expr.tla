--------------------------------- MODULE Expr ---------------------------------
(***************************************************************************)
(* The expressions of map and join: the parser over a sequence of lexemes, *)
(* and what evaluating a tree against a record faults on.  Numbers are not *)
(* computed: of a result only matters whether there is one.                *)
(***************************************************************************)
EXTENDS Naturals, Sequences

CONSTANTS
  Number,     \* a number literal
  Value,      \* the keyword `value`
  Fields,     \* names of attributes
  MaxTokens,  \* MAX_TOKENS
  MaxDepth    \* MAX_DEPTH

Operators == {"+", "-", "*", "/", "%", "^"}

Operands == {Number, Value} \cup Fields

Tokens == Operands \cup Operators \cup {"(", ")"}

Blank == " "

(* A number or a name is none of the other lexemes. *)
ASSUME ExprAssumption ==
  /\ MaxTokens \in Nat
  /\ MaxDepth \in Nat
  /\ Operands \cap (Operators \cup {"(", ")", Blank}) = {}

(* A tree, and the position of the first token after it. *)
Parsed(tree, pos) == [ok |-> TRUE, tree |-> tree, pos |-> pos]

Failed == [ok |-> FALSE]

(* The loop of lex over a text, given as a sequence of lexemes and blanks. *)
Upto(text) ==
  LET upto[i \in 0 .. Len(text)] ==
        IF i = 0 THEN <<>>
        ELSE IF text[i] = Blank THEN upto[i - 1] ELSE Append(upto[i - 1], text[i])
  IN  upto

(* lex *)
Lex(text) ==
  [ok |-> \A i \in DOMAIN text : text[i] \in Tokens \cup {Blank}, tokens |-> Upto(text)[Len(text)]]

(* The token at a position; past the end, what no case knows. *)
Peek(ts, pos) == IF pos \in DOMAIN ts THEN ts[pos] ELSE Blank

(* Faulty variant: subtraction groups to the right. *)
InfixRight(op) == CASE op \in {"+", "-"} -> <<1, 1>>
                    [] op \in {"*", "/", "%"} -> <<3, 4>>
                    [] op = "^" -> <<7, 6>>

(* The left and the right binding power. *)
Infix(op) == CASE op \in {"+", "-"} -> <<1, 2>>
               [] op \in {"*", "/", "%"} -> <<3, 4>>
               [] op = "^" -> <<7, 6>>

NegBp == 5

(* The arguments of Parser::expr: a position, the least binding power. *)
Calls(ts) == (1 .. Len(ts) + 1) \X ({0, NegBp} \cup {Infix(op)[2] : op \in Operators})

(* Parser::prefix; deeper is what the calls of expr one level down return. *)
Prefix(ts, deeper, pos) ==
  LET token == Peek(ts, pos)
      operand == deeper[<<pos + 1, NegBp>>]
      inner == deeper[<<pos + 1, 0>>]
  IN  CASE token = "-" -> IF operand.ok THEN Parsed(<<"neg", operand.tree>>, operand.pos) ELSE Failed
        [] token \in Operands -> Parsed(<<"leaf", token>>, pos + 1)
        [] token = "(" -> IF inner.ok /\ Peek(ts, inner.pos) = ")"
                          THEN Parsed(inner.tree, inner.pos + 1) ELSE Failed
        [] OTHER -> Failed

(* One turn of the loop of Parser::expr; where it breaks, it stays. *)
Turn(ts, deeper, minBp, lhs) ==
  LET op == Peek(ts, lhs.pos)
      rhs == deeper[<<lhs.pos + 1, Infix(op)[2]>>]
  IN  IF lhs.ok /\ op \in Operators /\ Infix(op)[1] >= minBp
      THEN IF rhs.ok THEN Parsed(<<op, lhs.tree, rhs.tree>>, rhs.pos) ELSE Failed
      ELSE lhs

(* Parser::expr from its first operand on: a turn takes a token at least. *)
Turns(ts, deeper, pos, minBp) ==
  LET turns[k \in 0 .. Len(ts)] ==
        IF k = 0 THEN Prefix(ts, deeper, pos) ELSE Turn(ts, deeper, minBp, turns[k - 1])
  IN  turns

(* Parser::expr by the levels MAX_DEPTH leaves below it: with none, an error. *)
Levels(ts) ==
  LET levels[room \in 0 .. MaxDepth + 1] ==
        [call \in Calls(ts) |->
           IF room = 0 THEN Failed ELSE Turns(ts, levels[room - 1], call[1], call[2])[Len(ts)]]
  IN  levels

(* Expr::parse *)
Parse(text) ==
  LET ts == Lex(text).tokens
      result == Levels(ts)[MaxDepth + 1][<<1, 0>>]
  IN  IF ~Lex(text).ok \/ ts = <<>> \/ Len(ts) > MaxTokens THEN Failed
      ELSE IF result.ok /\ result.pos = Len(ts) + 1 THEN result
      ELSE Failed

-----------------------------------------------------------------------------
(* Evaluation: a record says of each field whether it is a number, is      *)
(* missing, or is something else.                                          *)

NoFault == "none"

(* Record::numeric *)
FieldFault(rec, field) ==
  CASE rec[field] = "number" -> NoFault
    [] rec[field] = "missing" -> "missing"
    [] rec[field] = "text" -> "invalid"

LeafFault(leaf, rec) == IF leaf[2] \in Fields THEN FieldFault(rec, leaf[2]) ELSE NoFault

(* Faulty variant: the right operand is evaluated before the left one. *)
VisitRightFirst(pending, rec) ==
  LET tree == Head(pending) IN
  CASE tree[1] = "leaf" -> IF LeafFault(tree, rec) = NoFault THEN Tail(pending) ELSE pending
    [] tree[1] = "neg" -> <<tree[2]>> \o Tail(pending)
    [] OTHER -> <<tree[3], tree[2]>> \o Tail(pending)

(* Node::eval of the first of the pending nodes: its operands are next,    *)
(* from left to right; at an operand that faults it stays.                 *)
Visit(pending, rec) ==
  LET tree == Head(pending) IN
  CASE tree[1] = "leaf" -> IF LeafFault(tree, rec) = NoFault THEN Tail(pending) ELSE pending
    [] tree[1] = "neg" -> <<tree[2]>> \o Tail(pending)
    [] OTHER -> <<tree[2], tree[3]>> \o Tail(pending)

(* The nodes pending in an evaluation: a tree has a token for each node. *)
Walk(tree, rec) ==
  LET walk[n \in 0 .. MaxTokens] ==
        IF n = 0 THEN <<tree>>
        ELSE IF walk[n - 1] = <<>> THEN <<>> ELSE Visit(walk[n - 1], rec)
  IN  walk

(* Expr::eval: the fault it stops at, or that there is none. *)
Eval(tree, rec) ==
  LET rest == Walk(tree, rec)[MaxTokens]
  IN  IF rest = <<>> THEN NoFault ELSE LeafFault(Head(rest), rec)

-----------------------------------------------------------------------------
(* The language, as its documentation gives it: + - are the loosest, then  *)
(* * / %, then unary -, then ^, which groups to the right.  A phrase is    *)
(* the tree of the tokens from one to another, without its parentheses;    *)
(* its rank is that of its category (1 a sum, 2 a product, 3 a negation,   *)
(* 4 a power, 5 an operand or parentheses), and it is as deep as its right *)
(* operands, negations and parentheses nest.                               *)

Phrase(rank, from, to, tree, deep) ==
  [rank |-> rank, from |-> from, to |-> to, tree |-> tree, deep |-> deep]

Larger(m, n) == IF m > n THEN m ELSE n

Atoms(ts) ==
  {Phrase(5, i, i, <<"leaf", ts[i]>>, 0) : i \in {i \in DOMAIN ts : ts[i] \in Operands}}

Parens(ts, P) ==
  {Phrase(5, e.from - 1, e.to + 1, e.tree, e.deep + 1) :
     e \in {e \in P : Peek(ts, e.from - 1) = "(" /\ Peek(ts, e.to + 1) = ")"}}

Negations(ts, P) ==
  {Phrase(3, e.from - 1, e.to, <<"neg", e.tree>>, e.deep + 1) :
     e \in {e \in P : e.rank >= 3 /\ Peek(ts, e.from - 1) = "-"}}

Joined(ts, P, rank, ops, left, right) ==
  {Phrase(rank, e[1].from, e[2].to, <<Peek(ts, e[1].to + 1), e[1].tree, e[2].tree>>,
          Larger(e[1].deep, e[2].deep + 1)) :
     e \in {e \in P \X P : /\ e[1].rank >= left /\ e[2].rank >= right
                           /\ Peek(ts, e[1].to + 1) \in ops
                           /\ e[2].from = e[1].to + 2}}

(* The phrases given and those they make. *)
Longer(ts, P) ==
  UNION {P, Atoms(ts), Parens(ts, P), Negations(ts, P), Joined(ts, P, 4, {"^"}, 5, 3),
         Joined(ts, P, 2, {"*", "/", "%"}, 2, 3), Joined(ts, P, 1, {"+", "-"}, 1, 2)}

(* The phrases of up to so many tokens, and some that are longer. *)
Phrases(ts) ==
  LET upto[n \in 0 .. Len(ts)] ==
        IF n = 0 THEN {} ELSE Longer(ts, upto[n - 1])
  IN  upto

(* The trees the language gives a text within the limits of the parser. *)
Meanings(text) ==
  LET ts == Lex(text).tokens
  IN  IF Lex(text).ok /\ Len(ts) <= MaxTokens
      THEN {e.tree : e \in {e \in Phrases(ts)[Len(ts)] :
                              e.from = 1 /\ e.to = Len(ts) /\ e.deep <= MaxDepth}}
      ELSE {}

=============================================================================
